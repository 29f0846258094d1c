------------------------ MODULE RoutingPolicyProofs ------------------------
(***************************************************************************)
(* Facts about the operators of RoutingPolicy, for the proofs about the    *)
(* modules that are built from them.                                       *)
(***************************************************************************)
EXTENDS RoutingPolicy, FiniteSetTheorems, SequenceTheorems, NaturalsInduction, TLAPS

\* Deleting an account from a list of members leaves a list of members.
LEMMA WithoutType ==
  ASSUME NEW s \in MemberList, NEW a
  PROVE  Without(s, a) \in MemberList
<1>1. CASE a \in Range(s)
  <2> DEFINE p == CHOOSE i \in DOMAIN s : s[i] = a
             head == SubSeq(s, 1, p - 1)
             tail == SubSeq(s, p + 1, Len(s))
             t == head \o tail
  <2>1. s \in Seq(AccountId) /\ Len(s) \in Nat
    BY DEF MemberList
  <2>2. p \in 1 .. Len(s)
    BY <1>1, <2>1 DEF Range
  <2>3. Without(s, a) = t
    BY <1>1 DEF Without, RemoveAt
  <2> HIDE DEF p
  <2>4. /\ head \in Seq(AccountId) /\ Len(head) = p - 1
        /\ \A i \in 1 .. p - 1 : head[i] = s[i]
    BY <2>1, <2>2
  <2>5. /\ tail \in Seq(AccountId) /\ Len(tail) = Len(s) - p
        /\ \A i \in 1 .. Len(s) - p : tail[i] = s[p + i]
    BY <2>1, <2>2
  <2> HIDE DEF head, tail
  <2>6. /\ t \in Seq(AccountId) /\ Len(t) = Len(s) - 1
        /\ \A i \in 1 .. Len(t) : t[i] = IF i < p THEN s[i] ELSE s[i + 1]
    BY <2>1, <2>2, <2>4, <2>5
  <2> HIDE DEF t
  <2>7. IsInjective(t)
    <3>1. \A i, j \in 1 .. Len(s) : s[i] = s[j] => i = j
      BY <2>1 DEF MemberList, IsInjective
    <3>2. Len(t) \in Nat /\ DOMAIN t = 1 .. Len(t)
      BY <2>6
    <3>3. ASSUME NEW i \in 1 .. Len(t), NEW j \in 1 .. Len(t), t[i] = t[j]
          PROVE  i = j
      <4>1. LET k == IF i < p THEN i ELSE i + 1
                l == IF j < p THEN j ELSE j + 1
            IN  k \in 1 .. Len(s) /\ l \in 1 .. Len(s) /\ s[k] = s[l]
        BY <2>1, <2>2, <2>6, <3>2, <3>3
      <4> QED BY <2>1, <2>2, <2>6, <3>1, <3>2, <4>1
    <3> QED BY <3>2, <3>3 DEF IsInjective
  <2> QED BY <2>3, <2>6, <2>7 DEF MemberList
<1>2. CASE a \notin Range(s)
  BY <1>2 DEF Without
<1> QED BY <1>1, <1>2

\* A cooldown lasts a whole number of seconds, and at least one after a failure.
LEMMA CooldownSecondsType ==
  ASSUME NEW n \in Nat
  PROVE  cooldownSeconds(n) \in Nat
BY RoutingPolicyAssumption DEF cooldownSeconds, AtMost, PowerOfTwo

\* FailurePolicy maps rows to rows.
LEMMA FailureRecordedType ==
  ASSUME NEW x \in Row, NEW t \in Nat
  PROVE  FailureRecorded(x, t) \in Row
<1>1. x.consecutiveFailures + 1 \in Nat
  BY DEF Row
<1>2. t + cooldownSeconds(x.consecutiveFailures + 1) \in Nat
  BY <1>1, CooldownSecondsType
<1> QED BY <1>1, <1>2 DEF FailureRecorded, Row

LEMMA SuccessRecordedType ==
  ASSUME NEW x \in Row
  PROVE  SuccessRecorded(x) \in Row
BY DEF SuccessRecorded, Row

\* Deleting an account from a group leaves a group.
LEMMA MembershipDeletedType ==
  ASSUME NEW g \in Group, NEW a \in AccountId
  PROVE  MembershipDeleted(g, a) \in Group
<1> DEFINE manual == IF g.manual = a THEN NoAccount ELSE g.manual
           lastIndex == IF g.manual = a THEN -1 ELSE g.lastIndex
           members == Without(g.members, a)
<1>1. members \in MemberList
  BY WithoutType DEF Group
<1>2. manual \in AccountId \cup {NoAccount} /\ lastIndex \in Int
  BY DEF Group
<1>3. MembershipDeleted(g, a) =
        [g EXCEPT !.members = members, !.manual = manual, !.lastIndex = lastIndex]
  BY DEF MembershipDeleted
<1> HIDE DEF manual, lastIndex, members
<1> QED BY <1>1, <1>2, <1>3 DEF Group

\* A decision names a candidate that was not excluded, that is eligible, and
\* that the strategy may use: the operator's choice, or an API credential.
LEMMA DecisionIsSelectable ==
  ASSUME NEW g, NEW candidates, NEW now, NEW excludedIds,
         NEW d \in selectInternal(g, candidates, now, excludedIds)
  PROVE  \E c \in candidates :
           /\ c.id = d.id /\ d.id \notin excludedIds
           /\ eligible(c.row, now)
           /\ IF g.strategy = "MANUAL" THEN d.id = g.manual ELSE automaticRoutingCapable(c.row)
<1> DEFINE selectable == Selectable(g, candidates, now, excludedIds)
           ids == {k.id : k \in selectable}
<1>1. d.id \in ids
  <2>1. CASE g.strategy = "MANUAL"
    BY <2>1 DEF selectInternal
  <2>2. CASE g.strategy = "ROUND_ROBIN"
    BY <2>2 DEF selectInternal
  <2>3. CASE g.strategy \notin {"MANUAL", "ROUND_ROBIN"}
    BY <2>3 DEF selectInternal
  <2> QED BY <2>1, <2>2, <2>3
<1>2. PICK k \in selectable : k.id = d.id
  BY <1>1
<1>3. g.strategy = "MANUAL" => d.id = g.manual
  BY DEF selectInternal
<1> QED BY <1>2, <1>3 DEF Selectable

\* The cursor of a decision is the cursor as it was, or a position.
LEMMA DecisionIndex ==
  ASSUME NEW g \in Group, NEW candidates, NEW now, NEW excludedIds,
         NEW d \in selectInternal(g, candidates, now, excludedIds)
  PROVE  d.index \in Int
<1> DEFINE selectable == Selectable(g, candidates, now, excludedIds)
<1>1. g.lastIndex \in Int /\ Len(g.members) \in Nat /\ g.enabled
  BY DEF Group, MemberList, selectInternal
<1>2. CASE g.strategy = "MANUAL"
  BY <1>1, <1>2 DEF selectInternal
<1>3. CASE g.strategy = "ROUND_ROBIN"
  BY <1>1, <1>3 DEF selectInternal
<1>4. CASE g.strategy \notin {"MANUAL", "ROUND_ROBIN"}
  <2>1. d \in {[id |-> c.id, index |-> g.lastIndex] :
                 c \in {b \in selectable :
                          \A o \in selectable \ {b} : Before(g.strategy, b, o)}}
    BY <1>1, <1>4, Zenon DEF selectInternal
  <2> HIDE DEF selectable
  <2> QED BY <1>1, <2>1
<1> QED BY <1>2, <1>3, <1>4

-----------------------------------------------------------------------------
(* Select has an answer, and one only: the order in which a strategy       *)
(* prefers candidates is total, and a finite set has a least element.      *)

LEMMA LeastNumber ==
  ASSUME NEW T, T \subseteq Nat, T # {}
  PROVE  \E m \in T : \A n \in T : m <= n
<1> DEFINE less == {p \in Nat \X Nat : p[1] < p[2]}
<1>1. IsWellFoundedOn(less, Nat)
  BY NatLessThanWellFounded, Zenon DEF OpToRel
<1>2. \A m \in Nat, n \in Nat : n < m => <<n, m>> \in less
  OBVIOUS
<1> HIDE DEF less
<1>3. PICK m \in T : \A n \in T : <<n, m>> \notin less
  BY <1>1, WFMin
<1>4. ASSUME NEW n \in T PROVE m <= n
  <2>1. m \in Nat /\ n \in Nat /\ <<n, m>> \notin less
    BY <1>3
  <2>2. ~ (n < m)
    BY <2>1, <1>2, Zenon
  <2> QED BY <2>1, <2>2
<1> QED BY <1>4

\* The order of a relation on a set.
TransitiveOn(X, R) ==
  \A x \in X, y \in X, z \in X : <<x, y>> \in R /\ <<y, z>> \in R => <<x, z>> \in R

TotalOn(X, R) == \A x \in X, y \in X : x # y => <<x, y>> \in R \/ <<y, x>> \in R

\* A finite set with a total order has a least element: the smallest subset
\* without one would have none when any element is left out.
LEMMA LeastElement ==
  ASSUME NEW X, IsFiniteSet(X), X # {}, NEW R, TransitiveOn(X, R), TotalOn(X, R)
  PROVE  \E m \in X : \A o \in X \ {m} : <<m, o>> \in R
<1> DEFINE Least(S) == \E m \in S : \A o \in S \ {m} : <<m, o>> \in R
           Bad(n) == \E S \in SUBSET X : S # {} /\ ~ Least(S) /\ Cardinality(S) = n
           sizes == {n \in Nat : Bad(n)}
<1> SUFFICES ASSUME ~ Least(X) PROVE FALSE
  OBVIOUS
<1>1. \A S \in SUBSET X : IsFiniteSet(S) /\ Cardinality(S) \in Nat
  BY FS_Subset, FS_CardinalityType
<1>2. X \in SUBSET X
  OBVIOUS
<1>3. Cardinality(X) \in sizes
  BY <1>1, <1>2
<1>4. PICK n \in sizes : \A k \in sizes : n <= k
  <2> HIDE DEF sizes
  <2>1. sizes \subseteq Nat
    BY DEF sizes
  <2> QED BY <1>3, <2>1, LeastNumber
<1>5. PICK S \in SUBSET X : S # {} /\ ~ Least(S) /\ Cardinality(S) = n
  BY <1>4
<1>6. PICK x \in S : TRUE
  BY <1>5
<1> DEFINE rest == S \ {x}
<1>7. IsFiniteSet(S) /\ rest \in SUBSET X /\ Cardinality(rest) = n - 1 /\ n \in Nat
  BY <1>1, <1>5, <1>6, FS_RemoveElement
<1>8. rest # {} => Least(rest)
  <2>1. PICK k \in Nat : k = Cardinality(rest) /\ k < n
    <3> HIDE DEF sizes, rest
    <3>1. Cardinality(rest) \in Nat /\ Cardinality(rest) < n
      BY <1>1, <1>7
    <3> QED BY <3>1
  <2>2. k \notin sizes
    <3> HIDE DEF sizes
    <3> QED BY <2>1, <1>4, <1>7
  <2>3. ~ Bad(k)
    BY <2>1, <2>2
  <2> HIDE DEF Least, rest
  <2> QED BY <2>1, <2>3, <1>7
<1>9. CASE rest = {}
  BY <1>5, <1>6, <1>9
<1>10. CASE rest # {}
  <2>1. PICK m \in rest : \A o \in rest \ {m} : <<m, o>> \in R
    BY <1>7, <1>8, <1>10
  <2>2. m \in X /\ x \in X /\ m # x /\ S \subseteq X /\ (<<m, x>> \in R \/ <<x, m>> \in R)
    BY <1>5, <1>6, <2>1 DEF TotalOn
  <2>3. CASE <<m, x>> \in R
    <3>1. \A o \in S \ {m} : <<m, o>> \in R
      BY <2>1, <2>3
    <3> QED BY <1>5, <2>1, <3>1
  <2>4. CASE <<x, m>> \in R
    <3>1. \A o \in S \ {x} : <<x, o>> \in R
      BY <2>1, <2>2, <2>4 DEF TransitiveOn
    <3> QED BY <1>5, <1>6, <3>1
  <2> QED BY <2>2, <2>3, <2>4
<1> QED BY <1>9, <1>10

Key == [1 .. 5 -> Int]

LEMMA KeyLessCases ==
  ASSUME NEW k \in Key, NEW l \in Key
  PROVE  KeyLess(k, l) <=>
           \/ k[1] < l[1]
           \/ k[1] = l[1] /\ k[2] < l[2]
           \/ k[1] = l[1] /\ k[2] = l[2] /\ k[3] < l[3]
           \/ k[1] = l[1] /\ k[2] = l[2] /\ k[3] = l[3] /\ k[4] < l[4]
           \/ k[1] = l[1] /\ k[2] = l[2] /\ k[3] = l[3] /\ k[4] = l[4] /\ k[5] < l[5]
<1>1. KeyLess(k, l) <=>
        \/ k[1] < l[1] /\ \A j \in 1 .. 0 : k[j] = l[j]
        \/ k[2] < l[2] /\ \A j \in 1 .. 1 : k[j] = l[j]
        \/ k[3] < l[3] /\ \A j \in 1 .. 2 : k[j] = l[j]
        \/ k[4] < l[4] /\ \A j \in 1 .. 3 : k[j] = l[j]
        \/ k[5] < l[5] /\ \A j \in 1 .. 4 : k[j] = l[j]
  BY DEF KeyLess
<1>2. /\ 1 .. 0 = {} /\ 1 .. 1 = {1} /\ 1 .. 2 = {1, 2} /\ 1 .. 3 = {1, 2, 3}
      /\ 1 .. 4 = {1, 2, 3, 4}
  OBVIOUS
<1> QED BY <1>1, <1>2, Zenon

\* Keys are totally ordered.
LEMMA KeyOrder ==
  /\ \A k \in Key, l \in Key : ~ (KeyLess(k, l) /\ KeyLess(l, k))
  /\ \A k \in Key, l \in Key, m \in Key : KeyLess(k, l) /\ KeyLess(l, m) => KeyLess(k, m)
  /\ \A k \in Key, l \in Key :
       (\E i \in {3, 5} : k[i] # l[i]) => KeyLess(k, l) \/ KeyLess(l, k)
<1>1. ASSUME NEW k \in Key, NEW l \in Key, NEW m \in Key
      PROVE  KeyLess(k, l) /\ KeyLess(l, m) => KeyLess(k, m)
  <2>1. \A i \in 1 .. 5 : k[i] \in Int /\ l[i] \in Int /\ m[i] \in Int
    BY DEF Key
  <2> QED BY <2>1, KeyLessCases
<1>2. ASSUME NEW k \in Key, NEW l \in Key
      PROVE  /\ ~ (KeyLess(k, l) /\ KeyLess(l, k))
             /\ (\E i \in {3, 5} : k[i] # l[i]) => KeyLess(k, l) \/ KeyLess(l, k)
  <2>1. \A i \in 1 .. 5 : k[i] \in Int /\ l[i] \in Int
    BY DEF Key
  <2> QED BY <2>1, KeyLessCases
<1> QED BY <1>1, <1>2

\* What the strategies compare.
Candidate == [id : AccountId, row : Row, used : Nat \cup {UnknownUse}]

LEMMA CandidateKey ==
  ASSUME NEW s, NEW c \in Candidate
  PROVE  /\ KeyOf(s, c) \in Key
         /\ IF s = "PRIORITY" THEN KeyOf(s, c)[3] = c.id ELSE KeyOf(s, c)[5] = c.id
<1>1. /\ c.id \in Int /\ c.used \in Int /\ -c.row.priority \in Int
      /\ statusRank(c.row) \in Int /\ KnownFirst(c) \in Int /\ UseIfKnown(c) \in Int
  <2>1. c.id \in AccountId /\ c.row \in Row /\ c.used \in Nat \cup {-1}
    BY DEF Candidate, UnknownUse
  <2>2. c.row.priority \in Int
    BY <2>1 DEF Row
  <2>3. /\ statusRank(c.row) \in Int /\ KnownFirst(c) \in Int /\ UseIfKnown(c) \in Int
    BY <2>1 DEF statusRank, KnownFirst, UseIfKnown
  <2>4. c.id \in Int /\ c.used \in Int
    <3>1. AccountId \subseteq Int /\ Nat \cup {-1} \subseteq Int
      BY RoutingPolicyAssumption
    <3> QED BY <2>1, <3>1, Zenon
  <2>5. \A i \in Int : -i \in Int
    OBVIOUS
  <2> QED BY <2>2, <2>3, <2>4, <2>5, Zenon
<1> DEFINE p == -c.row.priority
           r == statusRank(c.row)
           f == KnownFirst(c)
           u == UseIfKnown(c)
<1> HIDE DEF p, r, f, u
<1>2. /\ <<r, p, f, u, c.id>> \in Key /\ <<r, f, u, p, c.id>> \in Key
      /\ <<p, r, c.id, 0, 0>> \in Key
  BY <1>1 DEF Key, p, r, f, u
<1>3. /\ <<r, p, f, u, c.id>>[5] = c.id /\ <<r, f, u, p, c.id>>[5] = c.id
      /\ <<p, r, c.id, 0, 0>>[3] = c.id
  OBVIOUS
<1>4. KeyOf(s, c) = IF s = "LEAST_USED" THEN <<r, f, u, p, c.id>>
                    ELSE IF s = "PRIORITY" THEN <<p, r, c.id, 0, 0>>
                    ELSE <<r, p, f, u, c.id>>
  BY DEF KeyOf, LeastUsedKey, PriorityKey, HealthFirstKey, p, r, f, u
<1> QED BY <1>2, <1>3, <1>4

\* Two candidates of different accounts are never tied.
LEMMA BeforeOrder ==
  ASSUME NEW s
  PROVE  /\ \A c \in Candidate, d \in Candidate : ~ (Before(s, c, d) /\ Before(s, d, c))
         /\ \A c \in Candidate, d \in Candidate, e \in Candidate :
              Before(s, c, d) /\ Before(s, d, e) => Before(s, c, e)
         /\ \A c \in Candidate, d \in Candidate :
              c.id # d.id => Before(s, c, d) \/ Before(s, d, c)
<1>1. \A c \in Candidate :
        /\ KeyOf(s, c) \in Key
        /\ IF s = "PRIORITY" THEN KeyOf(s, c)[3] = c.id ELSE KeyOf(s, c)[5] = c.id
  BY CandidateKey
<1> QED BY <1>1, KeyOrder, Zenon DEF Before

LEMMA RemainderType ==
  ASSUME NEW x \in Int, NEW n \in Nat, n > 0
  PROVE  x % n \in 0 .. n - 1
OBVIOUS

\* Whenever some candidate is selectable, an automatic strategy selects one.
LEMMA SelectionExists ==
  ASSUME NEW g \in Group, g.enabled, g.strategy # "MANUAL",
         NEW candidates, candidates \subseteq Candidate, IsFiniteSet(candidates),
         NEW now, NEW excludedIds,
         \A c \in candidates : c.id \in Range(g.members),
         \A c \in candidates, d \in candidates : c.id = d.id => c = d,
         Selectable(g, candidates, now, excludedIds) # {}
  PROVE  selectInternal(g, candidates, now, excludedIds) # {}
<1> DEFINE selectable == Selectable(g, candidates, now, excludedIds)
           ids == {c.id : c \in selectable}
           hits == {i \in 0 .. Len(g.members) - 1 : g.members[i + 1] \in ids}
<1>1. selectable \subseteq candidates /\ selectable # {} /\ IsFiniteSet(selectable)
  <2>1. selectable \subseteq candidates
    BY DEF Selectable
  <2> QED BY <2>1, FS_Subset
<1>2. CASE g.strategy = "ROUND_ROBIN"
  <2> DEFINE offsets == {ScanOffset(g, h) : h \in hits}
  <2>1. hits # {}
    <3>1. PICK c \in selectable : c.id \in Range(g.members)
      BY <1>1
    <3>2. PICK j \in DOMAIN g.members : g.members[j] = c.id
      BY <3>1 DEF Range
    <3> DEFINE h == j - 1
    <3>3. h \in 0 .. Len(g.members) - 1 /\ h + 1 = j
      BY <3>2 DEF Group, MemberList
    <3> HIDE DEF selectable, h
    <3>4. g.members[h + 1] \in ids
      BY <3>1, <3>2, <3>3
    <3> QED BY <3>3, <3>4
  <2> HIDE DEF hits
  <2>2. \A h \in hits : ScanOffset(g, h) \in Nat
    <3>1. ASSUME NEW h \in hits PROVE ScanOffset(g, h) \in Nat
      <4>1. h \in Int /\ Len(g.members) \in Nat /\ Len(g.members) > 0 /\ g.lastIndex \in Int
        BY DEF hits, Group, MemberList
      <4>2. RoundRobinStart(g) \in Nat
        BY <4>1, RemainderType DEF RoundRobinStart
      <4> QED BY <4>1, <4>2, RemainderType DEF ScanOffset
    <3> QED BY <3>1
  <2>3. PICK m \in offsets : \A n \in offsets : m <= n
    <3>1. offsets \subseteq Nat /\ offsets # {}
      BY <2>1, <2>2
    <3> HIDE DEF offsets
    <3> QED BY <3>1, LeastNumber
  <2>4. PICK h \in hits : \A o \in hits : ScanOffset(g, h) <= ScanOffset(g, o)
    <3>1. PICK h \in hits : m = ScanOffset(g, h)
      BY <2>3
    <3>2. \A o \in hits : ScanOffset(g, o) \in offsets
      OBVIOUS
    <3> HIDE DEF offsets
    <3> QED BY <2>3, <3>1, <3>2
  <2>5. selectInternal(g, candidates, now, excludedIds) =
          {[id |-> g.members[i + 1], index |-> i] :
             i \in {j \in hits : \A o \in hits : ScanOffset(g, j) <= ScanOffset(g, o)}}
    BY <1>2, Zenon DEF selectInternal, hits
  <2>6. [id |-> g.members[h + 1], index |-> h] \in selectInternal(g, candidates, now, excludedIds)
    BY <2>4, <2>5, Zenon
  <2> QED BY <2>6
<1>3. CASE g.strategy # "ROUND_ROBIN"
  <2> DEFINE order == {p \in selectable \X selectable : Before(g.strategy, p[1], p[2])}
  <2> HIDE DEF selectable
  <2>1. \A x \in selectable, y \in selectable :
          <<x, y>> \in order <=> Before(g.strategy, x, y)
    OBVIOUS
  <2>2. TransitiveOn(selectable, order)
    BY <1>1, <2>1, BeforeOrder, Zenon DEF TransitiveOn
  <2>3. TotalOn(selectable, order)
    <3> SUFFICES ASSUME NEW x \in selectable, NEW y \in selectable, x # y
                 PROVE  <<x, y>> \in order \/ <<y, x>> \in order
      BY DEF TotalOn
    <3>1. x \in Candidate /\ y \in Candidate /\ x.id # y.id
      BY <1>1
    <3> QED BY <2>1, <3>1, BeforeOrder, Zenon
  <2> HIDE DEF order
  <2>4. PICK m \in selectable : \A o \in selectable \ {m} : <<m, o>> \in order
    BY <1>1, <2>2, <2>3, LeastElement
  <2>5. m \in {d \in selectable : \A o \in selectable \ {d} : Before(g.strategy, d, o)}
    BY <2>1, <2>4
  <2>6. selectInternal(g, candidates, now, excludedIds) =
          {[id |-> c.id, index |-> g.lastIndex] :
             c \in {d \in selectable : \A o \in selectable \ {d} : Before(g.strategy, d, o)}}
    BY <1>3, Zenon DEF selectInternal, selectable
  <2> QED BY <2>5, <2>6
<1> QED BY <1>2, <1>3

\* A list without repetition has as many entries as elements.
LEMMA InjectiveCount ==
  ASSUME NEW S, NEW s \in Seq(S), IsInjective(s)
  PROVE  IsFiniteSet(Range(s)) /\ Cardinality(Range(s)) = Len(s)
<1>1. s \in [1 .. Len(s) -> Range(s)] /\ Len(s) \in Nat
  BY DEF Range
<1>2. s \in Surjection(1 .. Len(s), Range(s))
  BY <1>1 DEF Surjection, Range
<1>3. s \in Injection(1 .. Len(s), Range(s))
  BY <1>1 DEF Injection, IsInjective
<1>4. IsFiniteSet(1 .. Len(s)) /\ Cardinality(1 .. Len(s)) = Len(s)
  <2>1. 1 \in Int /\ Len(s) \in Int /\ Len(s) - 1 + 1 = Len(s)
    BY <1>1
  <2>2. /\ IsFiniteSet(1 .. Len(s))
        /\ Cardinality(1 .. Len(s)) = IF 1 > Len(s) THEN 0 ELSE Len(s) - 1 + 1
    BY <2>1, FS_Interval, Zenon
  <2> QED BY <1>1, <2>2
<1> QED BY <1>2, <1>3, <1>4, FS_Surjection

\* How far the scan of a group goes to position i.
LEMMA ScanOffsetIs ==
  ASSUME NEW g \in Group, NEW i \in 0 .. Len(g.members) - 1
  PROVE  LET n == Len(g.members)
             s == RoundRobinStart(g)
         IN  /\ n \in Nat \ {0} /\ s \in 0 .. n - 1
             /\ ScanOffset(g, i) = (IF s <= i THEN i - s ELSE i - s + n)
             /\ ScanOffset(g, i) \in 0 .. n - 1
             /\ g.lastIndex \in 0 .. n - 1 =>
                  s = (IF g.lastIndex + 1 = n THEN 0 ELSE g.lastIndex + 1)
<1> DEFINE n == Len(g.members)
           s == RoundRobinStart(g)
           c == g.lastIndex
<1>1. n \in Nat \ {0} /\ c \in Int /\ i \in 0 .. n - 1
  BY DEF Group, MemberList
<1>2. s = (c + 1 + n) % n /\ ScanOffset(g, i) = (i - s + n) % n
  BY DEF RoundRobinStart, ScanOffset
<1> HIDE DEF n, s, c
<1>3. \A x \in Nat : /\ x < n => x % n = x
                     /\ n <= x /\ x < n + n => x % n = x - n
                     /\ x = n + n => x % n = 0
  BY <1>1
<1>4. s \in 0 .. n - 1
  BY <1>1, <1>2, RemainderType
<1>5. ScanOffset(g, i) = IF s <= i THEN i - s ELSE i - s + n
  <2>1. i - s + n \in Nat
    BY <1>1, <1>4
  <2>2. CASE s <= i
    <3>1. n <= i - s + n /\ i - s + n < n + n /\ i - s + n - n = i - s
      BY <1>1, <1>4, <2>2
    <3> DEFINE x == i - s + n
    <3>2. x \in Nat /\ n <= x /\ x < n + n
      BY <2>1, <3>1
    <3>3. x % n = x - n
      <4> HIDE DEF x
      <4> QED BY <1>3, <3>2
    <3> QED BY <1>1, <1>2, <1>4, <2>2, <3>1, <3>3
  <2>3. CASE ~ (s <= i)
    <3>1. i - s + n < n
      BY <1>1, <1>4, <2>3
    <3> QED BY <1>2, <1>3, <2>1, <2>3, <3>1
  <2> QED BY <2>2, <2>3
<1>6. c \in 0 .. n - 1 => s = IF c + 1 = n THEN 0 ELSE c + 1
  <2> SUFFICES ASSUME c \in 0 .. n - 1 PROVE s = IF c + 1 = n THEN 0 ELSE c + 1
    OBVIOUS
  <2>1. c + 1 + n \in Nat
    BY <1>1
  <2>2. CASE c + 1 = n
    <3>1. c + 1 + n = n + n
      BY <1>1, <2>2
    <3> QED BY <1>2, <1>3, <2>1, <2>2, <3>1
  <2>3. CASE c + 1 # n
    <3>1. n <= c + 1 + n /\ c + 1 + n < n + n /\ c + 1 + n - n = c + 1
      BY <1>1, <2>3
    <3> DEFINE x == c + 1 + n
    <3>2. x \in Nat /\ n <= x /\ x < n + n
      BY <2>1, <3>1
    <3>3. x % n = x - n
      <4> HIDE DEF x
      <4> QED BY <1>3, <3>2
    <3> QED BY <1>1, <1>2, <2>3, <3>1, <3>3
  <2> QED BY <2>2, <2>3
<1>7. ScanOffset(g, i) \in 0 .. n - 1
  BY <1>1, <1>4, <1>5
<1> QED BY <1>1, <1>4, <1>5, <1>6, <1>7 DEF n, s, c

\* When the cursor moves to position h, the scan begins after it: what was
\* further away than h is nearer by as much, and the rest comes after that.
LEMMA ScanMoves ==
  ASSUME NEW g \in Group, NEW h \in 0 .. Len(g.members) - 1, NEW i \in 0 .. Len(g.members) - 1,
         NEW k \in Group, k = [g EXCEPT !.lastIndex = h]
  PROVE  ScanOffset(k, i) =
           IF ScanOffset(g, h) < ScanOffset(g, i)
           THEN ScanOffset(g, i) - ScanOffset(g, h) - 1
           ELSE ScanOffset(g, i) - ScanOffset(g, h) - 1 + Len(g.members)
<1> DEFINE n == Len(g.members)
           s == RoundRobinStart(g)
           e == RoundRobinStart(k)
           to(j) == ScanOffset(g, j)
<1>1. Len(k.members) = n /\ k.lastIndex = h
  BY DEF Group
<1>2. /\ n \in Nat \ {0} /\ s \in 0 .. n - 1
      /\ ScanOffset(g, i) = IF s <= i THEN i - s ELSE i - s + n
  BY ScanOffsetIs
<1>3. ScanOffset(g, h) = IF s <= h THEN h - s ELSE h - s + n
  BY ScanOffsetIs
<1>4. /\ e = IF h + 1 = n THEN 0 ELSE h + 1
      /\ ScanOffset(k, i) = IF e <= i THEN i - e ELSE i - e + n
  BY <1>1, ScanOffsetIs
<1> HIDE DEF n, s, e, to
<1>5. h \in 0 .. n - 1 /\ i \in 0 .. n - 1
  BY DEF n
<1>6. /\ to(i) = IF s <= i THEN i - s ELSE i - s + n
      /\ to(h) = IF s <= h THEN h - s ELSE h - s + n
  BY <1>2, <1>3 DEF to
<1>7. ScanOffset(k, i) = IF to(h) < to(i) THEN to(i) - to(h) - 1 ELSE to(i) - to(h) - 1 + n
  <2>1. CASE h + 1 = n
    BY <1>2, <1>4, <1>5, <1>6, <2>1
  <2>2. CASE h + 1 # n /\ h < i
    BY <1>2, <1>4, <1>5, <1>6, <2>2
  <2>3. CASE h + 1 # n /\ ~ (h < i)
    BY <1>2, <1>4, <1>5, <1>6, <2>3
  <2> QED BY <2>1, <2>2, <2>3
<1> QED BY <1>7 DEF n, to

\* Round robin selects the member the scan meets first.
LEMMA ScanDecision ==
  ASSUME NEW g, g.strategy = "ROUND_ROBIN", NEW candidates, NEW now, NEW excludedIds,
         NEW d \in selectInternal(g, candidates, now, excludedIds)
  PROVE  LET ids == {c.id : c \in Selectable(g, candidates, now, excludedIds)}
         IN  /\ d.index \in 0 .. Len(g.members) - 1
             /\ d = [id |-> g.members[d.index + 1], index |-> d.index]
             /\ d.id \in ids
             /\ \A i \in 0 .. Len(g.members) - 1 :
                  g.members[i + 1] \in ids => ScanOffset(g, d.index) <= ScanOffset(g, i)
<1> DEFINE ids == {c.id : c \in Selectable(g, candidates, now, excludedIds)}
           hits == {i \in 0 .. Len(g.members) - 1 : g.members[i + 1] \in ids}
<1>1. d \in {[id |-> g.members[i + 1], index |-> i] :
               i \in {j \in hits : \A o \in hits : ScanOffset(g, j) <= ScanOffset(g, o)}}
  BY Zenon DEF selectInternal
<1> HIDE DEF ids
<1>2. PICK h \in hits : /\ d = [id |-> g.members[h + 1], index |-> h]
                        /\ \A o \in hits : ScanOffset(g, h) <= ScanOffset(g, o)
  BY <1>1
<1>3. d.index = h /\ d.id = g.members[h + 1]
  BY <1>2
<1> QED BY <1>2, <1>3 DEF ids

\* No strategy leaves a choice.
LEMMA SelectionUnique ==
  ASSUME NEW g \in Group,
         NEW candidates, candidates \subseteq Candidate,
         NEW now, NEW excludedIds,
         \A c \in candidates, d \in candidates : c.id = d.id => c = d,
         NEW d \in selectInternal(g, candidates, now, excludedIds),
         NEW e \in selectInternal(g, candidates, now, excludedIds)
  PROVE  d = e
<1> DEFINE selectable == Selectable(g, candidates, now, excludedIds)
           ids == {c.id : c \in selectable}
<1>1. CASE g.strategy = "MANUAL"
  <2>1. selectInternal(g, candidates, now, excludedIds)
          \subseteq {[id |-> i, index |-> g.lastIndex] : i \in ids \cap {g.manual}}
    BY <1>1 DEF selectInternal
  <2> HIDE DEF ids
  <2> QED BY <2>1
<1>2. CASE g.strategy = "ROUND_ROBIN"
  <2> DEFINE n == Len(g.members)
             s == RoundRobinStart(g)
  <2>1. /\ d.index \in 0 .. n - 1 /\ e.index \in 0 .. n - 1
        /\ d = [id |-> g.members[d.index + 1], index |-> d.index]
        /\ e = [id |-> g.members[e.index + 1], index |-> e.index]
        /\ ScanOffset(g, d.index) <= ScanOffset(g, e.index)
        /\ ScanOffset(g, e.index) <= ScanOffset(g, d.index)
    <3>1. /\ d.index \in 0 .. n - 1 /\ d.id \in ids
          /\ d = [id |-> g.members[d.index + 1], index |-> d.index]
          /\ \A i \in 0 .. n - 1 :
               g.members[i + 1] \in ids => ScanOffset(g, d.index) <= ScanOffset(g, i)
      BY <1>2, ScanDecision
    <3>2. /\ e.index \in 0 .. n - 1 /\ e.id \in ids
          /\ e = [id |-> g.members[e.index + 1], index |-> e.index]
          /\ \A i \in 0 .. n - 1 :
               g.members[i + 1] \in ids => ScanOffset(g, e.index) <= ScanOffset(g, i)
      BY <1>2, ScanDecision
    <3>3. d.id = g.members[d.index + 1] /\ e.id = g.members[e.index + 1]
      BY <3>1, <3>2
    <3> HIDE DEF ids, n
    <3> QED BY <3>1, <3>2, <3>3
  <2>2. \A i \in 0 .. n - 1 :
          /\ n \in Nat \ {0} /\ s \in 0 .. n - 1
          /\ ScanOffset(g, i) = IF s <= i THEN i - s ELSE i - s + n
    BY ScanOffsetIs
  <2>3. d.index = e.index
    <3> DEFINE p == d.index
               q == e.index
    <3>1. /\ p \in 0 .. n - 1 /\ q \in 0 .. n - 1 /\ ScanOffset(g, p) <= ScanOffset(g, q)
          /\ ScanOffset(g, q) <= ScanOffset(g, p)
      BY <2>1
    <3>2. /\ n \in Nat \ {0} /\ s \in 0 .. n - 1
          /\ ScanOffset(g, p) = IF s <= p THEN p - s ELSE p - s + n
          /\ ScanOffset(g, q) = IF s <= q THEN q - s ELSE q - s + n
      BY <2>2, <3>1
    <3> HIDE DEF n, s, p, q
    <3>3. p = q
      BY <3>1, <3>2
    <3> QED BY <3>3 DEF p, q
  <2> QED BY <2>1, <2>3
<1>3. CASE g.strategy \notin {"MANUAL", "ROUND_ROBIN"}
  <2> DEFINE least == {c \in selectable : \A o \in selectable \ {c} : Before(g.strategy, c, o)}
  <2>1. selectInternal(g, candidates, now, excludedIds)
          \subseteq {[id |-> c.id, index |-> g.lastIndex] : c \in least}
    BY <1>3, Zenon DEF selectInternal
  <2>2. selectable \subseteq candidates
    BY DEF Selectable
  <2> HIDE DEF selectable
  <2>3. \A x \in least, y \in least : x = y
    <3>1. ASSUME NEW x \in least, NEW y \in least, x # y PROVE FALSE
      <4>1. Before(g.strategy, x, y) /\ Before(g.strategy, y, x)
        BY <3>1
      <4>2. x \in Candidate /\ y \in Candidate
        BY <2>2
      <4> QED BY <4>1, <4>2, BeforeOrder, Zenon
    <3> QED BY <3>1
  <2> HIDE DEF least
  <2>4. PICK x \in least : d = [id |-> x.id, index |-> g.lastIndex]
    BY <2>1
  <2>5. PICK y \in least : e = [id |-> y.id, index |-> g.lastIndex]
    BY <2>1
  <2> QED BY <2>3, <2>4, <2>5
<1> QED BY <1>1, <1>2, <1>3

\* What is decided depends on the candidates that are left, and on nothing else
\* of the candidates.
LEMMA SelectionOf ==
  ASSUME NEW g, NEW C, NEW D, NEW now, NEW excludedIds,
         Selectable(g, C, now, excludedIds) = Selectable(g, D, now, excludedIds)
  PROVE  selectInternal(g, C, now, excludedIds) = selectInternal(g, D, now, excludedIds)
BY Zenon DEF selectInternal

\* The latest usage that is known is a number.
LEMMA LatestUsedType ==
  ASSUME NEW h \in Seq([snapshot : Nat, used : Nat])
  PROVE  latestUsedPercent(h) \in Nat \cup {UnknownUse}
<1>1. CASE h = <<>>
  BY <1>1 DEF latestUsedPercent
<1>2. CASE h # <<>>
  <2> DEFINE same == {i \in DOMAIN h : \A j \in 1 .. i : h[j].snapshot = h[1].snapshot}
             uses == {h[i].used : i \in same}
             more == {p \in Nat \X Nat : p[1] > p[2]}
  <2>1. DOMAIN h = 1 .. Len(h) /\ Len(h) \in Nat /\ Len(h) > 0
    BY <1>2, LenProperties, EmptySeq
  <2>2. 1 \in same
    BY <2>1
  <2>3. IsFiniteSet(same)
    <3>1. IsFiniteSet(1 .. Len(h)) /\ same \subseteq 1 .. Len(h)
      BY <2>1, FS_Interval
    <3> QED BY <3>1, FS_Subset
  <2>4. IsFiniteSet(uses)
    <3> DEFINE f == [i \in same |-> h[i].used]
    <3> HIDE DEF same
    <3>1. f \in Surjection(same, uses)
      BY DEF Surjection
    <3> QED BY <2>3, <3>1, FS_Surjection
  <2>5. uses \subseteq Nat /\ uses # {} /\ \A i \in same : h[i].used \in uses
    <3>1. \A i \in 1 .. Len(h) : h[i] \in [snapshot : Nat, used : Nat]
      BY ElementOfSeq
    <3>2. \A i \in 1 .. Len(h) : h[i].used \in Nat
      BY <3>1
    <3>3. \A i \in same : h[i].used \in Nat
      BY <2>1, <3>2
    <3> HIDE DEF same
    <3> QED BY <2>2, <3>3
  <2> HIDE DEF uses
  <2>6. TransitiveOn(uses, more) /\ TotalOn(uses, more)
    BY <2>5 DEF TransitiveOn, TotalOn
  <2>7. PICK m \in uses : \A o \in uses \ {m} : <<m, o>> \in more
    BY <2>4, <2>5, <2>6, LeastElement
  <2>8. \A o \in uses : m >= o
    <3>1. ASSUME NEW o \in uses PROVE m >= o
      <4>1. m \in Nat /\ o \in Nat
        BY <2>5
      <4>2. m = o \/ <<m, o>> \in more
        BY <2>7
      <4> QED BY <4>1, <4>2
    <3> QED BY <3>1
  <2>9. \E u \in uses : \A i \in same : u >= h[i].used
    BY <2>5, <2>8
  <2>10. latestUsedPercent(h) = CHOOSE u \in uses : \A i \in same : u >= h[i].used
    BY <1>2 DEF latestUsedPercent, uses
  <2> QED BY <2>5, <2>9, <2>10
<1> QED BY <1>1, <1>2

=============================================================================
