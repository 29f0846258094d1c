---------------------------- MODULE AccountStorageProofs ----------------------------
(***************************************************************************)
(* Theorems about AccountStorage, for every set of accounts and threads,   *)
(* every installation, and however many steps fail, processes end and      *)
(* outages there are.                                                      *)
(***************************************************************************)
EXTENDS AccountStorage, FiniteSetTheorems, SequenceTheorems, TLAPS

-----------------------------------------------------------------------------
(* Scripts.  What follows what in a script does not change while the       *)
(* script is run: it holds of every tail of it.                            *)

\* The steps that are followed by a step of the same transaction, and the steps
\* of a transaction.
Opening == {"begin", "leave", "unpin", "dropWindows", "dropSnapshots", "dropRow", "snapshot",
            "rowid", "window", "group", "dropMembers", "member"}
Inner   == (Opening \ {"begin"}) \cup {"commit", "rollback"}

\* The steps of a save, but for its commit.
Saving == {"group", "dropMembers", "member"}

\* y may follow x.
Adjacent(x, y) ==
  /\ y.op \in Inner <=> x.op \in Opening
  /\ x.op = "begin" => y.op \in {"leave", "snapshot", "group"} /\ y.id = x.id
  /\ x.op = "leave" => y = Do("unpin", x.id)
  /\ x.op = "unpin" => y = Do("dropWindows", x.id)
  /\ x.op = "dropWindows" => y = Do("dropSnapshots", x.id)
  /\ x.op = "dropSnapshots" => y = Do("dropRow", x.id)
  /\ x.op = "dropRow" => y = CommitOf("remove", x.id)
  /\ x.op = "snapshot" => y = Do("rowid", x.id)
  /\ x.op = "rowid" => y = Do("window", x.id)
  /\ x.op = "window" => y = CommitOf("quota", x.id)
  /\ x.op = "group" => y.op = "dropMembers"
  /\ x.op \in {"dropMembers", "member"} =>
       y.op = "member" \/ (y.op = "commit" /\ y.for = "save")
  /\ x.op = "commit" => x.for \in {"remove", "quota"}
  /\ x.op = "commit" /\ x.for = "remove" => y = Do("removeHome", x.id)
  /\ x.op = "commit" /\ x.for = "quota" => y.op = "update"
  /\ x.op = "log" => y.op = "prune"
  /\ x.op = "truncate" => y.op = "write" /\ y.id = x.id
  /\ x.op = "forget" => y = Do("remove", x.id)
  /\ x.op = "remove" => y.op = "begin" /\ y.id = x.id
  /\ x.op \in {"store", "unfile", "write"} => y.op = "update"
  /\ x.op \notin {"update", "removeHome", "find", "nextId", "insert", "list", "scan", "rollback",
                  "prune", "clear"}
  /\ y.op = "window" => x.op = "rowid"
  /\ y.op = "unpin" => x.op = "leave"
  /\ y.op = "removeHome" => x = CommitOf("remove", y.id)
  /\ y.op = "write" => x.op = "truncate"
  /\ y.op = "remove" => x.op = "forget"
  /\ y.op \notin {"unfile", "truncate", "choose", "scan"}

\* x may be the last step.
Ends(x) == x.op \notin Opening \cup {"truncate", "forget", "log"}

\* The members that are inserted from step i on.
MembersFrom(s, i) == {s[j].id : j \in {k \in i .. Len(s) : s[k].op = "member"}}

\* The steps of a save are followed by its commit, which names the group they make.
SaveOK(s) ==
  \A i \in 1 .. Len(s) :
    /\ s[i].op \in Saving => s[Len(s)].op = "commit" /\ s[Len(s)].for = "save"
    /\ s[i].op = "group" =>
         /\ s[i].strategy = s[Len(s)].group.strategy /\ s[i].manual = s[Len(s)].group.manual
         /\ s[i].manual \in MembersFrom(s, i) \cup {NoOne}
    /\ s[i].op = "dropMembers" => MembersFrom(s, i) = s[Len(s)].group.members

Linked(s) ==
  /\ s \in Seq(AnyStep)
  /\ \A i \in 1 .. Len(s) - 1 : Adjacent(s[i], s[i + 1])

Sound(s) == Linked(s) /\ (s # <<>> => Ends(s[Len(s)])) /\ SaveOK(s)

\* What a step is when its name is known.
LEMMA StepType ==
  ASSUME NEW x \in AnyStep
  PROVE  /\ x.op \in {"begin", "rollback"} => x.id \in AccountId \cup {NoOne}
         /\ x.op \in {"leave", "unpin", "dropWindows", "dropSnapshots", "dropRow", "snapshot",
                      "rowid", "window", "member", "check", "nextId", "insert", "createHome",
                      "removeHome", "removeTree", "find", "update"} => x.id \in AccountId
         /\ x.op \in {"group", "dropMembers", "commit"} => x.id \in AccountId \cup {NoOne}
         /\ x.op \in {"truncate", "forget", "remove", "store", "unfile", "write"} => x.id \in Ref
         /\ x.op \in {"store", "unfile", "write"} => x.secret \in Secret
         /\ x.op = "find" => x.for \in OnAccount
         /\ x.op = "update" => x.row \in Row
         /\ x.op = "choose" => x.members \in SUBSET AccountId
         /\ x.op = "scan" => x.known \in SUBSET AccountId
         /\ x.op = "group" => x.strategy \in Strategy /\ x.manual \in AccountId \cup {NoOne}
         /\ x.op = "commit" =>
              \/ x.for \in {"remove", "quota"} /\ x.id \in AccountId
              \/ x.for = "save" /\ x.group \in Group
BY DEF AnyStep

LEMMA TailOf ==
  ASSUME NEW S, NEW s \in Seq(S), s # <<>>
  PROVE  /\ Tail(s) \in Seq(S) /\ Len(Tail(s)) = Len(s) - 1 /\ Len(s) \in Nat \ {0}
         /\ \A i \in 1 .. Len(s) - 1 : Tail(s)[i] = s[i + 1]
         /\ Head(s) = s[1] /\ Head(s) \in S
BY EmptySeq, LenProperties, HeadTailProperties

\* A script goes on as it should.
LEMMA SoundTail ==
  ASSUME NEW s, Sound(s), s # <<>>
  PROVE  /\ Sound(Tail(s)) /\ s[1] \in AnyStep
         /\ Tail(s) = <<>> => Ends(s[1])
         /\ Tail(s) # <<>> => Adjacent(s[1], Tail(s)[1])
<1> DEFINE r == Tail(s)
<1>1. s \in Seq(AnyStep)
  BY DEF Sound, Linked
<1>2. /\ r \in Seq(AnyStep) /\ Len(r) = Len(s) - 1 /\ Len(s) \in Nat \ {0}
      /\ \A i \in 1 .. Len(s) - 1 : r[i] = s[i + 1]
      /\ s[1] \in AnyStep
  BY <1>1, TailOf
<1> HIDE DEF r
<1>3. r = <<>> <=> Len(r) = 0
  BY <1>2, EmptySeq
<1>4. \A i \in 1 .. Len(r) - 1 : Adjacent(r[i], r[i + 1])
  <2>1. ASSUME NEW i \in 1 .. Len(r) - 1 PROVE Adjacent(r[i], r[i + 1])
    <3>1. r[i] = s[i + 1] /\ r[i + 1] = s[(i + 1) + 1] /\ i + 1 \in 1 .. Len(s) - 1
      BY <1>2
    <3> QED BY <3>1 DEF Sound, Linked
  <2> QED BY <2>1
<1>5. r # <<>> => r[Len(r)] = s[Len(s)] /\ Ends(r[Len(r)]) /\ Adjacent(s[1], r[1])
  <2>1. ASSUME r # <<>> PROVE r[Len(r)] = s[Len(s)] /\ r[1] = s[1 + 1] /\ 1 \in 1 .. Len(s) - 1
    BY <1>2, <1>3, <2>1
  <2> QED BY <2>1 DEF Sound, Linked
<1>6. SaveOK(r)
  <2> SUFFICES ASSUME NEW i \in 1 .. Len(r)
               PROVE  /\ r[i].op \in Saving => r[Len(r)].op = "commit" /\ r[Len(r)].for = "save"
                      /\ r[i].op = "group" =>
                           /\ r[i].strategy = r[Len(r)].group.strategy
                           /\ r[i].manual = r[Len(r)].group.manual
                           /\ r[i].manual \in MembersFrom(r, i) \cup {NoOne}
                      /\ r[i].op = "dropMembers" => MembersFrom(r, i) = r[Len(r)].group.members
    BY DEF SaveOK
  <2>1. r[Len(r)] = s[Len(s)] /\ r[i] = s[i + 1] /\ i + 1 \in 1 .. Len(s)
    BY <1>2, <1>3, <1>5
  <2>2. MembersFrom(r, i) = MembersFrom(s, i + 1)
    <3>1. \A j \in i .. Len(r) : j + 1 \in i + 1 .. Len(s) /\ r[j] = s[j + 1]
      BY <1>2
    <3>2. \A j \in i + 1 .. Len(s) : j - 1 \in i .. Len(r) /\ r[j - 1] = s[j]
      <4>1. ASSUME NEW j \in i + 1 .. Len(s) PROVE j - 1 \in i .. Len(r) /\ r[j - 1] = s[j]
        <5>1. j - 1 \in i .. Len(r) /\ j - 1 \in 1 .. Len(s) - 1 /\ (j - 1) + 1 = j
          BY <1>2
        <5> QED BY <1>2, <5>1
      <4> QED BY <4>1
    <3>3. ASSUME NEW x \in MembersFrom(r, i) PROVE x \in MembersFrom(s, i + 1)
      <4>1. PICK j \in i .. Len(r) : r[j].op = "member" /\ x = r[j].id
        BY <3>3 DEF MembersFrom
      <4> QED BY <3>1, <4>1 DEF MembersFrom
    <3>4. ASSUME NEW x \in MembersFrom(s, i + 1) PROVE x \in MembersFrom(r, i)
      <4>1. PICK j \in i + 1 .. Len(s) : s[j].op = "member" /\ x = s[j].id
        BY <3>4 DEF MembersFrom
      <4> QED BY <3>2, <4>1 DEF MembersFrom
    <3> QED BY <3>3, <3>4
  <2> QED BY <2>1, <2>2 DEF Sound, SaveOK
<1>7. r = <<>> => Ends(s[1])
  <2>1. ASSUME r = <<>> PROVE Len(s) = 1
    BY <1>2, <1>3, <2>1
  <2> QED BY <2>1 DEF Sound
<1> QED BY <1>2, <1>4, <1>5, <1>6, <1>7 DEF r, Sound, Linked

\* Steps in front of a script, none of them of a save.
LEMMA SoundConcat ==
  ASSUME NEW s, Linked(s), s # <<>>, \A i \in 1 .. Len(s) : s[i].op \notin Saving,
         NEW r, Sound(r),
         r = <<>> => Ends(s[Len(s)]),
         r # <<>> => Adjacent(s[Len(s)], r[1])
  PROVE  /\ Sound(s \o r) /\ s \o r # <<>> /\ (s \o r)[1] = s[1]
         /\ Len(s \o r) = Len(s) + Len(r)
         /\ \A i \in 1 .. Len(s) : (s \o r)[i] = s[i]
         /\ \A i \in 1 .. Len(r) : (s \o r)[Len(s) + i] = r[i]
<1> DEFINE q == s \o r
<1>1. s \in Seq(AnyStep) /\ r \in Seq(AnyStep)
  BY DEF Sound, Linked
<1>2. Len(s) \in Nat \ {0} /\ Len(r) \in Nat /\ (r = <<>> <=> Len(r) = 0)
  BY <1>1, EmptySeq, LenProperties
<1>3. /\ q \in Seq(AnyStep) /\ Len(q) = Len(s) + Len(r)
      /\ \A i \in 1 .. Len(q) : q[i] = IF i <= Len(s) THEN s[i] ELSE r[i - Len(s)]
  BY <1>1, ConcatProperties
<1> HIDE DEF q
<1>4. \A i \in 1 .. Len(s) : q[i] = s[i]
  BY <1>2, <1>3
<1>5. \A i \in 1 .. Len(r) : q[Len(s) + i] = r[i]
  <2>1. ASSUME NEW i \in 1 .. Len(r) PROVE q[Len(s) + i] = r[i]
    <3>1. Len(s) + i \in 1 .. Len(q) /\ ~ Len(s) + i <= Len(s) /\ (Len(s) + i) - Len(s) = i
      BY <1>2, <1>3
    <3> QED BY <1>3, <3>1
  <2> QED BY <2>1
<1>6. q # <<>> /\ q[1] = s[1]
  BY <1>2, <1>3, <1>4, EmptySeq
<1>7. \A i \in 1 .. Len(q) - 1 : Adjacent(q[i], q[i + 1])
  <2>1. ASSUME NEW i \in 1 .. Len(q) - 1 PROVE Adjacent(q[i], q[i + 1])
    <3>1. CASE i < Len(s)
      <4>1. i \in 1 .. Len(s) - 1 /\ i \in 1 .. Len(s) /\ i + 1 \in 1 .. Len(s)
        BY <1>2, <3>1
      <4> QED BY <1>4, <4>1 DEF Linked
    <3>2. CASE i = Len(s)
      <4>1. q[i] = s[Len(s)] /\ q[i + 1] = r[1] /\ r # <<>>
        BY <1>2, <1>3, <1>4, <1>5, <3>2
      <4> QED BY <4>1
    <3>3. CASE i > Len(s)
      <4>1. PICK j \in 1 .. Len(r) - 1 : i = Len(s) + j /\ i + 1 = Len(s) + (j + 1)
        <5>1. i - Len(s) \in 1 .. Len(r) - 1 /\ i = Len(s) + (i - Len(s))
              /\ i + 1 = Len(s) + ((i - Len(s)) + 1)
          BY <1>2, <1>3, <3>3
        <5> QED BY <5>1
      <4>2. j \in 1 .. Len(r) /\ j + 1 \in 1 .. Len(r)
        BY <1>2
      <4>3. q[i] = r[j] /\ q[i + 1] = r[j + 1]
        BY <1>5, <4>1, <4>2
      <4> QED BY <4>1, <4>3 DEF Sound, Linked
    <3> QED BY <1>2, <3>1, <3>2, <3>3
  <2> QED BY <2>1
<1>8. Ends(q[Len(q)]) /\ (r # <<>> => q[Len(q)] = r[Len(r)])
  <2>1. CASE r = <<>>
    <3>1. Len(q) = Len(s) /\ Len(s) \in 1 .. Len(s)
      BY <1>2, <1>3, <2>1
    <3> QED BY <1>4, <2>1, <3>1
  <2>2. CASE r # <<>>
    <3>1. Len(r) \in 1 .. Len(r) /\ Len(q) = Len(s) + Len(r)
      BY <1>2, <1>3, <2>2
    <3> QED BY <1>5, <2>2, <3>1 DEF Sound
  <2> QED BY <2>1, <2>2
<1>9. SaveOK(q)
  <2> SUFFICES ASSUME NEW i \in 1 .. Len(q), q[i].op \in Saving
               PROVE  /\ q[Len(q)].op = "commit" /\ q[Len(q)].for = "save"
                      /\ q[i].op = "group" =>
                           /\ q[i].strategy = q[Len(q)].group.strategy
                           /\ q[i].manual = q[Len(q)].group.manual
                           /\ q[i].manual \in MembersFrom(q, i) \cup {NoOne}
                      /\ q[i].op = "dropMembers" => MembersFrom(q, i) = q[Len(q)].group.members
    BY DEF SaveOK, Saving
  <2>1. ~ i <= Len(s)
    BY <1>2, <1>4
  <2>2. PICK k \in 1 .. Len(r) : i = Len(s) + k
    <3>1. i - Len(s) \in 1 .. Len(r) /\ i = Len(s) + (i - Len(s))
      BY <1>2, <1>3, <2>1
    <3> QED BY <3>1
  <2>3. q[i] = r[k] /\ q[Len(q)] = r[Len(r)]
    BY <1>2, <1>5, <1>8, <2>2
  <2>4. MembersFrom(q, i) = MembersFrom(r, k)
    <3>1. ASSUME NEW x \in MembersFrom(q, i) PROVE x \in MembersFrom(r, k)
      <4>1. PICK j \in i .. Len(q) : q[j].op = "member" /\ x = q[j].id
        BY <3>1 DEF MembersFrom
      <4>2. PICK l \in k .. Len(r) : j = Len(s) + l
        <5>1. j - Len(s) \in k .. Len(r) /\ j = Len(s) + (j - Len(s))
          BY <1>2, <1>3, <2>2
        <5> QED BY <5>1
      <4>3. q[j] = r[l]
        BY <1>5, <4>2
      <4> QED BY <4>1, <4>2, <4>3 DEF MembersFrom
    <3>2. ASSUME NEW x \in MembersFrom(r, k) PROVE x \in MembersFrom(q, i)
      <4>1. PICK l \in k .. Len(r) : r[l].op = "member" /\ x = r[l].id
        BY <3>2 DEF MembersFrom
      <4>2. Len(s) + l \in i .. Len(q) /\ q[Len(s) + l] = r[l]
        BY <1>2, <1>3, <1>5, <2>2
      <4> QED BY <4>1, <4>2 DEF MembersFrom
    <3> QED BY <3>1, <3>2
  <2> QED BY <2>2, <2>3, <2>4 DEF Sound, SaveOK
<1> QED BY <1>3, <1>4, <1>5, <1>6, <1>7, <1>8, <1>9 DEF q, Sound, Linked

LEMMA Single ==
  ASSUME NEW x \in AnyStep, Ends(x), x.op \notin Saving
  PROVE  /\ Sound(<< x >>) /\ Linked(<< x >>) /\ << x >> # <<>> /\ Len(<< x >>) = 1 /\ << x >>[1] = x
<1> DEFINE s == << x >>
<1>1. s \in Seq(AnyStep) /\ Len(s) = 1 /\ s[1] = x /\ s # <<>>
  OBVIOUS
<1> HIDE DEF s
<1>2. \A i \in 1 .. Len(s) - 1 : Adjacent(s[i], s[i + 1])
  BY <1>1
<1>3. \A i \in 1 .. Len(s) : i = 1 /\ s[i] = x
  BY <1>1
<1>4. SaveOK(s)
  BY <1>3 DEF SaveOK, Saving
<1> QED BY <1>1, <1>2, <1>4 DEF s, Sound, Linked

\* The steps the scripts are made of.
LEMMA Steps ==
  ASSUME NEW a \in AccountId
  PROVE  /\ \A op \in {"begin", "leave", "unpin", "dropWindows", "dropSnapshots", "dropRow",
                       "snapshot", "rowid", "window", "member", "check", "nextId", "insert",
                       "createHome", "removeHome", "removeTree", "forget", "remove"} :
              Do(op, a) \in AnyStep
         /\ \A op \in {"remove", "quota"} : CommitOf(op, a) \in AnyStep
         /\ \A row \in Row : Update(a, row) \in AnyStep
         /\ \A op \in OnAccount : [op |-> "find", id |-> a, for |-> op] \in AnyStep
<1>1. \A op \in {"leave", "unpin", "dropWindows", "dropSnapshots", "dropRow", "snapshot", "rowid",
                 "member", "check", "nextId", "insert", "createHome", "removeHome", "removeTree"} :
        Do(op, a) \in AnyStep
  BY DEF AnyStep, Do
<1>2. Do("begin", a) \in AnyStep /\ Do("window", a) \in AnyStep
  BY DEF AnyStep, Do
<1>3. \A op \in {"forget", "remove"} : Do(op, a) \in AnyStep
  BY AccountStorageAssumption DEF AnyStep, Do
<1>4. \A op \in {"remove", "quota"} : CommitOf(op, a) \in AnyStep
  BY DEF AnyStep, CommitOf
<1>5. \A row \in Row : Update(a, row) \in AnyStep
  BY DEF AnyStep, Update
<1>6. \A op \in OnAccount : [op |-> "find", id |-> a, for |-> op] \in AnyStep
  BY DEF AnyStep
<1> QED BY <1>1, <1>2, <1>3, <1>4, <1>5, <1>6

LEMMA DeleteSound ==
  ASSUME NEW a \in AccountId, NEW r, r = <<>> \/ r = << Do("removeHome", a) >>
  PROVE  LET q == deleteAccount(a) \o r
         IN  /\ Sound(q) /\ q # <<>> /\ q[1] = Do("begin", a)
             /\ \A i \in 1 .. Len(q) : q[i].id = a /\ q[i].op \notin {"removeTree", "scan", "choose"}
<1> DEFINE s == deleteAccount(a)
           q == s \o r
<1>1. /\ Len(s) = 7 /\ s # <<>>
      /\ s[1] = Do("begin", a) /\ s[2] = Do("leave", a) /\ s[3] = Do("unpin", a)
      /\ s[4] = Do("dropWindows", a) /\ s[5] = Do("dropSnapshots", a) /\ s[6] = Do("dropRow", a)
      /\ s[7] = CommitOf("remove", a)
  BY DEF deleteAccount
<1>2. s \in Seq(AnyStep)
  BY Steps DEF deleteAccount
<1> HIDE DEF s
<1>3. \A i \in 1 .. Len(s) : i \in {1, 2, 3, 4, 5, 6, 7}
  BY <1>1
<1>4. \A i \in 1 .. Len(s) :
        /\ s[i].op \notin Saving /\ s[i].id = a
        /\ s[i].op \notin {"removeTree", "scan", "choose"}
  BY <1>1, <1>3 DEF Saving, Do, CommitOf
<1>5. Linked(s)
  <2>1. Adjacent(s[1], s[2])
    BY <1>1 DEF Adjacent, Inner, Opening, Do, CommitOf
  <2>2. Adjacent(s[2], s[3])
    BY <1>1 DEF Adjacent, Inner, Opening, Do, CommitOf
  <2>3. Adjacent(s[3], s[4])
    BY <1>1 DEF Adjacent, Inner, Opening, Do, CommitOf
  <2>4. Adjacent(s[4], s[5])
    BY <1>1 DEF Adjacent, Inner, Opening, Do, CommitOf
  <2>5. Adjacent(s[5], s[6])
    BY <1>1 DEF Adjacent, Inner, Opening, Do, CommitOf
  <2>6. Adjacent(s[6], s[7])
    BY <1>1 DEF Adjacent, Inner, Opening, Do, CommitOf
  <2>7. \A i \in 1 .. Len(s) - 1 : i \in {1, 2, 3, 4, 5, 6}
    BY <1>1
  <2> QED BY <1>2, <2>1, <2>2, <2>3, <2>4, <2>5, <2>6, <2>7 DEF Linked
<1>6. Ends(s[Len(s)])
  BY <1>1 DEF Ends, Opening, CommitOf
<1>7. Sound(r) /\ r \in Seq(AnyStep)
  <2>1. Sound(<<>>) /\ <<>> \in Seq(AnyStep)
    BY DEF Sound, Linked, SaveOK
  <2>2. Sound(<< Do("removeHome", a) >>) /\ << Do("removeHome", a) >> \in Seq(AnyStep)
    <3>1. Do("removeHome", a) \in AnyStep
      BY Steps
    <3> QED BY <3>1, Single DEF Ends, Opening, Saving, Do
  <2> QED BY <2>1, <2>2
<1>8. r # <<>> => r[1] = Do("removeHome", a) /\ Len(r) = 1
  OBVIOUS
<1>9. r # <<>> => Adjacent(s[Len(s)], r[1])
  BY <1>1, <1>8 DEF Adjacent, Inner, Opening, Do, CommitOf
<1>10. /\ Sound(q) /\ q # <<>> /\ q[1] = s[1] /\ Len(q) = Len(s) + Len(r)
       /\ \A i \in 1 .. Len(s) : q[i] = s[i]
       /\ \A i \in 1 .. Len(r) : q[Len(s) + i] = r[i]
  <2>1. s # <<>> /\ (\A i \in 1 .. Len(s) : s[i].op \notin Saving)
        /\ (r = <<>> => Ends(s[Len(s)]))
    BY <1>1, <1>4, <1>6
  <2>2. Linked(s) /\ Sound(r)
    BY <1>5, <1>7
  <2> QED BY <2>1, <2>2, <1>9, SoundConcat
<1>11. ASSUME NEW i \in 1 .. Len(q)
       PROVE  q[i].id = a /\ q[i].op \notin {"removeTree", "scan", "choose"}
  <2>1. CASE i <= 7
    <3>1. i \in 1 .. Len(s)
      BY <1>1, <2>1
    <3> QED BY <1>4, <1>10, <3>1
  <2>2. CASE i > 7
    <3>1. r # <<>>
      <4>1. SUFFICES ASSUME r = <<>> PROVE FALSE
        OBVIOUS
      <4>2. Len(r) = 0
        BY <4>1
      <4> QED BY <1>1, <1>10, <2>2, <4>2
    <3>2. i = Len(s) + 1 /\ 1 \in 1 .. Len(r)
      <4>1. Len(r) = 1 /\ Len(q) = 7 + Len(r)
        BY <1>1, <1>8, <1>10, <3>1
      <4> QED BY <1>1, <2>2, <4>1
    <3> QED BY <1>8, <1>10, <3>1, <3>2 DEF Do
  <2> QED BY <2>1, <2>2
<1> QED BY <1>1, <1>10, <1>11 DEF s

\* What an operation begins with.
Starts == {"forget", "begin", "store", "createHome", "update"}

\* The script of an operation on the account a.
OnlyAbout(q, a) ==
  /\ Sound(q) /\ q # <<>> /\ q[1].op \in Starts
  /\ \A i \in 1 .. Len(q) : q[i].id = a /\ q[i].op \notin {"removeTree", "scan", "choose"}

LEMMA EraseSound ==
  ASSUME NEW a \in AccountId, NEW r, OnlyAbout(r, a), r[1].op = "begin"
  PROVE  OnlyAbout(erase(a) \o r, a) /\ (erase(a) \o r)[1].op = "forget"
<1> DEFINE s == erase(a)
           q == s \o r
<1>1. Len(s) = 2 /\ s # <<>> /\ s[1] = Do("forget", a) /\ s[2] = Do("remove", a)
  BY DEF erase
<1>2. s \in Seq(AnyStep)
  BY Steps DEF erase
<1> HIDE DEF s
<1>3. \A i \in 1 .. Len(s) : i \in {1, 2}
  BY <1>1
<1>4. \A i \in 1 .. Len(s) : s[i].op \notin Saving
  BY <1>1, <1>3 DEF Saving, Do
<1>5. \A i \in 1 .. Len(s) : s[i].id = a /\ s[i].op \notin {"removeTree", "scan", "choose"}
  BY <1>1, <1>3 DEF Do
<1>6. Linked(s)
  <2>1. Adjacent(s[1], s[2])
    BY <1>1 DEF Adjacent, Inner, Opening, Do
  <2>2. \A i \in 1 .. Len(s) - 1 : i = 1
    BY <1>1
  <2> QED BY <1>2, <2>1, <2>2 DEF Linked
<1>7. Sound(r) /\ r # <<>>
  BY DEF OnlyAbout
<1>8. Adjacent(s[Len(s)], r[1])
  <2>1. r[1].id = a
    <3>1. 1 \in 1 .. Len(r)
      BY <1>7, EmptySeq, LenProperties DEF Sound, Linked
    <3> QED BY <3>1 DEF OnlyAbout
  <2> QED BY <1>1, <2>1 DEF Adjacent, Inner, Opening, Do
<1>9. /\ Sound(q) /\ q # <<>> /\ q[1] = s[1] /\ Len(q) = Len(s) + Len(r)
      /\ \A i \in 1 .. Len(s) : q[i] = s[i]
      /\ \A i \in 1 .. Len(r) : q[Len(s) + i] = r[i]
  <2>1. (\A i \in 1 .. Len(s) : s[i].op \notin Saving) /\ s # <<>>
    BY <1>1, <1>4
  <2>2. (r = <<>> => Ends(s[Len(s)])) /\ (r # <<>> => Adjacent(s[Len(s)], r[1]))
    BY <1>8, <1>7
  <2>3. Linked(s) /\ Sound(r)
    BY <1>6, <1>7
  <2> QED BY <2>1, <2>2, <2>3, SoundConcat
<1>10. Len(r) \in Nat
  BY <1>7 DEF Sound, Linked
<1>11. ASSUME NEW i \in 1 .. Len(q)
       PROVE  q[i].id = a /\ q[i].op \notin {"removeTree", "scan", "choose"}
  <2>1. CASE i <= 2
    <3>1. i \in 1 .. Len(s)
      BY <1>1, <2>1
    <3> QED BY <1>5, <1>9, <3>1
  <2>2. CASE i > 2
    <3>1. PICK k \in 1 .. Len(r) : i = Len(s) + k
      <4>1. i - 2 \in 1 .. Len(r) /\ i = Len(s) + (i - 2)
        BY <1>1, <1>9, <1>10, <2>2
      <4> QED BY <4>1
    <3> QED BY <1>9, <3>1 DEF OnlyAbout
  <2> QED BY <2>1, <2>2
<1> HIDE DEF q
<1>12. q[1].op = "forget"
  BY <1>1, <1>9 DEF Do
<1>13. OnlyAbout(q, a)
  BY <1>9, <1>11, <1>12 DEF OnlyAbout, Starts
<1> QED BY <1>12, <1>13 DEF q, s

LEMMA RemoveSound ==
  ASSUME NEW a \in AccountId, NEW row
  PROVE  /\ OnlyAbout(removeAccount(a, row), a)
         /\ row = "keyed" => removeAccount(a, row)[1].op = "forget"
<1> DEFINE home == IF a \in Codex THEN << Do("removeHome", a) >> ELSE <<>>
           r == deleteAccount(a) \o home
<1>1. home = <<>> \/ home = << Do("removeHome", a) >>
  OBVIOUS
<1>2. home \in Seq(AnyStep)
  BY <1>1, Steps
<1> HIDE DEF home
<1>3. OnlyAbout(r, a) /\ r[1].op = "begin"
  <2>1. /\ Sound(r) /\ r # <<>> /\ r[1] = Do("begin", a)
        /\ \A i \in 1 .. Len(r) : r[i].id = a /\ r[i].op \notin {"removeTree", "scan", "choose"}
    BY <1>1, DeleteSound
  <2> HIDE DEF r
  <2> QED BY <2>1 DEF OnlyAbout, Starts, Do
<1>4. deleteAccount(a) \in Seq(AnyStep)
  BY Steps DEF deleteAccount
<1>5. CASE row = "keyed"
  <2>1. removeAccount(a, row) = (erase(a) \o deleteAccount(a)) \o home
    BY <1>5 DEF removeAccount, home
  <2>2. erase(a) \in Seq(AnyStep)
    BY Steps DEF erase
  <2>3. removeAccount(a, row) = erase(a) \o r
    BY <1>2, <1>4, <2>1, <2>2, ConcatAssociative
  <2> HIDE DEF r
  <2> QED BY <1>3, <2>3, EraseSound
<1>6. CASE row # "keyed"
  <2>1. removeAccount(a, row) = (<<>> \o deleteAccount(a)) \o home
    BY <1>6 DEF removeAccount, home
  <2>2. <<>> \o deleteAccount(a) = deleteAccount(a)
    BY <1>4, ConcatEmptySeq
  <2> QED BY <1>3, <1>6, <2>1, <2>2
<1> QED BY <1>5, <1>6

LEMMA TwoInOne ==
  ASSUME NEW x, NEW y
  PROVE  << x >> \o << y >> = << x, y >>
<1> DEFINE S == {x, y}
           s == << x >>
           u == << y >>
           q == << x, y >>
<1>1. /\ s \in Seq(S) /\ u \in Seq(S) /\ q \in Seq(S)
      /\ Len(s) = 1 /\ Len(u) = 1 /\ Len(q) = 2
      /\ s[1] = x /\ u[1] = y /\ q[1] = x /\ q[2] = y
  OBVIOUS
<1> HIDE DEF S, s, u, q
<1>2. s \o u \in Seq(S) /\ Len(s \o u) = 1 + 1
      /\ \A i \in 1 .. 1 + 1 : (s \o u)[i] = IF i <= 1 THEN s[i] ELSE u[i - 1]
  <2>1. s \o u \in Seq(S) /\ Len(s \o u) = Len(s) + Len(u)
        /\ \A i \in 1 .. Len(s) + Len(u) :
             (s \o u)[i] = IF i <= Len(s) THEN s[i] ELSE u[i - Len(s)]
    BY <1>1, ConcatProperties
  <2> QED BY <1>1, <2>1
<1>3. (s \o u)[1] = x /\ (s \o u)[2] = y
  BY <1>1, <1>2
<1>4. \A i \in 1 .. Len(q) : q[i] = (s \o u)[i]
  <2>1. \A i \in 1 .. Len(q) : i = 1 \/ i = 2
    BY <1>1
  <2> QED BY <1>1, <1>3, <2>1
<1>5. q = s \o u
  BY <1>1, <1>2, <1>4, SeqEqual
<1> QED BY <1>5 DEF s, u, q

\* A script of two steps.
LEMMA TwoSteps ==
  ASSUME NEW a \in AccountId, NEW x \in AnyStep, NEW y \in AnyStep, Adjacent(x, y), Ends(y),
         x.op \in Starts, x.id = a, y.id = a,
         y.op \notin {"removeTree", "scan", "choose"} \cup Saving
  PROVE  OnlyAbout(<< x, y >>, a)
<1> DEFINE q == << x, y >>
<1>1. q \in Seq(AnyStep) /\ Len(q) = 2 /\ q # <<>> /\ q[1] = x /\ q[2] = y
  OBVIOUS
<1> HIDE DEF q
<1>2. \A i \in 1 .. Len(q) : i \in {1, 2}
  BY <1>1
<1>3. \A i \in 1 .. Len(q) - 1 : i = 1
  BY <1>1
<1>4. \A i \in 1 .. Len(q) :
        q[i].id = a /\ q[i].op \notin {"removeTree", "scan", "choose"} \cup Saving
  BY <1>1, <1>2 DEF Starts, Saving
<1>5. Linked(q) /\ Ends(q[Len(q)])
  BY <1>1, <1>3 DEF Linked
<1>6. SaveOK(q)
  BY <1>4 DEF SaveOK, Saving
<1> QED BY <1>1, <1>4, <1>5, <1>6 DEF q, OnlyAbout, Sound

\* The script of readQuota.
LEMMA QuotaSound ==
  ASSUME NEW a \in AccountId, NEW row \in Row
  PROVE  /\ OnlyAbout(readQuota(a, row), a)
         /\ \A i \in 1 .. Len(readQuota(a, row)) : readQuota(a, row)[i].op # "dropRow"
<1> DEFINE q == readQuota(a, row)
<1>1. /\ q \in Seq(AnyStep) /\ Len(q) = 6 /\ q # <<>>
      /\ q[1] = Do("begin", a) /\ q[2] = Do("snapshot", a) /\ q[3] = Do("rowid", a)
      /\ q[4] = Do("window", a) /\ q[5] = CommitOf("quota", a) /\ q[6] = Update(a, row)
  <2> DEFINE s == recordQuotaSnapshot(a)
             u == << Update(a, row) >>
  <2>1. /\ Len(s) = 5 /\ s[1] = Do("begin", a) /\ s[2] = Do("snapshot", a)
        /\ s[3] = Do("rowid", a) /\ s[4] = Do("window", a) /\ s[5] = CommitOf("quota", a)
    BY DEF recordQuotaSnapshot
  <2>2. Len(u) = 1 /\ u[1] = Update(a, row)
    OBVIOUS
  <2>3. s \in Seq(AnyStep) /\ u \in Seq(AnyStep)
    BY Steps DEF recordQuotaSnapshot
  <2>4. q = s \o u
    BY DEF readQuota
  <2> HIDE DEF q, s, u
  <2>5. /\ q \in Seq(AnyStep) /\ Len(q) = 5 + 1
        /\ \A i \in 1 .. 5 + 1 : q[i] = IF i <= 5 THEN s[i] ELSE u[i - 5]
    <3>1. q \in Seq(AnyStep) /\ Len(q) = Len(s) + Len(u)
          /\ \A i \in 1 .. Len(s) + Len(u) : q[i] = IF i <= Len(s) THEN s[i] ELSE u[i - Len(s)]
      BY <2>3, <2>4, ConcatProperties
    <3> QED BY <2>1, <2>2, <3>1
  <2>6. q[1] = s[1] /\ q[2] = s[2] /\ q[3] = s[3] /\ q[4] = s[4] /\ q[5] = s[5]
    BY <2>5
  <2>7. q[6] = u[1]
    BY <2>5
  <2>8. q # <<>>
    <3>1. ASSUME q = <<>> PROVE Len(q) = 0
      BY <3>1
    <3> QED BY <2>5, <3>1
  <2> QED BY <2>1, <2>2, <2>5, <2>6, <2>7, <2>8
<1> HIDE DEF q
<1>2. \A i \in 1 .. Len(q) : i \in {1, 2, 3, 4, 5, 6}
  BY <1>1
<1>3. \A i \in 1 .. Len(q) - 1 : i \in {1, 2, 3, 4, 5}
  BY <1>1
<1>4. \A i \in 1 .. Len(q) :
        /\ q[i].id = a
        /\ q[i].op \notin {"removeTree", "scan", "choose", "dropRow"} \cup Saving
  BY <1>1, <1>2 DEF Do, CommitOf, Update, Saving
<1>5. Linked(q)
  <2>1. Adjacent(q[1], q[2])
    BY <1>1 DEF Adjacent, Inner, Opening, Do
  <2>2. Adjacent(q[2], q[3])
    BY <1>1 DEF Adjacent, Inner, Opening, Do
  <2>3. Adjacent(q[3], q[4])
    BY <1>1 DEF Adjacent, Inner, Opening, Do
  <2>4. Adjacent(q[4], q[5])
    BY <1>1 DEF Adjacent, Inner, Opening, Do, CommitOf
  <2>5. Adjacent(q[5], q[6])
    BY <1>1 DEF Adjacent, Inner, Opening, CommitOf, Update
  <2> QED BY <1>1, <1>3, <2>1, <2>2, <2>3, <2>4, <2>5 DEF Linked
<1>6. Ends(q[Len(q)])
  BY <1>1 DEF Ends, Opening, Update
<1>7. SaveOK(q)
  BY <1>4 DEF SaveOK, Saving
<1>8. q[1].op \in Starts
  BY <1>1 DEF Starts, Do
<1> QED BY <1>1, <1>4, <1>5, <1>6, <1>7, <1>8 DEF q, OnlyAbout, Sound

\* The scripts of the operations on an account.
LEMMA RestSound ==
  ASSUME NEW a \in AccountId, NEW row \in Row, NEW op \in OnAccount, Fresh(a) \in Nat
  PROVE  /\ OnlyAbout(Rest(op, a, row), a)
         /\ op = "remove" /\ row = "keyed" => Rest(op, a, row)[1].op = "forget"
         /\ op # "remove" =>
              \A i \in 1 .. Len(Rest(op, a, row)) : Rest(op, a, row)[i].op # "dropRow"
<1>1. CASE op = "remove"
  BY <1>1, RemoveSound DEF Rest
<1>2. CASE op = "configure"
  <2> DEFINE x == [op |-> "store", id |-> a, secret |-> Fresh(a)]
             y == Update(a, "keyed")
  <2>1. Rest(op, a, row) = << x, y >>
    <3>1. Rest(op, a, row) = << x >> \o << y >>
      BY <1>2 DEF Rest, configureApiKey, put
    <3> HIDE DEF x, y
    <3> QED BY <3>1, TwoInOne
  <2>2. x \in AnyStep /\ x.op = "store" /\ x.id = a
    BY AccountStorageAssumption DEF AnyStep, Secret
  <2>3. y \in AnyStep /\ y.op = "update" /\ y.id = a
    BY Steps DEF Row, Update
  <2> HIDE DEF x, y
  <2>4. Adjacent(x, y) /\ Ends(y)
    BY <2>2, <2>3 DEF Adjacent, Ends, Inner, Opening
  <2>5. OnlyAbout(<< x, y >>, a)
    BY <2>2, <2>3, <2>4, TwoSteps DEF Starts, Saving
  <2>6. \A i \in 1 .. Len(<< x, y >>) : << x, y >>[i].op # "dropRow"
    BY <2>2, <2>3
  <2> QED BY <1>2, <2>1, <2>5, <2>6
<1>3. CASE op = "login"
  <2> DEFINE x == Do("createHome", a)
             y == Update(a, row)
  <2>1. Rest(op, a, row) = << x, y >>
    BY <1>3 DEF Rest, loginAccount
  <2>2. x \in AnyStep /\ x.op = "createHome" /\ x.id = a
    BY Steps DEF Do
  <2>3. y \in AnyStep /\ y.op = "update" /\ y.id = a
    BY Steps DEF Update
  <2> HIDE DEF x, y
  <2>4. Adjacent(x, y) /\ Ends(y)
    BY <2>2, <2>3 DEF Adjacent, Ends, Inner, Opening
  <2>5. OnlyAbout(<< x, y >>, a)
    BY <2>2, <2>3, <2>4, TwoSteps DEF Starts, Saving
  <2>6. \A i \in 1 .. Len(<< x, y >>) : << x, y >>[i].op # "dropRow"
    BY <2>2, <2>3
  <2> QED BY <1>3, <2>1, <2>5, <2>6
<1>4. CASE op = "quota"
  BY <1>4, QuotaSound DEF Rest
<1>5. CASE op = "edit"
  <2> DEFINE y == Update(a, row)
  <2>1. Rest(op, a, row) = << y >>
    BY <1>5 DEF Rest, refreshAccountStatus
  <2>2. y \in AnyStep /\ y.op = "update" /\ y.id = a
    BY Steps DEF Update
  <2> HIDE DEF y
  <2>3. Sound(<< y >>)
    BY <2>2, Single DEF Ends, Opening, Saving
  <2> QED BY <1>5, <2>1, <2>2, <2>3 DEF OnlyAbout, Starts
<1> QED BY <1>1, <1>2, <1>3, <1>4, <1>5 DEF OnAccount

\* The steps of a save, and the accounts they are about.
SaveStep(x, ids) ==
  /\ x.op \in {"choose", "check", "begin", "group", "dropMembers", "member", "commit"}
  /\ x.id \in ids \cup {NoOne}

LEMMA SaveRoutingGroupSound ==
  ASSUME NEW strategy \in Strategy, NEW manual \in AccountId \cup {NoOne},
         NEW members \in Seq(AccountId), manual \in IdsOf(members) \cup {NoOne}
  PROVE  LET q == saveRoutingGroup(strategy, manual, members)
         IN  /\ Sound(q) /\ q # <<>> /\ q[1].op = "begin"
             /\ \A i \in 1 .. Len(q) : SaveStep(q[i], IdsOf(members))
<1> DEFINE n == Len(members)
           grp == [strategy |-> strategy, manual |-> manual, members |-> IdsOf(members)]
           g == [op |-> "group", id |-> NoOne, strategy |-> strategy, manual |-> manual]
           last == [op |-> "commit", id |-> NoOne, for |-> "save", group |-> grp]
           h == << Do("begin", NoOne), g, Do("dropMembers", NoOne) >>
           m == [i \in DOMAIN members |-> Do("member", members[i])]
           c == << last >>
           q == saveRoutingGroup(strategy, manual, members)
<1>1. n \in Nat /\ DOMAIN members = 1 .. n /\ \A i \in 1 .. n : members[i] \in AccountId
  BY LenProperties
<1> HIDE DEF n
<1>2. IdsOf(members) \in SUBSET AccountId
  BY <1>1 DEF IdsOf
<1>3. last \in AnyStep
  BY <1>2 DEF AnyStep, Group
<1>4. /\ h \in Seq(AnyStep) /\ Len(h) = 3
      /\ h[1] = Do("begin", NoOne) /\ h[2] = g /\ h[3] = Do("dropMembers", NoOne)
  <2>1. Do("begin", NoOne) \in AnyStep /\ g \in AnyStep /\ Do("dropMembers", NoOne) \in AnyStep
    BY DEF AnyStep, Do
  <2> HIDE DEF g
  <2> QED BY <2>1
<1>5. /\ m \in Seq(AnyStep) /\ Len(m) = n
      /\ \A i \in 1 .. n : m[i] = Do("member", members[i])
  <2>1. \A i \in 1 .. n : Do("member", members[i]) \in AnyStep
    BY <1>1, Steps
  <2> QED BY <1>1, <2>1
<1>6. c \in Seq(AnyStep) /\ Len(c) = 1 /\ c[1] = last
  BY <1>3
<1>7. q = (h \o m) \o c
  BY DEF saveRoutingGroup
<1> HIDE DEF q, h, m, c
<1>8. /\ q \in Seq(AnyStep) /\ Len(q) = n + 4
      /\ q[1] = Do("begin", NoOne) /\ q[2] = g /\ q[3] = Do("dropMembers", NoOne)
      /\ \A i \in 1 .. n : q[i + 3] = Do("member", members[i])
      /\ q[n + 4] = last
  <2> DEFINE p == h \o m
  <2>1. /\ p \in Seq(AnyStep) /\ Len(p) = 3 + n
        /\ \A i \in 1 .. 3 + n : p[i] = IF i <= 3 THEN h[i] ELSE m[i - 3]
    <3>1. /\ p \in Seq(AnyStep) /\ Len(p) = Len(h) + Len(m)
          /\ \A i \in 1 .. Len(h) + Len(m) :
               p[i] = IF i <= Len(h) THEN h[i] ELSE m[i - Len(h)]
      BY <1>4, <1>5, ConcatProperties
    <3> QED BY <1>4, <1>5, <3>1
  <2> HIDE DEF p
  <2>2. /\ q \in Seq(AnyStep) /\ Len(q) = (3 + n) + 1
        /\ \A i \in 1 .. (3 + n) + 1 : q[i] = IF i <= 3 + n THEN p[i] ELSE c[i - (3 + n)]
    <3>9. q = p \o c /\ p \in Seq(AnyStep)
      BY <1>7, <2>1 DEF p
    <3>1. /\ q \in Seq(AnyStep) /\ Len(q) = Len(p) + Len(c)
          /\ \A i \in 1 .. Len(p) + Len(c) :
               q[i] = IF i <= Len(p) THEN p[i] ELSE c[i - Len(p)]
      BY <1>6, <3>9, ConcatProperties
    <3> QED BY <1>6, <2>1, <3>1
  <2>3. ASSUME NEW i \in {1, 2, 3} PROVE q[i] = h[i]
    <3>1. i \in 1 .. 3 + n /\ i \in 1 .. (3 + n) + 1 /\ i <= 3 + n /\ i <= 3
      BY <1>1
    <3> QED BY <2>1, <2>2, <3>1
  <2>4. q[1] = h[1] /\ q[2] = h[2] /\ q[3] = h[3]
    BY <2>3
  <2>5. ASSUME NEW i \in 1 .. n PROVE q[i + 3] = m[i]
    <3>1. i + 3 \in 1 .. 3 + n /\ i + 3 \in 1 .. (3 + n) + 1 /\ ~ i + 3 <= 3 /\ (i + 3) - 3 = i
          /\ i + 3 <= 3 + n
      BY <1>1
    <3>2. q[i + 3] = p[i + 3]
      BY <2>2, <3>1
    <3> QED BY <2>1, <3>1, <3>2
  <2>6. q[n + 4] = c[1]
    <3>1. n + 4 \in 1 .. (3 + n) + 1 /\ ~ n + 4 <= 3 + n /\ (n + 4) - (3 + n) = 1
      BY <1>1
    <3> QED BY <2>2, <3>1
  <2>7. q \in Seq(AnyStep) /\ Len(q) = n + 4
    BY <1>1, <2>2
  <2>8. \A i \in 1 .. n : q[i + 3] = Do("member", members[i])
    BY <1>5, <2>5
  <2>9. q[1] = Do("begin", NoOne) /\ q[2] = g /\ q[3] = Do("dropMembers", NoOne)
    BY <1>4, <2>4
  <2> QED BY <1>6, <2>6, <2>7, <2>8, <2>9
<1>9. ASSUME NEW i \in 1 .. Len(q)
      PROVE  \/ i = 1 \/ i = 2 \/ i = 3 \/ i = n + 4
             \/ \E k \in 1 .. n : i = k + 3
  <2>1. CASE i > 3 /\ i < n + 4
    <3>1. i - 3 \in 1 .. n /\ i = (i - 3) + 3
      BY <1>1, <1>8, <2>1
    <3> QED BY <3>1
  <2> QED BY <1>1, <1>8, <2>1
<1>10. ASSUME NEW k \in 1 .. n
       PROVE  /\ q[k + 3].op = "member" /\ q[k + 3].id = members[k] /\ members[k] \in IdsOf(members)
              /\ k + 3 \in 3 .. Len(q)
  <2>1. q[k + 3] = Do("member", members[k]) /\ k + 3 \in 3 .. Len(q)
    BY <1>1, <1>8
  <2>2. members[k] \in IdsOf(members)
    BY <1>1 DEF IdsOf
  <2> QED BY <2>1, <2>2 DEF Do
<1>11. ASSUME NEW i \in 1 .. Len(q) PROVE SaveStep(q[i], IdsOf(members))
  <2>1. CASE \E k \in 1 .. n : i = k + 3
    BY <1>10, <2>1 DEF SaveStep
  <2>2. CASE i = 1 \/ i = 2 \/ i = 3 \/ i = n + 4
    BY <1>8, <2>2 DEF SaveStep, Do
  <2> QED BY <1>9, <2>1, <2>2
<1>12. ASSUME NEW i \in 1 .. Len(q) - 1 PROVE Adjacent(q[i], q[i + 1])
  <2>1. CASE i = 1
    <3>1. q[i] = Do("begin", NoOne) /\ q[i + 1] = g
      BY <1>8, <2>1
    <3> QED BY <3>1 DEF Adjacent, Do, Inner, Opening
  <2>2. CASE i = 2
    <3>1. q[i] = g /\ q[i + 1] = Do("dropMembers", NoOne)
      BY <1>8, <2>2
    <3> QED BY <3>1 DEF Adjacent, Do, Inner, Opening
  <2>3. CASE i > 2
    <3>1. q[i].op \in {"dropMembers", "member"}
      <4>1. CASE i = 3
        BY <1>8, <4>1 DEF Do
      <4>2. CASE i > 3
        <5>1. i - 3 \in 1 .. n /\ i = (i - 3) + 3
          BY <1>1, <1>8, <4>2
        <5> QED BY <1>10, <5>1
      <4> QED BY <2>3, <4>1, <4>2
    <3>2. q[i + 1].op = "member" \/ (q[i + 1].op = "commit" /\ q[i + 1].for = "save")
      <4>1. CASE i + 1 = n + 4
        BY <1>8, <4>1
      <4>2. CASE i + 1 # n + 4
        <5>1. i - 2 \in 1 .. n /\ i + 1 = (i - 2) + 3
          BY <1>1, <1>8, <2>3, <4>2
        <5> QED BY <1>10, <5>1
      <4> QED BY <4>1, <4>2
    <3> QED BY <3>1, <3>2 DEF Adjacent, Inner, Opening
  <2> QED BY <2>1, <2>2, <2>3
<1>13. MembersFrom(q, 3) = IdsOf(members) /\ MembersFrom(q, 2) = IdsOf(members)
  <2>1. ASSUME NEW f \in {2, 3} PROVE MembersFrom(q, f) = IdsOf(members)
    <3>1. ASSUME NEW x \in MembersFrom(q, f) PROVE x \in IdsOf(members)
      <4>1. PICK j \in f .. Len(q) : q[j].op = "member" /\ x = q[j].id
        BY <3>1 DEF MembersFrom
      <4>2. j \in 1 .. Len(q)
        BY <1>1, <1>8
      <4>3. CASE \E k \in 1 .. n : j = k + 3
        BY <1>10, <4>1, <4>3
      <4>4. CASE j = 1 \/ j = 2 \/ j = 3 \/ j = n + 4
        BY <1>8, <4>1, <4>4 DEF Do
      <4> QED BY <1>9, <4>2, <4>3, <4>4
    <3>2. ASSUME NEW x \in IdsOf(members) PROVE x \in MembersFrom(q, f)
      <4>1. PICK k \in 1 .. n : x = members[k]
        BY <1>1 DEF IdsOf
      <4>2. k + 3 \in f .. Len(q)
        BY <1>1, <1>8
      <4> QED BY <1>10, <4>1, <4>2 DEF MembersFrom
    <3> QED BY <3>1, <3>2
  <2> QED BY <2>1
<1>14. SaveOK(q)
  <2>1. q[Len(q)] = last
    BY <1>8
  <2>2. ASSUME NEW i \in 1 .. Len(q)
        PROVE  /\ q[i].op = "group" =>
                    /\ q[i].strategy = q[Len(q)].group.strategy
                    /\ q[i].manual = q[Len(q)].group.manual
                    /\ q[i].manual \in MembersFrom(q, i) \cup {NoOne}
               /\ q[i].op = "dropMembers" => MembersFrom(q, i) = q[Len(q)].group.members
    <3>1. CASE \E k \in 1 .. n : i = k + 3
      BY <1>10, <3>1
    <3>2. CASE i = 1 \/ i = n + 4
      BY <1>8, <3>2 DEF Do
    <3>3. CASE i = 2
      BY <1>8, <1>13, <2>1, <3>3
    <3>4. CASE i = 3
      BY <1>8, <1>13, <2>1, <3>4 DEF Do
    <3> QED BY <1>9, <3>1, <3>2, <3>3, <3>4
  <2>3. q[Len(q)].op = "commit" /\ q[Len(q)].for = "save"
    BY <2>1
  <2> QED BY <2>2, <2>3 DEF SaveOK
<1>15. Ends(q[Len(q)])
  BY <1>8 DEF Ends, Opening
<1>16. q # <<>>
  <2>1. ASSUME q = <<>> PROVE Len(q) = 0
    BY <2>1
  <2> QED BY <1>1, <1>8, <2>1
<1>17. q[1].op = "begin"
  BY <1>8 DEF Do
<1>18. Sound(q)
  BY <1>8, <1>12, <1>14, <1>15 DEF Sound, Linked
<1> QED BY <1>11, <1>16, <1>17, <1>18 DEF q

\* The members are looked up before a save.
LEMMA SaveGroupSound ==
  ASSUME NEW strategy \in Strategy, NEW manual \in AccountId \cup {NoOne},
         NEW members \in Seq(AccountId), manual \in IdsOf(members) \cup {NoOne}
  PROVE  LET q == saveGroup(strategy, manual, members)
         IN  /\ Sound(q) /\ q # <<>> /\ q[1].op \in {"begin", "check"}
             /\ \A i \in 1 .. Len(q) : SaveStep(q[i], IdsOf(members))
<1> DEFINE n == Len(members)
           r == saveRoutingGroup(strategy, manual, members)
           s == [i \in DOMAIN members |-> Do("check", members[i])]
           q == saveGroup(strategy, manual, members)
<1>1. n \in Nat /\ DOMAIN members = 1 .. n /\ \A i \in 1 .. n : members[i] \in AccountId
  BY LenProperties
<1>2. /\ Sound(r) /\ r # <<>> /\ r[1].op = "begin"
      /\ \A i \in 1 .. Len(r) : SaveStep(r[i], IdsOf(members))
  BY SaveRoutingGroupSound
<1>3. r \in Seq(AnyStep) /\ <<>> \o r = r
  BY <1>2, ConcatEmptySeq DEF Sound, Linked
<1> HIDE DEF n
<1>4. /\ s \in Seq(AnyStep) /\ Len(s) = n
      /\ \A i \in 1 .. n : s[i] = Do("check", members[i])
  <2>1. \A i \in 1 .. n : Do("check", members[i]) \in AnyStep
    BY <1>1, Steps
  <2> QED BY <1>1, <2>1
<1> HIDE DEF r
<1>5. \/ q = r
      \/ q = s \o r /\ s # <<>>
  <2>1. s = <<>> \/ s # <<>>
    OBVIOUS
  <2> QED BY <1>3, <2>1 DEF saveGroup, r
<1>6. CASE q = r
  BY <1>2, <1>6
<1>7. CASE q = s \o r /\ s # <<>>
  <2> HIDE DEF s, q
  <2>1. n \in Nat \ {0}
    BY <1>4, <1>7, EmptySeq
  <2>2. \A i \in 1 .. Len(s) : s[i].op = "check" /\ s[i].id = members[i]
    BY <1>4 DEF Do
  <2>3. Linked(s)
    <3>1. ASSUME NEW i \in 1 .. Len(s) - 1 PROVE Adjacent(s[i], s[i + 1])
      <4>1. i \in 1 .. Len(s) /\ i + 1 \in 1 .. Len(s)
        BY <1>4, <2>1
      <4>2. s[i].op = "check" /\ s[i + 1].op = "check"
        BY <2>2, <4>1
      <4> QED BY <4>2 DEF Adjacent, Inner, Opening
    <3> QED BY <1>4, <3>1 DEF Linked
  <2>4. Adjacent(s[Len(s)], r[1])
    <3>1. s[Len(s)].op = "check"
      BY <1>4, <2>1, <2>2
    <3> QED BY <1>2, <3>1 DEF Adjacent, Inner, Opening
  <2>5. \A i \in 1 .. Len(s) : s[i].op \notin Saving
    BY <2>2 DEF Saving
  <2>6. /\ Sound(q) /\ q # <<>> /\ q[1] = s[1] /\ Len(q) = Len(s) + Len(r)
        /\ \A i \in 1 .. Len(s) : q[i] = s[i]
        /\ \A i \in 1 .. Len(r) : q[Len(s) + i] = r[i]
    BY <1>2, <1>7, <2>3, <2>4, <2>5, SoundConcat
  <2>7. q[1].op = "check"
    <3>1. 1 \in 1 .. Len(s)
      BY <1>4, <2>1
    <3> QED BY <2>2, <2>6, <3>1
  <2>8. ASSUME NEW i \in 1 .. Len(q) PROVE SaveStep(q[i], IdsOf(members))
    <3>1. CASE i <= n
      <4>1. i \in 1 .. n /\ q[i].op = "check" /\ q[i].id = members[i]
        BY <1>4, <2>1, <2>2, <2>6, <3>1
      <4>2. members[i] \in IdsOf(members)
        BY <1>1, <4>1 DEF IdsOf
      <4> QED BY <4>1, <4>2 DEF SaveStep
    <3>2. CASE i > n
      <4>1. Len(r) \in Nat
        BY <1>3, LenProperties
      <4>2. i - n \in 1 .. Len(r) /\ i = n + (i - n)
        BY <1>4, <2>1, <2>6, <3>2, <4>1
      <4>3. q[i] = r[i - n]
        BY <1>4, <2>6, <4>2
      <4> QED BY <1>2, <4>2, <4>3
    <3> QED BY <2>1, <3>1, <3>2
  <2> QED BY <2>6, <2>7, <2>8 DEF q
<1> HIDE DEF q
<1> QED BY <1>5, <1>6, <1>7 DEF q

\* The editor begins with the accounts it lists.
LEMMA EditSound ==
  ASSUME NEW strategy \in Strategy, NEW manual \in AccountId \cup {NoOne},
         NEW members \in Seq(AccountId), manual \in IdsOf(members) \cup {NoOne},
         NEW q, q = << [op |-> "choose", id |-> NoOne, members |-> IdsOf(members)] >>
                      \o saveGroup(strategy, manual, members)
  PROVE  /\ Sound(q) /\ q # <<>> /\ q[1].op = "choose"
         /\ \A i \in 1 .. Len(q) : SaveStep(q[i], q[1].members)
<1> DEFINE x == [op |-> "choose", id |-> NoOne, members |-> IdsOf(members)]
           s == << x >>
           r == saveGroup(strategy, manual, members)
<1>1. x \in AnyStep /\ x.op = "choose" /\ x.id = NoOne /\ x.members = IdsOf(members)
  <2>1. IdsOf(members) \in SUBSET AccountId
    BY LenProperties DEF IdsOf
  <2> QED BY <2>1 DEF AnyStep
<1>2. /\ Sound(r) /\ r # <<>> /\ r[1].op \in {"begin", "check"}
      /\ \A i \in 1 .. Len(r) : SaveStep(r[i], IdsOf(members))
  BY SaveGroupSound
<1> HIDE DEF x, r
<1>3. Linked(s) /\ s # <<>> /\ Len(s) = 1 /\ s[1] = x
  BY <1>1, Single DEF Ends, Opening, Saving
<1>4. q = s \o r
  BY DEF x, r
<1> HIDE DEF s
<1>5. Adjacent(s[Len(s)], r[1])
  BY <1>1, <1>2, <1>3 DEF Adjacent, Inner, Opening
<1>6. \A i \in 1 .. Len(s) : s[i].op \notin Saving
  <2>1. \A i \in 1 .. Len(s) : i = 1
    BY <1>3
  <2> QED BY <1>1, <1>3, <2>1 DEF Saving
<1>7. /\ Sound(q) /\ q # <<>> /\ q[1] = s[1] /\ Len(q) = Len(s) + Len(r)
      /\ \A i \in 1 .. Len(r) : q[Len(s) + i] = r[i]
  <2>1. Linked(s) /\ s # <<>> /\ Sound(r) /\ r # <<>>
    BY <1>2, <1>3
  <2>2. /\ Sound(s \o r) /\ s \o r # <<>> /\ (s \o r)[1] = s[1] /\ Len(s \o r) = Len(s) + Len(r)
        /\ \A i \in 1 .. Len(r) : (s \o r)[Len(s) + i] = r[i]
    BY <1>5, <1>6, <2>1, SoundConcat
  <2> QED BY <1>4, <2>2
<1>8. Len(r) \in Nat
  BY <1>2 DEF Sound, Linked
<1>9. ASSUME NEW i \in 1 .. Len(q) PROVE SaveStep(q[i], q[1].members)
  <2>1. CASE i = 1
    BY <1>1, <1>3, <1>7, <2>1 DEF SaveStep
  <2>2. CASE i # 1
    <3>1. i - 1 \in 1 .. Len(r) /\ i = 1 + (i - 1)
      BY <1>3, <1>7, <1>8, <2>2
    <3>2. q[i] = r[i - 1]
      BY <1>3, <1>7, <3>1
    <3> QED BY <1>1, <1>2, <1>3, <1>7, <3>1, <3>2
  <2> QED BY <2>1, <2>2
<1> QED BY <1>1, <1>3, <1>7, <1>9

\* The first steps of the jobs, and all the steps they have but for those of a save.
First == {"find", "nextId", "log", "prune", "clear", "list"}

\* The scripts the operations begin with.
LEMMA ScriptSound ==
  ASSUME NEW job \in Job, Fresh(LocalApi) \in Nat
  PROVE  LET q == Script(job)
         IN  /\ Sound(q) /\ q # <<>> /\ q[1].op \in First \cup {"store", "choose"}
             /\ \A i \in 1 .. Len(q) :
                  \/ q[i].op \in First
                  \/ q[i].op = "store" /\ q[i].id = LocalApi
                  \/ q[1].op = "choose" /\ SaveStep(q[i], q[1].members)
<1> DEFINE q == Script(job)
<1>1. ASSUME NEW x \in AnyStep, q = << x >>, x.op \in First \ {"log"} \/ (x.op = "store" /\ x.id = LocalApi)
      PROVE  /\ Sound(q) /\ q # <<>> /\ q[1].op \in First \cup {"store", "choose"}
             /\ \A i \in 1 .. Len(q) : q[i].op \in First \/ (q[i].op = "store" /\ q[i].id = LocalApi)
  <2> HIDE DEF q
  <2>1. Ends(x) /\ x.op \notin Saving
    BY <1>1 DEF Ends, Opening, Saving, First
  <2>2. Sound(q) /\ q # <<>> /\ Len(q) = 1 /\ q[1] = x
    BY <1>1, <2>1, Single
  <2>3. \A i \in 1 .. Len(q) : i = 1
    BY <2>2
  <2> QED BY <1>1, <2>2, <2>3 DEF First
<1>2. CASE job.op \in OnAccount
  <2>1. job.id \in AccountId
    BY <1>2 DEF Job, OnAccount
  <2>2. q = << [op |-> "find", id |-> job.id, for |-> job.op] >>
    BY <1>2 DEF Script, OnAccount
  <2>3. [op |-> "find", id |-> job.id, for |-> job.op] \in AnyStep
    BY <1>2, <2>1, Steps
  <2> QED BY <1>1, <2>2, <2>3 DEF First
<1>3. CASE job.op = "add"
  <2>1. job.id \in AccountId
    BY <1>3 DEF Job, OnAccount
  <2>2. q = << Do("nextId", job.id) >>
    BY <1>3 DEF Script, OnAccount
  <2>3. Do("nextId", job.id) \in AnyStep /\ Do("nextId", job.id).op = "nextId"
    BY <2>1, Steps DEF Do
  <2> QED BY <1>1, <2>2, <2>3 DEF First
<1>4. CASE job.op = "record"
  <2>1. q = << Do("log", NoOne), Do("prune", NoOne) >>
    BY <1>4 DEF Script, OnAccount, recordRequestLog
  <2> DEFINE x == Do("log", NoOne)
             y == Do("prune", NoOne)
  <2>2. x \in AnyStep /\ y \in AnyStep /\ x.op = "log" /\ y.op = "prune"
    BY DEF AnyStep, Do
  <2> HIDE DEF x, y
  <2>3. q \in Seq(AnyStep) /\ Len(q) = 2 /\ q # <<>> /\ q[1] = x /\ q[2] = y
    BY <2>1, <2>2 DEF x, y
  <2> HIDE DEF q
  <2>4. (\A i \in 1 .. Len(q) : i \in {1, 2}) /\ (\A i \in 1 .. Len(q) - 1 : i = 1)
    BY <2>3
  <2>5. Adjacent(x, y) /\ Ends(y)
    BY <2>2 DEF Adjacent, Ends, Inner, Opening
  <2>6. SaveOK(q)
    BY <2>2, <2>3, <2>4 DEF SaveOK, Saving
  <2>7. Linked(q) /\ Ends(q[Len(q)])
    BY <2>3, <2>4, <2>5 DEF Linked
  <2>8. \A i \in 1 .. Len(q) : q[i].op \in First
    BY <2>2, <2>3, <2>4 DEF First
  <2>9. Sound(q)
    BY <2>6, <2>7 DEF Sound
  <2>10. q[1].op \in First
    BY <2>2, <2>3 DEF First
  <2> QED BY <2>3, <2>8, <2>9, <2>10 DEF q
<1>5. CASE job.op \in {"prune", "clear", "clean"}
  <2> DEFINE x == IF job.op = "prune" THEN Do("prune", NoOne)
                  ELSE IF job.op = "clear" THEN Do("clear", NoOne) ELSE Do("list", NoOne)
  <2>1. q = << x >>
    BY <1>5 DEF Script, OnAccount
  <2>2. x \in AnyStep /\ x.op \in First \ {"log"}
    BY DEF AnyStep, Do, First
  <2> HIDE DEF x
  <2> QED BY <1>1, <2>1, <2>2
<1>6. CASE job.op = "rotate"
  <2> DEFINE x == [op |-> "store", id |-> LocalApi, secret |-> Fresh(LocalApi)]
  <2>1. q = << x >>
    BY <1>6 DEF Script, OnAccount, put
  <2>2. x \in AnyStep /\ x.op = "store" /\ x.id = LocalApi
    BY AccountStorageAssumption DEF AnyStep, Secret
  <2> HIDE DEF x
  <2> QED BY <1>1, <2>1, <2>2
<1>7. CASE job.op = "save"
  <2>1. /\ job.strategy \in Strategy /\ job.manual \in AccountId \cup {NoOne}
        /\ job.members \in Seq(AccountId)
        /\ job.manual = NoOne \/ \E i \in DOMAIN job.members : job.members[i] = job.manual
    BY <1>7 DEF Job, OnAccount
  <2>2. job.manual \in IdsOf(job.members) \cup {NoOne}
    BY <2>1 DEF IdsOf
  <2>3. q = << [op |-> "choose", id |-> NoOne, members |-> IdsOf(job.members)] >>
              \o saveGroup(job.strategy, job.manual, job.members)
    BY <1>7 DEF Script, OnAccount, EditMembers
  <2> HIDE DEF q
  <2>4. /\ Sound(q) /\ q # <<>> /\ q[1].op = "choose"
        /\ \A i \in 1 .. Len(q) : SaveStep(q[i], q[1].members)
    BY <2>1, <2>2, <2>3, EditSound
  <2> QED BY <2>4 DEF q
<1>8. job.op \in OnAccount \cup {"add", "record", "prune", "clear", "clean", "rotate", "save"}
  BY DEF Job
<1> QED BY <1>2, <1>3, <1>4, <1>5, <1>6, <1>7, <1>8

-----------------------------------------------------------------------------
(* The inductive invariants.                                               *)

\* The next step of t belongs to its open transaction.
Inside(t) == ~ Idle(t) /\ Step(t).op \in Inner

ScriptsOK ==
  /\ script \in [Thread -> Seq(AnyStep)]
  /\ \A t \in Thread :
       /\ Sound(script[t])
       /\ ~ Idle(t) /\ Step(t).op = "window" => Step(t).snapshot \in Nat

Shape ==
  /\ TypeOK /\ ScriptsOK
  /\ \A ref \in Ref : IsFiniteSet(past.possible[ref])

\* A thread is inside a transaction exactly when the connection has its
\* transaction open.  Without one the tables are those on the disk.
Transactions ==
  /\ \A t \in Thread : owner = t <=> Inside(t)
  /\ owner = Nobody => tables = disk
  /\ process = "down" => \A t \in Thread : Idle(t)

-----------------------------------------------------------------------------
(* Types.                                                                  *)

\* There is a secret that is not known yet.
LEMMA FreshSecret ==
  ASSUME Shape, NEW ref \in Ref
  PROVE  Fresh(ref) \in Nat
<1> DEFINE known == past.possible[ref] \cup {service[ref], files[ref]}
           c == Cardinality(known)
<1>1. IsFiniteSet(known)
  <2>1. IsFiniteSet({service[ref], files[ref]})
    <3>1. IsFiniteSet({service[ref]}) /\ {service[ref], files[ref]} = {service[ref]} \cup {files[ref]}
      BY FS_Singleton
    <3> QED BY <3>1, FS_AddElement
  <2> QED BY <2>1, FS_Union DEF Shape
<1>2. c \in Nat
  BY <1>1, FS_CardinalityType
<1> HIDE DEF known
<1>3. \E n \in 1 .. c + 1 : n \notin known
  <2> SUFFICES ASSUME \A n \in 1 .. c + 1 : n \in known PROVE FALSE
    OBVIOUS
  <2>1. 1 .. c + 1 \subseteq known
    OBVIOUS
  <2>2. Cardinality(1 .. c + 1) <= c
    BY <1>1, <2>1, FS_Subset
  <2>3. Cardinality(1 .. c + 1) = c + 1
    BY <1>2, FS_Interval
  <2> QED BY <1>2, <2>2, <2>3
<1>4. Fresh(ref) \in 1 .. c + 1
  BY <1>3 DEF Fresh, known
<1> QED BY <1>2, <1>4

\* The next step of a thread, and what comes after it.
LEMMA NextStep ==
  ASSUME ScriptsOK, NEW t \in Thread, ~ Idle(t)
  PROVE  /\ Step(t) = script[t][1] /\ Step(t) \in AnyStep
         /\ Sound(Tail(script[t]))
         /\ Tail(script[t]) = <<>> => Ends(Step(t))
         /\ Tail(script[t]) # <<>> => Adjacent(Step(t), Tail(script[t])[1])
         /\ Tail(script[t]) # <<>> => Head(Tail(script[t])) = Tail(script[t])[1]
<1> DEFINE s == script[t]
<1>1. s \in Seq(AnyStep) /\ Sound(s) /\ s # <<>>
  BY DEF ScriptsOK, Idle
<1>2. Step(t) = s[1] /\ Step(t) \in AnyStep /\ Tail(s) \in Seq(AnyStep)
  BY <1>1, TailOf DEF Step
<1> HIDE DEF s
<1>3. Tail(s) # <<>> => Head(Tail(s)) = Tail(s)[1]
  BY <1>2, TailOf
<1>4. /\ Sound(Tail(s)) /\ (Tail(s) = <<>> => Ends(s[1]))
      /\ (Tail(s) # <<>> => Adjacent(s[1], Tail(s)[1]))
  BY <1>1, SoundTail
<1> QED BY <1>2, <1>3, <1>4 DEF s

\* A thread goes on with a script.
LEMMA ContinueShape ==
  ASSUME ScriptsOK, NEW t \in Thread, NEW r, Continue(t, r), Sound(r),
         r # <<>> => r[1].op # "window" \/ r[1].snapshot \in Nat
  PROVE  ScriptsOK'
<1>1. /\ script' \in [Thread -> Seq(AnyStep)] /\ script'[t] = r
      /\ \A u \in Thread : u # t => script'[u] = script[u]
  BY DEF ScriptsOK, Continue, Sound, Linked
<1>2. r # <<>> => Head(r) = r[1]
  BY TailOf DEF Sound, Linked
<1> QED BY <1>1, <1>2 DEF ScriptsOK, Idle, Step

LEMMA AdvanceShape ==
  ASSUME ScriptsOK, NEW t \in Thread, ~ Idle(t), Step(t).op # "rowid", Advance(t)
  PROVE  ScriptsOK'
<1>1. Sound(Tail(script[t]))
  BY NextStep
<1>2. Tail(script[t]) # <<>> => Tail(script[t])[1].op # "window"
  BY NextStep DEF Adjacent
<1> QED BY <1>1, <1>2, ContinueShape DEF Advance

LEMMA EmptyScript ==
  Sound(<<>>) /\ <<>> \in Seq(AnyStep)
BY DEF Sound, Linked, SaveOK

\* Some steps, and those that are left.
LEMMA StepsOfConcat ==
  ASSUME NEW s, NEW r, NEW q, Len(s) \in Nat, Len(r) \in Nat, Len(q) = Len(s) + Len(r),
         \A i \in 1 .. Len(s) : q[i] = s[i],
         \A i \in 1 .. Len(r) : q[Len(s) + i] = r[i]
  PROVE  \A i \in 1 .. Len(q) : \/ \E j \in 1 .. Len(s) : q[i] = s[j]
                               \/ \E j \in 1 .. Len(r) : q[i] = r[j]
<1> SUFFICES ASSUME NEW i \in 1 .. Len(q)
             PROVE  \/ \E j \in 1 .. Len(s) : q[i] = s[j]
                    \/ \E j \in 1 .. Len(r) : q[i] = r[j]
  OBVIOUS
<1>1. CASE i <= Len(s)
  <2>1. i \in 1 .. Len(s)
    BY <1>1
  <2> QED BY <2>1
<1>2. CASE i > Len(s)
  <2>1. i - Len(s) \in 1 .. Len(r) /\ i = Len(s) + (i - Len(s))
    BY <1>2
  <2> QED BY <2>1
<1> QED BY <1>1, <1>2

\* The script after last_insert_rowid.
LEMMA RowidScript ==
  ASSUME ScriptsOK, NEW t \in Thread, ~ Idle(t), Step(t).op = "rowid", lastRow \in Nat
  PROVE  LET window == [op |-> "window", id |-> Step(t).id, snapshot |-> lastRow]
             q == << window >> \o Tail(Tail(script[t]))
         IN  /\ Sound(q) /\ q # <<>> /\ q[1] = window
             /\ \A i \in 1 .. Len(q) : q[i] = window \/ q[i] \in StepsOf(t)
<1> DEFINE x == Step(t)
           window == [op |-> "window", id |-> x.id, snapshot |-> lastRow]
           p == Tail(script[t])
           r == Tail(p)
           s == << window >>
<1>1. x \in AnyStep /\ x.id \in AccountId
  BY NextStep, StepType
<1>2. Sound(p) /\ (p # <<>> => Adjacent(x, p[1])) /\ (p = <<>> => Ends(x))
  BY NextStep
<1>3. p # <<>>
  BY <1>2 DEF Ends, Opening
<1>4. p[1] = Do("window", x.id)
  BY <1>2, <1>3 DEF Adjacent
<1>5. ASSUME NEW i \in 1 .. Len(r) PROVE r[i] \in StepsOf(t)
  <2>1. script[t] \in Seq(AnyStep) /\ script[t] # <<>>
    BY DEF ScriptsOK, Idle
  <2>2. /\ Len(p) = Len(script[t]) - 1 /\ Len(script[t]) \in Nat \ {0}
        /\ \A j \in 1 .. Len(script[t]) - 1 : p[j] = script[t][j + 1]
        /\ p \in Seq(AnyStep)
    BY <2>1, TailOf
  <2> HIDE DEF p
  <2>3. Len(r) = Len(p) - 1 /\ Len(p) \in Nat \ {0} /\ \A j \in 1 .. Len(p) - 1 : r[j] = p[j + 1]
    BY <1>3, <2>2, TailOf
  <2> HIDE DEF r
  <2>4. i \in 1 .. Len(p) - 1 /\ i + 1 \in 1 .. Len(script[t]) - 1
        /\ (i + 1) + 1 \in 1 .. Len(script[t])
    BY <2>2, <2>3
  <2>5. r[i] = script[t][(i + 1) + 1]
    BY <2>2, <2>3, <2>4
  <2>6. DOMAIN script[t] = 1 .. Len(script[t])
    BY <2>1, LenProperties
  <2> QED BY <2>4, <2>5, <2>6 DEF StepsOf
<1>6. window \in AnyStep /\ window.op = "window" /\ window.id = x.id
  BY <1>1 DEF AnyStep
<1> HIDE DEF p, window, x
<1>7. Sound(r) /\ (r = <<>> => Ends(p[1])) /\ (r # <<>> => Adjacent(p[1], r[1]))
  BY <1>2, <1>3, SoundTail
<1>8. r # <<>>
  BY <1>4, <1>7 DEF Ends, Opening, Do
<1>9. r[1] = CommitOf("quota", x.id)
  BY <1>4, <1>7, <1>8 DEF Adjacent, Do
<1> HIDE DEF r
<1>10. Adjacent(window, r[1])
  <2>1. r[1] = CommitOf("quota", window.id)
    BY <1>6, <1>9
  <2>2. CommitOf("quota", window.id).op = "commit"
    BY DEF CommitOf
  <2>3. r[1].op = "commit"
    BY <2>1, <2>2
  <2> QED BY <1>6, <2>1, <2>3 DEF Adjacent, Inner, Opening
<1>11. Linked(s) /\ Len(s) = 1 /\ s[1] = window /\ s # <<>>
  <2>1. \A i \in 1 .. Len(s) - 1 : Adjacent(s[i], s[i + 1])
    OBVIOUS
  <2> QED BY <1>6, <2>1 DEF Linked
<1>12. \A i \in 1 .. Len(s) : i = 1 /\ s[i] = window /\ s[i].op \notin Saving
  BY <1>6, <1>11 DEF Saving
<1> HIDE DEF s
<1>13. /\ Sound(s \o r) /\ s \o r # <<>> /\ (s \o r)[1] = s[1] /\ Len(s \o r) = Len(s) + Len(r)
       /\ \A i \in 1 .. Len(s) : (s \o r)[i] = s[i]
       /\ \A i \in 1 .. Len(r) : (s \o r)[Len(s) + i] = r[i]
  BY <1>7, <1>8, <1>10, <1>11, <1>12, SoundConcat
<1>14. ASSUME NEW i \in 1 .. Len(s \o r)
       PROVE  (s \o r)[i] = window \/ (s \o r)[i] \in StepsOf(t)
  <2>1. Len(r) \in Nat
    BY <1>7 DEF Sound, Linked
  <2>2. \/ \E j \in 1 .. Len(s) : (s \o r)[i] = s[j]
        \/ \E j \in 1 .. Len(r) : (s \o r)[i] = r[j]
    BY <1>11, <1>13, <2>1, StepsOfConcat
  <2> QED BY <1>5, <1>12, <2>2 DEF r, p
<1> QED BY <1>11, <1>13, <1>14 DEF s, r, p, window, x

\* The steps of put after it has asked the Secret Service.
Filing(x) ==
  IF reachable THEN << [op |-> "unfile", id |-> x.id, secret |-> x.secret] >>
  ELSE << Do("truncate", x.id), [op |-> "write", id |-> x.id, secret |-> x.secret] >>

LEMMA StoreScript ==
  ASSUME ScriptsOK, NEW t \in Thread, ~ Idle(t), Step(t).op = "store"
  PROVE  LET q == Filing(Step(t)) \o Tail(script[t])
         IN  /\ Sound(q) /\ q # <<>>
             /\ reachable => q[1] = [op |-> "unfile", id |-> Step(t).id, secret |-> Step(t).secret]
             /\ ~ reachable => q[1] = Do("truncate", Step(t).id)
             /\ q[1].op \in {"unfile", "truncate"}
             /\ \A i \in 1 .. Len(q) :
                  \/ q[i].op \in {"unfile", "truncate", "write"} /\ q[i].id = Step(t).id
                  \/ q[i] \in StepsOf(t)
<1> DEFINE x == Step(t)
           w == [op |-> "unfile", id |-> x.id, secret |-> x.secret]
           y == Do("truncate", x.id)
           v == [op |-> "write", id |-> x.id, secret |-> x.secret]
           file == Filing(x)
           r == Tail(script[t])
<1>1. x \in AnyStep /\ x.id \in Ref /\ x.secret \in Secret
  BY NextStep, StepType
<1>2. w \in AnyStep /\ v \in AnyStep /\ y \in AnyStep
  BY <1>1 DEF AnyStep, Do
<1>3. /\ w.op = "unfile" /\ y.op = "truncate" /\ v.op = "write"
      /\ w.id = x.id /\ y.id = x.id /\ v.id = x.id
  BY DEF Do
<1>4. /\ reachable => file = << w >>
      /\ ~ reachable => file = << y, v >>
  BY DEF Filing
<1>5. Sound(r) /\ (r # <<>> => Adjacent(x, r[1]))
  BY NextStep
<1>6. ASSUME NEW i \in 1 .. Len(r) PROVE r[i] \in StepsOf(t)
  <2>1. script[t] \in Seq(AnyStep) /\ script[t] # <<>>
    BY DEF ScriptsOK, Idle
  <2>2. /\ Len(r) = Len(script[t]) - 1 /\ Len(script[t]) \in Nat \ {0}
        /\ \A j \in 1 .. Len(script[t]) - 1 : r[j] = script[t][j + 1]
    BY <2>1, TailOf
  <2> HIDE DEF r
  <2>3. i \in 1 .. Len(script[t]) - 1 /\ i + 1 \in 1 .. Len(script[t])
    BY <2>2
  <2>4. DOMAIN script[t] = 1 .. Len(script[t])
    BY <2>1, LenProperties
  <2> QED BY <2>2, <2>3, <2>4 DEF StepsOf
<1> HIDE DEF w, y, v, r, x
<1>7. /\ Linked(file) /\ file # <<>> /\ file[Len(file)].op \in {"unfile", "write"}
      /\ \A i \in 1 .. Len(file) : file[i].op \in {"unfile", "truncate", "write"} /\ file[i].id = x.id
      /\ reachable => file[1] = w
      /\ ~ reachable => file[1] = y
  <2>1. CASE reachable
    <3>1. Linked(<< w >>) /\ << w >> # <<>> /\ Len(<< w >>) = 1 /\ << w >>[1] = w
      BY <1>2, <1>3, Single DEF Ends, Opening, Saving
    <3>2. \A i \in 1 .. Len(<< w >>) : i = 1
      BY <3>1
    <3> HIDE DEF file
    <3> QED BY <1>3, <1>4, <2>1, <3>1, <3>2
  <2>2. CASE ~ reachable
    <3> DEFINE s == << y, v >>
    <3>1. s \in Seq(AnyStep) /\ Len(s) = 2 /\ s[1] = y /\ s[2] = v /\ s # <<>>
      BY <1>2
    <3>2. file = s
      BY <1>4, <2>2
    <3> HIDE DEF s, file
    <3>3. Adjacent(y, v)
      BY <1>3 DEF Adjacent, Inner, Opening
    <3>4. (\A i \in 1 .. Len(s) : i \in {1, 2}) /\ (\A i \in 1 .. Len(s) - 1 : i = 1)
      BY <3>1
    <3>5. Linked(s)
      BY <3>1, <3>3, <3>4 DEF Linked
    <3>6. \A i \in 1 .. Len(s) : s[i].op \in {"unfile", "truncate", "write"} /\ s[i].id = x.id
      BY <1>3, <3>1, <3>4
    <3> QED BY <1>3, <2>2, <3>1, <3>2, <3>5, <3>6
  <2> QED BY <2>1, <2>2
<1> HIDE DEF file
<1>8. r # <<>> => Adjacent(file[Len(file)], r[1])
  BY <1>5, <1>7 DEF Adjacent, Inner, Opening, x
<1>9. Ends(file[Len(file)]) /\ \A i \in 1 .. Len(file) : file[i].op \notin Saving
  BY <1>7 DEF Ends, Opening, Saving
<1>10. /\ Sound(file \o r) /\ file \o r # <<>> /\ (file \o r)[1] = file[1]
       /\ Len(file \o r) = Len(file) + Len(r)
       /\ \A i \in 1 .. Len(file) : (file \o r)[i] = file[i]
       /\ \A i \in 1 .. Len(r) : (file \o r)[Len(file) + i] = r[i]
  BY <1>5, <1>7, <1>8, <1>9, SoundConcat
<1>11. ASSUME NEW i \in 1 .. Len(file \o r)
       PROVE  \/ /\ (file \o r)[i].op \in {"unfile", "truncate", "write"}
                 /\ (file \o r)[i].id = x.id
              \/ (file \o r)[i] \in StepsOf(t)
  <2>1. Len(r) \in Nat /\ Len(file) \in Nat
    BY <1>5, <1>7 DEF Sound, Linked
  <2>2. \/ \E j \in 1 .. Len(file) : (file \o r)[i] = file[j]
        \/ \E j \in 1 .. Len(r) : (file \o r)[i] = r[j]
    BY <1>10, <2>1, StepsOfConcat
  <2> QED BY <1>6, <1>7, <2>2 DEF r
<1>12. (file \o r)[1].op \in {"unfile", "truncate"}
  BY <1>3, <1>7, <1>10
<1> QED BY <1>7, <1>10, <1>11, <1>12 DEF file, w, y, r, x

\* The script after inspect has listed the directories.
CleanUp(t, r) ==
  /\ Sound(r)
  /\ \A i \in 1 .. Len(r) : r[i].op = "removeTree" /\ r[i].id \in AccountId \ Step(t).known
  /\ r # <<>> => r[1].op = "removeTree"

LEMMA ScanScript ==
  ASSUME NEW t \in Thread, ListDirectories(t)
  PROVE  \E r : Continue(t, r) /\ CleanUp(t, r)
<1> DEFINE orphans == {a \in AccountId \ Step(t).known : dirs[a] # "none"}
           n == Cardinality(orphans)
<1>1. PICK order \in [1 .. n -> orphans] :
        Continue(t, [i \in DOMAIN order |-> Do("removeTree", order[i])])
  BY DEF ListDirectories
<1>2. n \in Nat /\ orphans \subseteq AccountId
  BY AccountStorageAssumption, FS_Subset, FS_CardinalityType
<1> DEFINE q == [i \in DOMAIN order |-> Do("removeTree", order[i])]
<1> HIDE DEF n
<1>3. DOMAIN order = 1 .. n /\ \A i \in 1 .. n : order[i] \in AccountId \ Step(t).known
  BY <1>1, <1>2
<1>4. /\ q \in Seq(AnyStep) /\ Len(q) = n
      /\ \A i \in 1 .. n : q[i] = Do("removeTree", order[i])
  <2>1. \A i \in 1 .. n : Do("removeTree", order[i]) \in AnyStep
    BY <1>3, Steps
  <2> QED BY <1>2, <1>3, <2>1
<1>5. Continue(t, q)
  BY <1>1
<1> HIDE DEF q
<1>6. \A i \in 1 .. n : q[i].op = "removeTree" /\ q[i].id \in AccountId \ Step(t).known
  BY <1>3, <1>4 DEF Do
<1>7. Linked(q)
  <2>1. ASSUME NEW i \in 1 .. Len(q) - 1 PROVE Adjacent(q[i], q[i + 1])
    <3>1. i \in 1 .. n /\ i + 1 \in 1 .. n
      BY <1>2, <1>4
    <3>2. q[i].op = "removeTree" /\ q[i + 1].op = "removeTree"
      BY <1>6, <3>1
    <3> QED BY <3>2 DEF Adjacent, Inner, Opening
  <2> QED BY <1>4, <2>1 DEF Linked
<1>8. q # <<>> => q[1].op = "removeTree" /\ Ends(q[Len(q)])
  <2>1. ASSUME q # <<>> PROVE n \in 1 .. n /\ 1 \in 1 .. n
    BY <1>2, <1>4, <2>1, EmptySeq
  <2> QED BY <1>4, <1>6, <2>1 DEF Ends, Opening
<1>9. SaveOK(q)
  BY <1>4, <1>6 DEF SaveOK, Saving
<1> QED BY <1>4, <1>5, <1>6, <1>7, <1>8, <1>9 DEF Sound, CleanUp

\* What a statement changes.
Touches(new) ==
  /\ Execute(new) /\ lastRow' \in Nat
  /\ UNCHANGED <<store, dirs, progress, past>>

LEMMA RunsTouches ==
  ASSUME NEW t, NEW new, Runs(t, new), Shape
  PROVE  Touches(new) /\ Advance(t) /\ UNCHANGED lastRow
BY DEF Runs, Write, Touches, Shape, TypeOK, progress

LEMMA TouchesShape ==
  ASSUME Shape, NEW new \in Tables, Touches(new), ScriptsOK'
  PROVE  Shape'
<1>1. tables' \in Tables /\ disk' \in Tables /\ owner' = owner /\ lastRow' \in Nat
  BY DEF Shape, TypeOK, Touches, Execute
<1>2. UNCHANGED <<setup, process, done, used, service, files, reachable, dirs, past>>
  BY DEF Touches, store, progress
<1> QED BY <1>1, <1>2 DEF Shape, TypeOK, CredentialStoreTypeOK, ScriptsOK

\* The steps that run a statement and nothing else.
LEMMA StatementShape ==
  ASSUME Shape, NEW t \in Thread,
         \/ UpdateAccount(t) \/ DeleteMemberships(t) \/ ClearManual(t) \/ DeleteWindows(t)
         \/ DeleteSnapshots(t) \/ DeleteRow(t) \/ UpsertGroup(t) \/ DeleteMembers(t)
         \/ PruneLogs(t) \/ ClearLogs(t) \/ InsertSnapshot(t) \/ InsertWindow(t)
         \/ InsertMember(t) \/ InsertLog(t)
  PROVE  Shape'
<1> DEFINE x == Step(t)
<1>1. ScriptsOK /\ tables \in Tables /\ \A s \in Setups : IsSetup(s)
  BY AccountStorageAssumption DEF Shape, TypeOK
<1>2. ASSUME ~ Idle(t) PROVE x \in AnyStep
  BY <1>1, <1>2, NextStep
<1>3. ASSUME NEW new \in Tables, Touches(new), Advance(t), ~ Idle(t), x.op # "rowid"
      PROVE  Shape'
  BY <1>1, <1>3, AdvanceShape, TouchesShape
<1> HIDE DEF x
<1>4. CASE UpdateAccount(t)
  <2> DEFINE new == [tables EXCEPT !.accounts[x.id] = IF @ = NoRow THEN NoRow ELSE x.row]
  <2>1. Runs(t, new) /\ ~ Idle(t) /\ x.op = "update"
    BY <1>4 DEF UpdateAccount, At, Step, x
  <2>2. x.id \in AccountId /\ x.row \in Row
    BY <1>2, <2>1, StepType
  <2>3. new \in Tables
    BY <1>1, <2>2 DEF Tables
  <2> HIDE DEF new
  <2> QED BY <1>3, <2>1, <2>3, RunsTouches
<1>5. CASE DeleteMemberships(t)
  <2> DEFINE new == [tables EXCEPT !.group.members = @ \ {x.id}]
  <2>1. Runs(t, new) /\ ~ Idle(t) /\ x.op = "leave"
    BY <1>5 DEF DeleteMemberships, At, Step, x
  <2>2. new \in Tables
    BY <1>1 DEF Tables, Group
  <2> HIDE DEF new
  <2> QED BY <1>3, <2>1, <2>2, RunsTouches
<1>6. CASE ClearManual(t)
  <2> DEFINE new == [tables EXCEPT !.group.manual = IF @ = x.id THEN NoOne ELSE @]
  <2>1. Runs(t, new) /\ ~ Idle(t) /\ x.op = "unpin"
    BY <1>6 DEF ClearManual, At, Step, x
  <2>2. new \in Tables
    BY <1>1 DEF Tables, Group
  <2> HIDE DEF new
  <2> QED BY <1>3, <2>1, <2>2, RunsTouches
<1>7. CASE DeleteWindows(t)
  <2> DEFINE new == [tables EXCEPT !.windows = {w \in @ : w.snapshot \notin SnapshotsOf(x.id)}]
  <2>1. Runs(t, new) /\ ~ Idle(t) /\ x.op = "dropWindows"
    BY <1>7 DEF DeleteWindows, At, Step, x
  <2>2. new \in Tables
    BY <1>1 DEF Tables
  <2> HIDE DEF new
  <2> QED BY <1>3, <2>1, <2>2, RunsTouches
<1>8. CASE DeleteSnapshots(t)
  <2> DEFINE new == [tables EXCEPT !.snapshots = {s \in @ : s.account # x.id}]
  <2>1. Runs(t, new) /\ ~ Idle(t) /\ x.op = "dropSnapshots"
    BY <1>8 DEF DeleteSnapshots, At, Step, x
  <2>2. new \in Tables
    BY <1>1 DEF Tables
  <2> HIDE DEF new
  <2> QED BY <1>3, <2>1, <2>2, RunsTouches
<1>9. CASE DeleteRow(t)
  <2> DEFINE new == [tables EXCEPT !.accounts[x.id] = NoRow]
  <2>1. Runs(t, new) /\ ~ Idle(t) /\ x.op = "dropRow"
    BY <1>9 DEF DeleteRow, At, Step, x
  <2>2. new \in Tables
    BY <1>1 DEF Tables
  <2> HIDE DEF new
  <2> QED BY <1>3, <2>1, <2>2, RunsTouches
<1>10. CASE UpsertGroup(t)
  <2> DEFINE new == [tables EXCEPT !.group.strategy = x.strategy, !.group.manual = x.manual]
  <2>1. Runs(t, new) /\ ~ Idle(t) /\ x.op = "group"
    BY <1>10 DEF UpsertGroup, At, Step, x
  <2>2. x.strategy \in Strategy /\ x.manual \in AccountId \cup {NoOne}
    BY <1>2, <2>1, StepType
  <2>3. new \in Tables
    BY <1>1, <2>2 DEF Tables, Group
  <2> HIDE DEF new
  <2> QED BY <1>3, <2>1, <2>3, RunsTouches
<1>11. CASE DeleteMembers(t)
  <2> DEFINE new == [tables EXCEPT !.group.members = {}]
  <2>1. Runs(t, new) /\ ~ Idle(t) /\ x.op = "dropMembers"
    BY <1>11 DEF DeleteMembers, At, Step, x
  <2>2. new \in Tables
    BY <1>1 DEF Tables, Group
  <2> HIDE DEF new
  <2> QED BY <1>3, <2>1, <2>2, RunsTouches
<1>12. CASE PruneLogs(t)
  <2>1. PICK old \in setup.expired :
          Runs(t, [tables EXCEPT !.logs = AtMost(@ - AtMost(old, @), MaxRows)])
    BY <1>12 DEF PruneLogs
  <2> DEFINE new == [tables EXCEPT !.logs = AtMost(@ - AtMost(old, @), MaxRows)]
  <2>2. old \in Nat
    BY <1>1 DEF Shape, TypeOK, IsSetup
  <2>3. AtMost(tables.logs - AtMost(old, tables.logs), MaxRows) \in Nat
    BY <1>1, <2>2, AccountStorageAssumption DEF Tables, AtMost
  <2>4. new \in Tables
    BY <1>1, <2>3 DEF Tables
  <2>5. Runs(t, new) /\ ~ Idle(t) /\ x.op = "prune"
    BY <1>12, <2>1 DEF PruneLogs, At, Step, x
  <2> HIDE DEF new
  <2> QED BY <1>3, <2>4, <2>5, RunsTouches
<1>13. CASE ClearLogs(t)
  <2> DEFINE new == [tables EXCEPT !.logs = 0]
  <2>1. Runs(t, new) /\ ~ Idle(t) /\ x.op = "clear"
    BY <1>13 DEF ClearLogs, At, Step, x
  <2>2. new \in Tables
    BY <1>1 DEF Tables
  <2> HIDE DEF new
  <2> QED BY <1>3, <2>1, <2>2, RunsTouches
<1>14. CASE InsertSnapshot(t)
  <2> DEFINE id == tables.numbered + 1
             new == [tables EXCEPT !.snapshots = @ \cup {[id |-> id, account |-> x.id]},
                                   !.numbered = id]
  <2>1. Insert(new, id) /\ ~ Idle(t) /\ x.op = "snapshot" /\ Advance(t)
        /\ UNCHANGED <<store, dirs, progress, past>>
    BY <1>14 DEF InsertSnapshot, At, Step, x
  <2>2. x.id \in AccountId /\ id \in Nat
    BY <1>1, <1>2, <2>1, StepType DEF Tables
  <2>3. new \in Tables
    <3> DEFINE added == tables.snapshots \cup {[id |-> id, account |-> x.id]}
    <3>1. added \in SUBSET [id : Nat, account : AccountId]
      BY <1>1, <2>2 DEF Tables
    <3> HIDE DEF added
    <3>2. new = [tables EXCEPT !.snapshots = added, !.numbered = id]
      BY DEF added
    <3> HIDE DEF id, new
    <3> QED BY <1>1, <2>2, <3>1, <3>2 DEF Tables
  <2> HIDE DEF new, id
  <2>4. Touches(new)
    BY <2>1, <2>2 DEF Touches, Insert
  <2> QED BY <1>3, <2>1, <2>3, <2>4
<1>15. CASE InsertWindow(t)
  <2> DEFINE new == [tables EXCEPT !.windows = @ \cup {[snapshot |-> x.snapshot, of |-> x.id]}]
  <2>1. Insert(new, OtherRow) /\ ~ Idle(t) /\ x.op = "window" /\ Advance(t)
        /\ UNCHANGED <<store, dirs, progress, past>>
    BY <1>15 DEF InsertWindow, At, Step, x
  <2>2. x.id \in AccountId /\ x.snapshot \in Nat
    BY <1>1, <1>2, <2>1, StepType DEF ScriptsOK, x
  <2>3. new \in Tables
    <3> DEFINE added == tables.windows \cup {[snapshot |-> x.snapshot, of |-> x.id]}
    <3>1. added \in SUBSET [snapshot : Nat, of : AccountId]
      BY <1>1, <2>2 DEF Tables
    <3> HIDE DEF added
    <3>2. new = [tables EXCEPT !.windows = added]
      BY DEF added
    <3> QED BY <1>1, <3>1, <3>2 DEF Tables
  <2> HIDE DEF new
  <2>4. Touches(new)
    BY <2>1 DEF Touches, Insert, OtherRow
  <2> QED BY <1>3, <2>1, <2>3, <2>4
<1>16. CASE InsertMember(t)
  <2> DEFINE new == [tables EXCEPT !.group.members = @ \cup {x.id}]
  <2>1. Insert(new, OtherRow) /\ ~ Idle(t) /\ x.op = "member" /\ Advance(t)
        /\ UNCHANGED <<store, dirs, progress, past>>
    BY <1>16 DEF InsertMember, At, Step, x
  <2>2. x.id \in AccountId
    BY <1>2, <2>1, StepType
  <2>3. new \in Tables
    BY <1>1, <2>2 DEF Tables, Group
  <2> HIDE DEF new
  <2>4. Touches(new)
    BY <2>1 DEF Touches, Insert, OtherRow
  <2> QED BY <1>3, <2>1, <2>3, <2>4
<1>17. CASE InsertLog(t)
  <2> DEFINE id == tables.logged + 1
             new == [tables EXCEPT !.logs = @ + 1, !.logged = id]
  <2>1. Insert(new, id) /\ ~ Idle(t) /\ x.op = "log" /\ Advance(t)
        /\ UNCHANGED <<store, dirs, progress, past>>
    BY <1>17 DEF InsertLog, At, Step, x
  <2>2. id \in Nat /\ tables.logs + 1 \in Nat
    BY <1>1 DEF Tables
  <2> HIDE DEF id
  <2>3. new \in Tables
    BY <1>1, <2>2 DEF Tables
  <2> HIDE DEF new
  <2>4. Touches(new)
    BY <2>1, <2>2 DEF Touches, Insert
  <2> QED BY <1>3, <2>1, <2>3, <2>4
<1> QED
  BY <1>4, <1>5, <1>6, <1>7, <1>8, <1>9, <1>10, <1>11, <1>12, <1>13, <1>14, <1>15, <1>16, <1>17

\* The steps of the database that do more or less than run a statement.
LEMMA DatabaseShape ==
  ASSUME Shape, NEW t \in Thread,
         \/ Begin(t) \/ BeginRefused(t) \/ CommitTransaction(t) \/ RollbackTransaction(t)
         \/ NextAccountId(t) \/ InsertAccount(t) \/ FindAccount(t) \/ LastInsertRowid(t)
         \/ ChooseMembers(t) \/ CheckMember(t)
  PROVE  Shape'
<1> DEFINE x == Step(t)
<1>1. ScriptsOK /\ tables \in Tables /\ disk \in Tables
  BY DEF Shape, TypeOK
<1>2. ASSUME ~ Idle(t)
      PROVE  /\ x \in AnyStep /\ Sound(Tail(script[t]))
             /\ Tail(script[t]) # <<>> => Adjacent(x, Tail(script[t])[1])
  BY <1>1, <1>2, NextStep
<1>3. ASSUME ~ Idle(t), Advance(t), x.op # "rowid" PROVE ScriptsOK'
  BY <1>1, <1>3, AdvanceShape
<1>4. ASSUME Continue(t, <<>>) PROVE ScriptsOK'
  BY <1>1, <1>4, EmptyScript, ContinueShape
<1>5. ASSUME ScriptsOK', UNCHANGED <<store, dirs, progress, past>>,
             tables' \in Tables, disk' \in Tables, owner' \in Thread \cup {Nobody}, lastRow' \in Nat
      PROVE  Shape'
  BY <1>5 DEF Shape, TypeOK, CredentialStoreTypeOK, ScriptsOK, store, progress
<1>6. ASSUME ScriptsOK', UNCHANGED <<connection, store, dirs, progress, past>>
      PROVE  Shape'
  BY <1>5, <1>6 DEF Shape, TypeOK, connection
<1> HIDE DEF x
<1>7. CASE Begin(t)
  <2>1. /\ ~ Idle(t) /\ x.op = "begin" /\ Advance(t) /\ UNCHANGED <<store, dirs, progress, past>>
        /\ owner' = t /\ UNCHANGED <<tables, disk, lastRow>>
    BY <1>7 DEF Begin, BeginImmediate, At, Step, x
  <2> QED BY <1>3, <1>5, <2>1 DEF Shape, TypeOK
<1>8. CASE BeginRefused(t)
  BY <1>4, <1>6, <1>8 DEF BeginRefused
<1>9. CASE CommitTransaction(t)
  <2>1. /\ ~ Idle(t) /\ x.op = "commit" /\ Advance(t) /\ UNCHANGED <<store, dirs, progress>>
        /\ owner' = Nobody /\ disk' = tables /\ UNCHANGED <<tables, lastRow>>
        /\ past' = [past EXCEPT !.saved = Settled(x, @)]
    BY <1>9 DEF CommitTransaction, Commit, At, Step, x
  <2>2. \/ x.for \in {"remove", "quota"} /\ x.id \in AccountId
        \/ x.for = "save" /\ x.group \in Group
    BY <1>2, <2>1, StepType
  <2>3. past.saved \in Group
    BY DEF Shape, TypeOK
  <2>4. Settled(x, past.saved) \in Group
    <3>1. CASE x.for = "remove"
      BY <2>3, <3>1 DEF Settled, Group
    <3>2. CASE x.for = "quota"
      BY <2>3, <3>2 DEF Settled
    <3>3. CASE x.for = "save"
      BY <2>2, <3>3 DEF Settled
    <3> QED BY <2>2, <3>1, <3>2, <3>3
  <2>5. ScriptsOK'
    BY <1>3, <2>1
  <2>6. TypeOK'
    BY <1>1, <2>1, <2>4, <2>5 DEF Shape, TypeOK, CredentialStoreTypeOK, ScriptsOK, store, progress
  <2>7. past'.possible = past.possible
    BY <2>1 DEF Shape, TypeOK
  <2> QED BY <2>5, <2>6, <2>7 DEF Shape
<1>10. CASE RollbackTransaction(t)
  <2>1. /\ ~ Idle(t) /\ x.op = "rollback" /\ Advance(t) /\ UNCHANGED <<store, dirs, progress>>
        /\ owner' = Nobody /\ tables' = disk /\ UNCHANGED <<disk, lastRow>>
        /\ past' = [past EXCEPT !.late = @ \cup Appearing(t, tables, tables'),
                                !.undone = @ \cup Undone]
    BY <1>10 DEF RollbackTransaction, Rollback, At, Step, x
  <2>2. ScriptsOK'
    BY <1>3, <2>1
  <2>3. Appearing(t, tables, tables') \subseteq Thread \X AccountId /\ Undone \subseteq AccountId
    BY DEF Appearing, Undone
  <2>4. TypeOK'
    BY <1>1, <2>1, <2>2, <2>3 DEF Shape, TypeOK, CredentialStoreTypeOK, ScriptsOK, store, progress
  <2>5. past'.possible = past.possible
    BY <2>1 DEF Shape, TypeOK
  <2> QED BY <2>2, <2>4, <2>5 DEF Shape
<1>11. CASE NextAccountId(t)
  <2>1. /\ ~ Idle(t) /\ x.op = "nextId" /\ UNCHANGED <<connection, store, dirs, progress, past>>
        /\ Continue(t, << Do("insert", x.id) >>) \/ Continue(t, <<>>)
    BY <1>11 DEF NextAccountId, At, Step, x
  <2>2. x.id \in AccountId
    BY <1>2, <2>1, StepType
  <2> DEFINE y == Do("insert", x.id)
  <2>3. y \in AnyStep /\ y.op = "insert"
    BY <2>2, Steps DEF Do
  <2> HIDE DEF y
  <2>4. Sound(<< y >>) /\ << y >>[1].op # "window"
    BY <2>3, Single DEF Ends, Opening, Saving
  <2>5. ASSUME Continue(t, << y >>) PROVE ScriptsOK'
    BY <1>1, <2>4, <2>5, ContinueShape
  <2> QED BY <1>4, <1>6, <2>1, <2>5 DEF y
<1>12. CASE InsertAccount(t)
  <2> DEFINE new == [tables EXCEPT !.accounts[x.id] = "unkeyed"]
  <2>1. ~ Idle(t) /\ x.op = "insert" /\ Advance(t) /\ UNCHANGED <<store, dirs, progress>>
    BY <1>12 DEF InsertAccount, At, Step, x
  <2>2. ScriptsOK'
    BY <1>3, <2>1
  <2>3. CASE UNCHANGED <<connection, past>>
    BY <1>6, <2>1, <2>2, <2>3
  <2>4. CASE /\ Insert(new, OtherRow)
             /\ past' = [past EXCEPT !.late = @ \cup Appearing(t, tables, new)]
    <3>1. x.id \in AccountId
      BY <1>2, <2>1, StepType
    <3>2. new \in Tables
      BY <1>1, <3>1 DEF Tables, Row
    <3> HIDE DEF new
    <3>3. Appearing(t, tables, new) \subseteq Thread \X AccountId
      BY DEF Appearing
    <3>4. tables' \in Tables /\ disk' \in Tables /\ owner' = owner /\ lastRow' = 0
      BY <1>1, <2>4, <3>2 DEF Insert, Execute, OtherRow
    <3>5. TypeOK'
      BY <2>1, <2>2, <2>4, <3>3, <3>4
         DEF Shape, TypeOK, CredentialStoreTypeOK, ScriptsOK, store, progress
    <3>6. past'.possible = past.possible
      BY <2>4 DEF Shape, TypeOK
    <3> QED BY <2>2, <3>5, <3>6 DEF Shape
  <2> QED BY <1>12, <2>3, <2>4 DEF InsertAccount, Step, x
<1>13. CASE FindAccount(t)
  <2> DEFINE row == tables.accounts[x.id]
             b == IF /\ x.for = "remove" /\ row = "unkeyed"
                     /\ {service[x.id], files[x.id]} # {NoSecret}
                  THEN past.adrift \cup {x.id} ELSE past.adrift
  <2>1. /\ ~ Idle(t) /\ x.op = "find" /\ UNCHANGED <<connection, store, dirs, progress>>
        /\ Continue(t, IF row = NoRow THEN <<>> ELSE Rest(x.for, x.id, row))
        /\ past' = [past EXCEPT !.adrift = b]
    BY <1>13 DEF FindAccount, At, Step, x
  <2>2. x.id \in AccountId /\ x.for \in OnAccount
    BY <1>2, <2>1, StepType
  <2>3. ASSUME row # NoRow
        PROVE  Sound(Rest(x.for, x.id, row)) /\ Rest(x.for, x.id, row)[1].op # "window"
    <3>1. row \in Row
      BY <1>1, <2>2, <2>3 DEF Tables
    <3>2. Fresh(x.id) \in Nat
      BY <2>2, AccountStorageAssumption, FreshSecret
    <3> HIDE DEF row
    <3> QED BY <2>2, <3>1, <3>2, RestSound DEF OnlyAbout, Starts
  <2>4. ScriptsOK'
    <3>1. CASE row = NoRow
      BY <1>4, <2>1, <3>1
    <3>2. CASE row # NoRow
      BY <1>1, <2>1, <2>3, <3>2, ContinueShape
    <3> QED BY <3>1, <3>2
  <2>5. b \subseteq AccountId
    BY <2>2 DEF Shape, TypeOK
  <2> HIDE DEF b, row
  <2>6. TypeOK'
    BY <2>1, <2>4, <2>5
       DEF Shape, TypeOK, CredentialStoreTypeOK, ScriptsOK, store, progress, connection
  <2>7. past'.possible = past.possible
    BY <2>1 DEF Shape, TypeOK
  <2> QED BY <2>4, <2>6, <2>7 DEF Shape
<1>14. CASE LastInsertRowid(t)
  <2> DEFINE window == [op |-> "window", id |-> x.id, snapshot |-> lastRow]
             n == << window >> \o Tail(Tail(script[t]))
             b == IF [id |-> lastRow, account |-> x.id] \in tables.snapshots
                  THEN past.mingled ELSE past.mingled \cup {x.id}
  <2>1. /\ ~ Idle(t) /\ x.op = "rowid" /\ UNCHANGED <<connection, store, dirs, progress>>
        /\ Continue(t, n)
        /\ past' = [past EXCEPT !.mingled = b]
    BY <1>14 DEF LastInsertRowid, At, Step, x
  <2>2. x.id \in AccountId /\ lastRow \in Nat
    BY <1>2, <2>1, StepType DEF Shape, TypeOK
  <2>3. Sound(n) /\ n[1] = window
    BY <1>1, <2>1, <2>2, RowidScript DEF x
  <2>4. n[1].snapshot \in Nat
    BY <2>2, <2>3
  <2> HIDE DEF n
  <2>5. ScriptsOK'
    BY <1>1, <2>1, <2>3, <2>4, ContinueShape
  <2>6. b \subseteq AccountId
    BY <2>2 DEF Shape, TypeOK
  <2> HIDE DEF b
  <2>7. TypeOK'
    BY <2>1, <2>5, <2>6
       DEF Shape, TypeOK, CredentialStoreTypeOK, ScriptsOK, store, progress, connection
  <2>8. past'.possible = past.possible
    BY <2>1 DEF Shape, TypeOK
  <2> QED BY <2>5, <2>7, <2>8 DEF Shape
<1>15. CASE ChooseMembers(t) \/ CheckMember(t)
  <2>1. /\ ~ Idle(t) /\ x.op \in {"choose", "check"}
        /\ UNCHANGED <<connection, store, dirs, progress, past>>
        /\ Continue(t, <<>>) \/ Advance(t)
    BY <1>15 DEF ChooseMembers, CheckMember, At, Step, Advance, x
  <2> QED BY <1>3, <1>4, <1>6, <2>1
<1> QED
  BY <1>7, <1>8, <1>9, <1>10, <1>11, <1>12, <1>13, <1>14, <1>15

LEMMA StoreShape ==
  ASSUME Shape, NEW t \in Thread, StoreStep(t) \/ IgnoredFailure(t)
  PROVE  Shape'
<1> DEFINE x == Step(t)
           ref == x.id
<1>1. ScriptsOK /\ service \in [Ref -> Secret \cup {NoSecret}]
      /\ files \in [Ref -> Secret \cup {NoSecret, Torn}] /\ reachable \in BOOLEAN
      /\ past.possible \in [Ref -> SUBSET (Secret \cup {NoSecret, Torn})]
      /\ past.missed \in SUBSET Ref
  BY DEF Shape, TypeOK, CredentialStoreTypeOK
<1>2. ASSUME ~ Idle(t)
      PROVE  /\ x \in AnyStep /\ Sound(Tail(script[t]))
             /\ Tail(script[t]) # <<>> => Adjacent(x, Tail(script[t])[1])
  BY <1>1, <1>2, NextStep
<1>3. ASSUME ~ Idle(t), Advance(t), x.op # "rowid" PROVE ScriptsOK'
  BY <1>1, <1>3, AdvanceShape
<1> HIDE DEF x
<1>4. ASSUME ScriptsOK', NEW u, used' = u, u \in [faults : Nat, crashes : Nat, exits : Nat, outages : Nat],
             UNCHANGED <<connection, dirs, setup, process, done>>,
             service' \in [Ref -> Secret \cup {NoSecret}],
             files' \in [Ref -> Secret \cup {NoSecret, Torn}], reachable' = reachable,
             NEW m \in SUBSET Ref, ref \in Ref,
             NEW p \in SUBSET (Secret \cup {NoSecret, Torn}), IsFiniteSet(p),
             past' = [past EXCEPT !.missed = m, !.possible[ref] = p]
      PROVE  Shape'
  <2>1. past' = [past EXCEPT !.missed = m, !.possible = [past.possible EXCEPT ![ref] = p]]
    BY <1>4 DEF Shape, TypeOK
  <2>2. [past.possible EXCEPT ![ref] = p] \in [Ref -> SUBSET (Secret \cup {NoSecret, Torn})]
    BY <1>1, <1>4
  <2> DEFINE n == [past.possible EXCEPT ![ref] = p]
  <2> HIDE DEF n
  <2>3. past'.possible = n
    BY <2>1 DEF Shape, TypeOK, n
  <2>4. \A r \in Ref : IsFiniteSet(n[r])
    BY <1>1, <1>4 DEF Shape, n
  <2>5. TypeOK'
    BY <1>1, <1>4, <2>1, <2>2
       DEF Shape, TypeOK, CredentialStoreTypeOK, ScriptsOK, connection, n
  <2> QED BY <1>4, <2>3, <2>4, <2>5 DEF Shape
<1>5. \A r \in Ref : Missed(r) \in SUBSET Ref
  BY <1>1 DEF Missed
<1>6. \A r \in Ref : past.possible[r] \in SUBSET (Secret \cup {NoSecret, Torn})
                     /\ IsFiniteSet(past.possible[r])
  BY <1>1 DEF Shape
<1>7. used \in [faults : Nat, crashes : Nat, exits : Nat, outages : Nat]
  BY DEF Shape, TypeOK
<1>8. past = [past EXCEPT !.missed = past.missed]
  BY DEF Shape, TypeOK
<1>9. ASSUME NEW e PROVE IsFiniteSet({e}) /\ \A r \in Ref : IsFiniteSet(past.possible[r] \cup {e})
  BY <1>6, FS_Singleton, FS_AddElement
<1>10. ASSUME NEW r \in Ref, NEW e, past' = [past EXCEPT !.possible[r] = e]
       PROVE  past' = [past EXCEPT !.missed = past.missed, !.possible[r] = e]
  BY <1>10 DEF Shape, TypeOK
<1>11. CASE Store(t)
  <2> DEFINE p == past.possible[ref] \cup (IF reachable THEN {x.secret} ELSE {})
             n == Filing(x) \o Tail(script[t])
  <2>1. /\ ~ Idle(t) /\ x.op = "store" /\ UNCHANGED <<connection, dirs, progress>>
        /\ StoreInService(ref, x.secret) \/ (~ reachable /\ UNCHANGED store)
        /\ Continue(t, n)
        /\ past' = [past EXCEPT !.missed = Missed(ref), !.possible[ref] = p]
    BY <1>11 DEF Store, At, Step, x, Filing
  <2>2. ref \in Ref /\ x.secret \in Secret
    BY <1>2, <2>1, StepType
  <2>3. Sound(n) /\ n[1].op # "window"
    BY <1>1, <2>1, StoreScript DEF x
  <2> HIDE DEF n
  <2>4. ScriptsOK'
    BY <1>1, <2>1, <2>3, ContinueShape
  <2>5. p \in SUBSET (Secret \cup {NoSecret, Torn}) /\ IsFiniteSet(p)
    <3>1. p = past.possible[ref] \/ p = past.possible[ref] \cup {x.secret}
      OBVIOUS
    <3> HIDE DEF p
    <3> QED BY <1>6, <1>9, <2>2, <3>1
  <2> HIDE DEF p
  <2>6. service' \in [Ref -> Secret \cup {NoSecret}] /\ files' = files /\ reachable' = reachable
    BY <1>1, <2>1, <2>2 DEF StoreInService, store
  <2> QED BY <1>1, <1>4, <1>5, <1>7, <2>1, <2>2, <2>4, <2>5, <2>6 DEF progress
<1>12. ASSUME ~ Idle(t), Advance(t), UNCHANGED <<connection, dirs, progress, service, reachable>>,
              NEW c \in Secret \cup {NoSecret, Torn}, ref \in Ref,
              files' = [files EXCEPT ![ref] = c] \/ files' = files,
              NEW p \in SUBSET (Secret \cup {NoSecret, Torn}), IsFiniteSet(p),
              past' = [past EXCEPT !.possible[ref] = p], x.op # "rowid"
       PROVE  Shape'
  <2>1. ScriptsOK' /\ files' \in [Ref -> Secret \cup {NoSecret, Torn}]
    BY <1>1, <1>3, <1>12
  <2> QED BY <1>1, <1>4, <1>7, <1>10, <1>12, <2>1 DEF progress
<1>13. CASE Unfile(t)
  <2>1. /\ ~ Idle(t) /\ x.op = "unfile" /\ UNCHANGED <<connection, dirs, progress>> /\ Advance(t)
        /\ RemoveFile(ref) /\ past' = [past EXCEPT !.possible[ref] = {x.secret}]
    BY <1>13 DEF Unfile, At, Step, x
  <2>2. ref \in Ref /\ x.secret \in Secret
    BY <1>2, <2>1, StepType
  <2>3. {x.secret} \in SUBSET (Secret \cup {NoSecret, Torn}) /\ IsFiniteSet({x.secret})
    BY <1>9, <2>2
  <2>4. files' = [files EXCEPT ![ref] = NoSecret] /\ UNCHANGED <<service, reachable>>
    BY <2>1 DEF RemoveFile, SetFile
  <2> QED BY <1>12, <2>1, <2>2, <2>3, <2>4
<1>14. CASE Truncate(t)
  <2>1. /\ ~ Idle(t) /\ x.op = "truncate" /\ UNCHANGED <<connection, dirs, progress>> /\ Advance(t)
        /\ TruncateFile(ref) /\ past' = [past EXCEPT !.possible[ref] = past.possible[ref] \cup {Torn}]
    BY <1>14 DEF Truncate, At, Step, x, Shape, TypeOK
  <2>2. ref \in Ref
    BY <1>2, <2>1, StepType
  <2>3. past.possible[ref] \cup {Torn} \in SUBSET (Secret \cup {NoSecret, Torn})
        /\ IsFiniteSet(past.possible[ref] \cup {Torn})
    BY <1>6, <1>9, <2>2
  <2> QED BY <1>12, <2>1, <2>2, <2>3 DEF TruncateFile, SetFile
<1>15. CASE WriteSecret(t)
  <2>1. /\ ~ Idle(t) /\ x.op = "write" /\ UNCHANGED <<connection, dirs, progress>> /\ Advance(t)
        /\ WriteFile(ref, x.secret) /\ past' = [past EXCEPT !.possible[ref] = {x.secret}]
    BY <1>15 DEF WriteSecret, At, Step, x
  <2>2. ref \in Ref /\ x.secret \in Secret
    BY <1>2, <2>1, StepType
  <2>3. {x.secret} \in SUBSET (Secret \cup {NoSecret, Torn}) /\ IsFiniteSet({x.secret})
    BY <1>9, <2>2
  <2>4. files' = [files EXCEPT ![ref] = x.secret] /\ UNCHANGED <<service, reachable>>
    BY <2>1 DEF WriteFile, SetFile
  <2> QED BY <1>12, <2>1, <2>2, <2>3, <2>4
<1>16. CASE Forget(t)
  <2>1. /\ ~ Idle(t) /\ x.op = "forget" /\ UNCHANGED <<connection, dirs, progress>> /\ Advance(t)
        /\ EraseFromService(ref)
        /\ past' = [past EXCEPT !.missed = Missed(ref),
                                !.possible[ref] = past.possible[ref] \cup {NoSecret}]
    BY <1>16 DEF Forget, At, Step, x, Shape, TypeOK
  <2>2. ref \in Ref
    BY <1>2, <2>1, StepType
  <2> DEFINE p == past.possible[ref] \cup {NoSecret}
  <2>3. p \in SUBSET (Secret \cup {NoSecret, Torn}) /\ IsFiniteSet(p)
    BY <1>6, <1>9, <2>2
  <2>4. service' \in [Ref -> Secret \cup {NoSecret}] /\ files' = files /\ reachable' = reachable
    BY <1>1, <2>1, <2>2 DEF EraseFromService
  <2>5. ScriptsOK'
    BY <1>3, <2>1
  <2> HIDE DEF p
  <2>6. past' = [past EXCEPT !.missed = Missed(ref), !.possible[ref] = p]
    BY <2>1 DEF p
  <2> QED BY <1>1, <1>4, <1>5, <1>7, <2>1, <2>2, <2>3, <2>4, <2>5, <2>6 DEF progress
<1>17. CASE Remove(t)
  <2>1. /\ ~ Idle(t) /\ x.op = "remove" /\ UNCHANGED <<connection, dirs, progress>> /\ Advance(t)
        /\ RemoveFile(ref) /\ past' = [past EXCEPT !.possible[ref] = {NoSecret}]
    BY <1>17 DEF Remove, At, Step, x
  <2>2. ref \in Ref
    BY <1>2, <2>1, StepType
  <2> QED BY <1>9, <1>12, <2>1, <2>2 DEF RemoveFile, SetFile
<1>18. CASE IgnoredFailure(t)
  <2> DEFINE p == IF x.op = "write" THEN {Torn} ELSE {x.secret, files[ref]}
  <2>1. /\ ~ Idle(t) /\ x.op \in {"write", "unfile"} /\ UNCHANGED <<connection, store, dirs>>
        /\ Advance(t) /\ Fault /\ past' = [past EXCEPT !.possible[ref] = p]
    BY <1>18 DEF IgnoredFailure, FlushFails, UnfileFails, At, Step, x
  <2>2. ref \in Ref /\ p \in SUBSET (Secret \cup {NoSecret, Torn}) /\ IsFiniteSet(p)
    <3>1. ref \in Ref /\ x.secret \in Secret
      BY <1>2, <2>1, StepType
    <3>2. {x.secret, files[ref]} = {x.secret} \cup {files[ref]}
      OBVIOUS
    <3>3. IsFiniteSet({Torn}) /\ IsFiniteSet({x.secret})
      BY FS_Singleton
    <3>4. IsFiniteSet({x.secret, files[ref]})
      BY <3>2, <3>3, FS_AddElement
    <3>5. files[ref] \in Secret \cup {NoSecret, Torn}
      BY <1>1, <3>1
    <3>6. {Torn} \in SUBSET (Secret \cup {NoSecret, Torn})
      OBVIOUS
    <3>7. {x.secret, files[ref]} \in SUBSET (Secret \cup {NoSecret, Torn})
      BY <3>1, <3>5
    <3>8. p = {Torn} \/ p = {x.secret, files[ref]}
      OBVIOUS
    <3> HIDE DEF p
    <3> QED BY <3>1, <3>3, <3>4, <3>6, <3>7, <3>8
  <2>3. used' \in [faults : Nat, crashes : Nat, exits : Nat, outages : Nat]
        /\ UNCHANGED <<setup, process, done>>
    BY <1>7, <2>1 DEF Fault
  <2>4. ScriptsOK'
    BY <1>3, <2>1
  <2> HIDE DEF p
  <2>5. past' = [past EXCEPT !.missed = past.missed, !.possible[ref] = p]
    BY <1>10, <2>1, <2>2
  <2> QED BY <1>1, <1>4, <2>1, <2>2, <2>3, <2>4, <2>5 DEF store
<1> QED
  BY <1>11, <1>13, <1>14, <1>15, <1>16, <1>17, <1>18 DEF StoreStep

LEMMA DirectoryShape ==
  ASSUME Shape, NEW t \in Thread, DirectoryStep(t)
  PROVE  Shape'
<1> DEFINE x == Step(t)
<1>1. ScriptsOK /\ dirs \in [AccountId -> {"profile", "empty", "none"}]
  BY DEF Shape, TypeOK
<1>2. ASSUME ~ Idle(t)
      PROVE  /\ x \in AnyStep /\ Sound(Tail(script[t]))
             /\ Tail(script[t]) # <<>> => Adjacent(x, Tail(script[t])[1])
  BY <1>1, <1>2, NextStep
<1> HIDE DEF x
<1>3. ASSUME ~ Idle(t), x.op \in {"createHome", "removeHome", "removeTree"},
             NEW c \in {"profile", "empty", "none"}, SetDir(t, c)
      PROVE  Shape'
  <2>1. x.id \in AccountId
    BY <1>2, <1>3, StepType
  <2>2. /\ dirs' = [dirs EXCEPT ![x.id] = c] /\ Advance(t)
        /\ UNCHANGED <<connection, store, progress, past>>
    BY <1>3 DEF SetDir, x
  <2>3. dirs' \in [AccountId -> {"profile", "empty", "none"}]
    BY <1>1, <2>1, <2>2
  <2>4. ScriptsOK'
    BY <1>1, <1>3, <2>2, AdvanceShape DEF x
  <2> QED
    BY <2>2, <2>3, <2>4
       DEF Shape, TypeOK, CredentialStoreTypeOK, ScriptsOK, connection, store, progress
<1>4. CASE CreateHome(t)
  BY <1>3, <1>4 DEF CreateHome, At, Step, x
<1>5. CASE RemoveHome(t)
  <2> DEFINE c == IF dirs[x.id] = "none" THEN "none" ELSE "empty"
  <2>1. SetDir(t, c) /\ ~ Idle(t) /\ x.op = "removeHome"
    BY <1>5 DEF RemoveHome, At, Step, x
  <2>2. c \in {"profile", "empty", "none"}
    OBVIOUS
  <2> HIDE DEF c
  <2> QED BY <1>3, <2>1, <2>2
<1>6. CASE RemoveTree(t)
  BY <1>3, <1>6 DEF RemoveTree, At, Step, x
<1>7. CASE ListAccounts(t)
  <2> DEFINE known == {a \in AccountId : tables.accounts[a] # NoRow}
             y == [op |-> "scan", id |-> NoOne, known |-> known]
             b == past.late \cup {t} \X {a \in AccountId \ known : disk.accounts[a] # NoRow}
  <2>1. /\ Continue(t, << y >>) /\ UNCHANGED <<connection, store, dirs, progress>>
        /\ past' = [past EXCEPT !.late = b]
    BY <1>7 DEF ListAccounts, Shape, TypeOK
  <2>2. b \in SUBSET (Thread \X AccountId)
    BY DEF Shape, TypeOK
  <2>3. y \in AnyStep /\ y.op = "scan"
    <3>1. known \in SUBSET AccountId
      OBVIOUS
    <3> HIDE DEF known
    <3> QED BY <3>1 DEF AnyStep
  <2> HIDE DEF y, b
  <2>4. Sound(<< y >>) /\ << y >>[1].op # "window"
    BY <2>3, Single DEF Ends, Opening, Saving
  <2>5. ScriptsOK'
    BY <1>1, <2>1, <2>4, ContinueShape
  <2>6. TypeOK'
    BY <2>1, <2>2, <2>5
       DEF Shape, TypeOK, CredentialStoreTypeOK, ScriptsOK, connection, store, progress
  <2>7. past'.possible = past.possible
    BY <2>1 DEF Shape, TypeOK
  <2> QED BY <2>5, <2>6, <2>7 DEF Shape
<1>8. CASE ListDirectories(t)
  <2>1. PICK r : Continue(t, r) /\ Sound(r) /\ (r # <<>> => r[1].op = "removeTree")
    <3>1. PICK r : Continue(t, r) /\ CleanUp(t, r)
      BY <1>8, ScanScript
    <3> QED BY <3>1 DEF CleanUp
  <2>2. UNCHANGED <<connection, store, dirs, progress, past>>
    BY <1>8 DEF ListDirectories
  <2>3. ScriptsOK'
    BY <1>1, <2>1, ContinueShape
  <2> QED
    BY <2>2, <2>3
       DEF Shape, TypeOK, CredentialStoreTypeOK, ScriptsOK, connection, store, progress
<1> QED
  BY <1>4, <1>5, <1>6, <1>7, <1>8 DEF DirectoryStep

LEMMA OtherShape ==
  ASSUME Shape, Transactions,
         \/ \E t \in Thread : Start(t) \/ Fails(t)
         \/ Crash \/ Exit \/ Stop \/ Restart \/ Outage
  PROVE  Shape'
<1>1. ScriptsOK /\ process \in {"up", "stopping", "down"} /\ done \in [Thread -> Nat]
      /\ used \in [faults : Nat, crashes : Nat, exits : Nat, outages : Nat]
      /\ LocalApi \in Ref
  BY AccountStorageAssumption DEF Shape, TypeOK
<1>2. ASSUME ScriptsOK', UNCHANGED <<store, dirs, setup>>,
             tables' \in Tables, disk' \in Tables, owner' \in Thread \cup {Nobody}, lastRow' \in Nat,
             process' \in {"up", "stopping", "down"}, done' \in [Thread -> Nat],
             used' \in [faults : Nat, crashes : Nat, exits : Nat, outages : Nat],
             NEW c \in SUBSET Ref, NEW l \in SUBSET (Thread \X AccountId),
             NEW u \in SUBSET AccountId,
             past' = [past EXCEPT !.crossed = c, !.late = l, !.undone = u]
      PROVE  Shape'
  <2>1. TypeOK'
    BY <1>2 DEF Shape, TypeOK, CredentialStoreTypeOK, ScriptsOK, store
  <2>2. past'.possible = past.possible
    BY <1>2 DEF Shape, TypeOK
  <2> QED BY <1>2, <2>1, <2>2 DEF Shape
<1>3. past = [past EXCEPT !.crossed = past.crossed, !.late = past.late, !.undone = past.undone]
      /\ past.crossed \in SUBSET Ref /\ past.late \in SUBSET (Thread \X AccountId)
      /\ past.undone \in SUBSET AccountId
  BY DEF Shape, TypeOK
<1>4. tables \in Tables /\ disk \in Tables /\ owner \in Thread \cup {Nobody} /\ lastRow \in Nat
  BY DEF Shape, TypeOK
<1>5. ASSUME script' = [t \in Thread |-> <<>>] PROVE ScriptsOK'
  BY <1>5, EmptyScript DEF ScriptsOK, Idle
<1>6. ASSUME Close PROVE tables' = disk /\ disk' = disk /\ owner' = Nobody /\ lastRow' = 0
  BY <1>6 DEF Close, OtherRow
<1>7. ASSUME NEW t \in Thread, Start(t) PROVE Shape'
  <2>1. PICK job \in setup.jobs[t] :
          /\ Continue(t, Script(job))
          /\ past' = [past EXCEPT
               !.crossed = @ \cup (Ref \cap {Script(job)[i].id : i \in DOMAIN Script(job)}
                                        \cap UNION {About(u) : u \in Thread \ {t}}),
               !.late = {p \in @ : p[1] # t}]
    BY <1>7 DEF Start
  <2> DEFINE c == past.crossed \cup (Ref \cap {Script(job)[i].id : i \in DOMAIN Script(job)}
                                          \cap UNION {About(u) : u \in Thread \ {t}})
             l == {p \in past.late : p[1] # t}
  <2>2. c \in SUBSET Ref /\ l \in SUBSET (Thread \X AccountId)
    BY <1>3
  <2>3. job \in Job
    BY AccountStorageAssumption DEF Shape, TypeOK, IsSetup
  <2>4. Sound(Script(job)) /\ Script(job)[1].op # "window"
    BY <1>1, <2>3, ScriptSound, FreshSecret DEF First
  <2>5. ScriptsOK'
    BY <1>1, <2>1, <2>4, ContinueShape
  <2>6. past' = [past EXCEPT !.crossed = c, !.late = l, !.undone = past.undone]
    BY <2>1 DEF Shape, TypeOK
  <2> HIDE DEF c, l
  <2>7. done' \in [Thread -> Nat] /\ UNCHANGED <<tables, disk, owner, lastRow, store, dirs, setup, process, used>>
    <3>1. done' = [done EXCEPT ![t] = @ + 1] /\ UNCHANGED <<connection, store, dirs, setup, process, used>>
      BY <1>7 DEF Start
    <3>2. done \in [Thread -> Nat]
      BY DEF Shape, TypeOK
    <3> QED BY <3>1, <3>2 DEF connection
  <2> QED BY <1>1, <1>2, <1>3, <1>4, <2>2, <2>5, <2>6, <2>7
<1>8. ASSUME NEW t \in Thread, Fails(t) PROVE Shape'
  <2> DEFINE x == Step(t)
             n == IF owner = t THEN << Do("rollback", x.id) >> ELSE <<>>
  <2>1. /\ ~ Idle(t) /\ x.op \in Fallible /\ Fault /\ Continue(t, n)
        /\ UNCHANGED <<connection, store, dirs, past>>
    BY <1>8 DEF Fails, At, Step
  <2>2. Sound(n) /\ (n # <<>> => n[1].op # "window")
    <3>1. ASSUME owner = t PROVE Do("rollback", x.id) \in AnyStep
      <4>1. x \in AnyStep
        BY <1>1, <2>1, NextStep
      <4>2. x.op \in Inner
        BY <3>1 DEF Transactions, Inside
      <4>3. x.id \in AccountId \cup {NoOne}
        BY <2>1, <4>1, <4>2, StepType DEF Inner, Opening, Fallible
      <4> HIDE DEF x
      <4> QED BY <4>3 DEF AnyStep, Do
    <3> DEFINE y == Do("rollback", x.id)
    <3>2. y.op = "rollback"
      BY DEF Do
    <3>3. ASSUME owner = t PROVE Sound(<< y >>) /\ << y >>[1].op # "window"
      <4> HIDE DEF y
      <4>1. y \in AnyStep
        BY <3>1, <3>3 DEF y
      <4> QED BY <3>2, <4>1, Single DEF Ends, Opening, Saving
    <3> HIDE DEF y
    <3>4. n = IF owner = t THEN << y >> ELSE <<>>
      BY DEF y
    <3> HIDE DEF n
    <3> QED BY <3>3, <3>4, EmptyScript
  <2>3. ScriptsOK'
    BY <1>1, <2>1, <2>2, ContinueShape
  <2>4. used' \in [faults : Nat, crashes : Nat, exits : Nat, outages : Nat]
        /\ UNCHANGED <<tables, disk, owner, lastRow, setup, process, done, past>>
    BY <1>1, <2>1 DEF Fault, connection
  <2> QED BY <1>1, <1>2, <1>3, <1>4, <2>1, <2>3, <2>4
<1>9. CASE Crash
  <2> DEFINE u == past.undone \cup Undone
  <2>1. u \in SUBSET AccountId
    BY <1>3 DEF Undone
  <2>2. past' = [past EXCEPT !.crossed = past.crossed, !.late = past.late, !.undone = u]
    BY <1>9 DEF Crash, Shape, TypeOK
  <2> HIDE DEF u
  <2>3. /\ ScriptsOK' /\ UNCHANGED <<store, dirs, setup, done>> /\ process' = "down"
        /\ used' \in [faults : Nat, crashes : Nat, exits : Nat, outages : Nat]
    BY <1>1, <1>5, <1>9 DEF Crash
  <2>4. tables' = disk /\ disk' = disk /\ owner' = Nobody /\ lastRow' = 0
    BY <1>6, <1>9 DEF Crash
  <2> QED BY <1>1, <1>2, <1>3, <1>4, <2>1, <2>2, <2>3, <2>4
<1>10. CASE Exit
  <2>1. /\ UNCHANGED <<connection, store, script, dirs, setup, done, past>> /\ process' = "stopping"
        /\ used' \in [faults : Nat, crashes : Nat, exits : Nat, outages : Nat]
    BY <1>1, <1>10 DEF Exit
  <2>2. ScriptsOK'
    BY <1>1, <2>1 DEF ScriptsOK, Idle, Step
  <2> QED BY <1>1, <1>2, <1>3, <1>4, <2>1, <2>2 DEF connection
<1>11. CASE Stop
  <2>1. UNCHANGED <<store, script, dirs, setup, done, used, past>> /\ process' = "down"
    BY <1>11 DEF Stop
  <2>2. tables' = disk /\ disk' = disk /\ owner' = Nobody /\ lastRow' = 0
    BY <1>6, <1>11 DEF Stop
  <2>3. ScriptsOK'
    BY <1>1, <2>1 DEF ScriptsOK, Idle, Step
  <2> QED BY <1>1, <1>2, <1>3, <1>4, <2>1, <2>2, <2>3
<1>12. CASE Restart
  <2> DEFINE x == [op |-> "store", id |-> LocalApi, secret |-> Fresh(LocalApi)]
             n == IF Get(LocalApi) = NoSecret THEN << x >> ELSE <<>>
  <2>1. UNCHANGED <<connection, store, dirs, setup, done, used, past>> /\ process' = "up"
        /\ Continue(Main, n)
    BY <1>12 DEF Restart, Continue, put
  <2>2. x \in AnyStep /\ x.op = "store"
    BY <1>1, FreshSecret DEF AnyStep, Secret
  <2> HIDE DEF x
  <2>3. Sound(n) /\ (n # <<>> => n[1].op # "window")
    BY <2>2, Single, EmptyScript DEF Ends, Opening, Saving
  <2> HIDE DEF n
  <2>4. ScriptsOK'
    BY <1>1, <2>1, <2>3, ContinueShape, AccountStorageAssumption
  <2> QED BY <1>1, <1>2, <1>3, <1>4, <2>1, <2>4 DEF connection
<1>13. CASE Outage
  <2>1. /\ UNCHANGED <<connection, script, dirs, setup, process, done, past>>
        /\ reachable' = ~ reachable /\ UNCHANGED <<service, files>>
        /\ used' \in [faults : Nat, crashes : Nat, exits : Nat, outages : Nat]
    BY <1>1, <1>13 DEF Outage, Toggle
  <2>2. ScriptsOK'
    BY <1>1, <2>1 DEF ScriptsOK, Idle, Step
  <2> QED
    BY <2>1, <2>2 DEF Shape, TypeOK, CredentialStoreTypeOK, ScriptsOK, connection
<1> QED BY <1>7, <1>8, <1>9, <1>10, <1>11, <1>12, <1>13

-----------------------------------------------------------------------------
(* Transactions.                                                           *)

\* A script whose next step belongs to a transaction.
Opens(r) == r # <<>> /\ r[1].op \in Inner

LEMMA InsideOpens ==
  ASSUME ScriptsOK, NEW t \in Thread
  PROVE  Inside(t) <=> Opens(script[t])
BY NextStep DEF Inside, Opens, Idle

\* What comes after a step is in a transaction when the step opens or goes on with one.
LEMMA OpensNext ==
  ASSUME ScriptsOK, NEW t \in Thread, ~ Idle(t)
  PROVE  Opens(Tail(script[t])) <=> Step(t).op \in Opening
<1>1. CASE Tail(script[t]) = <<>>
  <2>1. Step(t).op \notin Opening
    BY <1>1, NextStep DEF Ends
  <2> QED BY <1>1, <2>1 DEF Opens
<1>2. CASE Tail(script[t]) # <<>>
  BY <1>2, NextStep DEF Opens, Adjacent
<1> QED BY <1>1, <1>2

\* A thread goes on, and nobody else does.
LEMMA ContinueTransactions ==
  ASSUME ScriptsOK, ScriptsOK', Transactions, NEW t \in Thread, NEW r, Continue(t, r),
         owner' \in Thread \cup {Nobody}, process' # "down",
         owner' = t <=> Opens(r),
         \A u \in Thread \ {t} : owner' = u <=> owner = u,
         owner' = Nobody => tables' = disk'
  PROVE  Transactions'
<1>1. /\ script'[t] = r
      /\ \A u \in Thread \ {t} : script'[u] = script[u]
  BY DEF ScriptsOK, Continue
<1>2. \A u \in Thread : Inside(u)' <=> Opens(script'[u])
  <2> SUFFICES ASSUME NEW u \in Thread PROVE Inside(u)' <=> Opens(script'[u])
    OBVIOUS
  <2>1. script'[u] \in Seq(AnyStep)
    BY DEF ScriptsOK
  <2> QED BY <2>1, TailOf DEF Inside, Opens, Idle, Step
<1>3. \A u \in Thread : owner' = u <=> Inside(u)'
  <2> SUFFICES ASSUME NEW u \in Thread PROVE owner' = u <=> Inside(u)'
    OBVIOUS
  <2>1. CASE u = t
    BY <1>1, <1>2, <2>1
  <2>2. CASE u # t
    BY <1>1, <1>2, <2>2, InsideOpens DEF Transactions
  <2> QED BY <2>1, <2>2
<1> QED BY <1>3 DEF Transactions

\* A step that is not the first or the last of a transaction.
LEMMA AdvanceTransactions ==
  ASSUME ScriptsOK, ScriptsOK', Transactions, NEW t \in Thread, ~ Idle(t), Advance(t),
         Step(t).op \notin {"begin", "commit", "rollback"},
         owner \in Thread \cup {Nobody}, owner' = owner, process' # "down",
         owner = Nobody => tables' = disk'
  PROVE  Transactions'
<1>1. Opens(Tail(script[t])) <=> Inside(t)
  BY OpensNext DEF Inside, Inner, Opening
<1>2. owner = t <=> Inside(t)
  BY DEF Transactions
<1> QED BY <1>1, <1>2, ContinueTransactions DEF Advance

\* A step outside of transactions that is followed by others.
LEMMA OutsideTransactions ==
  ASSUME ScriptsOK, ScriptsOK', Transactions, NEW t \in Thread, NEW r, Continue(t, r),
         ~ Inside(t), ~ Opens(r), owner \in Thread \cup {Nobody}, process' # "down",
         UNCHANGED connection
  PROVE  Transactions'
<1>1. owner' = owner /\ tables' = tables /\ disk' = disk
  BY DEF connection
<1>2. owner' # t
  BY <1>1 DEF Transactions
<1>3. owner' = Nobody => tables' = disk'
  BY <1>1 DEF Transactions
<1> QED BY <1>1, <1>2, <1>3, ContinueTransactions

LEMMA StatementTransactions ==
  ASSUME Shape, Shape', Transactions, NEW t \in Thread,
         \/ UpdateAccount(t) \/ DeleteMemberships(t) \/ ClearManual(t) \/ DeleteWindows(t)
         \/ DeleteSnapshots(t) \/ DeleteRow(t) \/ UpsertGroup(t) \/ DeleteMembers(t)
         \/ PruneLogs(t) \/ ClearLogs(t) \/ InsertSnapshot(t) \/ InsertWindow(t)
         \/ InsertMember(t) \/ InsertLog(t)
  PROVE  Transactions'
<1>1. /\ ~ Idle(t) /\ process # "down" /\ Advance(t) /\ process' = process
      /\ Step(t).op \notin {"begin", "commit", "rollback"}
      /\ \E new : Execute(new)
  <2>1. CASE \/ UpdateAccount(t) \/ DeleteMemberships(t) \/ ClearManual(t) \/ DeleteWindows(t)
             \/ DeleteSnapshots(t) \/ DeleteRow(t) \/ UpsertGroup(t) \/ DeleteMembers(t)
             \/ PruneLogs(t) \/ ClearLogs(t)
    BY <2>1 DEF UpdateAccount, DeleteMemberships, ClearManual, DeleteWindows, DeleteSnapshots,
                DeleteRow, UpsertGroup, DeleteMembers, PruneLogs, ClearLogs, At, Step, Runs, Write,
                progress
  <2>2. CASE InsertSnapshot(t) \/ InsertWindow(t) \/ InsertMember(t) \/ InsertLog(t)
    BY <2>2 DEF InsertSnapshot, InsertWindow, InsertMember, InsertLog, Insert, At, Step, progress
  <2> QED BY <2>1, <2>2
<1>2. owner' = owner /\ (owner = Nobody => tables' = disk')
  BY <1>1 DEF Execute, InTransaction
<1> QED BY <1>1, <1>2, AdvanceTransactions DEF Shape, TypeOK

LEMMA DatabaseTransactions ==
  ASSUME Shape, Shape', Transactions, NEW t \in Thread,
         \/ Begin(t) \/ BeginRefused(t) \/ CommitTransaction(t) \/ RollbackTransaction(t)
         \/ NextAccountId(t) \/ InsertAccount(t) \/ FindAccount(t) \/ LastInsertRowid(t)
         \/ ChooseMembers(t) \/ CheckMember(t)
  PROVE  Transactions'
<1> DEFINE x == Step(t)
<1>1. ScriptsOK /\ ScriptsOK' /\ owner \in Thread \cup {Nobody} /\ Nobody \notin Thread
  BY AccountStorageAssumption DEF Shape, TypeOK
<1>2. owner = Nobody => tables = disk
  BY DEF Transactions
<1>3. ASSUME NEW op, At(t, op) PROVE ~ Idle(t) /\ x.op = op /\ process # "down"
  BY <1>3 DEF At, Step
<1>4. ~ Opens(<<>>)
  BY DEF Opens
<1>5. ASSUME ~ Idle(t), x.op \notin Inner, process # "down", process' = process, UNCHANGED connection,
             NEW r, Continue(t, r), ~ Opens(r)
      PROVE  Transactions'
  BY <1>1, <1>5, OutsideTransactions DEF Inside
<1>6. CASE Begin(t)
  <2>1. /\ ~ Idle(t) /\ x.op = "begin" /\ process # "down" /\ Advance(t) /\ process' = process
        /\ owner = Nobody /\ owner' = t
    BY <1>3, <1>6 DEF Begin, BeginImmediate, InTransaction, progress
  <2>2. Opens(Tail(script[t]))
    BY <1>1, <2>1, OpensNext DEF Opening
  <2> QED BY <1>1, <2>1, <2>2, ContinueTransactions DEF Advance
<1>7. CASE BeginRefused(t)
  <2>1. ~ Idle(t) /\ x.op = "begin" /\ process # "down" /\ Continue(t, <<>>)
        /\ process' = process /\ UNCHANGED connection
    BY <1>3, <1>7 DEF BeginRefused, progress
  <2> QED BY <1>4, <1>5, <2>1 DEF Inner, Opening
<1>8. CASE CommitTransaction(t) \/ RollbackTransaction(t)
  <2>1. /\ ~ Idle(t) /\ x.op \in {"commit", "rollback"} /\ process # "down" /\ Advance(t)
        /\ process' = process /\ owner' = Nobody /\ tables' = disk'
    BY <1>3, <1>8 DEF CommitTransaction, RollbackTransaction, Commit, Rollback, progress
  <2>2. ~ Opens(Tail(script[t]))
    BY <1>1, <2>1, OpensNext DEF Opening
  <2>3. owner = t
    BY <2>1 DEF Transactions, Inside, Inner
  <2> QED BY <1>1, <2>1, <2>2, <2>3, ContinueTransactions DEF Advance
<1>9. CASE NextAccountId(t)
  <2>1. /\ ~ Idle(t) /\ x.op = "nextId" /\ process # "down"
        /\ process' = process /\ UNCHANGED connection
        /\ Continue(t, << Do("insert", x.id) >>) \/ Continue(t, <<>>)
    BY <1>3, <1>9 DEF NextAccountId, progress
  <2>2. ~ Opens(<< Do("insert", x.id) >>)
    BY DEF Opens, Do, Inner, Opening
  <2> QED BY <1>4, <1>5, <2>1, <2>2 DEF Inner, Opening
<1>10. CASE InsertAccount(t)
  <2>1. /\ ~ Idle(t) /\ x.op = "insert" /\ process # "down" /\ Advance(t) /\ process' = process
    BY <1>3, <1>10 DEF InsertAccount, progress
  <2>2. owner' = owner /\ (owner = Nobody => tables' = disk')
    BY <1>2, <1>10 DEF InsertAccount, Insert, Execute, InTransaction, connection
  <2> QED BY <1>1, <2>1, <2>2, AdvanceTransactions
<1>11. CASE FindAccount(t)
  <2> DEFINE row == tables.accounts[x.id]
             r == IF row = NoRow THEN <<>> ELSE Rest(x.for, x.id, row)
  <2>1. ~ Idle(t) /\ x.op = "find" /\ process # "down"
        /\ process' = process /\ UNCHANGED connection /\ Continue(t, r)
    BY <1>3, <1>11 DEF FindAccount, progress
  <2>2. ~ Opens(r)
    <3>1. CASE row = NoRow
      BY <1>4, <3>1
    <3>2. CASE row # NoRow
      <4>1. x.id \in AccountId /\ x.for \in OnAccount
        BY <1>1, <2>1, NextStep, StepType
      <4>2. row \in Row
        BY <3>2, <4>1 DEF Shape, TypeOK, Tables
      <4>3. Fresh(x.id) \in Nat
        BY <4>1, AccountStorageAssumption, FreshSecret
      <4>4. r = Rest(x.for, x.id, row)
        BY <3>2
      <4> HIDE DEF r, row
      <4>5. r[1].op \in Starts
        BY <4>1, <4>2, <4>3, <4>4, RestSound DEF OnlyAbout
      <4> QED BY <4>5 DEF Opens, Starts, Inner, Opening
    <3> QED BY <3>1, <3>2
  <2> HIDE DEF r
  <2> QED BY <1>5, <2>1, <2>2 DEF Inner, Opening
<1>12. CASE LastInsertRowid(t)
  <2> DEFINE window == [op |-> "window", id |-> x.id, snapshot |-> lastRow]
             r == << window >> \o Tail(Tail(script[t]))
  <2>1. ~ Idle(t) /\ x.op = "rowid" /\ process # "down"
        /\ process' = process /\ UNCHANGED connection /\ Continue(t, r)
    BY <1>3, <1>12 DEF LastInsertRowid, progress
  <2>2. r # <<>> /\ r[1] = window
    BY <1>1, <2>1, RowidScript DEF Shape, TypeOK
  <2> HIDE DEF r
  <2>3. Opens(r)
    BY <2>2 DEF Opens, Inner, Opening
  <2>4. owner = t
    BY <2>1 DEF Transactions, Inside, Inner, Opening
  <2>5. owner' = owner
    BY <2>1 DEF connection
  <2> QED BY <1>1, <2>1, <2>3, <2>4, <2>5, ContinueTransactions
<1>13. CASE ChooseMembers(t) \/ CheckMember(t)
  <2>1. /\ ~ Idle(t) /\ x.op \in {"choose", "check"} /\ process # "down"
        /\ process' = process /\ UNCHANGED connection
        /\ Continue(t, <<>>) \/ Advance(t)
    BY <1>3, <1>13 DEF ChooseMembers, CheckMember, progress, Advance
  <2>2. ~ Opens(Tail(script[t]))
    BY <1>1, <2>1, OpensNext DEF Opening
  <2> QED BY <1>4, <1>5, <2>1, <2>2 DEF Inner, Opening, Advance
<1> QED
  BY <1>6, <1>7, <1>8, <1>9, <1>10, <1>11, <1>12, <1>13

LEMMA StoreTransactions ==
  ASSUME Shape, Shape', Transactions, NEW t \in Thread,
         StoreStep(t) \/ IgnoredFailure(t) \/ DirectoryStep(t)
  PROVE  Transactions'
<1> DEFINE x == Step(t)
<1>1. ScriptsOK /\ ScriptsOK' /\ owner \in Thread \cup {Nobody}
  BY DEF Shape, TypeOK
<1>2. ASSUME ~ Idle(t), x.op \notin Inner, process # "down", process' = process, UNCHANGED connection,
             NEW r, Continue(t, r), ~ Opens(r)
      PROVE  Transactions'
  BY <1>1, <1>2, OutsideTransactions DEF Inside
<1>3. CASE Store(t)
  <2> DEFINE r == Filing(x) \o Tail(script[t])
  <2>1. ~ Idle(t) /\ x.op = "store" /\ process # "down"
        /\ process' = process /\ UNCHANGED connection /\ Continue(t, r)
    BY <1>3 DEF Store, At, Step, progress, Filing
  <2>2. r[1].op \in {"unfile", "truncate"}
    BY <1>1, <2>1, StoreScript
  <2> HIDE DEF r
  <2> QED BY <1>2, <2>1, <2>2 DEF Opens, Inner, Opening
<1>4. CASE \/ Unfile(t) \/ Truncate(t) \/ WriteSecret(t) \/ Forget(t) \/ Remove(t) \/ IgnoredFailure(t)
           \/ CreateHome(t) \/ RemoveHome(t) \/ RemoveTree(t)
  <2>1. /\ ~ Idle(t) /\ process # "down" /\ process' = process /\ UNCHANGED connection /\ Advance(t)
        /\ x.op \in {"unfile", "truncate", "write", "forget", "remove", "createHome", "removeHome",
                     "removeTree"}
    BY <1>4 DEF Unfile, Truncate, WriteSecret, Forget, Remove, IgnoredFailure, FlushFails,
                UnfileFails, Fault, CreateHome,
                RemoveHome, RemoveTree, SetDir, At, Step, progress
  <2>2. ~ Opens(Tail(script[t]))
    BY <1>1, <2>1, OpensNext DEF Opening
  <2> QED BY <1>2, <2>1, <2>2 DEF Inner, Opening, Advance
<1>5. CASE ListAccounts(t)
  <2> DEFINE y == [op |-> "scan", id |-> NoOne, known |-> {a \in AccountId : tables.accounts[a] # NoRow}]
  <2>1. /\ ~ Idle(t) /\ process # "down" /\ process' = process /\ UNCHANGED connection
        /\ Continue(t, << y >>) /\ x.op = "list"
    BY <1>5 DEF ListAccounts, At, Step, progress
  <2>2. ~ Opens(<< y >>)
    BY DEF Opens, Inner, Opening
  <2> QED BY <1>2, <2>1, <2>2 DEF Inner, Opening
<1>6. CASE ListDirectories(t)
  <2>1. /\ ~ Idle(t) /\ process # "down" /\ process' = process /\ UNCHANGED connection
        /\ x.op = "scan"
    BY <1>6 DEF ListDirectories, At, Step, progress
  <2>2. PICK r : Continue(t, r) /\ CleanUp(t, r)
    BY <1>6, ScanScript
  <2>3. ~ Opens(r)
    BY <2>2 DEF CleanUp, Opens, Inner, Opening
  <2> QED BY <1>2, <2>1, <2>2, <2>3 DEF Inner, Opening
<1> QED BY <1>3, <1>4, <1>5, <1>6 DEF StoreStep, DirectoryStep

LEMMA OtherTransactions ==
  ASSUME Shape, Shape', Transactions,
         \/ \E t \in Thread : Start(t) \/ Fails(t)
         \/ Crash \/ Exit \/ Stop \/ Restart \/ Outage
  PROVE  Transactions'
<1>1. /\ ScriptsOK /\ ScriptsOK' /\ owner \in Thread \cup {Nobody} /\ Nobody \notin Thread
      /\ Main \in Thread
  BY AccountStorageAssumption DEF Shape, TypeOK
<1>2. owner = Nobody => tables = disk
  BY DEF Transactions
<1>3. ~ Opens(<<>>)
  BY DEF Opens
<1>4. ASSUME NEW t \in Thread, Idle(t), process' # "down", UNCHANGED connection,
             NEW r, Continue(t, r), ~ Opens(r)
      PROVE  Transactions'
  BY <1>1, <1>4, OutsideTransactions DEF Inside
<1>5. ASSUME NEW t \in Thread, Start(t) PROVE Transactions'
  <2>1. PICK job \in setup.jobs[t] : Continue(t, Script(job))
    BY <1>5 DEF Start
  <2>2. Idle(t) /\ process' # "down" /\ UNCHANGED connection
    BY <1>5 DEF Start
  <2>3. job \in Job
    <3>1. IsSetup(setup)
      BY AccountStorageAssumption DEF Shape, TypeOK
    <3> QED BY <3>1 DEF IsSetup
  <2>4. LocalApi \in Ref
    BY AccountStorageAssumption
  <2>5. Script(job)[1].op \in First \cup {"store", "choose"}
    BY <2>3, <2>4, ScriptSound, FreshSecret
  <2>6. ~ Opens(Script(job))
    BY <2>5 DEF Opens, First, Inner, Opening
  <2> QED BY <1>4, <2>1, <2>2, <2>6
<1>6. ASSUME NEW t \in Thread, Fails(t) PROVE Transactions'
  <2> DEFINE y == Do("rollback", Step(t).id)
             r == IF owner = t THEN << y >> ELSE <<>>
  <2>1. Continue(t, r) /\ UNCHANGED connection /\ process' # "down"
    BY <1>6 DEF Fails, Fault, At
  <2>2. owner = t <=> Opens(r)
    BY DEF Opens, Do, Inner
  <2>3. owner' = owner /\ tables' = tables /\ disk' = disk
    BY <2>1 DEF connection
  <2> HIDE DEF r
  <2> QED BY <1>1, <1>2, <2>1, <2>2, <2>3, ContinueTransactions
<1>7. ASSUME \A t \in Thread : Idle(t)', owner' = Nobody, tables' = disk'
      PROVE  Transactions'
  BY <1>1, <1>7 DEF Transactions, Inside
<1>8. CASE Crash
  BY <1>1, <1>7, <1>8 DEF Crash, Close, Idle
<1>9. CASE Stop
  BY <1>1, <1>7, <1>9 DEF Stop, Close, Idle
<1>10. CASE Exit \/ Outage
  <2>1. UNCHANGED <<tables, disk, owner, script>> /\ (process' = process \/ process' = "stopping")
    BY <1>10 DEF Exit, Outage, Toggle, connection
  <2> QED BY <2>1 DEF Transactions, Inside, Idle, Step
<1>11. CASE Restart
  <2> DEFINE x == [op |-> "store", id |-> LocalApi, secret |-> Fresh(LocalApi)]
             r == IF Get(LocalApi) = NoSecret THEN << x >> ELSE <<>>
  <2>1. UNCHANGED connection /\ process' # "down" /\ Continue(Main, r) /\ process = "down"
    BY <1>11 DEF Restart, Continue, put
  <2>2. ~ Opens(r)
    BY DEF Opens, Inner, Opening
  <2>3. Idle(Main)
    BY <1>1, <2>1 DEF Transactions
  <2> HIDE DEF r
  <2> QED BY <1>1, <1>4, <2>1, <2>2, <2>3
<1> QED BY <1>5, <1>6, <1>8, <1>9, <1>10, <1>11

-----------------------------------------------------------------------------

LEMMA InitTransactions ==
  Init => Shape /\ Transactions
<1> SUFFICES ASSUME Init PROVE Shape /\ Transactions
  OBVIOUS
<1> USE DEF Init
<1>1. IsSetup(setup) /\ setup \in Setups
  BY AccountStorageAssumption
<1> DEFINE initial == [accounts |-> setup.rows, group |-> setup.group, snapshots |-> {},
                       windows |-> {}, numbered |-> 0, logs |-> 0, logged |-> setup.logged]
<1>2. initial \in Tables
  BY <1>1 DEF IsSetup, Tables
<1>3. tables = initial /\ disk = initial /\ owner = Nobody /\ lastRow = 0
  BY DEF Open, OtherRow
<1>4. \A ref \in Ref : Initially(ref) \in {0, NoSecret}
  BY DEF Initially
<1>5. CredentialStoreTypeOK
  BY <1>1, <1>4 DEF CredentialStoreTypeOK, Secret, IsSetup
<1>6. ScriptsOK
  BY EmptyScript DEF ScriptsOK, Idle
<1>7. past.possible = [ref \in Ref |-> {Initially(ref)}]
  OBVIOUS
<1>8. past.possible \in [Ref -> SUBSET (Secret \cup {NoSecret, Torn})]
  BY <1>4, <1>7 DEF Secret
<1>9. TypeOK
  <2>1. past \in [crossed : SUBSET Ref, missed : SUBSET Ref,
                  adrift : SUBSET AccountId, late : SUBSET (Thread \X AccountId),
                  mingled : SUBSET AccountId, undone : SUBSET AccountId,
                  possible : [Ref -> SUBSET (Secret \cup {NoSecret, Torn})], saved : Group]
    BY <1>1, <1>7, <1>8 DEF IsSetup
  <2> QED BY <1>1, <1>2, <1>3, <1>5, <1>6, <2>1 DEF TypeOK, ScriptsOK
<1>10. \A ref \in Ref : IsFiniteSet(past.possible[ref])
  BY <1>7, FS_Singleton
<1>11. Transactions
  BY <1>3, AccountStorageAssumption DEF Transactions, Inside, Idle
<1> QED BY <1>6, <1>9, <1>10, <1>11 DEF Shape

LEMMA NextTransactions ==
  Shape /\ Transactions /\ [Next]_vars => Shape' /\ Transactions'
<1> SUFFICES ASSUME Shape, Transactions, [Next]_vars PROVE Shape' /\ Transactions'
  OBVIOUS
<1>1. ASSUME NEW t \in Thread, DatabaseStep(t) PROVE Shape' /\ Transactions'
  BY <1>1, StatementShape, DatabaseShape, StatementTransactions,
  DatabaseTransactions DEF DatabaseStep
<1>2. ASSUME NEW t \in Thread, StoreStep(t) \/ IgnoredFailure(t) PROVE Shape' /\ Transactions'
  BY <1>2, StoreShape, StoreTransactions
<1>3. ASSUME NEW t \in Thread, DirectoryStep(t) PROVE Shape' /\ Transactions'
  BY <1>3, DirectoryShape, StoreTransactions
<1>4. CASE \/ \E t \in Thread : Start(t) \/ Fails(t)
           \/ Crash \/ Exit \/ Stop \/ Restart \/ Outage
  BY <1>4, OtherShape, OtherTransactions
<1>5. CASE UNCHANGED vars
  <2>1. UNCHANGED <<tables, disk, owner, lastRow, service, files, reachable, setup, process, done,
                    used, script, dirs, past>>
    BY <1>5 DEF vars, connection, store, progress
  <2>2. Shape'
    BY <2>1 DEF Shape, TypeOK, CredentialStoreTypeOK, ScriptsOK, Idle, Step
  <2>3. Transactions'
    BY <2>1 DEF Transactions, Inside, Idle, Step
  <2> QED BY <2>2, <2>3
<1> QED BY <1>1, <1>2, <1>3, <1>4, <1>5 DEF Next

\* The state of AccountStorage has its type: every operation of every thread is
\* the script that its code is, whatever failed in it.
THEOREM TypeCorrect == Spec => []TypeOK
<1>1. Shape => TypeOK
  BY DEF Shape
<1> QED BY <1>1, InitTransactions, NextTransactions, PTL DEF Spec

LEMMA TransactionInvariance == Spec => [](Shape /\ Transactions)
BY InitTransactions, NextTransactions, PTL DEF Spec

\* No step of a thread ends the process.
LEMMA ThreadKeepsProcess ==
  ASSUME NEW t \in Thread,
         \/ Start(t) \/ DatabaseStep(t) \/ StoreStep(t) \/ DirectoryStep(t)
         \/ Fails(t) \/ IgnoredFailure(t)
  PROVE  process' = process
<1>1. CASE DatabaseStep(t)
  <2>1. CASE \/ UpdateAccount(t) \/ DeleteMemberships(t) \/ ClearManual(t) \/ DeleteWindows(t)
             \/ DeleteSnapshots(t) \/ DeleteRow(t) \/ UpsertGroup(t) \/ DeleteMembers(t)
             \/ PruneLogs(t) \/ ClearLogs(t)
    BY <2>1 DEF UpdateAccount, DeleteMemberships, ClearManual, DeleteWindows, DeleteSnapshots,
                DeleteRow, UpsertGroup, DeleteMembers, PruneLogs, ClearLogs, Runs, progress
  <2>2. CASE \/ InsertSnapshot(t) \/ InsertWindow(t) \/ InsertMember(t) \/ InsertLog(t)
             \/ Begin(t) \/ BeginRefused(t) \/ CommitTransaction(t) \/ RollbackTransaction(t)
             \/ NextAccountId(t) \/ InsertAccount(t) \/ FindAccount(t) \/ LastInsertRowid(t)
             \/ ChooseMembers(t) \/ CheckMember(t)
    BY <2>2 DEF InsertSnapshot, InsertWindow, InsertMember, InsertLog, Begin, BeginRefused,
                CommitTransaction, RollbackTransaction, NextAccountId, InsertAccount, FindAccount,
                LastInsertRowid, ChooseMembers, CheckMember, progress
  <2> QED BY <1>1, <2>1, <2>2 DEF DatabaseStep
<1>2. CASE StoreStep(t)
  BY <1>2 DEF StoreStep, Store, Unfile, Truncate, WriteSecret, Forget, Remove, progress
<1>3. CASE DirectoryStep(t)
  BY <1>3 DEF DirectoryStep, CreateHome, RemoveHome, ListAccounts, ListDirectories, RemoveTree,
              SetDir, progress
<1>4. CASE Start(t) \/ Fails(t) \/ IgnoredFailure(t)
  BY <1>4 DEF Start, Fails, IgnoredFailure, FlushFails, UnfileFails, Fault
<1> QED BY <1>1, <1>2, <1>3, <1>4

\* When the process is left no transaction is open, and the destructor that
\* closes the connection undoes nothing that a request has written.
THEOREM ExitKeeps == Spec => ExitKeepsWrites
<1>1. Shape /\ Transactions /\ [Next]_vars
        => [process = "stopping" /\ process' = "down" /\ used' = used => disk' = tables]_vars
  <2> SUFFICES ASSUME Shape, Transactions, Next, process = "stopping", process' = "down", used' = used
               PROVE  disk' = tables
    BY DEF vars, progress
  <2>1. ASSUME NEW t \in Thread,
               \/ Start(t) \/ DatabaseStep(t) \/ StoreStep(t) \/ DirectoryStep(t)
               \/ Fails(t) \/ IgnoredFailure(t)
        PROVE  FALSE
    BY <2>1, ThreadKeepsProcess
  <2>2. CASE Crash
    <3>1. used.crashes \in Nat /\ used'.crashes = used.crashes + 1
      BY <2>2 DEF Crash, Shape, TypeOK
    <3> QED BY <3>1
  <2>3. CASE Stop
    <3>1. owner = Nobody
      BY <2>3 DEF Stop, Transactions, Inside, Shape, TypeOK
    <3> QED BY <2>3, <3>1 DEF Stop, Close, Transactions
  <2>4. CASE Exit \/ Restart \/ Outage
    BY <2>4 DEF Exit, Restart, Outage
  <2> QED BY <2>1, <2>2, <2>3, <2>4 DEF Next
<1> QED BY <1>1, TransactionInvariance, PTL DEF Spec, ExitKeepsWrites

-----------------------------------------------------------------------------
(* The group.                                                              *)

\* What a step makes of the group.
GroupAfter(x, g) ==
  CASE x.op = "leave"       -> [g EXCEPT !.members = @ \ {x.id}]
    [] x.op = "unpin"       -> [g EXCEPT !.manual = IF @ = x.id THEN NoOne ELSE @]
    [] x.op = "group"       -> [g EXCEPT !.strategy = x.strategy, !.manual = x.manual]
    [] x.op = "dropMembers" -> [g EXCEPT !.members = {}]
    [] x.op = "member"      -> [g EXCEPT !.members = @ \cup {x.id}]
    [] OTHER                -> g

\* In a transaction with the script s the group is g: what was saved, as the
\* steps before have changed it; after the members were dropped, those that are
\* still to come make it the group of the commit.
GroupIs(s, g, saved) ==
  LET x    == s[1]
      last == s[Len(s)]
  IN  /\ x.op \in {"leave", "snapshot", "rowid", "window", "group"} => g = saved
      /\ x.op = "unpin" => g = [saved EXCEPT !.members = @ \ {x.id}]
      /\ x.op \in {"dropWindows", "dropSnapshots", "dropRow"} =>
           g = Settled(CommitOf("remove", x.id), saved)
      /\ x.op = "commit" /\ x.for # "save" => g = Settled(x, saved)
      /\ x.op \in {"dropMembers", "member"} \/ (x.op = "commit" /\ x.for = "save") =>
           g.strategy = last.group.strategy /\ g.manual = last.group.manual
      /\ x.op = "member" \/ (x.op = "commit" /\ x.for = "save") =>
           g.members \cup MembersFrom(s, 1) = last.group.members

GroupOK ==
  /\ disk.group = past.saved
  /\ \A t \in Thread : Opens(script[t]) => GroupIs(script[t], tables.group, past.saved)

\* The members and the commit that are still to come after a step.
LEMMA TailMembers ==
  ASSUME NEW s, Linked(s), s # <<>>
  PROVE  /\ MembersFrom(s, 1) =
              MembersFrom(Tail(s), 1) \cup (IF s[1].op = "member" THEN {s[1].id} ELSE {})
         /\ Tail(s) # <<>> => Tail(s)[Len(Tail(s))] = s[Len(s)]
         /\ Tail(s) = <<>> => s[Len(s)] = s[1] /\ MembersFrom(Tail(s), 1) = {}
<1> DEFINE r == Tail(s)
           head == IF s[1].op = "member" THEN {s[1].id} ELSE {}
<1>1. /\ Len(r) = Len(s) - 1 /\ Len(s) \in Nat \ {0} /\ r \in Seq(AnyStep)
      /\ \A i \in 1 .. Len(s) - 1 : r[i] = s[i + 1]
  BY TailOf DEF Linked
<1> HIDE DEF r
<1>2. r = <<>> <=> Len(r) = 0
  BY <1>1, EmptySeq
<1>3. ASSUME NEW m \in MembersFrom(s, 1) PROVE m \in MembersFrom(r, 1) \cup head
  <2>1. PICK j \in 1 .. Len(s) : s[j].op = "member" /\ m = s[j].id
    BY <1>3 DEF MembersFrom
  <2>2. CASE j = 1
    BY <2>1, <2>2
  <2>3. CASE j # 1
    <3>1. PICK k \in 1 .. Len(r) : j = k + 1
      <4>1. j - 1 \in 1 .. Len(r) /\ j = (j - 1) + 1
        BY <1>1, <2>3
      <4> QED BY <4>1
    <3>2. r[k] = s[j]
      BY <1>1, <3>1
    <3> QED BY <2>1, <3>2 DEF MembersFrom
  <2> QED BY <2>2, <2>3
<1>4. ASSUME NEW m \in MembersFrom(r, 1) PROVE m \in MembersFrom(s, 1)
  <2>1. PICK k \in 1 .. Len(r) : r[k].op = "member" /\ m = r[k].id
    BY <1>4 DEF MembersFrom
  <2>2. k + 1 \in 1 .. Len(s) /\ s[k + 1] = r[k]
    BY <1>1
  <2> QED BY <2>1, <2>2 DEF MembersFrom
<1>5. head \subseteq MembersFrom(s, 1)
  <2>1. 1 \in 1 .. Len(s)
    BY <1>1
  <2> QED BY <2>1 DEF MembersFrom
<1>6. ASSUME r # <<>> PROVE r[Len(r)] = s[Len(s)]
  <2>1. Len(r) \in 1 .. Len(s) - 1 /\ Len(r) + 1 = Len(s)
    BY <1>1, <1>2, <1>6
  <2> QED BY <1>1, <2>1
<1>7. ASSUME r = <<>> PROVE s[Len(s)] = s[1] /\ MembersFrom(r, 1) = {}
  <2>1. Len(s) = 1 /\ Len(r) = 0
    BY <1>1, <1>2, <1>7
  <2> QED BY <2>1 DEF MembersFrom
<1> QED BY <1>3, <1>4, <1>5, <1>6, <1>7 DEF r

\* A step goes on with what it has made of the group.
LEMMA GroupGoesOn ==
  ASSUME NEW s, Sound(s), s # <<>>, NEW g \in Group, NEW saved \in Group, Opens(s),
         GroupIs(s, g, saved), s[1].op \in Opening
  PROVE  GroupIs(Tail(s), GroupAfter(s[1], g), saved)
<1> DEFINE x == s[1]
           r == Tail(s)
           y == r[1]
           h == GroupAfter(x, g)
           last == s[Len(s)]
<1> SUFFICES GroupIs(r, h, saved)
  OBVIOUS
<1>1. Linked(s) /\ s \in Seq(AnyStep)
  BY DEF Sound, Linked
<1>2. r # <<>> /\ Adjacent(x, y) /\ x \in AnyStep /\ r[Len(r)] = last
  BY <1>1, SoundTail, TailMembers DEF Ends
<1>3. MembersFrom(s, 1) = MembersFrom(r, 1) \cup (IF x.op = "member" THEN {x.id} ELSE {})
  BY <1>1, TailMembers
<1>4. /\ x.op = "group" => x.strategy = last.group.strategy /\ x.manual = last.group.manual
      /\ x.op = "dropMembers" => MembersFrom(s, 1) = last.group.members
  <2>1. 1 \in 1 .. Len(s)
    BY <1>1, TailOf
  <2> QED BY <2>1 DEF Sound, SaveOK
<1>5. /\ x.op \in {"leave", "snapshot", "rowid", "window", "group"} => g = saved
      /\ x.op = "unpin" => g = [saved EXCEPT !.members = @ \ {x.id}]
      /\ x.op \in {"dropWindows", "dropSnapshots", "dropRow"} =>
           g = Settled(CommitOf("remove", x.id), saved)
      /\ x.op \in {"dropMembers", "member"} =>
           g.strategy = last.group.strategy /\ g.manual = last.group.manual
      /\ x.op = "member" => g.members \cup MembersFrom(s, 1) = last.group.members
  BY DEF GroupIs
<1> HIDE DEF x, r, last, y, h
<1>6. g = [strategy |-> g.strategy, manual |-> g.manual, members |-> g.members]
      /\ saved = [strategy |-> saved.strategy, manual |-> saved.manual, members |-> saved.members]
  BY DEF Group
<1>7. CASE x.op = "leave"
  <2>1. y.op = "unpin" /\ y.id = x.id
    BY <1>2, <1>7 DEF Adjacent, Do
  <2>2. h = [saved EXCEPT !.members = @ \ {x.id}]
    BY <1>5, <1>7 DEF GroupAfter, h
  <2> QED BY <2>1, <2>2 DEF GroupIs, y
<1>8. CASE x.op = "unpin"
  <2>1. y.op = "dropWindows" /\ y.id = x.id
    BY <1>2, <1>8 DEF Adjacent, Do
  <2>2. h = Settled(CommitOf("remove", x.id), saved)
    BY <1>5, <1>6, <1>8 DEF GroupAfter, Settled, CommitOf, h
  <2> QED BY <2>1, <2>2 DEF GroupIs, y
<1>9. CASE x.op \in {"dropWindows", "dropSnapshots"}
  <2>1. y.op \in {"dropSnapshots", "dropRow"} /\ y.id = x.id
    BY <1>2, <1>9 DEF Adjacent, Do
  <2>2. h = Settled(CommitOf("remove", x.id), saved)
    BY <1>5, <1>9 DEF GroupAfter, h
  <2> QED BY <2>1, <2>2 DEF GroupIs, y
<1>10. CASE x.op = "dropRow"
  <2>1. y = CommitOf("remove", x.id)
    BY <1>2, <1>10 DEF Adjacent
  <2>2. h = Settled(CommitOf("remove", x.id), saved)
    BY <1>5, <1>10 DEF GroupAfter, h
  <2> QED BY <2>1, <2>2 DEF GroupIs, y, CommitOf
<1>11. CASE x.op \in {"snapshot", "rowid"}
  <2>1. y.op \in {"rowid", "window"} /\ h = saved
    BY <1>2, <1>5, <1>11 DEF Adjacent, Do, GroupAfter, h
  <2> QED BY <2>1 DEF GroupIs, y
<1>12. CASE x.op = "window"
  <2>1. y = CommitOf("quota", x.id) /\ h = saved
    BY <1>2, <1>5, <1>12 DEF Adjacent, GroupAfter, h
  <2> QED BY <2>1 DEF GroupIs, y, CommitOf, Settled
<1>13. CASE x.op = "group"
  <2>1. y.op = "dropMembers"
    BY <1>2, <1>13 DEF Adjacent
  <2>2. h.strategy = last.group.strategy /\ h.manual = last.group.manual
    BY <1>4, <1>6, <1>13 DEF GroupAfter, h
  <2> QED BY <1>2, <2>1, <2>2 DEF GroupIs, y
<1>14. CASE x.op \in {"dropMembers", "member"}
  <2>1. y.op = "member" \/ (y.op = "commit" /\ y.for = "save")
    BY <1>2, <1>14 DEF Adjacent
  <2>2. h.strategy = last.group.strategy /\ h.manual = last.group.manual
    BY <1>5, <1>6, <1>14 DEF GroupAfter, h
  <2>3. h.members \cup MembersFrom(r, 1) = last.group.members
    <3>1. CASE x.op = "dropMembers"
      <4>1. h.members = {}
        BY <1>6, <3>1 DEF GroupAfter, h
      <4> QED BY <1>3, <1>4, <3>1, <4>1
    <3>2. CASE x.op = "member"
      <4>1. h.members = g.members \cup {x.id}
        BY <1>6, <3>2 DEF GroupAfter, h
      <4> QED BY <1>3, <1>5, <3>2, <4>1
    <3> QED BY <1>14, <3>1, <3>2
  <2> QED BY <1>2, <2>1, <2>2, <2>3 DEF GroupIs, y
<1>15. x.op # "begin"
  BY DEF Opens, Inner, x
<1> QED
  BY <1>7, <1>8, <1>9, <1>10, <1>11, <1>12, <1>13, <1>14, <1>15 DEF Opening, x

\* At the commit the group is as it should be.
LEMMA GroupCommitted ==
  ASSUME NEW s, Sound(s), s # <<>>, NEW g \in Group, NEW saved \in Group,
         GroupIs(s, g, saved), s[1].op = "commit"
  PROVE  g = Settled(s[1], saved) /\ g \in Group
<1> DEFINE x == s[1]
<1>1. CASE x.for = "save"
  <2>1. Linked(s)
    BY DEF Sound
  <2>2. Tail(s) = <<>>
    BY <1>1, SoundTail DEF Adjacent
  <2>3. s[Len(s)] = x /\ MembersFrom(s, 1) = {}
    BY <2>1, <2>2, TailMembers
  <2>4. g.strategy = x.group.strategy /\ g.manual = x.group.manual /\ g.members = x.group.members
    BY <1>1, <2>3 DEF GroupIs
  <2>5. x \in AnyStep
    BY SoundTail
  <2>6. x.group \in Group
    BY <1>1, <2>5, StepType
  <2>7. g = x.group
    BY <2>4, <2>6 DEF Group
  <2> QED BY <1>1, <2>7 DEF Settled
<1>2. CASE x.for # "save"
  BY <1>2 DEF GroupIs
<1> QED BY <1>1, <1>2

\* A thread goes on, and the group stays.
LEMMA GroupStays ==
  ASSUME ScriptsOK, GroupOK, NEW t \in Thread, NEW r, Continue(t, r),
         tables'.group = tables.group, disk'.group = disk.group, past'.saved = past.saved,
         Opens(r) => GroupIs(r, tables.group, past.saved)
  PROVE  GroupOK'
<1>1. script'[t] = r /\ \A u \in Thread : u # t => script'[u] = script[u]
  BY DEF ScriptsOK, Continue
<1> QED BY <1>1 DEF GroupOK

\* A thread does something outside of a transaction.
LEMMA GroupOutside ==
  ASSUME ScriptsOK, GroupOK, NEW t \in Thread, NEW r, Continue(t, r), ~ Opens(r),
         UNCHANGED <<tables, disk>>, past'.saved = past.saved
  PROVE  GroupOK'
BY GroupStays

LEMMA NotOpening ==
  ASSUME ScriptsOK, NEW t \in Thread, ~ Idle(t), Step(t).op \notin Opening
  PROVE  ~ Opens(Tail(script[t]))
BY OpensNext

\* What the statements do.
LEMMA Statement ==
  ASSUME Shape, NEW t \in Thread,
         \/ UpdateAccount(t) \/ DeleteMemberships(t) \/ ClearManual(t) \/ DeleteWindows(t)
         \/ DeleteSnapshots(t) \/ DeleteRow(t) \/ UpsertGroup(t) \/ DeleteMembers(t)
         \/ PruneLogs(t) \/ ClearLogs(t) \/ InsertSnapshot(t) \/ InsertWindow(t)
         \/ InsertMember(t) \/ InsertLog(t)
  PROVE  /\ ~ Idle(t) /\ process # "down" /\ Advance(t)
         /\ Step(t).op \notin {"begin", "commit", "rollback", "rowid"}
         /\ tables'.group = GroupAfter(Step(t), tables.group)
         /\ Execute(tables')
         /\ UNCHANGED <<store, dirs, progress, past>>
<1> DEFINE x == Step(t)
<1>1. tables \in Tables
  BY DEF Shape, TypeOK
<1>2. tables.group = [strategy |-> tables.group.strategy, manual |-> tables.group.manual,
                      members |-> tables.group.members]
  BY <1>1 DEF Tables, Group
<1>3. CASE DeleteMemberships(t)
  <2>1. tables' = [tables EXCEPT !.group.members = @ \ {x.id}] /\ x.op = "leave"
    BY <1>3 DEF DeleteMemberships, Runs, Write, Execute, At, Step
  <2>2. tables'.group = [tables.group EXCEPT !.members = @ \ {x.id}]
    BY <1>1, <2>1 DEF Tables
  <2> QED BY <1>3, <2>1, <2>2 DEF DeleteMemberships, Runs, Write, Execute, At, Step, GroupAfter
<1>4. CASE ClearManual(t)
  <2>1. tables' = [tables EXCEPT !.group.manual = IF @ = x.id THEN NoOne ELSE @] /\ x.op = "unpin"
    BY <1>4 DEF ClearManual, Runs, Write, Execute, At, Step
  <2>2. tables'.group = [tables.group EXCEPT !.manual = IF @ = x.id THEN NoOne ELSE @]
    BY <1>1, <2>1 DEF Tables
  <2> QED BY <1>4, <2>1, <2>2 DEF ClearManual, Runs, Write, Execute, At, Step, GroupAfter
<1>5. CASE UpsertGroup(t)
  <2>1. tables' = [tables EXCEPT !.group.strategy = x.strategy, !.group.manual = x.manual]
        /\ x.op = "group"
    BY <1>5 DEF UpsertGroup, Runs, Write, Execute, At, Step
  <2>2. tables'.group = [tables.group EXCEPT !.strategy = x.strategy, !.manual = x.manual]
    BY <1>1, <1>2, <2>1 DEF Tables, Group
  <2> QED BY <1>5, <2>1, <2>2 DEF UpsertGroup, Runs, Write, Execute, At, Step, GroupAfter
<1>6. CASE DeleteMembers(t)
  <2>1. tables' = [tables EXCEPT !.group.members = {}] /\ x.op = "dropMembers"
    BY <1>6 DEF DeleteMembers, Runs, Write, Execute, At, Step
  <2>2. tables'.group = [tables.group EXCEPT !.members = {}]
    BY <1>1, <2>1 DEF Tables
  <2> QED BY <1>6, <2>1, <2>2 DEF DeleteMembers, Runs, Write, Execute, At, Step, GroupAfter
<1>7. CASE InsertMember(t)
  <2>1. tables' = [tables EXCEPT !.group.members = @ \cup {x.id}] /\ x.op = "member"
    BY <1>7 DEF InsertMember, Insert, Execute, At, Step
  <2>2. tables'.group = [tables.group EXCEPT !.members = @ \cup {x.id}]
    BY <1>1, <2>1 DEF Tables
  <2> QED BY <1>7, <2>1, <2>2 DEF InsertMember, Insert, Execute, At, Step, GroupAfter
<1>8. CASE \/ UpdateAccount(t) \/ DeleteWindows(t) \/ DeleteSnapshots(t) \/ DeleteRow(t)
           \/ PruneLogs(t) \/ ClearLogs(t)
  <2>1. tables'.group = tables.group
    BY <1>1, <1>8 DEF UpdateAccount, DeleteWindows, DeleteSnapshots, DeleteRow, PruneLogs,
                      ClearLogs, Runs, Write, Execute, Tables
  <2>2. x.op \in {"update", "dropWindows", "dropSnapshots", "dropRow", "prune", "clear"}
    BY <1>8 DEF UpdateAccount, DeleteWindows, DeleteSnapshots, DeleteRow, PruneLogs, ClearLogs,
                At, Step
  <2>3. /\ ~ Idle(t) /\ process # "down" /\ Advance(t) /\ Execute(tables')
        /\ UNCHANGED <<store, dirs, progress, past>>
    BY <1>8 DEF UpdateAccount, DeleteWindows, DeleteSnapshots, DeleteRow, PruneLogs, ClearLogs,
                Runs, Write, Execute, At
  <2>4. tables'.group = GroupAfter(x, tables.group)
    BY <2>1, <2>2 DEF GroupAfter
  <2> QED BY <2>2, <2>3, <2>4
<1>9. CASE InsertSnapshot(t) \/ InsertWindow(t) \/ InsertLog(t)
  <2>1. tables'.group = tables.group
    BY <1>1, <1>9 DEF InsertSnapshot, InsertWindow, InsertLog, Insert, Execute, Tables
  <2>2. x.op \in {"snapshot", "window", "log"}
    BY <1>9 DEF InsertSnapshot, InsertWindow, InsertLog, At, Step
  <2>3. /\ ~ Idle(t) /\ process # "down" /\ Advance(t) /\ Execute(tables')
        /\ UNCHANGED <<store, dirs, progress, past>>
    BY <1>9 DEF InsertSnapshot, InsertWindow, InsertLog, Insert, Execute, At
  <2>4. tables'.group = GroupAfter(x, tables.group)
    BY <2>1, <2>2 DEF GroupAfter
  <2> QED BY <2>2, <2>3, <2>4
<1> QED BY <1>3, <1>4, <1>5, <1>6, <1>7, <1>8, <1>9

LEMMA GroupStatement ==
  ASSUME Shape, Transactions, GroupOK, NEW t \in Thread, ~ Idle(t), Advance(t),
         Step(t).op \notin {"begin", "commit", "rollback", "rowid"},
         tables'.group = GroupAfter(Step(t), tables.group), Execute(tables'), past' = past
  PROVE  GroupOK'
<1> DEFINE x == Step(t)
           s == script[t]
<1>1. ScriptsOK /\ s # <<>> /\ x = s[1] /\ Sound(s)
  BY NextStep DEF Shape, ScriptsOK, Idle
<1>2. Continue(t, Tail(s))
  BY DEF Advance
<1>3. Opens(Tail(s)) <=> x.op \in Opening
  BY <1>1, OpensNext DEF Shape
<1>4. Opens(s) <=> Inside(t)
  BY <1>1, InsideOpens
<1> HIDE DEF x, s
<1>5. CASE Inside(t)
  <2>1. owner = t /\ Nobody # t /\ disk' = disk
    BY <1>5, AccountStorageAssumption DEF Transactions, Execute, InTransaction
  <2>2. \A u \in Thread \ {t} : ~ Opens(script[u])
    BY <1>1, <2>1, InsideOpens DEF Transactions
  <2>3. x.op \in Opening
    BY <1>5 DEF Inside, Inner, x
  <2>4. tables.group \in Group /\ past.saved \in Group
    BY DEF Shape, TypeOK, Tables
  <2>5. GroupIs(s, tables.group, past.saved)
    BY <1>4, <1>5 DEF GroupOK, s
  <2>6. GroupIs(Tail(s), tables'.group, past.saved)
    BY <1>1, <1>4, <1>5, <2>3, <2>4, <2>5, GroupGoesOn DEF x
  <2>7. script'[t] = Tail(s) /\ \A u \in Thread : u # t => script'[u] = script[u]
    BY <1>1, <1>2 DEF ScriptsOK, Continue
  <2> QED BY <2>1, <2>2, <2>6, <2>7 DEF GroupOK
<1>6. CASE ~ Inside(t)
  <2>1. x.op \notin Inner
    BY <1>6 DEF Inside, x
  <2>2. tables'.group = tables.group
    BY <2>1 DEF GroupAfter, Inner, Opening, x
  <2>3. disk'.group = disk.group
    BY <2>2 DEF Execute, InTransaction, Transactions
  <2>4. ~ Opens(Tail(s))
    BY <1>3, <2>1 DEF Inner, x
  <2> QED BY <1>1, <1>2, <2>2, <2>3, <2>4, GroupStays
<1> QED BY <1>5, <1>6

\* What an operation goes on with when it has looked for its account.
LEMMA FoundScript ==
  ASSUME Shape, NEW t \in Thread, FindAccount(t)
  PROVE  LET x   == Step(t)
             row == tables.accounts[x.id]
             r   == IF row = NoRow THEN <<>> ELSE Rest(x.for, x.id, row)
         IN  /\ Continue(t, r) /\ x.id \in AccountId /\ x.op = "find" /\ ~ Idle(t)
             /\ r = <<>> \/ OnlyAbout(r, x.id)
             /\ r # <<>> /\ x.for = "remove" /\ row = "keyed" => r[1].op = "forget"
             /\ r # <<>> /\ x.for # "remove" => \A i \in 1 .. Len(r) : r[i].op # "dropRow"
<1> DEFINE x   == Step(t)
           row == tables.accounts[x.id]
           r   == IF row = NoRow THEN <<>> ELSE Rest(x.for, x.id, row)
<1>1. ~ Idle(t) /\ x.op = "find" /\ Continue(t, r)
  BY DEF FindAccount, At, Step
<1>2. x.id \in AccountId /\ x.for \in OnAccount
  BY <1>1, NextStep, StepType DEF Shape
<1>3. row = NoRow => r = <<>>
  OBVIOUS
<1>4. ASSUME row # NoRow
      PROVE  /\ r = Rest(x.for, x.id, row) /\ OnlyAbout(r, x.id)
             /\ x.for = "remove" /\ row = "keyed" => r[1].op = "forget"
             /\ x.for # "remove" => \A i \in 1 .. Len(r) : r[i].op # "dropRow"
  <2>1. row \in Row
    BY <1>2, <1>4 DEF Shape, TypeOK, Tables
  <2>2. Fresh(x.id) \in Nat
    BY <1>2, AccountStorageAssumption, FreshSecret
  <2>3. r = Rest(x.for, x.id, row)
    BY <1>4
  <2> HIDE DEF r, row
  <2> QED BY <1>2, <2>1, <2>2, <2>3, RestSound
<1> HIDE DEF r, row
<1> QED BY <1>1, <1>2, <1>3, <1>4 DEF r, row

LEMMA GroupDatabase ==
  ASSUME Shape, Shape', Transactions, GroupOK, NEW t \in Thread, DatabaseStep(t)
  PROVE  GroupOK'
<1> DEFINE x == Step(t)
           s == script[t]
<1>1. ScriptsOK /\ tables.group \in Group /\ disk.group \in Group /\ past.saved \in Group
  BY DEF Shape, TypeOK, Tables
<1>2. disk.group = past.saved /\ (owner = Nobody => tables = disk)
  BY DEF GroupOK, Transactions
<1>3. ~ Opens(<<>>)
  BY DEF Opens
<1>4. ASSUME ~ Idle(t)
      PROVE  s # <<>> /\ Sound(s) /\ x = s[1] /\ (Inside(t) <=> Opens(s))
  BY <1>1, <1>4, NextStep, InsideOpens DEF ScriptsOK, Idle
<1>5. ASSUME Inside(t)
      PROVE  /\ GroupIs(s, tables.group, past.saved)
             /\ \A u \in Thread \ {t} : ~ Opens(script[u])
  <2>1. \A u \in Thread \ {t} : ~ Inside(u)
    BY <1>5 DEF Transactions
  <2> QED BY <1>1, <1>4, <1>5, <2>1, InsideOpens DEF GroupOK, Inside
<1>6. CASE \/ UpdateAccount(t) \/ DeleteMemberships(t) \/ ClearManual(t) \/ DeleteWindows(t)
           \/ DeleteSnapshots(t) \/ DeleteRow(t) \/ UpsertGroup(t) \/ DeleteMembers(t)
           \/ PruneLogs(t) \/ ClearLogs(t) \/ InsertSnapshot(t) \/ InsertWindow(t)
           \/ InsertMember(t) \/ InsertLog(t)
  BY <1>6, Statement, GroupStatement
<1>7. CASE Begin(t)
  <2>1. ~ Idle(t) /\ x.op = "begin" /\ owner = Nobody /\ Continue(t, Tail(s))
        /\ UNCHANGED <<tables, disk, past>>
    BY <1>7 DEF Begin, BeginImmediate, InTransaction, At, Step, Advance
  <2>2. ASSUME Opens(Tail(s)) PROVE Tail(s)[1].op \in {"leave", "snapshot", "group"}
    BY <1>1, <2>1, <2>2, NextStep DEF Opens, Adjacent
  <2>3. Opens(Tail(s)) => GroupIs(Tail(s), tables.group, past.saved)
    BY <1>2, <2>1, <2>2 DEF GroupIs
  <2> QED BY <1>1, <2>1, <2>3, GroupStays
<1>8. CASE BeginRefused(t) \/ NextAccountId(t) \/ ChooseMembers(t) \/ CheckMember(t)
  <2>1. /\ ~ Idle(t) /\ (x.op \notin Opening \/ BeginRefused(t))
        /\ UNCHANGED <<tables, disk, past>>
        /\ \/ Continue(t, <<>>) \/ Continue(t, << Do("insert", x.id) >>)
           \/ Continue(t, Tail(s)) /\ ~ BeginRefused(t)
    BY <1>8 DEF BeginRefused, NextAccountId, ChooseMembers, CheckMember, At, Step, connection,
                Opening
  <2>2. ~ Opens(<< Do("insert", x.id) >>)
    BY DEF Opens, Do, Inner, Opening
  <2>3. Continue(t, Tail(s)) /\ ~ BeginRefused(t) => ~ Opens(Tail(s))
    BY <1>1, <2>1, NotOpening
  <2> QED BY <1>1, <1>3, <2>1, <2>2, <2>3, GroupOutside
<1>9. CASE CommitTransaction(t)
  <2>1. ~ Idle(t) /\ x.op = "commit" /\ Continue(t, Tail(s)) /\ disk' = tables /\ tables' = tables
        /\ past'.saved = Settled(x, past.saved)
    BY <1>1, <1>9 DEF CommitTransaction, Commit, At, Step, Advance, Shape, TypeOK
  <2>2. Inside(t)
    BY <2>1 DEF Inside, Inner
  <2>3. tables.group = Settled(x, past.saved)
    BY <1>1, <1>4, <1>5, <2>1, <2>2, GroupCommitted
  <2>4. ~ Opens(Tail(s))
    BY <1>1, <2>1, NotOpening DEF Opening
  <2>5. script'[t] = Tail(s) /\ \A u \in Thread : u # t => script'[u] = script[u]
    BY <1>1, <2>1 DEF ScriptsOK, Continue
  <2> QED BY <1>5, <2>1, <2>2, <2>3, <2>4, <2>5 DEF GroupOK
<1>10. CASE RollbackTransaction(t)
  <2>1. ~ Idle(t) /\ x.op = "rollback" /\ Continue(t, Tail(s)) /\ disk' = disk
        /\ past'.saved = past.saved
    BY <1>1, <1>10 DEF RollbackTransaction, Rollback, At, Step, Advance, Shape, TypeOK
  <2>2. Inside(t)
    BY <2>1 DEF Inside, Inner
  <2>3. ~ Opens(Tail(s))
    BY <1>1, <2>1, NotOpening DEF Opening
  <2>4. script'[t] = Tail(s) /\ \A u \in Thread : u # t => script'[u] = script[u]
    BY <1>1, <2>1 DEF ScriptsOK, Continue
  <2> QED BY <1>2, <1>5, <2>1, <2>2, <2>3, <2>4 DEF GroupOK
<1>11. CASE InsertAccount(t)
  <2>1. ~ Idle(t) /\ x.op = "insert" /\ Continue(t, Tail(s)) /\ past'.saved = past.saved
    BY <1>11 DEF InsertAccount, At, Step, Advance, Shape, TypeOK
  <2>2. tables'.group = tables.group
    BY <1>11 DEF InsertAccount, Insert, Execute, connection, Shape, TypeOK, Tables
  <2>3. disk'.group = disk.group
    BY <1>2, <1>11, <2>2 DEF InsertAccount, Insert, Execute, InTransaction, connection
  <2>4. ~ Opens(Tail(s))
    BY <1>1, <2>1, NotOpening DEF Opening
  <2> QED BY <1>1, <2>1, <2>2, <2>3, <2>4, GroupStays
<1>12. CASE FindAccount(t)
  <2> DEFINE row == tables.accounts[x.id]
             r == IF row = NoRow THEN <<>> ELSE Rest(x.for, x.id, row)
  <2>1. ~ Idle(t) /\ x.op = "find" /\ Continue(t, r) /\ UNCHANGED <<tables, disk>>
        /\ past'.saved = past.saved
    BY <1>12 DEF FindAccount, At, Step, connection, Shape, TypeOK
  <2>2. r = <<>> \/ OnlyAbout(r, x.id)
    BY <1>12, FoundScript
  <2> HIDE DEF r
  <2>3. ~ Opens(r)
    BY <1>3, <2>2 DEF OnlyAbout, Opens, Starts, Inner, Opening
  <2> QED BY <1>1, <2>1, <2>3, GroupOutside
<1>13. CASE LastInsertRowid(t)
  <2> DEFINE window == [op |-> "window", id |-> x.id, snapshot |-> lastRow]
             r == << window >> \o Tail(Tail(s))
  <2>1. ~ Idle(t) /\ x.op = "rowid" /\ Continue(t, r) /\ UNCHANGED <<tables, disk>>
        /\ past'.saved = past.saved
    BY <1>13 DEF LastInsertRowid, At, Step, connection, Shape, TypeOK
  <2>2. r # <<>> /\ r[1] = window
    BY <1>1, <2>1, RowidScript DEF Shape, TypeOK
  <2> HIDE DEF r
  <2>3. tables.group = past.saved
    BY <1>4, <1>5, <2>1 DEF GroupIs, Inside, Inner, Opening
  <2>4. GroupIs(r, tables.group, past.saved)
    BY <2>2, <2>3 DEF GroupIs
  <2> QED BY <1>1, <2>1, <2>4, GroupStays
<1> QED
  BY <1>6, <1>7, <1>8, <1>9, <1>10, <1>11, <1>12, <1>13 DEF DatabaseStep

\* A thread goes on outside of a transaction.
Outside(t, r) == Continue(t, r) /\ ~ Opens(r)

\* The steps that leave the database alone.
LEMMA Quiet ==
  ASSUME Shape, NEW t \in Thread,
         Start(t) \/ StoreStep(t) \/ IgnoredFailure(t) \/ DirectoryStep(t)
  PROVE  /\ \E r : Outside(t, r)
         /\ UNCHANGED connection
         /\ past'.saved = past.saved /\ past'.mingled = past.mingled /\ past'.undone = past.undone
         /\ process' = process
<1> DEFINE x == Step(t)
<1>1. ScriptsOK
  BY DEF Shape
<1>2. CASE Start(t)
  <2>1. PICK job \in setup.jobs[t] : Continue(t, Script(job))
    BY <1>2 DEF Start
  <2>2. job \in Job
    <3>1. IsSetup(setup)
      BY AccountStorageAssumption DEF Shape, TypeOK
    <3> QED BY <3>1 DEF IsSetup
  <2>3. LocalApi \in Ref
    BY AccountStorageAssumption
  <2>4. Script(job)[1].op \in First \cup {"store", "choose"}
    BY <2>2, <2>3, ScriptSound, FreshSecret
  <2>5. Outside(t, Script(job))
    BY <2>1, <2>4 DEF Outside, Opens, First, Inner, Opening
  <2> QED BY <1>2, <2>5 DEF Start, Shape, TypeOK
<1>3. CASE Store(t)
  <2> DEFINE r == Filing(x) \o Tail(script[t])
  <2>1. ~ Idle(t) /\ x.op = "store" /\ Continue(t, r)
    BY <1>3 DEF Store, At, Step, Filing
  <2>2. r[1].op \in {"unfile", "truncate"}
    BY <1>1, <2>1, StoreScript
  <2> HIDE DEF r
  <2>3. Outside(t, r)
    BY <2>1, <2>2 DEF Outside, Opens, Inner, Opening
  <2> QED BY <1>3, <2>3 DEF Store, Shape, TypeOK, progress
<1>4. CASE \/ Unfile(t) \/ Truncate(t) \/ WriteSecret(t) \/ Forget(t) \/ Remove(t) \/ IgnoredFailure(t)
           \/ CreateHome(t) \/ RemoveHome(t) \/ RemoveTree(t)
  <2>1. /\ ~ Idle(t) /\ Advance(t)
        /\ x.op \in {"unfile", "truncate", "write", "forget", "remove", "createHome", "removeHome",
                     "removeTree"}
    BY <1>4 DEF Unfile, Truncate, WriteSecret, Forget, Remove, IgnoredFailure, FlushFails,
                UnfileFails, CreateHome,
                RemoveHome, RemoveTree, SetDir, At, Step
  <2>2. Outside(t, Tail(script[t]))
    BY <1>1, <2>1, NotOpening DEF Opening, Outside, Advance
  <2>3. UNCHANGED connection /\ process' = process
    BY <1>4 DEF Unfile, Truncate, WriteSecret, Forget, Remove, IgnoredFailure, FlushFails,
                UnfileFails, Fault, CreateHome,
                RemoveHome, RemoveTree, SetDir, progress
  <2>4. past'.saved = past.saved /\ past'.mingled = past.mingled /\ past'.undone = past.undone
    BY <1>4 DEF Unfile, Truncate, WriteSecret, Forget, Remove, IgnoredFailure, FlushFails,
                UnfileFails, CreateHome,
                RemoveHome, RemoveTree, SetDir, Shape, TypeOK
  <2> QED BY <2>2, <2>3, <2>4
<1>5. CASE ListAccounts(t)
  <2> DEFINE y == [op |-> "scan", id |-> NoOne, known |-> {a \in AccountId : tables.accounts[a] # NoRow}]
  <2>1. Continue(t, << y >>)
    BY <1>5 DEF ListAccounts
  <2>2. Outside(t, << y >>)
    BY <2>1 DEF Outside, Opens, Inner, Opening
  <2> QED BY <1>5, <2>2 DEF ListAccounts, Shape, TypeOK, progress
<1>6. CASE ListDirectories(t)
  <2>1. PICK r : Continue(t, r) /\ CleanUp(t, r)
    BY <1>6, ScanScript
  <2>2. Outside(t, r)
    BY <2>1 DEF CleanUp, Outside, Opens, Inner, Opening
  <2> QED BY <1>6, <2>2 DEF ListDirectories, progress
<1> QED BY <1>2, <1>3, <1>4, <1>5, <1>6 DEF StoreStep, DirectoryStep

\* The steps of the process, and those that fail.
LEMMA GroupOther ==
  ASSUME Shape, Shape', Transactions, Transactions', GroupOK,
         \/ \E t \in Thread : Start(t) \/ StoreStep(t) \/ IgnoredFailure(t) \/ DirectoryStep(t) \/ Fails(t)
         \/ Crash \/ Exit \/ Stop \/ Restart \/ Outage
  PROVE  GroupOK'
<1>1. ScriptsOK /\ Main \in Thread
  BY AccountStorageAssumption DEF Shape
<1>2. ASSUME NEW t \in Thread, Start(t) \/ StoreStep(t) \/ IgnoredFailure(t) \/ DirectoryStep(t)
      PROVE  GroupOK'
  <2>1. PICK r : Outside(t, r)
    BY <1>2, Quiet
  <2>2. past'.saved = past.saved /\ UNCHANGED <<tables, disk>>
    BY <1>2, Quiet DEF connection
  <2> QED BY <1>1, <2>1, <2>2, GroupOutside DEF Outside
<1>3. ASSUME NEW t \in Thread, Fails(t) PROVE GroupOK'
  <2> DEFINE r == IF owner = t THEN << Do("rollback", Step(t).id) >> ELSE <<>>
  <2>1. Continue(t, r) /\ UNCHANGED <<tables, disk, past>>
    BY <1>3 DEF Fails, connection
  <2>2. Opens(r) => GroupIs(r, tables.group, past.saved)
    <3>1. CASE owner = t
      <4>1. r[1].op = "rollback"
        BY <3>1 DEF Do
      <4> HIDE DEF r
      <4> QED BY <4>1 DEF GroupIs
    <3>2. CASE owner # t
      BY <3>2 DEF Opens
    <3> QED BY <3>1, <3>2
  <2> HIDE DEF r
  <2> QED BY <1>1, <2>1, <2>2, GroupStays
<1>4. CASE Crash \/ Stop
  <2>1. disk' = disk /\ past'.saved = past.saved /\ \A t \in Thread : script'[t] = <<>>
    BY <1>4 DEF Crash, Stop, Close, Idle, Shape, TypeOK
  <2> QED BY <2>1 DEF GroupOK, Opens
<1>5. CASE Exit \/ Outage
  <2>1. UNCHANGED <<tables, disk, script, past>>
    BY <1>5 DEF Exit, Outage, connection
  <2> QED BY <2>1 DEF GroupOK
<1>6. CASE Restart
  <2> DEFINE r == IF Get(LocalApi) = NoSecret THEN put(LocalApi, Fresh(LocalApi)) ELSE <<>>
  <2>1. UNCHANGED <<tables, disk, past>> /\ Continue(Main, r)
    BY <1>6 DEF Restart, Continue, connection
  <2>2. ~ Opens(r)
    BY DEF Opens, Inner, Opening, put
  <2> HIDE DEF r
  <2> QED BY <1>1, <2>1, <2>2, GroupOutside
<1> QED BY <1>2, <1>3, <1>4, <1>5, <1>6

LEMMA GroupInvariance == Spec => []GroupOK
<1>1. Init => GroupOK
  BY DEF Init, Open, GroupOK, Opens
<1>2. Shape /\ Transactions /\ GroupOK /\ [Next]_vars /\ Shape' /\ Transactions' => GroupOK'
  <2> SUFFICES ASSUME Shape, Transactions, GroupOK, [Next]_vars, Shape', Transactions'
               PROVE  GroupOK'
    OBVIOUS
  <2>1. CASE Next
    BY <2>1, GroupDatabase, GroupOther DEF Next
  <2>2. CASE UNCHANGED vars
    BY <2>2 DEF vars, connection, GroupOK
  <2> QED BY <2>1, <2>2
<1> QED BY <1>1, <1>2, TransactionInvariance, PTL DEF Spec

\* Whoever saves a group or removes an account, with whatever fails, is refused or
\* ends in between, the disk has the group of the saves and removals that were
\* committed.
THEOREM SavesWhole == Spec => []SavesAreWhole
<1>1. GroupOK => SavesAreWhole
  BY DEF GroupOK, SavesAreWhole
<1> QED BY <1>1, GroupInvariance, PTL

-----------------------------------------------------------------------------
(* The quota history.                                                      *)

\* What a step makes of the snapshots and the windows.
SnapshotsAfter(x, T) ==
  CASE x.op = "dropSnapshots" -> {s \in T.snapshots : s.account # x.id}
    [] x.op = "snapshot"      -> T.snapshots \cup {[id |-> T.numbered + 1, account |-> x.id]}
    [] OTHER                  -> T.snapshots

WindowsAfter(x, T) ==
  CASE x.op = "dropWindows" ->
         {w \in T.windows : w.snapshot \notin {s.id : s \in {y \in T.snapshots : y.account = x.id}}}
    [] x.op = "window"      -> T.windows \cup {[snapshot |-> x.snapshot, of |-> x.id]}
    [] OTHER                -> T.windows

\* Every window has its snapshot.
Filed(T, mingled) ==
  \A w \in T.windows :
    w.of \notin mingled => [id |-> w.snapshot, account |-> w.of] \in T.snapshots

\* What a transaction that goes on with the step x has done to the history.
FiledFor(x, T, mingled) ==
  /\ x.op = "window" /\ x.id \notin mingled =>
       [id |-> x.snapshot, account |-> x.id] \in T.snapshots
  /\ x.op \in {"dropSnapshots", "dropRow"} =>
       \A w \in T.windows : w.of = x.id => w.of \in mingled
  /\ x.op = "dropRow" => \A s \in T.snapshots : s.account # x.id

QuotaOK ==
  /\ Filed(tables, past.mingled) /\ Filed(disk, past.mingled)
  /\ \A t \in Thread : Opens(script[t]) => FiledFor(script[t][1], tables, past.mingled)

LEMMA HistoryStatement ==
  ASSUME Shape, NEW t \in Thread,
         \/ UpdateAccount(t) \/ DeleteMemberships(t) \/ ClearManual(t) \/ DeleteWindows(t)
         \/ DeleteSnapshots(t) \/ DeleteRow(t) \/ UpsertGroup(t) \/ DeleteMembers(t)
         \/ PruneLogs(t) \/ ClearLogs(t) \/ InsertSnapshot(t) \/ InsertWindow(t)
         \/ InsertMember(t) \/ InsertLog(t)
  PROVE  /\ tables'.snapshots = SnapshotsAfter(Step(t), tables)
         /\ tables'.windows = WindowsAfter(Step(t), tables)
<1> DEFINE x == Step(t)
<1>1. tables \in Tables
  BY DEF Shape, TypeOK
<1>2. CASE DeleteWindows(t)
  <2>1. /\ tables' = [tables EXCEPT !.windows = {w \in @ : w.snapshot \notin SnapshotsOf(x.id)}]
        /\ x.op = "dropWindows"
    BY <1>2 DEF DeleteWindows, Runs, Write, Execute, At, Step
  <2> QED BY <1>1, <2>1 DEF Tables, SnapshotsAfter, WindowsAfter, SnapshotsOf
<1>3. CASE DeleteSnapshots(t)
  <2>1. /\ tables' = [tables EXCEPT !.snapshots = {s \in @ : s.account # x.id}]
        /\ x.op = "dropSnapshots"
    BY <1>3 DEF DeleteSnapshots, Runs, Write, Execute, At, Step
  <2> QED BY <1>1, <2>1 DEF Tables, SnapshotsAfter, WindowsAfter
<1>4. CASE InsertSnapshot(t)
  <2>1. /\ tables' = [tables EXCEPT
                        !.snapshots = @ \cup {[id |-> tables.numbered + 1, account |-> x.id]},
                        !.numbered = tables.numbered + 1]
        /\ x.op = "snapshot"
    BY <1>4 DEF InsertSnapshot, Insert, Execute, At, Step
  <2> QED BY <1>1, <2>1 DEF Tables, SnapshotsAfter, WindowsAfter
<1>5. CASE InsertWindow(t)
  <2>1. /\ tables' = [tables EXCEPT !.windows = @ \cup {[snapshot |-> x.snapshot, of |-> x.id]}]
        /\ x.op = "window"
    BY <1>5 DEF InsertWindow, Insert, Execute, At, Step
  <2> QED BY <1>1, <2>1 DEF Tables, SnapshotsAfter, WindowsAfter
<1>6. CASE \/ UpdateAccount(t) \/ DeleteMemberships(t) \/ ClearManual(t) \/ DeleteRow(t)
           \/ UpsertGroup(t) \/ DeleteMembers(t) \/ PruneLogs(t) \/ ClearLogs(t)
  <2>1. x.op \in {"update", "leave", "unpin", "dropRow", "group", "dropMembers", "prune", "clear"}
    BY <1>6 DEF UpdateAccount, DeleteMemberships, ClearManual, DeleteRow, UpsertGroup,
                DeleteMembers, PruneLogs, ClearLogs, At, Step
  <2>2. tables'.snapshots = tables.snapshots /\ tables'.windows = tables.windows
    BY <1>1, <1>6 DEF UpdateAccount, DeleteMemberships, ClearManual, DeleteRow, UpsertGroup,
                DeleteMembers, PruneLogs, ClearLogs, Runs, Write, Execute, Tables
  <2> QED BY <2>1, <2>2 DEF SnapshotsAfter, WindowsAfter
<1>7. CASE InsertMember(t) \/ InsertLog(t)
  <2>1. x.op \in {"member", "log"}
    BY <1>7 DEF InsertMember, InsertLog, At, Step
  <2>2. tables'.snapshots = tables.snapshots /\ tables'.windows = tables.windows
    BY <1>1, <1>7 DEF InsertMember, InsertLog, Insert, Execute, Tables
  <2> QED BY <2>1, <2>2 DEF SnapshotsAfter, WindowsAfter
<1> QED BY <1>2, <1>3, <1>4, <1>5, <1>6, <1>7

\* A step of a transaction goes on with what it has done.
LEMMA HistoryGoesOn ==
  ASSUME NEW x, NEW y, Adjacent(x, y), x.op \notin {"begin", "rowid"},
         NEW T \in Tables, NEW U \in Tables, NEW mingled, x.op = "window" => x.snapshot \in Nat,
         U.snapshots = SnapshotsAfter(x, T), U.windows = WindowsAfter(x, T),
         Filed(T, mingled), FiledFor(x, T, mingled)
  PROVE  Filed(U, mingled) /\ FiledFor(y, U, mingled)
<1>1. CASE x.op = "dropWindows"
  <2>1. /\ U.snapshots = T.snapshots /\ y.op = "dropSnapshots" /\ y.id = x.id
        /\ \A w \in U.windows : /\ w \in T.windows
                                /\ \A s \in T.snapshots : s.account = x.id => w.snapshot # s.id
    BY <1>1 DEF SnapshotsAfter, WindowsAfter, Adjacent, Do
  <2>2. Filed(U, mingled)
    BY <2>1 DEF Filed
  <2>3. ASSUME NEW w \in U.windows, w.of = x.id PROVE w.of \in mingled
    <3>1. [id |-> w.snapshot, account |-> w.of] \notin T.snapshots
      BY <2>1, <2>3
    <3> QED BY <2>1, <3>1 DEF Filed
  <2> QED BY <2>1, <2>2, <2>3 DEF FiledFor
<1>2. CASE x.op = "dropSnapshots"
  <2>1. /\ U.windows = T.windows /\ y.op = "dropRow" /\ y.id = x.id
        /\ U.snapshots = {s \in T.snapshots : s.account # x.id}
    BY <1>2 DEF SnapshotsAfter, WindowsAfter, Adjacent, Do
  <2>2. \A w \in T.windows : w.of = x.id => w.of \in mingled
    BY <1>2 DEF FiledFor
  <2>3. Filed(U, mingled)
    BY <2>1, <2>2 DEF Filed
  <2> QED BY <2>1, <2>2, <2>3 DEF FiledFor
<1>3. CASE x.op = "window"
  <2>1. /\ U.snapshots = T.snapshots /\ y.op = "commit"
        /\ U.windows = T.windows \cup {[snapshot |-> x.snapshot, of |-> x.id]}
    BY <1>3 DEF SnapshotsAfter, WindowsAfter, Adjacent, CommitOf
  <2>2. Filed(U, mingled)
    BY <1>3, <2>1 DEF Filed, FiledFor
  <2> QED BY <2>1, <2>2 DEF FiledFor
<1>4. CASE x.op = "snapshot"
  <2>1. U.windows = T.windows /\ y.op = "rowid" /\ T.snapshots \subseteq U.snapshots
    BY <1>4 DEF SnapshotsAfter, WindowsAfter, Adjacent, Do
  <2> QED BY <2>1 DEF Filed, FiledFor
<1>5. CASE x.op \notin {"dropWindows", "dropSnapshots", "window", "snapshot"}
  <2>1. U.snapshots = T.snapshots /\ U.windows = T.windows
    BY <1>5 DEF SnapshotsAfter, WindowsAfter
  <2>2. y.op \notin {"window", "dropSnapshots", "dropRow"}
    <3>1. CASE x.op \in {"leave", "unpin", "dropRow", "group", "dropMembers", "member"}
      BY <3>1 DEF Adjacent, Do, CommitOf
    <3>2. CASE x.op \notin {"leave", "unpin", "dropRow", "group", "dropMembers", "member"}
      BY <1>5, <3>2 DEF Adjacent, Inner, Opening
    <3> QED BY <3>1, <3>2
  <2> QED BY <2>1, <2>2 DEF Filed, FiledFor
<1> QED BY <1>1, <1>2, <1>3, <1>4, <1>5

\* A thread goes on, and the history stays.
LEMMA HistoryStays ==
  ASSUME ScriptsOK, QuotaOK, NEW t \in Thread, NEW r, Continue(t, r),
         tables'.snapshots = tables.snapshots, tables'.windows = tables.windows,
         disk'.snapshots = disk.snapshots, disk'.windows = disk.windows,
         past'.mingled = past.mingled,
         Opens(r) => FiledFor(r[1], tables, past.mingled)
  PROVE  QuotaOK'
<1>1. script'[t] = r /\ \A u \in Thread : u # t => script'[u] = script[u]
  BY DEF ScriptsOK, Continue
<1> QED BY <1>1 DEF QuotaOK, Filed, FiledFor

LEMMA HistoryOutside ==
  ASSUME ScriptsOK, QuotaOK, NEW t \in Thread, NEW r, Outside(t, r),
         UNCHANGED <<tables, disk>>, past'.mingled = past.mingled
  PROVE  QuotaOK'
BY HistoryStays DEF Outside

LEMMA QuotaStatement ==
  ASSUME Shape, Shape', Transactions, QuotaOK, NEW t \in Thread, ~ Idle(t), Advance(t),
         Step(t).op \notin {"begin", "commit", "rollback", "rowid"},
         tables'.snapshots = SnapshotsAfter(Step(t), tables),
         tables'.windows = WindowsAfter(Step(t), tables),
         Execute(tables'), past' = past
  PROVE  QuotaOK'
<1> DEFINE x == Step(t)
           s == script[t]
           y == Tail(s)[1]
<1>1. ScriptsOK /\ s # <<>> /\ x = s[1] /\ (x.op = "window" => x.snapshot \in Nat)
  BY NextStep DEF Shape, ScriptsOK, Idle
<1>2. Continue(t, Tail(s))
  BY DEF Advance
<1>3. Opens(Tail(s)) <=> x.op \in Opening
  BY <1>1, OpensNext DEF Shape
<1>4. Opens(s) <=> Inside(t)
  BY <1>1, InsideOpens
<1>5. Tail(s) # <<>> => Adjacent(x, y)
  BY <1>1, NextStep
<1> HIDE DEF x, s, y
<1>6. CASE Inside(t)
  <2>1. owner = t /\ Nobody # t /\ disk' = disk
    BY <1>6, AccountStorageAssumption DEF Transactions, Execute, InTransaction
  <2>2. \A u \in Thread \ {t} : ~ Opens(script[u])
    BY <1>1, <2>1, InsideOpens DEF Transactions
  <2>3. x.op \in Opening /\ Tail(s) # <<>>
    BY <1>3, <1>6 DEF Inside, Inner, x, Opens
  <2>4. tables \in Tables /\ tables' \in Tables
    BY DEF Shape, TypeOK
  <2>5. Filed(tables, past.mingled) /\ FiledFor(x, tables, past.mingled)
    BY <1>1, <1>4, <1>6 DEF QuotaOK, s, x
  <2>6. Filed(tables', past.mingled) /\ FiledFor(y, tables', past.mingled)
    BY <1>1, <1>5, <2>3, <2>4, <2>5, HistoryGoesOn DEF x
  <2>7. script'[t] = Tail(s) /\ \A u \in Thread : u # t => script'[u] = script[u]
    BY <1>1, <1>2 DEF ScriptsOK, Continue
  <2> QED BY <2>1, <2>2, <2>6, <2>7 DEF QuotaOK, y
<1>7. CASE ~ Inside(t)
  <2>1. x.op \notin Inner
    BY <1>7 DEF Inside, x
  <2>2. tables'.snapshots = tables.snapshots /\ tables'.windows = tables.windows
    BY <2>1 DEF SnapshotsAfter, WindowsAfter, Inner, Opening, x
  <2>3. disk'.snapshots = disk.snapshots /\ disk'.windows = disk.windows
    BY <2>2 DEF Execute, InTransaction, Transactions
  <2>4. ~ Opens(Tail(s))
    BY <1>3, <2>1 DEF Inner, x
  <2> QED BY <1>1, <1>2, <2>2, <2>3, <2>4, HistoryStays
<1> QED BY <1>6, <1>7

\* After a COMMIT, or a ROLLBACK, no thread is in a transaction.
LEMMA Ended ==
  ASSUME Shape, Transactions, NEW t \in Thread, CommitTransaction(t) \/ RollbackTransaction(t)
  PROVE  \A u \in Thread : ~ Opens(script'[u])
<1>1. ~ Idle(t) /\ Step(t).op \in {"commit", "rollback"} /\ Continue(t, Tail(script[t]))
  BY DEF CommitTransaction, RollbackTransaction, At, Step, Advance
<1>2. ScriptsOK
  BY DEF Shape
<1>3. \A u \in Thread \ {t} : ~ Opens(script[u])
  BY <1>1, <1>2, InsideOpens DEF Transactions, Inside, Inner
<1>4. ~ Opens(Tail(script[t]))
  BY <1>1, <1>2, NotOpening DEF Opening
<1> QED BY <1>1, <1>2, <1>3, <1>4 DEF ScriptsOK, Continue

\* The steps of the database that run no statement.
LEMMA QuietDatabase ==
  ASSUME Shape, NEW t \in Thread,
         \/ BeginRefused(t) \/ NextAccountId(t) \/ FindAccount(t) \/ ChooseMembers(t)
         \/ CheckMember(t)
  PROVE  /\ \E r : Outside(t, r)
         /\ UNCHANGED connection
         /\ past'.saved = past.saved /\ past'.mingled = past.mingled /\ past'.undone = past.undone
<1> DEFINE x == Step(t)
           s == script[t]
<1>1. ScriptsOK
  BY DEF Shape
<1>2. ~ Opens(<<>>) /\ ~ Opens(<< Do("insert", x.id) >>)
  BY DEF Opens, Do, Inner, Opening
<1>3. CASE FindAccount(t)
  <2> DEFINE row == tables.accounts[x.id]
             r == IF row = NoRow THEN <<>> ELSE Rest(x.for, x.id, row)
  <2>1. UNCHANGED connection /\ Continue(t, r)
    BY <1>3 DEF FindAccount
  <2>2. past'.saved = past.saved /\ past'.mingled = past.mingled /\ past'.undone = past.undone
    BY <1>3 DEF FindAccount, Shape, TypeOK
  <2>3. r = <<>> \/ OnlyAbout(r, x.id)
    BY <1>3, FoundScript
  <2> HIDE DEF r
  <2>4. Outside(t, r)
    BY <1>2, <2>1, <2>3 DEF OnlyAbout, Opens, Starts, Inner, Opening, Outside
  <2> QED BY <2>1, <2>2, <2>4
<1>4. CASE ChooseMembers(t) \/ CheckMember(t)
  <2>1. /\ ~ Idle(t) /\ x.op \in {"choose", "check"} /\ UNCHANGED <<connection, past>>
        /\ Continue(t, <<>>) \/ Continue(t, Tail(s))
    BY <1>4 DEF ChooseMembers, CheckMember, At, Step
  <2>2. ~ Opens(Tail(s))
    BY <1>1, <2>1, NotOpening DEF Opening
  <2> QED BY <1>2, <2>1, <2>2 DEF Outside
<1>5. CASE BeginRefused(t) \/ NextAccountId(t)
  <2>1. /\ UNCHANGED <<connection, past>>
        /\ Continue(t, <<>>) \/ Continue(t, << Do("insert", x.id) >>)
    BY <1>5 DEF BeginRefused, NextAccountId
  <2> QED BY <1>2, <2>1 DEF Outside
<1> QED BY <1>3, <1>4, <1>5

LEMMA QuotaDatabase ==
  ASSUME Shape, Shape', Transactions, QuotaOK, NEW t \in Thread, DatabaseStep(t)
  PROVE  QuotaOK'
<1> DEFINE x == Step(t)
           s == script[t]
<1>1. ScriptsOK /\ (owner = Nobody => tables = disk)
  BY DEF Shape, Transactions
<1>2. CASE \/ UpdateAccount(t) \/ DeleteMemberships(t) \/ ClearManual(t) \/ DeleteWindows(t)
           \/ DeleteSnapshots(t) \/ DeleteRow(t) \/ UpsertGroup(t) \/ DeleteMembers(t)
           \/ PruneLogs(t) \/ ClearLogs(t) \/ InsertSnapshot(t) \/ InsertWindow(t)
           \/ InsertMember(t) \/ InsertLog(t)
  BY <1>2, Statement, HistoryStatement, QuotaStatement
<1>3. CASE Begin(t)
  <2>1. ~ Idle(t) /\ x.op = "begin" /\ Continue(t, Tail(s)) /\ UNCHANGED <<tables, disk, past>>
    BY <1>3 DEF Begin, BeginImmediate, At, Step, Advance
  <2>2. ASSUME Opens(Tail(s)) PROVE Tail(s)[1].op \in {"leave", "snapshot", "group"}
    BY <1>1, <2>1, <2>2, NextStep DEF Opens, Adjacent
  <2>3. Opens(Tail(s)) => FiledFor(Tail(s)[1], tables, past.mingled)
    BY <2>2 DEF FiledFor
  <2> QED BY <1>1, <2>1, <2>3, HistoryStays
<1>4. CASE \/ BeginRefused(t) \/ NextAccountId(t) \/ FindAccount(t) \/ ChooseMembers(t)
           \/ CheckMember(t)
  <2>1. PICK r : Outside(t, r)
    BY <1>4, QuietDatabase
  <2>2. UNCHANGED <<tables, disk>> /\ past'.mingled = past.mingled
    BY <1>4, QuietDatabase DEF connection
  <2> QED BY <1>1, <2>1, <2>2, HistoryOutside
<1>5. CASE CommitTransaction(t) \/ RollbackTransaction(t)
  <2>1. /\ past'.mingled = past.mingled
        /\ (tables' = tables /\ disk' = tables) \/ (tables' = disk /\ disk' = disk)
    BY <1>5 DEF CommitTransaction, RollbackTransaction, Commit, Rollback, Shape, TypeOK
  <2>2. \A u \in Thread : ~ Opens(script'[u])
    BY <1>5, Ended
  <2> QED BY <2>1, <2>2 DEF QuotaOK
<1>6. CASE InsertAccount(t)
  <2>1. ~ Idle(t) /\ x.op = "insert" /\ Continue(t, Tail(s)) /\ past'.mingled = past.mingled
    BY <1>6 DEF InsertAccount, At, Step, Advance, Shape, TypeOK
  <2>2. tables'.snapshots = tables.snapshots /\ tables'.windows = tables.windows
    BY <1>6 DEF InsertAccount, Insert, Execute, connection, Shape, TypeOK, Tables
  <2>3. disk'.snapshots = disk.snapshots /\ disk'.windows = disk.windows
    BY <1>1, <1>6, <2>2 DEF InsertAccount, Insert, Execute, InTransaction, connection
  <2>4. ~ Opens(Tail(s))
    BY <1>1, <2>1, NotOpening DEF Opening
  <2> QED BY <1>1, <2>1, <2>2, <2>3, <2>4, HistoryStays
<1>7. CASE LastInsertRowid(t)
  <2> DEFINE window == [op |-> "window", id |-> x.id, snapshot |-> lastRow]
             r == << window >> \o Tail(Tail(s))
  <2>1. /\ ~ Idle(t) /\ x.op = "rowid" /\ Continue(t, r) /\ UNCHANGED <<tables, disk>>
        /\ past'.mingled = IF [id |-> lastRow, account |-> x.id] \in tables.snapshots
                           THEN past.mingled ELSE past.mingled \cup {x.id}
    BY <1>7 DEF LastInsertRowid, At, Step, connection, Shape, TypeOK
  <2>2. r # <<>> /\ r[1] = window
    BY <1>1, <2>1, RowidScript DEF Shape, TypeOK
  <2> HIDE DEF r
  <2>3. FiledFor(r[1], tables, past'.mingled)
    BY <2>1, <2>2 DEF FiledFor
  <2>4. \A u \in Thread \ {t} : ~ Opens(script[u])
    BY <1>1, <2>1, InsideOpens DEF Transactions, Inside, Inner, Opening
  <2>5. script'[t] = r /\ \A u \in Thread : u # t => script'[u] = script[u]
    BY <1>1, <2>1 DEF ScriptsOK, Continue
  <2>6. Filed(tables, past'.mingled) /\ Filed(disk, past'.mingled)
    BY <2>1 DEF QuotaOK, Filed
  <2> QED BY <2>1, <2>3, <2>4, <2>5, <2>6 DEF QuotaOK
<1> QED
  BY <1>2, <1>3, <1>4, <1>5, <1>6, <1>7 DEF DatabaseStep

LEMMA QuotaOther ==
  ASSUME Shape, Transactions, QuotaOK,
         \/ \E t \in Thread : Start(t) \/ StoreStep(t) \/ IgnoredFailure(t) \/ DirectoryStep(t) \/ Fails(t)
         \/ Crash \/ Exit \/ Stop \/ Restart \/ Outage
  PROVE  QuotaOK'
<1>1. ScriptsOK /\ Main \in Thread
  BY AccountStorageAssumption DEF Shape
<1>2. ASSUME NEW t \in Thread, Start(t) \/ StoreStep(t) \/ IgnoredFailure(t) \/ DirectoryStep(t)
      PROVE  QuotaOK'
  <2>1. PICK r : Outside(t, r)
    BY <1>2, Quiet
  <2>2. past'.mingled = past.mingled /\ UNCHANGED <<tables, disk>>
    BY <1>2, Quiet DEF connection
  <2> QED BY <1>1, <2>1, <2>2, HistoryOutside
<1>3. ASSUME NEW t \in Thread, Fails(t) PROVE QuotaOK'
  <2> DEFINE r == IF owner = t THEN << Do("rollback", Step(t).id) >> ELSE <<>>
  <2>1. Continue(t, r) /\ UNCHANGED <<tables, disk, past>>
    BY <1>3 DEF Fails, connection
  <2>2. r = <<>> \/ r[1].op = "rollback"
    BY DEF Do
  <2> HIDE DEF r
  <2>3. Opens(r) => FiledFor(r[1], tables, past.mingled)
    BY <2>2 DEF Opens, FiledFor
  <2> QED BY <1>1, <2>1, <2>3, HistoryStays
<1>4. CASE Crash \/ Stop
  <2>1. /\ tables' = disk /\ disk' = disk /\ past'.mingled = past.mingled
        /\ \A t \in Thread : script'[t] = <<>>
    BY <1>4 DEF Crash, Stop, Close, Idle, Shape, TypeOK
  <2> QED BY <2>1 DEF QuotaOK, Opens
<1>5. CASE Exit \/ Outage
  <2>1. UNCHANGED <<tables, disk, script, past>>
    BY <1>5 DEF Exit, Outage, connection
  <2> QED BY <2>1 DEF QuotaOK
<1>6. CASE Restart
  <2> DEFINE r == IF Get(LocalApi) = NoSecret THEN put(LocalApi, Fresh(LocalApi)) ELSE <<>>
  <2>1. UNCHANGED <<tables, disk, past>> /\ Continue(Main, r)
    BY <1>6 DEF Restart, Continue, connection
  <2>2. ~ Opens(r)
    BY DEF Opens, Inner, Opening, put
  <2> HIDE DEF r
  <2> QED BY <1>1, <2>1, <2>2, HistoryOutside DEF Outside
<1> QED BY <1>2, <1>3, <1>4, <1>5, <1>6

LEMMA QuotaInvariance == Spec => []QuotaOK
<1>1. Init => QuotaOK
  BY DEF Init, Open, QuotaOK, Filed, Opens
<1>2. Shape /\ Transactions /\ QuotaOK /\ [Next]_vars /\ Shape' /\ Transactions' => QuotaOK'
  <2> SUFFICES ASSUME Shape, Transactions, QuotaOK, [Next]_vars, Shape', Transactions'
               PROVE  QuotaOK'
    OBVIOUS
  <2>1. CASE Next
    BY <2>1, QuotaDatabase, QuotaOther DEF Next
  <2>2. CASE UNCHANGED vars
    BY <2>2 DEF vars, connection, QuotaOK
  <2> QED BY <2>1, <2>2
<1> QED BY <1>1, <1>2, TransactionInvariance, PTL DEF Spec

\* No window of the history is left without the snapshot of its account, unless
\* last_insert_rowid returned the id of a row that another thread inserted.
THEOREM HistoryFiled == Spec => []QuotaFiled
<1>1. QuotaOK => QuotaFiled
  BY DEF QuotaOK, QuotaFiled, Filed
<1> QED BY <1>1, QuotaInvariance, PTL

-----------------------------------------------------------------------------
(* The request log.                                                        *)

PrunesNow(s) == s # <<>> /\ s[1].op = "prune"

\* The threads that have inserted an entry and now prune the log, or only prune it.
Pruning == {t \in Thread : PrunesNow(script[t])}

Others == Cardinality(Thread) - 1

\* What failures and crashes may leave above the limit.
Excused(u) == Others * u.faults + Cardinality(Thread) * u.crashes

\* When a transaction was begun, at most the others had entries to prune; its
\* ROLLBACK may bring back as many, and the failure excuses them.
LogOK ==
  /\ tables.logs <= MaxRows + Cardinality(Pruning) + Excused(used)
  /\ \A t \in Thread : Opens(script[t]) =>
       disk.logs <= MaxRows + (IF script[t][1].op = "rollback" THEN 0 ELSE Others) + Excused(used)

\* There are two threads at least.
LEMMA ThreadsAre ==
  /\ Cardinality(Thread) \in Nat /\ Others \in Nat \ {0} /\ IsFiniteSet(Thread)
  /\ \A S : S \subseteq Thread =>
       IsFiniteSet(S) /\ Cardinality(S) \in Nat /\ Cardinality(S) <= Cardinality(Thread)
  /\ \A t \in Thread : Cardinality(Thread \ {t}) = Others
<1>1. IsFiniteSet(Thread) /\ Main \in Thread
  BY AccountStorageAssumption
<1>2. \A S : S \subseteq Thread =>
        IsFiniteSet(S) /\ Cardinality(S) \in Nat /\ Cardinality(S) <= Cardinality(Thread)
  BY <1>1, FS_Subset, FS_CardinalityType
<1>3. \A t \in Thread : Cardinality(Thread \ {t}) = Others
  BY <1>1, FS_RemoveElement DEF Others
<1>4. PICK u \in Thread : u # Main
  BY AccountStorageAssumption
<1>5. Cardinality(Thread \ {Main}) # 0
  BY <1>1, <1>2, <1>4, FS_EmptySet
<1>6. Others \in Nat \ {0}
  BY <1>1, <1>2, <1>3, <1>5
<1> QED BY <1>1, <1>2, <1>3, <1>6, FS_CardinalityType

\* The excuses only grow.
LEMMA ExcusedGrow ==
  ASSUME NEW u, u.faults \in Nat, u.crashes \in Nat
  PROVE  /\ Excused(u) \in Nat
         /\ \A v : v.faults = u.faults /\ v.crashes = u.crashes => Excused(v) = Excused(u)
         /\ \A v : v.faults = u.faults + 1 /\ v.crashes = u.crashes =>
              Excused(v) = Excused(u) + Others
         /\ \A v : v.faults = u.faults /\ v.crashes = u.crashes + 1 =>
              Excused(v) = Excused(u) + Cardinality(Thread)
<1> DEFINE n == Cardinality(Thread)
           m == Others
           f == u.faults
           c == u.crashes
<1>1. n \in Nat /\ m \in Nat
  BY ThreadsAre
<1>2. \A v : Excused(v) = m * v.faults + n * v.crashes
  BY DEF Excused
<1> HIDE DEF n, m, f, c
<1>3. f \in Nat /\ c \in Nat
  BY DEF f, c
<1>4. m * f \in Nat /\ n * c \in Nat /\ m * (f + 1) = m * f + m /\ n * (c + 1) = n * c + n
  BY <1>1, <1>3
<1>5. Excused(u) = m * f + n * c
  BY <1>2 DEF f, c
<1>6. ASSUME NEW v, v.faults = f + 1, v.crashes = c PROVE Excused(v) = Excused(u) + m
  <2>1. Excused(v) = m * (f + 1) + n * c
    BY <1>2, <1>6
  <2> QED BY <1>1, <1>4, <1>5, <2>1
<1>7. ASSUME NEW v, v.faults = f, v.crashes = c + 1 PROVE Excused(v) = Excused(u) + n
  <2>1. Excused(v) = m * f + n * (c + 1)
    BY <1>2, <1>7
  <2> QED BY <1>1, <1>4, <1>5, <2>1
<1>8. ASSUME NEW v, v.faults = f, v.crashes = c PROVE Excused(v) = Excused(u)
  <2>1. Excused(v) = m * f + n * c
    BY <1>2, <1>8
  <2> QED BY <1>5, <2>1
<1> QED BY <1>4, <1>5, <1>6, <1>7, <1>8 DEF m, n, f, c

\* What becomes of the threads that prune when one of them goes on.
LEMMA PruningAfter ==
  ASSUME ScriptsOK, NEW t \in Thread, NEW r, Continue(t, r)
  PROVE  /\ Cardinality(Pruning) \in Nat /\ Cardinality(Pruning') \in Nat
         /\ ~ PrunesNow(script[t]) => Cardinality(Pruning) <= Others
         /\ ~ PrunesNow(script[t]) => Cardinality(Pruning) <= Cardinality(Pruning')
         /\ ~ PrunesNow(script[t]) /\ PrunesNow(r) => Cardinality(Pruning') = Cardinality(Pruning) + 1
         /\ Cardinality(Pruning) <= Cardinality(Pruning') + 1
<1>1. script'[t] = r /\ \A u \in Thread : u # t => script'[u] = script[u]
  BY DEF ScriptsOK, Continue
<1>2. Pruning \subseteq Thread /\ Pruning' \subseteq Thread
  BY DEF Pruning
<1>3. /\ IsFiniteSet(Pruning) /\ Cardinality(Pruning) \in Nat
      /\ IsFiniteSet(Pruning') /\ Cardinality(Pruning') \in Nat
  BY <1>2, ThreadsAre
<1>4. (t \in Pruning <=> PrunesNow(script[t])) /\ (t \in Pruning' <=> PrunesNow(r))
  BY <1>1 DEF Pruning
<1>5. \A u \in Thread \ {t} : u \in Pruning <=> u \in Pruning'
  BY <1>1 DEF Pruning
<1>6. ASSUME ~ PrunesNow(script[t]) PROVE Cardinality(Pruning) <= Others
  <2>1. Pruning \subseteq Thread \ {t}
    BY <1>2, <1>4, <1>6
  <2>2. IsFiniteSet(Thread \ {t}) /\ Cardinality(Thread \ {t}) = Others
    BY ThreadsAre
  <2> QED BY <2>1, <2>2, FS_Subset
<1>7. ASSUME ~ PrunesNow(script[t]) PROVE Cardinality(Pruning) <= Cardinality(Pruning')
  <2>1. Pruning \subseteq Pruning'
    BY <1>2, <1>4, <1>5, <1>7
  <2> QED BY <1>3, <2>1, FS_Subset
<1>8. ASSUME ~ PrunesNow(script[t]), PrunesNow(r)
      PROVE  Cardinality(Pruning') = Cardinality(Pruning) + 1
  <2>1. Pruning' = Pruning \cup {t} /\ t \notin Pruning
    BY <1>2, <1>4, <1>5, <1>8
  <2> QED BY <1>3, <2>1, FS_AddElement
<1>9. Cardinality(Pruning) <= Cardinality(Pruning') + 1
  <2>1. Pruning \ {t} \subseteq Pruning'
    BY <1>2, <1>5
  <2>2. Cardinality(Pruning \ {t}) <= Cardinality(Pruning')
    BY <1>3, <2>1, FS_Subset
  <2>3. Cardinality(Pruning \ {t}) = IF t \in Pruning THEN Cardinality(Pruning) - 1
                                     ELSE Cardinality(Pruning)
    BY <1>3, FS_RemoveElement
  <2> QED BY <1>3, <2>2, <2>3
<1> QED BY <1>3, <1>6, <1>7, <1>8, <1>9

\* A thread that does not prune goes on, and inserts no entry.
LEMMA LogStays ==
  ASSUME Shape, Shape', LogOK, NEW t \in Thread, NEW r, Continue(t, r), ~ PrunesNow(script[t]),
         tables'.logs = tables.logs, Excused(used) <= Excused(used'),
         \A u \in Thread \ {t} : Opens(script[u]) => disk'.logs = disk.logs,
         Opens(r) => disk'.logs <= MaxRows + (IF r[1].op = "rollback" THEN 0 ELSE Others)
                                     + Excused(used')
  PROVE  LogOK'
<1>1. script'[t] = r /\ \A u \in Thread : u # t => script'[u] = script[u]
  BY DEF Shape, ScriptsOK, Continue
<1>2. /\ Cardinality(Pruning) \in Nat /\ Cardinality(Pruning') \in Nat
      /\ Cardinality(Pruning) <= Cardinality(Pruning')
  BY PruningAfter DEF Shape
<1>3. tables.logs \in Nat /\ disk.logs \in Nat /\ disk'.logs \in Nat /\ MaxRows \in Nat /\ Others \in Nat
  BY AccountStorageAssumption, ThreadsAre DEF Shape, TypeOK, Tables
<1>4. Excused(used) \in Nat /\ Excused(used') \in Nat
  BY ExcusedGrow DEF Shape, TypeOK
<1>5. tables'.logs <= MaxRows + Cardinality(Pruning') + Excused(used')
  <2>1. tables.logs <= MaxRows + Cardinality(Pruning) + Excused(used)
    BY DEF LogOK
  <2> QED BY <1>2, <1>3, <1>4, <2>1
<1>6. ASSUME NEW u \in Thread, Opens(script'[u])
      PROVE  disk'.logs <= MaxRows + (IF script'[u][1].op = "rollback" THEN 0 ELSE Others)
                             + Excused(used')
  <2>1. CASE u = t
    BY <1>1, <1>6, <2>1
  <2>2. CASE u # t
    <3> DEFINE k == IF script[u][1].op = "rollback" THEN 0 ELSE Others
    <3>1. disk.logs <= MaxRows + k + Excused(used) /\ disk'.logs = disk.logs
      BY <1>1, <1>6, <2>2 DEF LogOK
    <3>2. k \in Nat
      BY <1>3
    <3>3. k = IF script'[u][1].op = "rollback" THEN 0 ELSE Others
      BY <1>1, <2>2
    <3> HIDE DEF k
    <3>4. disk'.logs <= MaxRows + k + Excused(used')
      BY <1>3, <1>4, <3>1, <3>2
    <3> QED BY <3>3, <3>4
  <2> QED BY <2>1, <2>2
<1> QED BY <1>5, <1>6 DEF LogOK

LEMMA LogOutside ==
  ASSUME Shape, Shape', LogOK, NEW t \in Thread, NEW r, Outside(t, r), ~ PrunesNow(script[t]),
         UNCHANGED <<tables, disk>>, Excused(used) <= Excused(used')
  PROVE  LogOK'
BY LogStays DEF Outside

\* No ROLLBACK follows a step by itself.
LEMMA AfterOpening ==
  ASSUME NEW x, NEW y, Adjacent(x, y), x.op \in Opening
  PROVE  y.op # "rollback"
<1>1. CASE x.op \in {"begin", "leave", "unpin", "dropWindows", "dropSnapshots", "dropRow"}
  BY <1>1 DEF Adjacent, Do, CommitOf
<1>2. CASE x.op \in {"snapshot", "rowid", "window", "group", "dropMembers", "member"}
  BY <1>2 DEF Adjacent, Do, CommitOf
<1> QED BY <1>1, <1>2 DEF Opening

LEMMA LogStatement ==
  ASSUME Shape, NEW t \in Thread,
         \/ UpdateAccount(t) \/ DeleteMemberships(t) \/ ClearManual(t) \/ DeleteWindows(t)
         \/ DeleteSnapshots(t) \/ DeleteRow(t) \/ UpsertGroup(t) \/ DeleteMembers(t)
         \/ PruneLogs(t) \/ ClearLogs(t) \/ InsertSnapshot(t) \/ InsertWindow(t)
         \/ InsertMember(t) \/ InsertLog(t)
  PROVE  \/ Step(t).op = "log" /\ tables'.logs = tables.logs + 1
         \/ Step(t).op \in {"prune", "clear"} /\ tables'.logs <= MaxRows
         \/ Step(t).op \notin {"log", "prune", "clear"} /\ tables'.logs = tables.logs
<1> DEFINE x == Step(t)
<1>1. tables \in Tables /\ tables.logs \in Nat
  BY DEF Shape, TypeOK, Tables
<1>2. CASE InsertLog(t)
  <2>1. tables' = [tables EXCEPT !.logs = @ + 1, !.logged = tables.logged + 1] /\ x.op = "log"
    BY <1>2 DEF InsertLog, Insert, Execute, At, Step
  <2> QED BY <1>1, <2>1 DEF Tables
<1>3. CASE PruneLogs(t)
  <2>1. PICK old \in setup.expired :
          Runs(t, [tables EXCEPT !.logs = AtMost(@ - AtMost(old, @), MaxRows)])
    BY <1>3 DEF PruneLogs
  <2>2. old \in Nat /\ MaxRows \in Nat
    BY AccountStorageAssumption DEF Shape, TypeOK, IsSetup
  <2>3. tables'.logs = AtMost(tables.logs - AtMost(old, tables.logs), MaxRows)
    BY <1>1, <2>1 DEF Runs, Write, Execute, Tables
  <2>4. AtMost(tables.logs - AtMost(old, tables.logs), MaxRows) <= MaxRows
    BY <1>1, <2>2 DEF AtMost
  <2> QED BY <1>3, <2>3, <2>4 DEF PruneLogs, At, Step
<1>4. CASE ClearLogs(t)
  <2>1. tables' = [tables EXCEPT !.logs = 0] /\ x.op = "clear"
    BY <1>4 DEF ClearLogs, Runs, Write, Execute, At, Step
  <2> QED BY <1>1, <2>1, AccountStorageAssumption DEF Tables
<1>5. CASE \/ UpdateAccount(t) \/ DeleteMemberships(t) \/ ClearManual(t) \/ DeleteWindows(t)
           \/ DeleteSnapshots(t) \/ DeleteRow(t) \/ UpsertGroup(t) \/ DeleteMembers(t)
  <2>1. x.op \notin {"log", "prune", "clear"}
    BY <1>5 DEF UpdateAccount, DeleteMemberships, ClearManual, DeleteWindows, DeleteSnapshots,
                DeleteRow, UpsertGroup, DeleteMembers, At, Step
  <2>2. tables'.logs = tables.logs
    BY <1>1, <1>5 DEF UpdateAccount, DeleteMemberships, ClearManual, DeleteWindows,
                DeleteSnapshots, DeleteRow, UpsertGroup, DeleteMembers, Runs, Write, Execute, Tables
  <2> QED BY <2>1, <2>2
<1>6. CASE InsertSnapshot(t) \/ InsertWindow(t) \/ InsertMember(t)
  <2>1. x.op \notin {"log", "prune", "clear"}
    BY <1>6 DEF InsertSnapshot, InsertWindow, InsertMember, At, Step
  <2>2. tables'.logs = tables.logs
    BY <1>1, <1>6 DEF InsertSnapshot, InsertWindow, InsertMember, Insert, Execute, Tables
  <2> QED BY <2>1, <2>2
<1> QED BY <1>2, <1>3, <1>4, <1>5, <1>6

LEMMA LogAfterStatement ==
  ASSUME Shape, Shape', Transactions, LogOK, NEW t \in Thread,
         \/ UpdateAccount(t) \/ DeleteMemberships(t) \/ ClearManual(t) \/ DeleteWindows(t)
         \/ DeleteSnapshots(t) \/ DeleteRow(t) \/ UpsertGroup(t) \/ DeleteMembers(t)
         \/ PruneLogs(t) \/ ClearLogs(t) \/ InsertSnapshot(t) \/ InsertWindow(t)
         \/ InsertMember(t) \/ InsertLog(t)
  PROVE  LogOK'
<1> DEFINE x == Step(t)
           s == script[t]
           r == Tail(s)
<1>1. /\ ~ Idle(t) /\ Continue(t, r) /\ Execute(tables') /\ used' = used
      /\ x.op \notin {"begin", "commit", "rollback", "rowid"}
  BY Statement DEF Advance, progress
<1>2. s # <<>> /\ x = s[1] /\ (r = <<>> => Ends(x)) /\ (r # <<>> => Adjacent(x, r[1])) /\ ScriptsOK
  BY <1>1, NextStep DEF Shape, Idle
<1>3. (Opens(r) <=> x.op \in Opening) /\ (Opens(s) <=> Inside(t))
  BY <1>1, <1>2, OpensNext, InsideOpens
<1>4. \A u \in Thread \ {t} : Opens(script[u]) => disk' = disk /\ ~ Inside(t)
  <2>1. ASSUME NEW u \in Thread \ {t}, Opens(script[u]) PROVE disk' = disk /\ ~ Inside(t)
    <3>1. owner = u /\ u # Nobody
      BY <1>2, <2>1, InsideOpens, AccountStorageAssumption DEF Transactions
    <3> QED BY <1>1, <3>1 DEF Execute, InTransaction, Transactions
  <2> QED BY <2>1
<1>5. script'[t] = r /\ \A u \in Thread : u # t => script'[u] = script[u]
  BY <1>1, <1>2 DEF ScriptsOK, Continue
<1>6. /\ tables.logs \in Nat /\ tables'.logs \in Nat /\ disk.logs \in Nat /\ MaxRows \in Nat
      /\ Others \in Nat /\ Excused(used) \in Nat
  BY AccountStorageAssumption, ThreadsAre, ExcusedGrow DEF Shape, TypeOK, Tables
<1>7. /\ Cardinality(Pruning) \in Nat /\ Cardinality(Pruning') \in Nat
      /\ ~ PrunesNow(s) /\ PrunesNow(r) => Cardinality(Pruning') = Cardinality(Pruning) + 1
  BY <1>1, <1>2, PruningAfter
<1> HIDE DEF x, s, r
<1>8. PrunesNow(s) <=> x.op = "prune"
  BY <1>2 DEF PrunesNow
<1>9. ASSUME x.op \in {"log", "prune", "clear"}
      PROVE  \A u \in Thread : Opens(script'[u]) =>
               disk'.logs <= MaxRows + (IF script'[u][1].op = "rollback" THEN 0 ELSE Others)
                              + Excused(used')
  <2>1. ~ Opens(r)
    BY <1>3, <1>9 DEF Opening
  <2>2. \A u \in Thread : Opens(script'[u]) => u # t /\ script'[u] = script[u] /\ disk' = disk
    BY <1>4, <1>5, <2>1
  <2> QED BY <1>1, <2>2 DEF LogOK
<1>10. CASE x.op = "log" /\ tables'.logs = tables.logs + 1
  <2>1. ~ PrunesNow(s) /\ PrunesNow(r)
    BY <1>2, <1>8, <1>10 DEF PrunesNow, Ends, Adjacent
  <2>2. tables.logs <= MaxRows + Cardinality(Pruning) + Excused(used)
    BY DEF LogOK
  <2>3. tables'.logs <= MaxRows + Cardinality(Pruning') + Excused(used')
    BY <1>1, <1>6, <1>7, <1>10, <2>1, <2>2
  <2> QED BY <1>9, <1>10, <2>3 DEF LogOK
<1>11. CASE x.op \in {"prune", "clear"} /\ tables'.logs <= MaxRows
  <2>1. tables'.logs <= MaxRows + Cardinality(Pruning') + Excused(used')
    BY <1>1, <1>6, <1>7, <1>11
  <2> QED BY <1>9, <1>11, <2>1 DEF LogOK
<1>12. CASE x.op \notin {"log", "prune", "clear"} /\ tables'.logs = tables.logs
  <2>1. ASSUME Opens(r)
        PROVE  disk'.logs <= MaxRows + (IF r[1].op = "rollback" THEN 0 ELSE Others) + Excused(used')
    <3>1. x.op \in Opening /\ x.op # "begin" /\ r # <<>>
      BY <1>1, <1>3, <2>1 DEF x, Opens
    <3>2. Inside(t)
      BY <1>1, <3>1 DEF Inside, Inner, x
    <3>3. disk' = disk
      BY <1>1, <3>2, AccountStorageAssumption DEF Transactions, Execute, InTransaction
    <3>4. disk.logs <= MaxRows + Others + Excused(used)
      <4>1. x.op # "rollback" /\ s[1].op # "rollback" /\ s = script[t]
        BY <1>1, <1>2 DEF x, s
      <4> QED BY <1>3, <3>2, <4>1 DEF LogOK
    <3>5. r[1].op # "rollback"
      BY <1>2, <3>1, AfterOpening
    <3> QED BY <1>1, <3>3, <3>4, <3>5
  <2>2. Excused(used) <= Excused(used')
    BY <1>1, <1>6
  <2>3. ~ PrunesNow(script[t])
    BY <1>8, <1>12 DEF s
  <2>4. \A u \in Thread \ {t} : Opens(script[u]) => disk'.logs = disk.logs
    BY <1>4
  <2> QED BY <1>1, <1>12, <2>1, <2>2, <2>3, <2>4, LogStays
<1> QED BY <1>10, <1>11, <1>12, LogStatement DEF x

LEMMA LogDatabase ==
  ASSUME Shape, Shape', Transactions, LogOK, NEW t \in Thread, DatabaseStep(t)
  PROVE  LogOK'
<1> DEFINE x == Step(t)
           s == script[t]
<1>1. ScriptsOK /\ (owner = Nobody => tables = disk)
  BY DEF Shape, Transactions
<1>2. /\ tables.logs \in Nat /\ disk.logs \in Nat /\ MaxRows \in Nat /\ Others \in Nat
      /\ Excused(used) \in Nat
  BY AccountStorageAssumption, ThreadsAre, ExcusedGrow DEF Shape, TypeOK, Tables
<1>3. ASSUME ~ Idle(t), x.op # "prune" PROVE ~ PrunesNow(s)
  BY <1>1, <1>3, NextStep DEF PrunesNow
<1>4. CASE \/ UpdateAccount(t) \/ DeleteMemberships(t) \/ ClearManual(t) \/ DeleteWindows(t)
           \/ DeleteSnapshots(t) \/ DeleteRow(t) \/ UpsertGroup(t) \/ DeleteMembers(t)
           \/ PruneLogs(t) \/ ClearLogs(t) \/ InsertSnapshot(t) \/ InsertWindow(t)
           \/ InsertMember(t) \/ InsertLog(t)
  BY <1>4, LogAfterStatement
<1>5. CASE Begin(t)
  <2>1. /\ ~ Idle(t) /\ x.op = "begin" /\ Continue(t, Tail(s)) /\ UNCHANGED <<tables, disk, used>>
        /\ owner = Nobody
    BY <1>5 DEF Begin, BeginImmediate, InTransaction, At, Step, Advance, progress
  <2>2. ASSUME Opens(Tail(s)) PROVE Tail(s)[1].op # "rollback"
    BY <1>1, <2>1, <2>2, NextStep DEF Opens, Adjacent
  <2>3. ~ PrunesNow(s)
    BY <1>3, <2>1
  <2>4. Cardinality(Pruning) <= Others /\ Cardinality(Pruning) \in Nat
    BY <1>1, <2>1, <2>3, PruningAfter
  <2>5. tables.logs <= MaxRows + Cardinality(Pruning) + Excused(used)
    BY DEF LogOK
  <2>6. disk'.logs <= MaxRows + Others + Excused(used')
    BY <1>1, <1>2, <2>1, <2>4, <2>5
  <2>7. Opens(Tail(s)) =>
          disk'.logs <= MaxRows + (IF Tail(s)[1].op = "rollback" THEN 0 ELSE Others) + Excused(used')
    BY <2>2, <2>6
  <2>8. tables'.logs = tables.logs /\ disk'.logs = disk.logs /\ Excused(used) <= Excused(used')
    BY <1>2, <2>1
  <2> QED BY <2>1, <2>3, <2>7, <2>8, LogStays
<1>6. CASE \/ BeginRefused(t) \/ NextAccountId(t) \/ FindAccount(t) \/ ChooseMembers(t)
           \/ CheckMember(t)
  <2>1. PICK r : Outside(t, r)
    BY <1>6, QuietDatabase
  <2>2. UNCHANGED <<tables, disk, used>>
    BY <1>6 DEF BeginRefused, NextAccountId, FindAccount, ChooseMembers, CheckMember, connection,
                progress
  <2>3. ~ Idle(t) /\ x.op # "prune"
    BY <1>6 DEF BeginRefused, NextAccountId, FindAccount, ChooseMembers, CheckMember, At, Step
  <2> QED BY <1>2, <1>3, <2>1, <2>2, <2>3, LogOutside
<1>7. CASE CommitTransaction(t) \/ RollbackTransaction(t)
  <2>1. /\ used' = used /\ ~ Idle(t) /\ Continue(t, Tail(s))
        /\ \/ x.op = "commit" /\ tables' = tables
           \/ x.op = "rollback" /\ tables' = disk
    BY <1>7 DEF CommitTransaction, RollbackTransaction, Commit, Rollback, progress, At, Step,
                Advance
  <2>2. \A u \in Thread : ~ Opens(script'[u])
    BY <1>7, Ended
  <2>3. ~ PrunesNow(s)
    BY <1>3, <2>1
  <2>4. /\ Cardinality(Pruning) \in Nat /\ Cardinality(Pruning') \in Nat
        /\ Cardinality(Pruning) <= Cardinality(Pruning')
    BY <1>1, <2>1, <2>3, PruningAfter
  <2>5. tables'.logs <= MaxRows + Cardinality(Pruning') + Excused(used')
    <3>1. CASE x.op = "commit" /\ tables' = tables
      <4>1. tables.logs <= MaxRows + Cardinality(Pruning) + Excused(used)
        BY DEF LogOK
      <4> QED BY <1>2, <2>1, <2>4, <3>1, <4>1
    <3>2. CASE x.op = "rollback" /\ tables' = disk
      <4>1. Opens(s) /\ s[1].op = "rollback"
        BY <1>1, <2>1, <3>2, NextStep DEF Opens, Inner, Idle
      <4>2. disk.logs <= MaxRows + 0 + Excused(used)
        BY <4>1 DEF LogOK
      <4> QED BY <1>2, <2>1, <2>4, <3>2, <4>2
    <3> QED BY <2>1, <3>1, <3>2
  <2> QED BY <2>2, <2>5 DEF LogOK
<1>8. CASE InsertAccount(t)
  <2>1. ~ Idle(t) /\ x.op = "insert" /\ Continue(t, Tail(s)) /\ used' = used
    BY <1>8 DEF InsertAccount, At, Step, Advance, progress
  <2>2. tables'.logs = tables.logs
    BY <1>8 DEF InsertAccount, Insert, Execute, connection, Shape, TypeOK, Tables
  <2>3. disk'.logs = disk.logs
    BY <1>1, <1>8, <2>2 DEF InsertAccount, Insert, Execute, InTransaction, connection
  <2>4. ~ Opens(Tail(s))
    BY <1>1, <2>1, NotOpening DEF Opening
  <2>5. ~ PrunesNow(s)
    BY <1>3, <2>1
  <2> QED BY <1>1, <1>2, <2>1, <2>2, <2>3, <2>4, <2>5, LogStays
<1>9. CASE LastInsertRowid(t)
  <2> DEFINE window == [op |-> "window", id |-> x.id, snapshot |-> lastRow]
             r == << window >> \o Tail(Tail(s))
  <2>1. ~ Idle(t) /\ x.op = "rowid" /\ Continue(t, r) /\ UNCHANGED <<tables, disk, used>>
    BY <1>9 DEF LastInsertRowid, At, Step, connection, progress
  <2>2. r # <<>> /\ r[1] = window
    BY <1>1, <2>1, RowidScript DEF Shape, TypeOK
  <2> HIDE DEF r
  <2>3. Opens(s) /\ s[1].op # "rollback" /\ r[1].op # "rollback"
    BY <1>1, <2>1, <2>2, NextStep DEF Opens, Inner, Opening, Idle
  <2>4. disk.logs <= MaxRows + Others + Excused(used)
    BY <2>3 DEF LogOK
  <2>5. ~ PrunesNow(s)
    BY <1>3, <2>1
  <2> QED BY <1>1, <1>2, <2>1, <2>3, <2>4, <2>5, LogStays
<1> QED
  BY <1>4, <1>5, <1>6, <1>7, <1>8, <1>9 DEF DatabaseStep

LEMMA LogFails ==
  ASSUME Shape, Shape', Transactions, LogOK, NEW t \in Thread, Fails(t)
  PROVE  LogOK'
<1> DEFINE s == script[t]
           r == IF owner = t THEN << Do("rollback", Step(t).id) >> ELSE <<>>
<1>1. /\ Continue(t, r) /\ UNCHANGED <<tables, disk>> /\ ~ Idle(t)
      /\ used'.faults = used.faults + 1 /\ used'.crashes = used.crashes
  BY DEF Fails, Fault, At, connection, Shape, TypeOK
<1>2. /\ tables.logs \in Nat /\ disk.logs \in Nat /\ MaxRows \in Nat /\ Others \in Nat \ {0}
      /\ Excused(used) \in Nat /\ Excused(used') = Excused(used) + Others
  BY <1>1, AccountStorageAssumption, ThreadsAre, ExcusedGrow DEF Shape, TypeOK, Tables
<1>3. /\ Cardinality(Pruning) \in Nat /\ Cardinality(Pruning') \in Nat
      /\ Cardinality(Pruning) <= Cardinality(Pruning') + 1
  BY <1>1, PruningAfter DEF Shape
<1>4. script'[t] = r /\ \A u \in Thread : u # t => script'[u] = script[u]
  BY <1>1 DEF Shape, ScriptsOK, Continue
<1>5. tables'.logs <= MaxRows + Cardinality(Pruning') + Excused(used')
  <2>1. tables.logs <= MaxRows + Cardinality(Pruning) + Excused(used)
    BY DEF LogOK
  <2> QED BY <1>1, <1>2, <1>3, <2>1
<1>6. ASSUME NEW u \in Thread, Opens(script[u]) PROVE disk'.logs <= MaxRows + Others + Excused(used)
  <2>1. disk.logs <= MaxRows + (IF script[u][1].op = "rollback" THEN 0 ELSE Others) + Excused(used)
    BY <1>6 DEF LogOK
  <2>2. CASE script[u][1].op = "rollback"
    BY <1>1, <1>2, <2>1, <2>2
  <2>3. CASE script[u][1].op # "rollback"
    BY <1>1, <2>1, <2>3
  <2> QED BY <2>2, <2>3
<1>7. ASSUME NEW u \in Thread, Opens(script'[u]) PROVE Opens(script[u])
  <2>1. CASE u # t
    BY <1>4, <1>7, <2>1
  <2>2. CASE u = t
    <3>1. owner = t
      BY <1>4, <1>7, <2>2 DEF Opens
    <3> QED BY <2>2, <3>1, InsideOpens DEF Transactions, Shape
  <2> QED BY <2>1, <2>2
<1>8. ASSUME NEW u \in Thread, Opens(script'[u])
      PROVE  disk'.logs <= MaxRows + (IF script'[u][1].op = "rollback" THEN 0 ELSE Others)
                             + Excused(used')
  <2>1. disk'.logs <= MaxRows + Others + Excused(used) /\ disk'.logs \in Nat
    BY <1>1, <1>2, <1>6, <1>7, <1>8
  <2>2. disk'.logs <= MaxRows + Excused(used')
    BY <1>2, <2>1
  <2>3. CASE script'[u][1].op = "rollback"
    BY <1>2, <2>1, <2>2, <2>3
  <2>4. CASE script'[u][1].op # "rollback"
    BY <1>2, <2>1, <2>2, <2>4
  <2> QED BY <2>3, <2>4
<1> QED BY <1>5, <1>8 DEF LogOK

LEMMA LogOther ==
  ASSUME Shape, Shape', Transactions, LogOK,
         \/ \E t \in Thread : Start(t) \/ StoreStep(t) \/ IgnoredFailure(t) \/ DirectoryStep(t)
         \/ Crash \/ Exit \/ Stop \/ Restart \/ Outage
  PROVE  LogOK'
<1>1. /\ ScriptsOK /\ Main \in Thread /\ (owner = Nobody => tables = disk)
      /\ owner \in Thread \cup {Nobody} /\ Nobody \notin Thread
  BY AccountStorageAssumption DEF Shape, Transactions, TypeOK
<1>2. /\ tables.logs \in Nat /\ disk.logs \in Nat /\ MaxRows \in Nat /\ Others \in Nat
      /\ Cardinality(Thread) \in Nat /\ Others <= Cardinality(Thread)
      /\ Excused(used) \in Nat /\ Excused(used') \in Nat
  <2>1. Cardinality(Thread) \in Nat /\ Others \in Nat /\ Others <= Cardinality(Thread)
    BY ThreadsAre DEF Others
  <2>2. Excused(used) \in Nat /\ Excused(used') \in Nat
    BY ExcusedGrow DEF Shape, TypeOK
  <2> QED BY <2>1, <2>2, AccountStorageAssumption DEF Shape, TypeOK, Tables
<1>3. used.faults \in Nat /\ used.crashes \in Nat /\ used.exits \in Nat /\ used.outages \in Nat
  BY DEF Shape, TypeOK
<1>4. ASSUME NEW t \in Thread, Start(t) \/ StoreStep(t) \/ IgnoredFailure(t) \/ DirectoryStep(t)
      PROVE  LogOK'
  <2>1. PICK r : Outside(t, r)
    BY <1>4, Quiet
  <2>2. UNCHANGED <<tables, disk>>
    BY <1>4, Quiet DEF connection
  <2>3. Excused(used) <= Excused(used')
    <3>1. CASE Start(t) \/ StoreStep(t) \/ DirectoryStep(t)
      <4>1. used' = used
        BY <3>1 DEF Start, StoreStep, Store, Unfile, Truncate, WriteSecret, Forget, Remove,
                    DirectoryStep, CreateHome, RemoveHome, ListAccounts, ListDirectories,
                    RemoveTree, SetDir, progress
      <4> QED BY <1>2, <4>1
    <3>2. CASE IgnoredFailure(t)
      <4>1. used'.faults = used.faults + 1 /\ used'.crashes = used.crashes
        BY <1>3, <3>2 DEF IgnoredFailure, FlushFails, UnfileFails, Fault, Shape, TypeOK
      <4> QED BY <1>2, <1>3, <4>1, ExcusedGrow
    <3> QED BY <1>4, <3>1, <3>2
  <2>4. ~ PrunesNow(script[t])
    <3>1. CASE Start(t)
      BY <3>1 DEF Start, Idle, PrunesNow
    <3>2. CASE StoreStep(t) \/ IgnoredFailure(t) \/ DirectoryStep(t)
      <4>1. ~ Idle(t) /\ Step(t).op # "prune"
        BY <3>2 DEF StoreStep, Store, Unfile, Truncate, WriteSecret, Forget, Remove,
                    IgnoredFailure, FlushFails, UnfileFails,
                    DirectoryStep, CreateHome, RemoveHome, ListAccounts, ListDirectories,
                    RemoveTree, At, Step
      <4> QED BY <1>1, <4>1, NextStep DEF PrunesNow
    <3> QED BY <1>4, <3>1, <3>2
  <2> QED BY <2>1, <2>2, <2>3, <2>4, LogOutside
<1>5. ASSUME \A t \in Thread : script'[t] = <<>>
      PROVE  Cardinality(Pruning') = 0 /\ \A t \in Thread : ~ Opens(script'[t])
  <2>1. Pruning' = {}
    BY <1>5 DEF Pruning, PrunesNow
  <2> QED BY <1>5, <2>1, FS_EmptySet DEF Opens
<1>6. Cardinality(Pruning) \in Nat /\ Cardinality(Pruning) <= Cardinality(Thread)
  <2>1. Pruning \subseteq Thread
    BY DEF Pruning
  <2> QED BY <2>1, ThreadsAre
<1>7. tables.logs <= MaxRows + Cardinality(Pruning) + Excused(used)
  BY DEF LogOK
<1>8. CASE Crash
  <2>1. /\ tables' = disk /\ used'.faults = used.faults /\ used'.crashes = used.crashes + 1
        /\ \A t \in Thread : script'[t] = <<>>
    BY <1>8 DEF Crash, Close, Shape, TypeOK
  <2>2. Excused(used') = Excused(used) + Cardinality(Thread)
    BY <1>3, <2>1, ExcusedGrow
  <2>3. disk.logs <= MaxRows + Cardinality(Thread) + Excused(used)
    <3>1. CASE owner = Nobody
      BY <1>1, <1>2, <1>6, <1>7, <3>1
    <3>2. CASE owner # Nobody
      <4>1. PICK u \in Thread : Opens(script[u])
        BY <1>1, <3>2, InsideOpens DEF Transactions
      <4>2. disk.logs <= MaxRows + (IF script[u][1].op = "rollback" THEN 0 ELSE Others)
                           + Excused(used)
        BY <4>1 DEF LogOK
      <4>3. disk.logs <= MaxRows + Others + Excused(used)
        BY <1>2, <4>2
      <4> QED BY <1>2, <4>3
    <3> QED BY <3>1, <3>2
  <2>4. tables'.logs <= MaxRows + Cardinality(Pruning') + Excused(used')
    BY <1>2, <1>5, <2>1, <2>2, <2>3
  <2> QED BY <1>5, <2>1, <2>4 DEF LogOK
<1>9. CASE Stop
  <2>1. tables' = disk /\ used' = used /\ \A t \in Thread : script'[t] = <<>> /\ script[t] = <<>>
    BY <1>9 DEF Stop, Close, Idle
  <2>2. owner = Nobody
    BY <1>1, <2>1 DEF Transactions, Inside, Idle
  <2>3. Pruning' = Pruning
    BY <2>1 DEF Pruning
  <2>4. tables'.logs <= MaxRows + Cardinality(Pruning') + Excused(used')
    BY <1>1, <1>7, <2>1, <2>2, <2>3
  <2> QED BY <1>5, <2>1, <2>4 DEF LogOK
<1>10. CASE Exit \/ Outage
  <2>1. /\ UNCHANGED <<tables, disk, script>>
        /\ used'.faults = used.faults /\ used'.crashes = used.crashes
    BY <1>3, <1>10 DEF Exit, Outage, connection, Shape, TypeOK
  <2>2. Excused(used') = Excused(used)
    BY <1>3, <2>1, ExcusedGrow
  <2> QED BY <2>1, <2>2 DEF LogOK, Pruning
<1>11. CASE Restart
  <2> DEFINE r == IF Get(LocalApi) = NoSecret THEN put(LocalApi, Fresh(LocalApi)) ELSE <<>>
  <2>1. UNCHANGED <<tables, disk, used>> /\ Continue(Main, r) /\ process = "down"
    BY <1>11 DEF Restart, Continue, connection
  <2>2. ~ Opens(r)
    BY DEF Opens, Inner, Opening, put
  <2> HIDE DEF r
  <2>3. ~ PrunesNow(script[Main])
    BY <1>1, <2>1 DEF Transactions, Idle, PrunesNow
  <2> QED BY <1>1, <1>2, <2>1, <2>2, <2>3, LogOutside DEF Outside
<1> QED BY <1>4, <1>8, <1>9, <1>10, <1>11

\* However the entries of several threads, the failures and the crashes come
\* together, the request log stays within its limit and what they excuse.
THEOREM LogStaysBounded == Spec => []LogBounded
<1>1. Init => LogOK
  <2> SUFFICES ASSUME Init PROVE LogOK
    OBVIOUS
  <2>1. /\ tables.logs = 0 /\ used.faults = 0 /\ used.crashes = 0
        /\ \A t \in Thread : script[t] = <<>>
    BY DEF Init, Open
  <2>2. Cardinality(Pruning) \in Nat
    <3>1. Pruning \subseteq Thread
      BY DEF Pruning
    <3> QED BY <3>1, ThreadsAre
  <2>3. Excused(used) \in Nat /\ MaxRows \in Nat
    BY <2>1, ExcusedGrow, AccountStorageAssumption
  <2> QED BY <2>1, <2>2, <2>3 DEF LogOK, Opens
<1>2. Shape /\ Transactions /\ LogOK /\ [Next]_vars /\ Shape' /\ Transactions' => LogOK'
  <2> SUFFICES ASSUME Shape, Transactions, LogOK, [Next]_vars, Shape', Transactions'
               PROVE  LogOK'
    OBVIOUS
  <2>1. CASE Next
    BY <2>1, LogDatabase, LogFails, LogOther DEF Next
  <2>2. CASE UNCHANGED vars
    BY <2>2 DEF vars, connection, progress, LogOK, Pruning
  <2> QED BY <2>1, <2>2
<1>3. Shape /\ LogOK => LogBounded
  <2> SUFFICES ASSUME Shape, LogOK PROVE LogBounded
    OBVIOUS
  <2> DEFINE recording == {t \in Thread : \E s \in StepsOf(t) : s.op = "prune"}
  <2>1. Pruning \subseteq recording
    <3>1. ASSUME NEW t \in Pruning PROVE t \in recording
      <4>1. t \in Thread /\ script[t] \in Seq(AnyStep) /\ script[t] # <<>> /\ script[t][1].op = "prune"
        BY <3>1 DEF Pruning, PrunesNow, Shape, ScriptsOK
      <4>2. 1 \in DOMAIN script[t]
        BY <4>1, TailOf, LenProperties
      <4> QED BY <4>1, <4>2 DEF StepsOf
    <3> QED BY <3>1
  <2>2. recording \subseteq Thread
    OBVIOUS
  <2> HIDE DEF recording
  <2>3. /\ Cardinality(Pruning) \in Nat /\ Cardinality(recording) \in Nat
        /\ Cardinality(Pruning) <= Cardinality(recording)
    BY <2>1, <2>2, ThreadsAre, FS_Subset
  <2>4. /\ Excused(used) \in Nat /\ tables.logs \in Nat /\ MaxRows \in Nat
        /\ (Cardinality(Thread) - 1) * used.faults \in Nat
        /\ Cardinality(Thread) * used.crashes \in Nat
    <3>1. used.faults \in Nat /\ used.crashes \in Nat
      BY DEF Shape, TypeOK
    <3>2. Cardinality(Thread) - 1 \in Nat /\ Cardinality(Thread) \in Nat
      BY ThreadsAre DEF Others
    <3>3. \A m, n \in Nat : m * n \in Nat
      OBVIOUS
    <3>4. Excused(used) \in Nat
      BY <3>1, ExcusedGrow
    <3>5. tables.logs \in Nat /\ MaxRows \in Nat
      BY AccountStorageAssumption DEF Shape, TypeOK, Tables
    <3> QED BY <3>1, <3>2, <3>3, <3>4, <3>5
  <2>5. tables.logs <= MaxRows + Cardinality(Pruning) + Excused(used)
    BY DEF LogOK
  <2>6. Excused(used) = (Cardinality(Thread) - 1) * used.faults + Cardinality(Thread) * used.crashes
    BY DEF Excused, Others
  <2> DEFINE f == (Cardinality(Thread) - 1) * used.faults
             c == Cardinality(Thread) * used.crashes
  <2>7. f \in Nat /\ c \in Nat /\ Excused(used) = f + c
    BY <2>4, <2>6
  <2> HIDE DEF f, c
  <2>8. tables.logs <= MaxRows + Cardinality(recording) + f + c
    BY <2>3, <2>4, <2>5, <2>7
  <2> QED BY <2>8 DEF LogBounded, recording, f, c
<1> QED BY <1>1, <1>2, <1>3, TransactionInvariance, PTL DEF Spec

-----------------------------------------------------------------------------
(* What an operation works on.                                             *)

\* The steps of a put or an erase after its first.
Finishing == {"unfile", "truncate", "write", "remove"}

\* A thread goes on with r: steps that it had, or steps on what it was working on.
Goes(t, r) ==
  /\ Continue(t, r)
  /\ \A i \in 1 .. Len(r) :
       \/ r[i] \in StepsOf(t)
       \/ r[i].op \in {"removeTree", "scan"}
       \/ r[i].id = Step(t).id /\ Step(t).op # "removeTree"
  /\ Step(t).op \notin {"store", "truncate", "forget"} => r = <<>> \/ r[1].op \notin Finishing

LEMMA StepIn ==
  ASSUME ScriptsOK, NEW t \in Thread
  PROVE  /\ DOMAIN script[t] = 1 .. Len(script[t])
         /\ ~ Idle(t) => Step(t) \in StepsOf(t)
         /\ ~ Idle(t) => \A i \in 1 .. Len(Tail(script[t])) : Tail(script[t])[i] \in StepsOf(t)
<1>1. script[t] \in Seq(AnyStep) /\ DOMAIN script[t] = 1 .. Len(script[t])
  BY LenProperties DEF ScriptsOK
<1>2. ASSUME ~ Idle(t)
      PROVE  /\ Step(t) \in StepsOf(t)
             /\ \A i \in 1 .. Len(Tail(script[t])) : Tail(script[t])[i] \in StepsOf(t)
  <2> DEFINE s == script[t]
             r == Tail(s)
  <2>1. s \in Seq(AnyStep) /\ s # <<>> /\ Step(t) = s[1]
    BY <1>1, <1>2, NextStep DEF Idle
  <2>2. /\ Len(r) = Len(s) - 1 /\ Len(s) \in Nat \ {0}
        /\ \A j \in 1 .. Len(s) - 1 : r[j] = s[j + 1]
    BY <2>1, TailOf
  <2> HIDE DEF r
  <2>3. ASSUME NEW i \in 1 .. Len(r) PROVE r[i] \in StepsOf(t)
    <3>1. i \in 1 .. Len(s) - 1 /\ i + 1 \in 1 .. Len(s)
      BY <2>2
    <3>2. r[i] = s[i + 1] /\ i + 1 \in DOMAIN s
      BY <1>1, <2>2, <3>1
    <3> QED BY <3>2 DEF StepsOf
  <2>4. 1 \in DOMAIN s
    BY <1>1, <2>2
  <2>5. Step(t) \in StepsOf(t)
    BY <2>1, <2>4 DEF StepsOf
  <2> QED BY <2>3, <2>5 DEF r
<1> QED BY <1>1, <1>2

\* What goes on by itself.
LEMMA AdvanceGoes ==
  ASSUME ScriptsOK, NEW t \in Thread, ~ Idle(t), Advance(t)
  PROVE  Goes(t, Tail(script[t]))
<1>1. \A i \in 1 .. Len(Tail(script[t])) : Tail(script[t])[i] \in StepsOf(t)
  BY StepIn
<1>2. ASSUME Step(t).op \notin {"truncate", "forget"}, Tail(script[t]) # <<>>
      PROVE  Tail(script[t])[1].op \notin Finishing
  BY <1>2, NextStep DEF Adjacent, Finishing
<1> QED BY <1>1, <1>2 DEF Goes, Advance

LEMMA EndGoes ==
  ASSUME NEW t \in Thread, Continue(t, <<>>)
  PROVE  Goes(t, <<>>)
BY DEF Goes

LEMMA OneStepGoes ==
  ASSUME NEW t \in Thread, NEW y, Continue(t, << y >>),
         (y.id = Step(t).id /\ Step(t).op # "removeTree") \/ y.op = "scan", y.op \notin Finishing
  PROVE  Goes(t, << y >>)
BY DEF Goes

LEMMA ThreadGoes ==
  ASSUME Shape, NEW t \in Thread,
         \/ DatabaseStep(t) \/ StoreStep(t) \/ DirectoryStep(t) \/ Fails(t) \/ IgnoredFailure(t)
  PROVE  ~ Idle(t) /\ \E r : Goes(t, r)
<1> DEFINE x == Step(t)
           s == script[t]
<1>1. ScriptsOK
  BY DEF Shape
<1>2. ASSUME ~ Idle(t), Advance(t) PROVE ~ Idle(t) /\ \E r : Goes(t, r)
  BY <1>1, <1>2, AdvanceGoes
<1>3. CASE \/ UpdateAccount(t) \/ DeleteMemberships(t) \/ ClearManual(t) \/ DeleteWindows(t)
           \/ DeleteSnapshots(t) \/ DeleteRow(t) \/ UpsertGroup(t) \/ DeleteMembers(t)
           \/ PruneLogs(t) \/ ClearLogs(t) \/ InsertSnapshot(t) \/ InsertWindow(t)
           \/ InsertMember(t) \/ InsertLog(t)
  BY <1>2, <1>3, Statement
<1>4. CASE Begin(t) \/ CommitTransaction(t) \/ RollbackTransaction(t) \/ InsertAccount(t)
  BY <1>2, <1>4 DEF Begin, CommitTransaction, RollbackTransaction, InsertAccount, At
<1>5. CASE BeginRefused(t) \/ NextAccountId(t)
  <2>1. /\ ~ Idle(t) /\ x.op # "removeTree"
        /\ Continue(t, <<>>) \/ Continue(t, << Do("insert", x.id) >>)
    BY <1>5 DEF BeginRefused, NextAccountId, At, Step
  <2>2. Do("insert", x.id).id = x.id /\ Do("insert", x.id).op \notin Finishing
    BY DEF Do, Finishing
  <2> QED BY <2>1, <2>2, EndGoes, OneStepGoes
<1>6. CASE FindAccount(t)
  <2> DEFINE row == tables.accounts[x.id]
             r == IF row = NoRow THEN <<>> ELSE Rest(x.for, x.id, row)
  <2>1. Continue(t, r) /\ ~ Idle(t) /\ x.op = "find" /\ (r = <<>> \/ OnlyAbout(r, x.id))
    BY <1>6, FoundScript
  <2> HIDE DEF r
  <2>2. OnlyAbout(r, x.id) => Goes(t, r)
    BY <2>1 DEF OnlyAbout, Goes, Starts, Finishing
  <2> QED BY <2>1, <2>2, EndGoes
<1>7. CASE LastInsertRowid(t)
  <2> DEFINE window == [op |-> "window", id |-> x.id, snapshot |-> lastRow]
             r == << window >> \o Tail(Tail(s))
  <2>1. ~ Idle(t) /\ x.op = "rowid" /\ Continue(t, r)
    BY <1>7 DEF LastInsertRowid, At, Step
  <2>2. r # <<>> /\ r[1] = window /\ \A i \in 1 .. Len(r) : r[i] = window \/ r[i] \in StepsOf(t)
    BY <1>1, <2>1, RowidScript DEF Shape, TypeOK
  <2> HIDE DEF r
  <2>3. Goes(t, r)
    BY <2>1, <2>2 DEF Goes, Finishing
  <2> QED BY <2>1, <2>3
<1>8. CASE ChooseMembers(t) \/ CheckMember(t)
  <2>1. ~ Idle(t) /\ (Continue(t, <<>>) \/ Advance(t))
    BY <1>8 DEF ChooseMembers, CheckMember, At, Advance
  <2> QED BY <1>2, <2>1, EndGoes
<1>9. CASE Store(t)
  <2> DEFINE r == Filing(x) \o Tail(s)
  <2>1. ~ Idle(t) /\ x.op = "store" /\ Continue(t, r)
    BY <1>9 DEF Store, At, Step, Filing
  <2>2. \A i \in 1 .. Len(r) : r[i].id = x.id \/ r[i] \in StepsOf(t)
    BY <1>1, <2>1, StoreScript
  <2> HIDE DEF r
  <2> QED BY <2>1, <2>2 DEF Goes
<1>10. CASE \/ Unfile(t) \/ Truncate(t) \/ WriteSecret(t) \/ Forget(t) \/ Remove(t)
            \/ CreateHome(t) \/ RemoveHome(t) \/ RemoveTree(t) \/ IgnoredFailure(t)
  BY <1>2, <1>10 DEF Unfile, Truncate, WriteSecret, Forget, Remove, IgnoredFailure, FlushFails,
                     UnfileFails, CreateHome,
                     RemoveHome, RemoveTree, SetDir, At
<1>11. CASE ListAccounts(t)
  <2> DEFINE y == [op |-> "scan", id |-> NoOne, known |-> {a \in AccountId : tables.accounts[a] # NoRow}]
  <2>1. ~ Idle(t) /\ Continue(t, << y >>)
    BY <1>11 DEF ListAccounts, At
  <2>2. y.op = "scan" /\ y.op \notin Finishing
    BY DEF Finishing
  <2> QED BY <2>1, <2>2, OneStepGoes
<1>12. CASE ListDirectories(t)
  <2>1. PICK r : Continue(t, r) /\ CleanUp(t, r)
    BY <1>12, ScanScript
  <2>2. Goes(t, r) /\ ~ Idle(t)
    BY <1>12, <2>1 DEF CleanUp, Goes, Finishing, ListDirectories, At
  <2> QED BY <2>2
<1>13. CASE Fails(t)
  <2>1. /\ ~ Idle(t) /\ x.op # "removeTree"
        /\ Continue(t, <<>>) \/ Continue(t, << Do("rollback", x.id) >>)
    BY <1>13 DEF Fails, At, Step, Fallible
  <2>2. Do("rollback", x.id).id = x.id /\ Do("rollback", x.id).op \notin Finishing
    BY DEF Do, Finishing
  <2> QED BY <2>1, <2>2, EndGoes, OneStepGoes
<1> QED
  BY <1>3, <1>4, <1>5, <1>6, <1>7, <1>8, <1>9, <1>10, <1>11, <1>12, <1>13
  DEF DatabaseStep, StoreStep, DirectoryStep

-----------------------------------------------------------------------------
(* Operations on the same account.                                         *)

\* What a thread is working on; removing the directory of an orphan is no
\* operation on an account.
Works(t) == {s.id : s \in {y \in StepsOf(t) : y.op # "removeTree"}}

\* What two threads are working on is remembered.
Alone ==
  \A t, u \in Thread : \A ref \in Ref :
    t # u /\ ref \in Works(t) /\ ref \in Works(u) => ref \in past.crossed

\* Going on, a thread works on nothing that it did not work on.
LEMMA WorksAfter ==
  ASSUME ScriptsOK, ScriptsOK', NEW t \in Thread, ~ Idle(t), NEW r, Goes(t, r)
  PROVE  /\ \A ref \in Ref : ref \in Works(t)' => ref \in Works(t)
         /\ \A u \in Thread \ {t} : Works(u)' = Works(u) /\ script'[u] = script[u]
         /\ script'[t] = r
<1>1. script'[t] = r /\ \A u \in Thread : u # t => script'[u] = script[u]
  BY DEF ScriptsOK, Continue, Goes
<1>2. ASSUME NEW ref \in Ref, ref \in Works(t)' PROVE ref \in Works(t)
  <2>1. PICK i \in 1 .. Len(r) : r[i].op # "removeTree" /\ r[i].id = ref
    BY <1>1, <1>2, LenProperties DEF Works, StepsOf, ScriptsOK
  <2>2. r[i] \in AnyStep
    BY <1>1, <2>1, ElementOfSeq DEF ScriptsOK
  <2>3. CASE r[i] \in StepsOf(t)
    BY <2>1, <2>3 DEF Works
  <2>4. CASE r[i].op = "scan"
    <3>1. r[i].id = NoOne
      BY <2>2, <2>4 DEF AnyStep
    <3>2. NoOne \notin Ref
      BY AccountStorageAssumption DEF NoOne, LocalApi
    <3> QED BY <2>1, <3>1, <3>2
  <2>5. CASE r[i].id = Step(t).id /\ Step(t).op # "removeTree"
    BY <2>1, <2>5, StepIn DEF Works
  <2> QED BY <2>1, <2>3, <2>4, <2>5 DEF Goes
<1>3. \A u \in Thread \ {t} : Works(u)' = Works(u)
  BY <1>1 DEF Works, StepsOf
<1> QED BY <1>1, <1>2, <1>3

\* Nothing that is remembered of the accounts is forgotten.
Remembers ==
  /\ past.crossed \subseteq past'.crossed /\ past.adrift \subseteq past'.adrift
  /\ past.mingled \subseteq past'.mingled /\ past.undone \subseteq past'.undone

LEMMA ThreadRemembers ==
  ASSUME Shape, NEW t \in Thread,
         \/ DatabaseStep(t) \/ StoreStep(t) \/ DirectoryStep(t) \/ Fails(t) \/ IgnoredFailure(t)
  PROVE  Remembers /\ past'.crossed = past.crossed /\ past.late \subseteq past'.late
<1> USE DEF Remembers
<1>1. past' = past
        => Remembers /\ past'.crossed = past.crossed /\ past.late \subseteq past'.late
  OBVIOUS
<1>2. CASE \/ UpdateAccount(t) \/ DeleteMemberships(t) \/ ClearManual(t) \/ DeleteWindows(t)
           \/ DeleteSnapshots(t) \/ DeleteRow(t) \/ UpsertGroup(t) \/ DeleteMembers(t)
           \/ PruneLogs(t) \/ ClearLogs(t) \/ InsertSnapshot(t) \/ InsertWindow(t)
           \/ InsertMember(t) \/ InsertLog(t)
  BY <1>1, <1>2, Statement
<1>3. CASE \/ Begin(t) \/ BeginRefused(t) \/ NextAccountId(t) \/ ChooseMembers(t) \/ CheckMember(t)
           \/ CreateHome(t) \/ RemoveHome(t) \/ ListDirectories(t) \/ RemoveTree(t) \/ Fails(t)
  BY <1>1, <1>3 DEF Begin, BeginRefused, NextAccountId, ChooseMembers, CheckMember, CreateHome,
                    RemoveHome, ListDirectories, RemoveTree, SetDir, Fails
<1>4. past = [crossed |-> past.crossed, missed |-> past.missed, adrift |-> past.adrift,
              late |-> past.late, mingled |-> past.mingled, undone |-> past.undone,
              possible |-> past.possible, saved |-> past.saved]
  BY DEF Shape, TypeOK
<1>5. CASE CommitTransaction(t)
  BY <1>4, <1>5 DEF CommitTransaction
<1>6. CASE RollbackTransaction(t)
  <2>1. \E D, E : past' = [past EXCEPT !.late = @ \cup D, !.undone = @ \cup E]
    BY <1>6 DEF RollbackTransaction
  <2> QED BY <1>4, <2>1
<1>7. CASE InsertAccount(t)
  <2>1. past' = past \/ \E D : past' = [past EXCEPT !.late = @ \cup D]
    BY <1>7 DEF InsertAccount
  <2> QED BY <1>1, <1>4, <2>1
<1>8. CASE FindAccount(t)
  <2>1. past' = past \/ \E D : past' = [past EXCEPT !.adrift = @ \cup D]
    <3> DEFINE a == Step(t).id
               row == tables.accounts[a]
               found == Step(t).for = "remove" /\ row = "unkeyed" /\ {service[a], files[a]} # {NoSecret}
    <3>1. past' = [past EXCEPT !.adrift = IF found THEN @ \cup {a} ELSE @]
      BY <1>8 DEF FindAccount
    <3> HIDE DEF found
    <3>2. CASE found
      BY <3>1, <3>2
    <3>3. CASE ~ found
      BY <1>4, <3>1, <3>3
    <3> QED BY <3>2, <3>3
  <2> QED BY <1>1, <1>4, <2>1
<1>9. CASE LastInsertRowid(t)
  <2>1. past' = past \/ \E D : past' = [past EXCEPT !.mingled = @ \cup D]
    <3> DEFINE found == [id |-> lastRow, account |-> Step(t).id] \in tables.snapshots
    <3>1. past' = [past EXCEPT !.mingled = IF found THEN @ ELSE @ \cup {Step(t).id}]
      BY <1>9 DEF LastInsertRowid
    <3> HIDE DEF found
    <3>2. CASE ~ found
      BY <3>1, <3>2
    <3>3. CASE found
      BY <1>4, <3>1, <3>3
    <3> QED BY <3>2, <3>3
  <2> QED BY <1>1, <1>4, <2>1
<1>10. CASE \/ Store(t) \/ Unfile(t) \/ Truncate(t) \/ WriteSecret(t) \/ Forget(t) \/ Remove(t)
           \/ IgnoredFailure(t)
  BY <1>10 DEF Store, Unfile, Truncate, WriteSecret, Forget, Remove, IgnoredFailure, FlushFails,
               UnfileFails, Shape, TypeOK
<1>11. CASE ListAccounts(t)
  BY <1>11 DEF ListAccounts, Shape, TypeOK
<1> QED
  BY <1>2, <1>3, <1>5, <1>10, <1>11, <1>6, <1>7, <1>8, <1>9 DEF DatabaseStep, StoreStep,
                                                                DirectoryStep

LEMMA OtherRemembers ==
  ASSUME Shape, (\E t \in Thread : Start(t)) \/ Crash \/ Exit \/ Stop \/ Restart \/ Outage
  PROVE  Remembers
<1>1. CASE \E t \in Thread : Start(t)
  <2>1. \E C, L : past' = [past EXCEPT !.crossed = @ \cup C, !.late = L]
    BY <1>1 DEF Start
  <2>2. PICK C, L : past' = [past EXCEPT !.crossed = @ \cup C, !.late = L]
    BY <2>1
  <2>3. past = [past EXCEPT !.adrift = past.adrift] /\ past.crossed \in SUBSET Ref
    BY DEF Shape, TypeOK
  <2>4. /\ past'.crossed = past.crossed \cup C /\ past'.adrift = past.adrift
        /\ past'.mingled = past.mingled /\ past'.undone = past.undone
    BY <2>2 DEF Shape, TypeOK
  <2> QED BY <2>4 DEF Remembers
<1>2. CASE Crash
  BY <1>2 DEF Crash, Shape, TypeOK, Remembers
<1>3. CASE Exit \/ Stop \/ Restart \/ Outage
  BY <1>3 DEF Exit, Stop, Restart, Outage, Remembers
<1> QED BY <1>1, <1>2, <1>3

\* What an operation that begins works on.
LEMMA StartWorks ==
  ASSUME Shape, Shape', NEW t \in Thread, Start(t)
  PROVE  /\ \A u \in Thread \ {t} : script'[u] = script[u] /\ Works(u)' = Works(u)
         /\ \A u \in Thread \ {t} : \A ref \in Ref :
              ref \in Works(t)' /\ ref \in Works(u) => ref \in past'.crossed
<1>1. PICK job \in setup.jobs[t] :
        /\ Continue(t, Script(job))
        /\ past' = [past EXCEPT
             !.crossed = @ \cup (Ref \cap {Script(job)[i].id : i \in DOMAIN Script(job)}
                                      \cap UNION {About(u) : u \in Thread \ {t}}),
             !.late = {p \in @ : p[1] # t}]
  BY DEF Start
<1> DEFINE q == Script(job)
           ids == {q[i].id : i \in DOMAIN q}
<1> HIDE DEF q
<1>2. script'[t] = q /\ \A u \in Thread : u # t => script'[u] = script[u]
  BY <1>1 DEF Shape, ScriptsOK, Continue, q
<1>3. \A u \in Thread \ {t} : Works(u)' = Works(u)
  BY <1>2 DEF Works, StepsOf
<1>4. ASSUME NEW u \in Thread \ {t}, NEW ref \in Ref, ref \in Works(t)', ref \in Works(u)
      PROVE  ref \in past'.crossed
  <2>1. ref \in ids
    BY <1>2, <1>4 DEF Works, StepsOf
  <2>2. ref \in About(u)
    BY <1>4 DEF Works, About
  <2>3. past'.crossed = past.crossed \cup (Ref \cap ids \cap UNION {About(v) : v \in Thread \ {t}})
    BY <1>1 DEF Shape, TypeOK, q
  <2> QED BY <2>1, <2>2, <2>3
<1> QED BY <1>2, <1>3, <1>4

LEMMA AloneNext ==
  ASSUME Shape, Shape', Transactions, Alone, Next
  PROVE  Alone'
<1>1. ASSUME NEW t \in Thread,
             \/ DatabaseStep(t) \/ StoreStep(t) \/ DirectoryStep(t) \/ Fails(t) \/ IgnoredFailure(t)
      PROVE  Alone'
  <2>1. ~ Idle(t) /\ past'.crossed = past.crossed
    BY <1>1, ThreadGoes, ThreadRemembers
  <2>2. PICK r : Goes(t, r)
    BY <1>1, ThreadGoes
  <2>3. /\ \A ref \in Ref : ref \in Works(t)' => ref \in Works(t)
        /\ \A u \in Thread \ {t} : Works(u)' = Works(u)
    BY <2>1, <2>2, WorksAfter DEF Shape
  <2>4. ASSUME NEW u \in Thread, NEW v \in Thread, NEW ref \in Ref, u # v,
               ref \in Works(u)', ref \in Works(v)'
        PROVE  ref \in past'.crossed
    <3>1. ref \in Works(u) /\ ref \in Works(v)
      BY <2>3, <2>4
    <3> QED BY <2>1, <2>4, <3>1 DEF Alone
  <2> QED BY <2>4 DEF Alone
<1>2. ASSUME NEW t \in Thread, Start(t) PROVE Alone'
  <2>1. past.crossed \subseteq past'.crossed
    BY <1>2, OtherRemembers DEF Remembers
  <2>2. /\ \A u \in Thread \ {t} : script'[u] = script[u] /\ Works(u)' = Works(u)
        /\ \A u \in Thread \ {t} : \A ref \in Ref :
              ref \in Works(t)' /\ ref \in Works(u) => ref \in past'.crossed
    BY <1>2, StartWorks
  <2>3. ASSUME NEW u \in Thread, NEW v \in Thread, NEW ref \in Ref, u # v,
               ref \in Works(u)', ref \in Works(v)'
        PROVE  ref \in past'.crossed
    <3>1. CASE u = t
      BY <2>2, <2>3, <3>1
    <3>2. CASE v = t
      BY <2>2, <2>3, <3>2
    <3>3. CASE u # t /\ v # t
      <4>1. ref \in Works(u) /\ ref \in Works(v)
        BY <2>2, <2>3, <3>3
      <4> QED BY <2>1, <2>3, <4>1 DEF Alone
    <3> QED BY <3>1, <3>2, <3>3
  <2> QED BY <2>3 DEF Alone
<1>3. ASSUME NEW u \in Thread, script'[u] = <<>> PROVE Works(u)' = {}
  BY <1>3 DEF Works, StepsOf
<1>4. CASE Crash \/ Stop
  BY <1>3, <1>4 DEF Crash, Stop, Idle, Alone
<1>5. CASE Exit \/ Outage
  BY <1>5 DEF Exit, Outage, Alone, Works, StepsOf
<1>6. CASE Restart
  <2>1. \A u \in Thread \ {Main} : script'[u] = <<>>
    BY <1>6, AccountStorageAssumption DEF Restart, Transactions, Idle, Shape, ScriptsOK
  <2> QED BY <1>3, <2>1 DEF Alone
<1> QED BY <1>1, <1>2, <1>4, <1>5, <1>6 DEF Next

LEMMA AloneInvariance == Spec => []Alone
<1>1. Init => Alone
  BY DEF Init, Alone, Works, StepsOf
<1>2. Shape /\ Transactions /\ Alone /\ [Next]_vars /\ Shape' /\ Transactions' => Alone'
  <2> SUFFICES ASSUME Shape, Transactions, Alone, [Next]_vars, Shape', Transactions'
               PROVE  Alone'
    OBVIOUS
  <2>1. CASE UNCHANGED vars
    BY <2>1 DEF vars, Alone, Works, StepsOf
  <2> QED BY <2>1, AloneNext
<1> QED BY <1>1, <1>2, TransactionInvariance, PTL DEF Spec

-----------------------------------------------------------------------------
(* Secrets.                                                                *)

\* What get finds when the Secret Service can be reached.
Kept(ref) == IF service[ref] # NoSecret THEN service[ref] ELSE files[ref]

\* An entry that was missed is still there; otherwise what is kept is possible.
SecretOK(ref) ==
  /\ files[ref] \in past.possible[ref] \cup {NoSecret}
  /\ ref \in past.missed => service[ref] # NoSecret
  /\ ref \notin past.missed => Kept(ref) \in past.possible[ref]

\* What a put or an erase has done before its next step x.
FinishOK(x) ==
  /\ x.op = "unfile" => service[x.id] = x.secret
  /\ x.op \in {"truncate", "write", "remove"} => service[x.id] = NoSecret \/ x.id \in past.missed
  /\ x.op = "write" => files[x.id] = Torn

SecretsOK ==
  \A ref \in Ref \ past.crossed :
    /\ SecretOK(ref)
    /\ \A t \in Thread :
         script[t] # <<>> /\ script[t][1].op \in Finishing /\ script[t][1].id = ref
           => FinishOK(script[t][1])

\* Nothing happens to the secrets.
LEMMA SecretsStay ==
  ASSUME Shape, SecretsOK, NEW t \in Thread, NEW r, Continue(t, r),
         r = <<>> \/ r[1].op \notin Finishing, UNCHANGED <<service, files>>,
         past'.possible = past.possible, past'.missed = past.missed,
         past.crossed \subseteq past'.crossed
  PROVE  SecretsOK'
<1>1. script'[t] = r /\ \A u \in Thread : u # t => script'[u] = script[u]
  BY DEF Shape, ScriptsOK, Continue
<1>2. ASSUME NEW ref \in Ref \ past'.crossed
      PROVE  /\ SecretOK(ref)'
             /\ \A u \in Thread :
                  script'[u] # <<>> /\ script'[u][1].op \in Finishing /\ script'[u][1].id = ref
                    => FinishOK(script[u][1])'
  <2>1. ref \in Ref \ past.crossed
    OBVIOUS
  <2>2. SecretOK(ref)'
    BY <2>1 DEF SecretsOK, SecretOK, Kept
  <2>3. ASSUME NEW u \in Thread, script'[u] # <<>>, script'[u][1].op \in Finishing,
               script'[u][1].id = ref
        PROVE  FinishOK(script[u][1])'
    <3>1. script'[u] = script[u]
      BY <1>1, <2>3
    <3>2. FinishOK(script[u][1])
      BY <2>1, <2>3, <3>1 DEF SecretsOK
    <3> QED BY <3>1, <3>2 DEF FinishOK
  <2> QED BY <2>2, <2>3
<1> QED BY <1>2 DEF SecretsOK

\* A thread changes the secret of one reference, which nobody else works on.
LEMMA SecretsChange ==
  ASSUME Shape, Alone, SecretsOK, NEW t \in Thread, ~ Idle(t), NEW ref \in Ref,
         Step(t).id = ref, Step(t).op # "removeTree",
         NEW r, Continue(t, r), past'.crossed = past.crossed,
         \A other \in Ref \ {ref} :
           /\ service'[other] = service[other] /\ files'[other] = files[other]
           /\ past'.possible[other] = past.possible[other]
           /\ other \in past'.missed <=> other \in past.missed,
         r # <<>> /\ r[1].op \in Finishing => r[1].id = ref,
         ref \notin past.crossed =>
           /\ SecretOK(ref)'
           /\ r # <<>> /\ r[1].op \in Finishing => FinishOK(r[1])'
  PROVE  SecretsOK'
<1>1. script'[t] = r /\ \A u \in Thread : u # t => script'[u] = script[u]
  BY DEF Shape, ScriptsOK, Continue
<1>2. ref \in Works(t)
  BY StepIn DEF Works, Shape
<1>3. ASSUME NEW other \in Ref \ past'.crossed
      PROVE  /\ SecretOK(other)'
             /\ \A u \in Thread :
                  script'[u] # <<>> /\ script'[u][1].op \in Finishing /\ script'[u][1].id = other
                    => FinishOK(script[u][1])'
  <2>1. other \in Ref \ past.crossed
    OBVIOUS
  <2>2. SecretOK(other)'
    <3>1. CASE other = ref
      BY <2>1, <3>1
    <3>2. CASE other # ref
      <4>1. SecretOK(other)
        BY <2>1 DEF SecretsOK
      <4> QED BY <3>2, <4>1 DEF SecretOK, Kept
    <3> QED BY <3>1, <3>2
  <2>3. ASSUME NEW u \in Thread, script'[u] # <<>>, script'[u][1].op \in Finishing,
               script'[u][1].id = other
        PROVE  FinishOK(script[u][1])'
    <3>1. CASE u = t
      <4>1. r # <<>> /\ r[1].op \in Finishing /\ other = ref
        BY <1>1, <2>3, <3>1
      <4>2. FinishOK(r[1])'
        BY <2>1, <4>1
      <4> QED BY <1>1, <3>1, <4>2 DEF FinishOK
    <3>2. CASE u # t
      <4>1. script'[u] = script[u] /\ ~ Idle(u)
        BY <1>1, <2>3, <3>2 DEF Idle
      <4>2. Step(u) = script[u][1] /\ Step(u) \in StepsOf(u)
        BY <4>1, NextStep, StepIn DEF Shape
      <4>3. Step(u).op # "removeTree"
        BY <2>3, <4>1, <4>2 DEF Finishing
      <4>4. other \in Works(u)
        BY <2>3, <4>1, <4>2, <4>3 DEF Works
      <4>5. other # ref
        BY <1>2, <2>1, <3>2, <4>4 DEF Alone
      <4>6. FinishOK(script[u][1])
        BY <2>1, <2>3, <4>1 DEF SecretsOK
      <4>7. script[u][1].id = other
        BY <2>3, <4>1
      <4> HIDE DEF Idle
      <4> QED BY <4>1, <4>5, <4>6, <4>7 DEF FinishOK
    <3> QED BY <3>1, <3>2
  <2> QED BY <2>2, <2>3
<1> QED BY <1>3 DEF SecretsOK

\* The type of what is known of a reference.
LEMMA SecretTypes ==
  ASSUME Shape
  PROVE  /\ \A ref \in Ref : /\ service[ref] \in Nat \cup {NoSecret}
                            /\ files[ref] \in Nat \cup {NoSecret, Torn}
         /\ service = [ref \in Ref |-> service[ref]] /\ files = [ref \in Ref |-> files[ref]]
         /\ past.possible = [ref \in Ref |-> past.possible[ref]]
         /\ past = [crossed |-> past.crossed, missed |-> past.missed, adrift |-> past.adrift,
                    late |-> past.late, mingled |-> past.mingled, undone |-> past.undone,
                    possible |-> past.possible, saved |-> past.saved]
BY DEF Shape, TypeOK, CredentialStoreTypeOK, Secret

\* The steps of put.
LEMMA PutSecrets ==
  ASSUME Shape, Alone, SecretsOK, NEW t \in Thread,
         Store(t) \/ Unfile(t) \/ Truncate(t) \/ WriteSecret(t) \/ IgnoredFailure(t)
  PROVE  SecretsOK'
<1>1. ~ Idle(t) /\ Step(t).op \in {"store", "unfile", "truncate", "write"}
  BY DEF Store, Unfile, Truncate, WriteSecret, IgnoredFailure, FlushFails, UnfileFails, At, Step
<1>2. PICK ref \in Ref : Step(t).id = ref
  BY <1>1, NextStep, StepType DEF Shape
<1>3. /\ ref \in Ref /\ Step(t).op # "removeTree"
      /\ Step(t).op # "truncate" => Step(t).secret \in Nat
  BY <1>1, NextStep, StepType DEF Shape, Secret
<1>4. past'.crossed = past.crossed
  BY ThreadRemembers DEF StoreStep
<1>5. /\ \A p \in Ref : /\ service[p] \in Nat \cup {NoSecret} /\ files[p] \in Nat \cup {NoSecret, Torn}
      /\ service = [p \in Ref |-> service[p]] /\ files = [p \in Ref |-> files[p]]
      /\ past.possible = [p \in Ref |-> past.possible[p]]
      /\ past = [crossed |-> past.crossed, missed |-> past.missed, adrift |-> past.adrift,
                 late |-> past.late, mingled |-> past.mingled, undone |-> past.undone,
                 possible |-> past.possible, saved |-> past.saved]
  BY SecretTypes
<1>6. ASSUME ref \notin past.crossed
      PROVE  /\ SecretOK(ref)
             /\ Step(t).op \in Finishing => FinishOK(Step(t))
  <2>1. script[t] # <<>> /\ Step(t) = script[t][1]
    BY <1>1, NextStep DEF Idle, Shape
  <2> QED BY <1>2, <1>6, <2>1 DEF SecretsOK
<1>7. CASE Store(t)
  <2> DEFINE secret == Step(t).secret
  <2>0. PICK r : r = Filing(Step(t)) \o Tail(script[t])
    OBVIOUS
  <2>1. /\ Continue(t, r) /\ Step(t).op = "store"
        /\ \/ reachable /\ service' = [service EXCEPT ![ref] = secret] /\ files' = files
           \/ ~ reachable /\ service' = service /\ files' = files
        /\ past' = [past EXCEPT !.missed = Missed(ref),
                                !.possible[ref] = @ \cup (IF reachable THEN {secret} ELSE {})]
    BY <1>2, <1>7, <2>0 DEF Store, At, Step, Filing, StoreInService, store
  <2>2. /\ reachable => r[1] = [op |-> "unfile", id |-> ref, secret |-> secret]
        /\ ~ reachable => r[1] = Do("truncate", ref)
    BY <1>1, <1>2, <2>0, <2>1, StoreScript DEF Shape
  <2>3. /\ past'.missed = Missed(ref)
        /\ past'.possible =
             [past.possible EXCEPT ![ref] = @ \cup (IF reachable THEN {secret} ELSE {})]
    BY <1>5, <2>1
  <2>4. \A other \in Ref \ {ref} :
          /\ service'[other] = service[other] /\ files'[other] = files[other]
          /\ past'.possible[other] = past.possible[other]
          /\ other \in past'.missed <=> other \in past.missed
    BY <1>5, <2>1, <2>3 DEF Missed
  <2>5. ASSUME ref \notin past.crossed PROVE SecretOK(ref)' /\ FinishOK(r[1])'
    <3>1. CASE reachable
      <4>1. service'[ref] = secret /\ files'[ref] = files[ref] /\ ref \notin past'.missed
            /\ past'.possible[ref] = past.possible[ref] \cup {secret}
        BY <1>2, <1>5, <2>1, <2>3, <3>1 DEF Missed
      <4>2. secret \in Nat /\ secret # NoSecret
        BY <1>3, <2>1 DEF NoSecret
      <4>3. SecretOK(ref)'
        BY <1>6, <2>5, <4>1, <4>2 DEF SecretOK, Kept
      <4>4. r[1].op = "unfile" /\ r[1].id = ref /\ r[1].secret = secret
        BY <2>2, <3>1
      <4> HIDE DEF secret
      <4> QED BY <4>1, <4>3, <4>4 DEF FinishOK
    <3>2. CASE ~ reachable
      <4>1. service'[ref] = service[ref] /\ files'[ref] = files[ref]
            /\ (ref \in past'.missed <=> service[ref] # NoSecret)
            /\ past'.possible[ref] = past.possible[ref]
        BY <1>2, <1>5, <2>1, <2>3, <3>2 DEF Missed
      <4>2. SecretOK(ref)'
        BY <1>6, <2>5, <4>1 DEF SecretOK, Kept
      <4>3. r[1].op = "truncate" /\ r[1].id = ref
        BY <2>2, <3>2 DEF Do
      <4> QED BY <4>1, <4>2, <4>3 DEF FinishOK
    <3> QED BY <3>1, <3>2
  <2>6. r[1].id = ref
    BY <2>2 DEF Do
  <2> QED BY <1>1, <1>2, <1>3, <1>4, <2>1, <2>4, <2>5, <2>6, SecretsChange
<1>8. CASE Unfile(t) \/ Truncate(t) \/ WriteSecret(t) \/ IgnoredFailure(t)
  <2>0. PICK r : r = Tail(script[t])
    OBVIOUS
  <2>1. PICK content : /\ files' = [files EXCEPT ![ref] = content] /\ service' = service
                       /\ \/ Unfile(t) /\ content = NoSecret
                          \/ Truncate(t) /\ content = Torn
                          \/ WriteSecret(t) /\ content = Step(t).secret
                          \/ IgnoredFailure(t) /\ content = files[ref]
    <3>1. CASE Unfile(t)
      BY <1>2, <3>1 DEF Unfile, RemoveFile, SetFile
    <3>2. CASE Truncate(t)
      BY <1>2, <3>2 DEF Truncate, TruncateFile, SetFile
    <3>3. CASE WriteSecret(t)
      BY <1>2, <3>3 DEF WriteSecret, WriteFile, SetFile
    <3>4. CASE IgnoredFailure(t)
      <4>1. [files EXCEPT ![ref] = files[ref]] = files
        BY <1>5
      <4> QED BY <3>4, <4>1 DEF IgnoredFailure, FlushFails, UnfileFails, store
    <3> QED BY <1>8, <3>1, <3>2, <3>3, <3>4
  <2>2. /\ Continue(t, r) /\ past'.missed = past.missed
        /\ Unfile(t) => Step(t).op = "unfile"
             /\ past'.possible = [past.possible EXCEPT ![ref] = {Step(t).secret}]
        /\ Truncate(t) => Step(t).op = "truncate"
             /\ past'.possible = [past.possible EXCEPT ![ref] = @ \cup {Torn}]
        /\ WriteSecret(t) => Step(t).op = "write"
             /\ past'.possible = [past.possible EXCEPT ![ref] = {Step(t).secret}]
        /\ IgnoredFailure(t) =>
             \/ Step(t).op = "write" /\ past'.possible = [past.possible EXCEPT ![ref] = {Torn}]
             \/ Step(t).op = "unfile"
                /\ past'.possible = [past.possible EXCEPT ![ref] = {Step(t).secret, files[ref]}]
    BY <1>2, <1>5, <1>8, <2>0 DEF Unfile, Truncate, WriteSecret, IgnoredFailure, FlushFails,
                                  UnfileFails, At, Step, Advance
  <2>3. \A other \in Ref \ {ref} :
          /\ service'[other] = service[other] /\ files'[other] = files[other]
          /\ past'.possible[other] = past.possible[other]
          /\ other \in past'.missed <=> other \in past.missed
    BY <1>5, <1>8, <2>1, <2>2
  <2>4. ASSUME r # <<>>, r[1].op \in Finishing
        PROVE  Truncate(t) /\ r[1].op = "write" /\ r[1].id = ref
    BY <1>1, <1>2, <1>8, <2>0, <2>2, <2>4, NextStep DEF Adjacent, Finishing, Shape
  <2>5. files'[ref] = content /\ service'[ref] = service[ref]
        /\ (ref \in past'.missed <=> ref \in past.missed)
    BY <1>5, <2>1, <2>2
  <2>6. ASSUME ref \notin past.crossed
        PROVE  SecretOK(ref)' /\ (r # <<>> /\ r[1].op \in Finishing => FinishOK(r[1])')
    <3>1. SecretOK(ref) /\ Step(t).op \in Finishing
      BY <1>6, <1>8, <2>2, <2>6 DEF Finishing
    <3>2. FinishOK(Step(t))
      BY <1>6, <2>6, <3>1
    <3>3. Torn # NoSecret
      BY DEF Torn, NoSecret
    <3>4. CASE Unfile(t) /\ content = NoSecret
      <4>1. service[ref] = Step(t).secret /\ past'.possible[ref] = {Step(t).secret}
        BY <1>2, <1>5, <2>2, <3>2, <3>4 DEF FinishOK
      <4>2. service[ref] # NoSecret
        BY <1>3, <2>2, <3>4, <4>1 DEF NoSecret
      <4>3. SecretOK(ref)'
        BY <2>5, <3>4, <4>1, <4>2 DEF SecretOK, Kept
      <4>4. ~ (r # <<>> /\ r[1].op \in Finishing)
        BY <2>2, <2>4, <3>4
      <4> QED BY <4>3, <4>4
    <3>5. CASE Truncate(t) /\ content = Torn
      <4>1. service[ref] = NoSecret \/ ref \in past.missed
        BY <1>2, <2>2, <3>2, <3>5 DEF FinishOK
      <4>2. past'.possible[ref] = past.possible[ref] \cup {Torn}
        BY <1>5, <2>2, <3>5
      <4>3. SecretOK(ref)'
        BY <2>5, <3>1, <3>5, <4>1, <4>2 DEF SecretOK, Kept
      <4>4. r # <<>> /\ r[1].op \in Finishing => FinishOK(r[1])'
        BY <2>4, <2>5, <3>5, <4>1 DEF FinishOK
      <4> QED BY <4>3, <4>4
    <3>6. CASE WriteSecret(t) /\ content = Step(t).secret
      <4>1. service[ref] = NoSecret \/ ref \in past.missed
        BY <1>2, <2>2, <3>2, <3>6 DEF FinishOK
      <4>2. past'.possible[ref] = {Step(t).secret}
        BY <1>5, <2>2, <3>6
      <4>3. SecretOK(ref)'
        BY <2>5, <3>1, <3>6, <4>1, <4>2 DEF SecretOK, Kept
      <4>4. ~ (r # <<>> /\ r[1].op \in Finishing)
        BY <2>2, <2>4, <3>6
      <4> QED BY <4>3, <4>4
    <3>7. CASE IgnoredFailure(t) /\ content = files[ref]
      <4>1. SecretOK(ref)'
        <5>1. CASE Step(t).op = "write"
          <6>1. (service[ref] = NoSecret \/ ref \in past.missed) /\ files[ref] = Torn
            BY <1>2, <3>2, <5>1 DEF FinishOK
          <6>2. past'.possible[ref] = {Torn}
            BY <1>5, <2>2, <3>7, <5>1
          <6> QED BY <2>5, <3>1, <3>7, <6>1, <6>2 DEF SecretOK, Kept
        <5>2. CASE Step(t).op = "unfile"
          <6>1. service[ref] = Step(t).secret
            BY <1>2, <3>2, <5>2 DEF FinishOK
          <6>2. past'.possible[ref] = {Step(t).secret, files[ref]}
            BY <1>5, <2>2, <3>7, <5>2
          <6>3. service[ref] # NoSecret
            BY <1>3, <5>2, <6>1 DEF NoSecret
          <6> QED BY <2>5, <3>7, <6>1, <6>2, <6>3 DEF SecretOK, Kept
        <5> QED BY <2>2, <3>7, <5>1, <5>2
      <4>2. ~ (r # <<>> /\ r[1].op \in Finishing)
        BY <2>2, <2>4, <3>7
      <4> QED BY <4>1, <4>2
    <3> QED BY <2>1, <3>4, <3>5, <3>6, <3>7
  <2> QED BY <1>1, <1>2, <1>3, <1>4, <2>2, <2>3, <2>4, <2>6, SecretsChange
<1> QED BY <1>7, <1>8

\* The steps of erase.
LEMMA EraseSecrets ==
  ASSUME Shape, Alone, SecretsOK, NEW t \in Thread, Forget(t) \/ Remove(t)
  PROVE  SecretsOK'
<1>1. ~ Idle(t) /\ Step(t).op \in {"forget", "remove"}
  BY DEF Forget, Remove, At, Step
<1>2. PICK ref \in Ref : Step(t).id = ref
  BY <1>1, NextStep, StepType DEF Shape
<1>3. Step(t).op # "removeTree"
  BY <1>1
<1>4. past'.crossed = past.crossed
  BY ThreadRemembers DEF StoreStep
<1>5. /\ \A p \in Ref : /\ service[p] \in Nat \cup {NoSecret} /\ files[p] \in Nat \cup {NoSecret, Torn}
      /\ service = [p \in Ref |-> service[p]] /\ files = [p \in Ref |-> files[p]]
      /\ past.possible = [p \in Ref |-> past.possible[p]]
      /\ past = [crossed |-> past.crossed, missed |-> past.missed, adrift |-> past.adrift,
                 late |-> past.late, mingled |-> past.mingled, undone |-> past.undone,
                 possible |-> past.possible, saved |-> past.saved]
  BY SecretTypes
<1>6. ASSUME ref \notin past.crossed
      PROVE  SecretOK(ref) /\ (Step(t).op \in Finishing => FinishOK(Step(t)))
  <2>1. script[t] # <<>> /\ Step(t) = script[t][1]
    BY <1>1, NextStep DEF Idle, Shape
  <2> QED BY <1>2, <1>6, <2>1 DEF SecretsOK
<1>7. PICK r : r = Tail(script[t])
  OBVIOUS
<1>8. Continue(t, r)
  BY <1>7 DEF Forget, Remove, Advance
<1>9. CASE Forget(t)
  <2>1. /\ files' = files
        /\ service' = IF reachable THEN [service EXCEPT ![ref] = NoSecret] ELSE service
        /\ past'.missed = Missed(ref)
        /\ past'.possible = [past.possible EXCEPT ![ref] = @ \cup {NoSecret}]
        /\ Step(t).op = "forget"
    BY <1>2, <1>5, <1>9 DEF Forget, EraseFromService, At, Step
  <2>2. r # <<>> /\ r[1] = Do("remove", ref)
    BY <1>1, <1>2, <1>7, <2>1, NextStep DEF Shape, Ends, Adjacent
  <2>3. \A other \in Ref \ {ref} :
          /\ service'[other] = service[other] /\ files'[other] = files[other]
          /\ past'.possible[other] = past.possible[other]
          /\ other \in past'.missed <=> other \in past.missed
    BY <1>5, <2>1 DEF Missed
  <2>4. past'.possible[ref] = past.possible[ref] \cup {NoSecret}
    BY <1>2, <1>5, <2>1
  <2>5. service'[ref] = NoSecret \/ ref \in past'.missed
    BY <1>2, <1>5, <2>1 DEF Missed
  <2>6. ref \in past'.missed => service'[ref] # NoSecret
    BY <1>2, <1>5, <2>1 DEF Missed
  <2>7. ASSUME ref \notin past.crossed
        PROVE  SecretOK(ref)' /\ (r # <<>> /\ r[1].op \in Finishing => FinishOK(r[1])')
    <3>1. SecretOK(ref)
      BY <1>6, <2>7
    <3>2. SecretOK(ref)'
      BY <2>1, <2>4, <2>5, <2>6, <3>1 DEF SecretOK, Kept
    <3>3. r[1].op = "remove" /\ r[1].id = ref
      BY <2>2 DEF Do
    <3>4. FinishOK(r[1])'
      BY <2>5, <3>3 DEF FinishOK
    <3> QED BY <3>2, <3>4
  <2>8. r[1].id = ref
    BY <2>2 DEF Do
  <2> QED BY <1>1, <1>2, <1>3, <1>4, <1>8, <2>3, <2>7, <2>8, SecretsChange
<1>10. CASE Remove(t)
  <2>1. /\ service' = service /\ files' = [files EXCEPT ![ref] = NoSecret]
        /\ past'.missed = past.missed
        /\ past'.possible = [past.possible EXCEPT ![ref] = {NoSecret}]
        /\ Step(t).op = "remove"
    BY <1>2, <1>5, <1>10 DEF Remove, RemoveFile, SetFile, At, Step
  <2>2. r # <<>> => r[1].op \notin Finishing
    BY <1>1, <1>7, <2>1, NextStep DEF Shape, Finishing, Adjacent
  <2>3. \A other \in Ref \ {ref} :
          /\ service'[other] = service[other] /\ files'[other] = files[other]
          /\ past'.possible[other] = past.possible[other]
          /\ other \in past'.missed <=> other \in past.missed
    BY <1>5, <2>1
  <2>4. past'.possible[ref] = {NoSecret} /\ files'[ref] = NoSecret /\ service'[ref] = service[ref]
    BY <1>2, <1>5, <2>1
  <2>5. ASSUME ref \notin past.crossed PROVE SecretOK(ref)'
    <3>1. SecretOK(ref) /\ FinishOK(Step(t))
      BY <1>6, <2>1, <2>5 DEF Finishing
    <3>2. service[ref] = NoSecret \/ ref \in past.missed
      BY <1>2, <2>1, <3>1 DEF FinishOK
    <3> QED BY <2>1, <2>4, <3>1, <3>2 DEF SecretOK, Kept
  <2> QED BY <1>1, <1>2, <1>3, <1>4, <1>8, <2>2, <2>3, <2>5, SecretsChange
<1> QED BY <1>9, <1>10

\* The script an operation begins with.
LEMMA StartScript ==
  ASSUME Shape, NEW t \in Thread, Start(t)
  PROVE  \E q :
           /\ Continue(t, q) /\ Sound(q) /\ q # <<>>
           /\ q[1].op \in First \cup {"store", "choose"}
           /\ \A i \in 1 .. Len(q) :
                \/ q[i].op \in First
                \/ q[i].op = "store" /\ q[i].id = LocalApi
                \/ q[1].op = "choose" /\ SaveStep(q[i], q[1].members)
<1>1. PICK job \in setup.jobs[t] : Continue(t, Script(job))
  BY DEF Start
<1>2. job \in Job
  <2>1. IsSetup(setup)
    BY AccountStorageAssumption DEF Shape, TypeOK
  <2> QED BY <2>1 DEF IsSetup
<1>3. LocalApi \in Ref
  BY AccountStorageAssumption
<1>4. Fresh(LocalApi) \in Nat
  BY <1>3, FreshSecret
<1> QED BY <1>1, <1>2, <1>4, ScriptSound

\* The steps of the database and of the directories change no secret.
SecretsUntouched ==
  UNCHANGED <<service, files>> /\ past'.possible = past.possible /\ past'.missed = past.missed

LEMMA DatabaseLeavesSecrets ==
  ASSUME Shape, NEW t \in Thread, DatabaseStep(t) \/ DirectoryStep(t)
  PROVE  SecretsUntouched /\ Step(t).op \notin {"store", "truncate", "forget"}
<1>0. past = [crossed |-> past.crossed, missed |-> past.missed, adrift |-> past.adrift,
              late |-> past.late, mingled |-> past.mingled, undone |-> past.undone,
              possible |-> past.possible, saved |-> past.saved]
  BY SecretTypes
<1> DEFINE ok == SecretsUntouched /\ Step(t).op \notin {"store", "truncate", "forget"}
<1>1. CASE \/ UpdateAccount(t) \/ DeleteMemberships(t) \/ ClearManual(t) \/ DeleteWindows(t)
           \/ DeleteSnapshots(t) \/ DeleteRow(t) \/ UpsertGroup(t) \/ DeleteMembers(t)
           \/ PruneLogs(t) \/ ClearLogs(t)
  BY <1>1 DEF UpdateAccount, DeleteMemberships, ClearManual, DeleteWindows, DeleteSnapshots,
              DeleteRow, UpsertGroup, DeleteMembers, PruneLogs, ClearLogs, Runs, At, Step,
              SecretsUntouched, store
<1>2. CASE InsertSnapshot(t) \/ InsertWindow(t) \/ InsertMember(t) \/ InsertLog(t)
  BY <1>2 DEF InsertSnapshot, InsertWindow, InsertMember, InsertLog, At, Step, SecretsUntouched,
              store
<1>3. CASE \/ Begin(t) \/ BeginRefused(t) \/ NextAccountId(t) \/ ChooseMembers(t) \/ CheckMember(t)
  BY <1>3 DEF Begin, BeginRefused, NextAccountId, ChooseMembers, CheckMember, At, Step,
              SecretsUntouched, store
<1>4. CASE \/ CreateHome(t) \/ RemoveHome(t) \/ ListDirectories(t) \/ RemoveTree(t)
  BY <1>4 DEF CreateHome, RemoveHome, ListDirectories, RemoveTree, SetDir, At, Step,
              SecretsUntouched, store
<1>5. CASE \/ CommitTransaction(t) \/ RollbackTransaction(t) \/ InsertAccount(t) \/ FindAccount(t)
           \/ LastInsertRowid(t) \/ ListAccounts(t)
  <2>1. /\ Step(t).op \in {"commit", "rollback", "insert", "find", "rowid", "list"}
        /\ UNCHANGED <<service, files>>
    BY <1>5 DEF CommitTransaction, RollbackTransaction, InsertAccount, FindAccount,
                LastInsertRowid, ListAccounts, At, Step, store
  <2>2. past'.possible = past.possible /\ past'.missed = past.missed
    <3>1. CASE CommitTransaction(t)
      BY <1>0, <3>1 DEF CommitTransaction
    <3>2. CASE RollbackTransaction(t)
      <4>1. \E D, E : past' = [past EXCEPT !.late = @ \cup D, !.undone = @ \cup E]
        BY <3>2 DEF RollbackTransaction
      <4> QED BY <1>0, <4>1
    <3>3. CASE InsertAccount(t)
      <4>1. past' = past \/ \E D : past' = [past EXCEPT !.late = @ \cup D]
        BY <3>3 DEF InsertAccount
      <4> QED BY <1>0, <4>1
    <3>4. CASE FindAccount(t)
      <4>1. \E D : past' = [past EXCEPT !.adrift = D]
        BY <3>4 DEF FindAccount
      <4> QED BY <1>0, <4>1
    <3>5. CASE LastInsertRowid(t)
      <4>1. \E D : past' = [past EXCEPT !.mingled = D]
        BY <3>5 DEF LastInsertRowid
      <4> QED BY <1>0, <4>1
    <3>6. CASE ListAccounts(t)
      <4>1. \E D : past' = [past EXCEPT !.late = D]
        BY <3>6 DEF ListAccounts
      <4> QED BY <1>0, <4>1
    <3> QED BY <1>5, <3>1, <3>2, <3>3, <3>4, <3>5, <3>6
  <2> QED BY <2>1, <2>2 DEF SecretsUntouched
<1> QED BY <1>1, <1>2, <1>3, <1>4, <1>5 DEF DatabaseStep, DirectoryStep

LEMMA SecretsNext ==
  ASSUME Shape, Shape', Transactions, Alone, SecretsOK, Next
  PROVE  SecretsOK'
<1>1. ASSUME NEW t \in Thread, DatabaseStep(t) \/ DirectoryStep(t) PROVE SecretsOK'
  <2>1. SecretsUntouched /\ Step(t).op \notin {"store", "truncate", "forget"}
    BY <1>1, DatabaseLeavesSecrets
  <2>2. PICK r : Goes(t, r)
    BY <1>1, ThreadGoes
  <2>3. past'.crossed = past.crossed
    BY <1>1, ThreadRemembers
  <2>4. Continue(t, r) /\ (r = <<>> \/ r[1].op \notin Finishing)
    BY <2>1, <2>2 DEF Goes
  <2> QED BY <2>1, <2>3, <2>4, SecretsStay DEF SecretsUntouched
<1>2. ASSUME NEW t \in Thread, StoreStep(t) \/ IgnoredFailure(t) PROVE SecretsOK'
  BY <1>2, PutSecrets, EraseSecrets DEF StoreStep
<1>3. ASSUME NEW t \in Thread, Fails(t) PROVE SecretsOK'
  <2>1. PICK r : Continue(t, r) /\ (r = <<>> \/ r = << Do("rollback", Step(t).id) >>)
    BY <1>3 DEF Fails
  <2>2. << Do("rollback", Step(t).id) >>[1].op \notin Finishing
    BY DEF Do, Finishing
  <2>3. r = <<>> \/ r[1].op \notin Finishing
    BY <2>1, <2>2
  <2>4. UNCHANGED <<service, files, past>>
    BY <1>3 DEF Fails, store
  <2> QED BY <2>1, <2>3, <2>4, SecretsStay
<1>4. ASSUME NEW t \in Thread, Start(t) PROVE SecretsOK'
  <2>1. PICK q : Continue(t, q) /\ q[1].op \in First \cup {"store", "choose"}
    BY <1>4, StartScript
  <2>2. q[1].op \notin Finishing
    BY <2>1 DEF First, Finishing
  <2>3. past.crossed \subseteq past'.crossed
    BY <1>4, OtherRemembers DEF Remembers
  <2>4. /\ UNCHANGED <<service, files>>
        /\ past'.possible = past.possible /\ past'.missed = past.missed
    BY <1>4 DEF Start, store, Shape, TypeOK
  <2> QED BY <2>1, <2>2, <2>3, <2>4, SecretsStay
<1>5. ASSUME \A t \in Thread : script'[t] = <<>>, SecretsUntouched, past.crossed \subseteq past'.crossed
      PROVE  SecretsOK'
  BY <1>5 DEF SecretsUntouched, SecretsOK, SecretOK, Kept
<1>6. CASE Crash
  <2>1. past.crossed \subseteq past'.crossed
    BY <1>6, OtherRemembers DEF Remembers
  <2>2. SecretsUntouched /\ \A t \in Thread : script'[t] = <<>>
    BY <1>6 DEF Crash, SecretsUntouched, store, Shape, TypeOK
  <2> QED BY <1>5, <2>1, <2>2
<1>7. CASE Stop
  BY <1>5, <1>7 DEF Stop, SecretsUntouched, store, Idle
<1>8. CASE Exit \/ Outage
  <2>1. UNCHANGED <<script, service, files, past>>
    BY <1>8 DEF Exit, Outage, Toggle, store
  <2> QED BY <2>1 DEF SecretsOK, SecretOK, Kept, FinishOK
<1>9. CASE Restart
  <2>1. PICK r : Continue(Main, r) /\ (r = <<>> \/ r = put(LocalApi, Fresh(LocalApi)))
    BY <1>9 DEF Restart, Continue
  <2>2. put(LocalApi, Fresh(LocalApi))[1].op = "store"
    BY DEF put
  <2>3. r = <<>> \/ r[1].op \notin Finishing
    BY <2>1, <2>2 DEF Finishing
  <2>4. UNCHANGED <<service, files, past>> /\ Main \in Thread
    BY <1>9, AccountStorageAssumption DEF Restart, store
  <2> QED BY <2>1, <2>3, <2>4, SecretsStay
<1> QED BY <1>1, <1>2, <1>3, <1>4, <1>6, <1>7, <1>8, <1>9 DEF Next

LEMMA SecretsInvariance == Spec => []SecretsOK
<1>1. Init => SecretsOK
  <2> SUFFICES ASSUME Init, NEW ref \in Ref PROVE SecretOK(ref)
    BY DEF Init, SecretsOK
  <2>1. Initially(ref) \in {0, NoSecret}
    BY DEF Initially
  <2>2. /\ past.possible[ref] = {Initially(ref)} /\ past.missed = {}
        /\ service[ref] = (IF setup.bus THEN Initially(ref) ELSE NoSecret)
        /\ files[ref] = (IF setup.bus THEN NoSecret ELSE Initially(ref))
    BY DEF Init
  <2> QED BY <2>1, <2>2 DEF SecretOK, Kept
<1>2. Shape /\ Transactions /\ Alone /\ SecretsOK /\ [Next]_vars /\ Shape' => SecretsOK'
  <2> SUFFICES ASSUME Shape, Transactions, Alone, SecretsOK, [Next]_vars, Shape'
               PROVE  SecretsOK'
    OBVIOUS
  <2>1. CASE UNCHANGED vars
    BY <2>1 DEF vars, store, SecretsOK, SecretOK, Kept, FinishOK
  <2> QED BY <2>1, SecretsNext
<1> QED BY <1>1, <1>2, TransactionInvariance, AloneInvariance, PTL DEF Spec

\* get finds a secret that was stored last or is being stored, or nothing when it
\* was erased: put, erase and get of CredentialStore, whatever fails in them,
\* wherever the process ends, and whenever the Secret Service comes or goes.
THEOREM SecretsFound == Spec => []SecretsCurrent
<1>1. Shape /\ SecretsOK => SecretsCurrent
  <2> SUFFICES ASSUME Shape, SecretsOK, NEW ref \in Ref \ (past.crossed \cup past.missed)
               PROVE  \/ Get(ref) \in past.possible[ref]
                      \/ Get(ref) = NoSecret /\ InService(ref) # service[ref]
    BY DEF SecretsCurrent
  <2>1. SecretOK(ref)
    BY DEF SecretsOK
  <2> QED BY <2>1 DEF SecretOK, Kept, Get, InService
<1> QED BY <1>1, TransactionInvariance, SecretsInvariance, PTL

-----------------------------------------------------------------------------
(* Rows of accounts.                                                       *)

\* What a statement does to the rows.
LEMMA RowStatement ==
  ASSUME Shape, NEW t \in Thread,
         \/ UpdateAccount(t) \/ DeleteMemberships(t) \/ ClearManual(t) \/ DeleteWindows(t)
         \/ DeleteSnapshots(t) \/ DeleteRow(t) \/ UpsertGroup(t) \/ DeleteMembers(t)
         \/ PruneLogs(t) \/ ClearLogs(t) \/ InsertSnapshot(t) \/ InsertWindow(t)
         \/ InsertMember(t) \/ InsertLog(t)
  PROVE  /\ \A a \in AccountId :
              tables'.accounts[a] = NoRow <=>
                tables.accounts[a] = NoRow \/ (Step(t).op = "dropRow" /\ Step(t).id = a)
         /\ DeleteRow(t) <=> Step(t).op = "dropRow"
         /\ Step(t).op \notin {"choose", "find", "store", "truncate", "forget"}
<1> DEFINE x == Step(t)
<1>1. tables \in Tables
  BY DEF Shape, TypeOK
<1>2. CASE UpdateAccount(t)
  <2>1. /\ x.op = "update"
        /\ tables' = [tables EXCEPT !.accounts[x.id] = IF @ = NoRow THEN NoRow ELSE x.row]
    BY <1>2 DEF UpdateAccount, Runs, Write, Execute, At, Step
  <2>2. x.row \in Row /\ x.id \in AccountId
    BY <1>2, <2>1, NextStep, StepType DEF Shape, UpdateAccount, At
  <2>3. \A a \in AccountId : tables'.accounts[a] = NoRow <=> tables.accounts[a] = NoRow
    BY <1>1, <2>1, <2>2 DEF Tables, Row, NoRow
  <2> QED BY <2>1, <2>3 DEF DeleteRow, At, Step
<1>3. CASE DeleteRow(t)
  <2>1. x.op = "dropRow" /\ tables' = [tables EXCEPT !.accounts[x.id] = NoRow]
    BY <1>3 DEF DeleteRow, Runs, Write, Execute, At, Step
  <2>2. x.id \in AccountId
    BY <1>3, <2>1, NextStep, StepType DEF Shape, DeleteRow, At
  <2>3. \A a \in AccountId :
          tables'.accounts[a] = NoRow <=> tables.accounts[a] = NoRow \/ x.id = a
    BY <1>1, <2>1, <2>2 DEF Tables
  <2> QED BY <1>3, <2>1, <2>3
<1>4. CASE \/ DeleteMemberships(t) \/ ClearManual(t) \/ DeleteWindows(t) \/ DeleteSnapshots(t)
           \/ UpsertGroup(t) \/ DeleteMembers(t) \/ PruneLogs(t) \/ ClearLogs(t)
  <2>1. x.op \in {"leave", "unpin", "dropWindows", "dropSnapshots", "group", "dropMembers",
                  "prune", "clear"}
    BY <1>4 DEF DeleteMemberships, ClearManual, DeleteWindows, DeleteSnapshots, UpsertGroup,
                DeleteMembers, PruneLogs, ClearLogs, At, Step
  <2>2. tables'.accounts = tables.accounts
    BY <1>1, <1>4 DEF DeleteMemberships, ClearManual, DeleteWindows, DeleteSnapshots, UpsertGroup,
                DeleteMembers, PruneLogs, ClearLogs, Runs, Write, Execute, Tables
  <2> QED BY <2>1, <2>2 DEF DeleteRow, At, Step
<1>5. CASE InsertSnapshot(t) \/ InsertWindow(t) \/ InsertMember(t) \/ InsertLog(t)
  <2>1. x.op \in {"snapshot", "window", "member", "log"}
    BY <1>5 DEF InsertSnapshot, InsertWindow, InsertMember, InsertLog, At, Step
  <2>2. tables'.accounts = tables.accounts
    BY <1>1, <1>5 DEF InsertSnapshot, InsertWindow, InsertMember, InsertLog, Insert, Execute, Tables
  <2> QED BY <2>1, <2>2 DEF DeleteRow, At, Step
<1> QED BY <1>2, <1>3, <1>4, <1>5

\* The steps of a script are its first and those of its tail.
LEMMA FirstOrTail ==
  ASSUME NEW s, Sound(s), s # <<>>, NEW i \in 1 .. Len(s)
  PROVE  s[i] = s[1] \/ (Tail(s) # <<>> /\ \E j \in 1 .. Len(Tail(s)) : s[i] = Tail(s)[j])
<1> DEFINE r == Tail(s)
<1>1. s \in Seq(AnyStep)
  BY DEF Sound, Linked
<1>2. /\ r \in Seq(AnyStep) /\ Len(r) = Len(s) - 1 /\ Len(s) \in Nat \ {0}
      /\ \A j \in 1 .. Len(s) - 1 : r[j] = s[j + 1]
  BY <1>1, TailOf
<1> HIDE DEF r
<1>3. ASSUME i # 1 PROVE r # <<>> /\ \E j \in 1 .. Len(r) : s[i] = r[j]
  <2>1. i - 1 \in 1 .. Len(s) - 1 /\ (i - 1) + 1 = i /\ i - 1 \in 1 .. Len(r)
    BY <1>2, <1>3
  <2>2. s[i] = r[i - 1]
    BY <1>2, <2>1
  <2>3. r # <<>>
    BY <1>2, <2>1, EmptySeq
  <2> QED BY <2>1, <2>2, <2>3
<1> QED BY <1>3 DEF r

\* What follows the steps of a put, and the deletion of a row.
LEMMA LastSteps ==
  ASSUME NEW s, Sound(s), s # <<>>
  PROVE  /\ s[1].op \in {"store", "unfile", "truncate", "write", "update"} =>
              \A i \in 1 .. Len(s) :
                s[i].op \in {"store", "unfile", "truncate", "write", "update"}
         /\ s[1].op = "dropRow" =>
              \A i \in 1 .. Len(s) : s[i].op \in {"dropRow", "commit", "removeHome"}
         /\ s[1] = CommitOf("remove", s[1].id) =>
              \A i \in 1 .. Len(s) : s[i].op \in {"commit", "removeHome"}
         /\ s[1].op = "rollback" => Tail(s) = <<>>
<1>0. /\ \A a : Do("removeHome", a).op = "removeHome"
      /\ \A a : LET c == CommitOf("remove", a) IN c.op = "commit" /\ c.for = "remove" /\ c.id = a
  BY DEF Do, CommitOf
<1>1. ASSUME NEW q, Sound(q), q # <<>>, q[1].op \in {"update", "removeHome", "rollback"}
      PROVE  Tail(q) = <<>> /\ \A i \in 1 .. Len(q) : q[i] = q[1]
  <2>1. Tail(q) = <<>>
    BY <1>1, SoundTail DEF Adjacent
  <2> QED BY <1>1, <2>1, FirstOrTail
<1>2. ASSUME NEW q, Sound(q), q # <<>>, q[1].op \in {"store", "unfile", "write"},
             NEW i \in 1 .. Len(q)
      PROVE  q[i].op \in {"store", "unfile", "truncate", "write", "update"}
  <2>1. CASE q[i] = q[1]
    BY <1>2, <2>1
  <2>2. CASE Tail(q) # <<>> /\ \E j \in 1 .. Len(Tail(q)) : q[i] = Tail(q)[j]
    <3>1. Sound(Tail(q)) /\ Tail(q)[1].op = "update"
      BY <1>2, <2>2, SoundTail DEF Adjacent
    <3> QED BY <1>1, <2>2, <3>1
  <2> QED BY <1>2, <2>1, <2>2, FirstOrTail
<1>3. ASSUME NEW q, Sound(q), q # <<>>, q[1].op = "truncate", NEW i \in 1 .. Len(q)
      PROVE  q[i].op \in {"store", "unfile", "truncate", "write", "update"}
  <2>1. CASE q[i] = q[1]
    BY <1>3, <2>1
  <2>2. CASE Tail(q) # <<>> /\ \E j \in 1 .. Len(Tail(q)) : q[i] = Tail(q)[j]
    <3>1. Sound(Tail(q)) /\ Tail(q)[1].op = "write"
      BY <1>3, <2>2, SoundTail DEF Adjacent
    <3> QED BY <1>2, <2>2, <3>1
  <2> QED BY <1>3, <2>1, <2>2, FirstOrTail
<1>4. ASSUME NEW q, Sound(q), q # <<>>, q[1] = CommitOf("remove", q[1].id), NEW i \in 1 .. Len(q)
      PROVE  q[i].op \in {"commit", "removeHome"}
  <2>1. CASE q[i] = q[1]
    <3>1. q[i].op = "commit"
      BY <1>4, <2>1 DEF CommitOf
    <3> QED BY <3>1
  <2>2. CASE Tail(q) # <<>> /\ \E j \in 1 .. Len(Tail(q)) : q[i] = Tail(q)[j]
    <3>1. q[1].op = "commit" /\ q[1].for = "remove"
      BY <1>4 DEF CommitOf
    <3>2. Sound(Tail(q)) /\ Tail(q)[1] = Do("removeHome", q[1].id)
      BY <1>4, <2>2, <3>1, SoundTail DEF Adjacent
    <3>3. Tail(q)[1].op = "removeHome"
      BY <1>0, <3>2
    <3> QED BY <1>1, <2>2, <3>2, <3>3
  <2> QED BY <1>4, <2>1, <2>2, FirstOrTail
<1>5. ASSUME s[1].op = "dropRow", NEW i \in 1 .. Len(s)
      PROVE  s[i].op \in {"dropRow", "commit", "removeHome"}
  <2>1. CASE s[i] = s[1]
    BY <1>5, <2>1
  <2>2. CASE Tail(s) # <<>> /\ \E j \in 1 .. Len(Tail(s)) : s[i] = Tail(s)[j]
    <3>1. Sound(Tail(s)) /\ Tail(s)[1] = CommitOf("remove", s[1].id)
      BY <1>5, <2>2, SoundTail DEF Adjacent
    <3>2. Tail(s)[1] = CommitOf("remove", Tail(s)[1].id)
      BY <1>0, <3>1
    <3>3. \A j \in 1 .. Len(Tail(s)) : Tail(s)[j].op \in {"commit", "removeHome"}
      BY <1>4, <2>2, <3>1, <3>2
    <3> QED BY <2>2, <3>3
  <2> QED BY <2>1, <2>2, FirstOrTail
<1>6. ASSUME s[1].op = "update", NEW i \in 1 .. Len(s) PROVE s[i].op = "update"
  BY <1>1, <1>6
<1> QED BY <1>1, <1>2, <1>3, <1>4, <1>5, <1>6

\* The steps that rely on the row of their account.
Needing == {"check", "member", "snapshot", "rowid", "window", "store", "unfile", "truncate", "write"}

\* The secret of the local API is stored without a row, also when an account has
\* the same reference.
Storing == {"store", "unfile", "truncate", "write"}

Needs(x, a) == x.op \in Needing /\ x.id = a /\ (a = LocalApi => x.op \notin Storing)

\* An account that a thread is to write about has a row, or is still to be chosen.
RowsOK ==
  \A a \in AccountId \ (past.crossed \cup past.undone) : \A t \in Thread :
    (\E x \in StepsOf(t) : Needs(x, a)) =>
      tables.accounts[a] # NoRow \/ (Step(t).op = "choose" /\ a \in Step(t).members)

\* A thread goes on, and a row that goes is none that anybody relies on.
LEMMA RowsStay ==
  ASSUME Shape, RowsOK, Shape', NEW t \in Thread, NEW r, Continue(t, r),
         past.crossed \subseteq past'.crossed, past.undone \subseteq past'.undone,
         \A a \in AccountId \ (past'.crossed \cup past'.undone) :
           /\ tables.accounts[a] # NoRow /\ tables'.accounts[a] = NoRow =>
                \A u \in Thread \ {t} : \A x \in StepsOf(u) : ~ Needs(x, a)
           /\ \A i \in 1 .. Len(r) : Needs(r[i], a) =>
                tables'.accounts[a] # NoRow \/ (r[1].op = "choose" /\ a \in r[1].members)
  PROVE  RowsOK'
<1>1. script'[t] = r /\ \A u \in Thread : u # t => script'[u] = script[u]
  BY DEF Shape, ScriptsOK, Continue
<1>2. ASSUME NEW a \in AccountId \ (past'.crossed \cup past'.undone), NEW u \in Thread,
             NEW x \in StepsOf(u)', Needs(x, a)
      PROVE  tables'.accounts[a] # NoRow \/ (Step(u)'.op = "choose" /\ a \in Step(u)'.members)
  <2>1. CASE u = t
    <3>1. DOMAIN r = 1 .. Len(r) /\ (r # <<>> => Step(u)' = r[1])
      <4>1. r \in Seq(AnyStep)
        BY <1>1 DEF Shape, ScriptsOK
      <4> QED BY <1>1, <2>1, <4>1, LenProperties, TailOf DEF Step
    <3>2. PICK i \in 1 .. Len(r) : x = r[i]
      BY <1>1, <1>2, <2>1, <3>1 DEF StepsOf
    <3>3. r # <<>>
      BY <3>2, EmptySeq
    <3>4. tables'.accounts[a] # NoRow \/ (r[1].op = "choose" /\ a \in r[1].members)
      BY <1>2, <3>2
    <3> QED BY <3>1, <3>3, <3>4
  <2>2. CASE u # t
    <3>1. script'[u] = script[u]
      BY <1>1, <2>2
    <3>2. x \in StepsOf(u) /\ Step(u)' = Step(u)
      BY <1>2, <3>1 DEF StepsOf, Step
    <3>3. a \in AccountId \ (past.crossed \cup past.undone)
      OBVIOUS
    <3>4. tables.accounts[a] # NoRow \/ (Step(u).op = "choose" /\ a \in Step(u).members)
      BY <1>2, <3>2, <3>3 DEF RowsOK
    <3>5. tables.accounts[a] # NoRow => tables'.accounts[a] # NoRow
      BY <1>2, <2>2, <3>2
    <3> QED BY <3>2, <3>4, <3>5
  <2> QED BY <2>1, <2>2
<1> QED BY <1>2 DEF RowsOK

\* No row goes, and the thread goes on with steps it had, steps that rely on no row
\* but the one that its step relied on, or steps that rely on none.
LEMMA RowsGoOn ==
  ASSUME Shape, RowsOK, Shape', NEW t \in Thread, ~ Idle(t), Step(t).op # "choose",
         NEW r, Continue(t, r), Remembers,
         \A a \in AccountId \ past'.undone :
           tables.accounts[a] # NoRow => tables'.accounts[a] # NoRow,
         \A i \in 1 .. Len(r) : \/ r[i] \in StepsOf(t)
                                \/ r[i].op \notin Needing
                                \/ \A a : Needs(r[i], a) => Needs(Step(t), a)
  PROVE  RowsOK'
<1>1. ASSUME NEW a \in AccountId \ (past'.crossed \cup past'.undone), NEW i \in 1 .. Len(r),
             Needs(r[i], a)
      PROVE  tables'.accounts[a] # NoRow
  <2>1. a \in AccountId \ (past.crossed \cup past.undone)
    BY DEF Remembers
  <2>2. \E x \in StepsOf(t) : Needs(x, a)
    <3>1. CASE r[i] \in StepsOf(t)
      BY <1>1, <3>1
    <3>2. CASE \A b : Needs(r[i], b) => Needs(Step(t), b)
      BY <1>1, <3>2, StepIn DEF Shape
    <3> QED BY <1>1, <3>1, <3>2 DEF Needs
  <2>3. tables.accounts[a] # NoRow
    BY <2>1, <2>2 DEF RowsOK
  <2> QED BY <2>3
<1> QED BY <1>1, RowsStay DEF Remembers

LEMMA RowsAdvance ==
  ASSUME Shape, RowsOK, Shape', NEW t \in Thread, ~ Idle(t), Step(t).op # "choose",
         Advance(t), Remembers,
         \A a \in AccountId \ past'.undone :
           tables.accounts[a] # NoRow => tables'.accounts[a] # NoRow
  PROVE  RowsOK'
<1>1. \A i \in 1 .. Len(Tail(script[t])) : Tail(script[t])[i] \in StepsOf(t)
  BY StepIn DEF Shape
<1>2. Continue(t, Tail(script[t]))
  BY DEF Advance
<1> QED BY <1>1, <1>2, RowsGoOn

\* The steps of the database: statements.
LEMMA RowsStatement ==
  ASSUME Shape, RowsOK, Shape', Alone, NEW t \in Thread,
         \/ UpdateAccount(t) \/ DeleteMemberships(t) \/ ClearManual(t) \/ DeleteWindows(t)
         \/ DeleteSnapshots(t) \/ DeleteRow(t) \/ UpsertGroup(t) \/ DeleteMembers(t)
         \/ PruneLogs(t) \/ ClearLogs(t) \/ InsertSnapshot(t) \/ InsertWindow(t)
         \/ InsertMember(t) \/ InsertLog(t)
  PROVE  RowsOK'
<1>1. ~ Idle(t) /\ Advance(t) /\ past' = past
  BY Statement
<1>2. /\ \A a \in AccountId :
           tables'.accounts[a] = NoRow <=>
             tables.accounts[a] = NoRow \/ (Step(t).op = "dropRow" /\ Step(t).id = a)
      /\ Step(t).op # "choose"
  BY RowStatement
<1>3. Remembers
  BY <1>1 DEF Remembers
<1>4. CASE Step(t).op # "dropRow"
  BY <1>1, <1>2, <1>3, <1>4, RowsAdvance
<1>5. CASE Step(t).op = "dropRow"
  <2> DEFINE r == Tail(script[t])
  <2>1. \A i \in 1 .. Len(r) : r[i] \in StepsOf(t)
    BY <1>1, StepIn DEF Shape
  <2>2. Sound(script[t]) /\ script[t] # <<>> /\ script[t][1].op = "dropRow" /\ Step(t) \in StepsOf(t)
    BY <1>1, <1>5, NextStep, StepIn DEF Shape, ScriptsOK, Idle
  <2>3. \A x \in StepsOf(t) : x.op \in {"dropRow", "commit", "removeHome"}
    BY <2>2, LastSteps, StepIn DEF Shape, StepsOf
  <2>4. \A a : \A i \in 1 .. Len(r) : ~ Needs(r[i], a)
    BY <2>1, <2>3 DEF Needs, Needing
  <2>5. ASSUME NEW a \in AccountId \ (past'.crossed \cup past'.undone),
               tables.accounts[a] # NoRow, tables'.accounts[a] = NoRow,
               NEW u \in Thread \ {t}, NEW x \in StepsOf(u), Needs(x, a)
        PROVE  FALSE
    <3>1. Step(t).id = a /\ a \in Ref
      BY <1>2, <2>5, AccountStorageAssumption
    <3>2. a \in Works(t)
      BY <1>5, <2>2, <3>1 DEF Works
    <3>3. a \in Works(u)
      BY <2>5 DEF Works, Needs, Needing
    <3> QED BY <1>1, <3>1, <3>2, <3>3 DEF Alone
  <2>6. Continue(t, r)
    BY <1>1 DEF Advance
  <2> HIDE DEF r
  <2> QED BY <1>3, <2>4, <2>5, <2>6, RowsStay DEF Remembers
<1> QED BY <1>4, <1>5

LEMMA RowsDatabase ==
  ASSUME Shape, RowsOK, Shape', Alone, Transactions, NEW t \in Thread, DatabaseStep(t)
  PROVE  RowsOK'
<1> DEFINE x == Step(t)
<1>0. tables \in Tables /\ Remembers /\ ScriptsOK
  BY ThreadRemembers DEF Shape, TypeOK
<1>1. CASE \/ UpdateAccount(t) \/ DeleteMemberships(t) \/ ClearManual(t) \/ DeleteWindows(t)
           \/ DeleteSnapshots(t) \/ DeleteRow(t) \/ UpsertGroup(t) \/ DeleteMembers(t)
           \/ PruneLogs(t) \/ ClearLogs(t) \/ InsertSnapshot(t) \/ InsertWindow(t)
           \/ InsertMember(t) \/ InsertLog(t)
  BY <1>1, RowsStatement
<1>2. CASE Begin(t) \/ CommitTransaction(t)
  <2>1. ~ Idle(t) /\ x.op # "choose" /\ Advance(t) /\ tables' = tables
    BY <1>2 DEF Begin, BeginImmediate, CommitTransaction, Commit, At, Step
  <2> QED BY <1>0, <2>1, RowsAdvance
<1>3. CASE InsertAccount(t)
  <2>1. ~ Idle(t) /\ x.op = "insert" /\ Advance(t)
    BY <1>3 DEF InsertAccount, At, Step
  <2>2. tables' = tables \/ tables' = [tables EXCEPT !.accounts[x.id] = "unkeyed"]
    BY <1>3 DEF InsertAccount, Insert, Execute, connection
  <2>3. \A a \in AccountId : tables.accounts[a] # NoRow => tables'.accounts[a] # NoRow
    BY <1>0, <2>2 DEF Tables, NoRow
  <2> QED BY <1>0, <2>1, <2>3, RowsAdvance
<1>4. CASE RollbackTransaction(t)
  <2>1. ~ Idle(t) /\ x.op = "rollback" /\ Advance(t) /\ tables' = disk
    BY <1>4 DEF RollbackTransaction, Rollback, At, Step
  <2>2. Undone \subseteq past'.undone
    <3>1. \E D : past' = [past EXCEPT !.late = @ \cup D, !.undone = @ \cup Undone]
      BY <1>4 DEF RollbackTransaction
    <3> QED BY <3>1, SecretTypes
  <2>3. \A a \in AccountId \ past'.undone : tables.accounts[a] # NoRow => tables'.accounts[a] # NoRow
    BY <2>1, <2>2 DEF Undone
  <2> QED BY <1>0, <2>1, <2>3, RowsAdvance
<1>5. CASE BeginRefused(t) \/ NextAccountId(t)
  <2>1. PICK r : /\ Continue(t, r) /\ (r = <<>> \/ r = << Do("insert", x.id) >>)
                 /\ ~ Idle(t) /\ x.op # "choose" /\ tables' = tables
    BY <1>5 DEF BeginRefused, NextAccountId, At, Step, connection
  <2>2. \A i \in 1 .. Len(r) : r[i].op \notin Needing
    BY <2>1 DEF Do, Needing
  <2> QED BY <1>0, <2>1, <2>2, RowsGoOn
<1>6. CASE FindAccount(t)
  <2> DEFINE row == tables.accounts[x.id]
             q == IF row = NoRow THEN <<>> ELSE Rest(x.for, x.id, row)
  <2>0. Continue(t, q) /\ x.id \in AccountId /\ (q = <<>> \/ OnlyAbout(q, x.id))
    BY <1>6, FoundScript
  <2>1. PICK r : r = q
    OBVIOUS
  <2>2. row = NoRow => r = <<>>
    BY <2>1
  <2>3. tables' = tables
    BY <1>6 DEF FindAccount, connection
  <2> HIDE DEF q, row
  <2>4. ASSUME NEW a \in AccountId, NEW i \in 1 .. Len(r), Needs(r[i], a)
        PROVE  tables'.accounts[a] # NoRow
    <3>1. r # <<>>
      BY <2>4
    <3>2. a = x.id
      BY <2>0, <2>1, <2>4, <3>1 DEF OnlyAbout, Needs
    <3> QED BY <2>2, <2>3, <3>1, <3>2 DEF row
  <2> QED BY <1>0, <2>0, <2>1, <2>3, <2>4, RowsStay DEF Remembers
<1>7. CASE LastInsertRowid(t)
  <2> DEFINE window == [op |-> "window", id |-> x.id, snapshot |-> lastRow]
             r == << window >> \o Tail(Tail(script[t]))
  <2>1. ~ Idle(t) /\ x.op = "rowid" /\ Continue(t, r) /\ tables' = tables
    BY <1>7 DEF LastInsertRowid, At, Step, connection
  <2>2. \A i \in 1 .. Len(r) : r[i] = window \/ r[i] \in StepsOf(t)
    BY <2>1, RowidScript DEF Shape, TypeOK
  <2> HIDE DEF r
  <2>3. \A a : Needs(window, a) => Needs(x, a)
    BY <2>1 DEF Needs, Needing, Storing
  <2>4. \A i \in 1 .. Len(r) : r[i] \in StepsOf(t) \/ \A a : Needs(r[i], a) => Needs(x, a)
    BY <2>2, <2>3
  <2> HIDE DEF x
  <2> QED BY <1>0, <2>1, <2>3, <2>4, RowsGoOn DEF x
<1>8. CASE ChooseMembers(t)
  <2>1. ~ Idle(t) /\ x.op = "choose" /\ tables' = tables
    BY <1>8 DEF ChooseMembers, At, Step, connection
  <2>2. PICK r : /\ Continue(t, r)
                 /\ r # <<>> => r = Tail(script[t]) /\ \A a \in x.members : tables.accounts[a] # NoRow
    BY <1>8 DEF ChooseMembers, Step
  <2>3. \A i \in 1 .. Len(Tail(script[t])) : Tail(script[t])[i] \in StepsOf(t)
    BY <1>0, <2>1, StepIn
  <2>4. ASSUME NEW a \in AccountId \ (past'.crossed \cup past'.undone), NEW i \in 1 .. Len(r),
               Needs(r[i], a)
        PROVE  tables'.accounts[a] # NoRow
    <3>1. r # <<>>
      BY <2>4
    <3>2. r[i] \in StepsOf(t)
      BY <2>2, <2>3, <2>4, <3>1
    <3>3. tables.accounts[a] # NoRow \/ a \in x.members
      BY <1>0, <2>4, <3>2 DEF RowsOK, Remembers
    <3> QED BY <2>1, <2>2, <3>1, <3>3
  <2> HIDE DEF x
  <2> QED BY <1>0, <2>1, <2>2, <2>4, RowsStay DEF Remembers
<1>9. CASE CheckMember(t)
  <2>1. ~ Idle(t) /\ x.op = "check" /\ tables' = tables
    BY <1>9 DEF CheckMember, At, Step, connection
  <2>2. Continue(t, <<>>) \/ Advance(t)
    BY <1>9 DEF CheckMember, Advance
  <2>3. CASE Continue(t, <<>>)
    BY <1>0, <2>1, <2>3, RowsGoOn
  <2> QED BY <1>0, <2>1, <2>2, <2>3, RowsAdvance
<1> QED
  BY <1>1, <1>2, <1>3, <1>4, <1>5, <1>6, <1>7, <1>8, <1>9 DEF DatabaseStep

LEMMA RowsOther ==
  ASSUME Shape, RowsOK, Shape', Transactions,
         \/ \E t \in Thread : Start(t) \/ StoreStep(t) \/ IgnoredFailure(t) \/ DirectoryStep(t) \/ Fails(t)
         \/ Crash \/ Exit \/ Stop \/ Restart \/ Outage
  PROVE  RowsOK'
<1>0. ScriptsOK
  BY DEF Shape
<1>1. ASSUME NEW t \in Thread, Store(t) PROVE RowsOK'
  <2> DEFINE r == Filing(Step(t)) \o Tail(script[t])
  <2>1. ~ Idle(t) /\ Step(t).op = "store" /\ Continue(t, r) /\ tables' = tables
    BY <1>1 DEF Store, At, Step, Filing, connection
  <2>2. \A i \in 1 .. Len(r) :
          (r[i].op \in Storing /\ r[i].id = Step(t).id) \/ r[i] \in StepsOf(t)
    BY <1>0, <2>1, StoreScript DEF Storing
  <2>3. Remembers
    BY <1>1, ThreadRemembers DEF StoreStep
  <2> HIDE DEF r
  <2>4. ASSUME NEW i \in 1 .. Len(r), r[i] \notin StepsOf(t), NEW a, Needs(r[i], a)
        PROVE  Needs(Step(t), a)
    BY <2>1, <2>2, <2>4 DEF Needs, Needing
  <2> QED BY <2>1, <2>3, <2>4, RowsGoOn
<1>2. ASSUME NEW t \in Thread,
             \/ Unfile(t) \/ Truncate(t) \/ WriteSecret(t) \/ Forget(t) \/ Remove(t) \/ IgnoredFailure(t)
             \/ CreateHome(t) \/ RemoveHome(t) \/ RemoveTree(t)
      PROVE  RowsOK'
  <2>1. ~ Idle(t) /\ Advance(t) /\ Step(t).op # "choose" /\ tables' = tables
    BY <1>2 DEF Unfile, Truncate, WriteSecret, Forget, Remove, IgnoredFailure, FlushFails,
                UnfileFails, CreateHome, RemoveHome,
                RemoveTree, SetDir, At, Step, connection
  <2>2. Remembers
    BY <1>2, ThreadRemembers DEF StoreStep, DirectoryStep
  <2> QED BY <2>1, <2>2, RowsAdvance
<1>3. ASSUME NEW t \in Thread, ListAccounts(t) \/ ListDirectories(t) PROVE RowsOK'
  <2>1. ~ Idle(t) /\ Step(t).op # "choose" /\ tables' = tables
    BY <1>3 DEF ListAccounts, ListDirectories, At, Step, connection
  <2>2. Remembers
    BY <1>3, ThreadRemembers DEF DirectoryStep
  <2>3. \E r : Continue(t, r) /\ \A i \in 1 .. Len(r) : r[i].op \in {"scan", "removeTree"}
    <3>1. CASE ListAccounts(t)
      <4>1. \E known : Continue(t, << [op |-> "scan", id |-> NoOne, known |-> known] >>)
        BY <3>1 DEF ListAccounts
      <4>2. PICK known : Continue(t, << [op |-> "scan", id |-> NoOne, known |-> known] >>)
        BY <4>1
      <4> DEFINE r == << [op |-> "scan", id |-> NoOne, known |-> known] >>
      <4>3. \A i \in 1 .. Len(r) : r[i].op \in {"scan", "removeTree"}
        OBVIOUS
      <4> HIDE DEF r
      <4> QED BY <4>2, <4>3 DEF r
    <3>2. CASE ListDirectories(t)
      BY <3>2, ScanScript DEF CleanUp
    <3> QED BY <1>3, <3>1, <3>2
  <2>4. PICK r : Continue(t, r) /\ \A i \in 1 .. Len(r) : r[i].op \in {"scan", "removeTree"}
    BY <2>3
  <2>5. \A i \in 1 .. Len(r) : r[i].op \notin Needing
    BY <2>4 DEF Needing
  <2> QED BY <2>1, <2>2, <2>4, <2>5, RowsGoOn
<1>4. ASSUME NEW t \in Thread, Fails(t) PROVE RowsOK'
  <2>1. PICK r : Continue(t, r) /\ (r = <<>> \/ r = << Do("rollback", Step(t).id) >>)
    BY <1>4 DEF Fails
  <2>2. \A i \in 1 .. Len(r) : r[i].op \notin Needing
    BY <2>1 DEF Do, Needing
  <2>3. ~ Idle(t) /\ Step(t).op # "choose" /\ tables' = tables
    BY <1>4 DEF Fails, Fallible, At, Step, connection
  <2>4. Remembers
    BY <1>4, ThreadRemembers
  <2> QED BY <2>1, <2>2, <2>3, <2>4, RowsGoOn
<1>5. ASSUME NEW t \in Thread, Start(t) PROVE RowsOK'
  <2>1. PICK q :
          /\ Continue(t, q) /\ Sound(q) /\ q # <<>>
          /\ q[1].op \in First \cup {"store", "choose"}
          /\ \A i \in 1 .. Len(q) :
               \/ q[i].op \in First
               \/ q[i].op = "store" /\ q[i].id = LocalApi
               \/ q[1].op = "choose" /\ SaveStep(q[i], q[1].members)
    BY <1>5, StartScript
  <2>2. Remembers /\ tables' = tables
    BY <1>5, OtherRemembers DEF Start, connection
  <2>3. ASSUME NEW a \in AccountId, NEW i \in 1 .. Len(q), Needs(q[i], a)
        PROVE  q[1].op = "choose" /\ a \in q[1].members
    <3>1. q[i].op \notin First
      BY <2>3 DEF Needs, Needing, First
    <3>2. ~ (q[i].op = "store" /\ q[i].id = LocalApi) /\ a # NoOne
      BY <2>3, AccountStorageAssumption DEF Needs, Storing
    <3> QED BY <2>1, <2>3, <3>1, <3>2 DEF SaveStep, Needs
  <2> QED BY <2>1, <2>2, <2>3, RowsStay DEF Remembers
<1>6. CASE Crash \/ Stop
  <2>1. \A t \in Thread : script'[t] = <<>>
    BY <1>6 DEF Crash, Stop, Idle
  <2>2. \A t \in Thread : StepsOf(t)' = {}
    BY <2>1 DEF StepsOf
  <2> QED BY <2>2 DEF RowsOK
<1>7. CASE Exit \/ Outage
  <2>1. UNCHANGED <<script, tables, past>>
    BY <1>7 DEF Exit, Outage, connection
  <2> QED BY <2>1 DEF RowsOK, StepsOf, Step
<1>8. CASE Restart
  <2>1. PICK r : Continue(Main, r) /\ (r = <<>> \/ r = put(LocalApi, Fresh(LocalApi)))
    BY <1>8 DEF Restart, Continue
  <2>2. \A i \in 1 .. Len(r) : r[i].op = "store" /\ r[i].id = LocalApi
    BY <2>1 DEF put
  <2>3. \A a \in AccountId : \A i \in 1 .. Len(r) : ~ Needs(r[i], a)
    BY <2>2 DEF Needs, Storing
  <2>4. UNCHANGED <<tables, past>> /\ Main \in Thread
    BY <1>8, AccountStorageAssumption DEF Restart, connection
  <2> QED BY <2>1, <2>3, <2>4, RowsStay
<1> QED
  BY <1>1, <1>2, <1>3, <1>4, <1>5, <1>6, <1>7, <1>8 DEF StoreStep, DirectoryStep

LEMMA RowsInvariance == Spec => []RowsOK
<1>1. Init => RowsOK
  BY DEF Init, RowsOK, StepsOf
<1>2. Shape /\ Transactions /\ Alone /\ RowsOK /\ [Next]_vars /\ Shape' => RowsOK'
  <2> SUFFICES ASSUME Shape, Transactions, Alone, RowsOK, [Next]_vars, Shape'
               PROVE  RowsOK'
    OBVIOUS
  <2>1. CASE UNCHANGED vars
    BY <2>1 DEF vars, connection, RowsOK, StepsOf, Step
  <2> QED BY <2>1, RowsDatabase, RowsOther DEF Next
<1> QED BY <1>1, <1>2, TransactionInvariance, AloneInvariance, PTL DEF Spec

-----------------------------------------------------------------------------
(* What the database keeps of an account.                                  *)

\* Nothing but the row, if there is one, says anything of the account.
Unrecorded(T, a) ==
  /\ \A s \in T.snapshots : s.account # a
  /\ \A w \in T.windows : w.of # a
  /\ a \notin T.group.members /\ a # T.group.manual

RecordsOK ==
  \A a \in AccountId \ (past.crossed \cup past.undone \cup past.mingled) :
    /\ tables.accounts[a] = NoRow => Unrecorded(tables, a)
    /\ disk.accounts[a] = NoRow => Unrecorded(disk, a)

\* Only what there was is there.
LEMMA RecordsStay ==
  ASSUME RecordsOK, Remembers, tables' \in {tables, disk}, disk' \in {tables, disk}
  PROVE  RecordsOK'
BY DEF RecordsOK, Remembers, Unrecorded

\* A statement writes about an account that has a row, and the row is deleted when
\* nothing else is left.
LEMMA RecordsStatement ==
  ASSUME Shape, Transactions, GroupOK, QuotaOK, RowsOK, RecordsOK, NEW t \in Thread,
         \/ UpdateAccount(t) \/ DeleteMemberships(t) \/ ClearManual(t) \/ DeleteWindows(t)
         \/ DeleteSnapshots(t) \/ DeleteRow(t) \/ UpsertGroup(t) \/ DeleteMembers(t)
         \/ PruneLogs(t) \/ ClearLogs(t) \/ InsertSnapshot(t) \/ InsertWindow(t)
         \/ InsertMember(t) \/ InsertLog(t)
  PROVE  RecordsOK'
<1> DEFINE x == Step(t)
           s == script[t]
<1>1. /\ ~ Idle(t) /\ Execute(tables') /\ past' = past
      /\ tables'.group = GroupAfter(x, tables.group)
  BY Statement
<1>2. tables'.snapshots = SnapshotsAfter(x, tables) /\ tables'.windows = WindowsAfter(x, tables)
  BY HistoryStatement
<1>3. /\ \A a \in AccountId :
           tables'.accounts[a] = NoRow <=>
             tables.accounts[a] = NoRow \/ (x.op = "dropRow" /\ x.id = a)
      /\ x.op # "choose"
  BY RowStatement
<1>4. /\ s # <<>> /\ Sound(s) /\ x = s[1] /\ x \in StepsOf(t) /\ DOMAIN s = 1 .. Len(s)
      /\ x \in AnyStep
  BY <1>1, NextStep, StepIn DEF Shape, ScriptsOK, Idle
<1>5. /\ tables.group \in Group
      /\ tables.group = [strategy |-> tables.group.strategy, manual |-> tables.group.manual,
                         members |-> tables.group.members]
  BY DEF Shape, TypeOK, Tables, Group
<1>6. ASSUME NEW a \in AccountId \ (past.crossed \cup past.undone \cup past.mingled),
             tables'.accounts[a] = NoRow
      PROVE  Unrecorded(tables, a)' 
  <2>1. CASE x.op = "dropRow" /\ x.id = a
    <3>1. Opens(s)
      BY <1>4, <2>1 DEF Opens, Inner, Opening
    <3>2. FiledFor(x, tables, past.mingled) /\ GroupIs(s, tables.group, past.saved)
      BY <1>4, <3>1 DEF QuotaOK, GroupOK
    <3>3. \A w \in tables.windows : w.of # a
      BY <1>6, <2>1, <3>2 DEF FiledFor
    <3>4. \A y \in tables.snapshots : y.account # a
      BY <2>1, <3>2 DEF FiledFor
    <3>5. tables.group = Settled(CommitOf("remove", a), past.saved)
      BY <1>4, <2>1, <3>2 DEF GroupIs
    <3>6. past.saved \in Group /\ NoOne # a
      BY AccountStorageAssumption DEF Shape, TypeOK
    <3>7. a \notin tables.group.members /\ a # tables.group.manual
      <4>1. tables.group = [past.saved EXCEPT !.manual = IF @ = a THEN NoOne ELSE @,
                                              !.members = @ \ {a}]
        BY <3>5 DEF Settled, CommitOf
      <4> QED BY <3>6, <4>1 DEF Group
    <3>8. /\ tables'.snapshots = tables.snapshots /\ tables'.windows = tables.windows
          /\ tables'.group = tables.group
      BY <1>1, <1>2, <2>1 DEF SnapshotsAfter, WindowsAfter, GroupAfter
    <3> QED BY <3>3, <3>4, <3>7, <3>8 DEF Unrecorded
  <2>2. CASE tables.accounts[a] = NoRow
    <3>1. Unrecorded(tables, a)
      BY <1>6, <2>2 DEF RecordsOK
    <3>2. \A y \in StepsOf(t) : ~ Needs(y, a)
      BY <1>3, <1>6, <2>2 DEF RowsOK
    <3>3. x.op \in {"snapshot", "window", "member"} => x.id # a
      BY <1>4, <3>2 DEF Needs, Needing, Storing
    <3>4. x.op = "group" => x.manual # a
      <4>1. SUFFICES ASSUME x.op = "group" PROVE x.manual # a
        OBVIOUS
      <4>2. 1 \in 1 .. Len(s)
        BY <1>4, EmptySeq, LenProperties DEF Sound, Linked
      <4>3. x.manual \in MembersFrom(s, 1) \cup {NoOne}
        BY <1>4, <4>1, <4>2 DEF Sound, SaveOK
      <4>4. a \notin MembersFrom(s, 1)
        <5>1. ASSUME NEW j \in 1 .. Len(s), s[j].op = "member" PROVE s[j].id # a
          BY <1>4, <3>2, <5>1 DEF StepsOf, Needs, Needing, Storing
        <5> QED BY <5>1 DEF MembersFrom
      <4> QED BY <4>3, <4>4, AccountStorageAssumption
    <3>5. \A y \in tables'.snapshots : y.account # a
      BY <1>2, <3>1, <3>3 DEF SnapshotsAfter, Unrecorded
    <3>6. \A w \in tables'.windows : w.of # a
      BY <1>2, <3>1, <3>3 DEF WindowsAfter, Unrecorded
    <3>7. a \notin tables'.group.members /\ a # tables'.group.manual
      <4> HIDE DEF x
      <4>1. a # NoOne
        BY AccountStorageAssumption
      <4>2. a \notin tables.group.members /\ a # tables.group.manual
        BY <3>1 DEF Unrecorded
      <4> QED BY <1>1, <1>5, <3>3, <3>4, <4>1, <4>2 DEF GroupAfter
    <3> QED BY <3>5, <3>6, <3>7 DEF Unrecorded
  <2> QED BY <1>3, <1>6, <2>1, <2>2
<1>7. ASSUME NEW a \in AccountId \ (past.crossed \cup past.undone \cup past.mingled),
             disk'.accounts[a] = NoRow
      PROVE  Unrecorded(disk, a)'
  <2>1. CASE InTransaction
    <3>1. disk' = disk
      BY <1>1, <2>1 DEF Execute
    <3> QED BY <1>7, <3>1 DEF RecordsOK, Unrecorded
  <2>2. CASE ~ InTransaction
    <3>1. disk' = tables'
      BY <1>1, <2>2 DEF Execute
    <3>2. Unrecorded(tables, a)'
      BY <1>6, <1>7, <3>1
    <3> QED BY <3>1, <3>2 DEF Unrecorded
  <2> QED BY <2>1, <2>2
<1> QED BY <1>1, <1>6, <1>7 DEF RecordsOK

LEMMA RecordsNext ==
  ASSUME Shape, Transactions, GroupOK, QuotaOK, RowsOK, RecordsOK, Next
  PROVE  RecordsOK'
<1>1. ASSUME NEW t \in Thread, DatabaseStep(t) PROVE RecordsOK'
  <2>0. Remembers /\ tables \in Tables
    BY <1>1, ThreadRemembers DEF Shape, TypeOK
  <2>1. CASE \/ UpdateAccount(t) \/ DeleteMemberships(t) \/ ClearManual(t) \/ DeleteWindows(t)
             \/ DeleteSnapshots(t) \/ DeleteRow(t) \/ UpsertGroup(t) \/ DeleteMembers(t)
             \/ PruneLogs(t) \/ ClearLogs(t) \/ InsertSnapshot(t) \/ InsertWindow(t)
             \/ InsertMember(t) \/ InsertLog(t)
    BY <2>1, RecordsStatement
  <2>2. CASE \/ BeginRefused(t) \/ NextAccountId(t) \/ FindAccount(t) \/ ChooseMembers(t)
             \/ CheckMember(t)
    <3>1. UNCHANGED connection
      BY <2>2, QuietDatabase
    <3> QED BY <2>0, <3>1, RecordsStay DEF connection
  <2>3. CASE Begin(t) \/ CommitTransaction(t) \/ RollbackTransaction(t) \/ LastInsertRowid(t)
    <3>1. tables' \in {tables, disk} /\ disk' \in {tables, disk}
      BY <2>3 DEF Begin, BeginImmediate, CommitTransaction, Commit, RollbackTransaction, Rollback,
                  LastInsertRowid, connection
    <3> QED BY <2>0, <3>1, RecordsStay
  <2>4. CASE InsertAccount(t)
    <3> DEFINE new == [tables EXCEPT !.accounts[Step(t).id] = "unkeyed"]
    <3>1. UNCHANGED connection \/ Execute(new)
      BY <2>4 DEF InsertAccount, Insert
    <3>2. CASE UNCHANGED connection
      BY <2>0, <3>2, RecordsStay DEF connection
    <3>3. CASE Execute(new)
      <4>1. tables' = new /\ disk' = (IF InTransaction THEN disk ELSE new)
        BY <3>3 DEF Execute
      <4>2. /\ new.snapshots = tables.snapshots /\ new.windows = tables.windows
            /\ new.group = tables.group
            /\ \A a \in AccountId : new.accounts[a] = NoRow => tables.accounts[a] = NoRow
        BY <2>0 DEF Tables, NoRow
      <4> HIDE DEF new
      <4>3. ASSUME NEW a \in AccountId \ (past'.crossed \cup past'.undone \cup past'.mingled)
            PROVE  /\ tables'.accounts[a] = NoRow => Unrecorded(tables, a)'
                   /\ disk'.accounts[a] = NoRow => Unrecorded(disk, a)'
        <5>1. /\ tables.accounts[a] = NoRow => Unrecorded(tables, a)
              /\ disk.accounts[a] = NoRow => Unrecorded(disk, a)
          BY <2>0 DEF RecordsOK, Remembers
        <5> QED BY <4>1, <4>2, <5>1 DEF Unrecorded
      <4> QED BY <4>3 DEF RecordsOK
    <3> QED BY <3>1, <3>2, <3>3
  <2> QED BY <1>1, <2>1, <2>2, <2>3, <2>4 DEF DatabaseStep
<1>2. ASSUME NEW t \in Thread, Start(t) \/ StoreStep(t) \/ IgnoredFailure(t) \/ DirectoryStep(t)
      PROVE  RecordsOK'
  <2>1. UNCHANGED connection
    BY <1>2, Quiet
  <2>2. Remembers
    BY <1>2, ThreadRemembers, OtherRemembers
  <2> QED BY <2>1, <2>2, RecordsStay DEF connection
<1>3. ASSUME NEW t \in Thread, Fails(t) PROVE RecordsOK'
  <2>1. UNCHANGED <<connection, past>>
    BY <1>3 DEF Fails
  <2> QED BY <2>1, RecordsStay DEF connection, Remembers
<1>4. CASE Crash \/ Exit \/ Stop \/ Restart \/ Outage
  <2>1. tables' \in {tables, disk} /\ disk' = disk
    BY <1>4 DEF Crash, Exit, Stop, Restart, Outage, Close, connection
  <2>2. Remembers
    BY <1>4, OtherRemembers
  <2> QED BY <2>1, <2>2, RecordsStay
<1> QED BY <1>1, <1>2, <1>3, <1>4 DEF Next

LEMMA RecordsInvariance == Spec => []RecordsOK
<1>1. Init => RecordsOK
  <2> SUFFICES ASSUME Init PROVE RecordsOK
    OBVIOUS
  <2>1. IsSetup(setup)
    BY AccountStorageAssumption DEF Init
  <2>2. /\ tables.accounts = setup.rows /\ tables.group = setup.group
        /\ tables.snapshots = {} /\ tables.windows = {} /\ disk = tables
    BY DEF Init, Open
  <2>3. \A a \in setup.group.members \cup ({setup.group.manual} \ {NoOne}) : setup.rows[a] # NoRow
    BY <2>1 DEF IsSetup
  <2>4. \A a \in AccountId : tables.accounts[a] = NoRow => Unrecorded(tables, a)
    BY <2>2, <2>3, AccountStorageAssumption DEF Unrecorded
  <2> QED BY <2>2, <2>4 DEF RecordsOK
<1>2. /\ Shape /\ Transactions /\ GroupOK /\ QuotaOK /\ RowsOK /\ RecordsOK /\ [Next]_vars
      => RecordsOK'
  <2> SUFFICES ASSUME Shape, Transactions, GroupOK, QuotaOK, RowsOK, RecordsOK, [Next]_vars
               PROVE  RecordsOK'
    OBVIOUS
  <2>1. CASE UNCHANGED vars
    BY <2>1, RecordsStay DEF vars, connection, Remembers
  <2> QED BY <2>1, RecordsNext
<1> QED
  BY <1>1, <1>2, TransactionInvariance, GroupInvariance, QuotaInvariance, RowsInvariance, PTL
  DEF Spec

-----------------------------------------------------------------------------
(* The secrets of removed accounts.                                        *)

\* The row that the script s deletes, if it does, is that of its first step.
DropsItsOwn(s) == \A i \in 1 .. Len(s) : s[i].op = "dropRow" => s[i].id = s[1].id

\* The steps before, which are on the same account.
LEMMA DropsBefore ==
  ASSUME NEW s, Sound(s), s # <<>>,
         Tail(s) # <<>> => Tail(s)[1].id = s[1].id /\ DropsItsOwn(Tail(s))
  PROVE  DropsItsOwn(s)
<1>1. ASSUME NEW i \in 1 .. Len(s), s[i].op = "dropRow" PROVE s[i].id = s[1].id
  <2>1. CASE s[i] = s[1]
    BY <2>1
  <2>2. CASE Tail(s) # <<>> /\ \E j \in 1 .. Len(Tail(s)) : s[i] = Tail(s)[j]
    BY <1>1, <2>2 DEF DropsItsOwn
  <2> QED BY <2>1, <2>2, FirstOrTail
<1> QED BY <1>1 DEF DropsItsOwn

\* A script that does not delete a row from its next step on.
LEMMA DropsNone ==
  ASSUME NEW s, \A i \in 1 .. Len(s) : s[i].op # "dropRow"
  PROVE  DropsItsOwn(s)
BY DEF DropsItsOwn

LEMMA RemovalDropsItsOwn ==
  ASSUME NEW s, Sound(s), s # <<>>, s[1].op = "remove"
  PROVE  DropsItsOwn(s)
<1>0. \A op, a : Do(op, a).op = op /\ Do(op, a).id = a
  BY DEF Do
<1>1. ASSUME NEW q, Sound(q), q # <<>>, q[1].op = "dropRow" PROVE DropsItsOwn(q)
  <2>1. ASSUME NEW i \in 1 .. Len(q), q[i].op = "dropRow" PROVE q[i].id = q[1].id
    <3>1. CASE q[i] = q[1]
      BY <3>1
    <3>2. CASE Tail(q) # <<>> /\ \E j \in 1 .. Len(Tail(q)) : q[i] = Tail(q)[j]
      <4>1. Sound(Tail(q)) /\ Tail(q)[1] = CommitOf("remove", q[1].id)
        BY <1>1, <3>2, SoundTail DEF Adjacent
      <4>2. Tail(q)[1].id = q[1].id
        <5>1. \A a : CommitOf("remove", a).id = a
          BY DEF CommitOf
        <5> QED BY <4>1, <5>1
      <4>3. \A j \in 1 .. Len(Tail(q)) : Tail(q)[j].op \in {"commit", "removeHome"}
        BY <3>2, <4>1, <4>2, LastSteps
      <4> QED BY <2>1, <3>2, <4>3
    <3> QED BY <1>1, <3>1, <3>2, FirstOrTail
  <2> QED BY <2>1 DEF DropsItsOwn
<1>2. ASSUME NEW q, Sound(q), q # <<>>, q[1].op = "dropSnapshots" PROVE DropsItsOwn(q)
  <2>1. Tail(q) # <<>> => Sound(Tail(q)) /\ Tail(q)[1] = Do("dropRow", q[1].id)
    BY <1>2, SoundTail DEF Adjacent
  <2>2. Tail(q) # <<>> => Tail(q)[1].op = "dropRow" /\ Tail(q)[1].id = q[1].id
    BY <1>0, <2>1
  <2> QED BY <1>1, <1>2, <2>1, <2>2, DropsBefore
<1>3. ASSUME NEW q, Sound(q), q # <<>>, q[1].op = "dropWindows" PROVE DropsItsOwn(q)
  <2>1. Tail(q) # <<>> => Sound(Tail(q)) /\ Tail(q)[1] = Do("dropSnapshots", q[1].id)
    BY <1>3, SoundTail DEF Adjacent
  <2>2. Tail(q) # <<>> => Tail(q)[1].op = "dropSnapshots" /\ Tail(q)[1].id = q[1].id
    BY <1>0, <2>1
  <2> QED BY <1>2, <1>3, <2>1, <2>2, DropsBefore
<1>4. ASSUME NEW q, Sound(q), q # <<>>, q[1].op = "unpin" PROVE DropsItsOwn(q)
  <2>1. Tail(q) # <<>> => Sound(Tail(q)) /\ Tail(q)[1] = Do("dropWindows", q[1].id)
    BY <1>4, SoundTail DEF Adjacent
  <2>2. Tail(q) # <<>> => Tail(q)[1].op = "dropWindows" /\ Tail(q)[1].id = q[1].id
    BY <1>0, <2>1
  <2> QED BY <1>3, <1>4, <2>1, <2>2, DropsBefore
<1>5. ASSUME NEW q, Sound(q), q # <<>>, q[1].op = "leave" PROVE DropsItsOwn(q)
  <2>1. Tail(q) # <<>> => Sound(Tail(q)) /\ Tail(q)[1] = Do("unpin", q[1].id)
    BY <1>5, SoundTail DEF Adjacent
  <2>2. Tail(q) # <<>> => Tail(q)[1].op = "unpin" /\ Tail(q)[1].id = q[1].id
    BY <1>0, <2>1
  <2> QED BY <1>4, <1>5, <2>1, <2>2, DropsBefore
<1>6. ASSUME NEW q, Sound(q), q # <<>>, q[1].op = "update" PROVE DropsItsOwn(q)
  BY <1>6, LastSteps, DropsNone
<1>7. ASSUME NEW q, Sound(q), q # <<>>, q[1].op = "commit" /\ q[1].for = "quota"
      PROVE  \A i \in 1 .. Len(q) : q[i].op # "dropRow"
  <2>1. Tail(q) # <<>> => Sound(Tail(q)) /\ Tail(q)[1].op = "update"
    BY <1>7, SoundTail DEF Adjacent
  <2>2. Tail(q) # <<>> => \A j \in 1 .. Len(Tail(q)) : Tail(q)[j].op # "dropRow"
    BY <2>1, LastSteps
  <2> QED BY <1>7, <2>2, FirstOrTail
<1>8. ASSUME NEW q, Sound(q), q # <<>>, q[1].op = "window"
      PROVE  \A i \in 1 .. Len(q) : q[i].op # "dropRow"
  <2>1. Tail(q) # <<>> => Sound(Tail(q)) /\ Tail(q)[1] = CommitOf("quota", q[1].id)
    BY <1>8, SoundTail DEF Adjacent
  <2>2. \A a : LET y == CommitOf("quota", a) IN y.op = "commit" /\ y.for = "quota"
    BY DEF CommitOf
  <2>3. Tail(q) # <<>> => \A j \in 1 .. Len(Tail(q)) : Tail(q)[j].op # "dropRow"
    BY <1>7, <2>1, <2>2
  <2> QED BY <1>8, <2>3, FirstOrTail
<1>9. ASSUME NEW q, Sound(q), q # <<>>, q[1].op = "rowid"
      PROVE  \A i \in 1 .. Len(q) : q[i].op # "dropRow"
  <2>1. Tail(q) # <<>> => Sound(Tail(q)) /\ Tail(q)[1].op = "window"
    BY <1>0, <1>9, SoundTail DEF Adjacent
  <2>2. Tail(q) # <<>> => \A j \in 1 .. Len(Tail(q)) : Tail(q)[j].op # "dropRow"
    BY <1>8, <2>1
  <2> QED BY <1>9, <2>2, FirstOrTail
<1>10. ASSUME NEW q, Sound(q), q # <<>>, q[1].op = "snapshot" PROVE DropsItsOwn(q)
  <2>1. Tail(q) # <<>> => Sound(Tail(q)) /\ Tail(q)[1].op = "rowid"
    BY <1>0, <1>10, SoundTail DEF Adjacent
  <2>2. Tail(q) # <<>> => \A j \in 1 .. Len(Tail(q)) : Tail(q)[j].op # "dropRow"
    BY <1>9, <2>1
  <2> QED BY <1>10, <2>2, FirstOrTail, DropsNone
<1>11. ASSUME NEW q, Sound(q), q # <<>>, q[1].op = "begin", q[1].id \in Ref PROVE DropsItsOwn(q)
  <2>1. Tail(q) # <<>> => /\ Sound(Tail(q)) /\ Tail(q)[1].id = q[1].id
                          /\ Tail(q)[1].op \in {"leave", "snapshot", "group"}
    BY <1>11, SoundTail DEF Adjacent
  <2>2. Tail(q) # <<>> => Tail(q)[1].op # "group"
    <3>1. \A y \in AnyStep : y.op = "group" => y.id = NoOne
      BY DEF AnyStep
    <3>2. Tail(q) # <<>> => Tail(q)[1] \in AnyStep
      BY <2>1, SoundTail
    <3>3. NoOne \notin Ref
      BY AccountStorageAssumption DEF NoOne, LocalApi
    <3> QED BY <1>11, <2>1, <3>1, <3>2, <3>3
  <2> QED BY <1>5, <1>10, <1>11, <2>1, <2>2, DropsBefore
<1> HIDE DEF Do
<1>12. Tail(s) # <<>> => Sound(Tail(s)) /\ Tail(s)[1].op = "begin" /\ Tail(s)[1].id = s[1].id
  BY SoundTail DEF Adjacent
<1>13. s[1].id \in Ref
  BY SoundTail, StepType
<1> QED BY <1>11, <1>12, <1>13, DropsBefore

\* Nothing is stored under a.
Erased(a) == files[a] = NoSecret /\ (service[a] = NoSecret \/ a \in past.missed)

\* t has erased the secret of a, if it does, and deletes the row.
Removing(t, a) ==
  /\ Step(t).op \notin {"forget", "remove"}
  /\ \E x \in StepsOf(t) : x.op = "dropRow" /\ x.id = a

ErasedOK ==
  \A a \in AccountId \ (past.crossed \cup past.undone \cup past.adrift \cup {LocalApi}) :
    tables.accounts[a] = NoRow \/ (\E t \in Thread : Removing(t, a)) => Erased(a)

\* A thread goes on with r, where Erasing is what makes Removing true after.
Erasing(r, a) ==
  /\ r[1].op \notin {"forget", "remove"}
  /\ \E i \in 1 .. Len(r) : r[i].op = "dropRow" /\ r[i].id = a

LEMMA RemovingAfter ==
  ASSUME Shape, Shape', NEW t \in Thread, NEW r, Continue(t, r)
  PROVE  /\ \A a : Removing(t, a)' => Erasing(r, a)
         /\ \A u \in Thread \ {t} : \A a : Removing(u, a)' => Removing(u, a)
<1>1. script'[t] = r /\ \A u \in Thread : u # t => script'[u] = script[u]
  BY DEF Shape, ScriptsOK, Continue
<1>2. r \in Seq(AnyStep) /\ DOMAIN r = 1 .. Len(r)
  BY <1>1, LenProperties DEF Shape, ScriptsOK
<1>3. ASSUME NEW a, Removing(t, a)' PROVE Erasing(r, a)
  <2>1. PICK i \in 1 .. Len(r) : r[i].op = "dropRow" /\ r[i].id = a
    BY <1>1, <1>2, <1>3 DEF Removing, StepsOf
  <2>2. r # <<>>
    BY <2>1
  <2>3. Step(t)' = r[1]
    BY <1>1, <1>2, <2>2, TailOf DEF Step
  <2> QED BY <1>3, <2>1, <2>3 DEF Removing, Erasing
<1>4. ASSUME NEW u \in Thread \ {t}, NEW a, Removing(u, a)' PROVE Removing(u, a)
  BY <1>1, <1>4 DEF Removing, StepsOf, Step
<1> QED BY <1>3, <1>4

\* No secret changes, and no row goes but one that is being removed.
LEMMA ErasedStay ==
  ASSUME Shape, Shape', ErasedOK, NEW t \in Thread, NEW r, Continue(t, r), Remembers,
         UNCHANGED <<service, files>>, past'.missed = past.missed,
         \A a \in AccountId \ past'.undone :
           tables'.accounts[a] = NoRow => tables.accounts[a] = NoRow \/ Removing(t, a),
         \A a \in AccountId \ past'.adrift : Erasing(r, a) => Removing(t, a) \/ Erased(a)
  PROVE  ErasedOK'
<1>1. ASSUME NEW a \in AccountId \ (past'.crossed \cup past'.undone \cup past'.adrift \cup {LocalApi}),
             tables'.accounts[a] = NoRow \/ \E u \in Thread : Removing(u, a)'
      PROVE  Erased(a)'
  <2>1. Erased(a) => Erased(a)'
    BY DEF Erased
  <2>2. a \in AccountId \ (past.crossed \cup past.undone \cup past.adrift \cup {LocalApi})
    BY DEF Remembers
  <2>3. \/ tables.accounts[a] = NoRow \/ \E u \in Thread : Removing(u, a)
        \/ Erased(a)
    BY <1>1, RemovingAfter
  <2> QED BY <2>1, <2>2, <2>3 DEF ErasedOK
<1> QED BY <1>1 DEF ErasedOK

\* A step of a put or an erase changes what is stored under one account, which is
\* not being removed by anybody else; a put relies on its row, and an erase leaves
\* nothing behind that was not missed.
LEMMA ErasedStore ==
  ASSUME Shape, Shape', Alone, SecretsOK, RowsOK, ErasedOK, NEW t \in Thread, StoreStep(t)
  PROVE  ErasedOK'
<1>1. /\ ~ Idle(t) /\ tables' = tables
      /\ Step(t).op \in {"store", "unfile", "truncate", "write", "forget", "remove"}
  BY DEF StoreStep, Store, Unfile, Truncate, WriteSecret, Forget, Remove, At, Step, connection
<1>2. PICK ref \in Ref : Step(t).id = ref
  BY <1>1, NextStep, StepType DEF Shape
<1>3. Remembers /\ past'.crossed = past.crossed
  BY ThreadRemembers
<1>4. /\ \A p \in Ref : /\ service[p] \in Nat \cup {NoSecret} /\ files[p] \in Nat \cup {NoSecret, Torn}
      /\ service = [p \in Ref |-> service[p]] /\ files = [p \in Ref |-> files[p]]
      /\ past = [crossed |-> past.crossed, missed |-> past.missed, adrift |-> past.adrift,
                 late |-> past.late, mingled |-> past.mingled, undone |-> past.undone,
                 possible |-> past.possible, saved |-> past.saved]
  BY SecretTypes
<1>5. /\ script[t] # <<>> /\ Sound(script[t]) /\ Step(t) = script[t][1] /\ Step(t) \in StepsOf(t)
      /\ DOMAIN script[t] = 1 .. Len(script[t])
  BY <1>1, NextStep, StepIn DEF Shape, ScriptsOK, Idle
<1>6. ref \in Works(t)
  BY <1>1, <1>2, <1>5 DEF Works
<1>7. \A a \in Ref \ {ref} : Erased(a) => Erased(a)'
  <2>1. /\ \A a \in Ref \ {ref} : service'[a] = service[a] /\ files'[a] = files[a]
        /\ \A a \in Ref \ {ref} : a \in past.missed => a \in past'.missed
    <3>1. CASE Store(t)
      BY <1>2, <1>4, <3>1 DEF Store, StoreInService, store, Missed
    <3>2. CASE Unfile(t) \/ Truncate(t) \/ WriteSecret(t) \/ Remove(t)
      BY <1>2, <1>4, <3>2 DEF Unfile, Truncate, WriteSecret, Remove, RemoveFile, TruncateFile,
                              WriteFile, SetFile
    <3>3. CASE Forget(t)
      BY <1>2, <1>4, <3>3 DEF Forget, EraseFromService, Missed
    <3> QED BY <3>1, <3>2, <3>3 DEF StoreStep
  <2> QED BY <2>1 DEF Erased
<1>8. ASSUME NEW a \in AccountId \ past.crossed, NEW u \in Thread \ {t}, Removing(u, a)
      PROVE  a # ref
  <2>1. a \in Works(u)
    BY <1>8 DEF Works, Removing
  <2> QED BY <1>2, <1>6, <1>8, <2>1 DEF Alone
<1>9. ASSUME NEW a \in AccountId \ (past.crossed \cup past.undone \cup past.adrift \cup {LocalApi}),
             tables.accounts[a] = NoRow \/ \E u \in Thread : Removing(u, a)
      PROVE  Erased(a)
  BY <1>9 DEF ErasedOK
<1>10. CASE Step(t).op \in {"store", "unfile", "truncate", "write"}
  <2>1. \A x \in StepsOf(t) : x.op \in {"store", "unfile", "truncate", "write", "update"}
    BY <1>5, <1>10, LastSteps DEF StepsOf
  <2>2. PICK r : Goes(t, r)
    BY ThreadGoes
  <2>3. \A a : ~ Removing(t, a)'
    <3>1. Store(t) \/ Unfile(t) \/ Truncate(t) \/ WriteSecret(t)
      BY <1>10 DEF StoreStep, Forget, Remove, At, Step
    <3>2. ASSUME Advance(t) PROVE \A a : ~ Removing(t, a)'
      <4>1. \A i \in 1 .. Len(Tail(script[t])) : Tail(script[t])[i] \in StepsOf(t)
        BY <1>1, StepIn DEF Shape
      <4>2. \A a : ~ Erasing(Tail(script[t]), a)
        BY <2>1, <4>1 DEF Erasing
      <4>3. PICK q : q = Tail(script[t])
        OBVIOUS
      <4> QED BY <3>2, <4>2, <4>3, RemovingAfter DEF Advance
    <3>3. ASSUME Store(t) PROVE \A a : ~ Removing(t, a)'
      <4>0. PICK q : q = Filing(Step(t)) \o Tail(script[t])
        OBVIOUS
      <4>1. Continue(t, q) /\ Step(t).op = "store"
        BY <3>3, <4>0 DEF Store, At, Step, Filing
      <4>2. \A i \in 1 .. Len(q) : q[i].op \in {"unfile", "truncate", "write"} \/ q[i] \in StepsOf(t)
        BY <1>1, <4>0, <4>1, StoreScript DEF Shape
      <4>3. \A a : ~ Erasing(q, a)
        BY <2>1, <4>2 DEF Erasing
      <4> QED BY <4>1, <4>3, RemovingAfter
    <3> QED BY <3>1, <3>2, <3>3 DEF Unfile, Truncate, WriteSecret
  <2>4. ASSUME NEW a \in AccountId \ (past'.crossed \cup past'.undone \cup past'.adrift \cup {LocalApi}),
               tables'.accounts[a] = NoRow \/ \E u \in Thread : Removing(u, a)'
        PROVE  Erased(a)'
    <3>1. a \in AccountId \ (past.crossed \cup past.undone \cup past.adrift \cup {LocalApi}) /\ a \in Ref
      BY <1>3, AccountStorageAssumption DEF Remembers
    <3>2. CASE tables'.accounts[a] = NoRow
      <4>1. a = ref => Needs(Step(t), a) /\ Step(t).op # "choose"
        BY <1>2, <1>10, <3>1 DEF Needs, Needing
      <4>2. a # ref
        BY <1>1, <1>5, <3>1, <3>2, <4>1 DEF RowsOK
      <4> QED BY <1>1, <1>7, <1>9, <3>1, <3>2, <4>2
    <3>3. CASE \E u \in Thread : Removing(u, a)'
      <4>1. PICK u \in Thread \ {t} : Removing(u, a)'
        BY <2>3, <3>3
      <4>2. Removing(u, a)
        BY <2>2, <4>1, RemovingAfter DEF Goes
      <4>3. a # ref
        BY <1>8, <3>1, <4>2
      <4> QED BY <1>7, <1>9, <3>1, <4>2, <4>3
    <3> QED BY <2>4, <3>2, <3>3
  <2> QED BY <2>4 DEF ErasedOK
<1>11. CASE Step(t).op \in {"forget", "remove"}
  <2>1. (Forget(t) /\ Step(t).op = "forget") \/ (Remove(t) /\ Step(t).op = "remove")
    BY <1>11 DEF StoreStep, Store, Unfile, Truncate, WriteSecret, Forget, Remove, At, Step
  <2>2. PICK r : r = Tail(script[t])
    OBVIOUS
  <2>3. Continue(t, r)
    BY <2>1, <2>2 DEF Forget, Remove, Advance
  <2>4. \A a : Erasing(r, a) => Remove(t) /\ a = ref
    <3>1. ASSUME NEW a, Erasing(r, a) PROVE Step(t).op # "forget" /\ a = ref
      <4>0. PICK i \in 1 .. Len(r) : r[i].op = "dropRow" /\ r[i].id = a
        BY <3>1 DEF Erasing
      <4>1. r # <<>> /\ Sound(r)
        <5>1. Sound(r) /\ r \in Seq(AnyStep)
          BY <1>5, <2>2, SoundTail DEF Sound, Linked
        <5>2. r # <<>>
          BY <4>0, <5>1, EmptySeq
        <5> QED BY <5>1, <5>2
      <4>2. Step(t).op # "forget"
        <5>1. SUFFICES ASSUME Step(t).op = "forget" PROVE FALSE
          OBVIOUS
        <5>2. r[1] = Do("remove", Step(t).id)
          BY <1>5, <2>2, <4>1, <5>1, SoundTail DEF Adjacent
        <5>3. r[1].op = "remove"
          BY <5>2 DEF Do
        <5> QED BY <3>1, <5>3 DEF Erasing
      <4>3. DropsItsOwn(script[t])
        BY <1>5, <1>11, <4>2, RemovalDropsItsOwn
      <4>4. r[i] \in StepsOf(t)
        BY <1>1, <2>2, StepIn DEF Shape
      <4>5. r[i].id = script[t][1].id
        BY <1>5, <4>0, <4>3, <4>4 DEF StepsOf, DropsItsOwn
      <4> QED BY <1>2, <1>5, <4>0, <4>2, <4>5
    <3> QED BY <2>1, <3>1
  <2>5. Erased(ref) => Erased(ref)'
    <3>1. CASE Forget(t)
      BY <1>2, <1>4, <3>1 DEF Forget, EraseFromService, Missed, Erased
    <3>2. CASE Remove(t)
      <4>1. files'[ref] = NoSecret /\ service' = service /\ past'.missed = past.missed
        BY <1>2, <1>4, <3>2 DEF Remove, RemoveFile, SetFile
      <4> QED BY <4>1 DEF Erased
    <3> QED BY <2>1, <3>1, <3>2
  <2>6. ASSUME Remove(t), ref \notin past.crossed PROVE Erased(ref)'
    <3>1. files'[ref] = NoSecret /\ service' = service /\ past'.missed = past.missed
      BY <1>2, <1>4, <2>6 DEF Remove, RemoveFile, SetFile
    <3>2. Step(t).op = "remove"
      BY <2>6 DEF Remove, At, Step
    <3>3. FinishOK(Step(t))
      BY <1>2, <1>5, <2>6, <3>2 DEF SecretsOK, Finishing
    <3>4. service[ref] = NoSecret \/ ref \in past.missed
      BY <1>2, <3>2, <3>3 DEF FinishOK
    <3> QED BY <3>1, <3>4 DEF Erased
  <2>7. ASSUME NEW a \in AccountId \ (past'.crossed \cup past'.undone \cup past'.adrift \cup {LocalApi}),
               tables'.accounts[a] = NoRow \/ \E u \in Thread : Removing(u, a)'
        PROVE  Erased(a)'
    <3>1. a \in AccountId \ (past.crossed \cup past.undone \cup past.adrift \cup {LocalApi}) /\ a \in Ref
      BY <1>3, AccountStorageAssumption DEF Remembers
    <3>2. \/ tables.accounts[a] = NoRow \/ (\E u \in Thread \ {t} : Removing(u, a))
          \/ Remove(t) /\ a = ref
      BY <1>1, <2>3, <2>4, <2>7, RemovingAfter
    <3>3. CASE Remove(t) /\ a = ref
      BY <2>6, <3>1, <3>3
    <3>4. CASE tables.accounts[a] = NoRow \/ (\E u \in Thread \ {t} : Removing(u, a))
      <4>1. Erased(a)
        BY <1>9, <3>1, <3>4
      <4> QED BY <1>7, <2>5, <3>1, <4>1
    <3> QED BY <3>2, <3>3, <3>4
  <2> QED BY <2>7 DEF ErasedOK
<1> QED BY <1>1, <1>10, <1>11

\* The steps that erase nothing, and go on with no other deletion of a row.
LEMMA ErasedGoOn ==
  ASSUME Shape, Shape', ErasedOK, NEW t \in Thread, NEW r, Continue(t, r), Remembers,
         UNCHANGED <<service, files>>, past'.missed = past.missed,
         \A a \in AccountId \ past'.undone :
           tables'.accounts[a] = NoRow => tables.accounts[a] = NoRow \/ Removing(t, a),
         \A i \in 1 .. Len(r) : r[i].op = "dropRow" =>
           r[i] \in StepsOf(t) /\ Step(t).op \notin {"forget", "remove"}
  PROVE  ErasedOK'
<1>1. \A a : Erasing(r, a) => Removing(t, a)
  BY DEF Erasing, Removing
<1> QED BY <1>1, ErasedStay

LEMMA ErasedAdvance ==
  ASSUME Shape, Shape', ErasedOK, NEW t \in Thread, ~ Idle(t), Advance(t), Remembers,
         Step(t).op \notin {"forget", "remove"},
         UNCHANGED <<service, files>>, past'.missed = past.missed,
         \A a \in AccountId \ past'.undone :
           tables'.accounts[a] = NoRow => tables.accounts[a] = NoRow \/ Removing(t, a)
  PROVE  ErasedOK'
<1>1. \A i \in 1 .. Len(Tail(script[t])) : Tail(script[t])[i] \in StepsOf(t)
  BY StepIn DEF Shape
<1> QED BY <1>1, ErasedGoOn DEF Advance

LEMMA ErasedDatabase ==
  ASSUME Shape, Shape', ErasedOK, NEW t \in Thread, DatabaseStep(t)
  PROVE  ErasedOK'
<1> DEFINE x == Step(t)
<1>0. /\ Remembers /\ tables \in Tables /\ ScriptsOK
      /\ UNCHANGED <<service, files>> /\ past'.missed = past.missed
  BY ThreadRemembers, DatabaseLeavesSecrets DEF Shape, TypeOK, SecretsUntouched
<1>1. CASE \/ UpdateAccount(t) \/ DeleteMemberships(t) \/ ClearManual(t) \/ DeleteWindows(t)
           \/ DeleteSnapshots(t) \/ DeleteRow(t) \/ UpsertGroup(t) \/ DeleteMembers(t)
           \/ PruneLogs(t) \/ ClearLogs(t) \/ InsertSnapshot(t) \/ InsertWindow(t)
           \/ InsertMember(t) \/ InsertLog(t)
  <2>1. ~ Idle(t) /\ Advance(t)
    BY <1>1, Statement
  <2>2. \A a \in AccountId :
          tables'.accounts[a] = NoRow <=>
            tables.accounts[a] = NoRow \/ (x.op = "dropRow" /\ x.id = a)
    BY <1>1, RowStatement
  <2>3. x.op \notin {"forget", "remove"}
    BY <1>1 DEF UpdateAccount, DeleteMemberships, ClearManual, DeleteWindows, DeleteSnapshots,
                DeleteRow, UpsertGroup, DeleteMembers, PruneLogs, ClearLogs, InsertSnapshot,
                InsertWindow, InsertMember, InsertLog, At, Step
  <2>4. x \in StepsOf(t)
    BY <1>0, <2>1, StepIn
  <2>5. \A a \in AccountId :
          tables'.accounts[a] = NoRow => tables.accounts[a] = NoRow \/ Removing(t, a)
    BY <2>2, <2>4 DEF Removing
  <2> QED BY <1>0, <2>1, <2>3, <2>5, ErasedAdvance
<1>2. CASE Begin(t) \/ CommitTransaction(t)
  <2>1. ~ Idle(t) /\ x.op \in {"begin", "commit"} /\ Advance(t) /\ tables' = tables
    BY <1>2 DEF Begin, BeginImmediate, CommitTransaction, Commit, At, Step
  <2> QED BY <1>0, <2>1, ErasedAdvance
<1>3. CASE InsertAccount(t)
  <2>1. ~ Idle(t) /\ x.op = "insert" /\ Advance(t)
    BY <1>3 DEF InsertAccount, At, Step
  <2>2. tables' = tables \/ tables' = [tables EXCEPT !.accounts[x.id] = "unkeyed"]
    BY <1>3 DEF InsertAccount, Insert, Execute, connection
  <2>3. \A a \in AccountId : tables'.accounts[a] = NoRow => tables.accounts[a] = NoRow
    BY <1>0, <2>2 DEF Tables, NoRow
  <2> QED BY <1>0, <2>1, <2>3, ErasedAdvance
<1>4. CASE RollbackTransaction(t)
  <2>1. ~ Idle(t) /\ x.op = "rollback" /\ Advance(t) /\ tables' = disk
    BY <1>4 DEF RollbackTransaction, Rollback, At, Step
  <2>2. Undone \subseteq past'.undone
    <3>1. \E D : past' = [past EXCEPT !.late = @ \cup D, !.undone = @ \cup Undone]
      BY <1>4 DEF RollbackTransaction
    <3> QED BY <3>1, SecretTypes
  <2>3. \A a \in AccountId \ past'.undone : tables'.accounts[a] = NoRow => tables.accounts[a] = NoRow
    BY <2>1, <2>2 DEF Undone
  <2> QED BY <1>0, <2>1, <2>3, ErasedAdvance
<1>5. CASE BeginRefused(t) \/ NextAccountId(t)
  <2>1. PICK r : /\ Continue(t, r) /\ (r = <<>> \/ r = << Do("insert", x.id) >>)
                 /\ tables' = tables
    BY <1>5 DEF BeginRefused, NextAccountId, Step, connection
  <2>2. \A i \in 1 .. Len(r) : r[i].op # "dropRow"
    BY <2>1 DEF Do
  <2> QED BY <1>0, <2>1, <2>2, ErasedGoOn
<1>6. CASE FindAccount(t)
  <2> DEFINE a   == x.id
             row == tables.accounts[a]
             q   == IF row = NoRow THEN <<>> ELSE Rest(x.for, a, row)
  <2>0. /\ Continue(t, q) /\ a \in AccountId /\ (q = <<>> \/ OnlyAbout(q, a))
        /\ q # <<>> /\ x.for = "remove" /\ row = "keyed" => q[1].op = "forget"
        /\ q # <<>> /\ x.for # "remove" => \A i \in 1 .. Len(q) : q[i].op # "dropRow"
    BY <1>6, FoundScript
  <2>1. PICK r : r = q
    OBVIOUS
  <2>2. row = NoRow => r = <<>>
    BY <2>1
  <2>3. tables' = tables
    BY <1>6 DEF FindAccount, connection
  <2>4. x.for = "remove" /\ row = "unkeyed" /\ {service[a], files[a]} # {NoSecret}
          => a \in past'.adrift
    BY <1>6, SecretTypes DEF FindAccount
  <2>5. row \in Row \cup {NoRow}
    BY <1>0, <2>0 DEF Tables
  <2> HIDE DEF q, row, a, x
  <2>6. ASSUME NEW b \in AccountId \ past'.adrift, Erasing(r, b) PROVE Erased(b)
    <3>1. PICK i \in 1 .. Len(r) : r[i].op = "dropRow" /\ r[i].id = b
      BY <2>6 DEF Erasing
    <3>2. r # <<>>
      BY <3>1
    <3>3. x.for = "remove" /\ row # "keyed" /\ row # NoRow /\ b = a
      BY <2>0, <2>1, <2>2, <2>6, <3>1, <3>2 DEF OnlyAbout, Erasing
    <3>4. row = "unkeyed"
      BY <2>5, <3>3 DEF Row
    <3>5. {service[b], files[b]} = {NoSecret}
      BY <2>4, <3>3, <3>4
    <3> QED BY <3>5 DEF Erased
  <2> QED BY <1>0, <2>0, <2>1, <2>3, <2>6, ErasedStay
<1>7. CASE LastInsertRowid(t)
  <2> DEFINE window == [op |-> "window", id |-> x.id, snapshot |-> lastRow]
             r == << window >> \o Tail(Tail(script[t]))
  <2>1. ~ Idle(t) /\ x.op = "rowid" /\ Continue(t, r) /\ tables' = tables
    BY <1>7 DEF LastInsertRowid, At, Step, connection
  <2>2. \A i \in 1 .. Len(r) : r[i] = window \/ r[i] \in StepsOf(t)
    BY <2>1, RowidScript DEF Shape, TypeOK
  <2> HIDE DEF r
  <2>3. \A i \in 1 .. Len(r) : r[i].op = "dropRow" => r[i] \in StepsOf(t)
    BY <2>2
  <2> QED BY <1>0, <2>1, <2>3, ErasedGoOn
<1>8. CASE ChooseMembers(t) \/ CheckMember(t)
  <2>1. ~ Idle(t) /\ x.op \in {"choose", "check"} /\ tables' = tables
    BY <1>8 DEF ChooseMembers, CheckMember, At, Step, connection
  <2>2. Continue(t, <<>>) \/ Advance(t)
    BY <1>8 DEF ChooseMembers, CheckMember, Advance
  <2>3. CASE Continue(t, <<>>)
    <3>1. \A i \in 1 .. Len(<<>>) : <<>>[i].op # "dropRow"
      OBVIOUS
    <3> QED BY <1>0, <2>1, <2>3, <3>1, ErasedGoOn
  <2> QED BY <1>0, <2>1, <2>2, <2>3, ErasedAdvance
<1> QED
  BY <1>1, <1>2, <1>3, <1>4, <1>5, <1>6, <1>7, <1>8 DEF DatabaseStep

LEMMA ErasedOther ==
  ASSUME Shape, Shape', Transactions, ErasedOK,
         \/ \E t \in Thread : Start(t) \/ IgnoredFailure(t) \/ DirectoryStep(t) \/ Fails(t)
         \/ Crash \/ Exit \/ Stop \/ Restart \/ Outage
  PROVE  ErasedOK'
<1>1. ASSUME NEW t \in Thread, IgnoredFailure(t) \/ CreateHome(t) \/ RemoveHome(t) \/ RemoveTree(t)
      PROVE  ErasedOK'
  <2>1. /\ ~ Idle(t) /\ Advance(t) /\ Step(t).op \notin {"forget", "remove"} /\ tables' = tables
        /\ UNCHANGED <<service, files>>
    BY <1>1 DEF IgnoredFailure, FlushFails, UnfileFails, CreateHome, RemoveHome, RemoveTree,
                SetDir, At, Step, connection, store
  <2>2. Remembers
    BY <1>1, ThreadRemembers DEF DirectoryStep
  <2>3. past'.missed = past.missed
    BY <1>1, SecretTypes DEF IgnoredFailure, FlushFails, UnfileFails, CreateHome, RemoveHome,
                             RemoveTree, SetDir
  <2> QED BY <2>1, <2>2, <2>3, ErasedAdvance
<1>2. ASSUME NEW t \in Thread, ListAccounts(t) \/ ListDirectories(t) PROVE ErasedOK'
  <2>1. tables' = tables /\ UNCHANGED <<service, files>>
    BY <1>2 DEF ListAccounts, ListDirectories, connection, store
  <2>2. Remembers /\ past'.missed = past.missed
    BY <1>2, ThreadRemembers, DatabaseLeavesSecrets DEF DirectoryStep, SecretsUntouched
  <2>3. \E r : Continue(t, r) /\ \A i \in 1 .. Len(r) : r[i].op # "dropRow"
    <3>1. CASE ListAccounts(t)
      <4>1. PICK known : Continue(t, << [op |-> "scan", id |-> NoOne, known |-> known] >>)
        BY <3>1 DEF ListAccounts
      <4> DEFINE r == << [op |-> "scan", id |-> NoOne, known |-> known] >>
      <4>2. \A i \in 1 .. Len(r) : r[i].op # "dropRow"
        OBVIOUS
      <4> HIDE DEF r
      <4> QED BY <4>1, <4>2 DEF r
    <3>2. CASE ListDirectories(t)
      <4>1. PICK r : Continue(t, r) /\ CleanUp(t, r)
        BY <3>2, ScanScript
      <4> QED BY <4>1 DEF CleanUp
    <3> QED BY <1>2, <3>1, <3>2
  <2>4. PICK r : Continue(t, r) /\ \A i \in 1 .. Len(r) : r[i].op # "dropRow"
    BY <2>3
  <2> QED BY <2>1, <2>2, <2>4, ErasedGoOn
<1>3. ASSUME NEW t \in Thread, Fails(t) PROVE ErasedOK'
  <2>1. PICK r : Continue(t, r) /\ (r = <<>> \/ r = << Do("rollback", Step(t).id) >>)
    BY <1>3 DEF Fails
  <2>2. \A i \in 1 .. Len(r) : r[i].op # "dropRow"
    BY <2>1 DEF Do
  <2>3. tables' = tables /\ UNCHANGED <<service, files, past>>
    BY <1>3 DEF Fails, connection, store
  <2>4. Remembers
    BY <2>3 DEF Remembers
  <2> QED BY <2>1, <2>2, <2>3, <2>4, ErasedGoOn
<1>4. ASSUME NEW t \in Thread, Start(t) PROVE ErasedOK'
  <2>1. PICK q :
          /\ Continue(t, q)
          /\ \A i \in 1 .. Len(q) :
               \/ q[i].op \in First
               \/ q[i].op = "store" /\ q[i].id = LocalApi
               \/ q[1].op = "choose" /\ SaveStep(q[i], q[1].members)
    BY <1>4, StartScript
  <2>2. \A i \in 1 .. Len(q) : q[i].op # "dropRow"
    BY <2>1 DEF First, SaveStep
  <2>3. Remembers
    BY <1>4, OtherRemembers
  <2>4. tables' = tables /\ UNCHANGED <<service, files>> /\ past'.missed = past.missed
    BY <1>4 DEF Start, connection, store, Shape, TypeOK
  <2> QED BY <2>1, <2>2, <2>3, <2>4, ErasedGoOn
<1>5. CASE Crash \/ Stop
  <2>1. \A t \in Thread : script'[t] = <<>>
    BY <1>5 DEF Crash, Stop, Idle
  <2>2. \A t \in Thread : StepsOf(t)' = {}
    BY <2>1 DEF StepsOf
  <2>3. Remembers
    BY <1>5, OtherRemembers
  <2>4. UNCHANGED <<service, files>> /\ past'.missed = past.missed
    BY <1>5 DEF Crash, Stop, store, Shape, TypeOK
  <2>5. \A a \in AccountId \ past'.undone : tables'.accounts[a] = NoRow => tables.accounts[a] = NoRow
    <3>1. CASE Crash
      <4>1. tables' = disk /\ Undone \subseteq past'.undone
        BY <3>1 DEF Crash, Close, Shape, TypeOK
      <4> QED BY <4>1 DEF Undone
    <3>2. CASE Stop
      <4>1. tables' = disk /\ \A t \in Thread : ~ Inside(t)
        BY <3>2 DEF Stop, Close, Inside
      <4>2. owner = Nobody
        BY <4>1 DEF Transactions, Shape, TypeOK
      <4> QED BY <4>1, <4>2 DEF Transactions
    <3> QED BY <1>5, <3>1, <3>2
  <2> QED BY <2>2, <2>3, <2>4, <2>5 DEF ErasedOK, Removing, Erased, Remembers
<1>6. CASE Exit \/ Outage
  <2>1. UNCHANGED <<script, tables, service, files, past>>
    BY <1>6 DEF Exit, Outage, Toggle, store, connection
  <2> QED BY <2>1 DEF ErasedOK, Removing, Erased, StepsOf, Step
<1>7. CASE Restart
  <2>1. PICK r : Continue(Main, r) /\ (r = <<>> \/ r = put(LocalApi, Fresh(LocalApi)))
    BY <1>7 DEF Restart, Continue
  <2>2. \A i \in 1 .. Len(r) : r[i].op # "dropRow"
    BY <2>1 DEF put
  <2>3. UNCHANGED <<tables, service, files, past>> /\ Main \in Thread
    BY <1>7, AccountStorageAssumption DEF Restart, connection, store
  <2>4. Remembers
    BY <2>3 DEF Remembers
  <2> QED BY <2>1, <2>2, <2>3, <2>4, ErasedGoOn
<1> QED
  BY <1>1, <1>2, <1>3, <1>4, <1>5, <1>6, <1>7 DEF DirectoryStep

LEMMA ErasedInvariance == Spec => []ErasedOK
<1>1. Init => ErasedOK
  <2> SUFFICES ASSUME Init, NEW a \in AccountId \ {LocalApi}, tables.accounts[a] = NoRow
               PROVE  Erased(a)
    BY DEF Init, ErasedOK, Removing, StepsOf
  <2>1. setup.rows[a] = NoRow
    BY DEF Init, Open
  <2>2. Initially(a) = NoSecret
    BY <2>1 DEF Initially, NoRow
  <2> QED BY <2>2, AccountStorageAssumption DEF Init, Erased
<1>2. /\ Shape /\ Transactions /\ Alone /\ SecretsOK /\ RowsOK /\ ErasedOK
      /\ [Next]_vars /\ Shape'
      => ErasedOK'
  <2> SUFFICES ASSUME Shape, Transactions, Alone, SecretsOK, RowsOK, ErasedOK, [Next]_vars, Shape'
               PROVE  ErasedOK'
    OBVIOUS
  <2>1. CASE UNCHANGED vars
    BY <2>1 DEF vars, connection, store, ErasedOK, Removing, Erased, StepsOf, Step
  <2> QED BY <2>1, ErasedDatabase, ErasedStore, ErasedOther DEF Next
<1> QED
  BY <1>1, <1>2, TransactionInvariance, AloneInvariance, SecretsInvariance, RowsInvariance, PTL
  DEF Spec

\* An account without a row has no history, no membership and no secret, but for
\* what NothingLeftBehind excepts, wherever removeAccount fails or the process
\* ends, and whatever the other threads do.
THEOREM RemovedWhole == Spec => []NothingLeftBehind
<1>1. Shape /\ Transactions /\ RecordsOK /\ ErasedOK => NothingLeftBehind
  <2> SUFFICES ASSUME Shape, Transactions, RecordsOK, ErasedOK,
                      NEW a \in AccountId \ (past.crossed \cup past.undone), Gone(a)
               PROVE  /\ a \notin past.mingled => ~ Recorded(a)
                      /\ a \notin past.adrift \cup past.missed \cup {LocalApi} => ~ SecretKept(a)
    BY DEF NothingLeftBehind
  <2>1. disk.accounts[a] = NoRow /\ tables = disk
    BY DEF Gone, InTransaction, Transactions
  <2>2. a \notin past.mingled => ~ Recorded(a)
    BY <2>1 DEF RecordsOK, Unrecorded, Recorded
  <2>3. a \notin past.adrift \cup past.missed \cup {LocalApi} => ~ SecretKept(a)
    BY <2>1 DEF ErasedOK, Erased, SecretKept
  <2> QED BY <2>2, <2>3
<1> QED BY <1>1, TransactionInvariance, RecordsInvariance, ErasedInvariance, PTL

-----------------------------------------------------------------------------
(* Profiles.                                                               *)

\* The script s removes the directory of a now, or as an orphan.
Cleared(s, a) ==
  \/ s # <<>> /\ s[1].op = "removeHome" /\ s[1].id = a
  \/ s # <<>> /\ s[1].op = "scan" /\ a \notin s[1].known
  \/ \E i \in 1 .. Len(s) : s[i].op = "removeTree" /\ s[i].id = a

\* It commits the removal of a, and removes its directory then.
Removed(s, a) ==
  s # <<>> /\ s[1].op = "commit" /\ s[1].for = "remove" /\ s[1].id = a /\ Tail(s) # <<>>

\* What is cleared has no row, and what is being removed has none any more, unless
\* the row appeared after the thread has looked for it.
ProfilesOK ==
  \A t \in Thread : \A a \in AccountId : <<t, a>> \notin past.late =>
    /\ Cleared(script[t], a) => tables.accounts[a] = NoRow /\ disk.accounts[a] = NoRow
    /\ Removed(script[t], a) => tables.accounts[a] = NoRow

LEMMA ClearsIt ==
  ASSUME ScriptsOK, NEW t \in Thread, NEW a, Cleared(script[t], a) \/ Removed(script[t], a)
  PROVE  Clears(t, a)
<1> DEFINE s == script[t]
<1>1. /\ DOMAIN s = 1 .. Len(s) /\ Sound(s) /\ s \in Seq(AnyStep)
      /\ s # <<>> => 1 \in 1 .. Len(s)
  BY StepIn, EmptySeq, LenProperties DEF ScriptsOK
<1>2. CASE Cleared(s, a)
  BY <1>1, <1>2 DEF Cleared, Clears, StepsOf
<1>3. CASE Removed(s, a)
  <2>1. s # <<>> /\ Tail(s) # <<>> /\ s[1].op = "commit" /\ s[1].for = "remove" /\ s[1].id = a
    BY <1>3 DEF Removed
  <2>2. Tail(s)[1] = Do("removeHome", a) /\ Sound(Tail(s))
    BY <1>1, <2>1, SoundTail DEF Adjacent
  <2>3. Tail(s)[1].op = "removeHome" /\ Tail(s)[1].id = a
    <3>1. Do("removeHome", a).op = "removeHome" /\ Do("removeHome", a).id = a
      BY DEF Do
    <3>2. ASSUME NEW y, y = Do("removeHome", a) PROVE y.op = "removeHome" /\ y.id = a
      BY <3>1, <3>2
    <3> HIDE DEF s
    <3> QED BY <2>2, <3>2
  <2>4. 1 \in 1 .. Len(Tail(s))
    BY <2>1, <2>2, EmptySeq, LenProperties DEF Sound, Linked
  <2>5. Tail(s)[1] \in StepsOf(t)
    BY <2>1, <2>4, StepIn DEF Idle
  <2> QED BY <2>3, <2>5 DEF Clears
<1> QED BY <1>2, <1>3

\* A script goes on with what it was to clear.
LEMMA TailClears ==
  ASSUME NEW s, Sound(s), s # <<>>, NEW a
  PROVE  /\ Cleared(Tail(s), a) => Cleared(s, a) \/ Removed(s, a)
         /\ Removed(Tail(s), a) => s[1].op = "dropRow" /\ s[1].id = a
<1> DEFINE r == Tail(s)
<1>1. /\ r \in Seq(AnyStep) /\ Len(r) = Len(s) - 1 /\ Len(s) \in Nat \ {0}
      /\ \A j \in 1 .. Len(s) - 1 : r[j] = s[j + 1]
  BY TailOf DEF Sound, Linked
<1>2. r # <<>> => Adjacent(s[1], r[1])
  BY SoundTail
<1> HIDE DEF r
<1>3. ASSUME Cleared(r, a) PROVE Cleared(s, a) \/ Removed(s, a)
  <2>1. CASE r # <<>> /\ r[1].op = "removeHome" /\ r[1].id = a
    <3>1. s[1] = CommitOf("remove", a)
      BY <1>2, <2>1 DEF Adjacent
    <3>2. s[1].op = "commit" /\ s[1].for = "remove" /\ s[1].id = a
      BY <3>1 DEF CommitOf
    <3> QED BY <2>1, <3>2 DEF Removed, r
  <2>2. CASE r # <<>> /\ r[1].op = "scan" /\ a \notin r[1].known
    BY <1>2, <2>2 DEF Adjacent
  <2>3. CASE \E i \in 1 .. Len(r) : r[i].op = "removeTree" /\ r[i].id = a
    <3>1. PICK i \in 1 .. Len(r) : r[i].op = "removeTree" /\ r[i].id = a
      BY <2>3
    <3>2. i \in 1 .. Len(s) - 1 /\ i + 1 \in 1 .. Len(s)
      BY <1>1
    <3>3. s[i + 1].op = "removeTree" /\ s[i + 1].id = a
      BY <1>1, <3>1, <3>2
    <3> QED BY <3>2, <3>3 DEF Cleared
  <2> QED BY <1>3, <2>1, <2>2, <2>3 DEF Cleared
<1>4. ASSUME Removed(r, a) PROVE s[1].op = "dropRow" /\ s[1].id = a
  <2>1. /\ r # <<>> /\ r[1].op = "commit" /\ r[1].for = "remove" /\ r[1].id = a
    BY <1>4 DEF Removed
  <2>2. Adjacent(s[1], r[1])
    BY <1>2, <2>1
  <2>3. s[1].op \in Opening
    BY <2>1, <2>2 DEF Adjacent, Inner
  <2>4. \A b : CommitOf("remove", b).id = b /\ CommitOf("quota", b).for = "quota"
    BY DEF CommitOf
  <2>5. \A op, b : Do(op, b).op = op
    BY DEF Do
  <2>6. s[1].op \notin {"begin", "leave", "unpin", "dropWindows", "dropSnapshots", "snapshot",
                        "rowid", "window", "group", "dropMembers", "member"}
    <3>1. s[1].op \notin {"begin", "group", "dropMembers", "member"}
      BY <2>1, <2>2 DEF Adjacent
    <3>2. s[1].op \notin {"leave", "unpin", "dropWindows", "dropSnapshots", "snapshot", "rowid"}
      BY <2>1, <2>2, <2>5 DEF Adjacent
    <3>3. s[1].op # "window"
      BY <2>1, <2>2, <2>4 DEF Adjacent
    <3> QED BY <3>1, <3>2, <3>3
  <2>7. s[1].op = "dropRow"
    BY <2>3, <2>6 DEF Opening
  <2>8. r[1] = CommitOf("remove", s[1].id)
    BY <2>2, <2>7 DEF Adjacent
  <2> QED BY <2>1, <2>4, <2>7, <2>8
<1> QED BY <1>3, <1>4 DEF r

\* A thread goes on, and no row appears that others were to clear.
LEMMA ProfilesStay ==
  ASSUME ScriptsOK, ProfilesOK, NEW t \in Thread, NEW r, Continue(t, r),
         \A u \in Thread \ {t} : \A a \in AccountId :
           <<u, a>> \in past.late => <<u, a>> \in past'.late,
         \A u \in Thread \ {t} : \A a \in AccountId : <<u, a>> \notin past'.late =>
           /\ Cleared(script[u], a) /\ tables.accounts[a] = NoRow /\ disk.accounts[a] = NoRow =>
                tables'.accounts[a] = NoRow /\ disk'.accounts[a] = NoRow
           /\ Removed(script[u], a) /\ tables.accounts[a] = NoRow => tables'.accounts[a] = NoRow,
         \A a \in AccountId : <<t, a>> \notin past'.late =>
           /\ Cleared(r, a) => tables'.accounts[a] = NoRow /\ disk'.accounts[a] = NoRow
           /\ Removed(r, a) => tables'.accounts[a] = NoRow
  PROVE  ProfilesOK'
<1>1. script'[t] = r /\ \A u \in Thread : u # t => script'[u] = script[u]
  BY DEF ScriptsOK, Continue
<1>2. ASSUME NEW u \in Thread, NEW a \in AccountId, <<u, a>> \notin past'.late
      PROVE  /\ Cleared(script'[u], a) => tables'.accounts[a] = NoRow /\ disk'.accounts[a] = NoRow
             /\ Removed(script'[u], a) => tables'.accounts[a] = NoRow
  <2>1. CASE u = t
    BY <1>1, <1>2, <2>1
  <2>2. CASE u # t
    <3>1. <<u, a>> \notin past.late /\ script'[u] = script[u]
      BY <1>1, <1>2, <2>2
    <3>2. /\ Cleared(script[u], a) => tables.accounts[a] = NoRow /\ disk.accounts[a] = NoRow
          /\ Removed(script[u], a) => tables.accounts[a] = NoRow
      BY <3>1 DEF ProfilesOK
    <3> QED BY <1>2, <2>2, <3>1, <3>2
  <2> QED BY <2>1, <2>2
<1> QED BY <1>2 DEF ProfilesOK, Cleared, Removed

\* The thread clears nothing new, and the tables stay.
LEMMA ProfilesGoOn ==
  ASSUME ScriptsOK, ProfilesOK, NEW t \in Thread, NEW r, Continue(t, r),
         past.late \subseteq past'.late, UNCHANGED <<tables, disk>>,
         \A a \in AccountId : ~ Removed(r, a) /\ (Cleared(r, a) => Cleared(script[t], a))
  PROVE  ProfilesOK'
<1>1. \A a \in AccountId : <<t, a>> \notin past'.late /\ Cleared(r, a) =>
        tables'.accounts[a] = NoRow /\ disk'.accounts[a] = NoRow
  BY DEF ProfilesOK
<1> QED BY <1>1, ProfilesStay

\* The steps that do not begin to clear.
LEMMA NotClearing ==
  ASSUME NEW r, \A i \in 1 .. Len(r) : r[i].op # "removeTree",
         r # <<>> => r[1].op \notin {"removeHome", "scan", "commit"}
  PROVE  \A a : ~ Removed(r, a) /\ ~ Cleared(r, a)
BY DEF Removed, Cleared

LEMMA ProfilesAdvance ==
  ASSUME ScriptsOK, ProfilesOK, NEW t \in Thread, ~ Idle(t), Advance(t),
         past.late \subseteq past'.late, Step(t).op \notin {"dropRow", "commit"},
         UNCHANGED <<tables, disk>>
  PROVE  ProfilesOK'
<1>1. script[t] # <<>> /\ Sound(script[t]) /\ Step(t) = script[t][1]
  BY NextStep DEF ScriptsOK, Idle
<1>2. PICK r : r = Tail(script[t])
  OBVIOUS
<1>3. \A a \in AccountId : ~ Removed(r, a) /\ (Cleared(r, a) => Cleared(script[t], a))
  BY <1>1, <1>2, TailClears DEF Removed
<1> QED BY <1>2, <1>3, ProfilesGoOn DEF Advance

LEMMA ProfilesStatement ==
  ASSUME Shape, ProfilesOK, NEW t \in Thread,
         \/ UpdateAccount(t) \/ DeleteMemberships(t) \/ ClearManual(t) \/ DeleteWindows(t)
         \/ DeleteSnapshots(t) \/ DeleteRow(t) \/ UpsertGroup(t) \/ DeleteMembers(t)
         \/ PruneLogs(t) \/ ClearLogs(t) \/ InsertSnapshot(t) \/ InsertWindow(t)
         \/ InsertMember(t) \/ InsertLog(t)
  PROVE  ProfilesOK'
<1>1. /\ ~ Idle(t) /\ Advance(t) /\ past' = past /\ Step(t).op # "commit"
      /\ disk' = disk \/ disk' = tables'
  BY Statement DEF Execute
<1>2. /\ \A a \in AccountId : tables.accounts[a] = NoRow => tables'.accounts[a] = NoRow
      /\ \A a \in AccountId :
           Step(t).op = "dropRow" /\ Step(t).id = a => tables'.accounts[a] = NoRow
  BY RowStatement
<1>3. ScriptsOK /\ Sound(script[t]) /\ script[t] # <<>> /\ Step(t) = script[t][1]
  BY <1>1, NextStep DEF Shape, ScriptsOK, Idle
<1>4. PICK r : r = Tail(script[t])
  OBVIOUS
<1>5. Continue(t, r)
  BY <1>1, <1>4 DEF Advance
<1>6. ASSUME NEW a \in AccountId, tables.accounts[a] = NoRow, disk.accounts[a] = NoRow
      PROVE  tables'.accounts[a] = NoRow /\ disk'.accounts[a] = NoRow
  BY <1>1, <1>2, <1>6
<1>7. ASSUME NEW a \in AccountId, <<t, a>> \notin past'.late
      PROVE  /\ Cleared(r, a) => tables'.accounts[a] = NoRow /\ disk'.accounts[a] = NoRow
             /\ Removed(r, a) => tables'.accounts[a] = NoRow
  <2>1. /\ Cleared(r, a) => Cleared(script[t], a) \/ Removed(script[t], a)
        /\ Removed(r, a) => Step(t).op = "dropRow" /\ Step(t).id = a
    BY <1>3, <1>4, TailClears
  <2>2. ~ Removed(script[t], a)
    BY <1>1, <1>3 DEF Removed
  <2>3. <<t, a>> \notin past.late
    BY <1>1, <1>7
  <2>4. Cleared(script[t], a) => tables.accounts[a] = NoRow /\ disk.accounts[a] = NoRow
    BY <2>3 DEF ProfilesOK
  <2> QED BY <1>2, <1>6, <2>1, <2>2, <2>4
<1>8. \A u \in Thread \ {t} : \A a \in AccountId :
        /\ Cleared(script[u], a) /\ tables.accounts[a] = NoRow /\ disk.accounts[a] = NoRow =>
             tables'.accounts[a] = NoRow /\ disk'.accounts[a] = NoRow
        /\ Removed(script[u], a) /\ tables.accounts[a] = NoRow => tables'.accounts[a] = NoRow
  BY <1>2, <1>6
<1> QED BY <1>1, <1>3, <1>5, <1>7, <1>8, ProfilesStay

\* A row that appears is late for the other threads that clear it.
LEMMA ProfilesInsert ==
  ASSUME Shape, ProfilesOK, NEW t \in Thread, InsertAccount(t)
  PROVE  ProfilesOK'
<1>1. /\ ~ Idle(t) /\ Step(t).op = "insert" /\ Advance(t) /\ ScriptsOK
      /\ past.late \subseteq past'.late
  BY ThreadRemembers DEF DatabaseStep, InsertAccount, At, Step, Shape
<1>2. Tail(script[t]) = <<>>
  BY <1>1, NextStep DEF Adjacent
<1>3. Continue(t, <<>>)
  BY <1>1, <1>2 DEF Advance
<1>4. disk' = disk \/ disk' = tables'
  BY <1>1 DEF InsertAccount, Insert, Execute, connection
<1>5. tables' = tables \/ Appearing(t, tables, tables') \subseteq past'.late
  <2> DEFINE new == [tables EXCEPT !.accounts[Step(t).id] = "unkeyed"]
  <2>1. \/ tables' = tables
        \/ tables' = new /\ past' = [past EXCEPT !.late = @ \cup Appearing(t, tables, new)]
    BY DEF InsertAccount, Insert, Execute, connection
  <2> HIDE DEF new
  <2> QED BY <2>1, SecretTypes
<1>6. ASSUME NEW u \in Thread \ {t}, NEW a \in AccountId, <<u, a>> \notin past'.late,
             Cleared(script[u], a) \/ Removed(script[u], a), tables.accounts[a] = NoRow
      PROVE  tables'.accounts[a] = NoRow
  <2>1. Clears(u, a)
    BY <1>1, <1>6, ClearsIt
  <2>2. ASSUME tables'.accounts[a] # NoRow PROVE <<u, a>> \in Appearing(t, tables, tables')
    BY <1>6, <2>1, <2>2 DEF Appearing
  <2> QED BY <1>5, <1>6, <2>2
<1>7. \A a : ~ Cleared(<<>>, a) /\ ~ Removed(<<>>, a)
  BY NotClearing
<1> QED BY <1>1, <1>3, <1>4, <1>6, <1>7, ProfilesStay

\* Only the thread that is inside commits, and what it has deleted is deleted
\* then; what a rollback brings back was on the disk.
LEMMA ProfilesEnd ==
  ASSUME Shape, Transactions, ProfilesOK, NEW t \in Thread,
         CommitTransaction(t) \/ RollbackTransaction(t)
  PROVE  ProfilesOK'
<1>1. ~ Idle(t) /\ Advance(t) /\ ScriptsOK /\ past.late \subseteq past'.late
  BY ThreadRemembers DEF DatabaseStep, CommitTransaction, RollbackTransaction, At, Shape
<1>2. Sound(script[t]) /\ script[t] # <<>> /\ Step(t) = script[t][1]
  BY <1>1, NextStep DEF ScriptsOK, Idle
<1>3. PICK r : r = Tail(script[t])
  OBVIOUS
<1>4. Continue(t, r)
  BY <1>1, <1>3 DEF Advance
<1>5. CASE CommitTransaction(t)
  <2>1. tables' = tables /\ disk' = tables /\ Step(t).op = "commit"
    BY <1>5 DEF CommitTransaction, Commit, At, Step
  <2>2. ASSUME NEW a \in AccountId, <<t, a>> \notin past'.late
        PROVE  ~ Removed(r, a) /\ (Cleared(r, a) => tables.accounts[a] = NoRow)
    <3>1. /\ Cleared(r, a) => Cleared(script[t], a) \/ Removed(script[t], a)
          /\ ~ Removed(r, a)
      BY <1>2, <1>3, <2>1, TailClears
    <3>2. <<t, a>> \notin past.late
      BY <1>1, <2>2
    <3> QED BY <3>1, <3>2 DEF ProfilesOK
  <2> QED BY <1>1, <1>4, <2>1, <2>2, ProfilesStay
<1>6. CASE RollbackTransaction(t)
  <2>1. tables' = disk /\ disk' = disk /\ Step(t).op = "rollback"
    BY <1>6 DEF RollbackTransaction, Rollback, At, Step
  <2>2. r = <<>>
    BY <1>2, <1>3, <2>1, LastSteps
  <2>3. \A a : ~ Cleared(r, a) /\ ~ Removed(r, a)
    BY <2>2, NotClearing
  <2>4. owner = t
    BY <1>1, <2>1 DEF Transactions, Inside, Inner
  <2>5. ASSUME NEW u \in Thread \ {t}, NEW a, Removed(script[u], a) PROVE FALSE
    <3>1. ~ Idle(u) /\ Step(u).op = "commit"
      BY <1>1, <2>5, NextStep DEF Removed, Idle
    <3>2. owner = u
      BY <3>1 DEF Transactions, Inside, Inner
    <3> QED BY <2>4, <3>2
  <2> QED BY <1>1, <1>4, <2>1, <2>3, <2>5, ProfilesStay
<1> QED BY <1>5, <1>6

LEMMA ProfilesDatabase ==
  ASSUME Shape, Transactions, ProfilesOK, NEW t \in Thread, DatabaseStep(t)
  PROVE  ProfilesOK'
<1> DEFINE x == Step(t)
<1>0. past.late \subseteq past'.late /\ ScriptsOK /\ lastRow \in Nat
  BY ThreadRemembers DEF Shape, TypeOK
<1>1. CASE \/ UpdateAccount(t) \/ DeleteMemberships(t) \/ ClearManual(t) \/ DeleteWindows(t)
           \/ DeleteSnapshots(t) \/ DeleteRow(t) \/ UpsertGroup(t) \/ DeleteMembers(t)
           \/ PruneLogs(t) \/ ClearLogs(t) \/ InsertSnapshot(t) \/ InsertWindow(t)
           \/ InsertMember(t) \/ InsertLog(t)
  BY <1>1, ProfilesStatement
<1>2. CASE Begin(t)
  <2>1. ~ Idle(t) /\ x.op = "begin" /\ Advance(t) /\ UNCHANGED <<tables, disk>>
    BY <1>2 DEF Begin, BeginImmediate, At, Step
  <2> QED BY <1>0, <2>1, ProfilesAdvance
<1>3. CASE InsertAccount(t)
  BY <1>3, ProfilesInsert
<1>4. CASE CommitTransaction(t) \/ RollbackTransaction(t)
  BY <1>4, ProfilesEnd
<1>5. CASE BeginRefused(t) \/ NextAccountId(t)
  <2>1. PICK r : /\ Continue(t, r) /\ (r = <<>> \/ r = << Do("rollback", x.id) >>
                                         \/ r = << Do("insert", x.id) >>)
                 /\ UNCHANGED <<tables, disk>>
    BY <1>5 DEF BeginRefused, NextAccountId, connection
  <2>2. \A a : ~ Removed(r, a) /\ ~ Cleared(r, a)
    BY <2>1 DEF Do, Removed, Cleared
  <2> QED BY <1>0, <2>1, <2>2, ProfilesGoOn
<1>6. CASE FindAccount(t)
  <2> DEFINE row == tables.accounts[x.id]
             q == IF row = NoRow THEN <<>> ELSE Rest(x.for, x.id, row)
  <2>1. Continue(t, q) /\ (q = <<>> \/ OnlyAbout(q, x.id))
    BY <1>6, FoundScript
  <2>2. UNCHANGED <<tables, disk>>
    BY <1>6 DEF FindAccount, connection
  <2> HIDE DEF q
  <2>3. \A a : ~ Removed(q, a) /\ ~ Cleared(q, a)
    <3>1. CASE q = <<>>
      BY <3>1, NotClearing
    <3>2. CASE OnlyAbout(q, x.id)
      BY <3>2, NotClearing DEF OnlyAbout, Starts
    <3> QED BY <2>1, <3>1, <3>2
  <2> QED BY <1>0, <2>1, <2>2, <2>3, ProfilesGoOn
<1>7. CASE LastInsertRowid(t)
  <2> DEFINE window == [op |-> "window", id |-> x.id, snapshot |-> lastRow]
             r == << window >> \o Tail(Tail(script[t]))
  <2>1. ~ Idle(t) /\ x.op = "rowid" /\ Continue(t, r) /\ UNCHANGED <<tables, disk>>
    BY <1>7 DEF LastInsertRowid, At, Step, connection
  <2>2. r[1] = window /\ \A i \in 1 .. Len(r) : r[i] = window \/ r[i] \in StepsOf(t)
    BY <1>0, <2>1, RowidScript
  <2>3. window.op = "window"
    OBVIOUS
  <2> HIDE DEF r, window
  <2>4. \A a : ~ Removed(r, a) /\ (Cleared(r, a) => Cleared(script[t], a))
    BY <1>0, <2>2, <2>3, StepIn DEF Removed, Cleared, StepsOf
  <2> QED BY <1>0, <2>1, <2>4, ProfilesGoOn
<1>8. CASE ChooseMembers(t) \/ CheckMember(t)
  <2>1. ~ Idle(t) /\ x.op \in {"choose", "check"} /\ UNCHANGED <<tables, disk>>
    BY <1>8 DEF ChooseMembers, CheckMember, At, Step, connection
  <2>2. Continue(t, <<>>) \/ Advance(t)
    BY <1>8 DEF ChooseMembers, CheckMember, Advance
  <2>3. CASE Continue(t, <<>>)
    <3>1. \A a \in AccountId : ~ Removed(<<>>, a) /\ ~ Cleared(<<>>, a)
      BY DEF Removed, Cleared
    <3>2. past.late \subseteq past'.late
      BY <1>0
    <3> QED BY <1>0, <2>1, <2>3, <3>1, <3>2, ProfilesGoOn
  <2> QED BY <1>0, <2>1, <2>2, <2>3, ProfilesAdvance
<1> QED
  BY <1>1, <1>2, <1>3, <1>4, <1>5, <1>6, <1>7, <1>8 DEF DatabaseStep

LEMMA ProfilesOther ==
  ASSUME Shape, ProfilesOK,
         \/ \E t \in Thread : Start(t) \/ StoreStep(t) \/ IgnoredFailure(t) \/ DirectoryStep(t) \/ Fails(t)
         \/ Crash \/ Exit \/ Stop \/ Restart \/ Outage
  PROVE  ProfilesOK'
<1>0. ScriptsOK
  BY DEF Shape
<1>1. ASSUME NEW t \in Thread, Store(t) PROVE ProfilesOK'
  <2>1. ~ Idle(t) /\ Step(t).op = "store" /\ UNCHANGED <<tables, disk>>
    BY <1>1 DEF Store, At, Step, connection
  <2>2. PICK r : r = Filing(Step(t)) \o Tail(script[t])
    OBVIOUS
  <2>3. Continue(t, r)
    BY <1>1, <2>2 DEF Store, Filing
  <2>4. /\ r[1].op \in {"unfile", "truncate"}
        /\ \A i \in 1 .. Len(r) : r[i].op # "removeTree" \/ r[i] \in StepsOf(t)
    BY <1>0, <2>1, <2>2, StoreScript
  <2>5. \A a : ~ Removed(r, a) /\ (Cleared(r, a) => Cleared(script[t], a))
    BY <1>0, <2>4, StepIn DEF Removed, Cleared, StepsOf
  <2>6. past.late \subseteq past'.late
    BY <1>1, ThreadRemembers DEF StoreStep, Shape
  <2> QED BY <1>0, <2>1, <2>3, <2>5, <2>6, ProfilesGoOn
<1>2. ASSUME NEW t \in Thread,
             \/ Unfile(t) \/ Truncate(t) \/ WriteSecret(t) \/ Forget(t) \/ Remove(t) \/ IgnoredFailure(t)
             \/ CreateHome(t) \/ RemoveHome(t) \/ RemoveTree(t)
      PROVE  ProfilesOK'
  <2>1. /\ ~ Idle(t) /\ Advance(t) /\ Step(t).op \notin {"dropRow", "commit"}
        /\ UNCHANGED <<tables, disk>>
    BY <1>2 DEF Unfile, Truncate, WriteSecret, Forget, Remove, IgnoredFailure, FlushFails,
                UnfileFails, CreateHome, RemoveHome,
                RemoveTree, SetDir, At, Step, connection
  <2>2. past.late \subseteq past'.late
    BY <1>2, ThreadRemembers DEF StoreStep, DirectoryStep
  <2> QED BY <1>0, <2>1, <2>2, ProfilesAdvance
<1>3. ASSUME NEW t \in Thread, ListAccounts(t) PROVE ProfilesOK'
  <2> DEFINE known == {a \in AccountId : tables.accounts[a] # NoRow}
             r == << [op |-> "scan", id |-> NoOne, known |-> known] >>
             late == {t} \X {a \in AccountId \ known : disk.accounts[a] # NoRow}
  <2>1. Continue(t, r) /\ UNCHANGED <<tables, disk>>
    BY <1>3 DEF ListAccounts, connection
  <2>2. late \subseteq past'.late
    <3>1. past' = [past EXCEPT !.late = @ \cup late]
      BY <1>3 DEF ListAccounts
    <3> HIDE DEF late
    <3> QED BY <3>1, SecretTypes
  <2>3. past.late \subseteq past'.late
    BY <1>3, ThreadRemembers DEF DirectoryStep
  <2>4. \A a \in AccountId : ~ Removed(r, a) /\ (Cleared(r, a) => a \notin known)
    <3>1. ASSUME NEW k PROVE LET q == << [op |-> "scan", id |-> NoOne, known |-> k] >>
                             IN  \A a \in AccountId : ~ Removed(q, a) /\ (Cleared(q, a) => a \notin k)
      BY DEF Removed, Cleared
    <3> QED BY <3>1
  <2>5. \A a \in AccountId : <<t, a>> \notin past'.late /\ Cleared(r, a) =>
          tables'.accounts[a] = NoRow /\ disk'.accounts[a] = NoRow
    BY <2>1, <2>2, <2>4
  <2> HIDE DEF r
  <2> QED BY <1>0, <2>1, <2>3, <2>4, <2>5, ProfilesStay
<1>4. ASSUME NEW t \in Thread, ListDirectories(t) PROVE ProfilesOK'
  <2>1. PICK r : Continue(t, r) /\ CleanUp(t, r)
    BY <1>4, ScanScript
  <2>2. /\ ~ Idle(t) /\ Step(t).op = "scan" /\ UNCHANGED <<tables, disk>>
    BY <1>4 DEF ListDirectories, At, Step, connection
  <2>3. script[t] # <<>> /\ Step(t) = script[t][1]
    BY <1>0, <2>2, NextStep DEF Idle
  <2>4. \A a : ~ Removed(r, a) /\ (Cleared(r, a) => Cleared(script[t], a))
    BY <2>1, <2>2, <2>3 DEF CleanUp, Removed, Cleared
  <2>5. past.late \subseteq past'.late
    BY <1>4, ThreadRemembers DEF DirectoryStep
  <2> QED BY <1>0, <2>1, <2>2, <2>4, <2>5, ProfilesGoOn
<1>5. ASSUME NEW t \in Thread, Fails(t) PROVE ProfilesOK'
  <2>1. PICK r : /\ Continue(t, r) /\ (r = <<>> \/ r = << Do("rollback", Step(t).id) >>)
                 /\ UNCHANGED <<tables, disk>>
    BY <1>5 DEF Fails, connection
  <2>2. \A a : ~ Removed(r, a) /\ ~ Cleared(r, a)
    BY <2>1 DEF Do, Removed, Cleared
  <2>3. past.late \subseteq past'.late
    BY <1>5, ThreadRemembers
  <2> QED BY <1>0, <2>1, <2>2, <2>3, ProfilesGoOn
<1>6. ASSUME NEW t \in Thread, Start(t) PROVE ProfilesOK'
  <2>1. PICK q :
          /\ Continue(t, q) /\ Sound(q) /\ q # <<>>
          /\ q[1].op \in First \cup {"store", "choose"}
          /\ \A i \in 1 .. Len(q) :
               \/ q[i].op \in First
               \/ q[i].op = "store" /\ q[i].id = LocalApi
               \/ q[1].op = "choose" /\ SaveStep(q[i], q[1].members)
    BY <1>6, StartScript
  <2>2. /\ UNCHANGED <<tables, disk>>
        /\ \A u \in Thread \ {t} : \A a : <<u, a>> \in past.late => <<u, a>> \in past'.late
    <3>1. /\ UNCHANGED <<tables, disk>>
          /\ \E C : past' = [past EXCEPT !.crossed = C, !.late = {p \in @ : p[1] # t}]
      BY <1>6 DEF Start, connection
    <3>2. past'.late = {p \in past.late : p[1] # t}
      BY <3>1, SecretTypes
    <3> QED BY <3>1, <3>2
  <2>3. \A a : ~ Removed(q, a) /\ ~ Cleared(q, a)
    <3>1. \A i \in 1 .. Len(q) : q[i].op # "removeTree"
      BY <2>1 DEF First, SaveStep
    <3>2. q[1].op \notin {"removeHome", "scan", "commit"}
      BY <2>1 DEF First
    <3> QED BY <3>1, <3>2, NotClearing
  <2> QED BY <1>0, <2>1, <2>2, <2>3, ProfilesStay
<1>7. CASE Crash \/ Stop
  <2>1. \A t \in Thread : script'[t] = <<>>
    BY <1>7 DEF Crash, Stop, Idle
  <2>2. \A a : ~ Cleared(<<>>, a) /\ ~ Removed(<<>>, a)
    BY NotClearing
  <2>3. \A a : \A t \in Thread : ~ Cleared(script'[t], a) /\ ~ Removed(script'[t], a)
    BY <2>1, <2>2
  <2> QED BY <2>3 DEF ProfilesOK, Cleared, Removed
<1>8. CASE Exit \/ Outage
  <2>1. UNCHANGED <<script, tables, disk, past>>
    BY <1>8 DEF Exit, Outage, connection
  <2> QED BY <2>1 DEF ProfilesOK, Cleared, Removed
<1>9. CASE Restart
  <2>1. PICK r : Continue(Main, r) /\ (r = <<>> \/ r = put(LocalApi, Fresh(LocalApi)))
    BY <1>9 DEF Restart, Continue
  <2>2. \A a : ~ Removed(r, a) /\ ~ Cleared(r, a)
    BY <2>1 DEF put, Removed, Cleared
  <2>3. UNCHANGED <<tables, disk, past>> /\ Main \in Thread
    BY <1>9, AccountStorageAssumption DEF Restart, connection
  <2> QED BY <1>0, <2>1, <2>2, <2>3, ProfilesGoOn
<1> QED
  BY <1>1, <1>2, <1>3, <1>4, <1>5, <1>6, <1>7, <1>8, <1>9 DEF StoreStep, DirectoryStep

LEMMA ProfilesInvariance == Spec => []ProfilesOK
<1>1. Init => ProfilesOK
  <2>1. \A a : ~ Cleared(<<>>, a) /\ ~ Removed(<<>>, a)
    BY NotClearing
  <2>2. Init => \A t \in Thread : script[t] = <<>>
    BY DEF Init
  <2> QED BY <2>1, <2>2 DEF ProfilesOK
<1>2. Shape /\ Transactions /\ ProfilesOK /\ [Next]_vars => ProfilesOK'
  <2> SUFFICES ASSUME Shape, Transactions, ProfilesOK, [Next]_vars PROVE ProfilesOK'
    OBVIOUS
  <2>1. CASE UNCHANGED vars
    BY <2>1 DEF vars, connection, ProfilesOK, Cleared, Removed
  <2> QED BY <2>1, ProfilesDatabase, ProfilesOther DEF Next
<1> QED BY <1>1, <1>2, TransactionInvariance, PTL DEF Spec

\* The profile of an account with a row is only removed by a thread that has looked
\* for the row before it appeared, or while another thread was deleting it.
THEOREM ProfilesStand == Spec => ProfilesKept
<1> DEFINE HomeKept == \A a \in AccountId :
             dirs[a] = "profile" /\ dirs'[a] # "profile" /\ disk.accounts[a] # NoRow
               => \E t \in Thread : script'[t] # script[t] /\ <<t, a>> \in past.late
<1>1. Shape /\ ProfilesOK /\ [Next]_vars => [HomeKept]_vars
  <2> SUFFICES ASSUME Shape, ProfilesOK, Next,
                      NEW a \in AccountId, dirs[a] = "profile", dirs'[a] # "profile",
                      disk.accounts[a] # NoRow
               PROVE  \E t \in Thread : script'[t] # script[t] /\ <<t, a>> \in past.late
    OBVIOUS
  <2>1. PICK t \in Thread : CreateHome(t) \/ RemoveHome(t) \/ RemoveTree(t)
    <3>1. (\E t \in Thread : CreateHome(t) \/ RemoveHome(t) \/ RemoveTree(t)) \/ dirs' = dirs
      <4>1. ASSUME NEW t \in Thread, DatabaseStep(t) PROVE dirs' = dirs
        BY <4>1 DEF DatabaseStep, Begin, BeginRefused, CommitTransaction, RollbackTransaction,
           NextAccountId, InsertAccount, FindAccount, UpdateAccount, DeleteMemberships,
           ClearManual, DeleteWindows, DeleteSnapshots, DeleteRow, InsertSnapshot,
           LastInsertRowid, InsertWindow, ChooseMembers, CheckMember, UpsertGroup,
           DeleteMembers, InsertMember, InsertLog, PruneLogs, ClearLogs, Runs
      <4>2. ASSUME NEW t \in Thread, StoreStep(t) \/ Start(t) \/ Fails(t) \/ IgnoredFailure(t)
            PROVE  dirs' = dirs
        BY <4>2 DEF StoreStep, Store, Unfile, Truncate, WriteSecret, Forget, Remove, Start,
           Fails, IgnoredFailure, FlushFails, UnfileFails
      <4>3. ASSUME Crash \/ Exit \/ Stop \/ Restart \/ Outage PROVE dirs' = dirs
        BY <4>3 DEF Crash, Exit, Stop, Restart, Outage
      <4> QED
        BY <4>1, <4>2, <4>3 DEF Next, DirectoryStep, ListAccounts, ListDirectories
    <3> QED BY <3>1
  <2>2. dirs' = [dirs EXCEPT ![Step(t).id] = dirs'[Step(t).id]] /\ ~ Idle(t)
        /\ dirs \in [AccountId -> {"profile", "empty", "none"}]
    BY <2>1 DEF CreateHome, RemoveHome, RemoveTree, SetDir, At, Shape, TypeOK
  <2>3. Step(t).id = a /\ Step(t).op \in {"removeHome", "removeTree"}
    BY <2>1, <2>2 DEF CreateHome, RemoveHome, RemoveTree, SetDir, At, Step
  <2>4. ScriptsOK /\ script[t] # <<>> /\ Step(t) = script[t][1]
    BY <2>2, NextStep DEF Shape, Idle
  <2>5. 1 \in 1 .. Len(script[t])
    BY <2>4, EmptySeq, LenProperties DEF ScriptsOK
  <2>6. Cleared(script[t], a)
    BY <2>3, <2>4, <2>5 DEF Cleared
  <2>7. <<t, a>> \in past.late
    BY <2>6 DEF ProfilesOK
  <2>8. script'[t] = Tail(script[t])
    <3>1. Advance(t)
      BY <2>1 DEF CreateHome, RemoveHome, RemoveTree, SetDir
    <3> QED BY <2>4, <3>1 DEF Advance, Continue, ScriptsOK
  <2>9. Len(script'[t]) = Len(script[t]) - 1 /\ Len(script[t]) \in Nat
    BY <2>4, <2>8, TailOf DEF ScriptsOK
  <2>10. script'[t] # script[t]
    <3> SUFFICES ASSUME script'[t] = script[t] PROVE FALSE
      OBVIOUS
    <3>1. Len(script'[t]) = Len(script[t])
      OBVIOUS
    <3> QED BY <2>9, <3>1
  <2> QED BY <2>7, <2>10
<1>2. Spec => [][HomeKept]_vars
  BY <1>1, TransactionInvariance, ProfilesInvariance, PTL DEF Spec
<1> QED BY <1>2 DEF ProfilesKept

=============================================================================
