------------------------- MODULE StreamRelayProofs -------------------------
(***************************************************************************)
(* Theorems about StreamRelay, for every set of accounts, groups, edits    *)
(* and request bodies and without a bound on the length of a stream: type  *)
(* correctness, that the relay keeps the contract of StreamContract, and   *)
(* that the end of a stream is told once, to the client that stays.        *)
(***************************************************************************)
EXTENDS StreamRelay, RoutingPolicyProofs, FiniteSetTheorems, SequenceTheorems

(***************************************************************************)
(* Type correctness needs to know that an attempt has an account and its   *)
(* row.                                                                    *)
(***************************************************************************)

Working == {"prepare", "connecting", "streaming", "closing", "expire", "success",
            "failure", "catch"}

AttemptOK == pc \in Working => attempted # <<>> /\ row \in Row

Inv == TypeOK /\ AttemptOK

(***************************************************************************)
(* The contract rests on what has been sent at each stage: nothing before  *)
(* a stream is open, nothing when the attempt has not emitted, only the    *)
(* text of the current account while more text may come, and after an end  *)
(* no more text can come.                                                  *)
(***************************************************************************)

Quiet == {"idle", "enter", "buffered", "select", "prepare", "connecting", "expire"}

NothingEarly == pc \in Quiet => sent = <<>>

NothingUnnoticed ==
  pc \in {"streaming", "closing", "success", "failure", "catch"} /\ ~ emitted => sent = <<>>

OneVoice == pc = "streaming" => Voices \subseteq {Current}

NothingLate == pc = "streaming" /\ Over => upstream # "open" /\ buffer # "delta"

\* The buffer is empty before the stream; then only Antigravity uses it, and an
\* event other than text in it is the last but [DONE].
BufferOK ==
  /\ pc \in {"prepare", "connecting"} => buffer = "none"
  /\ pc = "streaming" /\ buffer # "none" =>
       native = "antigravity" /\ (buffer # "delta" => upstream # "open")

RelayOK == NothingEarly /\ NothingUnnoticed /\ OneVoice /\ NothingLate /\ BufferOK

-----------------------------------------------------------------------------
(* What a delivery does.                                                   *)

Kind == {"delta", "finish", "error", "done"}

\* The client has received what it had, and the first n of the pieces.
LEMMA Delivered ==
  ASSUME TypeOK, NEW kinds \in Seq(Kind), NEW a \in AccountId \cup {NoAccount}, NEW n,
         Deliver(kinds, a, n)
  PROVE  /\ n \in 0 .. Len(kinds)
         /\ sent' \in Seq(Piece) /\ connected' \in BOOLEAN
         /\ Len(sent') = Len(sent) + n
         /\ \A i \in 1 .. Len(sent') :
              sent'[i] = IF i <= Len(sent)
                         THEN sent[i]
                         ELSE [kind |-> kinds[i - Len(sent)], from |-> a]
<1> DEFINE more == [i \in 1 .. n |-> [kind |-> kinds[i], from |-> a]]
<1>1. n \in 0 .. Len(kinds) /\ n \in Nat /\ sent' = sent \o more
  BY DEF Deliver
<1>2. \A i \in 1 .. n : kinds[i] \in Kind
  BY <1>1
<1>3. \A i \in 1 .. n : [kind |-> kinds[i], from |-> a] \in Piece
  BY <1>2 DEF Piece, Kind
<1>4. more \in Seq(Piece) /\ Len(more) = n
  BY <1>1, <1>3
<1>5. sent \in Seq(Piece)
  BY DEF TypeOK
<1>6. \A i \in 1 .. n : more[i] = [kind |-> kinds[i], from |-> a]
  OBVIOUS
<1> HIDE DEF more
<1>7. /\ sent \o more \in Seq(Piece) /\ Len(sent \o more) = Len(sent) + n
      /\ \A i \in 1 .. Len(sent) + n :
           (sent \o more)[i] = IF i <= Len(sent) THEN sent[i] ELSE more[i - Len(sent)]
  BY <1>4, <1>5, ConcatProperties
<1>8. connected' \in BOOLEAN
  BY DEF Deliver, TypeOK
<1>9. Len(sent) \in Nat
  BY <1>5
<1>10. ASSUME NEW i \in 1 .. Len(sent')
       PROVE  sent'[i] = IF i <= Len(sent)
                         THEN sent[i]
                         ELSE [kind |-> kinds[i - Len(sent)], from |-> a]
  <2>1. CASE i <= Len(sent)
    BY <1>1, <1>7, <2>1
  <2>2. CASE i > Len(sent)
    <3>1. i - Len(sent) \in 1 .. n
      BY <1>1, <1>7, <1>9, <2>2
    <3> QED BY <1>1, <1>6, <1>7, <1>9, <2>2, <3>1
  <2> QED BY <1>9, <2>1, <2>2
<1> QED BY <1>1, <1>7, <1>8, <1>10

LEMMA ToldFinite ==
  ASSUME TypeOK, NEW kinds
  PROVE  IsFiniteSet(Told(kinds)) /\ Cardinality(Told(kinds)) \in Nat
<1>1. Len(sent) \in Nat /\ DOMAIN sent = 1 .. Len(sent)
  BY DEF TypeOK
<1>2. IsFiniteSet(1 .. Len(sent))
  BY <1>1, FS_Interval
<1>3. Told(kinds) \subseteq 1 .. Len(sent)
  BY <1>1 DEF Told
<1> QED BY <1>2, <1>3, FS_Subset, FS_CardinalityType

\* Ends are no text: they end the stream, or add nothing to its end.
LEMMA DeliverEnd ==
  ASSUME TypeOK, NEW kinds \in Seq(Kind \ {"delta"}), NEW a \in AccountId \cup {NoAccount},
         NEW n, Deliver(kinds, a, n)
  PROVE  /\ Told({"delta"})' = Told({"delta"}) /\ Voices' = Voices
         /\ Over' <=> Over \/ n > 0
<1>0. kinds \in Seq(Kind)
  BY SeqMonotonic
<1>1. /\ n \in 0 .. Len(kinds) /\ sent' \in Seq(Piece) /\ Len(sent') = Len(sent) + n
      /\ \A i \in 1 .. Len(sent') :
           sent'[i] = IF i <= Len(sent)
                      THEN sent[i]
                      ELSE [kind |-> kinds[i - Len(sent)], from |-> a]
  BY <1>0, Delivered
<1>2. Len(sent) \in Nat /\ DOMAIN sent = 1 .. Len(sent) /\ DOMAIN sent' = 1 .. Len(sent')
  BY <1>1 DEF TypeOK
<1>3. \A i \in 1 .. Len(sent) : sent'[i] = sent[i]
  BY <1>1, <1>2
<1>4. \A i \in Len(sent) + 1 .. Len(sent') : sent'[i].kind \in Kind \ {"delta"}
  <2>1. ASSUME NEW i \in Len(sent) + 1 .. Len(sent') PROVE sent'[i].kind \in Kind \ {"delta"}
    <3>1. i - Len(sent) \in 1 .. Len(kinds) /\ ~ i <= Len(sent) /\ i \in 1 .. Len(sent')
      BY <1>1, <1>2
    <3>2. kinds[i - Len(sent)] \in Kind \ {"delta"}
      BY <3>1
    <3> QED BY <1>1, <3>1, <3>2
  <2> QED BY <2>1
<1>5. Told({"delta"})' = Told({"delta"})
  BY <1>1, <1>2, <1>3, <1>4 DEF Told
<1>6. Voices' = Voices
  BY <1>1, <1>2, <1>3, <1>5 DEF Voices, Told
<1>7. Over' <=> Over \/ n > 0
  BY <1>1, <1>2, <1>3, <1>4 DEF Over, Told, Kind
<1> QED BY <1>5, <1>6, <1>7

\* One piece of text is one more word, of its account.
LEMMA DeliverDelta ==
  ASSUME TypeOK, NEW a \in AccountId, NEW n, Deliver(<<"delta">>, a, n)
  PROVE  \/ n = 0 /\ sent' = sent
         \/ /\ n = 1
            /\ Voices' = Voices \cup {a}
            /\ Over' <=> Over
            /\ Cardinality(Told({"delta"}))' = Cardinality(Told({"delta"})) + 1
<1>0. <<"delta">> \in Seq(Kind) /\ Len(<<"delta">>) = 1 /\ <<"delta">>[1] = "delta"
  BY DEF Kind
<1>1. /\ n \in 0 .. 1 /\ sent' \in Seq(Piece) /\ Len(sent') = Len(sent) + n
      /\ \A i \in 1 .. Len(sent') :
           sent'[i] = IF i <= Len(sent)
                      THEN sent[i]
                      ELSE [kind |-> <<"delta">>[i - Len(sent)], from |-> a]
  BY <1>0, Delivered
<1>2. sent \in Seq(Piece) /\ Len(sent) \in Nat
      /\ DOMAIN sent = 1 .. Len(sent) /\ DOMAIN sent' = 1 .. Len(sent')
  BY <1>1 DEF TypeOK
<1>3. CASE n = 0
  BY <1>1, <1>2, <1>3, SeqEqual
<1>4. CASE n = 1
  <2> DEFINE last == Len(sent) + 1
  <2>1. \A i \in 1 .. Len(sent) : sent'[i] = sent[i]
    BY <1>1, <1>2
  <2>2. sent'[last] = [kind |-> "delta", from |-> a]
    BY <1>0, <1>1, <1>2, <1>4
  <2>3. Told({"delta"})' = Told({"delta"}) \cup {last}
    BY <1>1, <1>2, <1>4, <2>1, <2>2 DEF Told
  <2>4. last \notin Told({"delta"})
    BY <1>2 DEF Told
  <2>5. Cardinality(Told({"delta"}))' = Cardinality(Told({"delta"})) + 1
    BY <2>3, <2>4, ToldFinite, FS_AddElement
  <2>6. Voices' = Voices \cup {a}
    BY <1>1, <1>2, <2>1, <2>2, <2>3, <2>4 DEF Voices, Told
  <2>7. Over' <=> Over
    BY <1>1, <1>2, <1>4, <2>1, <2>2 DEF Over, Told
  <2> QED BY <1>4, <2>5, <2>6, <2>7
<1> QED BY <1>1, <1>3, <1>4

-----------------------------------------------------------------------------
(* Type correctness.                                                       *)

LEMMA InitInv == Init => Inv
<1> SUFFICES ASSUME Init PROVE Inv
  OBVIOUS
<1>1. accounts \in [AccountId -> Row \cup {NoRow}] /\ group \in Group
  BY StreamRelayAssumption DEF Init
<1>2. body \in {"complete", "noModel", "noMessages"}
  BY StreamRelayAssumption DEF Init
<1>3. result \in [status : Outcome, emitted : BOOLEAN, account : AccountId \cup {NoAccount}]
  BY DEF Init, Outcome
<1>4. credentials \in SUBSET AccountId /\ attempted \in Seq(AccountId) /\ sent \in Seq(Piece)
  BY DEF Init
<1>5. TypeOK
  BY <1>1, <1>2, <1>3, <1>4 DEF Init, TypeOK, Stage, Event
<1> QED BY <1>5 DEF Init, Inv, AttemptOK, Working

\* What every stage that has a current account knows of it.
LEMMA CurrentType ==
  ASSUME Inv, pc \in Working
  PROVE  Current \in AccountId /\ row \in Row
BY DEF Inv, TypeOK, AttemptOK, Current

\* A decision of select is a member that has a row, and a cursor.
LEMMA DecisionType ==
  ASSUME Inv, NEW d \in Decisions
  PROVE  d.id \in AccountId /\ accounts[d.id] \in Row /\ d.index \in Int
<1> USE DEF Inv, TypeOK
<1>1. d.id \in AccountId /\ accounts[d.id] \in Row
  <2>1. \A m \in Range(group.members) : m \in AccountId
    BY DEF Group, MemberList, Range
  <2> DEFINE present == {m \in Range(group.members) : accounts[m] # NoRow}
             candidates == {[id |-> a, row |-> accounts[a], used |-> UnknownUse] : a \in present}
  <2>2. d \in selectInternal(group, candidates, 0, Range(attempted))
    BY DEF Decisions
  <2> HIDE DEF candidates
  <2>3. PICK c \in candidates : c.id = d.id
    BY <2>2, DecisionIsSelectable
  <2>4. d.id \in present
    BY <2>3 DEF candidates
  <2> QED BY <2>1, <2>4
<1>2. d.index \in Int
  BY DecisionIndex DEF Decisions
<1> QED BY <1>1, <1>2

\* A delivery to the client keeps the types of what the client holds.
LEMMA DeliverType ==
  ASSUME Inv, NEW kinds \in Seq(Kind), NEW a \in AccountId \cup {NoAccount}, NEW n,
         Deliver(kinds, a, n)
  PROVE  sent' \in Seq(Piece) /\ connected' \in BOOLEAN
BY Delivered DEF Inv

\* So does the translation of an event.
LEMMA TranslateType ==
  ASSUME Inv, pc \in Working, NEW e, NEW n, Translate(e, n)
  PROVE  /\ sent' \in Seq(Piece) /\ connected' \in BOOLEAN
         /\ emitted' \in BOOLEAN /\ finished' \in BOOLEAN /\ providerError' \in BOOLEAN
<1>1. Current \in AccountId \cup {NoAccount}
  BY CurrentType
<1>2. /\ <<"delta">> \in Seq(Kind) /\ <<"finish", "done">> \in Seq(Kind)
      /\ <<"error", "done">> \in Seq(Kind)
  BY DEF Kind
<1>3. sent' \in Seq(Piece) /\ connected' \in BOOLEAN
  <2>1. CASE UNCHANGED <<client, translator>>
    BY <2>1 DEF client, Inv, TypeOK
  <2>2. CASE Deliver(<<"delta">>, Current, n)
    BY <1>1, <1>2, <2>2, DeliverType
  <2>3. CASE Deliver(<<"finish", "done">>, Current, n)
    BY <1>1, <1>2, <2>3, DeliverType
  <2>4. CASE Deliver(<<"error", "done">>, Current, n)
    BY <1>1, <1>2, <2>4, DeliverType
  <2> QED BY <2>1, <2>2, <2>3, <2>4 DEF Translate
<1>4. emitted' \in BOOLEAN /\ finished' \in BOOLEAN /\ providerError' \in BOOLEAN
  BY DEF Translate, translator, Inv, TypeOK
<1> QED BY <1>3, <1>4

\* The CompletionStreamResult a return makes.
LEMMA ReturnType ==
  ASSUME NEW status \in Outcome, NEW e \in BOOLEAN, NEW a \in AccountId \cup {NoAccount},
         Return(status, e, a)
  PROVE  pc' = "respond" /\ result' \in [status : Outcome, emitted : BOOLEAN, account : AccountId \cup {NoAccount}]
BY DEF Return, Goto

\* The content provider, and what precedes the first selection.
LEMMA EntryInv ==
  ASSUME Inv, Arrive \/ Respond \/ Enter \/ Buffered
  PROVE  Inv'
<1> USE DEF Inv, TypeOK, AttemptOK, Working, Stage, Outcome, Goto, shared, attempt, call,
        translator, client
<1>1. CASE Arrive
  BY <1>1 DEF Arrive
<1>2. CASE Respond
  <2>1. <<"error", "done">> \in Seq(Kind)
    BY DEF Kind
  <2>2. sent' \in Seq(Piece) /\ connected' \in BOOLEAN
    BY <1>2, <2>1, DeliverType DEF Respond
  <2> QED BY <1>2, <2>2 DEF Respond
<1>3. CASE Enter
  <2>0. pc = "enter" /\ UNCHANGED <<shared, body, attempted, row, call, translator, client>>
    BY <1>3 DEF Enter
  <2>1. Len(group.members) \in Nat
    BY DEF Group, MemberList
  <2>2. CASE Return("unavailable", FALSE, NoAccount) /\ UNCHANGED <<native, budget>>
    <3>1. "unavailable" \in Outcome /\ FALSE \in BOOLEAN
      OBVIOUS
    <3>2. pc' = "respond"
          /\ result' \in [status : Outcome, emitted : BOOLEAN, account : AccountId \cup {NoAccount}]
      BY <2>2, <3>1, ReturnType
    <3> QED BY <2>0, <2>2, <3>2
  <2>3. CASE Goto("select") /\ budget' = Len(group.members) /\ UNCHANGED result
             /\ \E p \in ProviderName : native' = p
    BY <2>0, <2>1, <2>3
  <2>4. CASE Goto("buffered") /\ UNCHANGED <<native, budget, result>>
    BY <2>0, <2>4
  <2> QED BY <1>3, <2>2, <2>3, <2>4, Zenon DEF Enter
<1>4. CASE Buffered
  <2>1. <<"delta", "finish", "done">> \in Seq(Kind)
    BY DEF Kind
  <2>2. \A a \in Range(group.members) : a \in AccountId
    BY DEF Group, MemberList, Range
  <2>3. sent' \in Seq(Piece) /\ connected' \in BOOLEAN
    BY <1>4, <2>1, <2>2, DeliverType DEF Buffered
  <2>4. CASE Escape
    BY <1>4, <2>3, <2>4 DEF Buffered, Escape
  <2>5. CASE \E s \in Outcome, e \in BOOLEAN, a \in AccountId \cup {NoAccount} : Return(s, e, a)
    BY <1>4, <2>3, <2>5, ReturnType DEF Buffered
  <2>6. \/ Escape
        \/ \E s \in {"rejected", "badRequest", "unavailable", "failed"} : Return(s, FALSE, NoAccount)
        \/ \E a \in Range(group.members) : Return("ok", TRUE, a)
        \/ Return("cancelled", FALSE, NoAccount)
    BY <1>4, Zenon DEF Buffered
  <2> HIDE DEF Inv, TypeOK, AttemptOK
  <2>7. Escape \/ \E s \in Outcome, e \in BOOLEAN, a \in AccountId \cup {NoAccount} : Return(s, e, a)
    <3>1. {"rejected", "badRequest", "unavailable", "failed", "ok", "cancelled"} \subseteq Outcome
      OBVIOUS
    <3>2. FALSE \in BOOLEAN /\ TRUE \in BOOLEAN /\ NoAccount \in AccountId \cup {NoAccount}
      OBVIOUS
    <3> HIDE DEF Outcome
    <3> QED BY <2>2, <2>6, <3>1, <3>2
  <2> QED BY <2>4, <2>5, <2>7
<1> QED BY <1>1, <1>2, <1>3, <1>4

LEMMA SelectInv ==
  ASSUME Inv, Select
  PROVE  Inv'
<1> USE DEF Inv, TypeOK, AttemptOK, Working, Stage, Outcome, Goto
<1>1. CASE Return("unavailable", FALSE, NoAccount)
           /\ UNCHANGED <<group, attempted, row, call, translator>>
  BY <1>1 DEF Select, Return, call, translator, client
<1>2. CASE Goto("prepare")
  <2>1. PICK d \in Decisions :
          /\ attempted' = Append(attempted, d.id)
          /\ row' = accounts[d.id]
          /\ group' = [group EXCEPT !.lastIndex = d.index]
    BY <1>2 DEF Select, Return
  <2>2. attempted' \in Seq(AccountId) /\ attempted' # <<>> /\ row' \in Row
    BY <2>1, DecisionType
  <2>3. group' \in Group
    BY <2>1, DecisionType DEF Group
  <2>4. /\ upstream' = "open" /\ deltas' = 0 /\ buffer' = "none"
        /\ emitted' = FALSE /\ finished' = FALSE /\ providerError' = FALSE
        /\ UNCHANGED <<accounts, credentials, edits, body, native, budget, client, result>>
    BY <1>2 DEF Select, Return
  <2> QED BY <1>2, <2>2, <2>3, <2>4 DEF client
<1> QED BY <1>1, <1>2 DEF Select

\* An attempt, up to the first byte of the answer.
LEMMA PrepareInv ==
  ASSUME Inv,
         \/ CredentialMissing \/ CredentialUnreadable \/ ModelMissing \/ PromptMissing
         \/ CallProvider
         \/ ProviderAccepts \/ ProviderUnauthorized \/ ProviderRejects \/ ProviderFails
         \/ ProviderThrows
  PROVE  Inv'
<1>1. pc \in {"prepare", "connecting"} /\ UNCHANGED <<shared, attempt, call, translator, client>>
  BY DEF CredentialMissing, CredentialUnreadable, ModelMissing, PromptMissing, CallProvider,
     ProviderAccepts, ProviderUnauthorized, ProviderRejects, ProviderFails, ProviderThrows,
     AtPrepare, AtConnecting
<1>2. Current \in AccountId
  BY <1>1, CurrentType DEF Working
<1>3. \/ UNCHANGED result /\ pc' \in Stage
      \/ Return("badRequest", FALSE, NoAccount)
      \/ Return("rejected", FALSE, Current)
  BY DEF CredentialMissing, CredentialUnreadable, ModelMissing, PromptMissing, CallProvider,
     ProviderAccepts, ProviderUnauthorized, ProviderRejects, ProviderFails, ProviderThrows,
     Goto, Escape, Stage
<1>4. pc' \in Stage /\ result' \in [status : Outcome, emitted : BOOLEAN, account : AccountId \cup {NoAccount}]
  <2>1. {"badRequest", "rejected"} \subseteq Outcome
    BY DEF Outcome
  <2>2. CASE UNCHANGED result /\ pc' \in Stage
    BY <2>2 DEF Inv, TypeOK
  <2>3. CASE Return("badRequest", FALSE, NoAccount)
    BY <2>1, <2>3, ReturnType DEF Stage
  <2>4. CASE Return("rejected", FALSE, Current)
    BY <1>2, <2>1, <2>4, ReturnType DEF Stage
  <2> QED BY <1>3, <2>2, <2>3, <2>4
<1> QED BY <1>1, <1>4 DEF Inv, TypeOK, AttemptOK, Working, shared, attempt, call,
           translator, client

\* A cancelled stream returns; the others go on or to the next stage.
LEMMA CancelledType ==
  ASSUME Inv, pc \in Working, NEW e \in BOOLEAN, Cancelled(e)
  PROVE  /\ pc' = "respond"
         /\ result' \in [status : Outcome, emitted : BOOLEAN, account : AccountId \cup {NoAccount}]
<1>1. "cancelled" \in Outcome /\ Current \in AccountId
  BY CurrentType DEF Outcome
<1> QED BY <1>1, ReturnType DEF Cancelled

\* The steps of an open stream.
LEMMA StreamInv ==
  ASSUME Inv,
         \/ PassThrough \/ CodexDelta \/ CodexCompletes \/ EventBegins \/ EventEnds
         \/ ResponseEnds \/ Close
  PROVE  Inv'
<1>1. pc \in {"streaming", "closing"} /\ pc \in Working /\ UNCHANGED <<shared, attempt>>
  BY DEF PassThrough, CodexDelta, CodexCompletes, EventBegins, EventEnds, ResponseEnds, Close,
     Working
<1>2. Current \in AccountId
  BY <1>1, CurrentType
<1>3. upstream' \in {"open", "ended", "closed"} /\ deltas' \in Nat /\ buffer' \in Event \cup {"none"}
  <2> USE DEF Inv, TypeOK, Event, Carry, call
  <2>1. CASE PassThrough
    BY <2>1 DEF PassThrough
  <2>2. CASE CodexDelta
    BY <2>2 DEF CodexDelta
  <2>3. CASE CodexCompletes \/ ResponseEnds \/ Close
    BY <2>3 DEF CodexCompletes, ResponseEnds, Close
  <2>4. CASE EventBegins
    BY <2>4 DEF EventBegins
  <2>5. CASE EventEnds
    BY <2>5 DEF EventEnds
  <2> QED BY <2>1, <2>2, <2>3, <2>4, <2>5
<1>4. /\ sent' \in Seq(Piece) /\ connected' \in BOOLEAN
      /\ emitted' \in BOOLEAN /\ finished' \in BOOLEAN /\ providerError' \in BOOLEAN
  <2>1. CASE UNCHANGED <<translator, client>>
    BY <2>1 DEF Inv, TypeOK, translator, client
  <2>2. CASE \E e \in Event, n \in 0 .. 2 : Translate(e, n)
    BY <1>1, <2>2, TranslateType
  <2>3. CASE /\ \E kinds \in Seq(Kind), n \in 0 .. 2 : Deliver(kinds, Current, n)
             /\ emitted' \in BOOLEAN /\ finished' \in BOOLEAN /\ UNCHANGED providerError
    BY <1>2, <2>3, DeliverType DEF Inv, TypeOK
  <2>4. <<"finish", "done">> \in Seq(Kind) /\ \A e \in {"delta", "done"} : <<e>> \in Seq(Kind)
    BY DEF Kind
  <2>5. CASE PassThrough
    <3>1. PICK e \in {"delta", "done"}, n \in 0 .. 1 : Deliver(<<e>>, Current, n)
      BY <2>5 DEF PassThrough
    <3>2. emitted' \in BOOLEAN /\ finished' \in BOOLEAN /\ UNCHANGED providerError
      BY <2>5 DEF PassThrough, Inv, TypeOK
    <3>3. <<e>> \in Seq(Kind) /\ n \in 0 .. 2
      BY <2>4
    <3> QED BY <2>3, <3>1, <3>2, <3>3
  <2>6. CASE CodexDelta
    <3>1. PICK n \in 0 .. 1 : Deliver(<<"delta">>, Current, n)
      BY <2>6 DEF CodexDelta
    <3>2. emitted' \in BOOLEAN /\ finished' \in BOOLEAN /\ UNCHANGED providerError
      BY <2>6 DEF CodexDelta, Inv, TypeOK
    <3>3. <<"delta">> \in Seq(Kind) /\ n \in 0 .. 2
      BY <2>4
    <3> QED BY <2>3, <3>1, <3>2, <3>3
  <2>7. CASE CodexCompletes
    <3>1. PICK n \in 0 .. 2 :
            Deliver(<<"finish", "done">>, Current, n) /\ emitted' = (emitted \/ n > 0)
      BY <2>7 DEF CodexCompletes
    <3> QED BY <2>3, <2>4, <2>7, <3>1 DEF CodexCompletes, Inv, TypeOK
  <2>8. CASE EventBegins
    BY <2>1, <2>8 DEF EventBegins
  <2>9. \A e \in Event : WritesOf(e) \in 0 .. 2
    BY DEF WritesOf
  <2>10. buffer # "none" => buffer \in Event
    BY DEF Inv, TypeOK
  <2>11. CASE EventEnds
    BY <2>2, <2>9, <2>10, <2>11 DEF EventEnds
  <2>12. CASE ResponseEnds
    BY <2>1, <2>2, <2>9, <2>10, <2>12 DEF ResponseEnds
  <2>13. CASE Close /\ finished
    BY <2>1, <2>13 DEF Close
  <2>14. CASE Close /\ ~ finished
    <3>1. PICK n \in 0 .. 2 : /\ Deliver(<<"finish", "done">>, Current, n)
                              /\ emitted' = (emitted \/ n = 2) /\ finished' = (n = 2)
      BY <2>14 DEF Close
    <3> QED BY <2>3, <2>4, <2>14, <3>1 DEF Close, Inv, TypeOK
  <2> QED BY <2>5, <2>6, <2>7, <2>8, <2>11, <2>12, <2>13, <2>14
<1>5. \/ UNCHANGED result /\ pc' \in {"streaming", "closing", "success", "failure"}
      \/ Cancelled(TRUE) \/ Cancelled(emitted) \/ Cancelled(emitted')
  BY <1>1 DEF PassThrough, CodexDelta, CodexCompletes, EventBegins, EventEnds, ResponseEnds, Close,
     Goto
<1>6. /\ pc' \in {"streaming", "closing", "success", "failure", "respond"}
      /\ result' \in [status : Outcome, emitted : BOOLEAN, account : AccountId \cup {NoAccount}]
  <2>1. emitted \in BOOLEAN
    BY DEF Inv, TypeOK
  <2>2. CASE UNCHANGED result /\ pc' \in {"streaming", "closing", "success", "failure"}
    BY <2>2 DEF Inv, TypeOK
  <2>3. CASE Cancelled(TRUE) \/ Cancelled(emitted) \/ Cancelled(emitted')
    BY <1>1, <1>4, <2>1, <2>3, CancelledType
  <2> QED BY <1>5, <2>2, <2>3
<1> QED BY <1>1, <1>3, <1>4, <1>6 DEF Inv, TypeOK, AttemptOK, Working, Stage, shared, attempt

\* The outcome of an attempt, and the operator.
LEMMA OutcomeInv ==
  ASSUME Inv, PassThroughEnds \/ ConnectionLost \/ MarkAuthExpired \/ RecordSuccess \/ RecordFailure
  PROVE  Inv'
<1>1. pc \in Working
  BY DEF PassThroughEnds, ConnectionLost, MarkAuthExpired, RecordSuccess, RecordFailure, Working
<1>2. Current \in AccountId /\ row \in Row
  BY <1>1, CurrentType
<1>3. UNCHANGED <<group, credentials, edits, attempt, call, translator>>
  BY DEF PassThroughEnds, ConnectionLost, MarkAuthExpired, RecordSuccess, RecordFailure, shared
<1>4. accounts' \in [AccountId -> Row \cup {NoRow}]
  <2> USE <1>2 DEF Inv, TypeOK
  <2>1. CASE PassThroughEnds \/ ConnectionLost
    BY <2>1 DEF PassThroughEnds, ConnectionLost, shared
  <2>2. CASE MarkAuthExpired
    <3>1. [row EXCEPT !.status = "AUTH_EXPIRED"] \in Row
      BY DEF Row, Status
    <3> QED BY <2>2, <3>1 DEF MarkAuthExpired
  <2>3. CASE RecordSuccess
    BY <2>3, SuccessRecordedType DEF RecordSuccess
  <2>4. CASE RecordFailure
    <3>1. CASE accounts[Current] # NoRow
      <4>1. accounts' = [accounts EXCEPT ![Current] = FailureRecorded(accounts[Current], 0)]
        BY <2>4, <3>1 DEF RecordFailure
      <4>2. FailureRecorded(accounts[Current], 0) \in Row
        BY <3>1, FailureRecordedType
      <4> QED BY <4>1, <4>2
    <3>2. CASE accounts[Current] = NoRow
      BY <2>4, <3>2 DEF RecordFailure
    <3> QED BY <3>1, <3>2
  <2> QED BY <2>1, <2>2, <2>3, <2>4
<1>5. sent' \in Seq(Piece) /\ connected' \in BOOLEAN
  <2>1. CASE UNCHANGED client
    BY <2>1 DEF client, Inv, TypeOK
  <2>2. <<"error", "done">> \in Seq(Kind)
    BY DEF Kind
  <2>3. CASE \E n \in 0 .. 2 : Deliver(<<"error", "done">>, Current, n)
    BY <1>2, <2>2, <2>3, DeliverType
  <2>4. UNCHANGED client \/ \E n \in 0 .. 2 : Deliver(<<"error", "done">>, Current, n)
    BY DEF PassThroughEnds, ConnectionLost, MarkAuthExpired, RecordSuccess, RecordFailure
  <2> QED BY <2>1, <2>3, <2>4
<1>6. \/ UNCHANGED result /\ pc' \in Stage
      \/ Return("ok", emitted, Current) \/ Return("failed", TRUE, Current)
  BY DEF PassThroughEnds, ConnectionLost, MarkAuthExpired, RecordSuccess, RecordFailure,
     Goto, Escape, Stage
<1>7. /\ pc' \in Stage
      /\ result' \in [status : Outcome, emitted : BOOLEAN, account : AccountId \cup {NoAccount}]
  <2>1. emitted \in BOOLEAN /\ {"ok", "failed"} \subseteq Outcome /\ "respond" \in Stage
    BY DEF Inv, TypeOK, Outcome, Stage
  <2>2. CASE UNCHANGED result /\ pc' \in Stage
    BY <2>2 DEF Inv, TypeOK
  <2>3. CASE Return("ok", emitted, Current) \/ Return("failed", TRUE, Current)
    BY <1>2, <2>1, <2>3, ReturnType
  <2> QED BY <1>6, <2>2, <2>3
<1> QED BY <1>1, <1>3, <1>4, <1>5, <1>7 DEF Inv, TypeOK, AttemptOK, attempt, call, translator

LEMMA EditInv ==
  ASSUME Inv, SaveGroup \/ \E a \in AccountId : RemoveAccount(a)
  PROVE  Inv'
<1>1. edits' \in Nat /\ UNCHANGED <<pc, attempt, call, translator, client, result>>
  BY DEF SaveGroup, RemoveAccount, Edit, Inv, TypeOK
<1>2. accounts' \in [AccountId -> Row \cup {NoRow}] /\ credentials' \in SUBSET AccountId
  BY DEF SaveGroup, RemoveAccount, Inv, TypeOK
<1>3. group' \in Group
  <2>1. ASSUME NEW g \in Group PROVE [g EXCEPT !.lastIndex = -1] \in Group
    <3>1. -1 \in Int
      OBVIOUS
    <3> QED BY <3>1 DEF Group
  <2>2. CASE SaveGroup
    BY <2>1, <2>2, StreamRelayAssumption DEF SaveGroup
  <2>3. CASE \E a \in AccountId : RemoveAccount(a)
    BY <2>3, MembershipDeletedType DEF RemoveAccount, Inv, TypeOK
  <2> QED BY <2>2, <2>3
<1> QED BY <1>1, <1>2, <1>3 DEF Inv, TypeOK, AttemptOK, attempt, call, translator, client

LEMMA NextInv == Inv /\ [Next]_vars => Inv'
<1> SUFFICES ASSUME Inv, [Next]_vars PROVE Inv'
  OBVIOUS
<1>1. CASE Local
  BY <1>1, EntryInv, SelectInv, PrepareInv, StreamInv, OutcomeInv DEF Local
<1>2. CASE Buffered
  BY <1>2, EntryInv
<1>3. CASE Upstream
  <2>1. \/ ProviderAccepts \/ ProviderUnauthorized \/ ProviderRejects \/ ProviderFails
        \/ ProviderThrows
        \/ PassThrough \/ CodexDelta \/ CodexCompletes \/ EventBegins \/ EventEnds \/ ResponseEnds
        \/ PassThroughEnds \/ ConnectionLost \/ CodexBreaks
    BY <1>3 DEF Upstream
  <2>2. CASE CodexBreaks
    BY <2>2 DEF CodexBreaks, Goto, Inv, TypeOK, AttemptOK, Working, Stage, shared, attempt, call,
       translator, client
  <2> QED BY <2>1, <2>2, PrepareInv, StreamInv, OutcomeInv
<1>4. CASE SaveGroup \/ \E a \in AccountId : RemoveAccount(a)
  BY <1>4, EditInv
<1>5. CASE Finished \/ UNCHANGED vars
  BY <1>5 DEF Finished, vars, shared, attempt, call, translator, client, Inv, TypeOK, AttemptOK
<1> QED BY <1>1, <1>2, <1>3, <1>4, <1>5 DEF Next

\* An attempt always has an account and its row, whatever the operator removes
\* meanwhile.
THEOREM StreamInvariance == Spec => []Inv
<1>1. Init => Inv
  BY InitInv
<1>2. Inv /\ [Next]_vars => Inv'
  BY NextInv
<1> QED BY <1>1, <1>2, PTL DEF Spec

\* Every variable of a stream keeps its type.
THEOREM StreamTypeCorrect == Spec => []TypeOK
<1>1. Inv => TypeOK
  BY DEF Inv
<1> QED BY <1>1, StreamInvariance, PTL

-----------------------------------------------------------------------------
(* What has been sent at each stage.                                       *)

\* While nothing has been sent nobody has spoken and nothing is over.
LEMMA NothingTold ==
  ASSUME sent = <<>>
  PROVE  Voices = {} /\ Over = FALSE /\ Told({"delta"}) = {}
BY DEF Voices, Over, Told

LEMMA InitRelay == Init => RelayOK
BY NothingTold DEF Init, RelayOK, NothingEarly, NothingUnnoticed, OneVoice, NothingLate, BufferOK,
   Quiet

\* Up to the first byte of a stream.
LEMMA BeforeRelay ==
  ASSUME Inv, RelayOK,
         \/ Arrive \/ Enter \/ Select
         \/ CredentialMissing \/ CredentialUnreadable \/ ModelMissing \/ PromptMissing
         \/ CallProvider
         \/ ProviderAccepts \/ ProviderUnauthorized \/ ProviderRejects \/ ProviderFails
         \/ ProviderThrows
  PROVE  RelayOK' /\ UNCHANGED sent
<1>1. pc \in Quiet /\ UNCHANGED client
  BY DEF Arrive, Enter, Select, CredentialMissing, CredentialUnreadable, ModelMissing,
     PromptMissing, CallProvider, ProviderAccepts, ProviderUnauthorized, ProviderRejects,
     ProviderFails, ProviderThrows, AtPrepare, AtConnecting, Quiet
<1>2. sent = <<>> /\ sent' = <<>>
  BY <1>1 DEF RelayOK, NothingEarly, client
<1>3. Voices' = {} /\ Over' = FALSE
  BY <1>2 DEF Voices, Over, Told
<1>4. pc' \in {"prepare", "connecting", "streaming"} => buffer' = "none"
  <2>1. CASE Select
    BY <2>1 DEF Select, Return, Goto
  <2>2. CASE Arrive \/ Enter
    BY <2>2 DEF Arrive, Enter, Return, Goto
  <2>3. CASE ~ Select /\ ~ (Arrive \/ Enter)
    <3>1. UNCHANGED buffer
      BY <2>3 DEF CredentialMissing, CredentialUnreadable, ModelMissing, PromptMissing,
         CallProvider, ProviderAccepts, ProviderUnauthorized, ProviderRejects, ProviderFails,
         ProviderThrows, AtPrepare, AtConnecting, call
    <3>2. pc \in {"prepare", "connecting"}
      BY <2>3 DEF CredentialMissing, CredentialUnreadable, ModelMissing, PromptMissing,
         CallProvider, ProviderAccepts, ProviderUnauthorized, ProviderRejects, ProviderFails,
         ProviderThrows, AtPrepare, AtConnecting
    <3> QED BY <3>1, <3>2 DEF RelayOK, BufferOK
  <2> QED BY <2>1, <2>2, <2>3
<1> QED BY <1>2, <1>3, <1>4 DEF RelayOK, NothingEarly, NothingUnnoticed, OneVoice, NothingLate,
           BufferOK

\* The result has been returned, or an exception has.
LEMMA ReturnedRelay ==
  ASSUME pc' \in {"respond", "done", "escaped"}
  PROVE  RelayOK'
BY DEF RelayOK, NothingEarly, NothingUnnoticed, OneVoice, NothingLate, BufferOK, Quiet

\* The outcome of an attempt.
LEMMA OutcomeRelay ==
  ASSUME Inv, RelayOK,
         \/ PassThroughEnds \/ ConnectionLost \/ CodexBreaks
         \/ MarkAuthExpired \/ RecordSuccess \/ RecordFailure
  PROVE  RelayOK'
<1>1. \/ pc' \in {"respond", "done", "escaped"}
      \/ /\ pc' \in {"success", "failure", "catch"} /\ UNCHANGED <<sent, emitted>>
         /\ pc \in {"streaming", "success", "failure"}
      \/ /\ pc' = "select" /\ UNCHANGED sent
         /\ pc = "expire" \/ (pc \in {"failure", "catch"} /\ ~ emitted)
  <2>1. CASE PassThroughEnds \/ ConnectionLost \/ CodexBreaks
    BY <2>1 DEF PassThroughEnds, ConnectionLost, CodexBreaks, Goto, client, translator
  <2>2. CASE MarkAuthExpired
    BY <2>2 DEF MarkAuthExpired, Goto, client
  <2>3. CASE RecordSuccess
    BY <2>3 DEF RecordSuccess, Return, Escape, Goto, client, translator
  <2>4. CASE RecordFailure
    BY <2>4 DEF RecordFailure, Return, Escape, Goto, client, translator
  <2> QED BY <2>1, <2>2, <2>3, <2>4
<1>2. CASE pc' \in {"respond", "done", "escaped"}
  BY <1>2, ReturnedRelay
<1>3. CASE /\ pc' \in {"success", "failure", "catch"} /\ UNCHANGED <<sent, emitted>>
           /\ pc \in {"streaming", "success", "failure"}
  BY <1>3 DEF RelayOK, NothingEarly, NothingUnnoticed, OneVoice, NothingLate, BufferOK, Quiet
<1>4. CASE /\ pc' = "select" /\ UNCHANGED sent
           /\ pc = "expire" \/ (pc \in {"failure", "catch"} /\ ~ emitted)
  BY <1>4 DEF RelayOK, NothingEarly, NothingUnnoticed, OneVoice, NothingLate, BufferOK, Quiet
<1> QED BY <1>1, <1>2, <1>3, <1>4

\* A step that changes nothing of the stream.
LEMMA FrameRelay ==
  ASSUME RelayOK, UNCHANGED <<pc, attempt, call, translator, client>>
  PROVE  RelayOK'
<1>1. UNCHANGED <<Voices, Over, Current>>
  BY DEF attempt, client, Voices, Over, Told, Current
<1> QED BY <1>1 DEF RelayOK, NothingEarly, NothingUnnoticed, OneVoice, NothingLate, BufferOK,
           attempt, call, translator, client

-----------------------------------------------------------------------------
(* The steps of the contract.                                              *)

ContractStep == Contract!Next \/ UNCHANGED Contract!cvars

LEMMA NothingSaid ==
  ASSUME UNCHANGED sent
  PROVE  ContractStep
BY DEF ContractStep, Contract!cvars, Voices, Over, Told

LEMMA EndSaid ==
  ASSUME TypeOK, NEW kinds \in Seq(Kind \ {"delta"}), NEW a \in AccountId \cup {NoAccount},
         NEW n, Deliver(kinds, a, n)
  PROVE  ContractStep
<1>1. UNCHANGED <<Voices, Told({"delta"})>> /\ (Over' <=> Over \/ n > 0)
  BY DeliverEnd
<1>2. Over \in BOOLEAN /\ Over' \in BOOLEAN
  BY DEF Over
<1>3. CASE Over \/ ~ n > 0
  BY <1>1, <1>2, <1>3 DEF ContractStep, Contract!cvars
<1>4. CASE ~ Over /\ n > 0
  <2>1. Contract!End
    BY <1>1, <1>2, <1>4 DEF Contract!End
  <2> QED BY <2>1 DEF ContractStep, Contract!Next
<1> QED BY <1>3, <1>4

LEMMA TextSaid ==
  ASSUME TypeOK, NEW a \in AccountId, NEW n, Deliver(<<"delta">>, a, n),
         ~ Over, Voices \subseteq {a}
  PROVE  ContractStep
<1>1. CASE sent' = sent
  BY <1>1, NothingSaid
<1>2. CASE /\ Voices' = Voices \cup {a} /\ (Over' <=> Over)
           /\ Cardinality(Told({"delta"}))' = Cardinality(Told({"delta"})) + 1
  <2>1. Over \in BOOLEAN /\ Over' \in BOOLEAN
    BY DEF Over
  <2>2. Contract!Speak(a)
    BY <1>2, <2>1 DEF Contract!Speak
  <2> QED BY <2>2 DEF ContractStep, Contract!Next
<1> QED BY <1>1, <1>2, DeliverDelta

\* A buffered stream is one write of text and end.
LEMMA BufferedSaid ==
  ASSUME Inv, RelayOK, Buffered
  PROVE  ContractStep
<1>1. sent = <<>> /\ Voices = {} /\ Over = FALSE /\ Told({"delta"}) = {}
  BY NothingTold DEF Buffered, RelayOK, NothingEarly, Quiet
<1>2. CASE UNCHANGED sent
  BY <1>2, NothingSaid
<1>3. ASSUME NEW a \in AccountId, NEW n, Deliver(<<"delta", "finish", "done">>, a, n), n = 3
      PROVE  ContractStep
  <2> DEFINE kinds == <<"delta", "finish", "done">>
  <2>1. kinds \in Seq(Kind) /\ Len(sent) = 0
    BY <1>1 DEF Kind
  <2>2. /\ sent' \in Seq(Piece) /\ Len(sent') = 3
        /\ \A i \in 1 .. 3 : sent'[i] = [kind |-> kinds[i], from |-> a]
    <3> HIDE DEF kinds
    <3>1. /\ sent' \in Seq(Piece) /\ Len(sent') = Len(sent) + n
          /\ \A i \in 1 .. Len(sent') :
               sent'[i] = IF i <= Len(sent)
                          THEN sent[i]
                          ELSE [kind |-> kinds[i - Len(sent)], from |-> a]
      BY <1>3, <2>1, Delivered DEF Inv, kinds
    <3>2. \A i \in 1 .. 3 : ~ i <= 0 /\ i - 0 = i
      OBVIOUS
    <3> QED BY <1>3, <2>1, <3>1, <3>2
  <2>3. DOMAIN sent' = {1, 2, 3}
    BY <2>2
  <2>4. sent'[1] = [kind |-> "delta", from |-> a] /\ sent'[2].kind = "finish" /\ sent'[3].kind = "done"
    BY <2>2
  <2>5. Told({"delta"})' = {1}
    BY <2>3, <2>4 DEF Told
  <2>6. Voices' = {a} /\ Over' = TRUE
    BY <2>3, <2>4, <2>5 DEF Voices, Over, Told
  <2>7. Cardinality({1}) = 1 /\ Cardinality({}) = 0
    BY FS_Singleton, FS_EmptySet
  <2>8. Cardinality(Told({"delta"}))' = Cardinality(Told({"delta"})) + 1
    <3>1. Cardinality(Told({"delta"})) = 0
      BY <1>1, <2>7
    <3>2. Cardinality(Told({"delta"})') = 1
      BY <2>5, <2>7
    <3> QED BY <3>1, <3>2
  <2>9. Contract!End
    BY <1>1, <2>6, <2>8 DEF Contract!End
  <2> QED BY <2>9 DEF ContractStep, Contract!Next
<1>4. ASSUME NEW a \in AccountId, Deliver(<<"delta", "finish", "done">>, a, 0)
      PROVE  UNCHANGED sent
  <2>1. <<"delta", "finish", "done">> \in Seq(Kind) /\ 0 \in 0 .. 3
    BY DEF Kind
  <2>2. sent \in Seq(Piece) /\ Len(sent) \in Nat
    BY DEF Inv, TypeOK
  <2>3. /\ sent' \in Seq(Piece) /\ Len(sent') = Len(sent) + 0
        /\ \A i \in 1 .. Len(sent') :
             sent'[i] = IF i <= Len(sent)
                        THEN sent[i]
                        ELSE [kind |-> <<"delta", "finish", "done">>[i - Len(sent)], from |-> a]
    BY <1>4, <2>1, Delivered DEF Inv
  <2> QED BY <2>2, <2>3, SeqEqual
<1>5. \A a \in Range(group.members) : a \in AccountId
  BY DEF Inv, TypeOK, Group, MemberList, Range
<1>6. \/ UNCHANGED client
      \/ \E a \in Range(group.members) : \/ Deliver(<<"delta", "finish", "done">>, a, 3)
                                         \/ Deliver(<<"delta", "finish", "done">>, a, 0)
  BY DEF Buffered
<1> QED BY <1>2, <1>3, <1>4, <1>5, <1>6 DEF client

-----------------------------------------------------------------------------
(* An open stream.                                                         *)

LEMMA EndKinds ==
  /\ <<"finish", "done">> \in Seq(Kind \ {"delta"})
  /\ <<"error", "done">> \in Seq(Kind \ {"delta"})
  /\ <<"done">> \in Seq(Kind \ {"delta"})
BY DEF Kind

\* The event in the buffer, translated while the stream is open.
LEMMA TranslateSaid ==
  ASSUME Inv, RelayOK, pc = "streaming", buffer # "none", NEW n, Translate(buffer, n)
  PROVE  /\ ContractStep
         /\ Voices' \subseteq {Current}
         /\ Over' => buffer # "delta"
         /\ n = WritesOf(buffer) /\ ~ emitted' => sent' = <<>>
<1>1. Current \in AccountId /\ Current \in AccountId \cup {NoAccount} /\ TypeOK
  BY CurrentType DEF Inv, Working
<1>2. Voices \subseteq {Current} /\ (buffer = "delta" => ~ Over) /\ (~ emitted => sent = <<>>)
  BY DEF RelayOK, OneVoice, NothingLate, NothingUnnoticed
<1>3. CASE buffer = "delta" /\ Deliver(<<"delta">>, Current, n) /\ emitted' = (emitted \/ n = 1)
  <2>1. ContractStep
    BY <1>1, <1>2, <1>3, TextSaid
  <2>2. CASE n = 0 /\ sent' = sent
    BY <1>2, <1>3, <2>1, <2>2 DEF WritesOf, Voices, Over, Told
  <2>3. CASE n = 1 /\ Voices' = Voices \cup {Current} /\ (Over' <=> Over)
    BY <1>2, <1>3, <2>1, <2>3
  <2> QED BY <1>1, <1>3, <2>2, <2>3, DeliverDelta
<1>4. CASE /\ buffer # "delta" /\ Deliver(<<"finish", "done">>, Current, n)
           /\ buffer = "completed" \/ (buffer = "done" /\ ~ finished)
           /\ emitted' = (emitted \/ n > 0)
  <2>1. ContractStep /\ Voices' = Voices
    BY <1>1, <1>4, EndKinds, EndSaid, DeliverEnd
  <2>2. n = WritesOf(buffer) => emitted'
    <3>1. WritesOf(buffer) = 2
      BY <1>4 DEF WritesOf
    <3>2. n = WritesOf(buffer) => n > 0
      BY <3>1
    <3> QED BY <1>4, <3>2, Zenon
  <2> QED BY <1>2, <1>4, <2>1, <2>2
<1>5. CASE buffer = "done" /\ finished /\ n = 0 /\ UNCHANGED <<client, translator>>
  <2>1. UNCHANGED <<sent, emitted>>
    BY <1>5 DEF client, translator
  <2>2. ContractStep /\ Voices' = Voices
    BY <2>1, NothingSaid DEF Voices, Told
  <2> QED BY <1>2, <1>5, <2>1, <2>2
<1>6. CASE /\ buffer = "error" /\ Deliver(<<"error", "done">>, Current, n)
           /\ emitted' = (emitted \/ n = 2)
  <2>1. ContractStep /\ Voices' = Voices
    BY <1>1, <1>6, EndKinds, EndSaid, DeliverEnd
  <2>2. n = WritesOf(buffer) => emitted'
    BY <1>6 DEF WritesOf
  <2> QED BY <1>2, <1>6, <2>1, <2>2
<1> QED BY <1>3, <1>4, <1>5, <1>6 DEF Translate

\* Bytes of Z.ai, passed on.
LEMMA PassThroughRelay ==
  ASSUME Inv, RelayOK, PassThrough
  PROVE  RelayOK' /\ ContractStep
<1>1. PICK e \in {"delta", "done"}, n \in 0 .. 1 :
        /\ Carry(e)
        /\ Deliver(<<e>>, Current, n)
        /\ IF n = 1 THEN UNCHANGED <<pc, result>> ELSE Cancelled(TRUE)
  BY DEF PassThrough
<1>2. /\ pc = "streaming" /\ native = "zai" /\ emitted' = TRUE
      /\ UNCHANGED <<attempt, buffer>> /\ upstream = "open"
  BY <1>1 DEF PassThrough, Carry, Says
<1>3. /\ Current \in AccountId /\ Current \in AccountId \cup {NoAccount} /\ TypeOK
      /\ Voices \subseteq {Current} /\ ~ Over /\ buffer = "none"
  BY <1>2, CurrentType DEF Inv, Working, RelayOK, OneVoice, NothingLate, BufferOK
<1>4. /\ ContractStep /\ Voices' \subseteq {Current}
      /\ e = "delta" => ~ Over'
  <2>1. CASE e = "delta"
    <3>1. ContractStep
      BY <1>1, <1>3, <2>1, TextSaid
    <3>2. sent' = sent \/ (Voices' = Voices \cup {Current} /\ (Over' <=> Over))
      BY <1>1, <1>3, <2>1, DeliverDelta
    <3> QED BY <1>3, <3>1, <3>2 DEF Voices, Over, Told
  <2>2. CASE e = "done"
    BY <1>1, <1>3, <2>2, EndKinds, EndSaid, DeliverEnd
  <2> QED BY <2>1, <2>2
<1>5. CASE n = 1
  <2>1. pc' = "streaming" /\ Current' = Current /\ (e = "done" => upstream' = "closed")
    BY <1>1, <1>2, <1>5 DEF attempt, Current, Carry
  <2> QED BY <1>2, <1>3, <1>4, <2>1 DEF RelayOK, NothingEarly, NothingUnnoticed, OneVoice,
             NothingLate, BufferOK, Quiet, attempt
<1>6. CASE n # 1
  BY <1>1, <1>4, <1>6, ReturnedRelay DEF Cancelled, Return, Goto
<1> QED BY <1>5, <1>6

\* A stream that has been cancelled has returned.
LEMMA CancelledRelay ==
  ASSUME NEW e, Cancelled(e)
  PROVE  RelayOK'
BY ReturnedRelay DEF Cancelled, Return, Goto

\* A delta and the end of a codex turn.
LEMMA CodexRelay ==
  ASSUME Inv, RelayOK, CodexDelta \/ CodexCompletes
  PROVE  RelayOK' /\ ContractStep
<1>1. pc = "streaming" /\ native = "codex" /\ UNCHANGED attempt
  BY DEF CodexDelta, CodexCompletes
<1>2. /\ Current \in AccountId /\ Current \in AccountId \cup {NoAccount} /\ TypeOK
      /\ Voices \subseteq {Current} /\ buffer = "none" /\ (Over => upstream # "open")
  BY <1>1, CurrentType DEF Inv, Working, RelayOK, OneVoice, NothingLate, BufferOK
<1>3. CASE CodexDelta
  <2>1. PICK n \in 0 .. 1 :
          /\ Carry("delta")
          /\ Deliver(<<"delta">>, Current, n)
          /\ IF n = 1 THEN UNCHANGED <<pc, result>> ELSE Cancelled(TRUE)
    BY <1>3 DEF CodexDelta
  <2>2. ~ Over /\ upstream' = "open" /\ emitted' = TRUE /\ UNCHANGED buffer
    BY <1>2, <1>3, <2>1 DEF Carry, Says, CodexDelta
  <2>3. ContractStep
    BY <1>2, <2>1, <2>2, TextSaid
  <2>4. CASE n = 1
    <3>1. Voices' \subseteq {Current} /\ ~ Over'
      BY <1>2, <2>1, <2>2, <2>4, DeliverDelta
    <3>2. pc' = "streaming" /\ Current' = Current
      BY <1>1, <2>1, <2>4 DEF attempt, Current
    <3> QED BY <1>2, <2>2, <2>3, <3>1, <3>2 DEF RelayOK, NothingEarly, NothingUnnoticed, OneVoice,
               NothingLate, BufferOK, Quiet
  <2>5. CASE n # 1
    BY <2>1, <2>3, <2>5, CancelledRelay
  <2> QED BY <2>4, <2>5
<1>4. CASE CodexCompletes
  <2>1. PICK n \in 0 .. 2 :
          /\ Deliver(<<"finish", "done">>, Current, n)
          /\ emitted' = (emitted \/ n > 0)
          /\ IF n = 2 THEN Goto("success") /\ UNCHANGED result ELSE Cancelled(emitted')
    BY <1>4 DEF CodexCompletes
  <2>2. ContractStep
    BY <1>2, <2>1, EndKinds, EndSaid
  <2>3. CASE n = 2
    <3>1. n > 0
      BY <2>3
    <3>2. emitted' /\ pc' = "success"
      BY <2>1, <2>3, <3>1, Zenon DEF Goto
    <3> QED BY <2>2, <3>2 DEF RelayOK, NothingEarly, NothingUnnoticed, OneVoice, NothingLate,
               BufferOK, Quiet
  <2>4. CASE n # 2
    BY <2>1, <2>2, <2>4, CancelledRelay
  <2> QED BY <2>3, <2>4
<1> QED BY <1>3, <1>4

\* The events of Antigravity, until the response has ended.
LEMMA EventRelay ==
  ASSUME Inv, RelayOK, EventBegins \/ EventEnds \/ ResponseEnds
  PROVE  RelayOK' /\ ContractStep
<1>1. pc = "streaming" /\ native = "antigravity" /\ UNCHANGED attempt /\ Current' = Current
  BY DEF EventBegins, EventEnds, ResponseEnds, attempt, Current
<1>2. /\ Voices \subseteq {Current} /\ (~ emitted => sent = <<>>)
      /\ Over => upstream # "open" /\ buffer # "delta"
      /\ buffer # "none" /\ buffer # "delta" => upstream # "open"
  BY <1>1 DEF RelayOK, OneVoice, NothingUnnoticed, NothingLate, BufferOK
<1>3. CASE EventBegins
  <2>1. PICK e \in Event : Carry(e) /\ buffer' = e
    BY <1>3 DEF EventBegins
  <2>2. UNCHANGED <<pc, sent, emitted, native>>
    BY <1>3 DEF EventBegins, client, translator, attempt
  <2>3. e = "delta" => upstream = "open"
    BY <2>1 DEF Carry, Says
  <2>4. e # "delta" => upstream' # "open"
    BY <2>1 DEF Carry
  <2>5. UNCHANGED <<Voices, Over>>
    BY <2>2 DEF Voices, Over, Told
  <2>6. Over => e # "delta"
    BY <1>2, <2>3
  <2> QED BY <1>1, <1>2, <2>1, <2>2, <2>4, <2>5, <2>6, NothingSaid DEF RelayOK, NothingEarly,
             NothingUnnoticed, OneVoice, NothingLate, BufferOK, Quiet
<1>4. CASE EventEnds
  <2>1. PICK n \in 0 .. WritesOf(buffer) :
          /\ Translate(buffer, n)
          /\ IF n = WritesOf(buffer) THEN UNCHANGED <<pc, result>> ELSE Cancelled(emitted')
    BY <1>4 DEF EventEnds
  <2>2. /\ ContractStep /\ Voices' \subseteq {Current}
        /\ Over' => buffer # "delta"
        /\ n = WritesOf(buffer) /\ ~ emitted' => sent' = <<>>
    BY <1>1, <1>4, <2>1, TranslateSaid DEF EventEnds
  <2>3. CASE n = WritesOf(buffer)
    <3>1. pc' = "streaming" /\ buffer' = "none" /\ UNCHANGED upstream /\ buffer # "none"
      BY <1>1, <1>4, <2>1, <2>3 DEF EventEnds
    <3>2. Over' => upstream' # "open" /\ buffer' # "delta"
      BY <1>2, <2>2, <3>1
    <3> QED BY <1>1, <2>2, <2>3, <3>1, <3>2 DEF RelayOK, NothingEarly, NothingUnnoticed, OneVoice,
               NothingLate, BufferOK, Quiet
  <2>4. CASE n # WritesOf(buffer)
    BY <2>1, <2>2, <2>4, CancelledRelay
  <2> QED BY <2>3, <2>4
<1>5. CASE ResponseEnds
  <2>1. CASE pc' \in {"failure", "closing"} /\ UNCHANGED <<translator, client>>
    BY <1>2, <2>1, NothingSaid DEF translator, client, RelayOK, NothingEarly, NothingUnnoticed,
       OneVoice, NothingLate, BufferOK, Quiet
  <2>2. ASSUME NEW n \in 0 .. WritesOf(buffer), Translate(buffer, n), buffer # "none",
               IF n = WritesOf(buffer) THEN Goto("closing") /\ UNCHANGED result
               ELSE Cancelled(emitted')
        PROVE  RelayOK' /\ ContractStep
    <3>1. ContractStep /\ (n = WritesOf(buffer) /\ ~ emitted' => sent' = <<>>)
      BY <1>1, <2>2, TranslateSaid
    <3>2. CASE n = WritesOf(buffer)
      <4>1. pc' = "closing"
        BY <2>2, <3>2 DEF Goto
      <4> QED BY <3>1, <3>2, <4>1 DEF RelayOK, NothingEarly, NothingUnnoticed, OneVoice,
                 NothingLate, BufferOK, Quiet
    <3>3. CASE n # WritesOf(buffer)
      BY <2>2, <3>1, <3>3, CancelledRelay
    <3> QED BY <3>2, <3>3
  <2> QED BY <1>5, <2>1, <2>2 DEF ResponseEnds, Goto
<1> QED BY <1>3, <1>4, <1>5

\* The end of a stream that has not said any.
LEMMA CloseRelay ==
  ASSUME Inv, RelayOK, Close
  PROVE  RelayOK' /\ ContractStep
<1>1. CASE pc' = "success" /\ UNCHANGED <<translator, client>>
  <2>1. pc = "closing"
    BY DEF Close
  <2> QED BY <1>1, <2>1, NothingSaid DEF translator, client, RelayOK, NothingEarly,
             NothingUnnoticed, OneVoice, NothingLate, BufferOK, Quiet
<1>2. ASSUME NEW n \in 0 .. 2, Deliver(<<"finish", "done">>, Current, n), emitted' = (emitted \/ n = 2),
             IF n = 2 THEN Goto("success") /\ UNCHANGED result ELSE Cancelled(emitted)
      PROVE  RelayOK' /\ ContractStep
  <2>1. Current \in AccountId \cup {NoAccount} /\ TypeOK
    BY CurrentType DEF Close, Working, Inv
  <2>2. ContractStep
    BY <1>2, <2>1, EndKinds, EndSaid
  <2>3. CASE n = 2
    <3>1. emitted' /\ pc' = "success"
      BY <1>2, <2>3, Zenon DEF Goto
    <3> QED BY <2>2, <3>1 DEF RelayOK, NothingEarly, NothingUnnoticed, OneVoice, NothingLate,
               BufferOK, Quiet
  <2>4. CASE n # 2
    BY <1>2, <2>2, <2>4, CancelledRelay
  <2> QED BY <2>3, <2>4
<1> QED BY <1>1, <1>2 DEF Close, Goto

-----------------------------------------------------------------------------
(* The contract.                                                           *)

LEMMA OutcomeSaid ==
  ASSUME Inv,
         \/ PassThroughEnds \/ ConnectionLost \/ CodexBreaks
         \/ MarkAuthExpired \/ RecordSuccess \/ RecordFailure \/ Respond
  PROVE  ContractStep
<1>1. CASE UNCHANGED client
  BY <1>1, NothingSaid DEF client
<1>2. ASSUME NEW a \in AccountId \cup {NoAccount}, NEW n, Deliver(<<"error", "done">>, a, n)
      PROVE  ContractStep
  BY <1>2, EndKinds, EndSaid DEF Inv
<1>3. \/ UNCHANGED client
      \/ pc \in Working /\ \E n \in 0 .. 2 : Deliver(<<"error", "done">>, Current, n)
      \/ \E n \in 0 .. 2 : Deliver(<<"error", "done">>, NoAccount, n)
  BY DEF PassThroughEnds, ConnectionLost, CodexBreaks, MarkAuthExpired, RecordSuccess,
     RecordFailure, Respond, Working
<1>4. pc \in Working => Current \in AccountId
  BY CurrentType
<1> QED BY <1>1, <1>2, <1>3, <1>4

LEMMA NextRelay == Inv /\ RelayOK /\ [Next]_vars => RelayOK' /\ ContractStep
<1> SUFFICES ASSUME Inv, RelayOK, [Next]_vars PROVE RelayOK' /\ ContractStep
  OBVIOUS
<1>1. CASE Respond \/ Buffered
  <2>1. pc' \in {"respond", "done", "escaped"}
    BY <1>1 DEF Respond, Buffered, Return, Escape, Goto
  <2> QED BY <1>1, <2>1, ReturnedRelay, OutcomeSaid, BufferedSaid
<1>2. CASE Local /\ ~ Respond
  BY <1>2, BeforeRelay, NothingSaid, CloseRelay, OutcomeRelay, OutcomeSaid DEF Local
<1>3. CASE Upstream
  <2>1. CASE \/ ProviderAccepts \/ ProviderUnauthorized \/ ProviderRejects \/ ProviderFails
             \/ ProviderThrows
    BY <2>1, BeforeRelay, NothingSaid
  <2>2. CASE PassThrough \/ CodexDelta \/ CodexCompletes \/ EventBegins \/ EventEnds \/ ResponseEnds
    BY <2>2, PassThroughRelay, CodexRelay, EventRelay
  <2>3. CASE PassThroughEnds \/ ConnectionLost \/ CodexBreaks
    BY <2>3, OutcomeRelay, OutcomeSaid
  <2> QED BY <1>3, <2>1, <2>2, <2>3 DEF Upstream
<1>4. CASE SaveGroup \/ (\E a \in AccountId : RemoveAccount(a)) \/ Finished \/ UNCHANGED vars
  <2>1. UNCHANGED <<pc, attempt, call, translator, client>>
    BY <1>4 DEF SaveGroup, RemoveAccount, Edit, Finished, vars
  <2> QED BY <2>1, FrameRelay, NothingSaid DEF client
<1> QED BY <1>1, <1>2, <1>3, <1>4 DEF Next

\* However a stream is interrupted, retried and edited under, the client receives
\* the text of a single account and none of it after the end: the relay
\* implements StreamContract.
THEOREM RelayKeepsContract == Spec => KeepsContract
<1>1. Init => Contract!Init
  <2>1. Cardinality({}) = 0
    BY FS_EmptySet
  <2> QED BY <2>1, NothingTold DEF Init, Contract!Init
<1>2. Inv /\ RelayOK /\ [Next]_vars => [Contract!Next]_(Contract!cvars)
  BY NextRelay DEF ContractStep
<1>3. Inv /\ RelayOK /\ [Next]_vars => RelayOK'
  BY NextRelay
<1> QED BY <1>1, <1>2, <1>3, InitRelay, StreamInvariance, PTL DEF Spec, KeepsContract, Contract!Spec

-----------------------------------------------------------------------------
(* How a stream ends.  At every stage the invariant knows whether [DONE]   *)
(* has been written and whether it was the last thing written: that is     *)
(* what the writes of the next stage depend on.                            *)

DoneLast == sent # <<>> /\ Last(sent).kind = "done"

DoneTold == Told({"done"}) # {}

DoneOnce == ~ Cardinality(Told({"done"})) > 1

Returned == {"respond", "done", "escaped"}

\* Until the handler returns, its client is there and has at most one end.
Running ==
  /\ pc \notin Returned => connected /\ result.status = "none" /\ DoneOnce
  /\ pc \in {"idle", "enter", "buffered"} => native = "none"
  /\ pc \in {"prepare", "connecting"} =>
       ~ emitted /\ ~ finished /\ ~ providerError /\ upstream = "open"
  /\ pc = "escaped" /\ native # "none" => attempted # <<>>

\* While the stream is open [DONE] is told by the translator or by Z.ai itself.
EndWhileOpen ==
  pc = "streaming" =>
    /\ finished => native = "antigravity" /\ upstream # "open" /\ buffer \in {"none", "done"}
    /\ finished \/ (native = "zai" /\ upstream = "closed") => DoneLast
    /\ DoneTold => finished \/ (native = "zai" /\ upstream = "closed")
    /\ Told({"error"}) # {} => providerError
    /\ providerError => native = "antigravity"

EndWhileClosing ==
  pc = "closing" =>
    /\ native = "antigravity"
    /\ finished => DoneLast
    /\ DoneTold => finished
    /\ Told({"error"}) # {} => buffer = "error"

EndAtSuccess ==
  pc = "success" =>
    /\ DoneLast \/ (native = "zai" /\ upstream # "closed")
    /\ finished => DoneLast
    /\ Told({"error"}) # {} => buffer = "error"

\* A failed attempt after whose [DONE] the row was not removed is Z.ai's, or was
\* ended by the translator.
EndAtFailure ==
  pc \in {"failure", "catch"} =>
    /\ finished => DoneLast
    /\ DoneTold => finished \/ native = "zai" \/ accounts[Current] = NoRow

\* Respond has something to write only when nothing has been written.
EndAtReturn ==
  pc = "respond" =>
    /\ result.status # "none"
    /\ connected => IF result.status = "ok" \/ result.emitted
                    THEN EndedSilently \/ DoneLast
                    ELSE sent = <<>>

EndOK ==
  /\ Running /\ EndWhileOpen /\ EndWhileClosing /\ EndAtSuccess /\ EndAtFailure /\ EndAtReturn
  /\ EndIsTold /\ SuccessIsComplete /\ EscapesExcused

-----------------------------------------------------------------------------
(* What a delivery says of the end.                                        *)

\* A kind that is not among the pieces that reached the client has not been
\* told again.
LEMMA NotDelivered ==
  ASSUME TypeOK, NEW kinds \in Seq(Kind), NEW a \in AccountId \cup {NoAccount}, NEW n,
         Deliver(kinds, a, n), NEW k, \A i \in 1 .. n : kinds[i] # k
  PROVE  Told({k})' = Told({k})
<1>1. /\ n \in 0 .. Len(kinds) /\ sent' \in Seq(Piece) /\ Len(sent') = Len(sent) + n
      /\ \A i \in 1 .. Len(sent') :
           sent'[i] = IF i <= Len(sent)
                      THEN sent[i]
                      ELSE [kind |-> kinds[i - Len(sent)], from |-> a]
  BY Delivered
<1>2. Len(sent) \in Nat /\ DOMAIN sent = 1 .. Len(sent) /\ DOMAIN sent' = 1 .. Len(sent')
  BY <1>1 DEF TypeOK
<1>3. \A i \in 1 .. Len(sent) : sent'[i] = sent[i]
  BY <1>1, <1>2
<1>4. \A i \in Len(sent) + 1 .. Len(sent') : sent'[i].kind # k
  <2>1. ASSUME NEW i \in Len(sent) + 1 .. Len(sent') PROVE sent'[i].kind # k
    <3>1. i - Len(sent) \in 1 .. n /\ ~ i <= Len(sent) /\ i \in 1 .. Len(sent')
      BY <1>1, <1>2
    <3>2. sent'[i] = [kind |-> kinds[i - Len(sent)], from |-> a]
      BY <1>1, <3>1
    <3> QED BY <3>1, <3>2
  <2> QED BY <2>1
<1> QED BY <1>1, <1>2, <1>3, <1>4 DEF Told

\* When [DONE] comes last and all of it was written, the client has been told the
\* end once more, and nothing after it.
LEMMA DoneDelivered ==
  ASSUME TypeOK, NEW kinds \in Seq(Kind), NEW a \in AccountId \cup {NoAccount},
         Deliver(kinds, a, Len(kinds)), kinds # <<>>, kinds[Len(kinds)] = "done",
         \A i \in 1 .. Len(kinds) - 1 : kinds[i] # "done"
  PROVE  /\ connected /\ connected' /\ DoneLast' /\ DoneTold'
         /\ Cardinality(Told({"done"}))' = Cardinality(Told({"done"})) + 1
<1>0. Len(kinds) \in Nat /\ Len(kinds) > 0
  BY EmptySeq, LenProperties
<1>1. /\ sent' \in Seq(Piece) /\ Len(sent') = Len(sent) + Len(kinds)
      /\ \A i \in 1 .. Len(sent') :
           sent'[i] = IF i <= Len(sent)
                      THEN sent[i]
                      ELSE [kind |-> kinds[i - Len(sent)], from |-> a]
  BY Delivered
<1>2. Len(sent) \in Nat /\ DOMAIN sent = 1 .. Len(sent) /\ DOMAIN sent' = 1 .. Len(sent')
  BY <1>1 DEF TypeOK
<1>3. \A i \in 1 .. Len(sent) : sent'[i] = sent[i]
  BY <1>0, <1>1, <1>2
<1> DEFINE last == Len(sent')
<1>4. sent'[last] = [kind |-> "done", from |-> a]
  <2>1. last \in 1 .. Len(sent') /\ ~ last <= Len(sent) /\ last - Len(sent) = Len(kinds)
    BY <1>0, <1>1, <1>2
  <2> QED BY <1>1, <2>1
<1>5. ASSUME NEW i \in Len(sent) + 1 .. Len(sent') - 1
      PROVE  sent'[i].kind # "done"
  <2>1. i \in 1 .. Len(sent') /\ ~ i <= Len(sent) /\ i - Len(sent) \in 1 .. Len(kinds) - 1
    BY <1>0, <1>1, <1>2
  <2>2. sent'[i] = [kind |-> kinds[i - Len(sent)], from |-> a]
    BY <1>1, <2>1
  <2> QED BY <2>1, <2>2
<1>6. Told({"done"})' = Told({"done"}) \cup {last}
  BY <1>0, <1>1, <1>2, <1>3, <1>4, <1>5 DEF Told
<1>7. last \notin Told({"done"})
  BY <1>0, <1>1, <1>2 DEF Told
<1>8. Cardinality(Told({"done"}))' = Cardinality(Told({"done"})) + 1
  BY <1>6, <1>7, ToldFinite, FS_AddElement
<1>9. DoneLast'
  <2>1. sent' # <<>>
    BY <1>0, <1>1, <1>2
  <2> QED BY <1>4, <2>1 DEF DoneLast, Last
<1>10. connected /\ connected'
  BY <1>0 DEF Deliver
<1> QED BY <1>6, <1>8, <1>9, <1>10 DEF DoneTold

\* An end of two pieces: [DONE] is told if both were written, or the client is gone.
LEMMA EndDelivered ==
  ASSUME TypeOK, NEW k \in {"finish", "error"}, NEW a \in AccountId \cup {NoAccount}, NEW n,
         Deliver(<<k, "done">>, a, n)
  PROVE  /\ n \in 0 .. 2
         /\ n = 2 => /\ connected /\ connected' /\ DoneLast' /\ DoneTold'
                     /\ Cardinality(Told({"done"}))' = Cardinality(Told({"done"})) + 1
         /\ n = 2 \/ (~ connected' /\ Told({"done"})' = Told({"done"}))
         /\ k = "finish" => Told({"error"})' = Told({"error"})
<1> DEFINE kinds == <<k, "done">>
<1>1. kinds \in Seq(Kind) /\ Len(kinds) = 2 /\ kinds # <<>> /\ kinds[1] = k /\ kinds[2] = "done"
  BY DEF Kind
<1>2. k # "done" /\ (k = "finish" => k # "error")
  OBVIOUS
<1> HIDE DEF kinds
<1>3. Deliver(kinds, a, n)
  BY DEF kinds
<1>4. n \in 0 .. 2
  BY <1>1, <1>3 DEF Deliver
<1>5. CASE n = 2
  <2>1. \A i \in 1 .. Len(kinds) - 1 : kinds[i] # "done"
    BY <1>1, <1>2
  <2>2. Deliver(kinds, a, Len(kinds)) /\ kinds[Len(kinds)] = "done"
    BY <1>1, <1>3, <1>5
  <2>3. /\ connected /\ connected' /\ DoneLast' /\ DoneTold'
        /\ Cardinality(Told({"done"}))' = Cardinality(Told({"done"})) + 1
    BY <1>1, <2>1, <2>2, DoneDelivered
  <2>4. ASSUME k = "finish" PROVE Told({"error"})' = Told({"error"})
    <3>1. \A i \in 1 .. n : kinds[i] # "error"
      BY <1>1, <1>5, <2>4
    <3> QED BY <1>1, <1>3, <3>1, NotDelivered
  <2> QED BY <1>4, <1>5, <2>3, <2>4
<1>6. CASE n # 2
  <2>1. \A i \in 1 .. n : kinds[i] = k
    BY <1>1, <1>4, <1>6
  <2>2. ~ connected'
    BY <1>1, <1>3, <1>6 DEF Deliver
  <2>3. Told({"done"})' = Told({"done"})
    BY <1>1, <1>2, <1>3, <2>1, NotDelivered
  <2>4. k = "finish" => Told({"error"})' = Told({"error"})
    BY <1>1, <1>2, <1>3, <2>1, NotDelivered
  <2> QED BY <1>4, <1>6, <2>2, <2>3, <2>4
<1> QED BY <1>5, <1>6

\* One piece: told, or the client is gone; text says nothing of the end.
LEMMA OneDelivered ==
  ASSUME TypeOK, NEW k \in {"delta", "done"}, NEW a \in AccountId \cup {NoAccount}, NEW n,
         Deliver(<<k>>, a, n)
  PROVE  /\ n \in 0 .. 1
         /\ n = 1 => connected /\ connected'
         /\ n = 1 \/ ~ connected'
         /\ Told({"error"})' = Told({"error"})
         /\ n # 1 \/ k = "delta" => Told({"done"})' = Told({"done"})
         /\ n = 1 /\ k = "done" =>
              /\ DoneLast' /\ DoneTold'
              /\ Cardinality(Told({"done"}))' = Cardinality(Told({"done"})) + 1
<1> DEFINE kinds == <<k>>
<1>1. kinds \in Seq(Kind) /\ Len(kinds) = 1 /\ kinds # <<>> /\ kinds[1] = k
  BY DEF Kind
<1> HIDE DEF kinds
<1>2. Deliver(kinds, a, n)
  BY DEF kinds
<1>3. n \in 0 .. 1 /\ (n # 1 => ~ connected') /\ (n = 1 => connected /\ connected')
  <2>1. n \in 0 .. 1 /\ (n > 0 => connected) /\ (n = 1 => n > 0)
    BY <1>1, <1>2 DEF Deliver
  <2>2. connected' = (connected /\ n = 1)
    BY <1>1, <1>2 DEF Deliver
  <2> QED BY <2>1, <2>2, Zenon
<1>4. \A i \in 1 .. n : kinds[i] = k
  BY <1>1, <1>3
<1>5. Told({"error"})' = Told({"error"})
  <2>1. \A i \in 1 .. n : kinds[i] # "error"
    BY <1>4
  <2> QED BY <1>1, <1>2, <2>1, NotDelivered
<1>6. ASSUME n # 1 \/ k = "delta" PROVE Told({"done"})' = Told({"done"})
  <2>1. \A i \in 1 .. n : kinds[i] # "done"
    BY <1>3, <1>4, <1>6
  <2> QED BY <1>1, <1>2, <2>1, NotDelivered
<1>7. ASSUME n = 1, k = "done"
      PROVE  /\ DoneLast' /\ DoneTold'
             /\ Cardinality(Told({"done"}))' = Cardinality(Told({"done"})) + 1
  <2>1. Deliver(kinds, a, Len(kinds)) /\ kinds[Len(kinds)] = "done"
    BY <1>1, <1>2, <1>7
  <2>2. \A i \in 1 .. Len(kinds) - 1 : kinds[i] # "done"
    BY <1>1
  <2> QED BY <1>1, <2>1, <2>2, DoneDelivered
<1> QED BY <1>3, <1>5, <1>6, <1>7
-----------------------------------------------------------------------------
(* The invariant of the end, action by action.                             *)

\* Nothing sent, nothing told.
LEMMA SilentEnd ==
  /\ sent = <<>> => ~ DoneLast /\ ~ DoneTold /\ DoneOnce /\ Told({"error"}) = {}
  /\ ~ DoneTold => Cardinality(Told({"done"})) = 0
<1>1. Cardinality({}) = 0
  BY FS_EmptySet
<1>2. sent = <<>> => Told({"done"}) = {} /\ Told({"error"}) = {}
  BY DEF Told
<1>3. ~ DoneTold => Cardinality(Told({"done"})) = 0
  BY <1>1 DEF DoneTold
<1>4. ASSUME sent = <<>> PROVE ~ DoneTold /\ DoneOnce
  <2>1. ~ DoneTold
    BY <1>2, <1>4 DEF DoneTold
  <2> QED BY <1>3, <2>1 DEF DoneOnce
<1> QED BY <1>2, <1>3, <1>4 DEF DoneLast

LEMMA LastIsTold == ASSUME TypeOK, DoneLast PROVE DoneTold
<1>1. sent \in Seq(Piece) /\ sent # <<>>
  BY DEF TypeOK, DoneLast
<1>2. Len(sent) \in DOMAIN sent /\ sent[Len(sent)].kind = "done"
  <2>1. Len(sent) \in Nat /\ Len(sent) # 0 /\ DOMAIN sent = 1 .. Len(sent)
    BY <1>1, EmptySeq
  <2> QED BY <2>1 DEF DoneLast, Last
<1> QED BY <1>2 DEF DoneTold, Told

LEMMA InitEnd == Init => EndOK
<1> SUFFICES ASSUME Init PROVE EndOK
  OBVIOUS
<1>1. /\ ~ DoneLast /\ ~ DoneTold /\ DoneOnce /\ Cardinality(Told({"done"})) = 0
  BY SilentEnd DEF Init
<1> QED BY <1>1 DEF Init, EndOK, Running, EndWhileOpen, EndWhileClosing, EndAtSuccess, EndAtFailure,
           EndAtReturn, EndIsTold, EndsWithDone, EndsOnce, SuccessIsComplete, EscapesExcused,
           Returned

\* A step that changes nothing of the stream, and brings no row back.
LEMMA FrameEnd ==
  ASSUME Inv, EndOK, UNCHANGED <<pc, attempt, call, translator, client, result>>,
         \A a \in AccountId : accounts[a] = NoRow => accounts'[a] = NoRow
  PROVE  EndOK'
<1>1. /\ UNCHANGED <<DoneLast, DoneTold, DoneOnce, Told({"done"}), Told({"error"}), EndedSilently,
                     OverHttp, Current>>
  BY DEF attempt, call, client, DoneLast, DoneTold, DoneOnce, Told, EndedSilently, OverHttp, Current
<1>2. attempted # <<>> => Current \in AccountId
  BY DEF Inv, TypeOK, Current
<1>3. pc \in {"failure", "catch"} \/ (pc = "escaped" /\ native # "none") => attempted # <<>>
  BY DEF Inv, AttemptOK, Working, EndOK, Running
<1>4. /\ UNCHANGED <<pc, native, attempted, row, upstream, buffer, emitted, finished,
                     providerError, connected, sent, result>>
  BY DEF attempt, call, translator, client
<1>5. (EndAtFailure /\ EscapesExcused)'
  BY <1>1, <1>2, <1>3, <1>4 DEF EndOK, EndAtFailure, EscapesExcused
<1>6. (Running /\ EndWhileOpen /\ EndWhileClosing /\ EndAtSuccess /\ EndAtReturn)'
  BY <1>1, <1>4 DEF EndOK, Running, EndWhileOpen, EndWhileClosing, EndAtSuccess, EndAtReturn
<1>7. (EndIsTold /\ SuccessIsComplete)'
  BY <1>1, <1>4 DEF EndOK, EndIsTold, EndsWithDone, EndsOnce, SuccessIsComplete
<1> QED BY <1>5, <1>6, <1>7 DEF EndOK

\* Up to the first byte of a stream.
LEMMA BeforeEnd ==
  ASSUME Inv, RelayOK, EndOK,
         \/ Arrive \/ Enter \/ Select
         \/ CredentialMissing \/ CredentialUnreadable \/ ModelMissing \/ PromptMissing
         \/ CallProvider
         \/ ProviderAccepts \/ ProviderUnauthorized \/ ProviderRejects \/ ProviderFails
         \/ ProviderThrows
  PROVE  EndOK'
<1>1. pc \in Quiet /\ UNCHANGED client
  BY DEF Arrive, Enter, Select, CredentialMissing, CredentialUnreadable, ModelMissing,
     PromptMissing, CallProvider, ProviderAccepts, ProviderUnauthorized, ProviderRejects,
     ProviderFails, ProviderThrows, AtPrepare, AtConnecting, Quiet
<1>2. sent = <<>> /\ sent' = <<>> /\ connected' /\ result.status = "none"
  BY <1>1 DEF RelayOK, NothingEarly, client, EndOK, Running, Quiet, Returned
<1>3. /\ (DoneLast = FALSE)' /\ (DoneTold = FALSE)' /\ DoneOnce'
      /\ Told({"error"})' = {} /\ Cardinality(Told({"done"}))' = 0
  <2>1. Told({"done"})' = {} /\ Told({"error"})' = {}
    BY <1>2 DEF Told
  <2>2. Cardinality({}) = 0
    BY FS_EmptySet
  <2>3. Cardinality(Told({"done"}))' = 0 /\ ~ 0 > 1
    BY <2>1, <2>2
  <2> QED BY <1>2, <2>1, <2>3 DEF DoneLast, DoneTold, DoneOnce
<1>4. \/ /\ pc' \in {"enter", "buffered", "done"} /\ native' = "none" /\ UNCHANGED result
      \/ /\ pc' = "respond" /\ result'.emitted = FALSE
         /\ result'.status \in {"unavailable", "badRequest", "rejected"}
      \/ pc' \in {"select", "expire"} /\ UNCHANGED result
      \/ /\ pc' \in {"prepare", "connecting", "streaming", "failure", "catch"} /\ UNCHANGED result
         /\ ~ emitted' /\ ~ finished' /\ ~ providerError' /\ upstream' = "open"
      \/ /\ pc' = "escaped" /\ UNCHANGED result
         /\ (OverHttp /\ row.credentialRef /\ ~ emitted)' /\ attempted' # <<>>
  <2>1. CASE Arrive
    BY <1>1, <2>1 DEF Arrive, Goto, attempt, EndOK, Running
  <2>2. CASE Enter
    BY <2>2 DEF Enter, Goto, Return, EndOK, Running
  <2>3. CASE Select
    BY <2>3 DEF Select, Goto, Return
  <2>4. CASE ~ (Arrive \/ Enter \/ Select)
    <3>1. /\ pc \in {"prepare", "connecting"} /\ UNCHANGED <<attempt, call, translator>>
      BY <2>4 DEF CredentialMissing, CredentialUnreadable, ModelMissing, PromptMissing,
         CallProvider, ProviderAccepts, ProviderUnauthorized, ProviderRejects, ProviderFails,
         ProviderThrows, AtPrepare, AtConnecting
    <3>2. /\ attempted' # <<>> /\ UNCHANGED <<OverHttp, row>>
          /\ ~ emitted' /\ ~ finished' /\ ~ providerError' /\ upstream' = "open"
      BY <3>1 DEF attempt, call, translator, EndOK, Running, Inv, AttemptOK, Working, OverHttp
    <3>3. \/ UNCHANGED result /\ pc' \in {"select", "expire", "connecting", "streaming",
                                          "failure", "catch"}
          \/ UNCHANGED result /\ pc' = "escaped" /\ OverHttp /\ row.credentialRef
          \/ Return("badRequest", FALSE, NoAccount)
          \/ Return("rejected", FALSE, Current)
      BY <2>4 DEF CredentialMissing, CredentialUnreadable, ModelMissing, PromptMissing,
         CallProvider, ProviderAccepts, ProviderUnauthorized, ProviderRejects, ProviderFails,
         ProviderThrows, Goto, Escape
    <3> QED BY <3>2, <3>3 DEF Return, Goto
  <2> QED BY <2>1, <2>2, <2>3, <2>4
<1>5. (EndIsTold /\ SuccessIsComplete /\ EscapesExcused)'
  BY <1>2, <1>3, <1>4 DEF EndIsTold, EndsWithDone, EndsOnce, SuccessIsComplete, EscapesExcused
<1>6. (EndWhileOpen /\ EndWhileClosing /\ EndAtSuccess /\ EndAtFailure /\ EndAtReturn)'
  BY <1>2, <1>3, <1>4 DEF EndWhileOpen, EndWhileClosing, EndAtSuccess, EndAtFailure, EndAtReturn
<1>7. Running'
  BY <1>2, <1>3, <1>4 DEF Running, Returned
<1> QED BY <1>5, <1>6, <1>7 DEF EndOK

\* A write that fails ends the stream without an end.
LEMMA CancelledEnd ==
  ASSUME EndOK, pc \in {"streaming", "closing"}, NEW e, Cancelled(e), ~ connected',
         Told({"done"})' = Told({"done"})
  PROVE  EndOK'
<1>1. pc' = "respond" /\ result'.status = "cancelled"
  BY DEF Cancelled, Return, Goto
<1>2. EndsOnce'
  BY DEF EndOK, Running, Returned, EndsOnce, DoneOnce
<1> QED BY <1>1, <1>2 DEF EndOK, Running, EndWhileOpen, EndWhileClosing, EndAtSuccess, EndAtFailure,
           EndAtReturn, EndIsTold, EndsWithDone, SuccessIsComplete, EscapesExcused, Returned

\* A buffered stream told all of its answer, or none of it.
LEMMA BufferedEnd ==
  ASSUME Inv, RelayOK, EndOK, Buffered
  PROVE  EndOK'
<1>1. /\ pc = "buffered" /\ sent = <<>> /\ connected /\ result.status = "none" /\ native' = "none"
      /\ UNCHANGED <<buffer, upstream>>
  BY DEF Buffered, RelayOK, NothingEarly, Quiet, EndOK, Running, Returned, attempt, call
<1>2. ~ DoneTold /\ DoneOnce /\ Told({"error"}) = {} /\ Cardinality(Told({"done"})) = 0
  BY <1>1, SilentEnd
<1>3. CASE UNCHANGED client
  <2>1. /\ DoneOnce' /\ Told({"error"})' = {} /\ sent' = <<>>
        /\ Cardinality(Told({"done"}))' = 0
    BY <1>1, <1>2, <1>3 DEF client, DoneOnce, Told
  <2>2. \/ pc' = "respond" /\ result'.emitted = FALSE
           /\ result'.status \in {"rejected", "badRequest", "unavailable", "failed", "cancelled"}
        \/ pc' = "escaped" /\ UNCHANGED result
        \/ pc' = "respond" /\ \E a \in Range(group.members) : Deliver(<<"delta", "finish", "done">>, a, 3)
    BY DEF Buffered, Return, Goto, Escape
  <2>3. ASSUME NEW a \in Range(group.members), Deliver(<<"delta", "finish", "done">>, a, 3)
        PROVE  FALSE
    <3>1. <<"delta", "finish", "done">> \in Seq(Kind) /\ a \in AccountId \cup {NoAccount}
      BY <2>3 DEF Kind, Inv, TypeOK, Group, MemberList, Range
    <3>2. Len(sent') = Len(sent) + 3 /\ Len(sent) = 0 /\ Len(sent') = 0
      BY <1>1, <1>3, <2>3, <3>1, Delivered DEF client, Inv
    <3> QED BY <3>2
  <2> QED BY <1>1, <2>1, <2>2, <2>3 DEF EndOK, Running, EndWhileOpen, EndWhileClosing, EndAtSuccess,
             EndAtFailure, EndAtReturn, EndIsTold, EndsWithDone, EndsOnce, SuccessIsComplete,
             EscapesExcused, Returned
<1>4. ASSUME NEW a \in Range(group.members), Deliver(<<"delta", "finish", "done">>, a, 3),
             Return("ok", TRUE, a)
      PROVE  EndOK'
  <2> DEFINE kinds == <<"delta", "finish", "done">>
  <2>1. /\ kinds \in Seq(Kind) /\ Len(kinds) = 3 /\ kinds # <<>> /\ kinds[3] = "done"
        /\ \A i \in 1 .. 2 : kinds[i] # "done"
        /\ \A i \in 1 .. 3 : kinds[i] # "error"
    BY DEF Kind
  <2>2. a \in AccountId \cup {NoAccount}
    BY <1>4 DEF Inv, TypeOK, Group, MemberList, Range
  <2> HIDE DEF kinds
  <2>3. Deliver(kinds, a, Len(kinds)) /\ Deliver(kinds, a, 3)
    BY <1>4, <2>1 DEF kinds
  <2>4. \A i \in 1 .. Len(kinds) - 1 : kinds[i] # "done"
    BY <2>1
  <2>5. /\ connected' /\ DoneLast' /\ DoneTold'
        /\ Cardinality(Told({"done"}))' = Cardinality(Told({"done"})) + 1
    BY <2>1, <2>2, <2>3, <2>4, DoneDelivered DEF Inv
  <2>6. Told({"error"})' = {}
    <3>1. \A i \in 1 .. 3 : kinds[i] # "error"
      BY <2>1
    <3>2. Told({"error"})' = Told({"error"})
      BY <2>2, <2>1, <2>3, <3>1, NotDelivered, Zenon DEF Inv
    <3> QED BY <1>2, <3>2
  <2>7. Cardinality(Told({"done"}))' = 1
    BY <1>2, <2>5
  <2>8. pc' = "respond" /\ result'.status = "ok" /\ result'.emitted = TRUE
    BY <1>4 DEF Return, Goto
  <2>9. (EndIsTold /\ SuccessIsComplete /\ EscapesExcused)'
    BY <2>5, <2>6, <2>7, <2>8 DEF EndIsTold, EndsWithDone, EndsOnce, SuccessIsComplete,
       EscapesExcused, DoneTold
  <2> QED BY <2>5, <2>8, <2>9 DEF EndOK, Running, EndWhileOpen, EndWhileClosing, EndAtSuccess,
             EndAtFailure, EndAtReturn, Returned
<1>5. ASSUME NEW a \in Range(group.members), Deliver(<<"delta", "finish", "done">>, a, 0),
             Return("cancelled", FALSE, NoAccount)
      PROVE  EndOK'
  <2> DEFINE kinds == <<"delta", "finish", "done">>
  <2>1. kinds \in Seq(Kind) /\ Len(kinds) = 3 /\ a \in AccountId \cup {NoAccount}
    BY <1>5 DEF Kind, Inv, TypeOK, Group, MemberList, Range
  <2> HIDE DEF kinds
  <2>2. Deliver(kinds, a, 0) /\ 0 # Len(kinds)
    BY <1>5, <2>1 DEF kinds
  <2>3. ~ connected'
    BY <2>2 DEF Deliver
  <2>4. Told({"done"})' = Told({"done"})
    <3>1. \A i \in 1 .. 0 : kinds[i] # "done"
      OBVIOUS
    <3> QED BY <2>1, <2>2, <3>1, NotDelivered, Zenon DEF Inv
  <2>5. Cardinality(Told({"done"}))' = 0
    BY <1>2, <2>4
  <2>6. pc' = "respond" /\ result'.status = "cancelled"
    BY <1>5 DEF Return, Goto
  <2> QED BY <2>3, <2>5, <2>6 DEF EndOK, Running, EndWhileOpen, EndWhileClosing, EndAtSuccess,
             EndAtFailure, EndAtReturn, EndIsTold, EndsWithDone, EndsOnce, SuccessIsComplete,
             EscapesExcused, Returned
<1> QED BY <1>3, <1>4, <1>5, Zenon DEF Buffered

\* The event in the buffer, translated: the end is told by the event that says it,
\* and once.
LEMMA TranslateEnd ==
  ASSUME Inv, EndOK, pc = "streaming", native = "antigravity", buffer # "none", NEW n,
         Translate(buffer, n)
  PROVE  /\ n # WritesOf(buffer) => ~ connected' /\ Told({"done"})' = Told({"done"})
         /\ n = WritesOf(buffer) =>
              /\ connected' /\ DoneOnce' /\ (finished' => DoneLast') /\ (DoneTold' => finished')
              /\ finished' => buffer # "delta"
         /\ Told({"error"})' # {} => providerError' /\ (buffer = "error" \/ Told({"error"}) # {})
<1>1. Current \in AccountId \cup {NoAccount} /\ TypeOK /\ connected /\ DoneOnce
  BY CurrentType DEF Inv, Working, EndOK, Running, Returned
<1>2. /\ finished => DoneLast /\ buffer = "done"
      /\ DoneTold => finished
      /\ Told({"error"}) # {} => providerError
  BY DEF EndOK, EndWhileOpen
<1>3. ASSUME ~ finished, NEW k \in {"finish", "error"}, Deliver(<<k, "done">>, Current, n)
      PROVE  /\ n = 2 => connected' /\ DoneLast' /\ DoneOnce'
             /\ n # 2 => ~ connected' /\ Told({"done"})' = Told({"done"})
             /\ k = "finish" => Told({"error"})' = Told({"error"})
  <2>1. Cardinality(Told({"done"})) = 0
    BY <1>2, <1>3, SilentEnd
  <2>2. /\ n = 2 => /\ connected' /\ DoneLast'
                    /\ Cardinality(Told({"done"}))' = Cardinality(Told({"done"})) + 1
        /\ n # 2 => ~ connected' /\ Told({"done"})' = Told({"done"})
        /\ k = "finish" => Told({"error"})' = Told({"error"})
    BY <1>1, <1>3, EndDelivered
  <2>3. n = 2 => Cardinality(Told({"done"}))' = 1
    BY <2>1, <2>2
  <2>4. n = 2 => DoneOnce'
    BY <2>3 DEF DoneOnce
  <2> QED BY <2>2, <2>4
<1>4. CASE /\ buffer = "delta" /\ Deliver(<<"delta">>, Current, n)
           /\ UNCHANGED <<finished, providerError>>
  <2>1. WritesOf(buffer) = 1
    BY <1>4 DEF WritesOf
  <2>2. /\ n = 1 => connected'
        /\ n # 1 => ~ connected'
        /\ Told({"error"})' = Told({"error"}) /\ Told({"done"})' = Told({"done"})
    <3>1. "delta" \in {"delta", "done"}
      OBVIOUS
    <3> QED BY <1>1, <1>4, <3>1, OneDelivered
  <2>3. UNCHANGED <<DoneTold, DoneOnce>> /\ ~ finished'
    BY <1>2, <1>4, <2>2 DEF DoneTold, DoneOnce
  <2> QED BY <1>1, <1>2, <1>4, <2>1, <2>2, <2>3
<1>5. CASE /\ buffer = "completed" \/ (buffer = "done" /\ ~ finished)
           /\ Deliver(<<"finish", "done">>, Current, n)
           /\ finished' = (finished \/ n = 2)
           /\ UNCHANGED providerError
  <2>1. WritesOf(buffer) = 2 /\ ~ finished /\ buffer # "delta"
    BY <1>2, <1>5 DEF WritesOf
  <2>2. /\ n = 2 => connected' /\ DoneLast' /\ DoneOnce'
        /\ n # 2 => ~ connected' /\ Told({"done"})' = Told({"done"})
        /\ Told({"error"})' = Told({"error"})
    BY <1>3, <1>5, <2>1
  <2>3. n = 2 => finished'
    BY <1>5
  <2> QED BY <1>2, <1>5, <2>1, <2>2, <2>3
<1>6. CASE /\ buffer = "done" /\ finished /\ n = 0 /\ UNCHANGED <<client, translator>>
  <2>1. WritesOf(buffer) = 0
    BY <1>6 DEF WritesOf
  <2>2. UNCHANGED <<sent, connected, finished, providerError>>
    BY <1>6 DEF client, translator
  <2>3. UNCHANGED <<DoneLast, DoneTold, DoneOnce, Told({"error"})>>
    BY <2>2 DEF DoneLast, DoneTold, DoneOnce, Told
  <2> QED BY <1>1, <1>2, <1>6, <2>1, <2>2, <2>3
<1>7. CASE /\ buffer = "error"
           /\ Deliver(<<"error", "done">>, Current, n)
           /\ finished' = (finished \/ n = 2)
           /\ providerError' = TRUE
  <2>1. WritesOf(buffer) = 2 /\ ~ finished /\ buffer # "delta"
    BY <1>2, <1>7 DEF WritesOf
  <2>2. /\ n = 2 => connected' /\ DoneLast' /\ DoneOnce'
        /\ n # 2 => ~ connected' /\ Told({"done"})' = Told({"done"})
    BY <1>3, <1>7, <2>1
  <2>3. n = 2 => finished'
    BY <1>7
  <2> QED BY <1>7, <2>1, <2>2, <2>3
<1> QED BY <1>4, <1>5, <1>6, <1>7 DEF Translate


\* What is known while an event is translated is known when the response goes on.
LEMMA StreamingEnd ==
  ASSUME pc' = "streaming", connected', DoneOnce', result'.status = "none",
         native' = "antigravity",
         finished' => upstream' # "open" /\ buffer' \in {"none", "done"} /\ DoneLast',
         DoneTold' => finished', Told({"error"})' # {} => providerError'
  PROVE  EndOK'
BY DEF EndOK, Running, EndWhileOpen, EndWhileClosing, EndAtSuccess, EndAtFailure, EndAtReturn,
   EndIsTold, EndsWithDone, EndsOnce, DoneOnce, SuccessIsComplete, EscapesExcused, Returned

LEMMA ClosingEnd ==
  ASSUME pc' = "closing", connected', DoneOnce', result'.status = "none",
         native' = "antigravity", finished' => DoneLast', DoneTold' => finished',
         Told({"error"})' # {} => buffer' = "error"
  PROVE  EndOK'
BY DEF EndOK, Running, EndWhileOpen, EndWhileClosing, EndAtSuccess, EndAtFailure, EndAtReturn,
   EndIsTold, EndsWithDone, EndsOnce, DoneOnce, SuccessIsComplete, EscapesExcused, Returned

LEMMA SuccessEnd ==
  ASSUME pc' = "success", connected', DoneOnce', result'.status = "none",
         DoneLast' \/ (native' = "zai" /\ upstream' # "closed"), finished' => DoneLast',
         Told({"error"})' # {} => buffer' = "error"
  PROVE  EndOK'
BY DEF EndOK, Running, EndWhileOpen, EndWhileClosing, EndAtSuccess, EndAtFailure, EndAtReturn,
   EndIsTold, EndsWithDone, EndsOnce, DoneOnce, SuccessIsComplete, EscapesExcused, Returned

LEMMA FailureEnd ==
  ASSUME pc' \in {"failure", "catch"}, connected', DoneOnce', result'.status = "none",
         finished' => DoneLast',
         DoneTold' => finished' \/ native' = "zai" \/ accounts'[Current'] = NoRow
  PROVE  EndOK'
BY DEF EndOK, Running, EndWhileOpen, EndWhileClosing, EndAtSuccess, EndAtFailure, EndAtReturn,
   EndIsTold, EndsWithDone, EndsOnce, DoneOnce, SuccessIsComplete, EscapesExcused, Returned

\* The events of Antigravity, until the response has ended.
LEMMA EventEnd ==
  ASSUME Inv, RelayOK, EndOK, EventBegins \/ EventEnds \/ ResponseEnds
  PROVE  EndOK'
<1>1. pc = "streaming" /\ native = "antigravity" /\ native' = "antigravity"
  BY DEF EventBegins, EventEnds, ResponseEnds, attempt
<1>2. /\ connected /\ DoneOnce /\ result.status = "none"
      /\ finished => upstream # "open" /\ buffer \in {"none", "done"} /\ DoneLast
      /\ DoneTold => finished
      /\ Told({"error"}) # {} => providerError
  BY <1>1 DEF EndOK, Running, Returned, EndWhileOpen
<1>3. buffer # "none" /\ buffer # "delta" => upstream # "open"
  BY <1>1 DEF RelayOK, BufferOK
<1>4. UNCHANGED client => UNCHANGED <<connected, DoneLast, DoneTold, DoneOnce, Told({"error"})>>
  BY DEF client, DoneLast, DoneTold, DoneOnce, Told
<1>5. CASE EventBegins
  <2>1. PICK e \in Event : Carry(e) /\ buffer' = e
    BY <1>5 DEF EventBegins
  <2>2. UNCHANGED <<pc, result, finished, providerError>> /\ UNCHANGED client
    BY <1>5 DEF EventBegins, translator
  <2>3. upstream # "open" => e = "done" /\ upstream' = "closed"
    BY <2>1 DEF Carry, Says
  <2> QED BY <1>1, <1>2, <1>4, <2>1, <2>2, <2>3, StreamingEnd
<1>6. CASE EventEnds
  <2>1. PICK n \in 0 .. WritesOf(buffer) :
          /\ Translate(buffer, n)
          /\ IF n = WritesOf(buffer) THEN UNCHANGED <<pc, result>> ELSE Cancelled(emitted')
    BY <1>6 DEF EventEnds
  <2>2. buffer # "none" /\ buffer' = "none" /\ UNCHANGED upstream
    BY <1>6 DEF EventEnds
  <2>3. CASE n = WritesOf(buffer)
    <3>1. /\ connected' /\ DoneOnce' /\ (finished' => DoneLast') /\ (DoneTold' => finished')
          /\ finished' => buffer # "delta"
          /\ Told({"error"})' # {} => providerError'
      BY <1>1, <2>1, <2>2, <2>3, TranslateEnd
    <3>2. UNCHANGED <<pc, result>>
      BY <2>1, <2>3
    <3> QED BY <1>1, <1>2, <1>3, <2>2, <3>1, <3>2, StreamingEnd
  <2>4. CASE n # WritesOf(buffer)
    <3>1. ~ connected' /\ Told({"done"})' = Told({"done"})
      BY <1>1, <2>1, <2>2, <2>4, TranslateEnd
    <3> QED BY <1>1, <2>1, <2>4, <3>1, CancelledEnd
  <2> QED BY <2>3, <2>4
<1>7. CASE ResponseEnds
  <2>1. UNCHANGED <<buffer, Current, native>>
    BY <1>7 DEF ResponseEnds, call, attempt, Current
  <2>2. CASE pc' = "failure" /\ UNCHANGED <<translator, client, result>>
    BY <1>2, <1>4, <2>2, FailureEnd DEF translator
  <2>3. CASE ~ providerError /\ pc' = "closing" /\ UNCHANGED <<translator, client, result>>
    BY <1>1, <1>2, <1>4, <2>3, ClosingEnd DEF translator
  <2>4. ASSUME NEW n \in 0 .. WritesOf(buffer), Translate(buffer, n), buffer # "none",
               ~ providerError,
               IF n = WritesOf(buffer) THEN Goto("closing") /\ UNCHANGED result
               ELSE Cancelled(emitted')
        PROVE  EndOK'
    <3>1. CASE n = WritesOf(buffer)
      <4>1. /\ connected' /\ DoneOnce' /\ (finished' => DoneLast') /\ (DoneTold' => finished')
            /\ Told({"error"})' # {} => buffer = "error"
        BY <1>1, <1>2, <2>4, <3>1, TranslateEnd
      <4>2. pc' = "closing" /\ UNCHANGED result
        BY <2>4, <3>1 DEF Goto
      <4> QED BY <1>1, <1>2, <2>1, <4>1, <4>2, ClosingEnd
    <3>2. CASE n # WritesOf(buffer)
      <4>1. ~ connected' /\ Told({"done"})' = Told({"done"})
        BY <1>1, <2>4, <3>2, TranslateEnd
      <4> QED BY <1>1, <2>4, <3>2, <4>1, CancelledEnd
    <3> QED BY <3>1, <3>2
  <2> QED BY <1>7, <2>2, <2>3, <2>4 DEF ResponseEnds, Goto
<1> QED BY <1>5, <1>6, <1>7

\* Bytes of Z.ai, passed on: [DONE] closes its stream.
LEMMA PassThroughEnd ==
  ASSUME Inv, RelayOK, EndOK, PassThrough
  PROVE  EndOK'
<1>1. PICK e \in {"delta", "done"}, n \in 0 .. 1 :
        /\ Carry(e)
        /\ Deliver(<<e>>, Current, n)
        /\ IF n = 1 THEN UNCHANGED <<pc, result>> ELSE Cancelled(TRUE)
  BY DEF PassThrough
<1>2. /\ pc = "streaming" /\ native = "zai" /\ native' = "zai" /\ upstream = "open"
      /\ UNCHANGED <<finished, providerError>>
  BY <1>1 DEF PassThrough, Carry, Says, attempt
<1>3. Current \in AccountId \cup {NoAccount} /\ TypeOK
  BY <1>2, CurrentType DEF Inv, Working
<1>4. /\ DoneOnce /\ result.status = "none" /\ ~ finished /\ ~ DoneTold /\ ~ providerError
      /\ Told({"error"}) = {} /\ Cardinality(Told({"done"})) = 0
  BY <1>2, SilentEnd DEF EndOK, Running, Returned, EndWhileOpen
<1>5. /\ n = 1 => connected'
      /\ n = 1 \/ (~ connected' /\ Told({"done"})' = Told({"done"}))
      /\ Told({"error"})' = Told({"error"})
      /\ e = "delta" => Told({"done"})' = Told({"done"})
      /\ n = 1 /\ e = "done" =>
           DoneLast' /\ Cardinality(Told({"done"}))' = Cardinality(Told({"done"})) + 1
  BY <1>1, <1>3, OneDelivered
<1>6. CASE n = 1
  <2>1. pc' = "streaming" /\ UNCHANGED result /\ connected' /\ (e = "done" => upstream' = "closed")
    BY <1>1, <1>2, <1>5, <1>6 DEF Carry
  <2>2. CASE e = "delta"
    <3>1. ~ DoneTold' /\ DoneOnce'
      BY <1>4, <1>5, <2>2 DEF DoneTold, DoneOnce
    <3>2. upstream' = "open"
      BY <1>1, <2>2 DEF Carry
    <3> QED BY <1>2, <1>4, <1>5, <2>1, <3>1, <3>2
            DEF EndOK, Running, EndWhileOpen, EndWhileClosing, EndAtSuccess, EndAtFailure,
                EndAtReturn, EndIsTold, EndsWithDone, EndsOnce, DoneOnce, SuccessIsComplete,
                EscapesExcused, Returned
  <2>3. CASE e = "done"
    <3>1. Cardinality(Told({"done"}))' = 1
      BY <1>4, <1>5, <1>6, <2>3
    <3>2. DoneOnce'
      BY <3>1 DEF DoneOnce
    <3> QED BY <1>2, <1>4, <1>5, <1>6, <2>1, <2>3, <3>2
            DEF EndOK, Running, EndWhileOpen, EndWhileClosing, EndAtSuccess, EndAtFailure,
                EndAtReturn, EndIsTold, EndsWithDone, EndsOnce, DoneOnce, SuccessIsComplete,
                EscapesExcused, Returned
  <2> QED BY <2>2, <2>3
<1>7. CASE n # 1
  BY <1>1, <1>2, <1>5, <1>7, CancelledEnd
<1> QED BY <1>6, <1>7

\* A delta and the end of a codex turn.
LEMMA CodexEnd ==
  ASSUME Inv, RelayOK, EndOK, CodexDelta \/ CodexCompletes
  PROVE  EndOK'
<1>1. pc = "streaming" /\ native = "codex" /\ native' = "codex" /\ UNCHANGED <<finished, providerError>>
  BY DEF CodexDelta, CodexCompletes, attempt
<1>2. Current \in AccountId \cup {NoAccount} /\ TypeOK
  BY <1>1, CurrentType DEF Inv, Working
<1>3. /\ DoneOnce /\ result.status = "none" /\ ~ finished /\ ~ DoneTold /\ ~ providerError
      /\ Told({"error"}) = {} /\ Cardinality(Told({"done"})) = 0
  BY <1>1, SilentEnd DEF EndOK, Running, Returned, EndWhileOpen
<1>4. CASE CodexDelta
  <2>1. PICK n \in 0 .. 1 :
          /\ Deliver(<<"delta">>, Current, n)
          /\ IF n = 1 THEN UNCHANGED <<pc, result>> ELSE Cancelled(TRUE)
    BY <1>4 DEF CodexDelta
  <2>2. /\ n = 1 => connected'
        /\ n = 1 \/ ~ connected'
        /\ Told({"error"})' = Told({"error"}) /\ Told({"done"})' = Told({"done"})
    BY <1>2, <2>1, OneDelivered
  <2>3. ~ DoneTold' /\ DoneOnce'
    BY <1>3, <2>2 DEF DoneTold, DoneOnce
  <2>4. CASE n = 1
    BY <1>1, <1>3, <2>1, <2>2, <2>3, <2>4
       DEF EndOK, Running, EndWhileOpen, EndWhileClosing, EndAtSuccess, EndAtFailure,
           EndAtReturn, EndIsTold, EndsWithDone, EndsOnce, DoneOnce, SuccessIsComplete,
           EscapesExcused, Returned
  <2>5. CASE n # 1
    BY <1>1, <2>1, <2>2, <2>5, CancelledEnd
  <2> QED BY <2>4, <2>5
<1>5. CASE CodexCompletes
  <2>1. PICK n \in 0 .. 2 :
          /\ Deliver(<<"finish", "done">>, Current, n)
          /\ IF n = 2 THEN Goto("success") /\ UNCHANGED result ELSE Cancelled(emitted')
    BY <1>5 DEF CodexCompletes
  <2>2. /\ n = 2 => /\ connected' /\ DoneLast'
                    /\ Cardinality(Told({"done"}))' = Cardinality(Told({"done"})) + 1
        /\ n = 2 \/ (~ connected' /\ Told({"done"})' = Told({"done"}))
        /\ Told({"error"})' = Told({"error"})
    BY <1>2, <2>1, EndDelivered
  <2>3. CASE n = 2
    <3>1. Cardinality(Told({"done"}))' = 1
      BY <1>3, <2>2, <2>3
    <3>2. DoneOnce' /\ pc' = "success" /\ UNCHANGED result
      BY <2>1, <2>3, <3>1 DEF DoneOnce, Goto
    <3> QED BY <1>3, <2>2, <2>3, <3>2, SuccessEnd
  <2>4. CASE n # 2
    BY <1>1, <2>1, <2>2, <2>4, CancelledEnd
  <2> QED BY <2>3, <2>4
<1> QED BY <1>4, <1>5

\* The end of a stream that has not said any.
LEMMA CloseEnd ==
  ASSUME Inv, EndOK, Close
  PROVE  EndOK'
<1>1. /\ pc = "closing" /\ connected /\ DoneOnce /\ result.status = "none"
      /\ finished => DoneLast
      /\ DoneTold => finished
      /\ Told({"error"}) # {} => buffer = "error"
      /\ UNCHANGED buffer
  BY DEF Close, EndOK, Running, Returned, EndWhileClosing, call
<1>2. CASE finished /\ pc' = "success" /\ UNCHANGED <<translator, client, result>>
  <2>1. UNCHANGED <<connected, finished, DoneLast, DoneOnce, Told({"error"})>>
    BY <1>2 DEF translator, client, DoneLast, DoneOnce, Told
  <2> QED BY <1>1, <1>2, <2>1, SuccessEnd
<1>3. ASSUME ~ finished, NEW n \in 0 .. 2, Deliver(<<"finish", "done">>, Current, n),
             IF n = 2 THEN Goto("success") /\ UNCHANGED result ELSE Cancelled(emitted)
      PROVE  EndOK'
  <2>1. Current \in AccountId \cup {NoAccount} /\ TypeOK
    BY <1>1, CurrentType DEF Working, Inv
  <2>2. /\ n = 2 => /\ connected' /\ DoneLast'
                    /\ Cardinality(Told({"done"}))' = Cardinality(Told({"done"})) + 1
        /\ n = 2 \/ (~ connected' /\ Told({"done"})' = Told({"done"}))
        /\ Told({"error"})' = Told({"error"})
    BY <1>3, <2>1, EndDelivered
  <2>3. CASE n = 2
    <3>1. Cardinality(Told({"done"}))' = 1
      BY <1>1, <1>3, <2>2, <2>3, SilentEnd
    <3>2. DoneOnce' /\ pc' = "success" /\ UNCHANGED result
      BY <1>3, <2>3, <3>1 DEF DoneOnce, Goto
    <3> QED BY <1>1, <2>2, <2>3, <3>2, SuccessEnd
  <2>4. CASE n # 2
    BY <1>1, <1>3, <2>2, <2>4, CancelledEnd
  <2> QED BY <2>3, <2>4
<1> QED BY <1>2, <1>3 DEF Close, Goto

\* The outcome of an attempt that has not failed.
LEMMA OutcomeEnd ==
  ASSUME Inv, EndOK,
         PassThroughEnds \/ ConnectionLost \/ CodexBreaks \/ MarkAuthExpired \/ RecordSuccess
  PROVE  EndOK'
<1>1. /\ pc \in Working /\ connected /\ DoneOnce /\ result.status = "none"
      /\ UNCHANGED <<attempt, call, translator, client>>
  BY DEF PassThroughEnds, ConnectionLost, CodexBreaks, MarkAuthExpired, RecordSuccess, Working,
     EndOK, Running, Returned
<1>2. /\ UNCHANGED <<connected, DoneLast, DoneTold, DoneOnce, Told({"done"}), Told({"error"})>>
      /\ UNCHANGED <<native, attempted, row, Current, upstream, buffer, finished, emitted>>
  BY <1>1 DEF attempt, call, translator, client, DoneLast, DoneTold, DoneOnce, Told, Current
<1>3. CASE PassThroughEnds
  <2>1. ~ finished /\ Told({"error"}) = {} /\ (DoneLast \/ upstream # "closed")
    BY <1>3 DEF PassThroughEnds, EndOK, EndWhileOpen
  <2>2. pc' = "success" /\ native = "zai" /\ UNCHANGED result
    BY <1>3 DEF PassThroughEnds, Goto
  <2> QED BY <1>1, <1>2, <2>1, <2>2, SuccessEnd
<1>4. CASE ConnectionLost \/ CodexBreaks
  <2>1. (finished => DoneLast) /\ (DoneTold => finished \/ native = "zai")
    BY <1>4 DEF ConnectionLost, CodexBreaks, EndOK, EndWhileOpen
  <2>2. pc' \in {"failure", "catch"} /\ UNCHANGED result
    BY <1>4 DEF ConnectionLost, CodexBreaks, Goto
  <2> QED BY <1>1, <1>2, <2>1, <2>2, FailureEnd
<1>5. CASE MarkAuthExpired
  <2>1. pc' = "select" /\ UNCHANGED result
    BY <1>5 DEF MarkAuthExpired, Goto
  <2> QED BY <1>1, <1>2, <2>1 DEF EndOK, Running, EndWhileOpen, EndWhileClosing, EndAtSuccess,
             EndAtFailure, EndAtReturn, EndIsTold, EndsWithDone, EndsOnce, DoneOnce,
             SuccessIsComplete, EscapesExcused, Returned
<1>6. CASE RecordSuccess
  <2>1. /\ DoneLast \/ (native = "zai" /\ upstream # "closed")
        /\ finished => DoneLast
        /\ Told({"error"}) # {} => buffer = "error"
    BY <1>6 DEF RecordSuccess, EndOK, EndAtSuccess
  <2>2. CASE Return("ok", emitted, Current)
    <3>1. pc' = "respond" /\ result'.status = "ok"
      BY <2>2 DEF Return, Goto
    <3>2. DoneLast => DoneTold
      BY LastIsTold DEF Inv
    <3>3. (EndedSilently \/ DoneLast)' /\ (EndedSilently \/ Told({"done"}) # {})'
      BY <1>2, <2>1, <3>1, <3>2 DEF EndedSilently, DoneTold
    <3>4. (EndIsTold /\ SuccessIsComplete /\ EscapesExcused)'
      BY <1>1, <1>2, <2>1, <3>1, <3>3 DEF EndIsTold, EndsWithDone, EndsOnce, DoneOnce,
         SuccessIsComplete, EscapesExcused
    <3> QED BY <3>1, <3>3, <3>4 DEF EndOK, Running, EndWhileOpen, EndWhileClosing, EndAtSuccess,
               EndAtFailure, EndAtReturn, Returned
  <2>3. CASE accounts[Current] = NoRow /\ UNCHANGED <<accounts, result>> /\ pc' = "catch"
    BY <1>1, <1>2, <2>1, <2>3, FailureEnd
  <2>4. CASE accounts[Current] = NoRow /\ UNCHANGED <<accounts, result>> /\ pc' = "escaped"
    <3>1. attempted # <<>>
      BY <1>1 DEF Inv, AttemptOK
    <3>2. accounts'[Current'] = NoRow
      BY <1>2, <2>4
    <3> QED BY <1>1, <1>2, <2>4, <3>1, <3>2
            DEF EndOK, Running, EndWhileOpen, EndWhileClosing, EndAtSuccess, EndAtFailure,
                EndAtReturn, EndIsTold, EndsWithDone, EndsOnce, DoneOnce, SuccessIsComplete,
                EscapesExcused, Returned
  <2> QED BY <1>6, <2>2, <2>3, <2>4 DEF RecordSuccess, Escape, Goto
<1> QED BY <1>3, <1>4, <1>5, <1>6

\* A failed attempt: the end is written unless the client has been told one.
LEMMA FailedEnd ==
  ASSUME Inv, EndOK, RecordFailure
  PROVE  EndOK'
<1>1. /\ pc \in {"failure", "catch"} /\ connected /\ DoneOnce /\ result.status = "none"
      /\ finished => DoneLast
      /\ DoneTold => finished \/ native = "zai" \/ accounts[Current] = NoRow
      /\ Current \in AccountId /\ attempted # <<>> /\ TypeOK
  BY CurrentType DEF RecordFailure, EndOK, Running, Returned, EndAtFailure, Working, Inv, AttemptOK
<1>2. UNCHANGED <<native, attempted, row, Current, upstream, buffer, finished, emitted>>
  BY DEF RecordFailure, attempt, call, translator, Current
<1>3. UNCHANGED client => UNCHANGED <<connected, DoneLast, DoneTold, DoneOnce>>
  BY DEF client, DoneLast, DoneTold, DoneOnce, Told
<1>4. CASE pc' = "select" /\ UNCHANGED <<client, result>>
  BY <1>1, <1>3, <1>4 DEF EndOK, Running, EndWhileOpen, EndWhileClosing, EndAtSuccess,
     EndAtFailure, EndAtReturn, EndIsTold, EndsWithDone, EndsOnce, DoneOnce,
     SuccessIsComplete, EscapesExcused, Returned
<1>5. ASSUME accounts[Current] # NoRow, Return("failed", TRUE, Current),
             IF finished THEN UNCHANGED client
             ELSE \E n \in 0 .. 2 : Deliver(<<"error", "done">>, Current, n)
      PROVE  EndOK'
  <2>1. pc' = "respond" /\ result'.status = "failed" /\ result'.emitted = TRUE
    BY <1>5 DEF Return, Goto
  <2>2. (connected => DoneLast)' /\ EndsOnce'
    <3>1. CASE finished
      BY <1>1, <1>3, <1>5, <3>1 DEF EndsOnce, DoneOnce
    <3>2. CASE ~ finished
      <4>1. PICK n \in 0 .. 2 : Deliver(<<"error", "done">>, Current, n)
        BY <1>5, <3>2
      <4>2. /\ n = 2 => /\ connected' /\ DoneLast'
                        /\ Cardinality(Told({"done"}))' = Cardinality(Told({"done"})) + 1
            /\ n = 2 \/ (~ connected' /\ Told({"done"})' = Told({"done"}))
        BY <1>1, <4>1, EndDelivered
      <4>3. (connected => DoneLast)'
        BY <4>2
      <4>4. CASE native = "zai"
        BY <1>2, <2>1, <4>3, <4>4 DEF EndsOnce
      <4>5. CASE native # "zai"
        <5>1. Cardinality(Told({"done"})) = 0
          BY <1>1, <1>5, <3>2, <4>5, SilentEnd
        <5>2. Cardinality(Told({"done"}))' \in {0, 1}
          BY <4>2, <5>1
        <5>3. ~ 0 > 1 /\ ~ 1 > 1
          OBVIOUS
        <5> QED BY <4>3, <5>2, <5>3 DEF EndsOnce
      <4> QED BY <4>3, <4>4, <4>5
    <3> QED BY <3>1, <3>2
  <2> QED BY <2>1, <2>2 DEF EndOK, Running, EndWhileOpen, EndWhileClosing, EndAtSuccess,
             EndAtFailure, EndAtReturn, EndIsTold, EndsWithDone, SuccessIsComplete,
             EscapesExcused, Returned
<1>6. CASE accounts[Current] = NoRow /\ UNCHANGED <<accounts, client, result>> /\ pc' = "catch"
  BY <1>1, <1>2, <1>3, <1>6, FailureEnd
<1>7. CASE accounts[Current] = NoRow /\ UNCHANGED <<accounts, client, result>> /\ pc' = "escaped"
  <2>1. accounts'[Current'] = NoRow
    BY <1>2, <1>7
  <2> QED BY <1>1, <1>2, <1>3, <1>7, <2>1
          DEF EndOK, Running, EndWhileOpen, EndWhileClosing, EndAtSuccess, EndAtFailure,
              EndAtReturn, EndIsTold, EndsWithDone, EndsOnce, DoneOnce, SuccessIsComplete,
              EscapesExcused, Returned
<1> QED BY <1>4, <1>5, <1>6, <1>7, Zenon DEF RecordFailure, Escape, Goto

\* The content provider has the last word only where nothing has been said.
LEMMA RespondEnd ==
  ASSUME Inv, EndOK, Respond
  PROVE  EndOK'
<1>1. /\ pc = "respond" /\ pc' = "done" /\ UNCHANGED <<result, attempt, call, buffer, EndedSilently>>
  BY DEF Respond, Goto, call, attempt, EndedSilently
<1>2. /\ connected => IF result.status = "ok" \/ result.emitted
                      THEN EndedSilently \/ DoneLast
                      ELSE sent = <<>>
      /\ EndsOnce /\ SuccessIsComplete
  BY <1>1 DEF EndOK, EndAtReturn, EndIsTold
<1>3. SuccessIsComplete' /\ EndIsTold'
  <2>1. CASE result.status = "ok" \/ result.emitted
    <3>1. UNCHANGED client
      BY <2>1 DEF Respond
    <3>2. UNCHANGED <<connected, DoneLast, Told({"done"}), Told({"error"}), native>>
      BY <1>1, <3>1 DEF client, attempt, DoneLast, Told
    <3> QED BY <1>1, <1>2, <2>1, <3>2 DEF SuccessIsComplete, EndIsTold, EndsWithDone, EndsOnce,
               DoneLast
  <2>2. CASE result.status # "ok" /\ ~ result.emitted
    <3>1. PICK n \in 0 .. 2 : Deliver(<<"error", "done">>, NoAccount, n)
      BY <2>2 DEF Respond
    <3>2. /\ n = 2 => /\ connected /\ connected' /\ DoneLast'
                      /\ Cardinality(Told({"done"}))' = Cardinality(Told({"done"})) + 1
          /\ n = 2 \/ (~ connected' /\ Told({"done"})' = Told({"done"}))
      BY <3>1, EndDelivered DEF Inv
    <3>3. SuccessIsComplete' /\ EndsWithDone'
      BY <1>1, <2>2, <3>2 DEF SuccessIsComplete, EndsWithDone, DoneLast
    <3>4. CASE n = 2
      <4>1. Cardinality(Told({"done"})) = 0
        BY <1>2, <2>2, <3>2, <3>4, SilentEnd
      <4>2. Cardinality(Told({"done"}))' = 1 /\ ~ 1 > 1
        BY <3>2, <3>4, <4>1
      <4> QED BY <3>3, <4>2 DEF EndsOnce, EndIsTold
    <3>5. CASE n # 2
      BY <1>1, <1>2, <3>2, <3>3, <3>5 DEF EndsOnce, EndIsTold, attempt
    <3> QED BY <3>4, <3>5
  <2> QED BY <2>1, <2>2
<1> QED BY <1>1, <1>3 DEF EndOK, Running, EndWhileOpen, EndWhileClosing, EndAtSuccess, EndAtFailure,
           EndAtReturn, EscapesExcused, Returned

LEMMA NextEnd == Inv /\ RelayOK /\ EndOK /\ [Next]_vars => EndOK'
<1> SUFFICES ASSUME Inv, RelayOK, EndOK, [Next]_vars PROVE EndOK'
  OBVIOUS
<1>1. CASE Local
  BY <1>1, BeforeEnd, CloseEnd, OutcomeEnd, FailedEnd, RespondEnd DEF Local
<1>2. CASE Buffered
  BY <1>2, BufferedEnd
<1>3. CASE Upstream
  <2>1. CASE \/ ProviderAccepts \/ ProviderUnauthorized \/ ProviderRejects \/ ProviderFails
             \/ ProviderThrows
    BY <2>1, BeforeEnd
  <2>2. CASE PassThrough \/ CodexDelta \/ CodexCompletes \/ EventBegins \/ EventEnds \/ ResponseEnds
    BY <2>2, PassThroughEnd, CodexEnd, EventEnd
  <2>3. CASE PassThroughEnds \/ ConnectionLost \/ CodexBreaks
    BY <2>3, OutcomeEnd
  <2> QED BY <1>3, <2>1, <2>2, <2>3 DEF Upstream
<1>4. CASE SaveGroup \/ (\E a \in AccountId : RemoveAccount(a)) \/ Finished \/ UNCHANGED vars
  <2>1. UNCHANGED <<pc, attempt, call, translator, client, result>>
    BY <1>4 DEF SaveGroup, RemoveAccount, Edit, Finished, vars
  <2>2. \A a \in AccountId : accounts[a] = NoRow => accounts'[a] = NoRow
    BY <1>4 DEF SaveGroup, RemoveAccount, Finished, vars, shared, Inv, TypeOK
  <2> QED BY <2>1, <2>2, FrameEnd
<1> QED BY <1>1, <1>2, <1>3, <1>4 DEF Next

\* What a client knows of the end of its stream is what became of it, at every
\* stage of every attempt.
THEOREM EndInvariance == Spec => []EndOK
<1>1. Inv /\ RelayOK /\ [Next]_vars => RelayOK'
  BY NextRelay
<1>2. Inv /\ RelayOK /\ EndOK /\ [Next]_vars => EndOK'
  BY NextEnd
<1> QED BY <1>1, <1>2, InitRelay, InitEnd, StreamInvariance, PTL DEF Spec

\* A client that stays is told the end of its stream, with [DONE] last and once,
\* whatever fails, is retried or is edited meanwhile: streamChatCompletions, the
\* translator and the content provider never both write it and never both leave
\* it to the other.
THEOREM StreamEndTold == Spec => []EndIsTold
<1>1. EndOK => EndIsTold
  BY DEF EndOK
<1> QED BY <1>1, EndInvariance, PTL

\* What is recorded as a success reached its client with its end and without an
\* error, but for an error event that was still in the buffer.
THEOREM StreamSuccessComplete == Spec => []SuccessIsComplete
<1>1. EndOK => SuccessIsComplete
  BY DEF EndOK
<1> QED BY <1>1, EndInvariance, PTL

\* An exception leaves a native stream only when the row of its account is gone,
\* or before the call when the credential store throws.
THEOREM StreamEscapesExcused == Spec => []EscapesExcused
<1>1. EndOK => EscapesExcused
  BY DEF EndOK
<1> QED BY <1>1, EndInvariance, PTL

=============================================================================
