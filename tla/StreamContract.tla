--------------------------- MODULE StreamContract ---------------------------
(***************************************************************************)
(* What a streamed completion promises its client, however many accounts   *)
(* the router tries behind it: the text comes from a single account, and   *)
(* after the end of the stream has been told there is no more text.        *)
(***************************************************************************)
EXTENDS Naturals

CONSTANT Speaker   \* the accounts that can produce text

VARIABLES
  speakers,   \* the accounts whose text the client has received
  words,      \* how many pieces of text it has received
  over        \* it has been told that the stream ends

cvars == <<speakers, words, over>>

Init == speakers = {} /\ words = 0 /\ over = FALSE

\* One more piece of text, from the account that spoke before, if any.
Speak(a) ==
  /\ ~ over
  /\ speakers \subseteq {a}
  /\ speakers' = {a}
  /\ words' = words + 1
  /\ UNCHANGED over

\* The end, with the last pieces of text in front of it, or with none.
End ==
  /\ ~ over
  /\ over' = TRUE
  /\ \/ UNCHANGED <<speakers, words>>
     \/ \E a \in Speaker :
          /\ speakers \subseteq {a}
          /\ speakers' = {a}
          /\ words' = words + 1

Next == (\E a \in Speaker : Speak(a)) \/ End

Spec == Init /\ [][Next]_cvars

=============================================================================
