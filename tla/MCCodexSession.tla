--------------------------- MODULE MCCodexSession ---------------------------
(***************************************************************************)
(* Constants for the instance of CodexSession that TLC checks.             *)
(***************************************************************************)
EXTENDS CodexSession, TLC

CONSTANTS s1, s2

\* Two sessions at a time, without messages that concern nobody.
Two(first, second) == [job |-> (s1 :> first @@ s2 :> second), tools |-> 0, noise |-> 0]

\* A session of any kind by itself, disturbed by messages that concern nobody
\* and by a command that inherits its pipe ends, or one that reads limits beside
\* one of any kind, whose children inherit each other's pipe ends.
SomeWorkloads ==
  LET any == {"read", "prompt", "stream"}
  IN  {[job |-> (s1 :> j @@ s2 :> "none"), tools |-> 1, noise |-> 2] : j \in any}
        \cup {Two("read", j) : j \in any}

=============================================================================
