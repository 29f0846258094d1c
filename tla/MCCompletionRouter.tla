------------------------- MODULE MCCompletionRouter -------------------------
(***************************************************************************)
(* Constants for the instances of CompletionRouter that TLC checks.        *)
(***************************************************************************)
EXTENDS CompletionRouter, TLC

Account(provider, mode, status, priority) ==
  [provider |-> provider, providerMode |-> mode, credentialRef |-> TRUE,
   status |-> status, priority |-> priority, enabled |-> TRUE,
   consecutiveFailures |-> 0, cooldownUntil |-> NoCooldown]

Zai(status)    == Account("zai", "general-api", status, 100)
Gemini(status) == Account("antigravity", "api-project", status, 100)
Codex          == Account("codex", "subscription-runtime", "READY", 100)
Coding         == Account("zai", "coding-plan", "READY", 100)

GroupOf(strategy, manual, members) ==
  [strategy |-> strategy, enabled |-> TRUE, manual |-> manual,
   lastIndex |-> -1, members |-> members]

\* Requests differ only by their names.
Symmetry == Permutations(Request)

MCUsed == [a \in AccountId |-> IF a = 1 THEN 40 ELSE UnknownUse]

\* Codex and coding-plan rows in a group that an older database holds as
\* automatic, or that the operator runs by hand.
MixedProvider == (1 :> "codex" @@ 2 :> "zai" @@ 3 :> "antigravity")
MixedAccounts == {(1 :> Codex @@ 2 :> Coding @@ 3 :> Gemini("READY"))}
MixedGroups   == {GroupOf("MANUAL", 1, <<1, 2, 3>>),
                  GroupOf("PRIORITY", NoAccount, <<1, 2, 3>>),
                  [GroupOf("MANUAL", 1, <<1>>) EXCEPT !.enabled = FALSE]}
MixedChoices  == {GroupOf("MANUAL", 2, <<1, 2>>), GroupOf("LEAST_USED", NoAccount, <<3, 1>>),
                  GroupOf("LEAST_USED", NoAccount, <<3>>), GroupOf("MANUAL", 2, <<1>>)}

\* One Z.ai account and one Gemini project, for runs with an operator.
PairProvider == (1 :> "zai" @@ 2 :> "antigravity")
PairAccounts == {(1 :> Zai("WARNING") @@ 2 :> Gemini("READY"))}
PairGroups   == {GroupOf("HEALTH_FIRST", NoAccount, <<1, 2>>)}

=============================================================================
