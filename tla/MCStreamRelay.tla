--------------------------- MODULE MCStreamRelay ---------------------------
(***************************************************************************)
(* Constants for the instances of StreamRelay that TLC checks.             *)
(***************************************************************************)
EXTENDS StreamRelay, TLC

Account(provider, mode) ==
  [provider |-> provider, providerMode |-> mode, credentialRef |-> provider # "codex",
   status |-> "READY", priority |-> 100, enabled |-> TRUE,
   consecutiveFailures |-> 0, cooldownUntil |-> NoCooldown]

GroupOf(strategy, manual, members) ==
  [strategy |-> strategy, enabled |-> TRUE, manual |-> manual,
   lastIndex |-> -1, members |-> members]

\* Two Z.ai accounts, two Gemini projects and two codex subscriptions.
MCRow == [a \in AccountId |->
            CASE a \in {1, 2} -> Account("zai", "general-api")
              [] a \in {3, 4} -> Account("antigravity", "api-project")
              [] OTHER       -> Account("codex", "subscription-runtime")]

MCProvider == [a \in AccountId |-> MCRow[a].provider]

\* All the rows, or those with a Z.ai row that has no credential.
MCAccounts == {MCRow, [MCRow EXCEPT ![1].credentialRef = FALSE]}

\* A group for each provider, a mixed one, and one that is disabled.
MCGroups == {GroupOf("ROUND_ROBIN", NoAccount, <<1, 2>>),
             GroupOf("ROUND_ROBIN", NoAccount, <<3, 4>>),
             GroupOf("MANUAL", 5, <<5, 6>>),
             GroupOf("PRIORITY", NoAccount, <<1, 3>>),
             [GroupOf("PRIORITY", NoAccount, <<1>>) EXCEPT !.enabled = FALSE]}

\* What the operator makes of the group: one provider in another order, two of
\* them, the other codex account.
MCChoices == {GroupOf("ROUND_ROBIN", NoAccount, <<2, 1>>),
              GroupOf("ROUND_ROBIN", NoAccount, <<1, 3>>),
              GroupOf("MANUAL", 6, <<5, 6>>)}

=============================================================================
