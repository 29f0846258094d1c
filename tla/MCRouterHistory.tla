-------------------------- MODULE MCRouterHistory --------------------------
(***************************************************************************)
(* The instance of RouterHistory that TLC checks: an account may join the  *)
(* group, or leave it, while a request runs.                               *)
(***************************************************************************)
EXTENDS RouterHistory, MCCompletionRouter

JoiningGroups  == PairGroups \cup {GroupOf("HEALTH_FIRST", NoAccount, <<2>>)}
JoiningChoices == {GroupOf("ROUND_ROBIN", NoAccount, <<1, 2>>)}

=============================================================================
