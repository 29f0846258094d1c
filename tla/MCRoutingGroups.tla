--------------------------- MODULE MCRoutingGroups ---------------------------
(***************************************************************************)
(* Constants for the instances of RoutingGroups that TLC checks.           *)
(***************************************************************************)
EXTENDS RoutingGroups, TLC

CONSTANTS z1, g1, tui, admin

\* The first Z.ai account and the first of Antigravity.
SomeProvider == (z1 :> "zai" @@ g1 :> "antigravity")
SomeNumber   == (z1 :> 1 @@ g1 :> 1)

\* A general-purpose and a consumer account, or a coding plan alone.
SomeAccounts == {(z1 :> "general-api" @@ g1 :> "consumer-cli"),
                 (z1 :> "coding-plan" @@ g1 :> NoAccount)}

\* Enough for a reference to be lost and repaired while the other thread runs
\* an operation.
OpsOf == (tui :> 2 @@ admin :> 1)

=============================================================================
