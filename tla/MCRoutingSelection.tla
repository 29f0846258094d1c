------------------------- MODULE MCRoutingSelection -------------------------
(***************************************************************************)
(* Constants for the instances of RoutingSelection that TLC checks.        *)
(***************************************************************************)
EXTENDS RoutingSelection, TLC

Account(provider, mode, status, priority) ==
  [provider |-> provider, providerMode |-> mode, credentialRef |-> TRUE,
   status |-> status, priority |-> priority, enabled |-> TRUE,
   consecutiveFailures |-> 0, cooldownUntil |-> NoCooldown]

Zai    == Account("zai", "general-api", "READY", 100)
Gemini == Account("antigravity", "api-project", "WARNING", 100)

\* One caller rotates over four accounts that fail, cool down and are switched.
Rotation ==
  [callers |-> {"t1"}, members |-> <<1, 2, 3, 4>>, rows |-> [a \in 1 .. 4 |-> Zai],
   strategies |-> {"ROUND_ROBIN"}, snapshots |-> {}, screens |-> {"groups"},
   maxTime |-> 2, maxEdits |-> 1]

\* Two callers race for the cursor of a group of three.
Race ==
  [callers |-> {"t1", "t2"}, members |-> <<1, 2, 3>>, rows |-> [a \in 1 .. 3 |-> Zai],
   strategies |-> {"ROUND_ROBIN"}, snapshots |-> {}, screens |-> {"groups"},
   maxTime |-> 0, maxEdits |-> 1]

\* Two equal accounts and one that is not, not listed in the order of their ids,
\* under every strategy.
Forecast ==
  [callers |-> {"t1"}, members |-> <<3, 1, 2>>, rows |-> (1 :> Zai @@ 2 :> Zai @@ 3 :> Gemini),
   strategies |-> Strategy, snapshots |-> {<<90, 10>>, <<40>>},
   screens |-> {"health", "groups"}, maxTime |-> 0, maxEdits |-> 2]

AllSetups == {Rotation, Race, Forecast}

=============================================================================
