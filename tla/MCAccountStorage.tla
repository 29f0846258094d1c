---------------------------- MODULE MCAccountStorage ----------------------------
(***************************************************************************)
(* Constants for the instances of AccountStorage that TLC checks.          *)
(***************************************************************************)
EXTENDS AccountStorage, TLC

CONSTANTS codex1, zai1, tui, admin

On(op, id) == [op |-> op, id |-> id]
A(op)      == [op |-> op]
Save(strategy, manual, members) ==
  [op |-> "save", strategy |-> strategy, manual |-> manual, members |-> members]

\* A Codex account with a profile and a Z.ai account with a key, in one group.
Calm ==
  [rows |-> [a \in AccountId |-> CASE a = codex1 -> "unkeyed" [] a = zai1 -> "keyed"
                                     [] OTHER -> NoRow],
   group |-> [strategy |-> "manual", manual |-> codex1, members |-> {codex1, zai1}],
   profiles |-> {codex1}, bus |-> TRUE,
   jobs |-> (tui :> {} @@ admin :> {}), most |-> (tui :> 2 @@ admin :> 1),
   logged |-> 1, expired |-> {0}, faults |-> 1, ends |-> 1, outages |-> 0]

\* Quota refreshes and completions of one thread, removals of the other.
Quotas ==
  [Calm EXCEPT !.jobs = (tui   :> {On("remove", codex1), On("quota", codex1), A("record")}
                      @@ admin :> {On("quota", codex1), On("remove", zai1), A("record")})]

\* Two threads save the group while accounts are removed and changed.
Saves ==
  [Calm EXCEPT !.jobs = (tui   :> {Save("manual", zai1, <<codex1, zai1>>), On("remove", zai1),
                                     On("quota", codex1)}
                      @@ admin :> {Save("automatic", NoOne, <<zai1>>),
                                   Save("automatic", codex1, <<codex1>>),
                                   On("edit", zai1), On("remove", codex1)})]

\* Keys are configured, replaced and erased; the Secret Service comes and goes.
Keys ==
  [Calm EXCEPT !.jobs = (tui   :> {On("configure", zai1), On("remove", zai1), A("rotate")}
                      @@ admin :> {On("configure", zai1), On("remove", zai1)}),
               !.outages = 2]

\* The same without a Secret Service, beginning with an account without a key.
KeyFiles == [Keys EXCEPT !.rows[zai1] = "unkeyed", !.bus = FALSE, !.outages = 0]

\* Profiles are created, removed and cleaned up, and an id is given again.
Profiles ==
  [Calm EXCEPT !.jobs = (tui   :> {A("clean"), On("login", codex1), On("add", codex1)}
                      @@ admin :> {On("remove", codex1), On("add", codex1), On("login", codex1)}),
               !.most = (tui :> 2 @@ admin :> 3)]

\* The log is written, pruned and cleared next to transactions.
Logs ==
  [Calm EXCEPT !.jobs = (tui   :> {A("prune"), A("clear"), On("quota", codex1), A("record")}
                      @@ admin :> {A("record")}),
               !.most = (tui :> 2 @@ admin :> 4), !.expired = {0, 1}]

\* An account is added, configured and put into the group next to a transaction.
Additions ==
  [Calm EXCEPT !.rows[zai1] = "none", !.outages = 1,
               !.group = [strategy |-> "manual", manual |-> codex1, members |-> {codex1}],
               !.jobs = (tui   :> {On("add", zai1), On("configure", zai1), On("remove", zai1),
                                   Save("manual", zai1, <<zai1>>)}
                      @@ admin :> {On("quota", codex1)}),
               !.most = (tui :> 3 @@ admin :> 1)]

\* An account was imported whose id is that of the local API's key.
Imported ==
  [Calm EXCEPT !.rows[LocalApi] = "unkeyed", !.outages = 1,
               !.jobs = (tui   :> {On("configure", LocalApi), On("remove", LocalApi), A("rotate")}
                      @@ admin :> {On("configure", LocalApi), On("remove", LocalApi)})]

AllSetups == {Quotas, Saves, Keys, KeyFiles, Profiles, Logs, Additions, Imported}

\* A quota refresh and a removal, where nothing fails.
Removal ==
  [Calm EXCEPT !.jobs = (tui :> {On("quota", codex1)} @@ admin :> {On("remove", codex1)}),
               !.faults = 0, !.ends = 0]

RemovalSetups == {Removal}

\* A cleanup of the runtime beside an account that is removed, added again under
\* the same id and logged in, where nothing fails.
Cleanup ==
  [Calm EXCEPT !.jobs = (tui   :> {A("clean")}
                      @@ admin :> {On("remove", codex1), On("add", codex1), On("login", codex1)}),
               !.most = (tui :> 1 @@ admin :> 3), !.faults = 0, !.ends = 0]

CleanupSetups == {Cleanup}

=============================================================================
