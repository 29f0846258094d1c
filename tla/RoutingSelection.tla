-------------------------- MODULE RoutingSelection --------------------------
(***************************************************************************)
(* RoutingManager as its callers use it over a long run: the threads that  *)
(* serve requests select an account, fail over to the next one and record  *)
(* the outcome, two screens of the terminal UI preview what would be       *)
(* selected, and the operator and quota refreshes change the rows between. *)
(*                                                                         *)
(* select reads the group and its members in one step and stores the       *)
(* round-robin cursor in another, so that callers race for the cursor; the *)
(* races on the rows themselves are the subject of CompletionRouter.       *)
(***************************************************************************)
EXTENDS RoutingPolicy

CONSTANTS
  Caller,   \* the threads that select for requests
  Setups    \* the installations that are checked, see IsSetup

\* An installation: the threads that select, the members of the group in order,
\* their rows, the strategies the group may have, the window usages a quota
\* refresh may record, the screens the operator looks at, and the bounds on the
\* clock and on the edits and quota refreshes.
IsSetup(s) ==
  /\ s.callers \subseteq Caller
  /\ s.members \in Seq(AccountId) /\ IsInjective(s.members)
  /\ s.rows \in [Range(s.members) -> Row]
  /\ s.strategies \subseteq Strategy
  /\ s.snapshots \subseteq Seq(Nat)
  /\ s.screens \subseteq {"health", "groups"}
  /\ s.maxTime \in Nat
  /\ s.maxEdits \in Nat

ASSUME RoutingSelectionAssumption ==
  /\ IsFiniteSet(Caller) /\ "none" \notin Caller
  /\ \A s \in Setups : IsSetup(s)

VARIABLES
  setup,      \* the installation, which does not change
  accounts,   \* the rows of the members
  group,      \* the routing group
  quota,      \* quota[a], what listQuotaHistory returns: newest snapshot first
  now,        \* std::time(nullptr)
  pc,         \* "idle", "cursor": to be stored, or "chosen": to be used
  tried,      \* tried[t], the accounts the request of t has been given
  decision,   \* decision[t], the last [id, index] select returned to t
  edits,      \* how many edits have been made
  waited,     \* waited[a]: selections that passed a over while it was open,
              \* counted up to the number of members
  forecast    \* what the last preview says of the selections to come

vars == <<setup, accounts, group, quota, now, pc, tried, decision, edits, waited, forecast>>

\* Every member has a row: accounts are removed in CompletionRouter.
Member == Range(setup.members)

NoDecision == [id |-> NoAccount, index |-> -1]

\* ids: the accounts the next selections will get; by: the screen that says
\* so; follower: the caller that has been given the first of them.
NoForecast == [ids |-> <<>>, by |-> "none", follower |-> "none"]

TypeOK ==
  /\ setup \in Setups
  /\ accounts \in [Member -> Row]
  /\ group \in Group
  /\ \A a \in Member : quota[a] \in Seq([snapshot : Nat, used : Nat])
  /\ now \in Nat
  /\ pc \in [Caller -> {"idle", "cursor", "chosen"}]
  /\ tried \in [Caller -> SUBSET Member]
  /\ decision \in [Caller -> [id : AccountId \cup {NoAccount}, index : Int]]
  /\ edits \in Nat
  /\ waited \in [Member -> Nat]
  /\ forecast \in [ids : Seq(AccountId \cup {NoAccount}),
                   by : {"none", "health", "groups"},
                   follower : Caller \cup {"none"}]

Init ==
  /\ setup \in Setups
  /\ accounts = setup.rows
  /\ \E s \in setup.strategies :
       group = [strategy |-> s, enabled |-> TRUE, manual |-> NoAccount,
                lastIndex |-> -1, members |-> setup.members]
  /\ quota = [a \in Member |-> <<>>]
  /\ now = 0
  /\ pc = [t \in Caller |-> "idle"]
  /\ tried = [t \in Caller |-> {}]
  /\ decision = [t \in Caller |-> NoDecision]
  /\ edits = 0
  /\ waited = [a \in Member |-> 0]
  /\ forecast = NoForecast

candidatesFor(g) ==
  {[id |-> a, row |-> accounts[a], used |-> latestUsedPercent(quota[a])] :
     a \in Range(g.members)}

Decisions(excludedIds) == selectInternal(group, candidatesFor(group), now, excludedIds)

-----------------------------------------------------------------------------
(* What the properties remember.                                           *)

\* The accounts the group may select automatically at this moment.
Open(g, rows, t) ==
  {a \in Range(g.members) : automaticRoutingCapable(rows[a]) /\ eligible(rows[a], t)}

\* No account waits longer than it is open.
StillWaiting(rows, t) ==
  waited' = [a \in Member |-> IF a \in Open(group, rows, t) THEN waited[a] ELSE 0]

\* A selection passes over the open accounts its request could still be given.
PassedOver(t, id) ==
  waited' = [a \in Member |->
    IF a = id \/ a \notin Open(group, accounts, now) THEN 0
    ELSE IF a \in tried[t] THEN waited[a] ELSE AtMost(waited[a] + 1, Len(setup.members))]

\* A caller follows the forecast with the first selection of a request, and
\* then with the selection after it.
Follows(t) ==
  \/ Len(forecast.ids) = 2 /\ tried[t] = {}
  \/ Len(forecast.ids) = 1 /\ tried[t] # {} /\ forecast.follower = t
  \/ Len(forecast.ids) = 1 /\ tried[t] = {} /\ forecast.follower = "none"

ForecastUsed(t) ==
  forecast' = IF Follows(t)
              THEN [forecast EXCEPT !.ids = Tail(@), !.follower = t]
              ELSE NoForecast

-----------------------------------------------------------------------------
(* RoutingManager.                                                         *)

Select(t) ==
  /\ pc[t] = "idle"
  /\ \/ /\ Decisions(tried[t]) = {}
        /\ decision' = [decision EXCEPT ![t] = NoDecision]
        /\ tried' = [tried EXCEPT ![t] = {}]
        /\ UNCHANGED <<pc, waited>>
     \/ \E d \in Decisions(tried[t]) :
          /\ decision' = [decision EXCEPT ![t] = d]
          /\ tried' = [tried EXCEPT ![t] = @ \cup {d.id}]
          /\ pc' = [pc EXCEPT ![t] =
               IF group.strategy = "ROUND_ROBIN" THEN "cursor" ELSE "chosen"]
          /\ PassedOver(t, d.id)
  /\ ForecastUsed(t)
  /\ UNCHANGED <<setup, accounts, group, quota, now, edits>>

\* Slip: the cursor is stored in the copy of the group only.
StoreCursor_Forgets(t) ==
  /\ pc[t] = "cursor"
  /\ pc' = [pc EXCEPT ![t] = "chosen"]
  /\ UNCHANGED <<setup, accounts, group, quota, now, tried, decision, edits, waited, forecast>>

\* updateRoutingGroupCursor.
StoreCursor(t) ==
  /\ pc[t] = "cursor"
  /\ group' = [group EXCEPT !.lastIndex = decision[t].index]
  /\ pc' = [pc EXCEPT ![t] = "chosen"]
  /\ UNCHANGED <<setup, accounts, quota, now, tried, decision, edits, waited, forecast>>

\* The request fails on the account it was given and goes on to the next one.
RecordFailure(t) ==
  /\ pc[t] = "chosen"
  /\ accounts' = [accounts EXCEPT ![decision[t].id] = FailureRecorded(@, now)]
  /\ pc' = [pc EXCEPT ![t] = "idle"]
  /\ StillWaiting(accounts', now)
  /\ UNCHANGED <<setup, group, quota, now, tried, decision, edits, forecast>>

RecordSuccess(t) ==
  /\ pc[t] = "chosen"
  /\ accounts' = [accounts EXCEPT ![decision[t].id] = SuccessRecorded(@)]
  /\ pc' = [pc EXCEPT ![t] = "idle"]
  /\ tried' = [tried EXCEPT ![t] = {}]
  /\ forecast' = NoForecast
  /\ UNCHANGED <<setup, group, quota, now, decision, edits, waited>>

\* The account an answer of select or preview names, if any.
Named(ds) == IF ds = {} THEN NoAccount ELSE (CHOOSE d \in ds : TRUE).id

\* A preview speaks of the requests to come only while none is in progress.
Quiet == \A t \in Caller : pc[t] = "idle" /\ tried[t] = {}

\* Slip: the preview advances the cursor.
RoutingHealth_Advances ==
  LET primary == Named(Decisions({}))
      backup  == Named(Decisions({primary}))
  IN  /\ Quiet /\ "health" \in setup.screens
      /\ forecast' =
           [ids |-> IF primary # NoAccount /\ group.strategy # "MANUAL"
                    THEN <<primary, backup>> ELSE <<primary>>,
            by |-> "health", follower |-> "none"]
      /\ \E d \in Decisions({}) : group' = [group EXCEPT !.lastIndex = d.index]
      /\ UNCHANGED <<setup, accounts, quota, now, pc, tried, decision, edits, waited>>

\* The Routing Health screen: preview, and the account after the one it names.
RoutingHealth ==
  LET primary == Named(Decisions({}))
      backup  == Named(Decisions({primary}))
  IN  /\ Quiet /\ "health" \in setup.screens
      /\ forecast' =
           [ids |-> IF primary # NoAccount /\ group.strategy # "MANUAL"
                    THEN <<primary, backup>> ELSE <<primary>>,
            by |-> "health", follower |-> "none"]
      /\ UNCHANGED <<setup, accounts, group, quota, now, pc, tried, decision, edits, waited>>

\* "Preview selection" on the Routing Groups screen, which calls select.
PreviewSelection ==
  /\ Quiet /\ "groups" \in setup.screens
  /\ edits < setup.maxEdits
  /\ edits' = edits + 1
  /\ forecast' = [ids |-> <<Named(Decisions({}))>>, by |-> "groups", follower |-> "none"]
  /\ \/ /\ group.strategy # "ROUND_ROBIN" \/ Decisions({}) = {}
        /\ UNCHANGED group
     \/ /\ group.strategy = "ROUND_ROBIN"
        /\ \E d \in Decisions({}) : group' = [group EXCEPT !.lastIndex = d.index]
  /\ waited' = [a \in Member |-> 0]
  /\ UNCHANGED <<setup, accounts, quota, now, pc, tried, decision>>

-----------------------------------------------------------------------------
(* What changes between selections.                                        *)

Edit ==
  /\ edits < setup.maxEdits
  /\ edits' = edits + 1
  /\ forecast' = NoForecast
  /\ UNCHANGED <<setup, now, pc, tried, decision>>

SetAccountEnabled(a) ==
  /\ Edit
  /\ accounts' = [accounts EXCEPT ![a].enabled = ~ @]
  /\ StillWaiting(accounts', now)
  /\ UNCHANGED <<group, quota>>

SetAccountPriority(a) ==
  /\ Edit
  /\ \E p \in {50, 100} : accounts' = [accounts EXCEPT ![a].priority = p]
  /\ UNCHANGED <<group, quota, waited>>

\* recordQuotaSnapshot: its windows are listed before those of older snapshots.
RecordQuotaSnapshot(a) ==
  /\ Edit
  /\ \E windows \in setup.snapshots :
       quota' = [quota EXCEPT ![a] =
         [i \in DOMAIN windows |-> [snapshot |-> edits, used |-> windows[i]]] \o @]
  /\ UNCHANGED <<accounts, group, waited>>

\* The operator saves the group with another strategy: the cursor restarts.
SaveGroup ==
  /\ Edit
  /\ \E s \in setup.strategies, m \in Member :
       group' = [group EXCEPT !.strategy = s, !.lastIndex = -1,
                              !.manual = IF s = "MANUAL" THEN m ELSE NoAccount]
  /\ waited' = [a \in Member |-> 0]
  /\ UNCHANGED <<accounts, quota>>

Tick ==
  /\ now < setup.maxTime
  /\ now' = now + 1
  /\ StillWaiting(accounts, now')
  /\ forecast' = NoForecast
  /\ UNCHANGED <<setup, accounts, group, quota, pc, tried, decision, edits>>

Next ==
  \/ \E t \in setup.callers : Select(t) \/ StoreCursor(t) \/ RecordFailure(t) \/ RecordSuccess(t)
  \/ RoutingHealth \/ PreviewSelection
  \/ \E a \in Member :
       SetAccountEnabled(a) \/ SetAccountPriority(a) \/ RecordQuotaSnapshot(a)
  \/ SaveGroup
  \/ Tick

Spec == Init /\ [][Next]_vars

\* A thread that has selected an account goes on with its request.
Fairness ==
  \A t \in Caller :
    WF_vars(StoreCursor(t)) /\ WF_vars(RecordFailure(t) \/ RecordSuccess(t))

FairSpec == Spec /\ Fairness

-----------------------------------------------------------------------------
(* Properties.                                                             *)

\* Round robin is fair to the members: a caller that is alone passes over an
\* account that stays open at most once for every other member of the group,
\* since the account's last turn, the last edit of the group and the last look
\* at it with Preview selection.
RotationFair ==
  group.strategy = "ROUND_ROBIN" /\ Cardinality(setup.callers) = 1 =>
    \A a \in Member : waited[a] < Len(setup.members)

\* The step in which select gives t another account, or no more.
Selects(t) == pc[t] = "idle" /\ tried'[t] # tried[t]

\* Callers who race for the cursor may move it back, and then an account can be
\* passed over more often; but if selections go on, it is not passed over for
\* ever: it is selected, or closes.
NoStarvation ==
  \A a \in AccountId :
    []<><<\E t \in Caller : Selects(t)>>_vars =>
      []<>(group.strategy = "ROUND_ROBIN" /\ a \in Member => waited[a] = 0)

\* Between requests, select has exactly one answer to give, whenever there is an
\* account it may give, under every strategy and whatever a request has tried:
\* the comparators of the strategies never leave two candidates tied.
OneDecision ==
  Quiet =>
    \A s \in Strategy \ {"MANUAL"}, excludedIds \in SUBSET Member :
      LET g == [group EXCEPT !.strategy = s]
          open == Open(group, accounts, now) \ excludedIds
          ds == selectInternal(g, candidatesFor(g), now, excludedIds)
      IN  /\ Cardinality(ds) = IF open = {} THEN 0 ELSE 1
          /\ \A d \in ds : d.id \in open

\* The selection t makes is the one the forecast names.
Foretold(t) == Follows(t) => decision'[t].id = Head(forecast.ids)

\* Routing Health tells the truth: the next request is given the primary it
\* shows, and when it fails there, the backup it shows.
HealthForetells ==
  [][forecast.by = "health" => \A t \in Caller : Select(t) => Foretold(t)]_vars

=============================================================================
