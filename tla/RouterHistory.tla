------------------------- MODULE RouterHistory -------------------------
(***************************************************************************)
(* CompletionRouter with history variables, for the properties that relate *)
(* the answer of a request to what happened while it ran.  No history      *)
(* variable influences a step of the program.                              *)
(***************************************************************************)
EXTENDS CompletionRouter

VARIABLES
  since,     \* since[r]: the time at which r began
  original,  \* original[r]: the members of the group when r began
  steady,    \* steady[r]: accounts that could have served r ever since it began
  removed,   \* removed[r]: accounts whose row was deleted since r began
  served     \* served[r]: the accounts whose provider completed r, in order,
             \* but for completions that proved unreadable

hvars == <<vars, since, original, steady, removed, served>>

\* Account a may be selected automatically, judged with a clock that shows t.
Open(a, t) ==
  /\ group.enabled /\ group.strategy # "MANUAL"
  /\ a \in Range(group.members)
  /\ accounts[a] # NoRow
  /\ automaticRoutingCapable(accounts[a]) /\ eligible(accounts[a], t)

Active(r) == pc[r] \notin {"idle", "done"}

\* The step in which r is accepted.
Accepted(r) == pc[r] = "idle" /\ pc'[r] = "select"

HInit ==
  /\ Init
  /\ since = [r \in Request |-> 0]
  /\ original = [r \in Request |-> {}]
  /\ steady = [r \in Request |-> {}]
  /\ removed = [r \in Request |-> {}]
  /\ served = [r \in Request |-> <<>>]

Observe ==
  /\ since' = [r \in Request |-> IF Accepted(r) THEN now ELSE since[r]]
  /\ original' = [r \in Request |->
       IF Accepted(r) THEN Range(group.members) ELSE original[r]]
  /\ steady' = [r \in Request |->
       IF Accepted(r) THEN {a \in AccountId : Open(a, now)'}
       ELSE IF Active(r) THEN {a \in steady[r] : Open(a, since[r])'}
       ELSE steady[r]]
  /\ removed' = [r \in Request |->
       IF Active(r)
       THEN removed[r] \cup {a \in AccountId : accounts[a] # NoRow /\ accounts'[a] = NoRow}
       ELSE removed[r]]
  /\ served' = [r \in Request |->
       IF pc[r] = "calling" /\ pc'[r] = "success" THEN Append(served[r], Current(r))
       ELSE IF pc[r] = "writeSuccess" /\ pc'[r] = "catch" THEN Front(served[r])
       ELSE served[r]]

HNext == Next /\ Observe

HSpec == HInit /\ [][HNext]_hvars

-----------------------------------------------------------------------------
(* Properties.                                                             *)

\* Failover is exhaustive: a request that gives up has tried every account that
\* could have been selected at every moment since the request began.  Only an
\* account that joined the group meanwhile can take the place of one of them:
\* the number of attempts is fixed when the request is accepted.
FailoverExhaustive ==
  \A r \in Request :
    /\ pc[r] = "done" /\ reply[r].status \in {"unavailable", "badRequest"}
    /\ Range(attempted[r]) \subseteq original[r]
    => steady[r] \subseteq Range(attempted[r])

\* A completion the provider has delivered ends the request: the client gets
\* that account's answer, and no other provider is paid for the same request,
\* unless the account's row was removed while it was being used.  An interaction
\* with a "model" or "id" that is no string is no completion for this property:
\* its success is recorded, then its failure, and the next provider is paid.
SuccessReachesClient ==
  \A r \in Request :
    /\ \A i \in DOMAIN served[r] :
         \/ served[r][i] \in removed[r]
         \/ /\ i = Len(served[r])
            /\ pc[r] = "done" => reply[r] = [status |-> "ok", account |-> served[r][i]]
    /\ reply[r].status = "ok" => reply[r].account \in Range(served[r])

\* The handler throws out of chatCompletions only when an account it had
\* selected was removed under it.
ThrowsOnlyAfterRemoval ==
  \A r \in Request :
    reply[r].status = "exception" => Range(attempted[r]) \cap removed[r] # {}

=============================================================================
