--------------------------- MODULE RoutingPolicy ---------------------------
(***************************************************************************)
(* The pure part of routing: who may be selected, in which order, and for  *)
(* how long a failing account is left alone.  It is the constant-level     *)
(* vocabulary shared by the modules that have state: FailurePolicy,        *)
(* AccountSelector and the anonymous helpers of RoutingManager.            *)
(*                                                                         *)
(* Account ids are numbers, so that the string order that breaks ties in   *)
(* the code is <.  Text that no decision depends on (display name, e-mail, *)
(* plan, last error) is not part of a row.                                 *)
(***************************************************************************)
EXTENDS Integers, Sequences, FiniteSets, Functions, SequencesExt

CONSTANTS
  AccountId,      \* the ids an account row can have
  CooldownBase,   \* baseSeconds of FailurePolicy, 30 in the program
  CooldownCap     \* maxSeconds of FailurePolicy, 900 in the program

ASSUME RoutingPolicyAssumption ==
  /\ AccountId \subseteq Nat
  /\ CooldownBase \in Nat \ {0}
  /\ CooldownCap \in Nat \ {0}

Status == {"READY", "WARNING", "LIMITED", "AUTH_EXPIRED", "DISABLED", "ERROR"}

Strategy == {"HEALTH_FIRST", "LEAST_USED", "PRIORITY", "ROUND_ROBIN", "MANUAL"}

\* The modes each provider creates or accepts.
ModesOf == [codex       |-> {"subscription-runtime"},
            antigravity |-> {"consumer-cli", "api-project"},
            zai         |-> {"general-api", "coding-plan"}]

ProviderName == DOMAIN ModesOf
ProviderMode == UNION {ModesOf[p] : p \in ProviderName}

\* cooldownUntilUnix is a std::optional: an absent one is written NoCooldown.
NoCooldown == -1

\* credentialRef is always "<id>-api-key" or empty, so a BOOLEAN tells them apart.
Row == [provider            : ProviderName,
        providerMode        : ProviderMode,
        credentialRef       : BOOLEAN,
        status              : Status,
        priority            : Int,
        enabled             : BOOLEAN,
        consecutiveFailures : Nat,
        cooldownUntil       : Nat \cup {NoCooldown}]

\* An empty manualAccountId is written NoAccount.
NoAccount == -1

\* The primary key of routing_group_members allows an account one position.
MemberList == {s \in Seq(AccountId) : IsInjective(s)}

Group == [strategy  : Strategy,
          enabled   : BOOLEAN,
          manual    : AccountId \cup {NoAccount},
          lastIndex : Int,
          members   : MemberList]

(***************************************************************************)
(* FailurePolicy                                                           *)
(***************************************************************************)

AtMost(x, y) == IF x <= y THEN x ELSE y

\* 1 << exponent for the exponents 0..5 that cooldownSeconds can form.
PowerOfTwo == <<1, 2, 4, 8, 16, 32>>

cooldownSeconds(failures) ==
  IF failures <= 0
  THEN 0
  ELSE AtMost(CooldownBase * PowerOfTwo[AtMost(failures - 1, 5) + 1], CooldownCap)

isCoolingDown(row, now) ==
  row.cooldownUntil # NoCooldown /\ row.cooldownUntil > now

FailureRecorded(row, now) ==
  LET failures == row.consecutiveFailures + 1
  IN  [row EXCEPT !.consecutiveFailures = failures,
                  !.cooldownUntil = now + cooldownSeconds(failures)]

\* Slip: a success undoes one failure instead of all of them.
SuccessRecorded_Decrements(row) ==
  [row EXCEPT !.consecutiveFailures = @ - 1, !.cooldownUntil = NoCooldown]

\* Slip: a success ends the cooldown and leaves the count.
SuccessRecorded_KeepsFailures(row) == [row EXCEPT !.cooldownUntil = NoCooldown]

SuccessRecorded(row) ==
  [row EXCEPT !.consecutiveFailures = 0, !.cooldownUntil = NoCooldown]

\* What FailurePolicy makes of a row by time now: it cools down exactly while
\* it has failures, and no longer than one cooldown of that many failures.
CooldownSound(row, now) ==
  /\ row.cooldownUntil = NoCooldown <=> row.consecutiveFailures = 0
  /\ row.cooldownUntil <= now + cooldownSeconds(row.consecutiveFailures)

(***************************************************************************)
(* Who may be selected                                                     *)
(***************************************************************************)

eligible(row, now) ==
  /\ row.enabled
  /\ ~ isCoolingDown(row, now)
  /\ row.status \in {"READY", "WARNING"}

automaticRoutingCapable(row) ==
  \/ row.provider = "zai" /\ row.providerMode = "general-api"
  \/ row.provider = "antigravity" /\ row.providerMode = "api-project"

completionRoutingCapable(row) ==
  row.provider = "codex" \/ automaticRoutingCapable(row)

(***************************************************************************)
(* Edits of a group.                                                       *)
(***************************************************************************)

\* The members in order of position, the one of a deleted.
Without(s, a) ==
  IF a \in Range(s) THEN RemoveAt(s, CHOOSE i \in DOMAIN s : s[i] = a) ELSE s

\* What deleting the row of account a does to a group.
MembershipDeleted(g, a) ==
  [g EXCEPT !.members = Without(@, a),
            !.manual = IF @ = a THEN NoAccount ELSE @,
            !.lastIndex = IF g.manual = a THEN -1 ELSE @]

\* The checks of saveGroup, when apiAccounts are the accounts whose rows hold an
\* API credential: they are required of the members of an automatic group.
Savable(g, apiAccounts) ==
  /\ g.manual = NoAccount \/ g.manual \in Range(g.members)
  /\ g.strategy # "MANUAL" => Range(g.members) \subseteq apiAccounts

(***************************************************************************)
(* Quota: a history is listed newest snapshot first, one entry per window, *)
(* each [snapshot, used].  An unknown usage is written UnknownUse.         *)
(***************************************************************************)

UnknownUse == -1

latestUsedPercent(history) ==
  LET sameSnapshot ==
        {i \in DOMAIN history :
           \A j \in 1 .. i : history[j].snapshot = history[1].snapshot}
  IN  IF history = <<>>
      THEN UnknownUse
      ELSE CHOOSE u \in {history[i].used : i \in sameSnapshot} :
             \A i \in sameSnapshot : u >= history[i].used

(***************************************************************************)
(* The orders in which the strategies prefer candidates.  A candidate is   *)
(* [id, row, used]; each comparator of the code compares the components of *)
(* its key from left to right, and the least key is selected.              *)
(***************************************************************************)

statusRank(row) == IF row.status = "READY" THEN 0 ELSE 1

KnownFirst(c) == IF c.used = UnknownUse THEN 1 ELSE 0

\* Two unknown usages do not decide; two known ones compare as numbers.
UseIfKnown(c) == IF c.used = UnknownUse THEN 0 ELSE c.used

HealthFirstKey(c) ==
  <<statusRank(c.row), -c.row.priority, KnownFirst(c), UseIfKnown(c), c.id>>

LeastUsedKey(c) ==
  <<statusRank(c.row), KnownFirst(c), UseIfKnown(c), -c.row.priority, c.id>>

\* Slip: equal accounts are left tied.
PriorityKey_Tied(c) ==
  <<-c.row.priority, statusRank(c.row), 0, 0, 0>>

PriorityKey(c) ==
  <<-c.row.priority, statusRank(c.row), c.id, 0, 0>>

KeyOf(strategy, c) ==
  CASE strategy = "LEAST_USED" -> LeastUsedKey(c)
    [] strategy = "PRIORITY"   -> PriorityKey(c)
    [] OTHER                   -> HealthFirstKey(c)

\* The lexicographic order of two keys.
KeyLess(k, l) ==
  \E i \in 1 .. 5 : k[i] < l[i] /\ \A j \in 1 .. i - 1 : k[j] = l[j]

Before(strategy, c, d) == KeyLess(KeyOf(strategy, c), KeyOf(strategy, d))

(***************************************************************************)
(* RoutingManager::selectInternal, after the rows of the members have been *)
(* read: the set of decisions it may return, each [id, index].  It is      *)
(* empty when there is nothing to select.  index is the round-robin cursor *)
(* to store, or the cursor as it was under every other strategy.           *)
(***************************************************************************)

\* Slip: the strategy alone decides, not the credential of the row.
Selectable_AnyCredential(g, candidates, now, excludedIds) ==
  {c \in candidates : c.id \notin excludedIds /\ eligible(c.row, now)}

\* Slip: what was tried before is not left out.
Selectable_TriedAgain(g, candidates, now, excludedIds) ==
  {c \in candidates :
     /\ g.strategy = "MANUAL" \/ automaticRoutingCapable(c.row)
     /\ eligible(c.row, now)}

\* The candidates left after remove_if and the eligibility test.
Selectable(g, candidates, now, excludedIds) ==
  {c \in candidates :
     /\ c.id \notin excludedIds
     /\ g.strategy = "MANUAL" \/ automaticRoutingCapable(c.row)
     /\ eligible(c.row, now)}

\* Slip: the scan starts at the account that was selected last.
RoundRobinStart_Stays(g) == (g.lastIndex + Len(g.members)) % Len(g.members)

\* Positions are 0-based as in the code.
RoundRobinStart(g) == (g.lastIndex + 1 + Len(g.members)) % Len(g.members)

\* How far the scan has gone when it looks at position i.
ScanOffset(g, i) == (i - RoundRobinStart(g) + Len(g.members)) % Len(g.members)

selectInternal(g, candidates, now, excludedIds) ==
  LET selectable == Selectable(g, candidates, now, excludedIds)
      ids == {c.id : c \in selectable}
      hits == {i \in 0 .. Len(g.members) - 1 : g.members[i + 1] \in ids}
  IN  IF ~ g.enabled
      THEN {}
      ELSE CASE g.strategy = "MANUAL" ->
                  {[id |-> i, index |-> g.lastIndex] : i \in ids \cap {g.manual}}
             [] g.strategy = "ROUND_ROBIN" ->
                  {[id |-> g.members[i + 1], index |-> i] :
                     i \in {h \in hits :
                              \A o \in hits : ScanOffset(g, h) <= ScanOffset(g, o)}}
             [] OTHER ->
                  {[id |-> c.id, index |-> g.lastIndex] :
                     c \in {d \in selectable :
                              \A o \in selectable \ {d} : Before(g.strategy, d, o)}}

=============================================================================
