---------------------------- MODULE RewardScoring ----------------------------
(***************************************************************************)
(* The score tasks of complete groups (src/rlff/proxy/agent.py) and the    *)
(* reward calls they gather (src/rlff/rewards/providers.py).               *)
(*                                                                         *)
(* A score task holds the reward-schedule lock while it gathers one call   *)
(* per trajectory and character and scope.  A call holds a permit of its   *)
(* scope's semaphore over all its attempts.  A gather raises with its      *)
(* first failed call and does not cancel the others: they go on after the  *)
(* lock has passed to the next group.                                      *)
(*                                                                         *)
(* RewardScoring details the score variable of ProxyGroup; the runs are    *)
(* left out.                                                               *)
(***************************************************************************)
EXTENDS Integers, Sequences, FiniteSets, Functions

CONSTANTS
  Group,        \* group states
  Call,         \* reward calls: a trajectory, a character and a scope
  GroupOf,      \* the group a call scores
  ScopeOf,      \* the scope of a call
  Taskless,     \* trajectory calls of a character without tasks
  Retries,      \* retries of each scope
  Concurrency   \* permits of each scope

Scope == {"completion_local", "trajectory_role"}

ASSUME RewardScoringAssumption ==
  /\ GroupOf \in [Call -> Group]
  /\ ScopeOf \in [Call -> Scope]
  /\ Taskless \subseteq {c \in Call : ScopeOf[c] = "trajectory_role"}
  /\ Retries \in [Scope -> Nat]
  /\ Concurrency \in [Scope -> Nat \ {0}]

VARIABLES
  dynamic,   \* dynamic_trajectory_resampling, fixed by the configuration
  phase,     \* how far the score task of each group is
  lock,      \* _reward_schedule_lock: holder first, then waiters
  call,      \* where each call is
  attempts,  \* what came of each failed attempt of each call
  quoted,    \* the attempts whose reply the conversation quotes for repair
  raw,       \* the attempt whose text each call holds as raw_response, or 0
  permits,   \* free permits of each semaphore
  waiters,   \* calls that wait for each semaphore, in order
  audit,     \* rows of the reward audit: status and the attempt whose text it shows
  failures   \* rows of the failure log: the attempts each lists

callVars == <<call, attempts, quoted, raw, permits, waiters, audit, failures>>
talk == <<attempts, quoted, raw>>
vars == <<dynamic, phase, lock, callVars>>

Settled == {"scored", "rejected", "failed"}

Calls(g, scope) == {c \in Call : GroupOf[c] = g /\ ScopeOf[c] = scope}
CallsOf(g)      == {c \in Call : GroupOf[c] = g}

Init ==
  /\ dynamic \in BOOLEAN
  /\ phase = [g \in Group |-> "generating"]
  /\ lock = <<>>
  /\ call = [c \in Call |-> "none"]
  /\ attempts = [c \in Call |-> <<>>]
  /\ quoted = [c \in Call |-> <<>>]
  /\ raw = [c \in Call |-> 0]
  /\ permits = Concurrency
  /\ waiters = [x \in Scope |-> <<>>]
  /\ audit = [c \in Call |-> {}]
  /\ failures = [c \in Call |-> <<>>]

(***************************************************************************)
(* One reward call.                                                        *)
(***************************************************************************)

\* A row of the audit.
Audited(c, status, text) ==
  audit' = [audit EXCEPT ![c] = @ \cup {[status |-> status, text |-> text]}]

\* A call without tasks is worth zero and is not sent.
Skip(c) ==
  /\ call[c] = "created"
  /\ c \in Taskless
  /\ call' = [call EXCEPT ![c] = "ok"]
  /\ Audited(c, "skipped", 0)
  /\ UNCHANGED <<dynamic, phase, lock, talk, permits, waiters, failures>>

\* The payload does not fit the prompt: the call raises before it sends
\* anything, and neither log has a row for it.
Unrenderable(c) ==
  /\ call[c] = "created"
  /\ c \notin Taskless
  /\ call' = [call EXCEPT ![c] = "raised"]
  /\ UNCHANGED <<dynamic, phase, lock, talk, permits, waiters, audit, failures>>

\* Semaphore acquire: in line behind the waiters, if there are any.
Acquire(c) ==
  LET x == ScopeOf[c] IN
  /\ call[c] = "created"
  /\ c \notin Taskless
  /\ \/ /\ permits[x] > 0 /\ waiters[x] = <<>>
        /\ permits' = [permits EXCEPT ![x] = @ - 1]
        /\ call' = [call EXCEPT ![c] = "sending"]
        /\ UNCHANGED waiters
     \/ /\ permits[x] = 0 \/ waiters[x] # <<>>
        /\ waiters' = [waiters EXCEPT ![x] = Append(@, c)]
        /\ call' = [call EXCEPT ![c] = "waiting"]
        /\ UNCHANGED permits
  /\ UNCHANGED <<dynamic, phase, lock, talk, audit, failures>>

\* Faulty EndsAndReleases: the permit is freed and nobody is woken.
EndsUnnoticed(c, how) ==
  /\ permits' = [permits EXCEPT ![ScopeOf[c]] = @ + 1]
  /\ call' = [call EXCEPT ![c] = how]
  /\ UNCHANGED waiters

\* Semaphore release when call c ends as how: the permit goes to the first
\* waiter, which sends its first request.
EndsAndReleases(c, how) ==
  LET x == ScopeOf[c] IN
  IF waiters[x] = <<>>
  THEN /\ permits' = [permits EXCEPT ![x] = @ + 1]
       /\ call' = [call EXCEPT ![c] = how]
       /\ UNCHANGED waiters
  ELSE /\ waiters' = [waiters EXCEPT ![x] = Tail(@)]
       /\ call' = [call EXCEPT ![c] = how, ![Head(waiters[x])] = "sending"]
       /\ UNCHANGED permits

\* The number of the attempt a sending call is at.
Attempt(c) == Len(attempts[c]) + 1

\* A reply that parses and covers exactly what was asked.
Valid(c) ==
  /\ call[c] = "sending"
  /\ EndsAndReleases(c, "ok")
  /\ raw' = [raw EXCEPT ![c] = Attempt(c)]
  /\ Audited(c, "ok", Attempt(c))
  /\ UNCHANGED <<dynamic, phase, lock, attempts, quoted, failures>>

\* A failed attempt: no reply in time or a transport error; a text without
\* model text in it, as of an HTTP status or without envelope; model text that
\* does not parse or cover what was asked.
Outcome == {"silent", "refused", "unusable"}

\* A silent attempt leaves raw_response as it was.
Fails(c, outcome) ==
  /\ attempts' = [attempts EXCEPT ![c] = Append(@, outcome)]
  /\ raw' = IF outcome = "silent" THEN raw ELSE [raw EXCEPT ![c] = Attempt(c)]

\* Faulty Repair: the model text of an earlier attempt is still at hand.
RepairAgain(c, outcome) ==
  IF ScopeOf[c] = "completion_local" /\ raw'[c] > 0
  THEN quoted' = [quoted EXCEPT ![c] = Append(@, raw'[c])]
  ELSE UNCHANGED quoted

\* A completion call answers unusable model text with a repair request.
Repair(c, outcome) ==
  IF ScopeOf[c] = "completion_local" /\ outcome = "unusable"
  THEN quoted' = [quoted EXCEPT ![c] = Append(@, Attempt(c))]
  ELSE UNCHANGED quoted

\* An attempt fails, with retries left.
Retry(c) ==
  /\ call[c] = "sending"
  /\ Attempt(c) <= Retries[ScopeOf[c]]
  /\ \E outcome \in Outcome : Fails(c, outcome) /\ Repair(c, outcome)
  /\ UNCHANGED <<dynamic, phase, lock, call, permits, waiters, audit, failures>>

\* The last attempt fails: log the failure, audit the call as invalid, raise.
Exhausted(c) ==
  /\ call[c] = "sending"
  /\ Attempt(c) > Retries[ScopeOf[c]]
  /\ EndsAndReleases(c, "invalid")
  /\ \E outcome \in Outcome : Fails(c, outcome)
  /\ Audited(c, "invalid", raw'[c])
  /\ failures' = [failures EXCEPT ![c] = Append(@, attempts'[c])]
  /\ UNCHANGED <<dynamic, phase, lock, quoted>>

CallStep(c) ==
  \/ Skip(c)
  \/ Unrenderable(c)
  \/ Acquire(c)
  \/ Valid(c)
  \/ Retry(c)
  \/ Exhausted(c)

(***************************************************************************)
(* The score task of a group.                                              *)
(***************************************************************************)

Holds(g) == lock # <<>> /\ Head(lock) = g

\* The group is complete: its score task waits for the lock.
Complete(g) ==
  /\ phase[g] = "generating"
  /\ phase' = [phase EXCEPT ![g] = "queued"]
  /\ lock' = Append(lock, g)
  /\ UNCHANGED <<dynamic, callVars>>

\* Gather one call for each payload of these scopes.
Gather(g, scopes) ==
  /\ call' = [c \in Call |-> IF GroupOf[c] = g /\ ScopeOf[c] \in scopes
                             THEN "created" ELSE call[c]]
  /\ UNCHANGED <<talk, permits, waiters, audit, failures>>

\* Faulty Start: does not wait for the lock.
StartUnlocked(g) ==
  /\ phase[g] = "queued"
  /\ phase' = [phase EXCEPT ![g] = IF dynamic THEN "trajectory" ELSE "both"]
  /\ Gather(g, IF dynamic THEN {"trajectory_role"} ELSE Scope)
  /\ UNCHANGED <<dynamic, lock>>

\* With the lock: trajectory rewards first when dynamic, both scopes at once
\* otherwise.
Start(g) ==
  /\ Holds(g)
  /\ phase[g] = "queued"
  /\ phase' = [phase EXCEPT ![g] = IF dynamic THEN "trajectory" ELSE "both"]
  /\ Gather(g, IF dynamic THEN {"trajectory_role"} ELSE Scope)
  /\ UNCHANGED <<dynamic, lock>>

Gathering(g) ==
  IF phase[g] = "trajectory" THEN {"trajectory_role"}
  ELSE IF phase[g] = "completion" THEN {"completion_local"}
  ELSE IF phase[g] = "both" THEN Scope ELSE {}

Gathered(g) ==
  UNION {Calls(g, x) : x \in Gathering(g)}

\* Faulty AllOk: the gather tolerates failed calls.
AllEnded(g) ==
  Gathering(g) # {} /\ \A c \in Gathered(g) : call[c] \in {"ok", "invalid", "raised"}

AllOk(g) == Gathering(g) # {} /\ \A c \in Gathered(g) : call[c] = "ok"

\* Some character's trajectory rewards differ: ask for completion rewards.
Informative(g) ==
  /\ Holds(g)
  /\ phase[g] = "trajectory" /\ AllOk(g)
  /\ phase' = [phase EXCEPT ![g] = "completion"]
  /\ Gather(g, {"completion_local"})
  /\ UNCHANGED <<dynamic, lock>>

\* The score task ends and the lock passes on.
End(g, how) ==
  /\ phase' = [phase EXCEPT ![g] = how]
  /\ lock' = Tail(lock)
  /\ UNCHANGED <<dynamic, callVars>>

Reject(g) ==
  /\ Holds(g)
  /\ phase[g] = "trajectory" /\ AllOk(g)
  /\ End(g, "rejected")

Accept(g) ==
  /\ Holds(g)
  /\ phase[g] \in {"completion", "both"} /\ AllOk(g)
  /\ End(g, "scored")

\* The provider or a payload cannot be built, the gather raises with a failed
\* call, or the values of complete calls are refused: characters differ
\* between trajectories, or normalisation raises.
Fail(g) ==
  /\ Holds(g)
  /\ \/ phase[g] = "queued"
     \/ \E c \in Gathered(g) : call[c] \in {"invalid", "raised"}
     \/ AllOk(g)
  /\ End(g, "failed")

TaskStep(g) ==
  \/ Start(g)
  \/ Informative(g)
  \/ Reject(g)
  \/ Accept(g)
  \/ Fail(g)

\* Every group was scored and every call has ended.
Quiescent ==
  /\ \A g \in Group : phase[g] \in Settled
  /\ \A c \in Call : call[c] \in {"none", "ok", "invalid", "raised"}
  /\ UNCHANGED vars

Next ==
  \/ \E g \in Group : Complete(g) \/ TaskStep(g)
  \/ \E c \in Call : CallStep(c)
  \/ Quiescent

\* Every attempt has a timeout, and the loop resumes what is ready.
Fairness ==
  /\ \A g \in Group : WF_vars(TaskStep(g))
  /\ \A c \in Call : WF_vars(CallStep(c))

Spec == Init /\ [][Next]_vars /\ Fairness

(***************************************************************************)
(* Properties.                                                             *)
(***************************************************************************)

ScoringTypeOK ==
  /\ dynamic \in BOOLEAN
  /\ phase \in [Group -> {"generating", "queued", "trajectory", "completion", "both"}
                          \cup Settled]
  /\ lock \in Seq(Group)
  /\ call \in [Call -> {"none", "created", "waiting", "sending",
                        "ok", "invalid", "raised"}]
  /\ attempts \in [Call -> Seq(Outcome)]
  /\ quoted \in [Call -> Seq(Nat)]
  /\ raw \in [Call -> Nat]
  /\ permits \in [Scope -> Nat]
  /\ waiters \in [Scope -> Seq(Call)]
  /\ audit \in [Call -> SUBSET [status : {"skipped", "ok", "invalid"}, text : Nat]]
  /\ failures \in [Call -> Seq(Seq(Outcome))]

Sending(x) == {c \in Call : ScopeOf[c] = x /\ call[c] = "sending"}

\* The permits of a scope are free or held by calls that send, also those of
\* groups that failed long ago, and none stays free while a call waits.
PermitsConserved ==
  \A x \in Scope :
    /\ permits[x] + Cardinality(Sending(x)) = Concurrency[x]
    /\ waiters[x] # <<>> => permits[x] = 0

\* A group is scored from valid rewards of all its calls, each audited as
\* such, and it is rejected on valid trajectory rewards alone: then no
\* completion reward was ever asked for.
RewardsFromWholeGroup ==
  \A g \in Group :
    /\ phase[g] = "scored" =>
         \A c \in CallsOf(g) :
           call[c] = "ok" /\ \E row \in audit[c] : audit[c] = {row} /\ row.status # "invalid"
    /\ phase[g] = "rejected" =>
         /\ \A c \in Calls(g, "trajectory_role") : call[c] = "ok"
         /\ \A c \in Calls(g, "completion_local") : call[c] = "none"

\* The lock keeps the reward requests of two groups apart, except for those a
\* failed group leaves behind.
OverlapOnlyAfterFailure ==
  \A c, d \in Call :
    /\ call[c] \in {"created", "waiting", "sending"}
    /\ call[d] \in {"created", "waiting", "sending"}
    => \/ GroupOf[c] = GroupOf[d]
       \/ phase[GroupOf[c]] = "failed"
       \/ phase[GroupOf[d]] = "failed"

\* The attempts of a call whose text is of one of these kinds.
Texts(c, kinds) == {i \in DOMAIN attempts[c] : attempts[c][i] \in kinds}

\* The sequence has each of these numbers once, in order.
Lists(seq, numbers) ==
  /\ Range(seq) = numbers
  /\ \A i, j \in DOMAIN seq : i < j => seq[i] < seq[j]

\* The last of these numbers, or 0 if there is none.
IsLatest(n, numbers) == n \in numbers \cup {0} /\ \A i \in numbers : i <= n

\* The logs and the conversation of a call tell what came back: every unusable
\* model text but the last is answered once, by the next request, and no other;
\* a valid row shows the text that was parsed; an invalid row shows the last
\* text there was, which may be older than the error, and has one failure
\* row with every attempt the configuration allows.
LogsFollowAttempts ==
  \A c \in Call :
    LET allowed == Retries[ScopeOf[c]] + 1
        answered == {i \in Texts(c, {"unusable"}) : i < allowed}
    IN
    /\ Lists(quoted[c], IF ScopeOf[c] = "completion_local" THEN answered ELSE {})
    /\ call[c] = "ok" /\ c \notin Taskless =>
         audit[c] = {[status |-> "ok", text |-> Attempt(c)]}
    /\ call[c] = "invalid" =>
         /\ \E text \in 0 .. allowed : /\ IsLatest(text, Texts(c, {"refused", "unusable"}))
                                    /\ audit[c] = {[status |-> "invalid", text |-> text]}
         /\ failures[c] = <<attempts[c]>> /\ Len(attempts[c]) = allowed
    /\ call[c] # "invalid" => failures[c] = <<>>

\* A complete group is scored, rejected or failed in the end, and every call
\* ends, whatever is left of earlier groups.
GroupsAndCallsEnd ==
  /\ \A g \in Group : (phase[g] = "queued") ~> (phase[g] \in Settled)
  /\ \A c \in Call : (call[c] = "created") ~> (call[c] \in {"ok", "invalid", "raised"})
=============================================================================
