---------------------------- MODULE RolloutEngine ----------------------------
(***************************************************************************)
(* The two loops that generate the trajectories of a group, turn by turn:  *)
(* "offline" is rollout_group of src/rlff/rollout/engine.py, one task per  *)
(* sample under one gather; "online" is the agent's own loop in            *)
(* src/rlff/proxy/agent.py, which details the generating runs of           *)
(* ProxyGroup.                                                             *)
(*                                                                         *)
(* A loop suspends only where it awaits a reply.  An action is therefore   *)
(* a reply with everything the code does up to the next request.           *)
(***************************************************************************)
EXTENDS Dialogue

CONSTANTS
  Sample,         \* samples of the group, or runs of the agent's group
  MaxCharacters,  \* bound of the episodes tried
  MaxTurns,       \* bound of their given dialogues
  ContextLength,  \* prompt and reply must fit in
  MaxNewTokens    \* room that a reply may need

ASSUME RolloutEngineAssumption ==
  /\ Sample # {}
  /\ ContextLength \in Nat
  /\ MaxNewTokens \in Nat

VARIABLES
  path,         \* which loop: "offline" or "online"
  episode,      \* the episode of the group
  order,        \* the order its characters speak in
  history,      \* the dialogue of each sample so far
  generated,    \* the turns of it that the agent keeps by themselves
  completions,  \* its replies: character, turn index, text and kind
  prompt,       \* the messages of its outstanding request
  status,       \* created, asking, or how it ended
  group         \* what rollout_group did: running, returned, raised

vars == <<path, episode, order, history, generated, completions, prompt, status, group>>
fixed == <<path, episode, order>>

Failed == {"context_limit", "invalid", "infrastructure_failure"}
Ended  == {"max_rounds", "raised"} \cup Failed

\* The agent shuffles the characters, in one order for all runs of a group; the
\* engine keeps the order of the episode.
CharacterOrders(p, e) ==
  IF p = "online" THEN SetToSeqs(ToSet(e.characters)) ELSE {e.characters}

Init ==
  /\ path \in {"offline", "online"}
  /\ episode \in {e \in Record(MaxCharacters, MaxTurns) : ValidEpisode(e)}
  /\ order \in CharacterOrders(path, episode)
  /\ history = [t \in Sample |-> Given(episode)]
  /\ generated = [t \in Sample |-> <<>>]
  /\ completions = [t \in Sample |-> <<>>]
  /\ prompt = [t \in Sample |-> <<>>]
  /\ status = [t \in Sample |-> "created"]
  /\ group = "running"

Characters == Len(order)
Turns      == PlannedRounds(episode) * Characters

\* Round robin: who speaks after k replies.
Speaker(k) == order[(k % Characters) + 1]

Tokens(messages) == Len(messages) + Len(TurnsShown(messages))

Ends(t, how) ==
  /\ status' = [status EXCEPT ![t] = how]
  /\ prompt' = [prompt EXCEPT ![t] = <<>>]

\* Faulty GoOn: the prompt is projected from the dialogue before the reply.
GoOnStale(t, h, replies) ==
  IF Len(replies) = Turns THEN Ends(t, "max_rounds")
  ELSE /\ status' = [status EXCEPT ![t] = "asking"]
       /\ prompt' = [prompt EXCEPT ![t] = Projection(Speaker(Len(replies)), history[t])]

\* The loop goes on with dialogue h and these replies: the next request, or the
\* end.  Rendering or tokenising a prompt may fail.  Only the engine compares
\* the length of a prompt with the context.
GoOn(t, h, replies) ==
  LET messages == Projection(Speaker(Len(replies)), h)
      fits     == path = "online" \/ Tokens(messages) + MaxNewTokens <= ContextLength
  IN
  \/ Len(replies) = Turns /\ Ends(t, "max_rounds")
  \/ Len(replies) < Turns /\ Ends(t, IF path = "offline" THEN "infrastructure_failure" ELSE "raised")
  \/ Len(replies) < Turns /\ ~fits /\ Ends(t, "context_limit")
  \/ /\ Len(replies) < Turns /\ fits
     /\ status' = [status EXCEPT ![t] = "asking"]
     /\ prompt' = [prompt EXCEPT ![t] = messages]

\* A task runs up to its first request.
Start(t) ==
  /\ status[t] = "created"
  /\ GoOn(t, history[t], completions[t])
  /\ UNCHANGED <<fixed, history, generated, completions, group>>

\* The reply to the outstanding request of t, as a completion and as a turn.
Reply(t, kind) ==
  [character |-> Speaker(Len(completions[t])), turn |-> Len(completions[t]),
   text |-> <<t, Len(completions[t])>>, kind |-> kind]

Turn(t) ==
  [character |-> Speaker(Len(completions[t])), text |-> <<t, Len(completions[t])>>]

\* Faulty Generates: the runs of a group share one list of generated turns.
GeneratesShared(t) ==
  generated' = [x \in Sample |-> IF path = "online" THEN Append(generated[x], Turn(t)) ELSE <<>>]

\* The agent appends each turn to a list of its own, next to the dialogue: that
\* list becomes the turns of its trajectory.  The engine returns the dialogue.
Generates(t) ==
  generated' = [generated EXCEPT ![t] = IF path = "online" THEN Append(@, Turn(t)) ELSE @]

\* Faulty Takes: the samples share one dialogue.
TakesShared(t, kind) ==
  /\ completions' = [completions EXCEPT ![t] = Append(@, Reply(t, kind))]
  /\ history' = [x \in Sample |-> IF kind = "empty" THEN history[x] ELSE Append(history[x], Turn(t))]
  /\ Generates(t)

\* A usable reply becomes a completion, and a turn unless it is empty.
Takes(t, kind) ==
  /\ completions' = [completions EXCEPT ![t] = Append(@, Reply(t, kind))]
  /\ history' = [history EXCEPT ![t] = IF kind = "empty" THEN @ ELSE Append(@, Turn(t))]
  /\ Generates(t)

(***************************************************************************)
(* The engine.  A backend returns a GenerationResult or a mapping of the   *)
(* same fields, or raises.                                                 *)
(***************************************************************************)

Fault == {"none", "raises", "untyped", "fields_missing", "prompt_differs", "bad_token_ids",
          "no_tokens", "logprobs_misaligned", "policy_differs", "tokenizer_differs"}

\* What becomes of a backend's answer.  Token ids that are no ids are a
\* protocol error of a GenerationResult, yet any other exception of a mapping.
Verdict(wire, fault) ==
  IF fault = "none" THEN "usable"
  ELSE IF fault = "raises" \/ (fault = "bad_token_ids" /\ wire = "mapping")
  THEN "infrastructure_failure"
  ELSE "invalid"

AnsweredOffline(t) ==
  /\ path = "offline"
  /\ status[t] = "asking"
  /\ \/ \E kind \in {"spoken", "empty"} :
          Takes(t, kind) /\ GoOn(t, history'[t], completions'[t])
     \/ /\ completions' = [completions EXCEPT ![t] = Append(@, Reply(t, "blank"))]
        /\ Ends(t, "raised")  \* white space is no content of a turn
        /\ UNCHANGED <<history, generated>>
     \/ \E wire \in {"result", "mapping"}, fault \in Fault \ {"none"} :
          Ends(t, Verdict(wire, fault)) /\ UNCHANGED <<history, generated, completions>>
  /\ UNCHANGED <<fixed, group>>

\* The gather raises with the first task that raised; the others go on.
GatherRaises ==
  /\ path = "offline"
  /\ group = "running"
  /\ \E t \in Sample : status[t] = "raised"
  /\ group' = "raised"
  /\ UNCHANGED <<fixed, history, generated, completions, prompt, status>>

\* Faulty GatherReturns: waits for valid trajectories.
GatherReturnsValid ==
  /\ path = "offline"
  /\ group = "running"
  /\ \A t \in Sample : status[t] = "max_rounds"
  /\ group' = "returned"
  /\ UNCHANGED <<fixed, history, generated, completions, prompt, status>>

\* All tasks returned a trajectory: the group is assembled.
GatherReturns ==
  /\ path = "offline"
  /\ group = "running"
  /\ \A t \in Sample : status[t] \in Ended \ {"raised"}
  /\ group' = "returned"
  /\ UNCHANGED <<fixed, history, generated, completions, prompt, status>>

(***************************************************************************)
(* The agent.  Anything but text raises and fails the run.                 *)
(***************************************************************************)

AnsweredOnline(t) ==
  /\ path = "online"
  /\ status[t] = "asking"
  /\ \/ Takes(t, "spoken") /\ GoOn(t, history'[t], completions'[t])
     \/ Ends(t, "raised") /\ UNCHANGED <<history, generated, completions>>
  /\ UNCHANGED <<fixed, group>>

\* Every sample ended, and so did the group.
Finished ==
  /\ \A t \in Sample : status[t] \in Ended
  /\ path = "offline" => group # "running"
  /\ UNCHANGED vars

SampleStep(t) == Start(t) \/ AnsweredOffline(t) \/ AnsweredOnline(t)

Next ==
  \/ \E t \in Sample : SampleStep(t)
  \/ GatherRaises
  \/ GatherReturns
  \/ Finished

\* The loop resumes what is ready, and the client of the agent gives up a request
\* after rollout_request_timeout_seconds, without a retry (agent.py:748).
Fairness ==
  /\ \A t \in Sample : WF_vars(Start(t)) /\ WF_vars(AnsweredOnline(t))
  /\ WF_vars(GatherRaises)
  /\ WF_vars(GatherReturns)

\* The engine waits for its backend without a timeout (engine.py:235); that one
\* answers or raises is no promise of this code.
BackendAnswers == \A t \in Sample : WF_vars(AnsweredOffline(t))

Spec == Init /\ [][Next]_vars /\ Fairness

(***************************************************************************)
(* The trajectory that a task of the engine returns.                       *)
(***************************************************************************)

\* Faulty Report: a failed trajectory counts its last round as complete.
ReportRoundedUp(t) ==
  [reason    |-> status[t],
   valid     |-> status[t] = "max_rounds",
   truncated |-> status[t] \in {"context_limit", "infrastructure_failure"},
   planned   |-> PlannedRounds(episode),
   completed |-> (Len(completions[t]) + Characters - 1) \div Characters,
   count     |-> Len(completions[t]),
   explained |-> status[t] # "max_rounds",
   turns     |-> history[t]]

Report(t) ==
  [reason    |-> status[t],
   valid     |-> status[t] = "max_rounds",
   truncated |-> status[t] \in {"context_limit", "infrastructure_failure"},
   planned   |-> PlannedRounds(episode),
   completed |-> IF status[t] = "max_rounds" THEN PlannedRounds(episode)
                 ELSE Len(completions[t]) \div Characters,
   count     |-> Len(completions[t]),
   explained |-> status[t] # "max_rounds",
   turns     |-> history[t]]

\* The contract of a trajectory with these replies: a report that does not meet
\* it raises.
MeetsContract(r, replies) ==
  /\ r.count = Len(replies)
  /\ r.completed <= r.planned
  /\ r.valid /\ r.reason = "max_rounds" => r.completed = r.planned
  /\ r.valid <=> ~r.explained
  /\ r.truncated => r.reason \in {"context_limit", "truncated", "infrastructure_failure"}

(***************************************************************************)
(* Properties.                                                             *)
(***************************************************************************)

\* Whoever is asked sees the whole dialogue up to now, in order and once: its
\* own turns as assistant, those of others as user messages, no two
\* neighbours of one role.
PromptShowsDialogue ==
  \A t \in Sample : status[t] = "asking" =>
    LET m == prompt[t] IN
    /\ Head(m).role = "system"
    /\ TurnsShown(m) = history[t]
    /\ \A i \in 2..Len(m) :
         /\ m[i].turns # <<>>
         /\ m[i].role # m[i - 1].role
         /\ \A j \in DOMAIN m[i].turns :
              (m[i].turns[j].character = Speaker(Len(completions[t]))) <=> (m[i].role = "assistant")

\* The dialogue of a sample is what was given and then what was said in it,
\* nothing lost, doubled or taken from another sample, and each reply is by the
\* character whose turn it was.
DialogueIsWhatWasSaid ==
  \A t \in Sample :
    LET replies  == completions[t]
        given    == Given(episode)
        spoken   == {k \in DOMAIN replies : replies[k].kind = "spoken"}
        place(k) == Len(given) + Cardinality({j \in spoken : j <= k})
    IN /\ Len(history[t]) = Len(given) + Cardinality(spoken)
       /\ \A i \in DOMAIN given : history[t][i] = given[i]
       /\ \A k \in spoken :
            /\ history[t][place(k)] = [character |-> replies[k].character, text |-> replies[k].text]
            /\ replies[k].text[1] = t
       /\ \A k \in DOMAIN replies :
            replies[k].turn = k - 1 /\ replies[k].character = Speaker(k - 1)

TurnsOf(t, c) == Cardinality({k \in DOMAIN completions[t] : completions[t][k].character = c})

\* Every trajectory a task returns meets its contract, counts exactly the rounds
\* in which every character spoke, and is valid only if every character spoke in
\* every planned round.
ReportsAreWhole ==
  \A t \in Sample : path = "offline" /\ status[t] \in Ended \ {"raised"} =>
    LET r == Report(t) IN
    /\ MeetsContract(r, completions[t])
    /\ \A c \in ToSet(order) : TurnsOf(t, c) \in {r.completed, r.completed + 1}
    /\ \E c \in ToSet(order) : TurnsOf(t, c) = r.completed
    /\ r.valid => \A c \in ToSet(order) : TurnsOf(t, c) = r.planned

\* Both reward requests about a trajectory of the agent quote the dialogue that
\* its characters saw, white space around a reply apart, though one is built from
\* the replies and one from the list of generated turns, which the agent fills
\* next to the dialogue; and every character has a reply for each round.
RewardsReadDialogue ==
  \A t \in Sample : path = "online" /\ status[t] = "max_rounds" =>
    /\ OnlineCompletionUtterances(episode, completions[t]) = history[t]
    /\ OnlineTrajectoryUtterances(episode, generated[t]) = history[t]
    /\ \A c \in ToSet(order) : TurnsOf(t, c) = PlannedRounds(episode)

\* Every run of the agent ends its turns, whatever the replies.  In the engine a
\* task that raised ends the group, though a sibling may wait for its backend
\* for ever; if the backend answers, all samples end, and so does the group.
GroupEnds ==
  /\ path = "online" => \A t \in Sample : <>(status[t] \in Ended)
  /\ \A t \in Sample : (path = "offline" /\ status[t] = "raised") ~> (group # "running")
  /\ BackendAnswers =>
       /\ \A t \in Sample : <>(status[t] \in Ended)
       /\ <>(path = "online" \/ group # "running")

\* A failed sample becomes an invalid trajectory, and the group is returned.
FailedSampleIsReported == group # "raised"
=============================================================================
