------------------------------ MODULE Dialogue ------------------------------
(***************************************************************************)
(* What the two turn loops of RLFF share: the episode they start from      *)
(* (src/rlff/contracts.py), the number of rounds                           *)
(* (src/rlff/rollout/policy.py), the view a character gets of the dialogue *)
(* (src/rlff/episodes.py) and the text that reward requests carry          *)
(* (src/rlff/rewards/payloads.py).                                         *)
(*                                                                         *)
(* A turn is a character and a text.  Texts are tokens of identity: where  *)
(* a text was given or said, never its letters, nor the white space around *)
(* it, which a turn drops and a reply keeps.                               *)
(***************************************************************************)
EXTENDS Integers, Sequences, SequencesExt

CONSTANTS
  Name,         \* names a data file may give to characters and speakers
  Environment,  \* the reserved name of the narrator
  MaxRounds     \* configured upper bound of rounds

ASSUME DialogueAssumption ==
  /\ Environment \in Name
  /\ MaxRounds \in Nat \ {0}

\* What a data file may hold: names of characters, speakers of given turns.
Record(maxCharacters, maxTurns) ==
  [characters : BoundedSeq(Name, maxCharacters),
   speakers   : BoundedSeq(Name, maxTurns)]

\* The records that loading accepts: characters with different names, none of
\* them the narrator, and turns of these characters alone.
ValidEpisode(e) ==
  /\ e.characters # <<>>
  /\ IsInjective(e.characters)
  /\ Environment \notin ToSet(e.characters)
  /\ ToSet(e.speakers) \subseteq ToSet(e.characters)

\* The dialogue an episode starts with.
Given(e) ==
  [i \in DOMAIN e.speakers |-> [character |-> e.speakers[i], text |-> <<"given", i>>]]

RoundsFor(characterCount) ==
  IF characterCount <= 2 THEN 7 ELSE IF characterCount = 3 THEN 6 ELSE 5

PlannedRounds(e) ==
  LET horizon == RoundsFor(Len(e.characters)) IN
  IF MaxRounds < horizon THEN MaxRounds ELSE horizon

(***************************************************************************)
(* The prompt of a character: a system message, then the dialogue, with    *)
(* the turns of the character itself as assistant and all others as user   *)
(* messages.  Neighbours of one role are one message.                      *)
(***************************************************************************)

System == [role |-> "system", turns |-> <<>>]

RoleOf(character, turn) == IF turn.character = character THEN "assistant" ELSE "user"

AddTurn(messages, role, turn) ==
  IF Last(messages).role = role
  THEN [messages EXCEPT ![Len(messages)].turns = Append(@, turn)]
  ELSE Append(messages, [role |-> role, turns |-> <<turn>>])

Projection(character, history) ==
  FoldLeft(LAMBDA messages, turn : AddTurn(messages, RoleOf(character, turn), turn),
           <<System>>, history)

\* The turns a prompt holds, in order.
TurnsShown(messages) == FoldLeft(LAMBDA shown, m : shown \o m.turns, <<>>, messages)

(***************************************************************************)
(* The dialogue as reward requests quote it.                               *)
(***************************************************************************)

\* Replies in the order of their turn indices, as sorted() gives them: those of
\* one index stay in order.
ByTurn(completions) ==
  LET before(j, i) == completions[j].turn < completions[i].turn
      place(i) == Cardinality({j \in DOMAIN completions :
                    before(j, i) \/ (~before(i, j) /\ j <= i)})
  IN [k \in DOMAIN completions |-> completions[CHOOSE i \in DOMAIN completions : place(i) = k]]

\* Every reply as an utterance.
Quoted(completions) ==
  [i \in DOMAIN completions |->
     [character |-> completions[i].character, text |-> completions[i].text]]

\* A completion request about a trajectory of the agent: the given dialogue
\* and the replies by turn index.
OnlineCompletionUtterances(e, completions) == Given(e) \o Quoted(ByTurn(completions))

\* A trajectory request about a trajectory of the agent: the given dialogue and
\* the generated turns.
OnlineTrajectoryUtterances(e, generated) == Given(e) \o generated
=============================================================================
