---------------------------- MODULE RoleAdvantages ----------------------------
(***************************************************************************)
(* From the rewards of one rollout group to the advantages of its tokens.  *)
(*                                                                         *)
(* ScoreGroup is what the score task makes of its rewards online           *)
(* (normalize_proxy_role_advantages, src/rlff/proxy/normalization.py),     *)
(* BuildBatch what the offline path makes of the same group                *)
(* (aggregate_role_rewards and build_role_grpo_batch, src/rlff/grpo.py),   *)
(* ComputeAdvantages what the actor makes of a reply's scalar              *)
(* (role_advantage_tensor_data, src/rlff/runtime/types.py).                *)
(*                                                                         *)
(* Rewards are counted in quarter points: a reply's reward is the mean of  *)
(* four dimensions.  Weights are integers times the ramp's length, a mean  *)
(* is kept as its sum and an advantage as its deviation and the spread of  *)
(* its role, so that all arithmetic is exact; the epsilon of the code only *)
(* absorbs float rounding and is not modelled.                             *)
(***************************************************************************)
EXTENDS Integers, Sequences, FiniteSets, Functions

CONSTANTS
  Groups,        \* the groups that may arrive
  Character,
  Invalid,       \* a reward that the provider could not obtain
  LastStep,      \* bound on the global step
  StartStep, EndStep,           \* the ramp of the reward weights
  StartWeights, EndWeights,     \* [completion, global]
  MinGroupSize,
  BadReward, GoodReward,        \* thresholds of the gate, quarter points
  BadDensity,    \* [num, den]: share of bad replies
  BadToGood,     \* ratio of bad to good replies
  MinBad,        \* bad replies the gate asks for
  Shapes,        \* token counts [prompt, reply] of a training row
  Width          \* padded length of a training row

Kinds == {"completion", "global"}

ASSUME ScheduleAssumption ==
  /\ StartStep \in Nat /\ EndStep \in Nat /\ StartStep < EndStep /\ LastStep \in Nat
  /\ StartWeights \in [Kinds -> Nat] /\ EndWeights \in [Kinds -> Nat]

ASSUME GateAssumption ==
  /\ BadReward \in Int /\ GoodReward \in Int /\ BadReward < GoodReward
  /\ BadToGood \in Nat \ {0} /\ MinBad \in Nat \ {0} /\ MinGroupSize \in Nat \ {0}
  /\ BadDensity \in [num : Nat \ {0}, den : Nat \ {0}]

\* The chat template puts a prompt before every reply, and a reply that the
\* engine returns has a token.
ASSUME RowAssumption ==
  /\ Width \in Nat
  /\ \A shape \in Shapes :
       /\ shape.prompt \in Nat \ {0} /\ shape.reply \in Nat \ {0}
       /\ shape.prompt + shape.reply <= Width

\* A group is a record: gated, whether the gate is on; complete[t], whether
\* trajectory t ended with max_rounds and is neither invalid nor truncated;
\* reply[t][c], the rewards of the replies of character c in t, in order (in
\* complete trajectories equally many, one a round); task[t][c], the reward
\* of t for c's tasks.
ASSUME GroupsAssumption ==
  \A g \in Groups :
    /\ IsFiniteSet(DOMAIN g.complete)
    /\ \A t \in DOMAIN g.complete, c \in Character :
         /\ g.reply[t][c] \in Seq(Int \cup {Invalid})
         /\ g.task[t][c] \in Int \cup {Invalid}

VARIABLES
  group,      \* the group, fixed at the start
  step,       \* the global step its weights are taken at
  scheduled,  \* whether the configuration has a weight schedule
  done,       \* the paths that are through, of {"online", "offline"}
  online,     \* reply -> advantage that AReaL gets as the reply's reward
  offline,    \* reply -> advantage of the offline batch's samples
  rows        \* training row of one of the replies, once computed

vars == <<group, step, scheduled, done, online, offline, rows>>

\* No reply has an advantage: the group failed, or its batch is empty.
Nothing == <<>>

Init ==
  /\ group \in Groups
  /\ step \in 0..LastStep
  /\ scheduled \in BOOLEAN
  /\ done = {}
  /\ online = Nothing /\ offline = Nothing
  /\ rows = {}

Trajectories == DOMAIN group.complete
Roles(t)     == {c \in Character : group.reply[t][c] # <<>>}
GroupRoles   == UNION {Roles(t) : t \in Trajectories}
RepliesOf(t, c) == {<<t, c, i>> : i \in DOMAIN group.reply[t][c]}
Replies      == UNION {RepliesOf(t, c) : t \in Trajectories, c \in Character}

(***************************************************************************)
(* The weights of a step, times Ramp.                                      *)
(***************************************************************************)

Ramp == EndStep - StartStep

\* Faulty WeightAt: the ramp goes on past its end.
WeightUncapped(kind, s) ==
  IF ~scheduled \/ s <= StartStep
  THEN Ramp * StartWeights[kind]
  ELSE Ramp * StartWeights[kind]
         + (EndWeights[kind] - StartWeights[kind]) * (s - StartStep)

WeightAt(kind, s) ==
  IF ~scheduled \/ s <= StartStep
  THEN Ramp * StartWeights[kind]
  ELSE IF s >= EndStep
  THEN Ramp * EndWeights[kind]
  ELSE Ramp * StartWeights[kind]
         + (EndWeights[kind] - StartWeights[kind]) * (s - StartStep)

(***************************************************************************)
(* Rewards to advantages, common to both paths.                            *)
(***************************************************************************)

\* A character's value in a trajectory: the weighted mean of its replies and
\* its weighted task reward, times the number of replies.
Value(t, c) ==
  LET replies == group.reply[t][c] IN
  WeightAt("completion", step) * SumFunction(replies)
    + WeightAt("global", step) * Len(replies) * group.task[t][c]

\* (value - mean) / std for every trajectory: the deviation times the number
\* of trajectories, over a spread of zero exactly if the values are equal.
Zero == [dev |-> 0, spread |-> 0]

Normalized(value) ==
  LET dev    == [t \in DOMAIN value |->
                   Cardinality(DOMAIN value) * value[t] - SumFunction(value)]
      spread == SumFunction([t \in DOMAIN value |-> dev[t] * dev[t]])
  IN [t \in DOMAIN value |->
        IF spread = 0 THEN Zero ELSE [dev |-> dev[t], spread |-> spread]]

\* The advantage of character c in trajectory t among the trajectories T.
RoleAdvantage(T, t, c) == Normalized([u \in T |-> Value(u, c)])[t]

(***************************************************************************)
(* Online.                                                                 *)
(***************************************************************************)

\* Rewards that a call could not obtain fail the group before it gets here.
Scored(t) ==
  \A c \in Roles(t) :
    /\ group.task[t][c] # Invalid
    /\ \A i \in DOMAIN group.reply[t][c] : group.reply[t][c][i] # Invalid

Normalizable ==
  /\ Cardinality(Trajectories) >= MinGroupSize
  /\ \A t \in Trajectories :
       /\ group.complete[t]
       /\ Roles(t) # {} /\ Roles(t) = GroupRoles
       /\ Scored(t)

Bad(replies)  == {i \in DOMAIN replies : replies[i] <= BadReward}
Good(replies) == {i \in DOMAIN replies : replies[i] >= GoodReward}

BadMajority(replies) ==
  /\ Cardinality(Bad(replies)) >= MinBad
  /\ Cardinality(Bad(replies)) * BadDensity.den >= BadDensity.num * Len(replies)
  /\ Cardinality(Bad(replies)) >= BadToGood * Cardinality(Good(replies))

\* Faulty Masked: a dense bad majority masks the bad replies too.
MaskedWithBad(adv, replies, i) ==
  \/ adv.dev > 0 /\ i \in Bad(replies)
  \/ adv.dev < 0 /\ BadMajority(replies)

\* The gate takes the advantage from a bad reply of a good trajectory and
\* from a good reply of a bad trajectory in which bad replies dominate.
Masked(adv, replies, i) ==
  \/ adv.dev > 0 /\ i \in Bad(replies)
  \/ adv.dev < 0 /\ i \in Good(replies) /\ BadMajority(replies)

Gated(adv, replies, i) == IF Masked(adv, replies, i) THEN Zero ELSE adv

OnlineAdvantage(t, c, i) ==
  LET adv == RoleAdvantage(Trajectories, t, c) IN
  IF group.gated THEN Gated(adv, group.reply[t][c], i) ELSE adv

ScoreGroup ==
  /\ "online" \notin done
  /\ done' = done \cup {"online"}
  /\ online' = IF Normalizable
               THEN [r \in Replies |-> OnlineAdvantage(r[1], r[2], r[3])]
               ELSE Nothing
  /\ UNCHANGED <<group, step, scheduled, offline, rows>>

(***************************************************************************)
(* Offline.                                                                *)
(***************************************************************************)

\* Faulty Eligible: a failed trajectory shrinks the group.
EligibleSubset == {t \in Trajectories : group.complete[t]}

\* One failed trajectory makes the whole group ineligible.
Eligible == {t \in Trajectories : \A u \in Trajectories : group.complete[u]}

\* Aggregation raises on a reward that is not valid.
Aggregated == \A t \in Trajectories : Scored(t)

Covered(T) == \A t \in T : Roles(t) # {} /\ \A u \in T : Roles(t) = Roles(u)

BuildBatch ==
  /\ "offline" \notin done
  /\ done' = done \cup {"offline"}
  /\ offline' =
       IF Aggregated /\ Covered(Eligible) /\ Cardinality(Eligible) >= MinGroupSize
       THEN [r \in {r \in Replies : r[1] \in Eligible} |->
               RoleAdvantage(Eligible, r[1], r[2])]
       ELSE Nothing
  /\ UNCHANGED <<group, step, scheduled, online, rows>>

(***************************************************************************)
(* The training row of a reply: prompt tokens, reply tokens, padding.      *)
(***************************************************************************)

\* The rows of the actor come from AReaL with their mask; grpo.py builds the same
\* one for its own.
Generated(shape) == shape.prompt + 1 .. shape.prompt + shape.reply
LossMask(shape)  == [p \in 1..Width |-> p \in Generated(shape)]

\* Faulty Rolled: the mask stays where it is.
RolledNot(mask) == mask

\* torch.roll by -1: position p takes the mask of the token it predicts.
Rolled(mask) == [p \in 1..Width |-> mask[(p % Width) + 1]]

Row(reply, shape) ==
  LET mask == Rolled(LossMask(shape)) IN
  [reply |-> reply, shape |-> shape, mask |-> mask,
   advantages |-> [p \in 1..Width |-> IF mask[p] THEN online[reply] ELSE Zero]]

ComputeAdvantages ==
  /\ "online" \in done
  /\ rows = {}
  /\ \E reply \in DOMAIN online, shape \in Shapes : rows' = {Row(reply, shape)}
  /\ UNCHANGED <<group, step, scheduled, done, online, offline>>

Next == ScoreGroup \/ BuildBatch \/ ComputeAdvantages

Spec == Init /\ [][Next]_vars

(***************************************************************************)
(* Properties.                                                             *)
(***************************************************************************)

\* The two implementations agree: without the gate they give the same
\* replies the same advantages, and they leave the same groups out.  grpo.py
\* says of the group that one failed trajectory invalidates it whole.
PathsAgree ==
  (done = {"online", "offline"} /\ ~group.gated) => online = offline

\* The gate never silences what it is to keep: in a trajectory below the mean
\* of a role some reply keeps its full negative advantage, however many of
\* its replies are good (normalization.py, bad_majority).
BadTrajectoryTrains ==
  online # Nothing =>
    \A t \in Trajectories : \A c \in GroupRoles :
      LET adv == RoleAdvantage(Trajectories, t, c) IN
      adv.dev < 0 => \E r \in RepliesOf(t, c) : online[r] = adv

\* The loss of position p is that of token p + 1.  A row carries the reply's
\* advantage at the positions that predict its tokens, and nothing at those
\* of prompt and padding; the roll wraps nothing around
\* (role_advantage_tensor_data).
LossSeesAdvantages ==
  \A row \in rows : \A p \in 1..Width :
    row.advantages[p] =
      IF p + 1 \in Generated(row.shape) THEN online[row.reply] ELSE Zero

\* a <= x <= b or b <= x <= a
Between(x, a, b) == (a <= x /\ x <= b) \/ (b <= x /\ x <= a)

\* The weight of a step lies between the ramp's ends, and between the weight
\* of the step before and the ramp's end: a group scored later is never
\* weighed as if it were earlier (reward_weights_for_step).
WeightsOnRamp ==
  \A kind \in Kinds :
    LET from == Ramp * StartWeights[kind]
        to   == Ramp * EndWeights[kind]
    IN /\ Between(WeightAt(kind, step), from, to)
       /\ Between(WeightAt(kind, step + 1), WeightAt(kind, step), to)
=============================================================================
