------------------------- MODULE RoleAdvantagesProofs -------------------------
(***************************************************************************)
(* Theorems of RoleAdvantages.                                             *)
(***************************************************************************)
EXTENDS RoleAdvantages, FiniteSetTheorems, NaturalsInduction, WellFoundedInduction, TLAPS

(***************************************************************************)
(* The gate.                                                               *)
(***************************************************************************)

\* No reply is both bad and good: the thresholds are apart.
LEMMA BadIsNotGood ==
  ASSUME NEW replies \in Seq(Int), NEW i \in Bad(replies)
  PROVE  i \notin Good(replies)
<1>1. replies[i] \in Int BY DEF Bad
<1> QED BY <1>1, GateAssumption DEF Bad, Good

\* A bad majority has a bad reply.
LEMMA BadMajorityHasBad ==
  ASSUME NEW replies, BadMajority(replies)
  PROVE  Bad(replies) # {}
<1>1. SUFFICES ASSUME Bad(replies) = {} PROVE FALSE
  OBVIOUS
<1>2. Cardinality(Bad(replies)) = 0 BY <1>1, FS_EmptySet
<1>3. Cardinality(Bad(replies)) >= MinBad BY DEF BadMajority
<1> QED BY <1>2, <1>3, GateAssumption

\* Whatever the rewards and the gate's thresholds, a trajectory below the mean
\* of its role keeps a reply with its full negative advantage: the gate
\* (normalization.py, bad_majority) never silences it.
THEOREM BadTrajectoryKeepsReply ==
  ASSUME NEW adv, adv.dev \in Int, adv.dev < 0,
         NEW replies \in Seq(Int), replies # <<>>
  PROVE  \E i \in DOMAIN replies : Gated(adv, replies, i) = adv
<1>1. ~(adv.dev > 0)
  OBVIOUS
<1>2. CASE BadMajority(replies)
  <2>1. PICK i \in Bad(replies) : TRUE BY <1>2, BadMajorityHasBad
  <2>2. i \in DOMAIN replies /\ i \notin Good(replies)
    BY BadIsNotGood DEF Bad
  <2> QED BY <1>1, <2>2 DEF Gated, Masked
<1>3. CASE ~BadMajority(replies)
  <2>1. 1 \in DOMAIN replies
    OBVIOUS
  <2> QED BY <1>1, <1>3, <2>1 DEF Gated, Masked
<1> QED BY <1>2, <1>3

(***************************************************************************)
(* The weights.                                                            *)
(***************************************************************************)

\* A product of integers is between zero and any larger product.
LEMMA ProductBetween ==
  ASSUME NEW d \in Int, NEW x \in Int, NEW y \in Int, 0 <= x, x <= y
  PROVE  Between(d * x, 0, d * y)
<1>1. CASE d >= 0 
  <2>1. 0 <= d * x BY <1>1
  <2>2. 0 <= d * (y - x) BY <1>1
  <2>3. d * (y - x) = d * y - d * x
    OBVIOUS
  <2> QED BY <2>1, <2>2, <2>3 DEF Between
<1>2. CASE d < 0
  <2>1. d * x <= 0 BY <1>2
  <2>2. d * (y - x) <= 0 BY <1>2
  <2>3. d * (y - x) = d * y - d * x
    OBVIOUS
  <2> QED BY <2>1, <2>2, <2>3 DEF Between
<1> QED BY <1>1, <1>2

\* Between is kept by a shift.
LEMMA BetweenShifted ==
  ASSUME NEW k \in Int, NEW x \in Int, NEW y \in Int, NEW z \in Int,
         Between(x, y, z)
  PROVE  Between(k + x, k + y, k + z)
BY DEF Between

\* How many steps up the ramp a step is.
Climb(s) ==
  IF ~scheduled \/ s <= StartStep THEN 0
  ELSE IF s >= EndStep THEN Ramp ELSE s - StartStep

LEMMA ClimbMonotone ==
  ASSUME NEW s \in Nat
  PROVE  /\ Climb(s) \in 0..Ramp
         /\ Climb(s) <= Climb(s + 1) \/ ~scheduled
         /\ ~scheduled => Climb(s + 1) = Climb(s)
BY ScheduleAssumption DEF Climb, Ramp

\* A weight is its start weight and the climb's share of the way.
LEMMA WeightClimbs ==
  ASSUME NEW kind \in Kinds, NEW s \in Nat
  PROVE  WeightAt(kind, s) = Ramp * StartWeights[kind]
                               + (EndWeights[kind] - StartWeights[kind]) * Climb(s)
<1> DEFINE a == StartWeights[kind]
           b == EndWeights[kind]
<1>1. a \in Nat /\ b \in Nat /\ Ramp \in Nat
  BY ScheduleAssumption DEF Ramp
<1>2. CASE ~scheduled \/ s <= StartStep
  <2>1. (b - a) * 0 = 0 BY <1>1
  <2> QED BY <1>1, <1>2, <2>1 DEF WeightAt, Climb
<1>3. CASE ~(~scheduled \/ s <= StartStep) /\ s >= EndStep
  <2>1. Ramp * b = Ramp * a + (b - a) * Ramp BY <1>1
  <2> QED BY <1>3, <2>1 DEF WeightAt, Climb
<1>4. CASE ~(~scheduled \/ s <= StartStep) /\ ~(s >= EndStep)
  BY <1>4 DEF WeightAt, Climb
<1> QED BY <1>2, <1>3, <1>4

\* The weight of any step is between the ends, and that of the next step
\* between it and the last one.
LEMMA WeightBetween ==
  ASSUME NEW kind \in Kinds, NEW s \in Nat
  PROVE  /\ Between(WeightAt(kind, s), Ramp * StartWeights[kind], Ramp * EndWeights[kind])
         /\ Between(WeightAt(kind, s + 1), WeightAt(kind, s), Ramp * EndWeights[kind])
<1> DEFINE from == Ramp * StartWeights[kind]
           d    == EndWeights[kind] - StartWeights[kind]
           x    == Climb(s)
           y    == Climb(s + 1)
<1>1. /\ from \in Int /\ d \in Int /\ Ramp \in Nat
      /\ x \in 0..Ramp /\ y \in 0..Ramp /\ x <= y
  <2>1. x \in 0..Ramp /\ y \in 0..Ramp BY ClimbMonotone
  <2>2. x <= y BY <2>1, ClimbMonotone
  <2>3. StartWeights[kind] \in Nat /\ EndWeights[kind] \in Nat /\ Ramp \in Nat
    BY ScheduleAssumption DEF Ramp
  <2> QED BY <2>1, <2>2, <2>3
<1>2. Ramp * EndWeights[kind] = from + d * Ramp
  BY ScheduleAssumption DEF Ramp
<1>3. WeightAt(kind, s) = from + d * x
  BY WeightClimbs
<1>4. WeightAt(kind, s + 1) = from + d * y
  BY WeightClimbs
<1> HIDE DEF from, d, x, y
<1>5. Between(from + d * x, from, from + d * Ramp)
  <2>0. 0 <= x /\ x <= Ramp /\ x \in Int /\ Ramp \in Int BY <1>1
  <2>1. Between(d * x, 0, d * Ramp) BY <1>1, <2>0, ProductBetween
  <2>2. d * x \in Int /\ d * Ramp \in Int BY <1>1
  <2> QED BY <1>1, <2>1, <2>2 DEF Between
<1>6. Between(from + d * y, from + d * x, from + d * Ramp)
  <2> DEFINE u == d * x
             v == d * (y - x)
             w == d * (Ramp - x)
  <2>0. /\ y - x \in Int /\ Ramp - x \in Int
        /\ 0 <= y - x /\ y - x <= Ramp - x
    BY <1>1
  <2>1. Between(v, 0, w) BY <1>1, <2>0, ProductBetween
  <2>2. u \in Int /\ v \in Int /\ w \in Int BY <1>1
  <2>3. d * y = u + v /\ d * Ramp = u + w BY <1>1
  <2> HIDE DEF u, v, w
  <2>4. Between(from + (u + v), from + u, from + (u + w))
    BY <1>1, <2>1, <2>2 DEF Between
  <2> QED BY <2>3, <2>4 DEF u
<1> QED BY <1>2, <1>3, <1>4, <1>5, <1>6 DEF from

\* Every step's weights lie on the ramp, whatever the ramp and its
\* weights (reward_weights_for_step).
THEOREM WeightsStayOnRamp == Spec => []WeightsOnRamp
<1>1. Init => step \in Nat
  BY ScheduleAssumption DEF Init
<1>2. step \in Nat /\ [Next]_vars => (step \in Nat)'
  BY DEF Next, ScoreGroup, BuildBatch, ComputeAdvantages, vars
<1>3. step \in Nat => WeightsOnRamp
  BY WeightBetween DEF WeightsOnRamp
<1> QED BY <1>1, <1>2, <1>3, PTL DEF Spec

(***************************************************************************)
(* The training rows.                                                      *)
(***************************************************************************)

\* A row is that of a reply under the rewards the group has.
RowsFromRewards ==
  /\ rows # {} => "online" \in done
  /\ \A row \in rows : \E reply \in DOMAIN online, shape \in Shapes :
       row = Row(reply, shape)

LEMMA RowsFromRewardsInit == Init => RowsFromRewards
BY DEF Init, RowsFromRewards

LEMMA RowsFromRewardsStep ==
  RowsFromRewards /\ [Next]_vars => RowsFromRewards'
<1> SUFFICES ASSUME RowsFromRewards, [Next]_vars PROVE RowsFromRewards'
  OBVIOUS
<1>1. CASE ScoreGroup
  BY <1>1 DEF ScoreGroup, RowsFromRewards
<1>2. CASE BuildBatch
  BY <1>2 DEF BuildBatch, RowsFromRewards, Row
<1>3. CASE ComputeAdvantages
  <2>1. PICK reply \in DOMAIN online, shape \in Shapes : rows' = {Row(reply, shape)}
    BY <1>3 DEF ComputeAdvantages
  <2>2. online' = online /\ done' = done /\ "online" \in done
    BY <1>3 DEF ComputeAdvantages
  <2>3. Row(reply, shape)' = Row(reply, shape)
    BY <2>2 DEF Row
  <2> QED BY <2>1, <2>2, <2>3 DEF RowsFromRewards
<1>4. CASE UNCHANGED vars
  BY <1>4 DEF vars, RowsFromRewards, Row
<1> QED BY <1>1, <1>2, <1>3, <1>4 DEF Next

\* The rolled mask of a position is the mask of the next token, and the last
\* position has none: the first token is a prompt token.
LEMMA RolledAligned ==
  ASSUME NEW shape \in Shapes, NEW p \in 1..Width
  PROVE  Rolled(LossMask(shape))[p] = (p + 1 \in Generated(shape))
<1>1. /\ Width \in Nat /\ shape.prompt \in Nat \ {0} /\ shape.reply \in Nat \ {0}
      /\ shape.prompt + shape.reply <= Width
  BY RowAssumption
<1>2. CASE p < Width
  <2>1. p % Width = p BY <1>1, <1>2
  <2> QED BY <1>1, <1>2, <2>1 DEF Rolled, LossMask
<1>3. CASE p = Width
  <2>1. p % Width = 0 BY <1>1, <1>3
  <2>2. 1 \notin Generated(shape) /\ p + 1 \notin Generated(shape)
    BY <1>1, <1>3 DEF Generated
  <2> QED BY <1>1, <1>3, <2>1, <2>2 DEF Rolled, LossMask
<1> QED BY <1>1, <1>2, <1>3

\* Every row of every width carries its reply's advantage exactly where its
\* tokens are predicted (role_advantage_tensor_data).
THEOREM RowsAligned == Spec => []LossSeesAdvantages
<1>1. RowsFromRewards => LossSeesAdvantages
  <2> SUFFICES ASSUME RowsFromRewards, NEW row \in rows, NEW p \in 1..Width
               PROVE  row.advantages[p] =
                        IF p + 1 \in Generated(row.shape) THEN online[row.reply] ELSE Zero
    BY DEF LossSeesAdvantages
  <2>1. PICK reply \in DOMAIN online, shape \in Shapes : row = Row(reply, shape)
    BY DEF RowsFromRewards
  <2>2. row.shape = shape /\ row.reply = reply
    BY <2>1 DEF Row
  <2>3. row.advantages[p] =
          IF Rolled(LossMask(shape))[p] THEN online[reply] ELSE Zero
    BY <2>1 DEF Row
  <2> QED BY <2>2, <2>3, RolledAligned
<1> QED BY <1>1, RowsFromRewardsInit, RowsFromRewardsStep, PTL DEF Spec

(***************************************************************************)
(* Sums are integers.  The sum of a function is defined by recursion over  *)
(* the subsets of its domain; of a finite one, the recursion has a         *)
(* solution, and every solution is made of integers.                       *)
(***************************************************************************)

LEMMA SmallestElement ==
  ASSUME NEW S \in SUBSET Nat, S # {}
  PROVE  \E m \in S : \A n \in S : m <= n
<1>1. PICK m \in S : \A n \in S : ~ (<<n, m>> \in OpToRel(<, Nat))
  BY NatLessThanWellFounded, WFMin
<1>2. \A n \in S : ~ (n < m)
  BY <1>1 DEF OpToRel
<1> QED BY <1>2

Picked(s) == CHOOSE x \in s : TRUE

SumStep(f, g, s) == IF s = {} THEN 0 ELSE f[Picked(s)] + g[s \ {Picked(s)}]

IsSum(f, S, g) == g = [s \in SUBSET S |-> SumStep(f, g, s)]

LEMMA SumIsSolution ==
  ASSUME NEW f
  PROVE  SumFunction(f) = (CHOOSE g : IsSum(f, DOMAIN f, g))[DOMAIN f]
BY DEF SumFunction, SumFunctionOnSet, FoldFunctionOnSet, MapThenFoldSet, IsSum, SumStep, Picked

UpTo(S, n) == {s \in SUBSET S : Cardinality(s) <= n}

\* The recursion, solved up to a size.
Solved(f, S, n) ==
  \E g \in [UpTo(S, n) -> Int] : \A s \in UpTo(S, n) : g[s] = SumStep(f, g, s)

\* What a step takes away leaves a smaller set.
LEMMA PickedLeavesLess ==
  ASSUME NEW S, IsFiniteSet(S), NEW s \in SUBSET S, s # {}
  PROVE  /\ Picked(s) \in S
         /\ s \ {Picked(s)} \in SUBSET S
         /\ Cardinality(s) \in Nat
         /\ Cardinality(s \ {Picked(s)}) = Cardinality(s) - 1
<1>1. Picked(s) \in s
  BY DEF Picked
<1>2. IsFiniteSet(s)
  BY FS_Subset
<1>3. Cardinality(s) \in Nat
  BY <1>2, FS_CardinalityType
<1>4. Cardinality(s \ {Picked(s)}) = Cardinality(s) - 1
  BY <1>1, <1>2, FS_RemoveElement
<1> QED BY <1>1, <1>3, <1>4

LEMMA SolvedNext ==
  ASSUME NEW S, IsFiniteSet(S), NEW f \in [S -> Int], NEW n \in Nat, Solved(f, S, n)
  PROVE  Solved(f, S, n + 1)
<1>1. PICK g \in [UpTo(S, n) -> Int] : \A s \in UpTo(S, n) : g[s] = SumStep(f, g, s)
  BY DEF Solved
<1> DEFINE h == [s \in UpTo(S, n + 1) |-> SumStep(f, g, s)]
<1>2. ASSUME NEW s \in UpTo(S, n + 1), s # {}
      PROVE  s \ {Picked(s)} \in UpTo(S, n) /\ Picked(s) \in S
  BY <1>2, PickedLeavesLess DEF UpTo
<1>3. UpTo(S, n) \subseteq UpTo(S, n + 1)
  <2> SUFFICES ASSUME NEW s \in UpTo(S, n) PROVE Cardinality(s) <= n + 1
    BY DEF UpTo
  <2>1. Cardinality(s) \in Nat /\ Cardinality(s) <= n
    BY FS_Subset, FS_CardinalityType DEF UpTo
  <2> QED BY <2>1
<1>4. h \in [UpTo(S, n + 1) -> Int]
  <2> SUFFICES ASSUME NEW s \in UpTo(S, n + 1) PROVE SumStep(f, g, s) \in Int
    OBVIOUS
  <2> QED BY <1>2 DEF SumStep
<1>5. ASSUME NEW s \in UpTo(S, n + 1)
      PROVE  h[s] = SumStep(f, h, s)
  <2>1. CASE s = {}
    BY <2>1 DEF SumStep
  <2>2. CASE s # {}
    <3> DEFINE r == s \ {Picked(s)}
    <3>1. r \in UpTo(S, n) /\ r \in UpTo(S, n + 1)
      BY <1>2, <1>3, <2>2
    <3>2. h[r] = g[r]
      BY <1>1, <3>1
    <3> QED BY <2>2, <3>2 DEF SumStep
  <2> QED BY <2>1, <2>2
<1> HIDE DEF h
<1> QED BY <1>4, <1>5 DEF Solved

LEMMA AlwaysSolved ==
  ASSUME NEW S, IsFiniteSet(S), NEW f \in [S -> Int], NEW n \in Nat
  PROVE  Solved(f, S, n)
<1> DEFINE Unsolved == {k \in Nat : ~Solved(f, S, k)}
<1> SUFFICES ASSUME Unsolved # {} PROVE FALSE
  OBVIOUS
<1>1. PICK m \in Unsolved : \A k \in Unsolved : m <= k
  <2> HIDE DEF Unsolved
  <2>1. Unsolved \in SUBSET Nat
    BY DEF Unsolved
  <2> QED BY <2>1, SmallestElement
<1>2. CASE m = 0
  <2> DEFINE g == [s \in UpTo(S, 0) |-> 0]
  <2>1. \A s \in UpTo(S, 0) : s = {}
    BY FS_Subset, FS_CardinalityType, FS_EmptySet DEF UpTo
  <2>2. g \in [UpTo(S, 0) -> Int] /\ \A s \in UpTo(S, 0) : g[s] = SumStep(f, g, s)
    BY <2>1 DEF SumStep
  <2>3. Solved(f, S, 0)
    <3> HIDE DEF g
    <3> QED BY <2>2 DEF Solved
  <2> QED BY <1>1, <1>2, <2>3
<1>3. CASE m # 0
  <2>1. m - 1 \in Nat /\ Solved(f, S, m - 1)
    BY <1>1, <1>3
  <2>2. Solved(f, S, (m - 1) + 1)
    BY <2>1, SolvedNext
  <2>3. (m - 1) + 1 = m
    BY <1>1
  <2> QED BY <1>1, <2>2, <2>3
<1> QED BY <1>2, <1>3

\* The sum of finitely many integers is an integer.
LEMMA SumIsInteger ==
  ASSUME NEW S, IsFiniteSet(S), NEW f \in [S -> Int]
  PROVE  SumFunction(f) \in Int
<1>1. \E g : IsSum(f, S, g)
  <2>1. PICK g \in [UpTo(S, Cardinality(S)) -> Int] :
          \A s \in UpTo(S, Cardinality(S)) : g[s] = SumStep(f, g, s)
    BY AlwaysSolved, FS_CardinalityType DEF Solved
  <2>2. UpTo(S, Cardinality(S)) = SUBSET S
    BY FS_Subset DEF UpTo
  <2>3. g = [s \in SUBSET S |-> SumStep(f, g, s)]
    BY <2>1, <2>2
  <2> QED BY <2>3 DEF IsSum
<1>2. ASSUME NEW g, IsSum(f, S, g)
      PROVE  g[S] \in Int
  <2> DEFINE Off == {s \in SUBSET S : g[s] \notin Int}
             Sizes == {Cardinality(s) : s \in Off}
  <2>0. \A s \in SUBSET S : g[s] = SumStep(f, g, s)
    <3>1. g = [s \in SUBSET S |-> SumStep(f, g, s)]
      BY <1>2 DEF IsSum
    <3> QED BY <3>1
  <2> SUFFICES ASSUME Off # {} PROVE FALSE
    OBVIOUS
  <2>1. Sizes \in SUBSET Nat /\ Sizes # {}
    BY FS_Subset, FS_CardinalityType
  <2>2. PICK m \in Sizes : \A k \in Sizes : m <= k
    <3> HIDE DEF Sizes
    <3> QED BY <2>1, SmallestElement
  <2>3. PICK s \in Off : Cardinality(s) = m
    BY <2>2
  <2>4. s \in SUBSET S /\ g[s] \notin Int
    BY <2>3
  <2>5. s # {}
    <3>1. SumStep(f, g, s) \notin Int
      BY <2>0, <2>4
    <3>2. SumStep(f, g, {}) = 0
      BY DEF SumStep
    <3> QED BY <3>1, <3>2
  <2> DEFINE r == s \ {Picked(s)}
  <2>6. /\ r \in SUBSET S /\ Picked(s) \in S
        /\ Cardinality(s) \in Nat /\ Cardinality(r) = Cardinality(s) - 1
    BY <2>4, <2>5, PickedLeavesLess
  <2>7. g[r] \in Int
    <3>1. SUFFICES ASSUME g[r] \notin Int PROVE FALSE
      OBVIOUS
    <3>2. Cardinality(r) \in Sizes
      BY <3>1, <2>6
    <3>3. m <= Cardinality(r)
      BY <2>2, <3>2
    <3> QED BY <2>3, <2>6, <3>3
  <2>8. g[s] = f[Picked(s)] + g[r]
    BY <2>0, <2>4, <2>5 DEF SumStep
  <2> QED BY <2>6, <2>7, <2>8, <2>4
<1>3. DOMAIN f = S
  OBVIOUS
<1> QED BY <1>1, <1>2, <1>3, SumIsSolution

(***************************************************************************)
(* What each path makes of the group.                                      *)
(***************************************************************************)

OnlineResult ==
  IF Normalizable THEN [r \in Replies |-> OnlineAdvantage(r[1], r[2], r[3])] ELSE Nothing

OfflineResult ==
  IF Aggregated /\ Covered(Eligible) /\ Cardinality(Eligible) >= MinGroupSize
  THEN [r \in {r \in Replies : r[1] \in Eligible} |-> RoleAdvantage(Eligible, r[1], r[2])]
  ELSE Nothing

\* The group, its step and the schedule never change, and each path writes its
\* result once.
PathsInv ==
  /\ group \in Groups
  /\ step \in Nat
  /\ online = IF "online" \in done THEN OnlineResult ELSE Nothing
  /\ offline = IF "offline" \in done THEN OfflineResult ELSE Nothing

LEMMA ResultsStay ==
  ASSUME UNCHANGED <<group, step, scheduled>>
  PROVE  OnlineResult' = OnlineResult /\ OfflineResult' = OfflineResult
<1>1. Normalizable' = Normalizable /\ Replies' = Replies
  BY DEF Normalizable, Trajectories, Roles, GroupRoles, Scored, Replies, RepliesOf
<1>2. \A t, c : Value(t, c)' = Value(t, c)
  BY DEF Value, WeightAt
<1>3. \A T, t, c : RoleAdvantage(T, t, c)' = RoleAdvantage(T, t, c)
  BY <1>2 DEF RoleAdvantage
<1>4. Trajectories' = Trajectories /\ Eligible' = Eligible /\ Aggregated' = Aggregated
  BY DEF Trajectories, Eligible, Aggregated, Scored, Roles
<1>5. \A t, c, i : OnlineAdvantage(t, c, i)' = OnlineAdvantage(t, c, i)
  BY <1>3, <1>4 DEF OnlineAdvantage
<1>6. Covered(Eligible)' = Covered(Eligible)
  BY <1>4 DEF Covered, Roles
<1>7. OnlineResult' = OnlineResult
  BY <1>1, <1>5 DEF OnlineResult
<1>8. OfflineResult' = OfflineResult
  BY <1>1, <1>3, <1>4, <1>6 DEF OfflineResult
<1> QED BY <1>7, <1>8

LEMMA PathsInvInit == Init => PathsInv
BY ScheduleAssumption DEF Init, PathsInv

LEMMA PathsInvStep == PathsInv /\ [Next]_vars => PathsInv'
<1> SUFFICES ASSUME PathsInv, [Next]_vars PROVE PathsInv'
  OBVIOUS
<1>1. UNCHANGED <<group, step, scheduled>>
  BY DEF Next, ScoreGroup, BuildBatch, ComputeAdvantages, vars
<1>2. OnlineResult' = OnlineResult /\ OfflineResult' = OfflineResult
  BY <1>1, ResultsStay
<1>3. CASE ScoreGroup
  <2>1. online' = OnlineResult /\ offline' = offline /\ done' = done \cup {"online"}
    BY <1>3 DEF ScoreGroup, OnlineResult
  <2> QED BY <1>1, <1>2, <2>1 DEF PathsInv
<1>4. CASE BuildBatch
  <2>1. offline' = OfflineResult /\ online' = online /\ done' = done \cup {"offline"}
    BY <1>4 DEF BuildBatch, OfflineResult
  <2> QED BY <1>1, <1>2, <2>1 DEF PathsInv
<1>5. CASE ComputeAdvantages
  BY <1>1, <1>2, <1>5 DEF ComputeAdvantages, PathsInv
<1>6. CASE UNCHANGED vars
  BY <1>1, <1>2, <1>6 DEF vars, PathsInv
<1> QED BY <1>3, <1>4, <1>5, <1>6 DEF Next

\* Of a complete group both paths ask the same: every trajectory has the same
\* roles, at least one, and all of its rewards.
LEMMA CompleteGroupsAgree ==
  ASSUME \A t \in Trajectories : group.complete[t]
  PROVE  /\ Eligible = Trajectories
         /\ Normalizable <=> /\ Aggregated /\ Covered(Eligible)
                             /\ Cardinality(Eligible) >= MinGroupSize
<1>1. Eligible = Trajectories
  BY DEF Eligible
<1>2. ASSUME \A t, u \in Trajectories : Roles(t) = Roles(u)
      PROVE  \A t \in Trajectories : Roles(t) = GroupRoles
  BY <1>2 DEF GroupRoles
<1>3. Covered(Trajectories)
        <=> \A t \in Trajectories : Roles(t) # {} /\ Roles(t) = GroupRoles
  BY <1>2 DEF Covered
<1> QED BY <1>1, <1>3 DEF Normalizable, Aggregated

\* The two implementations of role advantages agree on every group: without
\* the gate they give the same replies the same advantages and leave the same
\* groups out (grpo.py, proxy/normalization.py).
THEOREM ImplementationsAgree == Spec => []PathsAgree
<1>1. ASSUME PathsInv, done = {"online", "offline"}, ~group.gated
      PROVE  online = offline
  <2>1. online = OnlineResult /\ offline = OfflineResult
    BY <1>1 DEF PathsInv
  <2>2. CASE \A t \in Trajectories : group.complete[t]
    <3>1. {r \in Replies : r[1] \in Trajectories} = Replies
      BY DEF Replies, RepliesOf
    <3>2. \A r \in Replies :
            OnlineAdvantage(r[1], r[2], r[3]) = RoleAdvantage(Trajectories, r[1], r[2])
      BY <1>1 DEF OnlineAdvantage
    <3> QED BY <2>1, <2>2, <3>1, <3>2, CompleteGroupsAgree DEF OnlineResult, OfflineResult
  <2>3. CASE \E t \in Trajectories : ~group.complete[t]
    <3>1. ~Normalizable /\ Eligible = {}
      BY <2>3 DEF Normalizable, Eligible
    <3>2. ~(Cardinality(Eligible) >= MinGroupSize)
      BY <3>1, FS_EmptySet, GateAssumption
    <3> QED BY <2>1, <3>1, <3>2 DEF OnlineResult, OfflineResult
  <2> QED BY <2>2, <2>3
<1>2. PathsInv => PathsAgree
  BY <1>1 DEF PathsAgree
<1> QED BY <1>2, PathsInvInit, PathsInvStep, PTL DEF Spec

(***************************************************************************)
(* The gate, of every group that is scored.                                *)
(***************************************************************************)

LEMMA WeightIsInteger ==
  ASSUME NEW kind \in Kinds, step \in Nat
  PROVE  WeightAt(kind, step) \in Int
<1> DEFINE c == Climb(step)
           a == StartWeights[kind]
           b == EndWeights[kind]
<1>1. WeightAt(kind, step) = Ramp * a + (b - a) * c
  BY WeightClimbs
<1>2. a \in Int /\ b \in Int /\ Ramp \in Int /\ c \in Int
  BY ClimbMonotone, ScheduleAssumption DEF Ramp
<1> HIDE DEF a, b, c
<1> QED BY <1>1, <1>2

\* In a scored group every role of the group has integer replies everywhere.
LEMMA ScoredRole ==
  ASSUME PathsInv, Normalizable, NEW t \in Trajectories, NEW c \in GroupRoles
  PROVE  /\ c \in Character
         /\ group.reply[t][c] \in Seq(Int) /\ group.reply[t][c] # <<>>
         /\ group.task[t][c] \in Int
<1>1. c \in Roles(t) /\ Scored(t)
  BY DEF Normalizable
<1>2. /\ c \in Character /\ group.reply[t][c] # <<>>
      /\ group.task[t][c] # Invalid
      /\ \A i \in DOMAIN group.reply[t][c] : group.reply[t][c][i] # Invalid
  BY <1>1 DEF Roles, Scored
<1>3. /\ group.reply[t][c] \in Seq(Int \cup {Invalid})
      /\ group.task[t][c] \in Int \cup {Invalid}
  BY <1>2, GroupsAssumption DEF PathsInv, GroupsAssumption, Trajectories
<1> DEFINE replies == group.reply[t][c]
<1>4. replies \in Seq(Int)
  <2> HIDE DEF replies
  <2>1. /\ replies \in Seq(Int \cup {Invalid})
        /\ \A i \in DOMAIN replies : replies[i] # Invalid
    BY <1>2, <1>3 DEF replies
  <2>2. \A i \in 1..Len(replies) : replies[i] \in Int
    BY <2>1
  <2> QED BY <2>1, <2>2
<1> QED BY <1>2, <1>3, <1>4

LEMMA ValueIsInteger ==
  ASSUME PathsInv, Normalizable, NEW t \in Trajectories, NEW c \in GroupRoles
  PROVE  Value(t, c) \in Int
<1> DEFINE replies == group.reply[t][c]
           sum == SumFunction(replies)
           n == Len(replies)
           x == group.task[t][c]
           w == WeightAt("completion", step)
           v == WeightAt("global", step)
<1>1. replies \in Seq(Int) /\ x \in Int
  BY ScoredRole
<1>2. n \in Int /\ replies \in [1..n -> Int]
  BY <1>1
<1>3. sum \in Int
  <2> HIDE DEF replies
  <2>1. IsFiniteSet(1..n)
    BY <1>2, FS_Interval
  <2> QED BY <1>2, <2>1, SumIsInteger
<1>4. w \in Int /\ v \in Int
  BY WeightIsInteger DEF PathsInv, Kinds
<1>5. Value(t, c) = w * sum + v * n * x
  BY DEF Value
<1> HIDE DEF replies, sum, n, x, w, v
<1> QED BY <1>1, <1>2, <1>3, <1>4, <1>5

LEMMA DeviationIsInteger ==
  ASSUME PathsInv, Normalizable, NEW t \in Trajectories, NEW c \in GroupRoles
  PROVE  RoleAdvantage(Trajectories, t, c).dev \in Int
<1> DEFINE value == [u \in Trajectories |-> Value(u, c)]
<1>1. IsFiniteSet(Trajectories)
  BY GroupsAssumption DEF PathsInv, GroupsAssumption, Trajectories
<1>2. value \in [Trajectories -> Int]
  BY ValueIsInteger
<1>3. RoleAdvantage(Trajectories, t, c) = Normalized(value)[t]
  BY DEF RoleAdvantage
<1> HIDE DEF value
<1>4. DOMAIN value = Trajectories /\ value[t] \in Int
  BY <1>2
<1>5. SumFunction(value) \in Int /\ Cardinality(Trajectories) \in Int
  BY <1>1, <1>2, SumIsInteger, FS_CardinalityType
<1> DEFINE dev == [u \in DOMAIN value |->
                     Cardinality(DOMAIN value) * value[u] - SumFunction(value)]
           spread == SumFunction([u \in DOMAIN value |-> dev[u] * dev[u]])
<1>6. dev[t] \in Int
  BY <1>4, <1>5
<1>7. Normalized(value)[t] = IF spread = 0 THEN Zero ELSE [dev |-> dev[t], spread |-> spread]
  BY <1>4 DEF Normalized
<1> HIDE DEF dev, spread
<1> QED BY <1>3, <1>6, <1>7 DEF Zero

\* The gate never silences a bad trajectory: of every group that is scored, in
\* a trajectory below the mean of a role some reply keeps its full negative
\* advantage (normalization.py, bad_majority).
THEOREM GateKeepsBadTrajectories == Spec => []BadTrajectoryTrains
<1>1. ASSUME PathsInv, online # Nothing, NEW t \in Trajectories, NEW c \in GroupRoles,
             RoleAdvantage(Trajectories, t, c).dev < 0
      PROVE  \E r \in RepliesOf(t, c) : online[r] = RoleAdvantage(Trajectories, t, c)
  <2> DEFINE adv == RoleAdvantage(Trajectories, t, c)
             replies == group.reply[t][c]
  <2>1. Normalizable /\ online = [r \in Replies |-> OnlineAdvantage(r[1], r[2], r[3])]
    BY <1>1 DEF PathsInv, OnlineResult
  <2>2. c \in Character /\ replies \in Seq(Int) /\ replies # <<>>
    BY <1>1, <2>1, ScoredRole
  <2>3. adv.dev \in Int
    BY <1>1, <2>1, DeviationIsInteger
  <2>4. \A i \in DOMAIN replies :
          <<t, c, i>> \in RepliesOf(t, c) /\ online[<<t, c, i>>] = OnlineAdvantage(t, c, i)
    <3> SUFFICES ASSUME NEW i \in DOMAIN replies
                 PROVE  /\ <<t, c, i>> \in RepliesOf(t, c)
                        /\ online[<<t, c, i>>] = OnlineAdvantage(t, c, i)
      OBVIOUS
    <3>1. <<t, c, i>> \in RepliesOf(t, c)
      BY DEF RepliesOf
    <3>2. <<t, c, i>> \in Replies
      BY <2>2, <3>1 DEF Replies
    <3> QED BY <2>1, <3>1, <3>2
  <2>5. \E i \in DOMAIN replies : OnlineAdvantage(t, c, i) = adv
    <3>1. CASE group.gated
      <4>1. PICK i \in DOMAIN replies : Gated(adv, replies, i) = adv
        <5> HIDE DEF adv, replies
        <5> QED BY <1>1, <2>2, <2>3, BadTrajectoryKeepsReply DEF adv
      <4> QED BY <3>1, <4>1 DEF OnlineAdvantage
    <3>2. CASE ~group.gated
      <4>1. 1 \in DOMAIN replies
        <5> HIDE DEF replies
        <5> QED BY <2>2
      <4> QED BY <3>2, <4>1 DEF OnlineAdvantage
    <3> QED BY <3>1, <3>2
  <2> QED BY <2>4, <2>5
<1>2. PathsInv => BadTrajectoryTrains
  BY <1>1 DEF BadTrajectoryTrains
<1> QED BY <1>2, PathsInvInit, PathsInvStep, PTL DEF Spec
=============================================================================
