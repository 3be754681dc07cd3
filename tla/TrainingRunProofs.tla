------------------------- MODULE TrainingRunProofs -------------------------
(***************************************************************************)
(* Theorems of TrainingRun: for every set of files, every place of the     *)
(* recovery checkpoints and every number of crashes, the trainer that      *)
(* runs fits together, the steps behind the weights are in order, and the  *)
(* order of the second epoch is mixed.                                     *)
(***************************************************************************)
EXTENDS TrainingRun, SequenceTheorems, FiniteSetTheorems, NaturalsInduction,
        WellFoundedInduction, TLAPS

(***************************************************************************)
(* The inductive invariant.  A history is known from its length: whatever  *)
(* crashed, each step is the one that its place calls for.                 *)
(***************************************************************************)

StepAt(d, i) ==
  [record  |-> IF i <= Len(d) THEN i ELSE Reordered(d)[i - Len(d)],
   weights |-> i - 1]

InOrder(d, h) ==
  /\ Len(h) \in Nat
  /\ h = [i \in 1..Len(h) |-> StepAt(d, i)]

Running == stage \in {"training", "saving"}

StagesInv ==
  /\ setup \in Setups
  /\ stage \in {"down", "training", "saving", "refused", "over"}
  /\ epoch \in {1, 2}

HistoryInv ==
  /\ InOrder(setup.easy, history)
  /\ Running => cursor = Len(history) % Size

SavedInv ==
  /\ InOrder(setup.easy, saved.history)
  /\ saved.cursor = Len(saved.history) % Size

\* The files of a running trainer were accepted, and none is left of another.
TrainerInv ==
  /\ Running => trainer = TrainerOf(epoch) /\ Accepted(epoch)
  /\ ~Running => trainer = Absent

\* A running epoch is not past its end, the second one past the first; an agent
\* without a schedule counts along with the version.
ProgressInv ==
  Running =>
    /\ epoch = 1 => Len(history) <= Size
    /\ epoch = 2 => Len(history) >= Size
    /\ ~trainer.scheduled => local = Len(history)

TrainingInv == StagesInv /\ HistoryInv /\ SavedInv /\ TrainerInv /\ ProgressInv

(***************************************************************************)
(* Arithmetic of the data loader's place.                                  *)
(***************************************************************************)

LEMMA RemainderSmall ==
  ASSUME NEW n \in Nat, NEW m \in Nat \ {0}, n < m
  PROVE  n % m = n
OBVIOUS

LEMMA RemainderPastOne ==
  ASSUME NEW n \in Nat, NEW m \in Nat \ {0}, m <= n, n < 2 * m
  PROVE  n % m = n - m
OBVIOUS

LEMMA RemainderOfTwice ==
  ASSUME NEW m \in Nat \ {0}
  PROVE  m % m = 0 /\ (2 * m) % m = 0
OBVIOUS

LEMMA RemainderStep ==
  ASSUME NEW n \in Nat, NEW m \in Nat \ {0}, n < 2 * m
  PROVE  ((n % m) + 1) % m = (n + 1) % m
<1>1. CASE n + 1 < m
  BY <1>1, RemainderSmall
<1>2. CASE n + 1 = m
  BY <1>2, RemainderSmall
<1>3. CASE m <= n /\ n + 1 < 2 * m
  <2> DEFINE o == n + 1
  <2>4. o \in Nat /\ m <= o /\ o < 2 * m
    BY <1>3
  <2>5. o % m = o - m
    <3> HIDE DEF o
    <3> QED BY <2>4, RemainderPastOne
  <2>6. n % m = n - m
    BY <1>3, RemainderPastOne
  <2>1. n % m = n - m /\ (n + 1) % m = n + 1 - m
    BY <2>5, <2>6
  <2>2. (n - m + 1) % m = n - m + 1
    BY <1>3, RemainderSmall
  <2>3. ((n % m) + 1) % m = (n - m + 1) % m
    BY <2>1, Zenon
  <2> QED BY <2>1, <2>2, <2>3
<1>4. CASE n + 1 = 2 * m
  <2>5. m <= n
    BY <1>4
  <2>1. n % m = n - m
    BY <2>5, RemainderPastOne
  <2>2. n - m + 1 = m
    BY <1>4
  <2>3. ((n % m) + 1) % m = m % m
    BY <2>1, <2>2, Zenon
  <2>4. (n + 1) % m = (2 * m) % m
    BY <1>4, Zenon
  <2> QED BY <2>3, <2>4, RemainderOfTwice
<1> QED BY <1>1, <1>2, <1>3, <1>4

(***************************************************************************)
(* Histories.                                                              *)
(***************************************************************************)

LEMMA SizePositive ==
  ASSUME setup \in Setups
  PROVE  Size \in Nat \ {0}
BY TrainingAssumption DEF TrainingAssumption, Size

LEMMA EmptyInOrder ==
  ASSUME NEW d
  PROVE  InOrder(d, <<>>) /\ Len(<<>>) = 0
BY DEF InOrder

LEMMA AppendInOrder ==
  ASSUME NEW d, NEW h, InOrder(d, h)
  PROVE  LET g == Append(h, StepAt(d, Len(h) + 1)) IN
         InOrder(d, g) /\ Len(g) = Len(h) + 1
<1> DEFINE n == Len(h)
           x == StepAt(d, n + 1)
           S == {StepAt(d, i) : i \in 1..n + 1}
           g == Append(h, x)
<1>1. n \in Nat /\ h = [i \in 1..n |-> StepAt(d, i)]
  BY DEF InOrder
<1>2. h \in Seq(S) /\ x \in S
  <2> HIDE DEF x
  <2>1. h \in [1..n -> S]
    BY <1>1
  <2>2. x \in S
    BY <1>1 DEF x
  <2> QED BY <1>1, <2>1, <2>2
<1>3. Len(g) = n + 1 /\ \A i \in 1..n + 1 : g[i] = IF i <= n THEN h[i] ELSE x
  <2> HIDE DEF S, x
  <2> QED BY <1>2
<1>4. g \in [1..n + 1 -> S]
  <2> HIDE DEF S, x
  <2>1. g \in Seq(S)
    BY <1>2
  <2> HIDE DEF g
  <2> QED BY <1>1, <1>3, <2>1
<1>5. \A i \in 1..n + 1 : g[i] = StepAt(d, i)
  <2> HIDE DEF g
  <2> QED BY <1>1, <1>3
<1>6. g = [i \in 1..n + 1 |-> StepAt(d, i)]
  <2> HIDE DEF g, S
  <2> QED BY <1>4, <1>5
<1> QED BY <1>1, <1>3, <1>6 DEF InOrder

\* What the trainer does next is the step whose turn it is.
LEMMA NextStepInOrder ==
  ASSUME TrainingInv, stage = "training", Len(history) < epoch * Size
  PROVE  [record |-> Dataset(epoch)[cursor + 1], weights |-> WeightStep]
           = StepAt(setup.easy, Len(history) + 1)
<1> DEFINE n == Len(history)
<1>1. /\ n \in Nat /\ Size \in Nat \ {0} /\ epoch \in {1, 2}
      /\ cursor = n % Size
      /\ epoch = 1 => n <= Size
      /\ epoch = 2 => n >= Size
      /\ ~trainer.scheduled => local = n
  BY SizePositive
  DEF TrainingInv, StagesInv, HistoryInv, ProgressInv, Running, InOrder
<1>2. WeightStep = n
  BY <1>1 DEF WeightStep, Version
<1>3. StepAt(setup.easy, n + 1)
        = [record  |-> IF n + 1 <= Size THEN n + 1 ELSE Reordered(setup.easy)[n + 1 - Size],
           weights |-> n]
  <2>1. (n + 1) - 1 = n
    BY <1>1
  <2> QED BY <2>1 DEF StepAt, Size
<1>4. CASE epoch = 1
  <2>1. n < Size
    BY <1>1, <1>4
  <2>2. cursor = n
    BY <1>1, <2>1, RemainderSmall
  <2>3. Dataset(epoch)[cursor + 1] = n + 1
    BY <1>1, <1>4, <2>1, <2>2 DEF Dataset
  <2>4. n + 1 <= Size
    BY <1>1, <2>1
  <2> QED BY <1>2, <1>3, <2>3, <2>4, Zenon
<1>5. CASE epoch = 2
  <2>1. Size <= n /\ n < 2 * Size
    BY <1>1, <1>5
  <2>2. cursor = n - Size
    BY <1>1, <2>1, RemainderPastOne
  <2>3. Dataset(epoch)[cursor + 1] = Reordered(setup.easy)[n + 1 - Size]
    <3>1. cursor + 1 = n + 1 - Size
      BY <1>1, <2>2
    <3> QED BY <1>5, <3>1 DEF Dataset
  <2>4. ~(n + 1 <= Size)
    BY <1>1, <2>1
  <2> QED BY <1>2, <1>3, <2>3, <2>4, Zenon
<1> QED BY <1>1, <1>4, <1>5

(***************************************************************************)
(* The invariant.                                                          *)
(***************************************************************************)

LEMMA InitTraining == Init => TrainingInv
<1> SUFFICES ASSUME Init PROVE TrainingInv
  OBVIOUS
<1> USE DEF Init
<1>1. StagesInv /\ TrainerInv /\ ProgressInv
  BY DEF StagesInv, TrainerInv, ProgressInv, Running
<1>2. Size \in Nat \ {0}
  BY SizePositive
<1>3. HistoryInv
  BY EmptyInOrder DEF HistoryInv, Running
<1>4. SavedInv
  <2>1. 0 % Size = 0
    BY <1>2, RemainderSmall
  <2> QED BY <2>1, EmptyInOrder DEF SavedInv
<1> QED BY <1>1, <1>3, <1>4 DEF TrainingInv

LEMMA LaunchKeeps ==
  ASSUME TrainingInv, NEW e \in {1, 2}, Launch(e)
  PROVE  TrainingInv'
<1> USE DEF Launch
<1> USE DEF TrainingInv
<1>1. Size \in Nat \ {0} /\ Len(saved.history) \in Nat
  BY SizePositive DEF StagesInv, SavedInv, InOrder
<1>2. StagesInv'
  BY DEF StagesInv
<1>3. SavedInv'
  BY DEF SavedInv, Size
<1>4. CASE Accepted(e)
  <2>1. /\ stage' = "training" /\ trainer' = TrainerOf(e)
        /\ history' = saved.history /\ cursor' = saved.cursor
        /\ local' = StartStep(saved)
    BY <1>4
  <2>2. HistoryInv'
    BY <2>1 DEF HistoryInv, SavedInv, Size
  <2>3. TrainerInv'
    BY <1>4, <2>1
    DEF TrainerInv, Running, TrainerOf, Accepted, ConfigValid, YamlAgrees, EnvironmentAgrees
  <2>4. ProgressInv'
    BY <1>1, <2>1 DEF ProgressInv, MayLaunch, StartStep, Size
  <2> QED BY <1>2, <1>3, <2>2, <2>3, <2>4
<1>5. CASE ~Accepted(e)
  <2>1. stage' = "refused" /\ UNCHANGED <<trainer, history, cursor, local>>
    BY <1>5
  <2>2. HistoryInv' /\ TrainerInv' /\ ProgressInv'
    BY <2>1 DEF HistoryInv, TrainerInv, ProgressInv, Running
  <2> QED BY <1>2, <1>3, <2>2
<1> QED BY <1>4, <1>5

LEMMA TrainStepKeeps ==
  ASSUME TrainingInv, TrainStep
  PROVE  TrainingInv'
<1> USE DEF TrainStep
<1>1. /\ Size \in Nat \ {0} /\ Len(history) \in Nat /\ epoch \in {1, 2}
      /\ Size' = Size /\ stage = "training" /\ stage' \in {"training", "saving"}
  BY SizePositive DEF TrainingInv, StagesInv, HistoryInv, InOrder, Size
<1>2. history' = Append(history, StepAt(setup.easy, Len(history) + 1))
  BY NextStepInOrder
<1>3. InOrder(setup.easy, history)' /\ Len(history') = Len(history) + 1
  BY <1>2, AppendInOrder DEF TrainingInv, HistoryInv
<1>4. StagesInv'
  BY <1>1 DEF TrainingInv, StagesInv
<1>5. HistoryInv'
  <2>1. cursor' = ((Len(history) % Size) + 1) % Size
    BY <1>1 DEF TrainingInv, HistoryInv, Running
  <2>2. Len(history) < 2 * Size
    BY <1>1
  <2>3. cursor' = (Len(history) + 1) % Size
    BY <1>1, <2>1, <2>2, RemainderStep
  <2> QED BY <1>1, <1>3, <2>3 DEF HistoryInv
<1>6. SavedInv'
  BY DEF TrainingInv, SavedInv, Size
<1>7. TrainerInv'
  BY <1>1
  DEF TrainingInv, TrainerInv, Running, TrainerOf, Accepted, ConfigValid, YamlAgrees,
      EnvironmentAgrees
<1>8. ProgressInv'
  BY <1>1, <1>3 DEF TrainingInv, ProgressInv, Running
<1> QED BY <1>4, <1>5, <1>6, <1>7, <1>8 DEF TrainingInv

LEMMA SaveKeeps ==
  ASSUME TrainingInv, Save
  PROVE  TrainingInv'
<1> USE DEF Save
<1>1. StagesInv' /\ ProgressInv'
  BY DEF TrainingInv, StagesInv, ProgressInv, Running, Size
<1>2. HistoryInv' /\ SavedInv'
  BY DEF TrainingInv, HistoryInv, SavedInv, Running, Size
<1>3. TrainerInv'
  BY DEF TrainingInv, TrainerInv, Running, TrainerOf, Accepted, ConfigValid, YamlAgrees,
      EnvironmentAgrees
<1> QED BY <1>1, <1>2, <1>3 DEF TrainingInv

\* Whatever ends the trainer leaves the checkpoint and no trainer behind.
LEMMA EndKeeps ==
  ASSUME TrainingInv, stage' \in {"down", "over"}, trainer' = Absent,
         UNCHANGED <<setup, epoch, history, saved>>
  PROVE  TrainingInv'
BY DEF TrainingInv, StagesInv, HistoryInv, SavedInv, TrainerInv, ProgressInv, Running, Size

LEMMA NextKeepsTraining == TrainingInv /\ [Next]_vars => TrainingInv'
<1> SUFFICES ASSUME TrainingInv, [Next]_vars PROVE TrainingInv'
  OBVIOUS
<1>1. CASE \E e \in {1, 2} : Launch(e)
  BY <1>1, LaunchKeeps
<1>2. CASE TrainStep
  BY <1>2, TrainStepKeeps
<1>3. CASE Save
  BY <1>3, SaveKeeps
<1>4. CASE Finish
  BY <1>4, EndKeeps DEF Finish
<1>5. CASE Crash
  BY <1>5, EndKeeps DEF Crash
<1>6. CASE UNCHANGED vars
  BY <1>6
  DEF vars, TrainingInv, StagesInv, HistoryInv, SavedInv, TrainerInv, ProgressInv, Running, Size,
      TrainerOf, Accepted, ConfigValid, YamlAgrees, EnvironmentAgrees
<1> QED BY <1>1, <1>2, <1>3, <1>4, <1>5, <1>6 DEF Next, Stopped

\* The invariant holds of every run: every launch, crash and resumption keeps
\* the history, the checkpoint, the place in the data and the trainer together.
THEOREM TrainingInvariant == Spec => []TrainingInv
BY InitTraining, NextKeepsTraining, PTL DEF Spec

\* Whatever crashed, each step behind the weights is on the record whose turn
\* it was, in the order of its epoch, and at the weights of its own step: the
\* data loader's place, the agent's schedule and the version are restored
\* together (scripts/build_epoch2_dataset.py, proxy/agent.py, runtime/trainer.py).
THEOREM StepsAreInOrder == Spec => []StepsInOrder
<1>1. TrainingInv => StepsInOrder
  <2> SUFFICES ASSUME TrainingInv, NEW i \in DOMAIN history
               PROVE  /\ history[i].record = (IF i <= Size THEN Dataset(1)[i] ELSE Dataset(2)[i - Size])
                      /\ history[i].weights = i - 1
    BY DEF StepsInOrder
  <2>1. /\ i \in 1..Len(history) /\ Len(history) \in Nat /\ Size \in Nat \ {0}
        /\ history[i] = StepAt(setup.easy, i)
    BY SizePositive DEF TrainingInv, StagesInv, HistoryInv, InOrder
  <2>2. history[i].weights = i - 1
    BY <2>1 DEF StepAt
  <2>3. CASE i <= Size
    BY <2>1, <2>3 DEF StepAt, Dataset, Size
  <2>4. CASE ~(i <= Size)
    BY <2>1, <2>4 DEF StepAt, Dataset, Size
  <2> QED BY <2>2, <2>3, <2>4
<1> QED BY <1>1, TrainingInvariant, PTL

\* Files that a launch accepts make a trainer whose parts agree.
LEMMA AcceptedFits ==
  ASSUME Accepted(epoch), trainer = TrainerOf(epoch)
  PROVE  TrainerFits
<1> DEFINE c == setup.config[epoch]
           y == setup.yaml[epoch]
           a == setup.adapter[c.adapter]
<1>1. ConfigValid(c) /\ YamlAgrees(c, y) /\ AdapterAgrees(c, y, a) /\ EnvironmentAgrees(c)
  BY DEF Accepted
<1>2. /\ trainer.samples = y.samples /\ trainer.expected = c.group
      /\ trainer.adapter = c.adapter /\ trainer.rank = y.rank
      /\ trainer.base = (IF y.base = Absent THEN c.base ELSE y.base)
      /\ trainer.rollout = c.temperature /\ trainer.actor = y.temperature
      /\ trainer.fixed = y.fixed
  BY DEF TrainerOf
<1> HIDE DEF c, y, a
<1>3. trainer.samples = trainer.expected /\ trainer.rollout = trainer.actor /\ trainer.fixed
  BY <1>1, <1>2 DEF ConfigValid, YamlAgrees
<1>4. a.whole /\ (y.interpolates \/ a.base = trainer.base)
  BY <1>1, <1>2 DEF YamlAgrees, AdapterAgrees
<1>5. trainer.rank \in {Absent, a.rank} /\ c.rank \in {Absent, a.rank}
  BY <1>1, <1>2 DEF AdapterAgrees
<1>6. setup.env \in {Absent, trainer.adapter}
  BY <1>1, <1>2 DEF EnvironmentAgrees
<1> QED BY <1>2, <1>3, <1>4, <1>5, <1>6 DEF TrainerFits, a, c, y

\* The parts of every trainer that runs were given values that fit, though each
\* read them from another file: no launch, not of the second epoch and not
\* after a crash, gets past the checks of src/rlff/runtime with files that do
\* not.
THEOREM TrainersFit == Spec => []TrainerFits
<1>1. TrainingInv => TrainerFits
  <2>1. CASE Running
    BY <2>1, AcceptedFits DEF TrainingInv, TrainerInv
  <2>2. CASE ~Running
    BY <2>2 DEF TrainingInv, TrainerInv, TrainerFits
  <2> QED BY <2>1, <2>2
<1> QED BY <1>1, TrainingInvariant, PTL

(***************************************************************************)
(* The order of the second epoch: classes as sequences.                    *)
(***************************************************************************)

LEMMA LeastElement ==
  ASSUME NEW S \in SUBSET Nat, S # {}
  PROVE  \E m \in S : \A n \in S : m <= n
<1>1. PICK m \in S : \A n \in S : ~ (<<n, m>> \in OpToRel(<, Nat))
  BY NatLessThanWellFounded, WFMin
<1>2. \A n \in S : ~ (n < m)
  BY <1>1 DEF OpToRel
<1> QED BY <1>2

UpTo(S, i) == {j \in S : j <= i}

LEMMA UpToFinite ==
  ASSUME NEW S \in SUBSET Nat, IsFiniteSet(S), NEW i \in S
  PROVE  /\ IsFiniteSet(UpTo(S, i))
         /\ Cardinality(UpTo(S, i)) \in 1..Cardinality(S)
<1>1. UpTo(S, i) \in SUBSET S /\ UpTo(S, i) # {}
  BY DEF UpTo
<1>2. IsFiniteSet(UpTo(S, i)) /\ Cardinality(UpTo(S, i)) <= Cardinality(S)
  BY <1>1, FS_Subset
<1>3. /\ Cardinality(UpTo(S, i)) \in Nat /\ Cardinality(S) \in Nat
      /\ Cardinality(UpTo(S, i)) # 0
  BY <1>1, <1>2, FS_CardinalityType, FS_EmptySet
<1> QED BY <1>2, <1>3

LEMMA UpToGrows ==
  ASSUME NEW S \in SUBSET Nat, IsFiniteSet(S), NEW i \in S, NEW j \in S, i < j
  PROVE  Cardinality(UpTo(S, i)) < Cardinality(UpTo(S, j))
<1>1. UpTo(S, i) \in SUBSET UpTo(S, j) /\ UpTo(S, i) # UpTo(S, j)
  <2>1. j \in UpTo(S, j) /\ j \notin UpTo(S, i)
    BY DEF UpTo
  <2>2. \A k \in S : k <= i => k <= j
    OBVIOUS
  <2> QED BY <2>1, <2>2 DEF UpTo
<1>2. /\ Cardinality(UpTo(S, i)) <= Cardinality(UpTo(S, j))
      /\ Cardinality(UpTo(S, i)) # Cardinality(UpTo(S, j))
  BY <1>1, UpToFinite, FS_Subset
<1>3. Cardinality(UpTo(S, i)) \in Int /\ Cardinality(UpTo(S, j)) \in Int
  BY UpToFinite
<1> QED BY <1>2, <1>3

\* Counting is an injection of a set into as many numbers, so it meets each.
LEMMA UpToMeets ==
  ASSUME NEW S \in SUBSET Nat, IsFiniteSet(S), NEW k \in 1..Cardinality(S)
  PROVE  \E i \in S : Cardinality(UpTo(S, i)) = k
<1> DEFINE n == Cardinality(S)
           f == [i \in S |-> Cardinality(UpTo(S, i))]
<1>1. n \in Nat
  BY FS_CardinalityType
<1>2. f \in [S -> 1..n]
  BY UpToFinite
<1>3. \A i, j \in S : f[i] = f[j] => i = j
  <2> SUFFICES ASSUME NEW i \in S, NEW j \in S, f[i] = f[j], i # j PROVE FALSE
    OBVIOUS
  <2>1. f[i] \in Int /\ f[j] \in Int
    BY <1>2
  <2>2. CASE i < j
    BY <2>1, <2>2, UpToGrows
  <2>3. CASE j < i
    BY <2>1, <2>3, UpToGrows
  <2> QED BY <2>2, <2>3
<1> HIDE DEF f
<1>4. f \in Injection(S, 1..n)
  BY <1>2, <1>3 DEF Injection, IsInjective
<1>5. IsFiniteSet(1..n) /\ Cardinality(1..n) = n
  <2>1. 1 \in Int /\ n \in Int
    BY <1>1
  <2>2. IsFiniteSet(1..n) /\ Cardinality(1..n) = IF 1 > n THEN 0 ELSE n - 1 + 1
    BY <2>1, FS_Interval
  <2> QED BY <1>1, <2>2
<1>6. f \in Surjection(S, 1..n)
  BY <1>4, <1>5, FS_Injection
<1>7. \E i \in S : f[i] = k
  BY <1>6 DEF Surjection
<1> QED BY <1>7 DEF f

\* What Ascending makes of a set: all its elements, each once, upwards.
Lists(A, S) ==
  /\ Len(A) \in Nat /\ A \in [1..Len(A) -> S]
  /\ \A k, l \in 1..Len(A) : k < l => A[k] < A[l]
  /\ \A i \in S : \E k \in 1..Len(A) : A[k] = i

LEMMA AscendingLists ==
  ASSUME NEW S \in SUBSET Nat, IsFiniteSet(S)
  PROVE  Lists(Ascending(S), S) /\ Len(Ascending(S)) = Cardinality(S)
<1> DEFINE A == Ascending(S)
           n == Cardinality(S)
<1>1. n \in Nat
  BY FS_CardinalityType
<1>2. /\ DOMAIN A = 1..n
      /\ A = [k \in 1..n |-> A[k]]
      /\ \A k \in 1..n : A[k] = CHOOSE i \in S : Cardinality(UpTo(S, i)) = k
  BY DEF Ascending, UpTo
<1>3. \A k \in 1..n : A[k] \in S /\ Cardinality(UpTo(S, A[k])) = k
  <2> SUFFICES ASSUME NEW k \in 1..n PROVE A[k] \in S /\ Cardinality(UpTo(S, A[k])) = k
    OBVIOUS
  <2>1. \E i \in S : Cardinality(UpTo(S, i)) = k
    BY UpToMeets
  <2>2. A[k] = CHOOSE i \in S : Cardinality(UpTo(S, i)) = k
    BY <1>2
  <2> HIDE DEF A
  <2> QED BY <2>1, <2>2
<1> HIDE DEF A
<1>4. A \in [1..n -> S]
  <2>1. \A k \in 1..n : A[k] \in S
    BY <1>3
  <2> QED BY <1>2, <2>1
<1>5. A \in Seq(S) /\ Len(A) = n
  BY <1>1, <1>4
<1>6. ASSUME NEW k \in 1..n, NEW l \in 1..n, k < l PROVE A[k] < A[l]
  <2>1. A[k] \in S /\ A[l] \in S /\ A[k] \in Nat /\ A[l] \in Nat
    BY <1>3
  <2>2. ~(A[l] < A[k])
    <3> SUFFICES ASSUME A[l] < A[k] PROVE FALSE
      OBVIOUS
    <3>1. Cardinality(UpTo(S, A[l])) < Cardinality(UpTo(S, A[k]))
      BY <2>1, UpToGrows
    <3> QED BY <1>3, <1>6, <3>1
  <2>3. A[l] # A[k]
    BY <1>3, <1>6
  <2> QED BY <2>1, <2>2, <2>3
<1>7. ASSUME NEW i \in S PROVE \E k \in 1..n : A[k] = i
  <2> DEFINE k == Cardinality(UpTo(S, i))
  <2>1. k \in 1..n
    BY UpToFinite
  <2>2. A[k] \in S /\ Cardinality(UpTo(S, A[k])) = k
    BY <1>3, <2>1
  <2> DEFINE j == A[k]
  <2>3. j \in S /\ Cardinality(UpTo(S, j)) = Cardinality(UpTo(S, i))
    BY <2>2
  <2> HIDE DEF j
  <2>4. Cardinality(UpTo(S, i)) \in Int
    BY <2>1
  <2>5. ~(j < i) /\ ~(i < j)
    BY <2>3, <2>4, UpToGrows
  <2>6. i \in Nat /\ j \in Nat
    BY <2>3
  <2>7. j = i
    BY <2>5, <2>6
  <2> QED BY <2>1, <2>7 DEF j
<1> QED BY <1>1, <1>4, <1>5, <1>6, <1>7 DEF Lists, A

(***************************************************************************)
(* Counts that rise by one or stay, up to each place.                      *)
(***************************************************************************)

Stairs(f, t) ==
  /\ t \in Nat /\ f \in [0..t -> Nat] /\ f[0] = 0
  /\ \A i \in 1..t : f[i] = f[i - 1] \/ f[i] = f[i - 1] + 1

LEMMA StairsRise ==
  ASSUME NEW f, NEW t, Stairs(f, t), NEW i \in 0..t, NEW j \in 0..t, i <= j
  PROVE  f[i] <= f[j]
<1> DEFINE B == {k \in Nat : k <= t /\ i <= k /\ ~(f[i] <= f[k])}
<1>1. t \in Nat /\ f \in [0..t -> Nat]
  BY DEF Stairs
<1> SUFFICES ASSUME B # {} PROVE FALSE
  <2>1. j \notin B => f[i] <= f[j]
    BY <1>1
  <2> QED BY <2>1
<1>2. PICK k \in B : \A l \in B : k <= l
  BY LeastElement
<1>3. k \in Nat /\ k <= t /\ i <= k /\ ~(f[i] <= f[k])
  OBVIOUS
<1>4. k # i
  BY <1>1, <1>3
<1>5. k - 1 \in Nat /\ k - 1 <= t /\ i <= k - 1 /\ k - 1 \notin B /\ k \in 1..t
  BY <1>1, <1>2, <1>3, <1>4
<1>6. f[i] <= f[k - 1]
  BY <1>5
<1>7. f[k] = f[k - 1] \/ f[k] = f[k - 1] + 1
  BY <1>5 DEF Stairs
<1>8. f[i] \in Nat /\ f[k] \in Nat /\ f[k - 1] \in Nat
  BY <1>1, <1>5
<1> QED BY <1>3, <1>6, <1>7, <1>8

LEMMA StairsBelow ==
  ASSUME NEW f, NEW t, Stairs(f, t), NEW i \in 0..t
  PROVE  f[i] <= i
<1> DEFINE B == {k \in Nat : k <= t /\ ~(f[k] <= k)}
<1>1. t \in Nat /\ f \in [0..t -> Nat] /\ f[0] = 0
  BY DEF Stairs
<1> SUFFICES ASSUME B # {} PROVE FALSE
  <2>1. i \notin B => f[i] <= i
    BY <1>1
  <2> QED BY <2>1
<1>2. PICK k \in B : \A l \in B : k <= l
  BY LeastElement
<1>3. k \in Nat /\ k <= t /\ ~(f[k] <= k)
  OBVIOUS
<1>4. k # 0
  BY <1>1, <1>3
<1>5. k - 1 \in Nat /\ k - 1 <= t /\ k - 1 \notin B /\ k \in 1..t
  BY <1>1, <1>2, <1>3, <1>4
<1>6. f[k - 1] <= k - 1
  BY <1>5
<1>7. f[k] = f[k - 1] \/ f[k] = f[k - 1] + 1
  BY <1>5 DEF Stairs
<1>8. f[k] \in Nat /\ f[k - 1] \in Nat
  BY <1>1, <1>5
<1> QED BY <1>3, <1>6, <1>7, <1>8

\* Every number on the way is reached by a rise.
LEMMA StairsReach ==
  ASSUME NEW f, NEW t, Stairs(f, t), NEW n \in 1..f[t]
  PROVE  \E i \in 1..t : f[i] = n /\ f[i - 1] = n - 1
<1> DEFINE B == {k \in Nat : k <= t /\ n <= f[k]}
<1>1. t \in Nat /\ f \in [0..t -> Nat] /\ f[0] = 0
  BY DEF Stairs
<1>2. t \in B
  BY <1>1
<1>3. PICK k \in B : \A l \in B : k <= l
  BY <1>2, LeastElement
<1>4. k \in Nat /\ k <= t /\ n <= f[k] /\ n \in Nat \ {0}
  BY <1>1
<1>5. k # 0
  BY <1>1, <1>4
<1>6. k - 1 \in Nat /\ k - 1 <= t /\ k - 1 \notin B /\ k \in 1..t
  BY <1>1, <1>3, <1>4, <1>5
<1>7. ~(n <= f[k - 1])
  BY <1>6
<1>8. f[k] = f[k - 1] \/ f[k] = f[k - 1] + 1
  BY <1>6 DEF Stairs
<1>9. f[k] \in Nat /\ f[k - 1] \in Nat
  BY <1>1, <1>6
<1>10. f[k] = n /\ f[k - 1] = n - 1
  BY <1>4, <1>7, <1>8, <1>9
<1> QED BY <1>6, <1>10

\* The count is that of its rises.
Rises(f, p) == {i \in 1..p : f[i] = f[i - 1] + 1}

LEMMA StairsCount ==
  ASSUME NEW f, NEW t, Stairs(f, t), NEW p \in 0..t
  PROVE  IsFiniteSet(Rises(f, p)) /\ Cardinality(Rises(f, p)) = f[p]
<1> DEFINE Good(k) == IsFiniteSet(Rises(f, k)) /\ Cardinality(Rises(f, k)) = f[k]
           B == {k \in Nat : k <= t /\ ~Good(k)}
<1>1. t \in Nat /\ f \in [0..t -> Nat] /\ f[0] = 0
  BY DEF Stairs
<1> SUFFICES ASSUME B # {} PROVE FALSE
  <2>1. p \notin B => Good(p)
    BY <1>1
  <2> QED BY <2>1
<1>2. PICK k \in B : \A l \in B : k <= l
  BY LeastElement
<1>3. k \in Nat /\ k <= t /\ ~Good(k)
  OBVIOUS
<1>4. k # 0
  <2>1. Rises(f, 0) = {}
    BY DEF Rises
  <2>2. Good(0)
    BY <1>1, <2>1, FS_EmptySet
  <2> QED BY <1>3, <2>2
<1>5. k - 1 \in Nat /\ k - 1 <= t /\ k - 1 \notin B /\ k \in 1..t
  BY <1>1, <1>2, <1>3, <1>4
<1>6. Good(k - 1)
  BY <1>5
<1>7. f[k] \in Nat /\ f[k - 1] \in Nat
  BY <1>1, <1>5
<1>8. k \notin Rises(f, k - 1)
  BY <1>5 DEF Rises
<1>9. CASE f[k] = f[k - 1] + 1
  <2>1. Rises(f, k) = Rises(f, k - 1) \cup {k}
    BY <1>5, <1>9 DEF Rises
  <2> QED BY <1>3, <1>6, <1>8, <1>9, <2>1, FS_AddElement
<1>10. CASE f[k] = f[k - 1]
  <2>1. Rises(f, k) = Rises(f, k - 1)
    BY <1>5, <1>7, <1>10 DEF Rises
  <2> QED BY <1>3, <1>6, <1>10, <2>1
<1> QED BY <1>5, <1>9, <1>10 DEF Stairs

\* What is left at each place when a count is taken from it is a count again.
Rest(f, t) == [i \in 0..t |-> i - f[i]]

LEMMA StairsRest ==
  ASSUME NEW f, NEW t, Stairs(f, t)
  PROVE  /\ Stairs(Rest(f, t), t)
         /\ \A i \in 1..t : Rest(f, t)[i] = Rest(f, t)[i - 1] + 1 <=> f[i] = f[i - 1]
<1>1. t \in Nat /\ f \in [0..t -> Nat] /\ f[0] = 0
  BY DEF Stairs
<1>2. \A i \in 0..t : f[i] \in Nat /\ Rest(f, t)[i] = i - f[i] /\ i - f[i] \in Nat
  BY <1>1, StairsBelow DEF Rest
<1>3. Rest(f, t) \in [0..t -> Nat] /\ Rest(f, t)[0] = 0
  BY <1>1, <1>2 DEF Rest
<1>4. ASSUME NEW i \in 1..t
      PROVE  /\ Rest(f, t)[i] = Rest(f, t)[i - 1] \/ Rest(f, t)[i] = Rest(f, t)[i - 1] + 1
             /\ Rest(f, t)[i] = Rest(f, t)[i - 1] + 1 <=> f[i] = f[i - 1]
  <2>1. i \in 0..t /\ i - 1 \in 0..t
    BY <1>1
  <2>2. Rest(f, t)[i] = i - f[i] /\ Rest(f, t)[i - 1] = i - 1 - f[i - 1]
    BY <1>2, <2>1
  <2>3. f[i] = f[i - 1] \/ f[i] = f[i - 1] + 1
    BY DEF Stairs
  <2>4. f[i] \in Nat /\ f[i - 1] \in Nat /\ i \in Int
    BY <1>2, <2>1
  <2> QED BY <2>2, <2>3, <2>4
<1> QED BY <1>1, <1>3, <1>4 DEF Stairs

(***************************************************************************)
(* The running quota is such a count.                                      *)
(***************************************************************************)

LEMMA ProductRises ==
  ASSUME NEW m \in Nat, NEW p \in Int, NEW q \in Int, p >= q + 1
  PROVE  m * p >= m * q + m
<1>1. m * (p - q - 1) >= 0
  OBVIOUS
<1>2. m * (p - q - 1) = m * p - m * q - m
  OBVIOUS
<1>3. m * p \in Int /\ m * q \in Int
  OBVIOUS
<1> QED BY <1>1, <1>2, <1>3

LEMMA Divided ==
  ASSUME NEW a \in Nat, NEW t \in Nat \ {0}
  PROVE  /\ a \div t \in Nat /\ t * (a \div t) \in Nat
         /\ t * (a \div t) <= a /\ a < t * (a \div t) + t
<1> DEFINE p == a \div t
           s == a % t
<1>1. p \in Nat /\ s \in 0..t - 1 /\ a = t * p + s
  OBVIOUS
<1>2. t * p \in Nat
  BY <1>1
<1> HIDE DEF p, s
<1> DEFINE u == t * p
<1>3. u \in Nat /\ a = u + s /\ s \in 0..t - 1
  BY <1>1, <1>2
<1> HIDE DEF u
<1>4. u <= a /\ a < u + t
  BY <1>3
<1> QED BY <1>1, <1>2, <1>4 DEF u, p

LEMMA HalfOf ==
  ASSUME NEW t \in Nat
  PROVE  t \div 2 \in Nat /\ (t = 2 * (t \div 2) \/ t = 2 * (t \div 2) + 1)
OBVIOUS

\* The quota is the share i * q of t, rounded to the nearest.
LEMMA QuotaNearest ==
  ASSUME NEW i \in Nat, NEW q \in Nat, NEW t \in Nat \ {0}
  PROVE  /\ Quota(i, q, t) \in Nat /\ t * Quota(i, q, t) \in Nat /\ i * q \in Nat
         /\ t * Quota(i, q, t) <= i * q + (t \div 2)
         /\ i * q + (t \div 2) < t * Quota(i, q, t) + t
<1> DEFINE a == i * q + (t \div 2)
<1>1. i * q \in Nat /\ t \div 2 \in Nat
  BY HalfOf
<1>2. a \in Nat /\ Quota(i, q, t) = a \div t
  BY <1>1 DEF Quota
<1> HIDE DEF a
<1>3. /\ a \div t \in Nat /\ t * (a \div t) \in Nat
      /\ t * (a \div t) <= a /\ a < t * (a \div t) + t
  BY <1>2, Divided
<1> QED BY <1>1, <1>2, <1>3 DEF a

LEMMA QuotaStep ==
  ASSUME NEW i \in Nat \ {0}, NEW t \in Nat \ {0}, NEW q \in 0..t
  PROVE  Quota(i, q, t) = Quota(i - 1, q, t) \/ Quota(i, q, t) = Quota(i - 1, q, t) + 1
<1> DEFINE a == Quota(i - 1, q, t)
           b == Quota(i, q, t)
           u == t * a
           v == t * b
           w == (i - 1) * q
           c == t \div 2
           z == i * q
<1>1. /\ a \in Nat /\ u \in Nat /\ w \in Nat /\ u <= w + c /\ w + c < u + t
  <2>1. i - 1 \in Nat /\ q \in Nat
    OBVIOUS
  <2> QED BY <2>1, QuotaNearest
<1>2. /\ b \in Nat /\ v \in Nat /\ v <= z + c /\ z + c < v + t
  <2>1. i \in Nat /\ q \in Nat
    OBVIOUS
  <2> QED BY <2>1, QuotaNearest
<1>3. z = w + q /\ c \in Nat
  BY HalfOf
<1>4. b >= a + 2 => v >= u + t + t
  <2> HIDE DEF a, b
  <2>1. b >= a + 2 => t * b >= t * (a + 1) + t
    BY <1>1, <1>2, ProductRises
  <2>2. t * (a + 1) = t * a + t
    BY <1>1
  <2> QED BY <2>1, <2>2
<1>5. a >= b + 1 => u >= v + t
  <2> HIDE DEF a, b
  <2> QED BY <1>1, <1>2, ProductRises
<1> HIDE DEF a, b, u, v, w, c, z
<1>6. ~(a >= b + 1)
  BY <1>1, <1>2, <1>3, <1>5
<1>7. ~(b >= a + 2)
  BY <1>1, <1>2, <1>3, <1>4
<1>8. b = a \/ b = a + 1
  BY <1>1, <1>2, <1>6, <1>7
<1> QED BY <1>8 DEF a, b

LEMMA QuotaEnds ==
  ASSUME NEW t \in Nat \ {0}, NEW q \in 0..t
  PROVE  Quota(0, q, t) = 0 /\ Quota(t, q, t) = q
<1> DEFINE a == Quota(0, q, t)
           b == Quota(t, q, t)
           c == t \div 2
           u == t * a
           v == t * b
           w == t * q
<1>1. c \in Nat /\ c < t
  BY HalfOf
<1>2. a \in Nat /\ u \in Nat /\ u <= c
  <2>1. 0 * q = 0
    OBVIOUS
  <2> QED BY <1>1, <2>1, QuotaNearest
<1>3. b \in Nat /\ v \in Nat /\ w \in Nat /\ v <= w + c /\ w + c < v + t
  <2>1. t \in Nat /\ q \in Nat
    OBVIOUS
  <2> QED BY <2>1, QuotaNearest
<1>4. a >= 0 + 1 => u >= t * 0 + t
  <2> HIDE DEF a
  <2> QED BY <1>2, ProductRises
<1>5. b >= q + 1 => v >= w + t
  <2> HIDE DEF b
  <2> QED BY <1>3, ProductRises
<1>6. q >= b + 1 => w >= v + t
  <2> HIDE DEF b
  <2> QED BY <1>3, ProductRises
<1>7. t * 0 = 0
  OBVIOUS
<1> HIDE DEF a, b, c, u, v, w
<1>8. a = 0
  BY <1>1, <1>2, <1>4, <1>7
<1>9. b = q
  BY <1>1, <1>3, <1>5, <1>6
<1> QED BY <1>8, <1>9 DEF a, b

Quotas(q, t) == [i \in 0..t |-> Quota(i, q, t)]

LEMMA QuotasRise ==
  ASSUME NEW t \in Nat \ {0}, NEW q \in 0..t
  PROVE  Stairs(Quotas(q, t), t) /\ Quotas(q, t)[t] = q
<1>1. \A i \in 0..t : Quotas(q, t)[i] = Quota(i, q, t) /\ Quota(i, q, t) \in Nat
  BY QuotaNearest DEF Quotas
<1>2. Quotas(q, t) \in [0..t -> Nat]
  BY <1>1 DEF Quotas
<1>3. ASSUME NEW i \in 1..t
      PROVE  Quotas(q, t)[i] = Quotas(q, t)[i - 1] \/ Quotas(q, t)[i] = Quotas(q, t)[i - 1] + 1
  <2>1. i \in 0..t /\ i - 1 \in 0..t /\ i \in Nat \ {0}
    OBVIOUS
  <2> QED BY <1>1, <2>1, QuotaStep
<1>4. Quotas(q, t)[0] = 0 /\ Quotas(q, t)[t] = q
  BY <1>1, QuotaEnds
<1> QED BY <1>2, <1>3, <1>4 DEF Stairs

\* Both classes keep as near to their share as rounding allows.
LEMMA SharesNear ==
  ASSUME NEW i \in Nat, NEW t \in Nat \ {0}, NEW q \in 0..t
  PROVE  /\ 2 * (t * Quota(i, q, t) - i * q) <= t
         /\ -2 * (t * Quota(i, q, t) - i * q) <= t
         /\ 2 * (t * (i - Quota(i, q, t)) - i * (t - q)) <= t
         /\ -2 * (t * (i - Quota(i, q, t)) - i * (t - q)) <= t
<1> DEFINE b == Quota(i, q, t)
           c == t \div 2
           v == t * b
           w == i * q
<1>1. b \in Nat /\ v \in Nat /\ w \in Nat /\ v <= w + c /\ w + c < v + t
  <2>1. q \in Nat
    OBVIOUS
  <2> QED BY <2>1, QuotaNearest
<1>2. c \in Nat /\ (t = 2 * c \/ t = 2 * c + 1)
  BY HalfOf
<1>3. t * (i - b) - i * (t - q) = w - v
  <2> HIDE DEF b
  <2>1. t * (i - b) = t * i - t * b
    BY <1>1
  <2>2. i * (t - q) = i * t - i * q
    OBVIOUS
  <2>3. t * i = i * t /\ t * i \in Int
    OBVIOUS
  <2> DEFINE x == t * i
             y == i * t
  <2> HIDE DEF v, w, x, y
  <2>4. t * (i - b) = x - v /\ i * (t - q) = y - w /\ x = y /\ x \in Int
    BY <2>1, <2>2, <2>3 DEF v, w, x, y
  <2> QED BY <1>1, <2>4
<1> HIDE DEF b, c, v, w
<1>4. 2 * (v - w) <= t /\ -2 * (v - w) <= t /\ 2 * (w - v) <= t /\ -2 * (w - v) <= t
  BY <1>1, <1>2
<1>5. 2 * (t * (i - b) - i * (t - q)) <= t /\ -2 * (t * (i - b) - i * (t - q)) <= t
  BY <1>3, <1>4, Zenon
<1>6. 2 * (t * b - i * q) <= t /\ -2 * (t * b - i * q) <= t
  BY <1>4 DEF v, w
<1> QED BY <1>5, <1>6 DEF b

(***************************************************************************)
(* Two sequences woven together.                                           *)
(***************************************************************************)

Rising(s, S) ==
  /\ Len(s) \in Nat /\ s \in [1..Len(s) -> S]
  /\ \A k, l \in 1..Len(s) : k < l => s[k] < s[l]

\* Which element comes at a place: the next of one sequence or of the other.
LEMMA WeaveAt ==
  ASSUME NEW P, NEW Q, Len(P) \in Nat, Len(Q) \in Nat, NEW t \in Nat \ {0}, t = Len(P) + Len(Q),
         NEW i \in 1..t
  PROVE  LET f == Quotas(Len(Q), t)  g == Rest(f, t) IN
         \/ /\ f[i] = f[i - 1] + 1 /\ f[i] \in 1..Len(Q) /\ g[i] = g[i - 1]
            /\ Weave(P, Q)[i] = Q[f[i]]
         \/ /\ g[i] = g[i - 1] + 1 /\ g[i] \in 1..Len(P) /\ f[i] = f[i - 1]
            /\ Weave(P, Q)[i] = P[g[i]]
<1> DEFINE q == Len(Q)
           f == Quotas(q, t)
           g == Rest(f, t)
<1>1. q \in 0..t /\ i \in 0..t /\ i - 1 \in 0..t /\ t \in 0..t
  OBVIOUS
<1>2. Stairs(f, t) /\ f[t] = q
  BY <1>1, QuotasRise
<1>3. f[i] = Quota(i, q, t) /\ f[i - 1] = Quota(i - 1, q, t) /\ g[i] = i - f[i]
      /\ g[i - 1] = i - 1 - f[i - 1] /\ g[t] = t - f[t]
  BY <1>1 DEF Quotas, Rest
<1>4. Weave(P, Q)[i] = IF f[i] > f[i - 1] THEN Q[f[i]] ELSE P[i - f[i]]
  BY <1>3 DEF Weave
<1> HIDE DEF f, g
<1>5. f[i] \in Nat /\ f[i - 1] \in Nat /\ (f[i] = f[i - 1] \/ f[i] = f[i - 1] + 1)
  BY <1>1, <1>2 DEF Stairs
<1>6. f[i] <= f[t] /\ f[i - 1] <= i - 1
  <2>1. i <= t
    OBVIOUS
  <2> QED BY <1>1, <1>2, <2>1, StairsRise, StairsBelow
<1>7. g[i] <= g[t]
  <2>1. Stairs(g, t)
    BY <1>2, StairsRest DEF g
  <2>2. i <= t
    OBVIOUS
  <2> QED BY <1>1, <2>1, <2>2, StairsRise
<1>8. CASE f[i] = f[i - 1] + 1
  <2>1. f[i] > f[i - 1] /\ f[i] \in 1..q
    BY <1>2, <1>5, <1>6, <1>8
  <2>2. g[i] = g[i - 1]
    BY <1>3, <1>5, <1>8
  <2>3. Weave(P, Q)[i] = Q[f[i]]
    BY <1>4, <2>1
  <2> QED BY <1>8, <2>1, <2>2, <2>3 DEF f, g
<1>9. CASE f[i] = f[i - 1]
  <2>1. ~(f[i] > f[i - 1]) /\ g[i] = g[i - 1] + 1
    BY <1>3, <1>5, <1>9
  <2>2. g[i] \in 1..Len(P)
    BY <1>2, <1>3, <1>5, <1>6, <1>7, <1>9
  <2>3. Weave(P, Q)[i] = P[g[i]]
    BY <1>3, <1>4, <2>1
  <2> QED BY <1>9, <2>1, <2>2, <2>3 DEF f, g
<1> QED BY <1>5, <1>8, <1>9

\* What is said of it: all elements are there, each class upwards, and up to
\* every place there are as many of the second as the quota says.
Woven(W, P, Q, A, B, t) ==
  /\ Len(W) = t /\ W \in [1..t -> A \cup B]
  /\ \A k \in 1..Len(P) : \E i \in 1..t : W[i] = P[k]
  /\ \A k \in 1..Len(Q) : \E i \in 1..t : W[i] = Q[k]
  /\ \A i \in 1..t : \/ \E k \in 1..Len(P) : W[i] = P[k]
                     \/ \E k \in 1..Len(Q) : W[i] = Q[k]
  /\ \A i, j \in 1..t : i < j /\ (W[i] \in A <=> W[j] \in A) => W[i] < W[j]
  /\ \A p \in 0..t : /\ Among(W, p, B) = Quota(p, Len(Q), t)
                     /\ Among(W, p, A) = p - Quota(p, Len(Q), t)

LEMMA WeaveWoven ==
  ASSUME NEW A \in SUBSET Nat, NEW B \in SUBSET Nat, A \cap B = {},
         NEW P, NEW Q, Rising(P, A), Rising(Q, B), NEW t \in Nat \ {0}, t = Len(P) + Len(Q)
  PROVE  Woven(Weave(P, Q), P, Q, A, B, t)
<1> DEFINE q == Len(Q)
           f == Quotas(q, t)
           g == Rest(f, t)
           W == Weave(P, Q)
<1>1. /\ Len(P) \in Nat /\ P \in [1..Len(P) -> A]
      /\ Len(Q) \in Nat /\ Q \in [1..Len(Q) -> B] /\ q \in 0..t
  BY DEF Rising
<1>2. Stairs(f, t) /\ f[t] = q /\ Stairs(g, t)
  BY <1>1, QuotasRise, StairsRest
<1>3. \A i \in 0..t : f[i] = Quota(i, q, t) /\ g[i] = i - f[i]
  BY DEF Quotas, Rest
<1>4. \A i \in 1..t :
        \/ f[i] = f[i - 1] + 1 /\ f[i] \in 1..q /\ g[i] = g[i - 1] /\ W[i] = Q[f[i]]
        \/ g[i] = g[i - 1] + 1 /\ g[i] \in 1..Len(P) /\ f[i] = f[i - 1] /\ W[i] = P[g[i]]
  BY <1>1, WeaveAt
<1>5. W = [i \in 1..t |-> W[i]] /\ DOMAIN W = 1..t
  BY DEF Weave
<1> HIDE DEF f, g, W
<1>6. \A i \in 0..t : f[i] \in Nat /\ g[i] \in Nat
  BY <1>2 DEF Stairs
<1>7. ASSUME NEW i \in 1..t
      PROVE  /\ W[i] \in A \cup B
             /\ W[i] \in B => f[i] = f[i - 1] + 1 /\ f[i] \in 1..q /\ W[i] = Q[f[i]]
             /\ W[i] \in A => g[i] = g[i - 1] + 1 /\ g[i] \in 1..Len(P) /\ W[i] = P[g[i]]
  <2>1. CASE f[i] = f[i - 1] + 1 /\ f[i] \in 1..q /\ W[i] = Q[f[i]]
    <3>1. W[i] \in B
      BY <1>1, <2>1
    <3> QED BY <2>1, <3>1
  <2>2. CASE g[i] = g[i - 1] + 1 /\ g[i] \in 1..Len(P) /\ W[i] = P[g[i]]
    <3>1. W[i] \in A
      BY <1>1, <2>2
    <3> QED BY <2>2, <3>1
  <2> QED BY <1>4, <2>1, <2>2
<1>8. Len(W) = t /\ W \in [1..t -> A \cup B]
  <2>1. \A i \in 1..t : W[i] \in A \cup B
    BY <1>7
  <2>2. W \in [1..t -> A \cup B]
    BY <1>5, <2>1
  <2> QED BY <2>2
<1>9. ASSUME NEW k \in 1..Len(P) PROVE \E i \in 1..t : W[i] = P[k]
  <2>1. g[t] = Len(P)
    BY <1>1, <1>2, <1>3
  <2>2. PICK i \in 1..t : g[i] = k /\ g[i - 1] = k - 1
    BY <1>2, <2>1, StairsReach
  <2>3. g[i] # g[i - 1]
    BY <1>1, <2>2
  <2> QED BY <1>4, <2>2, <2>3
<1>10. ASSUME NEW k \in 1..Len(Q) PROVE \E i \in 1..t : W[i] = Q[k]
  <2>2. PICK i \in 1..t : f[i] = k /\ f[i - 1] = k - 1
    BY <1>2, StairsReach
  <2>3. f[i] # f[i - 1]
    BY <1>1, <2>2
  <2> QED BY <1>4, <2>2, <2>3
<1>11. \A i \in 1..t : \/ \E k \in 1..Len(P) : W[i] = P[k]
                       \/ \E k \in 1..Len(Q) : W[i] = Q[k]
  BY <1>4
<1>12. ASSUME NEW i \in 1..t, NEW j \in 1..t, i < j
       PROVE  (W[i] \in A <=> W[j] \in A) => W[i] < W[j]
  <2>1. i \in 0..t /\ j - 1 \in 0..t /\ i <= j - 1 /\ j \in 0..t
    BY <1>12
  <2>2. f[i] <= f[j - 1] /\ g[i] <= g[j - 1]
    BY <1>2, <2>1, StairsRise
  <2>5. f[i] \in Int /\ f[j - 1] \in Int /\ g[i] \in Int /\ g[j - 1] \in Int
    BY <1>6, <2>1
  <2>3. CASE W[i] \in A /\ W[j] \in A
    <3>1. /\ g[i] \in 1..Len(P) /\ W[i] = P[g[i]]
          /\ g[j] = g[j - 1] + 1 /\ g[j] \in 1..Len(P) /\ W[j] = P[g[j]]
      BY <1>7, <2>3
    <3>2. g[i] < g[j]
      BY <2>2, <2>5, <3>1
    <3> QED BY <3>1, <3>2 DEF Rising
  <2>4. CASE W[i] \in B /\ W[j] \in B
    <3>1. /\ f[i] \in 1..q /\ W[i] = Q[f[i]]
          /\ f[j] = f[j - 1] + 1 /\ f[j] \in 1..q /\ W[j] = Q[f[j]]
      BY <1>7, <2>4
    <3>2. f[i] < f[j]
      BY <2>2, <2>5, <3>1
    <3> QED BY <3>1, <3>2 DEF Rising
  <2> QED BY <1>7, <2>3, <2>4
<1>13. ASSUME NEW p \in 0..t
       PROVE  Among(W, p, B) = Quota(p, q, t) /\ Among(W, p, A) = p - Quota(p, q, t)
  <2>1. \A i \in 1..p : i \in 1..t
    OBVIOUS
  <2>2. \A i \in 1..p : W[i] \in B <=> f[i] = f[i - 1] + 1
    <3> SUFFICES ASSUME NEW i \in 1..p PROVE W[i] \in B <=> f[i] = f[i - 1] + 1
      OBVIOUS
    <3>1. i \in 1..t /\ i \in 0..t /\ i - 1 \in 0..t
      BY <2>1
    <3>2. g[i] = g[i - 1] + 1 => f[i] # f[i - 1] + 1
      BY <1>3, <1>6, <3>1
    <3> QED BY <1>7, <3>1, <3>2
  <2>3. \A i \in 1..p : W[i] \in A <=> g[i] = g[i - 1] + 1
    <3> SUFFICES ASSUME NEW i \in 1..p PROVE W[i] \in A <=> g[i] = g[i - 1] + 1
      OBVIOUS
    <3>1. i \in 1..t /\ i \in 0..t /\ i - 1 \in 0..t
      BY <2>1
    <3>2. g[i] = g[i - 1] + 1 => f[i] # f[i - 1] + 1
      BY <1>3, <1>6, <3>1
    <3> QED BY <1>7, <3>1, <3>2
  <2>4. {i \in 1..p : W[i] \in B} = Rises(f, p) /\ {i \in 1..p : W[i] \in A} = Rises(g, p)
    BY <2>2, <2>3 DEF Rises
  <2>5. Cardinality(Rises(f, p)) = f[p] /\ Cardinality(Rises(g, p)) = g[p]
    BY <1>2, StairsCount
  <2> QED BY <1>3, <2>4, <2>5 DEF Among
<1> QED BY <1>8, <1>9, <1>10, <1>11, <1>12, <1>13 DEF Woven, W

LEMMA WovenSpreads ==
  ASSUME NEW W, NEW P, NEW Q, NEW A, NEW B, NEW t \in Nat \ {0}, Len(Q) \in 0..t,
         Woven(W, P, Q, A, B, t)
  PROVE  /\ Among(W, t, B) = Len(Q) /\ Among(W, t, A) = t - Len(Q)
         /\ Spread(W, A) /\ Spread(W, B)
<1> DEFINE q == Len(Q)
<1>1. Len(W) = t
  BY DEF Woven
<1>2. \A p \in 0..t : Among(W, p, B) = Quota(p, q, t) /\ Among(W, p, A) = p - Quota(p, q, t)
  BY DEF Woven
<1>3. Quota(t, q, t) = q
  BY QuotaEnds
<1>4. Among(W, t, B) = q /\ Among(W, t, A) = t - q
  BY <1>2, <1>3
<1>5. ASSUME NEW p \in 1..t
      PROVE  /\ 2 * (t * Among(W, p, B) - p * q) <= t
             /\ -2 * (t * Among(W, p, B) - p * q) <= t
             /\ 2 * (t * Among(W, p, A) - p * (t - q)) <= t
             /\ -2 * (t * Among(W, p, A) - p * (t - q)) <= t
  <2>1. p \in Nat /\ p \in 0..t
    OBVIOUS
  <2>2. Among(W, p, B) = Quota(p, q, t) /\ Among(W, p, A) = p - Quota(p, q, t)
    BY <1>2, <2>1
  <2> HIDE DEF q
  <2>3. q \in 0..t
    BY DEF q
  <2>4. /\ 2 * (t * Quota(p, q, t) - p * q) <= t
        /\ -2 * (t * Quota(p, q, t) - p * q) <= t
        /\ 2 * (t * (p - Quota(p, q, t)) - p * (t - q)) <= t
        /\ -2 * (t * (p - Quota(p, q, t)) - p * (t - q)) <= t
    BY <2>1, <2>3, SharesNear
  <2> QED BY <2>2, <2>4, Zenon
<1>6. Spread(W, B)
  BY <1>1, <1>4, <1>5, Zenon DEF Spread
<1>7. Spread(W, A)
  BY <1>1, <1>4, <1>5, Zenon DEF Spread
<1> QED BY <1>4, <1>6, <1>7

(***************************************************************************)
(* The classes of a dataset and their parts.                               *)
(***************************************************************************)

EasySet(d) == {i \in 1..Len(d) : d[i]}
HardSet(d) == {i \in 1..Len(d) : ~d[i]}

LEMMA ClassesListed ==
  ASSUME NEW d, Len(d) \in Nat
  PROVE  /\ EasySet(d) \in SUBSET Nat /\ HardSet(d) \in SUBSET Nat
         /\ EasySet(d) \cap HardSet(d) = {} /\ EasySet(d) \cup HardSet(d) = 1..Len(d)
         /\ Lists(Easy(d), EasySet(d)) /\ Lists(Difficult(d), HardSet(d))
         /\ Len(Easy(d)) + Len(Difficult(d)) = Len(d)
<1> DEFINE n == Len(d)
           A == EasySet(d)
           B == HardSet(d)
<1>1. A \cap B = {} /\ A \cup B = 1..n
  BY Zenon DEF EasySet, HardSet
<1>2. A \in SUBSET (1..n) /\ B \in SUBSET (1..n)
  BY Zenon DEF EasySet, HardSet
<1>3. IsFiniteSet(1..n) /\ Cardinality(1..n) = n
  <2>1. 1 \in Int /\ n \in Int
    OBVIOUS
  <2>2. IsFiniteSet(1..n) /\ Cardinality(1..n) = IF 1 > n THEN 0 ELSE n - 1 + 1
    BY <2>1, FS_Interval
  <2> QED BY <2>2
<1>4. IsFiniteSet(A) /\ IsFiniteSet(B)
  BY <1>2, <1>3, FS_Subset
<1>5. A \in SUBSET Nat /\ B \in SUBSET Nat
  BY <1>2
<1>6. Easy(d) = Ascending(A) /\ Difficult(d) = Ascending(B)
  BY Zenon DEF Easy, Difficult, EasySet, HardSet
<1> HIDE DEF A, B
<1>7. /\ Lists(Easy(d), A) /\ Len(Easy(d)) = Cardinality(A)
      /\ Lists(Difficult(d), B) /\ Len(Difficult(d)) = Cardinality(B)
  BY <1>4, <1>5, <1>6, AscendingLists
<1>8. Cardinality(A) + Cardinality(B) = n
  <2>1. Cardinality(A \cup B) = Cardinality(A) + Cardinality(B) - Cardinality(A \cap B)
    BY <1>4, FS_Union
  <2>2. Cardinality(A \cap B) = 0
    BY <1>1, FS_EmptySet
  <2>3. Cardinality(A) \in Int /\ Cardinality(B) \in Int
    BY <1>4, FS_CardinalityType
  <2>4. Cardinality(A \cup B) = n
    BY <1>1, <1>3
  <2> DEFINE a == Cardinality(A)
             b == Cardinality(B)
  <2>5. n = a + b - 0 /\ a \in Int /\ b \in Int
    BY <2>1, <2>2, <2>3, <2>4
  <2> HIDE DEF a, b
  <2>6. a + b = n
    BY <2>5
  <2> QED BY <2>6 DEF a, b
<1> QED BY <1>1, <1>5, <1>7, <1>8 DEF A, B

LEMMA ListsRise ==
  ASSUME NEW s, NEW S, Lists(s, S)
  PROVE  Rising(s, S) /\ ToSet(s) = S
<1>1. Rising(s, S)
  BY DEF Lists, Rising
<1>2. DOMAIN s = 1..Len(s) /\ \A k \in 1..Len(s) : s[k] \in S
  BY DEF Lists
<1>3. \A i \in S : \E k \in 1..Len(s) : s[k] = i
  BY DEF Lists
<1>4. ToSet(s) = S
  BY <1>2, <1>3 DEF ToSet
<1> QED BY <1>1, <1>4

LEMMA PartRises ==
  ASSUME NEW s, NEW S, Rising(s, S), NEW lo \in Nat \ {0}, NEW hi \in Nat,
         lo <= hi + 1, hi <= Len(s)
  PROVE  /\ Rising(SubSeq(s, lo, hi), S)
         /\ Len(SubSeq(s, lo, hi)) = hi - lo + 1
         /\ \A k \in 1..hi - lo + 1 : SubSeq(s, lo, hi)[k] = s[lo + k - 1]
<1> DEFINE x == SubSeq(s, lo, hi)
           n == hi - lo + 1
<1>1. Len(s) \in Nat /\ \A k \in 1..Len(s) : s[k] \in S
  BY DEF Rising
<1>2. n \in Nat /\ \A k \in lo..hi : s[k] \in S
  BY <1>1
<1>3. x \in Seq(S) /\ Len(x) = (IF lo <= hi THEN n ELSE 0)
      /\ \A k \in 1..n : x[k] = s[lo + k - 1]
  BY <1>2, SubSeqProperties
<1> HIDE DEF x
<1>4. Len(x) = n
  BY <1>3
<1>5. x \in [1..n -> S]
  BY <1>3, <1>4
<1>6. ASSUME NEW k \in 1..n, NEW l \in 1..n, k < l PROVE x[k] < x[l]
  <2>1. lo + k - 1 \in 1..Len(s) /\ lo + l - 1 \in 1..Len(s) /\ lo + k - 1 < lo + l - 1
    BY <1>1, <1>6
  <2>2. s[lo + k - 1] < s[lo + l - 1]
    BY <2>1 DEF Rising
  <2> QED BY <1>3, <2>2
<1> QED BY <1>2, <1>3, <1>4, <1>5, <1>6 DEF Rising, x

LEMMA EarlyCount ==
  ASSUME NEW d, Len(d) \in Nat
  PROVE  /\ Phase(d) \in Nat /\ EarlyDifficult(d) \in 0..Phase(d)
         /\ 10 * EarlyDifficult(d) - 3 * Phase(d) <= 5
         /\ 10 * EarlyDifficult(d) - 3 * Phase(d) >= -5
<1> DEFINE h == Phase(d)
           tenths == 3 * h
           down == tenths \div 10
           rest == tenths % 10
<1>1. h \in Nat
  BY DEF Phase
<1> HIDE DEF h
<1>2. down \in Nat /\ rest \in 0..9 /\ 3 * h = 10 * down + rest
  BY <1>1
<1>3. EarlyDifficult(d) = IF rest < 5 \/ (rest = 5 /\ down % 2 = 0) THEN down ELSE down + 1
  BY DEF EarlyDifficult, h
<1> HIDE DEF tenths, down, rest
<1>4. \/ rest <= 5 /\ EarlyDifficult(d) = down
      \/ rest >= 5 /\ EarlyDifficult(d) = down + 1
  BY <1>2, <1>3
<1> QED BY <1>1, <1>2, <1>4 DEF h

(***************************************************************************)
(* The two halves.                                                         *)
(***************************************************************************)

EarlyE(d) == SubSeq(Easy(d), 1, EarlyEasy(d))
EarlyD(d) == SubSeq(Difficult(d), 1, EarlyDifficult(d))
LateD(d)  == SubSeq(Difficult(d), EarlyDifficult(d) + 1, Len(Difficult(d)))
LateE(d)  == SubSeq(Easy(d), EarlyEasy(d) + 1, Len(Easy(d)))
EarlyHalf(d) == Weave(EarlyE(d), EarlyD(d))
LateHalf(d)  == Weave(LateD(d), LateE(d))

\* Four parts: the easy and the difficult records up to and from a place.
LEMMA PartsFit ==
  ASSUME NEW d, Len(d) \in Nat \ {0}, Reorderable(d)
  PROVE  /\ Phase(d) \in Nat \ {0} /\ Len(d) = 2 * Phase(d)
         /\ EarlyEasy(d) \in Nat /\ EarlyEasy(d) <= Len(Easy(d))
         /\ EarlyDifficult(d) \in Nat /\ EarlyDifficult(d) <= Len(Difficult(d))
         /\ EarlyEasy(d) + EarlyDifficult(d) = Phase(d)
         /\ Len(Easy(d)) \in Nat /\ Len(Difficult(d)) \in Nat
         /\ Len(Easy(d)) + Len(Difficult(d)) = Len(d)
<1>1. Len(d) % 2 = 0 /\ Len(Easy(d)) >= EarlyEasy(d) /\ Len(Difficult(d)) >= EarlyDifficult(d)
  BY DEF Reorderable
<1>2. Phase(d) \in Nat \ {0} /\ Len(d) = 2 * Phase(d)
  BY <1>1 DEF Phase
<1>3. Phase(d) \in Nat /\ EarlyDifficult(d) \in 0..Phase(d)
  BY EarlyCount
<1>4. /\ Len(Easy(d)) + Len(Difficult(d)) = Len(d)
      /\ Len(Easy(d)) \in Nat /\ Len(Difficult(d)) \in Nat
  BY ClassesListed DEF Lists
<1>5. EarlyEasy(d) \in Nat /\ EarlyEasy(d) + EarlyDifficult(d) = Phase(d)
  BY <1>3 DEF EarlyEasy
<1> QED BY <1>1, <1>2, <1>3, <1>4, <1>5

LEMMA HalvesWoven ==
  ASSUME NEW d, Len(d) \in Nat \ {0}, Reorderable(d)
  PROVE  /\ Woven(EarlyHalf(d), EarlyE(d), EarlyD(d), EasySet(d), HardSet(d), Phase(d))
         /\ Woven(LateHalf(d), LateD(d), LateE(d), HardSet(d), EasySet(d), Phase(d))
         /\ Len(EarlyD(d)) = EarlyDifficult(d) /\ Len(EarlyE(d)) = EarlyEasy(d)
         /\ Len(LateE(d)) = Len(Easy(d)) - EarlyEasy(d)
         /\ Len(LateD(d)) = Len(Difficult(d)) - EarlyDifficult(d)
         /\ \A k \in 1..Len(EarlyE(d)) : EarlyE(d)[k] = Easy(d)[k]
         /\ \A k \in 1..Len(EarlyD(d)) : EarlyD(d)[k] = Difficult(d)[k]
         /\ \A k \in 1..Len(LateE(d)) : LateE(d)[k] = Easy(d)[EarlyEasy(d) + k]
         /\ \A k \in 1..Len(LateD(d)) : LateD(d)[k] = Difficult(d)[EarlyDifficult(d) + k]
<1> DEFINE h == Phase(d)
           e == EarlyEasy(d)
           m == EarlyDifficult(d)
           a == Len(Easy(d))
           b == Len(Difficult(d))
<1>1. /\ h \in Nat \ {0} /\ e \in Nat /\ e <= a /\ m \in Nat /\ m <= b /\ e + m = h
      /\ a \in Nat /\ b \in Nat /\ a + b = 2 * h
  BY PartsFit
<1>2. Len(d) \in Nat
  OBVIOUS
<1>3. /\ EasySet(d) \in SUBSET Nat /\ HardSet(d) \in SUBSET Nat
      /\ EasySet(d) \cap HardSet(d) = {} /\ HardSet(d) \cap EasySet(d) = {}
      /\ Rising(Easy(d), EasySet(d)) /\ Rising(Difficult(d), HardSet(d))
  BY <1>2, ClassesListed, ListsRise
<1> HIDE DEF h, e, m, a, b
<1>4. /\ Rising(EarlyE(d), EasySet(d)) /\ Len(EarlyE(d)) = e
      /\ \A k \in 1..e : EarlyE(d)[k] = Easy(d)[k]
  <2>1. /\ Rising(SubSeq(Easy(d), 1, e), EasySet(d)) /\ Len(SubSeq(Easy(d), 1, e)) = e - 1 + 1
        /\ \A k \in 1..e - 1 + 1 : SubSeq(Easy(d), 1, e)[k] = Easy(d)[1 + k - 1]
    <3>1. 1 \in Nat \ {0} /\ 1 <= e + 1 /\ e <= Len(Easy(d))
      BY <1>1 DEF a
    <3> QED BY <1>1, <1>3, <3>1, PartRises
  <2>2. e - 1 + 1 = e /\ \A k \in 1..e : 1 + k - 1 = k
    BY <1>1
  <2> QED BY <2>1, <2>2 DEF EarlyE, e
<1>5. /\ Rising(EarlyD(d), HardSet(d)) /\ Len(EarlyD(d)) = m
      /\ \A k \in 1..m : EarlyD(d)[k] = Difficult(d)[k]
  <2>1. /\ Rising(SubSeq(Difficult(d), 1, m), HardSet(d)) /\ Len(SubSeq(Difficult(d), 1, m)) = m - 1 + 1
        /\ \A k \in 1..m - 1 + 1 : SubSeq(Difficult(d), 1, m)[k] = Difficult(d)[1 + k - 1]
    <3>1. 1 \in Nat \ {0} /\ 1 <= m + 1 /\ m <= Len(Difficult(d))
      BY <1>1 DEF b
    <3> QED BY <1>1, <1>3, <3>1, PartRises
  <2>2. m - 1 + 1 = m /\ \A k \in 1..m : 1 + k - 1 = k
    BY <1>1
  <2> QED BY <2>1, <2>2 DEF EarlyD, m
<1>6. /\ Rising(LateE(d), EasySet(d)) /\ Len(LateE(d)) = a - e
      /\ \A k \in 1..a - e : LateE(d)[k] = Easy(d)[e + k]
  <2>1. /\ Rising(SubSeq(Easy(d), e + 1, a), EasySet(d))
        /\ Len(SubSeq(Easy(d), e + 1, a)) = a - (e + 1) + 1
        /\ \A k \in 1..a - (e + 1) + 1 : SubSeq(Easy(d), e + 1, a)[k] = Easy(d)[e + 1 + k - 1]
    <3>1. e + 1 \in Nat \ {0} /\ e + 1 <= a + 1 /\ a <= Len(Easy(d))
      BY <1>1 DEF a
    <3> QED BY <1>1, <1>3, <3>1, PartRises
  <2>2. a - (e + 1) + 1 = a - e /\ \A k \in 1..a - e : e + 1 + k - 1 = e + k
    BY <1>1
  <2> QED BY <2>1, <2>2 DEF LateE, e, a
<1>7. /\ Rising(LateD(d), HardSet(d)) /\ Len(LateD(d)) = b - m
      /\ \A k \in 1..b - m : LateD(d)[k] = Difficult(d)[m + k]
  <2>1. /\ Rising(SubSeq(Difficult(d), m + 1, b), HardSet(d))
        /\ Len(SubSeq(Difficult(d), m + 1, b)) = b - (m + 1) + 1
        /\ \A k \in 1..b - (m + 1) + 1 : SubSeq(Difficult(d), m + 1, b)[k] = Difficult(d)[m + 1 + k - 1]
    <3>1. m + 1 \in Nat \ {0} /\ m + 1 <= b + 1 /\ b <= Len(Difficult(d))
      BY <1>1 DEF b
    <3> QED BY <1>1, <1>3, <3>1, PartRises
  <2>2. b - (m + 1) + 1 = b - m /\ \A k \in 1..b - m : m + 1 + k - 1 = m + k
    BY <1>1
  <2> QED BY <2>1, <2>2 DEF LateD, m, b
<1>8. Woven(EarlyHalf(d), EarlyE(d), EarlyD(d), EasySet(d), HardSet(d), h)
  <2>1. h = Len(EarlyE(d)) + Len(EarlyD(d))
    BY <1>1, <1>4, <1>5
  <2> QED BY <1>1, <1>3, <1>4, <1>5, <2>1, WeaveWoven DEF EarlyHalf
<1>9. Woven(LateHalf(d), LateD(d), LateE(d), HardSet(d), EasySet(d), h)
  <2>1. h = Len(LateD(d)) + Len(LateE(d))
    <3> DEFINE u == Len(LateD(d))
               v == Len(LateE(d))
    <3>1. u = b - m /\ v = a - e
      BY <1>6, <1>7
    <3> HIDE DEF u, v
    <3>2. h = u + v
      BY <1>1, <3>1
    <3> QED BY <3>2 DEF u, v
  <2> QED BY <1>1, <1>3, <1>6, <1>7, <2>1, WeaveWoven DEF LateHalf
<1> QED BY <1>4, <1>5, <1>6, <1>7, <1>8, <1>9 DEF h, e, m, a, b

\* The order is one half after the other.
LEMMA ReorderedHalves ==
  ASSUME NEW d, Len(d) \in Nat \ {0}, Reorderable(d)
  PROVE  /\ Len(Reordered(d)) = Len(d) /\ DOMAIN Reordered(d) = 1..Len(d)
         /\ \A i \in 1..Phase(d) : Reordered(d)[i] = EarlyHalf(d)[i]
         /\ \A i \in 1..Phase(d) : Reordered(d)[Phase(d) + i] = LateHalf(d)[i]
         /\ SubSeq(Reordered(d), 1, Phase(d)) = EarlyHalf(d)
         /\ SubSeq(Reordered(d), Phase(d) + 1, Len(d)) = LateHalf(d)
<1> DEFINE h == Phase(d)
           U == EasySet(d) \cup HardSet(d)
           x == EarlyHalf(d)
           y == LateHalf(d)
           r == Reordered(d)
<1>1. h \in Nat \ {0} /\ Len(d) = 2 * h
  BY PartsFit
<1>2. r = x \o y
  BY DEF Reordered, EarlyHalf, LateHalf, EarlyE, EarlyD, LateD, LateE
<1>3. Len(x) = h /\ x \in [1..h -> U] /\ Len(y) = h /\ y \in [1..h -> U]
  <2>1. HardSet(d) \cup EasySet(d) = U
    OBVIOUS
  <2> QED BY <2>1, HalvesWoven DEF Woven
<1> HIDE DEF h, U, x, y, r
<1>4. x \in Seq(U) /\ y \in Seq(U)
  BY <1>1, <1>3
<1>5. /\ r \in Seq(U) /\ Len(r) = h + h
      /\ \A i \in 1..h + h : r[i] = IF i <= h THEN x[i] ELSE y[i - h]
  <2>1. /\ x \o y \in Seq(U) /\ Len(x \o y) = Len(x) + Len(y)
        /\ \A i \in 1..Len(x) + Len(y) : (x \o y)[i] = IF i <= Len(x) THEN x[i] ELSE y[i - Len(x)]
    BY <1>4, ConcatProperties
  <2>2. Len(x) = h /\ Len(y) = h
    BY <1>3
  <2> QED BY <1>2, <2>1, <2>2, Zenon
<1>6. Len(r) = Len(d) /\ DOMAIN r = 1..Len(d)
  BY <1>1, <1>5
<1>7. \A i \in 1..h : r[i] = x[i]
  BY <1>1, <1>5
<1>8. \A i \in 1..h : r[h + i] = y[i]
  <2> SUFFICES ASSUME NEW i \in 1..h PROVE r[h + i] = y[i]
    OBVIOUS
  <2>1. h + i \in 1..h + h /\ ~(h + i <= h) /\ (h + i) - h = i
    BY <1>1
  <2> DEFINE j == h + i
  <2>2. j \in 1..h + h /\ ~(j <= h) /\ j - h = i
    BY <2>1
  <2> HIDE DEF j
  <2>3. r[j] = y[j - h]
    BY <1>5, <2>2
  <2> QED BY <2>2, <2>3 DEF j
<1>9. SubSeq(r, 1, h) = x
  <2>1. 1 \in 1..Len(x) /\ h \in 1..Len(x)
    BY <1>1, <1>3
  <2>2. SubSeq(r, 1, h) = SubSeq(x, 1, h)
    BY <1>2, <1>4, <2>1, SubSeqOfConcat1
  <2>3. SubSeq(x, 1, Len(x)) = x
    BY <1>4, SubSeqFull
  <2> QED BY <1>3, <2>2, <2>3
<1>10. SubSeq(r, h + 1, Len(d)) = y
  <2>1. /\ h + 1 \in Len(x) + 1..Len(x) + Len(y) /\ Len(d) \in Len(x) + 1..Len(x) + Len(y)
        /\ (h + 1) - Len(x) = 1 /\ Len(d) - Len(x) = h
    BY <1>1, <1>3
  <2>2. SubSeq(r, h + 1, Len(d)) = SubSeq(y, (h + 1) - Len(x), Len(d) - Len(x))
    <3> DEFINE lo == h + 1
               hi == Len(d)
    <3>1. lo \in Len(x) + 1..Len(x) + Len(y) /\ hi \in Len(x) + 1..Len(x) + Len(y)
      BY <2>1
    <3> HIDE DEF lo, hi
    <3>2. SubSeq(x \o y, lo, hi) = SubSeq(y, lo - Len(x), hi - Len(x))
      BY <1>4, <3>1, SubSeqOfConcat2
    <3>3. SubSeq(r, lo, hi) = SubSeq(y, lo - Len(x), hi - Len(x))
      BY <1>2, <3>2
    <3> QED BY <3>3 DEF lo, hi
  <2>3. SubSeq(y, 1, Len(y)) = y
    BY <1>4, SubSeqFull
  <2> QED BY <1>3, <2>1, <2>2, <2>3
<1> QED BY <1>6, <1>7, <1>8, <1>9, <1>10 DEF h, x, y, r

\* Within a class, the first half has the earlier records.
LEMMA HalvesApart ==
  ASSUME NEW d, Len(d) \in Nat \ {0}, Reorderable(d),
         NEW i \in 1..Phase(d), NEW j \in 1..Phase(d)
  PROVE  (EarlyHalf(d)[i] \in EasySet(d) <=> LateHalf(d)[j] \in EasySet(d)) =>
           EarlyHalf(d)[i] < LateHalf(d)[j]
<1> DEFINE e == EarlyEasy(d)
           m == EarlyDifficult(d)
           a == Len(Easy(d))
           b == Len(Difficult(d))
           v == EarlyHalf(d)[i]
           w == LateHalf(d)[j]
<1>1. e \in Nat /\ e <= a /\ m \in Nat /\ m <= b /\ a \in Nat /\ b \in Nat
  BY PartsFit
<1>2. Len(d) \in Nat
  OBVIOUS
<1>3. /\ \A k \in 1..a : Easy(d)[k] \in EasySet(d)
      /\ \A k \in 1..b : Difficult(d)[k] \in HardSet(d)
      /\ \A k, l \in 1..a : k < l => Easy(d)[k] < Easy(d)[l]
      /\ \A k, l \in 1..b : k < l => Difficult(d)[k] < Difficult(d)[l]
      /\ EasySet(d) \cap HardSet(d) = {}
  BY <1>2, ClassesListed DEF Lists
<1>4. \/ \E k \in 1..e : v = Easy(d)[k]
      \/ \E k \in 1..m : v = Difficult(d)[k]
  <2>1. \/ \E k \in 1..Len(EarlyE(d)) : v = EarlyE(d)[k]
        \/ \E k \in 1..Len(EarlyD(d)) : v = EarlyD(d)[k]
    BY HalvesWoven DEF Woven
  <2>2. /\ \A k \in 1..Len(EarlyE(d)) : k \in 1..e /\ EarlyE(d)[k] = Easy(d)[k]
        /\ \A k \in 1..Len(EarlyD(d)) : k \in 1..m /\ EarlyD(d)[k] = Difficult(d)[k]
    BY HalvesWoven
  <2> HIDE DEF e, m, v
  <2> QED BY <2>1, <2>2, Zenon
<1>5. \/ \E k \in 1..a - e : w = Easy(d)[e + k]
      \/ \E k \in 1..b - m : w = Difficult(d)[m + k]
  <2>1. \/ \E k \in 1..Len(LateE(d)) : w = LateE(d)[k]
        \/ \E k \in 1..Len(LateD(d)) : w = LateD(d)[k]
    BY HalvesWoven DEF Woven
  <2>2. /\ \A k \in 1..Len(LateE(d)) : k \in 1..a - e /\ LateE(d)[k] = Easy(d)[e + k]
        /\ \A k \in 1..Len(LateD(d)) : k \in 1..b - m /\ LateD(d)[k] = Difficult(d)[m + k]
    BY HalvesWoven
  <2> HIDE DEF e, m, a, b, w
  <2> QED BY <2>1, <2>2, Zenon
<1> HIDE DEF e, m, a, b, v, w
<1>6. CASE \E k \in 1..e : v = Easy(d)[k]
  <2>1. PICK k \in 1..e : v = Easy(d)[k]
    BY <1>6
  <2>2. k \in 1..a /\ v \in EasySet(d)
    BY <1>1, <1>3, <2>1
  <2>3. CASE \E l \in 1..a - e : w = Easy(d)[e + l]
    <3>1. PICK l \in 1..a - e : w = Easy(d)[e + l]
      BY <2>3
    <3>2. e + l \in 1..a /\ k < e + l
      BY <1>1
    <3>3. Easy(d)[k] < Easy(d)[e + l]
      BY <1>3, <2>2, <3>2
    <3> QED BY <2>1, <3>1, <3>3 DEF v, w
  <2>4. CASE \E l \in 1..b - m : w = Difficult(d)[m + l]
    <3>1. PICK l \in 1..b - m : w = Difficult(d)[m + l]
      BY <2>4
    <3>2. m + l \in 1..b
      BY <1>1
    <3>3. w \notin EasySet(d)
      BY <1>3, <3>1, <3>2
    <3> QED BY <2>2, <3>3 DEF v, w
  <2> QED BY <1>5, <2>3, <2>4
<1>7. CASE \E k \in 1..m : v = Difficult(d)[k]
  <2>1. PICK k \in 1..m : v = Difficult(d)[k]
    BY <1>7
  <2>2. k \in 1..b
    BY <1>1
  <2>5. v \notin EasySet(d)
    BY <1>3, <2>1, <2>2
  <2>3. CASE \E l \in 1..b - m : w = Difficult(d)[m + l]
    <3>1. PICK l \in 1..b - m : w = Difficult(d)[m + l]
      BY <2>3
    <3>2. m + l \in 1..b /\ k < m + l
      BY <1>1
    <3>3. Difficult(d)[k] < Difficult(d)[m + l]
      BY <1>3, <2>2, <3>2
    <3> QED BY <2>1, <3>1, <3>3 DEF v, w
  <2>4. CASE \E l \in 1..a - e : w = Easy(d)[e + l]
    <3>1. PICK l \in 1..a - e : w = Easy(d)[e + l]
      BY <2>4
    <3>2. e + l \in 1..a
      BY <1>1
    <3>3. w \in EasySet(d)
      BY <1>3, <3>1, <3>2
    <3> QED BY <2>5, <3>3 DEF v, w
  <2> QED BY <1>5, <2>3, <2>4
<1> QED BY <1>4, <1>6, <1>7

LEMMA ReorderedComplete ==
  ASSUME NEW d, Len(d) \in Nat \ {0}, Reorderable(d)
  PROVE  ToSet(Reordered(d)) = 1..Len(d)
<1> DEFINE h == Phase(d)
           n == Len(d)
           e == EarlyEasy(d)
           m == EarlyDifficult(d)
           a == Len(Easy(d))
           b == Len(Difficult(d))
           r == Reordered(d)
<1>1. /\ h \in Nat \ {0} /\ n = 2 * h
      /\ e \in Nat /\ e <= a /\ m \in Nat /\ m <= b /\ a \in Nat /\ b \in Nat
  BY PartsFit
<1>2. DOMAIN r = 1..n /\ (\A i \in 1..h : r[i] = EarlyHalf(d)[i])
      /\ \A i \in 1..h : r[h + i] = LateHalf(d)[i]
  BY ReorderedHalves
<1>3. \A i \in 1..h : i \in 1..n /\ h + i \in 1..n
  BY <1>1
<1>4. Len(d) \in Nat /\ EasySet(d) \cup HardSet(d) = 1..n
  <2>1. Len(d) \in Nat
    OBVIOUS
  <2> QED BY <2>1, ClassesListed
<1>5. \A i \in 1..h : EarlyHalf(d)[i] \in 1..n /\ LateHalf(d)[i] \in 1..n
  <2>1. HardSet(d) \cup EasySet(d) = EasySet(d) \cup HardSet(d)
    OBVIOUS
  <2>2. EarlyHalf(d) \in [1..h -> EasySet(d) \cup HardSet(d)]
    BY HalvesWoven DEF Woven
  <2>3. LateHalf(d) \in [1..h -> EasySet(d) \cup HardSet(d)]
    BY <2>1, HalvesWoven DEF Woven
  <2> QED BY <1>4, <2>2, <2>3
<1>6. /\ \A k \in 1..e : \E i \in 1..h : EarlyHalf(d)[i] = Easy(d)[k]
      /\ \A k \in 1..m : \E i \in 1..h : EarlyHalf(d)[i] = Difficult(d)[k]
      /\ \A k \in 1..a - e : \E i \in 1..h : LateHalf(d)[i] = Easy(d)[e + k]
      /\ \A k \in 1..b - m : \E i \in 1..h : LateHalf(d)[i] = Difficult(d)[m + k]
  BY HalvesWoven DEF Woven
<1>7. /\ \A x \in EasySet(d) : \E k \in 1..a : Easy(d)[k] = x
      /\ \A x \in HardSet(d) : \E k \in 1..b : Difficult(d)[k] = x
  BY <1>4, ClassesListed DEF Lists
<1> HIDE DEF h, n, e, m, a, b, r
<1>8. \A i \in 1..n : r[i] \in 1..n
  <2> SUFFICES ASSUME NEW i \in 1..n PROVE r[i] \in 1..n
    OBVIOUS
  <2>1. CASE i <= h
    <3>1. i \in 1..h
      BY <1>1, <2>1
    <3> QED BY <1>2, <1>5, <3>1
  <2>2. CASE i > h
    <3> DEFINE j == i - h
    <3>1. j \in 1..h /\ i = h + j
      BY <1>1, <2>2
    <3> HIDE DEF j
    <3> QED BY <1>2, <1>5, <3>1
  <2> QED BY <1>1, <2>1, <2>2
<1>9. ASSUME NEW x \in 1..n PROVE \E i \in 1..n : r[i] = x
  <2>1. CASE x \in EasySet(d)
    <3>1. PICK k \in 1..a : Easy(d)[k] = x
      BY <1>7, <2>1
    <3>2. CASE k <= e
      <4>1. k \in 1..e
        BY <1>1, <3>2
      <4> QED BY <1>2, <1>3, <1>6, <3>1, <4>1
    <3>3. CASE k > e
      <4> DEFINE l == k - e
      <4>1. l \in 1..a - e /\ k = e + l
        BY <1>1, <3>3
      <4> HIDE DEF l
      <4> QED BY <1>2, <1>3, <1>6, <3>1, <4>1
    <3> QED BY <1>1, <3>2, <3>3
  <2>2. CASE x \in HardSet(d)
    <3>1. PICK k \in 1..b : Difficult(d)[k] = x
      BY <1>7, <2>2
    <3>2. CASE k <= m
      <4>1. k \in 1..m
        BY <1>1, <3>2
      <4> QED BY <1>2, <1>3, <1>6, <3>1, <4>1
    <3>3. CASE k > m
      <4> DEFINE l == k - m
      <4>1. l \in 1..b - m /\ k = m + l
        BY <1>1, <3>3
      <4> HIDE DEF l
      <4> QED BY <1>2, <1>3, <1>6, <3>1, <4>1
    <3> QED BY <1>1, <3>2, <3>3
  <2> QED BY <1>4, <2>1, <2>2
<1>10. ToSet(r) = 1..n
  BY <1>2, <1>8, <1>9 DEF ToSet
<1> QED BY <1>10 DEF r, n

LEMMA ReorderedStable ==
  ASSUME NEW d, Len(d) \in Nat \ {0}, Reorderable(d),
         NEW i \in 1..Len(d), NEW j \in 1..Len(d), i < j,
         d[Reordered(d)[i]] = d[Reordered(d)[j]]
  PROVE  Reordered(d)[i] < Reordered(d)[j]
<1> DEFINE h == Phase(d)
           n == Len(d)
           r == Reordered(d)
           A == EasySet(d)
           B == HardSet(d)
<1>1. h \in Nat \ {0} /\ n = 2 * h
  BY PartsFit
<1>2. (\A k \in 1..h : r[k] = EarlyHalf(d)[k]) /\ \A k \in 1..h : r[h + k] = LateHalf(d)[k]
  BY ReorderedHalves
<1>3. r[i] \in 1..n /\ r[j] \in 1..n
  <2>1. DOMAIN r = 1..n /\ ToSet(r) = 1..n
    BY ReorderedHalves, ReorderedComplete
  <2> QED BY <2>1 DEF ToSet
<1>4. (r[i] \in A <=> r[j] \in A) /\ (r[i] \in B <=> r[j] \in B)
  BY <1>3, Zenon DEF EasySet, HardSet
<1>5. /\ \A k, l \in 1..h :
           k < l /\ (EarlyHalf(d)[k] \in A <=> EarlyHalf(d)[l] \in A) => EarlyHalf(d)[k] < EarlyHalf(d)[l]
      /\ \A k, l \in 1..h :
           k < l /\ (LateHalf(d)[k] \in B <=> LateHalf(d)[l] \in B) => LateHalf(d)[k] < LateHalf(d)[l]
  BY HalvesWoven, Zenon DEF Woven
<1> HIDE DEF h, n, r, A, B
<1>6. CASE j <= h
  <2>1. i \in 1..h /\ j \in 1..h
    BY <1>1, <1>6 DEF n
  <2> QED BY <1>2, <1>4, <1>5, <2>1 DEF r
<1>7. CASE i > h
  <2> DEFINE k == i - h
             l == j - h
  <2>1. k \in 1..h /\ l \in 1..h /\ k < l /\ i = h + k /\ j = h + l
    BY <1>1, <1>7 DEF n
  <2> HIDE DEF k, l
  <2> QED BY <1>2, <1>4, <1>5, <2>1 DEF r
<1>8. CASE i <= h /\ j > h
  <2> DEFINE l == j - h
  <2>1. i \in 1..h /\ l \in 1..h /\ j = h + l
    BY <1>1, <1>8 DEF n
  <2> HIDE DEF l
  <2>2. r[i] = EarlyHalf(d)[i] /\ r[j] = LateHalf(d)[l]
    BY <1>2, <2>1
  <2>3. (EarlyHalf(d)[i] \in A <=> LateHalf(d)[l] \in A) => EarlyHalf(d)[i] < LateHalf(d)[l]
    BY <2>1, HalvesApart DEF h, A
  <2> QED BY <1>4, <2>2, <2>3 DEF r
<1> QED BY <1>1, <1>6, <1>7, <1>8 DEF n

\* A dataset in whose first half there are enough records of both classes is
\* mixed: all that CurriculumMixes says of its order.
LEMMA OrderMixes ==
  ASSUME setup.easy \in Seq(BOOLEAN), setup.easy # <<>>
  PROVE  CurriculumMixes
<1> DEFINE d == setup.easy
           h == Phase(d)
           n == Size
           r == Reordered(d)
           early == SubSeq(r, 1, h)
           late == SubSeq(r, h + 1, n)
           easy == ToSet(Easy(d))
           hard == ToSet(Difficult(d))
<1>1. n = Len(d) /\ Len(d) \in Nat \ {0} /\ Len(d) \in Nat
  BY EmptySeq DEF Size
<1> SUFFICES ASSUME Reorderable(d)
             PROVE  /\ Len(r) = n /\ ToSet(r) = 1..n
                    /\ \A i, j \in 1..n : i < j /\ d[r[i]] = d[r[j]] => r[i] < r[j]
                    /\ 10 * Among(early, h, hard) - 3 * h <= 5
                    /\ 10 * Among(early, h, hard) - 3 * h >= -5
                    /\ Len(Easy(d)) = Len(Difficult(d)) => Among(late, h, easy) = Among(early, h, hard)
                    /\ Spread(early, easy) /\ Spread(early, hard)
                    /\ Spread(late, easy) /\ Spread(late, hard)
  BY DEF CurriculumMixes
<1>2. easy = EasySet(d) /\ hard = HardSet(d)
  BY <1>1, ClassesListed, ListsRise
<1>3. /\ h \in Nat \ {0} /\ n = 2 * h
      /\ EarlyEasy(d) + EarlyDifficult(d) = h /\ EarlyEasy(d) \in Nat /\ EarlyDifficult(d) \in Nat
      /\ Len(Easy(d)) \in Nat /\ Len(Difficult(d)) \in Nat
      /\ Len(Easy(d)) + Len(Difficult(d)) = n
      /\ EarlyEasy(d) <= Len(Easy(d)) /\ EarlyDifficult(d) <= Len(Difficult(d))
  BY <1>1, PartsFit
<1>4. Len(r) = n /\ early = EarlyHalf(d) /\ late = LateHalf(d)
  BY <1>1, ReorderedHalves
<1>5. ToSet(r) = 1..n
  BY <1>1, ReorderedComplete
<1>6. \A i, j \in 1..n : i < j /\ d[r[i]] = d[r[j]] => r[i] < r[j]
  BY <1>1, ReorderedStable
<1>7. /\ Woven(EarlyHalf(d), EarlyE(d), EarlyD(d), EasySet(d), HardSet(d), h)
      /\ Woven(LateHalf(d), LateD(d), LateE(d), HardSet(d), EasySet(d), h)
      /\ Len(EarlyD(d)) = EarlyDifficult(d)
      /\ Len(LateE(d)) = Len(Easy(d)) - EarlyEasy(d)
  BY <1>1, HalvesWoven
<1> HIDE DEF d, h, n, r, early, late, easy, hard
<1>8. EarlyDifficult(d) \in 0..h /\ Len(Easy(d)) - EarlyEasy(d) \in 0..h
  BY <1>3
<1>9. /\ Among(early, h, hard) = EarlyDifficult(d)
      /\ Spread(early, easy) /\ Spread(early, hard)
  BY <1>2, <1>3, <1>4, <1>7, <1>8, WovenSpreads
<1>10. /\ Among(late, h, easy) = Len(Easy(d)) - EarlyEasy(d)
       /\ Spread(late, easy) /\ Spread(late, hard)
  BY <1>2, <1>3, <1>4, <1>7, <1>8, WovenSpreads
<1>11. 10 * EarlyDifficult(d) - 3 * h <= 5 /\ 10 * EarlyDifficult(d) - 3 * h >= -5
  BY <1>1, EarlyCount DEF h
<1>12. Len(Easy(d)) = Len(Difficult(d)) => Len(Easy(d)) - EarlyEasy(d) = EarlyDifficult(d)
  BY <1>3
<1> QED BY <1>4, <1>5, <1>6, <1>9, <1>10, <1>11, <1>12

\* The second epoch's order has every record once, each class in its order and
\* spread over both halves as evenly as whole records can be, for a dataset of
\* any length and any mix (reorder_records and _weave).
THEOREM CurriculumIsMixed == Spec => []CurriculumMixes
<1>1. TrainingInv => CurriculumMixes
  <2> SUFFICES ASSUME TrainingInv PROVE CurriculumMixes
    OBVIOUS
  <2>1. setup.easy \in Seq(BOOLEAN) /\ setup.easy # <<>>
    BY TrainingAssumption DEF TrainingInv, StagesInv
  <2> QED BY <2>1, OrderMixes
<1> QED BY <1>1, TrainingInvariant, PTL
=============================================================================
