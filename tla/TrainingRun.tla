---------------------------- MODULE TrainingRun ----------------------------
(***************************************************************************)
(* Two epochs of training, across launches, crashes and resumptions: the   *)
(* checks before a launch (src/rlff/config.py, src/rlff/runtime), what the *)
(* trainer is then made of, the records it trains on, in which order       *)
(* (scripts/build_epoch2_dataset.py), and the step each group is weighted  *)
(* at.  How the exports of the run are kept is CheckpointRetention, what   *)
(* happens within a step ProxyGroup and RoleAdvantages.                    *)
(***************************************************************************)
EXTENDS Integers, Sequences, FiniteSets, SequencesExt

CONSTANTS
  Setups,      \* the files a run may start from
  Absent,      \* a field that a file leaves out
  SaveEvery,   \* steps between two recovery checkpoints
  MaxCrashes

\* A setup is a record: easy, whether a record of the dataset is easy, by its
\* position; config and yaml, the two files of each epoch; adapter, the adapter
\* directories by path; env, the adapter the shell selects, if any.
ASSUME TrainingAssumption ==
  /\ SaveEvery \in Nat \ {0} /\ MaxCrashes \in Nat
  /\ \A s \in Setups :
       /\ s.easy \in Seq(BOOLEAN) /\ s.easy # <<>>
       /\ \A e \in {1, 2} : s.config[e].adapter \in DOMAIN s.adapter

VARIABLES
  setup,
  stage,    \* down, training, saving, refused or over
  epoch,    \* the epoch whose files the last launch used
  trainer,  \* what the parts of the running trainer were given
  history,  \* the steps behind the weights: the record and the weight step
  cursor,   \* records of the epoch the data loader has handed out
  local,    \* the agent's own schedule step
  saved,    \* history and cursor of the recovery checkpoint
  crashes

vars == <<setup, stage, epoch, trainer, history, cursor, local, saved, crashes>>

Init ==
  /\ setup \in Setups
  /\ stage = "down" /\ epoch = 1
  /\ trainer = Absent
  /\ history = <<>> /\ cursor = 0 /\ local = 0
  /\ saved = [history |-> <<>>, cursor |-> 0]
  /\ crashes = 0

Size == Len(setup.easy)

(***************************************************************************)
(* The dataset of the second epoch, from d, whether each record is easy:   *)
(* of each half, one class is spread among the other.                      *)
(***************************************************************************)

\* The positions of S in their order: up to the k-th there are k.
Ascending(S) ==
  [k \in 1..Cardinality(S) |-> CHOOSE i \in S : Cardinality({j \in S : j <= i}) = k]

Easy(d)      == Ascending({i \in 1..Len(d) : d[i]})
Difficult(d) == Ascending({i \in 1..Len(d) : ~d[i]})

\* Faulty Quota: rounded down.
QuotaDown(p, secondary, total) == (p * secondary) \div total

\* How many of the secondary class come among the first p of a phase.
Quota(p, secondary, total) == (p * secondary + total \div 2) \div total

Weave(primary, secondary) ==
  LET total == Len(primary) + Len(secondary)
      quota(p) == Quota(p, Len(secondary), total)
  IN [p \in 1..total |-> IF quota(p) > quota(p - 1) THEN secondary[quota(p)]
                         ELSE primary[p - quota(p)]]

Phase(d) == Len(d) \div 2

\* 30 per cent of a phase, halves to the even number.
EarlyDifficult(d) ==
  LET tenths == 3 * Phase(d)  down == tenths \div 10  rest == tenths % 10 IN
  IF rest < 5 \/ (rest = 5 /\ down % 2 = 0) THEN down ELSE down + 1

EarlyEasy(d) == Phase(d) - EarlyDifficult(d)

Reorderable(d) ==
  /\ Len(d) % 2 = 0
  /\ Len(Easy(d)) >= EarlyEasy(d)
  /\ Len(Difficult(d)) >= EarlyDifficult(d)

Reordered(d) ==
  Weave(SubSeq(Easy(d), 1, EarlyEasy(d)), SubSeq(Difficult(d), 1, EarlyDifficult(d)))
    \o Weave(SubSeq(Difficult(d), EarlyDifficult(d) + 1, Len(Difficult(d))),
             SubSeq(Easy(d), EarlyEasy(d) + 1, Len(Easy(d))))

Dataset(e) == IF e = 1 THEN [i \in 1..Size |-> i] ELSE Reordered(setup.easy)

(***************************************************************************)
(* Launching.                                                              *)
(***************************************************************************)

\* The configuration alone: its fields are in range and AReaL's native group is
\* the group of the agent.
ConfigValid(c) == c.inRange /\ c.native = c.group

\* Faulty YamlAgrees: the group is left to the configuration.
YamlAgreesOnSampling(c, y) ==
  y.fixed /\ y.sampling = c.temperature /\ y.temperature = c.temperature

\* AReaL's YAML against the configuration, and the fields for which RLFF works
\* with one value only: LoRA, no normalisation, no KL, no discount.  A model path
\* that the YAML takes from another field is AReaL's to resolve: it is not compared.
YamlAgrees(c, y) ==
  /\ y.fixed
  /\ y.samples = c.native
  /\ y.sampling = c.temperature /\ y.temperature = c.temperature
  /\ y.interpolates \/ y.base \in {Absent, c.base}

\* The adapter against both; what a file leaves out is the adapter's own.  It
\* must be whole: a LoRA of a causal model, with its weights.
AdapterAgrees(c, y, a) ==
  /\ a.whole
  /\ a.base = c.base
  /\ c.rank \in {Absent, a.rank}
  /\ y.rank \in {Absent, a.rank}

\* A launch never changes the adapter that the shell selects.
EnvironmentAgrees(c) == setup.env \in {Absent, c.adapter}

Accepted(e) ==
  LET c == setup.config[e]  y == setup.yaml[e] IN
  /\ ConfigValid(c)
  /\ YamlAgrees(c, y)
  /\ AdapterAgrees(c, y, setup.adapter[c.adapter])
  /\ EnvironmentAgrees(c)
  /\ e = 2 => Reorderable(setup.easy)

\* The engine takes its group and its actor from the YAML, the agent its own
\* from the configuration, the workers the adapter from the environment.
TrainerOf(e) ==
  LET c == setup.config[e]  y == setup.yaml[e] IN
  [samples |-> y.samples, expected |-> c.group, adapter |-> c.adapter,
   base |-> IF y.base = Absent THEN c.base ELSE y.base, rank |-> y.rank,
   rollout |-> c.temperature, actor |-> y.temperature, scheduled |-> c.scheduled,
   fixed |-> y.fixed]

\* Faulty StartStep: resumed weights start over.
StartStepZero(checkpoint) == 0

\* Where the schedule starts: the step after the last one of the checkpoint.
StartStep(checkpoint) == Len(checkpoint.history)

\* The first epoch's files up to its end; from there the second's.
MayLaunch(e) ==
  IF e = 1 THEN Len(saved.history) < Size ELSE Len(saved.history) >= Size

Launch(e) ==
  /\ stage = "down"
  /\ MayLaunch(e)
  /\ epoch' = e
  /\ IF Accepted(e)
     THEN /\ stage' = "training"
          /\ trainer' = TrainerOf(e)
          /\ history' = saved.history /\ cursor' = saved.cursor
          /\ local' = StartStep(saved)
     ELSE stage' = "refused" /\ UNCHANGED <<trainer, history, cursor, local>>
  /\ UNCHANGED <<setup, saved, crashes>>

(***************************************************************************)
(* Training.                                                               *)
(***************************************************************************)

\* The version of the weights counts the steps behind them, also restored ones.
Version == Len(history)

\* With a schedule the trainer has the agent ask for the version.
WeightStep == IF trainer.scheduled THEN Version ELSE local

Due == Len(history') % SaveEvery = 0 \/ Len(history') % Size = 0

\* One group that was scored: AReaL trains on the next record.  What it does with
\* a group that failed is its own.
TrainStep ==
  /\ stage = "training"
  /\ Len(history) < epoch * Size
  /\ history' = Append(history, [record |-> Dataset(epoch)[cursor + 1], weights |-> WeightStep])
  /\ cursor' = (cursor + 1) % Size
  /\ local' = IF trainer.scheduled THEN local ELSE local + 1
  /\ stage' = IF Due THEN "saving" ELSE "training"
  /\ UNCHANGED <<setup, epoch, trainer, saved, crashes>>

Save ==
  /\ stage = "saving"
  /\ saved' = [history |-> history, cursor |-> cursor]
  /\ stage' = "training"
  /\ UNCHANGED <<setup, epoch, trainer, history, cursor, local, crashes>>

\* The epochs of the YAML are through.
Finish ==
  /\ stage = "training"
  /\ Len(history) = epoch * Size
  /\ stage' = IF epoch = 1 THEN "down" ELSE "over"
  /\ trainer' = Absent
  /\ UNCHANGED <<setup, epoch, history, cursor, local, saved, crashes>>

Crash ==
  /\ stage \in {"training", "saving"}
  /\ crashes < MaxCrashes
  /\ crashes' = crashes + 1
  /\ stage' = "down"
  /\ trainer' = Absent
  /\ UNCHANGED <<setup, epoch, history, cursor, local, saved>>

Stopped == stage \in {"refused", "over"} /\ UNCHANGED vars

Next ==
  \/ \E e \in {1, 2} : Launch(e)
  \/ TrainStep \/ Save \/ Finish \/ Crash
  \/ Stopped

Spec == Init /\ [][Next]_vars

(***************************************************************************)
(* Properties.                                                             *)
(***************************************************************************)

\* Whatever crashed, each step behind the weights is on the record whose turn
\* it was, every record once in each epoch and in the order of that epoch, and,
\* with a schedule, with the weights of its own step.
StepsInOrder ==
  \A i \in DOMAIN history :
    /\ history[i].record = (IF i <= Size THEN Dataset(1)[i] ELSE Dataset(2)[i - Size])
    /\ history[i].weights = i - 1

\* What the parts of a running trainer were given fits together, though each
\* read it from another file: AReaL starts as many runs of a record as the
\* agent waits for, actor and rollouts use one temperature, and the adapter is
\* the selected one, of the declared rank and made for the model, unless the YAML
\* takes the path of that one from another field.
TrainerFits ==
  trainer # Absent =>
    LET a == setup.adapter[trainer.adapter] IN
    /\ trainer.samples = trainer.expected
    /\ trainer.rollout = trainer.actor
    /\ trainer.fixed
    /\ a.whole
    /\ setup.yaml[epoch].interpolates \/ a.base = trainer.base
    /\ {trainer.rank, setup.config[epoch].rank} \subseteq {Absent, a.rank}
    /\ setup.env \in {Absent, trainer.adapter}

Among(sequence, p, S) == Cardinality({i \in 1..p : sequence[i] \in S})

\* total * count is as near to p * share as rounding allows.
Spread(sequence, S) ==
  LET total == Len(sequence)  share == Among(sequence, total, S) IN
  \A p \in 1..total :
    LET off == total * Among(sequence, p, S) - p * share IN
    2 * off <= total /\ -2 * off <= total

\* The second epoch has every record once, keeps the order within a class, has
\* 30 per cent difficult records in its first half, and the classes reversed in
\* the second if there are as many easy as difficult ones; every prefix of a
\* half has its share of both classes.
CurriculumMixes ==
  LET d == setup.easy  r == Reordered(d)
      early == SubSeq(r, 1, Phase(d))  late == SubSeq(r, Phase(d) + 1, Size)
      easy  == ToSet(Easy(d))          hard == ToSet(Difficult(d))
  IN Reorderable(d) =>
       /\ Len(r) = Size /\ ToSet(r) = 1..Size
       /\ \A i, j \in 1..Size : i < j /\ d[r[i]] = d[r[j]] => r[i] < r[j]
       /\ LET off == 10 * Among(early, Phase(d), hard) - 3 * Phase(d) IN off <= 5 /\ off >= -5
       /\ Len(Easy(d)) = Len(Difficult(d)) =>
            Among(late, Phase(d), easy) = Among(early, Phase(d), hard)
       /\ \A half \in {early, late} : Spread(half, easy) /\ Spread(half, hard)
=============================================================================
