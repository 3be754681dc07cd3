--------------------------- MODULE MCTrainingRun ---------------------------
EXTENDS TrainingRun

CONSTANTS small, big, first, second

Config(group, native, rank, path, temperature, scheduled) ==
  [inRange |-> TRUE, group |-> group, native |-> native, rank |-> rank, base |-> small,
   adapter |-> path, temperature |-> temperature, scheduled |-> scheduled]

Yaml(samples, rank, base, interpolates, temperature) ==
  [fixed |-> TRUE, samples |-> samples, rank |-> rank, base |-> base,
   interpolates |-> interpolates,
   sampling |-> temperature, temperature |-> temperature]

\* Two adapters, one for another model and of another rank.
TwoAdapters ==
  [p \in {first, second} |-> IF p = first THEN [whole |-> TRUE, base |-> small, rank |-> 1]
                             ELSE [whole |-> TRUE, base |-> big, rank |-> 2]]

Twice(x) == [e \in {1, 2} |-> x]

FittingConfig(scheduled) == Config(2, 2, 1, first, 1, scheduled)
FittingYaml == Yaml(2, 1, small, FALSE, 1)

\* Every dataset of up to eight records, with files that fit.
Fitting ==
  {[easy |-> easy, config |-> Twice(FittingConfig(scheduled)), yaml |-> Twice(FittingYaml),
    adapter |-> TwoAdapters, env |-> Absent] :
     easy \in UNION {[1..n -> BOOLEAN] : n \in {1, 4, 5, 6, 8}}, scheduled \in BOOLEAN}

\* Every combination of small files, for one dataset.
Mixed ==
  {[easy |-> <<TRUE, FALSE>>, config |-> Twice(Config(g, n, r, p, t, TRUE)),
    yaml |-> Twice(Yaml(s, q, b[1], b[2], u)), adapter |-> TwoAdapters, env |-> v] :
     g \in {2, 3}, n \in {2, 3}, s \in {2, 3}, r \in {1, 2, Absent}, q \in {1, 2, Absent},
     b \in {<<Absent, FALSE>>} \cup ({small, big} \X BOOLEAN), p \in {first, second},
     t \in {1, 2}, u \in {1, 2}, v \in {first, second, Absent}}

\* Files that are wrong in themselves, those of the first epoch or of the second.
Broken ==
  {[easy |-> <<TRUE, FALSE>>,
    config |-> [Twice(FittingConfig(TRUE)) EXCEPT ![e].inRange = v],
    yaml |-> [Twice(FittingYaml) EXCEPT ![e].fixed = w],
    adapter |-> [TwoAdapters EXCEPT ![first].whole = x], env |-> Absent] :
     e \in {1, 2}, v \in BOOLEAN, w \in BOOLEAN, x \in BOOLEAN}

AllSetups == Fitting \cup Mixed \cup Broken
=============================================================================
