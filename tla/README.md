# Formal models of RLFF

TLA+ modules, TLC configurations and TLAPS proofs for RLFF, the group-relative
RL trainer for multi-character role play in `src/rlff` (paths below are relative
to the repository root; the Python package is `src/rlff`).

Run everything from this directory:

    tlc -config group_static.cfg MCProxyGroup.tla     # one run of PROJECT.json
    tlapm ProxyGroupProofs.tla                        # the proofs of one module

## The system

A training step of RLFF goes through these parts.

| part | state | operations | talks to |
|---|---|---|---|
| **Proxy agent** `proxy/agent.py` | `_states` (group state per key), one future per group, `_sampling_decisions`, `_reward_schedule_step`, two locks | `run`, score task, `consume_group_sampling_decision` | AReaL sessions call `run`; the score task calls the reward provider |
| **Same-episode resampling** `proxy/dynamic_sampling.py` | attempt number of each episode in flight | `arun_episode`, `_merge` | starts the sessions, asks the agent for the decision |
| **Reward provider** `rewards/providers.py`, `transport.py`, `provider_base.py` | a semaphore per scope, the log writers | one call per trajectory, character and scope; retries and repair exchanges | model endpoint over HTTP |
| **Advantages** `proxy/normalization.py`, `grpo.py`, `rewards/aggregation.py`, `proxy/grouping.py` | none | normalisation within a group, the quality gate, the weight schedule, assignment to tokens | agent, offline engine, trainer |
| **Checkpoint retention** `runtime/types.py`, `runtime/integration.py` | export directories, recovery state | `_save_recover_checkpoint` override, `prune_old_hf_checkpoints` | AReaL saver and recover handler |
| **Offline rollout engine** `rollout/` | history and completions of each trajectory | `rollout_group`, one task per sample | a generation backend; the package's tests call it |
| **Audit and smoke tools** `rollout_audit.py`, `rollout_smoke.py` | exported batches, output files | generate groups outside training, compare what the actor makes of them | AReaL trainer, agent |
| **Episodes and curriculum** `episodes.py`, `scripts/build_epoch2_dataset.py` | none | projection of an episode to a character, reordering of records | data files |
| **Start-up** `config.py`, `runtime/preflight.py`, `adapter.py`, `training.py`, `cli.py` | none | validation, AReaL patches, launch | AReaL |
| **Contracts, prompts, payloads, logs** `contracts.py`, `rewards/prompts.py`, `rewards/payloads.py`, `rewards/protocol.py`, `observability.py` | none | field validation, templates, rows | everything |

The agent, the resampling wrapper and the provider run on one asyncio loop.
Control changes hands only at an `await` that suspends; an action of the models
is the code between two such points. The hard behaviour is there: runs that
wait for each other, timers and cancellations that hit at any suspension, a
score task that nobody cancels, a `gather` that leaves calls behind, and, in
the trainer, crashes between the export, the recovery state and the prune.

What makes each part correct:

- agent: a group is rewarded, rejected or failed as a whole; nobody waits
  forever; the registry holds a group exactly while it lives; the schedule
  step and the published decision say what the runs were told.
- resampling: only one whole, rewarded group of one attempt becomes a batch.
- provider: permits are conserved, calls are retried exactly as configured,
  and a group's score rests on valid rewards of all its calls.
- retention: the newest exports survive crashes and belong to the weights the
  training went on with.
- advantages: a group is normalised whole or not at all, online as offline; the
  gate leaves a bad trajectory its signal; every token gets the advantage of
  its reply; weights move between the configured ends.
- generation: a character is shown the dialogue up to its turn, a sample's
  dialogue is its own, failures are reported as what they are, and reward
  requests quote what was said.
- audit: it passes exactly what trains every reply on its reward, names rows
  rightly, and its exit code tells what it left behind.
- start-up and curriculum: parts that read different files fit together, weights
  and records keep their step over crashes, and the second epoch mixes the
  classes as documented.

`PROJECT.json` lists every hazard at its line with the properties that
cover it.

## Modules

### GroupBarrier: what the agent promises

The abstract specification: runs take seats of groups, seats deliver, a group
is decided once and only with all seats delivered, a run collects the verdict
of its group or fails. No futures, locks, tables or score tasks. At its end it
says what the runs may rely on: `GroupsWhole` (who is rewarded or rejected has a
seat of its own in a group of which every seat delivered, and has that group's
verdict) and `VerdictsStand` (verdicts, seats and outcomes are given once).

### ProxyGroup: the agent

`pc` is where a run is between suspensions: `idle`, `version` (the reply to
`get_version` is on its way), `generating`, `waiting` (on the shielded future)
and the ways it ends. `group[s]` is the `_GroupState` object created by run `s`;
`table` is `_states`; `score` and `lockQueue` are the score tasks and
`_reward_schedule_lock` with its FIFO of waiters. Reward values are abstracted to
the three ways a score task ends: rejected, accepted, failed.

| action | code |
|---|---|
| `VersionAnswered`, `VersionFails` | `_resolve_reward_step` |
| `Join` = `Refuse` or `Claim` | `_get_state` and the slot claim of `run`, one segment because `_states_lock` is never held across an await |
| `Store` | the trajectory is stored; the last one creates the score task |
| `GenerationFails`, `Wake`, `Timeout`, `Cancel` | the exits of `run`, each through `Leave`, its `finally` block |
| `ScoreStarts` ... `ScoreFails` | `_score_group_at_step` |
| `ConsumeDecision` | `consume_group_sampling_decision` |
| `PublishVersion` | the trainer (external) |

`Timeout` and `Cancel` are possible with a settled future: the timer may fire
between `set_result` and the waiter's next step. The score task never looks at
`failed`, as in the code.

### DynamicSampling: resampling composed with the agent

EXTENDS `ProxyGroup`. A key is a pair of episode and attempt. `arun_episode`
creates the sessions of an attempt, gathers them, consumes the decision and
merges, drops and repeats, or raises. AReaL's session around a run is external:
after a run that returned it yields interactions or nothing, after one that
failed it raises or yields nothing.

### RewardScoring: the score task and its calls

Details `score` of `ProxyGroup`: the calls of the two scopes, asyncio's
semaphore with its FIFO hand-over, attempts, repair exchanges, audit and failure
rows. `Fail` covers payloads that cannot be built, a failed call and refused
values. A call skipped for a character without tasks counts as valid zero, as in
the code. Whether the agent filters dynamically is chosen in `Init`. An
attempt ends valid, with text that is no valid reply, or without text
(`Outcome`); `raw` is the last text a call got, `quoted` what its repair requests
showed the model, and `LogsFollowAttempts` relates both, and the rows of the audit
and failure logs, to the attempts that were made.

### CheckpointRetention: exports, recovery state, prune

One trainer, one action per file-system effect: an export fills its directory
(`ExportBegins`, `ExportEnds`), the recovery state is replaced (`SaveRecover`),
the prune lists (`List`) and removes one directory after the other, each in two
steps. `Crash` may come anywhere and resumes after the recovery state. AReaL's
saver and recovery are external: they act after every step when due, an export
appears under its final name while it fills, and the recovery state is replaced
at once.

### RoleAdvantages: from rewards to tokens

One group, chosen in `Init` with a global step, goes through the two
implementations that the repository has of the same arithmetic. `ScoreGroup` is
`normalize_proxy_role_advantages` with the gate, as the score task calls it;
`BuildBatch` is `aggregate_role_rewards` followed by `build_role_grpo_batch`;
`ComputeAdvantages` is the actor's broadcast of a reply's scalar to the token row.
`RoleAdvantages` details what `ScoreAccepts` of `ProxyGroup` settles the group with.

Numbers are exact: rewards in quarter points, weights times the length of the
ramp, a mean as its sum, an advantage as deviation and spread of its role
(`value - mean` and `std` of the code, times constants of the role). A group
that raises and one that gives an empty batch are both `Nothing`: in either case
no reply is trained on. Ids and their duplicates are left out, as replies are
named by trajectory, character and position.

### Dialogue and RolloutEngine: the turn loops

`Dialogue` has the operators both loops share: what makes an episode valid, the
planned rounds, the projection of a dialogue to a character, and the dialogue a
reward request quotes. `RolloutEngine` runs one loop per sample. With `path` =
"offline" it is `rollout_group`: `AnsweredOffline` is the reply of a backend, in
either wire shape and with every fault the code tells apart, and the gather
raises or returns. With "online" it is the loop of `_run_trajectory`, which
details the `generating` runs of `ProxyGroup`; there anything but text fails the
run, and a turn goes into the dialogue (`history`) and into a list of its own
(`generated`), which becomes the turns of the trajectory and is what its reward
request reads. An action is a reply with everything up to the next request. A text is
where it was said; white space around it, which a turn drops and a reply
keeps, is left out, a text of white space alone is not.

### RolloutAudit: the audit command

One action per stage of `main` and `run_cloud_audit`, each of which may raise.
`Exports` is what AReaL hands over: whole groups of runs in any order, with at
most one row lost, doubled or spoiled in its reward or in two positions. `Actor`
is the actor's shift by one position, possibly with one wrong tensor.
`RawPasses`, `TrainedPasses` and `StructurePasses` are the comparisons.
`AuditIsExact` states independently what trains as intended (`Trainable`).

### TrainingRun: launch, resume, second epoch

A setup, chosen in `Init`, holds the files of both epochs, the adapters and the
environment. `Launch` is preflight and `run_training`; `TrainStep`, `Save`,
`Crash` are the external trainer around `trainer_train`. `MayLaunch` is the rule
of the README that the second epoch starts at the boundary of the first: the
code does not check it, and the module assumes it. `Reordered` is
`reorder_records`; a class of records is listed by rank (`Ascending`). Fields that only one file has are one Boolean each
(`inRange`, `fixed`, `whole`). Of a model path that the YAML takes from another
field (`interpolates`) preflight compares nothing, and `TrainerFits` says
nothing of the model then.

## Runs

| run | instance | what it checks |
|---|---|---|
| `group_static` | 4 runs, 2 keys (3 runs and 1), group size 2, local step, fair | `IndInv`, `RegisteredWhileLive`, `NoRewardAfterFailure`, `FullGroupEnds`, `JoinedRunEnds` |
| `group_dynamic` | 4 runs, 2 keys, resampling, 2 model versions | `NoPartialGroup`, `AgreedStep`, `DecisionMatchesRuns`, `ImplementsBarrier` |
| `group_step` | as `group_static`, with two runs of each key | finds `RefusedOnlyAcrossVersions` violated |
| `sampling` | 1 episode, 2 attempts of 2 sessions, 2 versions, fair | batches, resampling, leftovers, `AttemptEnds` |
| `scoring` | 2 groups of 2 calls, one of them of a character without tasks, 1 permit per scope, 2 retries of completion calls | `PermitsConserved`, `RewardsFromWholeGroup`, `OverlapOnlyAfterFailure`, `LogsFollowAttempts`, `GroupsAndCallsEnd` |
| `advantages` | groups of 1 to 3 trajectories, 2 characters, 4 or 1 replies, 6 steps around a ramp of 3 | `PathsAgree`, `BadTrajectoryTrains`, `LossSeesAdvantages`, `WeightsOnRamp` |
| `retention` | 13 steps, export every 4, recovery every 2, keep 1, 3 crashes | what is kept, removed and left at the end; `TrainingEnds` |
| `retention_torn` | as `retention` | finds `NewestWholeBeforeRemoval` violated |
| `rollout` | 2 samples, every valid episode of up to 2 characters and 2 given turns, 2 rounds, both loops, fair | `PromptShowsDialogue`, `DialogueIsWhatWasSaid`, `ReportsAreWhole`, `RewardsReadDialogue`, `GroupEnds` |
| `rollout_blank` | as `rollout` | finds `FailedSampleIsReported` violated |
| `audit` | 2 trajectories, 2 characters, 1 round, rows of 4 positions | `AuditIsExact`, `RecordsNameSpeakers`, `ExitTellsOutcome` |
| `training` | every data set of up to 8 records, every combination of small files, 2 epochs, checkpoint every 3 steps, 2 crashes | `StepsInOrder`, `TrainerFits`, `CurriculumMixes` |

Bounds. Two slots per group are enough for a peer to be early and another late,
two groups for the lock and the local step to matter. `group_static` has a third run
of one key, for the refused and the re-created group, and a key with one run,
which no peer ever completes; without a timer nothing promises that run its end,
and `JoinedRunEnds` assumes `TimersFire` where `FullGroupEnds` does not. `MaxVersion` lets one version
change fall between any two steps. `MaxAttempt` bounds the attempts explored;
the code has no bound. The exports and recovery states keep the 2:1 ratio of
`configs/areal.yaml`, two recovery states to an export, and three
crashes (`recover.retries`), so training resumes before, at and behind an
export. In `advantages` the gate has the thresholds of `configs/rlff.yaml` and four
replies, the fewest with which three bad ones face a good one; rewards are one
below, between and above the thresholds. Ungated groups take every combination of
failed trajectories and low, high or unobtainable rewards; the minimum group
size of two lies between the sizes tried. Steps run from before the ramp to
behind it. `advantages` follows one group to its end and stops there: it is
the one run that does not check for deadlock. `scoring` has fewer permits than
calls, so that a call left behind by a failed group delays the next, and two
retries, so that a call can fail in three different ways one after the other. In
`rollout` a context of ten tokens is too short for some dialogues and enough
for others, and names may be doubled or the narrator's, which loading refuses.
Four positions of a row hold a prompt, a completion and padding of several
lengths with the limits below and above them; every position of a row can be wrong, in
pairs, which covers a mask that moved. `training` tries odd data sets and such
with too few records of a class, checkpoints that fall on the boundary of the
epochs and elsewhere, and two crashes, the second of which may hit what resumed
from the first.
Symmetry is used only in runs without liveness, among runs of one key.

Fairness. The loop resumes what is ready (`Wake`, `Score`, wrapper steps);
requests and reward calls carry timeouts and bounded attempts, so a generating
run ends its generation and a call its attempts; a group timer fires once armed
(`TimersFire`, assumed only where it is named). In `rollout` a request of the
agent ends with some answer or error, as its client has a timeout
(`agent.py:748`); which one is never assumed. The engine waits for its backend
without one (`engine.py:235`), and no backend is part of the repository, so
`Spec` promises no answer there. `GroupEnds` therefore has two parts: without
more, the runs of the agent end, and a task that raised ends the group although
its siblings may wait for ever; only under `BackendAnswers`, named as an
assumption like `TimersFire`, do all samples and the group end. Cancellation, joining and
version changes are never assumed to happen, except that sessions created by a
`gather` run. The trainer works when it has not crashed and is restarted a
bounded number of times.

Three runs show where the code does other than it says:

- `group_step`: "one proxy group observed multiple model versions"
  (`agent.py:364`) is also raised when no version changed: the local step
  counter is advanced by any group that is scored between two joins.
- `retention_torn`: "the newest export is fully written before an older one is
  removed" (`runtime/types.py:69-71`) does not hold after a crash during an
  export: the torn directory counts as the newest one.
- `rollout_blank`: "a failed sample becomes an explicit invalid/truncated
  trajectory while other samples still produce their deterministic result"
  (`rollout/engine.py:355-357`) does not hold for a reply of white space: the
  turn built from it is refused outside the try block (`engine.py:288-291`), and
  the gather loses the group.

## Proofs

Each `...Proofs` module extends the module it is about; its theorems hold for all
values of the constants that meet the named assumptions. TLC has checked every
inductive invariant on the instance of the module's run before it was proved.

| module | theorems about runs' properties |
|---|---|
| `ProxyGroupProofs` | `IndInv`, `NoPartialGroup`, `NoRewardAfterFailure`, `AgreedStep`, `RegisteredWhileLive`, `DecisionMatchesRuns`, `ImplementsBarrier` of the agent |
| `DynamicSamplingProofs` | `BatchIsOneRewardedGroup`, `OnlyRejectedAreResampled`, `FinishedAttemptsLeaveNothing`, `ImplementsBarrier` of agent and wrapper |
| `RewardScoringProofs` | `PermitsConserved`, `RewardsFromWholeGroup`, `OverlapOnlyAfterFailure`, `LogsFollowAttempts` |
| `CheckpointRetentionProofs` | `FinishedWithLastExport`, `RemovesOnlySuperseded`, `StepLeavesNewest` |
| `RolloutEngineProofs` | `DialogueIsWhatWasSaid`, `PromptShowsDialogue`, `ReportsAreWhole`, `RewardsReadDialogue` |
| `RoleAdvantagesProofs` | `PathsAgree`, `BadTrajectoryTrains`, `LossSeesAdvantages`, `WeightsOnRamp` |
| `TrainingRunProofs` | `StepsInOrder`, `TrainerFits`, `CurriculumMixes` |
| `RolloutAuditProofs` | `AuditIsExact`, `RecordsNameSpeakers`, `ExitTellsOutcome` |

**The agent.** `NoPartialGroup` is not inductive. `IndInv` adds what it rests on: a
member's slot is its own and claimed, trajectories come from claimed slots
(`MembersInv`); a settled group has all trajectories or failed, and a failed one
is settled (`GroupsInv`); a score task exists only for a complete group
(`LockInv`); the table points to groups of its key whose creator has joined
(`TableInv`). One lemma per action shows that it keeps `IndInv`, from
`ProxyGroupAssumption` alone. `RegisteredWhileLive` rests on counting, `TallyInv`: the
claimed slots of a group are as many as its members, the completed ones as many as its members that have ended.
`DecisionMatchesRuns` needs that what is published is what the group was settled
with, unless a failure came first. The refinement maps each action to an
action of the barrier or a stutter with `SeatOf`, `ArrivedOf`, `VerdictOf` and
`OutcomeOf`. What it is worth is said by `BarrierKeepsGroups`: the barrier's own
steps keep `GroupsWhole` and `VerdictsStand`, so the agent has both
(`AgentKeepsGroups`) without another look at its futures and locks.

**Resampling.** `SamplingInv` puts on top of `IndInv` and `TallyInv` what a session's
result says of its run, what a decision says of the group that published it, and
what an attempt leaves behind: earlier attempts are closed and without
rewards (`PastInv`). It uses that an attempt has as many sessions as the group
has slots (`DynamicSamplingAssumption`), which is how AReaL calls `arun_episode`:
only so does a complete group hold all the runs of its key.

**Rewards.** `ScoringInv` relates the queue of the schedule lock to the phases, the
phase of a group to its calls, the FIFO of a semaphore to the calls that wait,
and a call's logs to its attempts (`LogInv`). Permits are conserved although a
failed group leaves calls behind: finitely many calls send at a time, and a
permit goes to the next waiter or back.

**Retention.** `RetentionInv` has the place of the trainer relative to the recovery
state, that what is doomed or half removed has `Keep` newer directories, and that
the last due export is there behind its step and behind the recovery state
(`LastExportInv`). That an export precedes the recovery state of its step is what
makes it inductive; where the prune stands does not matter to it, as the prune
never touches the recovery state.

**Generation.** `EngineInv` says of every sample that its dialogue is the given one
and then, in order, what its replies said, each by the character whose turn it
was, and that whoever asks has turns left. `ReportsAreWhole` adds that after n replies of
m characters the j-th has `n \div m` turns, and one more if `j < n % m`
(`SharesCount`, by induction on n). For the prompts, the projection and the
turns a prompt shows are folds. `FoldableNext` and `AlwaysFoldable` show that the
equation behind a fold has a solution, `PrefixLemma` that the solution goes along
the prefixes of the sequence, `StepsUnique` that two such walks agree;
`ProjectionShows` is then an induction over the turns of a dialogue.
`RewardsReadDialogue` is about two requests. The one built from the replies
needs that every reply of the agent says something (`SpokenInv`) and that replies
which count their turns are sorted already; the one built from the turns needs
that the agent's list of them and the dialogue grow together (`GeneratedInv`).

**Advantages.** `BadTrajectoryKeepsReply` is about the gate: a bad majority has at
least `MinBad` bad replies, the thresholds are apart, so one of them is not
masked; without a majority nothing below the mean is masked. `SumIsInteger`
supplies the type of a deviation, and `GateKeepsBadTrajectories` concludes for
every group that is scored. `ImplementationsAgree` opens both implementations:
they leave the same groups out, and for the others the formulas are equal.
`GroupsAssumption` bounds nothing: groups are finite, rewards integers or
invalid. `WeightsStayOnRamp` writes a weight as start plus difference times
`Climb`, which is monotone and bounded by the ramp. `RowsAligned` needs an
invariant, `RowsFromRewards`: a row is built from the rewards the group has, and
these never change afterwards. It assumes a prompt of at least one token (else
the roll would wrap a reply's mask to the end) and rows that fit their width.

**Training.** `TrainingInv` knows a history from its length: step i is the record
and the weights that place i calls for, also in the saved history, and the
loader's place is the length modulo the size of the data. A crash goes back to
the saved history and place together, so both stay in step. It assumes data
sets that are not empty (`TrainingAssumption`), as `load_episode_jsonl` does.

**The second epoch.** `CurriculumIsMixed` is about `reorder_records` for any data.
`Ascending` lists a class, each record once and rising. `Quota` rises by zero or
one with each place (`QuotasRise`) and reaches the size of the class, so a list
woven after it has each element once, in its order, and every prefix its share
(`Stairs...`, `WeaveWoven`, `WovenSpreads`). The two halves take the classes in
complementary parts whose sizes fit (`PartsFit`, `ReorderedHalves`); that no
record is lost (`ReorderedComplete`) or overtakes one of its class
(`ReorderedStable`) follows from the parts being prefix and rest of one list.

**The audit.** `CommandInv` has what each stage may find in the directory: an
audit that goes on found none of its files, and the report is written by one that
has its result. `AuditInv` ties rows, tensors, summary and records together.
`RowExact` is the heart of `AuditExact`: for a row of any width, typed as exported,
the comparisons of raw row and tensors pass exactly when the row trains
its reply on its reward; the advantage, normalised by slot, is
right only where mask and reward are. The rest is counting: an export is laid out in blocks of
`Turns` rows, block after slot (`Laid`), so the ordinal that the audit gives a row
within its slot is its place in the block (`OrdinalLaid`), which also is what
`RecordsAreRight` needs; a lost or doubled row shows in the number of rows, and a
first row with a reward that is not its own leaves its slot short of one
(`StructureExact`). `RowExact` needs nothing of the other rows; `AuditExact` as a
whole is about exports with at most one row lost, doubled or spoiled
(`Exports`), and one wrong tensor, because two lost and doubled rows can cancel out
in the counts (see below).

Induction. The library's induction theorems take an operator as a parameter,
which the provers cannot instantiate. Where an induction is needed it is made
about a set of numbers: the numbers without the property have a least one
(`SmallestElement`, from the well-foundedness of the naturals), which cannot be
zero or a successor (`IntervalInduction`). This reaches folds and sums, whose
definitions are recursive functions. It does not reach `SelectSeq`, which is why
`TrainingRun` lists the classes of a data set by rank.

Only model-checked:

- all liveness (`FullGroupEnds`, `JoinedRunEnds`, `AttemptEnds`,
  `GroupsAndCallsEnd`, `TrainingEnds`, `GroupEnds`): fairness and ENABLED are out
  of the proof system's reach;
- the three properties that the code violates, of which the runs show a
  counterexample.

## Not modelled

Wire formats, prompt templates, JSON shapes and fields that no second place
repeats have no state and no order that matters here. The writers of
`observability.py` append rows and choose them by a hash: the rows a call
produces are in `RewardScoring`, the files are I/O. Report generators
(`tools/`) format rows. The smoke run writes trajectories of the agent's turn loop, generated under a semaphore. The
HTTP clients of the agent and of the reward provider appear as the answers and
failures they can end in. What AReaL does with a group that failed is its own:
`TrainStep` is about groups that were scored. AReaL
(sessions, saver, recovery, data loader, trainer loop) is external and appears
as the environment of the modules.

Hazards without a property are in `PROJECT.json` with the reason: the decision
that a late score task leaves behind, the resampling without limit of an episode
without tasks, offline reward requests that quote the given dialogue twice, and
a second epoch started from the wrong checkpoint. Of smaller ones the models
make no claim: the filter may accept a group whose weighted values are equal; one row
lost and another doubled in the same slot leave all counts of the audit as they
were, and an audit of several episodes counts nothing; variables of a prompt are
substituted in the order of a set; AReaL reads its YAML again after it was
validated; a minimum group size above the group size is accepted; secrets are
resolved when the first reward is asked for.

## What is left

Every safety and action property that a run checks and the code keeps is proved.
What could extend the models: exports of the audit with several faults at once,
for which its counts would have to be refined first; the smoke run's semaphore
over the turn loop; and the offline reward requests, once it is decided
whether they should quote the given dialogue twice.
