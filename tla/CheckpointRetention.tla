------------------------- MODULE CheckpointRetention -------------------------
(***************************************************************************)
(* Retention of the versioned LoRA exports (runtime/integration.py and     *)
(* runtime/types.py of src/rlff) under crashes and automatic recovery.     *)
(*                                                                         *)
(* After each training step AReaL exports the adapter when that is due and *)
(* calls _save_recover_checkpoint.  RLFF's override refreshes the recovery *)
(* state when that is due, and then prunes: it lists the export            *)
(* directories by name and removes all but the newest ones.  AReaL is      *)
(* external: an export is a directory that fills up, the recovery state is *)
(* replaced at once, and a crashed trainer resumes from that state, so it  *)
(* trains again the steps after it, as another incarnation of itself.      *)
(*                                                                         *)
(* A directory name is its global step: the epoch and epoch step of the    *)
(* name grow with it.                                                      *)
(***************************************************************************)
EXTENDS Integers, FiniteSets

CONSTANTS
  LastStep,           \* bound on the global steps
  ExportEvery,        \* saver.freq_steps
  RecoverEvery,       \* recover.freq_steps
  Keep,               \* HF_CHECKPOINTS_TO_KEEP
  MaxCrashes          \* recover.retries

ASSUME CheckpointRetentionAssumption ==
  /\ LastStep \in Nat
  /\ ExportEvery \in Nat \ {0}
  /\ RecoverEvery \in Nat \ {0}
  /\ Keep \in Nat \ {0}
  /\ MaxCrashes \in Nat

Step == 0 .. LastStep
Incarnation == 0 .. MaxCrashes

VARIABLES
  pc,           \* what the trainer does
  step,         \* the global step it is at
  incarnation,  \* how often it was restarted
  trained,      \* which incarnation trained each step on the way to step
  export,       \* each step's export directory
  exportedBy,   \* which incarnation wrote it
  resume,       \* the step after the recovery state
  doomed        \* directories the running prune has still to remove

vars == <<pc, step, incarnation, trained, export, exportedBy, resume, doomed>>

Init ==
  /\ pc = "train"
  /\ step = 0
  /\ incarnation = 0
  /\ trained = [s \in Step |-> 0]
  /\ export = [s \in Step |-> "absent"]
  /\ exportedBy = [s \in Step |-> 0]
  /\ resume = 0
  /\ doomed = {}

Due(every) == (step + 1) % every = 0

Present == {s \in Step : export[s] # "absent"}

\* One optimizer step.
Train ==
  /\ pc = "train"
  /\ trained' = [trained EXCEPT ![step] = incarnation]
  /\ pc' = IF Due(ExportEvery) THEN "export" ELSE "recover"
  /\ UNCHANGED <<step, incarnation, export, exportedBy, resume, doomed>>

\* The synchronous export of this step, over a directory that an earlier
\* incarnation may have left.
ExportBegins ==
  /\ pc = "export"
  /\ export' = [export EXCEPT ![step] = "filling"]
  /\ exportedBy' = [exportedBy EXCEPT ![step] = incarnation]
  /\ pc' = "exporting"
  /\ UNCHANGED <<step, incarnation, trained, resume, doomed>>

ExportEnds ==
  /\ pc = "exporting"
  /\ export' = [export EXCEPT ![step] = "whole"]
  /\ pc' = "recover"
  /\ UNCHANGED <<step, incarnation, trained, exportedBy, resume, doomed>>

\* base_trainer._save_recover_checkpoint.
SaveRecover ==
  /\ pc = "recover"
  /\ resume' = IF Due(RecoverEvery) THEN step + 1 ELSE resume
  /\ pc' = "prune"
  /\ UNCHANGED <<step, incarnation, trained, export, exportedBy, doomed>>

\* Faulty Superseded: everything older than the export of this step.
SupersededByStep == {s \in Present : s < step}

\* Faulty Superseded: an off-by-one keeps one more.
SupersededButOne == {s \in Present : Cardinality({t \in Present : t > s}) > Keep}

\* All but the Keep last directories in the order of their names.
Superseded == {s \in Present : Cardinality({t \in Present : t > s}) >= Keep}

\* prune_old_hf_checkpoints lists the directories: whole or not.
List ==
  /\ pc = "prune"
  /\ doomed' = Superseded
  /\ pc' = "removing"
  /\ UNCHANGED <<step, incarnation, trained, export, exportedBy, resume>>

\* rmtree of the oldest: it empties the directory, then it is gone.
RemoveBegins ==
  /\ pc = "removing"
  /\ \E s \in doomed :
       /\ \A t \in doomed : s <= t
       /\ export[s] # "emptying"
       /\ export' = [export EXCEPT ![s] = "emptying"]
  /\ UNCHANGED <<pc, step, incarnation, trained, exportedBy, resume, doomed>>

\* Faulty RemoveEnds: the directory stays on the list.
RemoveEndsForgetting ==
  /\ pc = "removing"
  /\ \E s \in doomed :
       /\ export[s] = "emptying"
       /\ export' = [export EXCEPT ![s] = "absent"]
  /\ UNCHANGED <<pc, step, incarnation, trained, exportedBy, resume, doomed>>

RemoveEnds ==
  /\ pc = "removing"
  /\ \E s \in doomed :
       /\ export[s] = "emptying"
       /\ \A t \in doomed : s <= t
       /\ export' = [export EXCEPT ![s] = "absent"]
       /\ doomed' = doomed \ {s}
  /\ UNCHANGED <<pc, step, incarnation, trained, exportedBy, resume>>

\* The step is over.
StepEnds ==
  /\ pc = "removing"
  /\ doomed = {}
  /\ IF step = LastStep THEN pc' = "done" /\ UNCHANGED step
                        ELSE pc' = "train" /\ step' = step + 1
  /\ UNCHANGED <<incarnation, trained, export, exportedBy, resume, doomed>>

\* A crash anywhere, also an rmtree that raises: the next incarnation resumes
\* after the recovery state.
Crash ==
  /\ pc # "done"
  /\ incarnation < MaxCrashes
  /\ incarnation' = incarnation + 1
  /\ step' = resume
  /\ pc' = IF resume > LastStep THEN "done" ELSE "train"
  /\ doomed' = {}
  /\ UNCHANGED <<trained, export, exportedBy, resume>>

Work ==
  \/ Train
  \/ ExportBegins
  \/ ExportEnds
  \/ SaveRecover
  \/ List
  \/ RemoveBegins
  \/ RemoveEnds
  \/ StepEnds

Done == pc = "done" /\ UNCHANGED vars

Next == Work \/ Crash \/ Done

\* The trainer works while it is not crashed, and it is restarted.
Spec == Init /\ [][Next]_vars /\ WF_vars(Work)

(***************************************************************************)
(* Properties.                                                             *)
(***************************************************************************)

RetentionTypeOK ==
  /\ pc \in {"train", "export", "exporting", "recover", "prune", "removing", "done"}
  /\ step \in 0 .. LastStep + 1
  /\ incarnation \in Incarnation
  /\ trained \in [Step -> Incarnation]
  /\ export \in [Step -> {"absent", "filling", "whole", "emptying"}]
  /\ exportedBy \in [Step -> Incarnation]
  /\ resume \in 0 .. LastStep + 1
  /\ doomed \subseteq Present

\* After a step no more than Keep directories are left, and none is one that an
\* interrupted prune had half removed.  That they are the newest is
\* RemovesOnlySuperseded.
StepLeavesNewest ==
  [][pc = "removing" /\ pc' \in {"train", "done"} /\ incarnation' = incarnation
     => /\ Cardinality(Present) <= Keep
        /\ \A s \in Present : export[s] # "emptying"]_vars

\* A directory goes only when Keep newer ones are there, also after a restart
\* that takes the step back behind them.
RemovesOnlySuperseded ==
  [][\A s \in Present : s \notin Present' =>
       Cardinality({t \in Present' : t > s}) >= Keep]_vars

\* A finished training leaves the whole last export of its own weights, if it
\* is long enough for an export.
LastExport == ((LastStep + 1) \div ExportEvery) * ExportEvery - 1

FinishedWithLastExport ==
  pc = "done" /\ LastExport \in Step =>
    /\ export[LastExport] = "whole"
    /\ exportedBy[LastExport] = trained[LastExport]

\* However it crashes, training comes to its end.
TrainingEnds == <>(pc = "done")

\* The newest export is fully written before an older one is removed.
\* (runtime/types.py:69-71)
NewestWholeBeforeRemoval ==
  [][\A s \in Step : export[s] = "whole" /\ export'[s] = "emptying" =>
       \E t \in Step : t > s /\ export[t] = "whole"]_vars
=============================================================================
