---------------------------- MODULE RolloutAudit ----------------------------
(***************************************************************************)
(* The rollout audit (src/rlff/rollout_audit.py): it lets the trainer      *)
(* generate rollout groups, keeps what AReaL exports, has the actor compute *)
(* advantages from a copy, compares the two row by row, and reports.       *)
(*                                                                         *)
(* A row is an interaction: its tokens and its reward.  The audit's reward *)
(* provider pays every reply of trajectory slot s the score s, so that the *)
(* reward of a row, normalised, tells its slot; here slot s pays 2s.       *)
(* Logarithms of probabilities are -1 for any finite one and NaN.          *)
(***************************************************************************)
EXTENDS Integers, Sequences, FiniteSets, SequencesExt, FiniteSetsExt

CONSTANTS
  Declared,       \* the characters as the episode declares them
  GroupSize,
  MaxRounds,      \* rounds of a trajectory, as the audit works them out
  Width,          \* padded length of a row
  ContextLength,
  MaxNewTokens,
  NaN,
  Token,          \* what a position of a spoiled row may hold
  ActorFault      \* the tensors and positions in which an actor may be wrong

ASSUME AuditAssumption ==
  /\ Declared \in Seq(ToSet(Declared)) /\ Declared # <<>> /\ IsInjective(Declared)
  /\ GroupSize \in Nat /\ GroupSize >= 2
  /\ MaxRounds \in Nat \ {0}
  /\ Width \in Nat /\ ContextLength \in Nat /\ MaxNewTokens \in Nat
  /\ NaN \in Int /\ NaN \notin {-1, 0}
  /\ Token \subseteq [active : Int, mask : Int, logprob : Int, version : Int]
  /\ ActorFault \subseteq [tensor : {"mask", "logprob", "advantage", "returns", "kl", "total"},
                           position : 1..Width]

VARIABLES
  stage,      \* what the command does next
  strict,     \* whether one episode is audited, so that rows have a place in it
  order,      \* the order its characters spoke in
  raw,        \* the rows as exported
  trained,    \* the tensors the actor made of them
  onloaded,   \* the rollout engine is on the device for this audit
  held,       \* batches kept in AReaL's store
  summary,    \* its status, once the audit is through
  records,    \* slot, round and character written for each row
  files,      \* the output directory: which files it has, and from which audit
  code        \* exit code

vars == <<stage, strict, order, raw, trained, onloaded, held, summary, records, files, code>>

Slots == 0..GroupSize - 1
Turns == MaxRounds * Len(Declared)
Outputs == {"interactions.jsonl", "summary.json", "report.md"}

\* The directory may exist, with the outputs of an earlier audit.  The agent
\* shuffles the characters of a group.
Init ==
  /\ stage = "directory"
  /\ strict \in BOOLEAN
  /\ order \in IF strict THEN SetToSeqs(ToSet(Declared)) ELSE {Declared}
  /\ raw = <<>> /\ trained = <<>>
  /\ onloaded = FALSE /\ held = {}
  /\ summary = "none" /\ records = <<>>
  /\ files \in {<<>>, [f \in Outputs |-> "earlier"]}
  /\ code = "none"

(***************************************************************************)
(* What AReaL exports: the interactions of each run in their order, run by *)
(* run, with at most one row lost, doubled or spoiled.                     *)
(***************************************************************************)

Tokens(prompt, reply) ==
  [p \in 1..Width |->
     IF p <= prompt THEN [active |-> 1, mask |-> 0, logprob |-> 0, version |-> -1]
     ELSE IF p <= prompt + reply THEN [active |-> 1, mask |-> 1, logprob |-> -1, version |-> 0]
     ELSE [active |-> 0, mask |-> 0, logprob |-> 0, version |-> -1]]

Interaction(slot, k, prompt, reply) ==
  [slot |-> slot, turn |-> k, speaker |-> order[(k % Len(order)) + 1],
   reward |-> 2 * slot, tokens |-> Tokens(prompt, reply)]

Whole ==
  {[i \in 1..GroupSize * Turns |->
      Interaction(runs[((i - 1) \div Turns) + 1], (i - 1) % Turns, prompt, reply)] :
     runs \in SetToSeqs(Slots), prompt \in 1..Width \div 2, reply \in 1..Width - 1}

Spoiled(row) ==
  {[row EXCEPT !.reward = v] : v \in -1..2 * GroupSize}
    \cup {[row EXCEPT !.tokens = [@ EXCEPT ![p] = x, ![q] = y]] :
            p \in 1..Width, q \in 1..Width, x \in Token, y \in Token}

Exports ==
  UNION {{e} \cup {RemoveAt(e, i) : i \in DOMAIN e}
             \cup {InsertAt(e, i, e[i]) : i \in DOMAIN e}
             \cup {[e EXCEPT ![1] = row] : row \in Spoiled(e[1])} : e \in Whole}

(***************************************************************************)
(* The actor trains position p on token p + 1.  It gets a copy: it writes  *)
(* into its batch.                                                         *)
(***************************************************************************)

Times(x, m) == IF x = NaN THEN NaN ELSE x * m

Actor(row) ==
  [p \in 1..Width |->
     LET target == row.tokens[(p % Width) + 1] IN
     [mask |-> target.mask, logprob |-> Times(target.logprob, target.mask),
      advantage |-> row.reward * target.mask, returns |-> row.reward * target.mask,
      kl |-> 0, total |-> row.reward * target.mask]]

\* All rows, with at most one number wrong in the first of them.
ActorRows(rows) ==
  LET good == [i \in DOMAIN rows |-> Actor(rows[i])] IN
  {good} \cup {[good EXCEPT ![1][x.position][x.tensor] = @ + 1] : x \in ActorFault}

(***************************************************************************)
(* The comparison of one row.                                              *)
(***************************************************************************)

Close(x, y) == x # NaN /\ y # NaN /\ x = y

Active(row) == Cardinality({p \in 1..Width : row.tokens[p].active = 1})

\* Where the completion starts: the first active position in the mask.
Start(row) ==
  LET masked == {p \in 1..Active(row) : row.tokens[p].mask = 1} IN
  IF masked = {} THEN Active(row) + 1 ELSE Min(masked)

\* The slot whose reward is nearest, the lower one of two.
NearestSlot(row) ==
  LET distance(s) == IF row.reward < 2 * s THEN 2 * s - row.reward ELSE row.reward - 2 * s IN
  CHOOSE s \in Slots : \A u \in Slots :
    distance(s) < distance(u) \/ (distance(s) = distance(u) /\ s <= u)

\* Faulty RawPasses: a completion may start at the first token.
RawPassesUnprompted(row) ==
  LET n == Active(row)  start == Start(row)  t == row.tokens IN
  /\ n > 0
  /\ start <= n
  /\ n <= ContextLength /\ n - start + 1 <= MaxNewTokens
  /\ \A p \in 1..Width :
       /\ t[p].active = (IF p <= n THEN 1 ELSE 0)
       /\ t[p].mask = (IF start <= p /\ p <= n THEN 1 ELSE 0)
       /\ p < start => Close(t[p].logprob, 0) /\ t[p].version = -1
       /\ start <= p /\ p <= n => t[p].logprob # NaN /\ t[p].version >= 0
  /\ row.reward = 2 * NearestSlot(row)

\* The raw tensors are a prompt, its completion, and padding.
RawPasses(row) ==
  LET n == Active(row)  start == Start(row)  t == row.tokens IN
  /\ n > 0
  /\ 1 < start /\ start <= n
  /\ n <= ContextLength /\ n - start + 1 <= MaxNewTokens
  /\ \A p \in 1..Width :
       /\ t[p].active = (IF p <= n THEN 1 ELSE 0)
       /\ t[p].mask = (IF start <= p /\ p <= n THEN 1 ELSE 0)
       /\ p < start => Close(t[p].logprob, 0) /\ t[p].version = -1
       /\ start <= p /\ p <= n => t[p].logprob # NaN /\ t[p].version >= 0
  /\ row.reward = 2 * NearestSlot(row)

\* The trained tensors are the raw ones moved by one and the reward times their mask.
TrainedPasses(row, x) ==
  \A p \in 1..Width :
    LET target == row.tokens[(p % Width) + 1]
        credit == row.reward * target.mask
    IN /\ x[p].mask = target.mask
       /\ Close(x[p].logprob, Times(target.logprob, target.mask))
       /\ x[p].advantage = credit /\ x[p].returns = credit /\ x[p].total = credit
       /\ x[p].kl = 0

(***************************************************************************)
(* The comparison of all rows, audit_rollout_batches.  A row is the next   *)
(* one of its slot; who spoke follows from its number in the slot.         *)
(***************************************************************************)

Ordinal(rows, i) == Cardinality({j \in 1..i - 1 : NearestSlot(rows[j]) = NearestSlot(rows[i])})

RecordOf(rows, i) ==
  [slot      |-> NearestSlot(rows[i]),
   round     |-> Ordinal(rows, i) \div Len(Declared),
   character |-> Declared[(Ordinal(rows, i) % Len(Declared)) + 1]]

\* Faulty StructurePasses: only an excess of rows is an error.
StructureNotExceeded(rows) ==
  \A i \in DOMAIN rows : RecordOf(rows, i).round < MaxRounds

\* Every slot has its turns, every character its share; only for one episode.
StructurePasses(rows) ==
  /\ Len(rows) = GroupSize * Turns
  /\ \A s \in Slots : Cardinality({i \in DOMAIN rows : NearestSlot(rows[i]) = s}) = Turns
  /\ \A i \in DOMAIN rows : RecordOf(rows, i).round < MaxRounds
  /\ \A c \in ToSet(Declared) :
       Cardinality({i \in DOMAIN rows : RecordOf(rows, i).character = c}) = GroupSize * MaxRounds

Status(rows, x) ==
  IF /\ \A i \in DOMAIN rows : RawPasses(rows[i]) /\ TrainedPasses(rows[i], x[i])
     /\ strict => StructurePasses(rows)
  THEN "passed" ELSE "failed"

(***************************************************************************)
(* The command, main and run_cloud_audit: every step may raise.            *)
(***************************************************************************)

kept == <<strict, order>>
data == <<raw, trained, summary, records>>

\* A failure file, also in a directory that was there before.
Report(exit) ==
  /\ files' = [f \in DOMAIN files \cup {"failure.json"} |-> IF f = "failure.json" THEN "new" ELSE files[f]]
  /\ code' = exit
  /\ stage' = "ended"

Raises == Report(2) /\ UNCHANGED <<kept, data, onloaded, held>>

\* Faulty MakeDirectory: an existing directory is used.
MakeDirectoryAnyway ==
  /\ stage = "directory"
  /\ stage' = "launch"
  /\ UNCHANGED <<kept, data, onloaded, held, files, code>>

\* The directory must not exist.
MakeDirectory ==
  /\ stage = "directory"
  /\ \/ files # <<>> /\ Raises
     \/ files = <<>> /\ stage' = "launch" /\ UNCHANGED <<kept, data, onloaded, held, files, code>>

\* Configuration, dataset and trainer; a rollout engine that is kept off the
\* device is moved there.
Launch ==
  /\ stage = "launch"
  /\ \/ Raises
     \/ /\ onloaded' \in BOOLEAN
        /\ stage' = "rollout"
        /\ UNCHANGED <<kept, data, held, files, code>>

\* What follows is left through the finally clause, also by raising.
Leaves == stage' = "release" /\ UNCHANGED <<data, held>>

Rollout ==
  /\ stage = "rollout"
  /\ \/ Leaves
     \/ /\ raw' \in Exports
        /\ held' = {"raw"}
        /\ stage' = "compute"
        /\ UNCHANGED <<trained, summary, records>>
  /\ UNCHANGED <<kept, onloaded, files, code>>

Compute ==
  /\ stage = "compute"
  /\ \/ Leaves
     \/ /\ trained' \in ActorRows(raw)
        /\ held' = {"raw", "trained"}
        /\ stage' = "compare"
        /\ UNCHANGED <<raw, summary, records>>
  /\ UNCHANGED <<kept, onloaded, files, code>>

Compare ==
  /\ stage = "compare"
  /\ \/ Leaves
     \/ /\ summary' = Status(raw, trained)
        /\ records' = IF strict THEN [i \in DOMAIN raw |-> RecordOf(raw, i)] ELSE <<>>
        /\ stage' = "release"
        /\ UNCHANGED <<raw, trained, held>>
  /\ UNCHANGED <<kept, onloaded, files, code>>

\* The finally clause: batches are cleared, of which a failure is a warning, and
\* the engine is moved back.  Then the trainer is closed.
Release ==
  /\ stage = "release"
  /\ held' \in {held, {}}
  /\ \/ onloaded /\ onloaded' = onloaded /\ Report(2)
     \/ /\ onloaded' = FALSE
        /\ \/ Report(2)
           \/ summary # "none" /\ stage' = "write" /\ UNCHANGED <<files, code>>
  /\ UNCHANGED <<kept, data>>

\* The outputs, one after the other, and the summary on standard output; main
\* ends with the status, or reports what raised, be all files there.
WriteOutputs ==
  /\ stage = "write"
  /\ \E k \in 0..3, raised \in BOOLEAN :
       LET written == {<<"interactions.jsonl", "summary.json", "report.md">>[i] : i \in 1..k}
                        \cup (IF raised THEN {"failure.json"} ELSE {})
       IN /\ raised \/ k = 3
          /\ files' = [f \in DOMAIN files \cup written |-> IF f \in written THEN "new" ELSE files[f]]
          /\ code' = IF raised THEN 2 ELSE IF summary = "passed" THEN 0 ELSE 1
  /\ stage' = "ended"
  /\ UNCHANGED <<kept, data, onloaded, held>>

Ended == stage = "ended" /\ UNCHANGED vars

Next ==
  \/ MakeDirectory \/ Launch \/ Rollout \/ Compute \/ Compare \/ Release \/ WriteOutputs
  \/ Ended

Spec == Init /\ [][Next]_vars

(***************************************************************************)
(* Properties.                                                             *)
(***************************************************************************)

\* The row is a prompt and a completion within the limits, with the reward of
\* a slot, and the actor trains exactly the completion on that reward: every
\* token of it, each at the position before it.
Trainable(row, x) ==
  \E prompt \in 1..Width, reply \in 1..MaxNewTokens :
    /\ prompt + reply <= Width /\ prompt + reply <= ContextLength
    /\ \E s \in Slots : row.reward = 2 * s
    /\ \A p \in 1..Width :
         LET expected == Tokens(prompt, reply)[p]
             predicts == p \in prompt..prompt + reply - 1
         IN /\ row.tokens[p].active = expected.active /\ row.tokens[p].mask = expected.mask
            /\ p <= prompt => row.tokens[p] = expected
            /\ prompt < p /\ p <= prompt + reply =>
                 row.tokens[p].logprob # NaN /\ row.tokens[p].version >= 0
            /\ x[p] = [mask |-> IF predicts THEN 1 ELSE 0,
                       logprob |-> IF predicts THEN row.tokens[p + 1].logprob ELSE 0,
                       advantage |-> IF predicts THEN row.reward ELSE 0,
                       returns |-> IF predicts THEN row.reward ELSE 0,
                       kl |-> 0,
                       total |-> IF predicts THEN row.reward ELSE 0]

\* The audit passes exactly the exports that train every reply on its reward and
\* nothing else, and of one episode only those with every turn of every slot.
AuditIsExact ==
  summary # "none" =>
    (summary = "passed" <=>
       /\ \A i \in DOMAIN raw : Trainable(raw[i], trained[i])
       /\ strict => /\ Len(raw) = GroupSize * Turns
                    /\ \A s \in Slots, k \in 0..Turns - 1 :
                         \E i \in DOMAIN raw : raw[i].reward = 2 * s /\ raw[i].turn = k)

\* A passed audit of one episode attributes every row to its trajectory, its
\* round and, provided the characters spoke as declared, its speaker.
RecordsNameSpeakers ==
  strict /\ summary = "passed" =>
    \A i \in DOMAIN raw :
      /\ records[i].slot = raw[i].slot
      /\ records[i].round = raw[i].turn \div Len(Declared)
      /\ order = Declared => records[i].character = raw[i].speaker

\* The exit code tells what is in the directory: a whole report of this audit,
\* or a failure and no output of two audits.  Whoever got a report has the
\* engine back where it was.
ExitTellsOutcome ==
  stage = "ended" =>
    /\ code \in {0, 1} =>
         /\ files = [f \in Outputs |-> "new"]
         /\ ~onloaded
         /\ code = 0 <=> summary = "passed"
    /\ code = 2 =>
         /\ files["failure.json"] = "new"
         /\ \A f, g \in Outputs \cap DOMAIN files : files[f] = files[g]
=============================================================================
