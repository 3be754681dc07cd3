------------------------- MODULE RolloutAuditProofs -------------------------
(***************************************************************************)
(* Theorems of RolloutAudit: for episodes, groups and rows of every size,  *)
(* the audit passes exactly the exports that train every reply on its      *)
(* reward, its records name the speakers, and the exit code tells what is  *)
(* in the directory.                                                       *)
(***************************************************************************)
EXTENDS RolloutAudit, SequenceTheorems, FiniteSetTheorems, NaturalsInduction,
        WellFoundedInduction, TLAPS

(***************************************************************************)
(* The command.                                                            *)
(***************************************************************************)

Begun == {"launch", "rollout", "compute", "compare", "release", "write"}

\* A directory that the audit goes on with is its own and has no file yet; the
\* report is written by an audit that has its result and moved the engine back.
CommandInv ==
  /\ stage \in {"directory", "ended"} \cup Begun
  /\ stage = "directory" => files \in {<<>>, [f \in Outputs |-> "earlier"]}
  /\ stage \in Begun => files = <<>>
  /\ summary \in {"none", "passed", "failed"}
  /\ stage = "write" => ~onloaded /\ summary # "none"
  /\ ExitTellsOutcome

LEMMA FailureReported ==
  ASSUME Report(2), files \in {<<>>, [f \in Outputs |-> "earlier"]}, UNCHANGED summary
  PROVE  stage' = "ended" /\ ExitTellsOutcome'
<1>1. stage' = "ended" /\ code' = 2
  BY DEF Report
<1>2. DOMAIN files' = DOMAIN files \cup {"failure.json"} /\ files'["failure.json"] = "new"
  BY DEF Report
<1>3. \A f \in Outputs \cap DOMAIN files' : f \in DOMAIN files /\ files'[f] = files[f]
  BY DEF Report, Outputs
<1>4. \A f \in Outputs \cap DOMAIN files : files[f] = "earlier"
  <2>1. CASE files = <<>>
    BY <2>1
  <2>2. CASE files = [f \in Outputs |-> "earlier"]
    BY <2>2
  <2> QED BY <2>1, <2>2
<1>5. \A f, g \in Outputs \cap DOMAIN files' : files'[f] = files'[g]
  BY <1>3, <1>4
<1> QED BY <1>1, <1>2, <1>5 DEF ExitTellsOutcome

LEMMA OutputsWritten ==
  ASSUME stage = "write", CommandInv, WriteOutputs
  PROVE  stage' = "ended" /\ ExitTellsOutcome'
<1>1. PICK k \in 0..3, raised \in BOOLEAN :
        LET written == {<<"interactions.jsonl", "summary.json", "report.md">>[i] : i \in 1..k}
                         \cup (IF raised THEN {"failure.json"} ELSE {})
        IN /\ raised \/ k = 3
           /\ files' = [f \in DOMAIN files \cup written |-> IF f \in written THEN "new" ELSE files[f]]
           /\ code' = IF raised THEN 2 ELSE IF summary = "passed" THEN 0 ELSE 1
  BY DEF WriteOutputs
<1> DEFINE some == {<<"interactions.jsonl", "summary.json", "report.md">>[i] : i \in 1..k}
           written == some \cup (IF raised THEN {"failure.json"} ELSE {})
<1>2. DOMAIN files = {}
  BY DEF CommandInv, Begun
<1>3. DOMAIN files' = written /\ \A f \in written : files'[f] = "new"
  BY <1>1, <1>2
<1>4. stage' = "ended" /\ ~onloaded' /\ summary' = summary
  BY DEF WriteOutputs, CommandInv, data
<1>5. CASE raised
  <2>1. "failure.json" \in written
    BY <1>5
  <2>2. code' = 2
    BY <1>1, <1>5
  <2> HIDE DEF written
  <2> QED BY <1>3, <1>4, <2>1, <2>2 DEF ExitTellsOutcome
<1>6. CASE ~raised /\ k = 3
  <2>1. written = Outputs
    <3>1. 1..3 = {1, 2, 3}
      OBVIOUS
    <3> QED BY <1>6, <3>1 DEF Outputs
  <2>2. code' = IF summary' = "passed" THEN 0 ELSE 1
    BY <1>1, <1>4, <1>6
  <2>3. files' = [f \in Outputs |-> "new"]
    BY <1>1, <1>2, <2>1
  <2> QED BY <1>4, <2>2, <2>3 DEF ExitTellsOutcome
<1> QED BY <1>1, <1>5, <1>6

LEMMA NextKeepsCommand == CommandInv /\ [Next]_vars => CommandInv'
<1> SUFFICES ASSUME CommandInv, [Next]_vars PROVE CommandInv'
  OBVIOUS
<1>1. CASE MakeDirectory
  <2>1. CASE Raises
    BY <1>1, <2>1, FailureReported DEF CommandInv, Begun, MakeDirectory, Raises, data
  <2>2. CASE ~Raises
    BY <1>1, <2>2 DEF CommandInv, Begun, MakeDirectory, ExitTellsOutcome, data
  <2> QED BY <2>1, <2>2
<1>2. CASE Launch
  <2>1. CASE Raises
    BY <1>2, <2>1, FailureReported DEF CommandInv, Begun, Launch, Raises, data
  <2>2. CASE ~Raises
    BY <1>2, <2>2 DEF CommandInv, Begun, Launch, ExitTellsOutcome, data
  <2> QED BY <2>1, <2>2
<1>3. CASE Rollout
  BY <1>3 DEF CommandInv, Begun, Rollout, Leaves, ExitTellsOutcome, data
<1>4. CASE Compute
  BY <1>4 DEF CommandInv, Begun, Compute, Leaves, ExitTellsOutcome, data
<1>5. CASE Compare
  BY <1>5 DEF CommandInv, Begun, Compare, Leaves, ExitTellsOutcome, Status, data
<1>6. CASE Release
  <2>1. CASE Report(2)
    BY <1>6, <2>1, FailureReported DEF CommandInv, Begun, Release, data
  <2>2. CASE ~Report(2)
    BY <1>6, <2>2 DEF CommandInv, Begun, Release, ExitTellsOutcome, data
  <2> QED BY <2>1, <2>2
<1>7. CASE WriteOutputs
  BY <1>7, OutputsWritten DEF CommandInv, Begun, WriteOutputs, data
<1>8. CASE UNCHANGED vars
  BY <1>8 DEF CommandInv, ExitTellsOutcome, vars
<1> QED BY <1>1, <1>2, <1>3, <1>4, <1>5, <1>6, <1>7, <1>8 DEF Next, Ended

\* However the command ends, its exit code tells what it left: a whole report
\* of this audit, or a failure and outputs of one audit at most.
THEOREM ExitCodeTells == Spec => []ExitTellsOutcome
<1>1. Init => CommandInv
  BY DEF Init, CommandInv, Begun, ExitTellsOutcome
<1>2. CommandInv => ExitTellsOutcome
  BY DEF CommandInv
<1> QED BY <1>1, <1>2, NextKeepsCommand, PTL DEF Spec

(***************************************************************************)
(* One row.                                                                *)
(***************************************************************************)

Mark == [active : Int, mask : Int, logprob : Int, version : Int]

Tensors == [mask : Int, logprob : Int, advantage : Int, returns : Int, kl : Int, total : Int]

IsRow(row) == row.reward \in Int /\ row.tokens \in [1..Width -> Mark]

\* What the actor made of a row: a logarithm that is NaN stays off zero.
IsTrained(row, x) ==
  /\ x \in [1..Width -> Tensors]
  /\ \A p \in 1..Width : row.tokens[(p % Width) + 1].logprob = NaN => x[p].logprob # 0

Distance(row, s) == IF row.reward < 2 * s THEN 2 * s - row.reward ELSE row.reward - 2 * s

LEMMA NearestInSlots ==
  ASSUME NEW row, row.reward \in Int
  PROVE  /\ NearestSlot(row) \in Slots
         /\ \A s \in Slots : row.reward = 2 * s => NearestSlot(row) = s
<1> DEFINE r == row.reward
           top == GroupSize - 1
           Nearest(s) == \A u \in Slots : \/ Distance(row, s) < Distance(row, u)
                                          \/ Distance(row, s) = Distance(row, u) /\ s <= u
           near == IF r < 0 THEN 0 ELSE IF r > 2 * top THEN top ELSE r \div 2
<1>1. near \in Slots /\ Nearest(near)
  <2>1. top \in Nat
    BY AuditAssumption
  <2>2. CASE r < 0
    BY <2>1, <2>2, AuditAssumption DEF Slots, Distance
  <2>3. CASE r > 2 * top
    BY <2>1, <2>3, AuditAssumption DEF Slots, Distance
  <2>4. CASE r \in 0..2 * top
    <3>1. near \in Slots /\ (r = 2 * near \/ r = 2 * near + 1)
      BY <2>1, <2>4, AuditAssumption DEF Slots
    <3> HIDE DEF near
    <3>2. Distance(row, near) \in 0..1
      BY <3>1 DEF Distance, Slots
    <3>3. \A u \in Slots : Distance(row, u) = 0 => near = u
      BY <3>1 DEF Distance, Slots
    <3>4. \A u \in Slots : Distance(row, u) = 1 /\ Distance(row, near) = 1 => near <= u
      BY <3>1 DEF Distance, Slots
    <3>5. \A u \in Slots : Distance(row, u) \in Nat /\ u \in Nat
      BY <2>1, AuditAssumption DEF Distance, Slots
    <3>6. Distance(row, near) = 0 => \A u \in Slots : Distance(row, u) = 0 => near <= u
      BY <3>3, <3>5
    <3> QED BY <3>1, <3>2, <3>3, <3>4, <3>5, <3>6
  <2> QED BY <2>1, <2>2, <2>3, <2>4
<1> HIDE DEF near
<1>2. NearestSlot(row) = CHOOSE s \in Slots : Nearest(s)
  BY DEF NearestSlot, Distance
<1>3. NearestSlot(row) \in Slots /\ Nearest(NearestSlot(row))
  BY <1>1, <1>2
<1>4. ASSUME NEW s \in Slots, r = 2 * s
      PROVE  NearestSlot(row) = s
  <2>1. Distance(row, s) = 0 /\ \A u \in Slots : Distance(row, u) = 0 => u = s
    BY <1>4, AuditAssumption DEF Distance, Slots
  <2>2. \A u \in Slots : Distance(row, u) >= 0
    BY AuditAssumption DEF Distance, Slots
  <2>3. Distance(row, NearestSlot(row)) \in Int
    BY <1>3, AuditAssumption DEF Distance, Slots
  <2> QED BY <1>3, <2>1, <2>2, <2>3
<1> QED BY <1>3, <1>4

LEMMA ActiveInWidth ==
  ASSUME NEW row
  PROVE  Active(row) \in 0..Width
<1> DEFINE A == {p \in 1..Width : row.tokens[p].active = 1}
<1>1. IsFiniteSet(1..Width) /\ Cardinality(1..Width) = Width
  BY FS_Interval, AuditAssumption
<1>2. A \in SUBSET (1..Width)
  OBVIOUS
<1>3. IsFiniteSet(A) /\ Cardinality(A) <= Width
  <2> HIDE DEF A
  <2> QED BY <1>1, <1>2, FS_Subset
<1>4. Cardinality(A) \in Nat
  BY <1>3, FS_CardinalityType
<1> QED BY <1>3, <1>4, AuditAssumption DEF Active

LEMMA SmallestElement ==
  ASSUME NEW S \in SUBSET Nat, S # {}
  PROVE  Min(S) \in S /\ \A n \in S : Min(S) <= n
<1>1. PICK m \in S : \A n \in S : ~ (<<n, m>> \in OpToRel(<, Nat))
  BY NatLessThanWellFounded, WFMin
<1>2. \A n \in S : ~ (n < m)
  BY <1>1 DEF OpToRel
<1>3. \A n \in S : m <= n
  BY <1>2
<1> QED BY <1>3 DEF Min

LEMMA StartOfMask ==
  ASSUME NEW row
  PROVE  /\ Start(row) \in 1..Active(row) + 1
         /\ \A p \in 1..Active(row) : p < Start(row) => row.tokens[p].mask # 1
         /\ Start(row) <= Active(row) => row.tokens[Start(row)].mask = 1
<1> DEFINE masked == {p \in 1..Active(row) : row.tokens[p].mask = 1}
<1>1. Active(row) \in Nat
  BY ActiveInWidth, AuditAssumption
<1>2. CASE masked = {}
  BY <1>1, <1>2 DEF Start
<1>3. CASE masked # {}
  <2>1. masked \in SUBSET Nat
    BY <1>1
  <2>2. Min(masked) \in masked /\ \A n \in masked : Min(masked) <= n
    <3> HIDE DEF masked
    <3> QED BY <1>3, <2>1, SmallestElement
  <2>3. Start(row) = Min(masked)
    BY <1>3 DEF Start
  <2>4. Start(row) \in 1..Active(row) /\ row.tokens[Start(row)].mask = 1
    BY <2>2, <2>3
  <2>5. \A p \in 1..Active(row) : row.tokens[p].mask = 1 => Start(row) <= p
    BY <2>2, <2>3
  <2> QED BY <1>1, <2>4, <2>5
<1> QED BY <1>2, <1>3

LEMMA TargetOf ==
  ASSUME NEW p \in 1..Width
  PROVE  (p % Width) + 1 = IF p = Width THEN 1 ELSE p + 1
<1>1. Width \in Nat \ {0}
  BY AuditAssumption
<1>2. CASE p = Width
  BY <1>1, <1>2
<1>3. CASE p < Width
  <2>1. p % Width = p
    BY <1>1, <1>3
  <2> QED BY <1>3, <2>1
<1> QED BY <1>1, <1>2, <1>3

LEMMA TimesMask ==
  ASSUME NEW l \in Int
  PROVE  /\ Times(l, 1) = l
         /\ Times(l, 0) = IF l = NaN THEN NaN ELSE 0
BY AuditAssumption DEF Times

\* What passes is a prompt, its completion and padding, trained on its reward.
LEMMA PassingTrains ==
  ASSUME NEW row, NEW x, IsRow(row), IsTrained(row, x), RawPasses(row), TrainedPasses(row, x)
  PROVE  Trainable(row, x)
<1> DEFINE t == row.tokens
           n == Active(row)
           start == Start(row)
           prompt == start - 1
           reply == n - start + 1
<1>1. n \in 0..Width /\ start \in 1..n + 1
  BY ActiveInWidth, StartOfMask
<1>2. /\ 1 < start /\ start <= n /\ n <= ContextLength /\ reply <= MaxNewTokens
      /\ \A p \in 1..Width :
           /\ t[p].active = (IF p <= n THEN 1 ELSE 0)
           /\ t[p].mask = (IF start <= p /\ p <= n THEN 1 ELSE 0)
           /\ p < start => Close(t[p].logprob, 0) /\ t[p].version = -1
           /\ start <= p /\ p <= n => t[p].logprob # NaN /\ t[p].version >= 0
      /\ row.reward = 2 * NearestSlot(row)
  BY DEF RawPasses
<1>3. t \in [1..Width -> Mark] /\ row.reward \in Int /\ Width \in Nat
  BY AuditAssumption DEF IsRow
<1>4. x \in [1..Width -> Tensors]
  BY DEF IsTrained
<1>5. \A p \in 1..Width :
        LET target == t[(p % Width) + 1]
            credit == row.reward * target.mask
        IN /\ x[p].mask = target.mask
           /\ Close(x[p].logprob, Times(target.logprob, target.mask))
           /\ x[p].advantage = credit /\ x[p].returns = credit /\ x[p].total = credit
           /\ x[p].kl = 0
  BY DEF TrainedPasses
<1> HIDE DEF t, n, start
<1>6. /\ prompt \in 1..Width /\ reply \in 1..MaxNewTokens
      /\ prompt + reply = n
  BY <1>1, <1>2, AuditAssumption
<1>7. \E s \in Slots : row.reward = 2 * s
  BY <1>2, <1>3, NearestInSlots
<1>8. ASSUME NEW p \in 1..Width
      PROVE  LET expected == Tokens(prompt, reply)[p]
                 predicts == p \in prompt..prompt + reply - 1
             IN /\ t[p].active = expected.active /\ t[p].mask = expected.mask
                /\ p <= prompt => t[p] = expected
                /\ prompt < p /\ p <= prompt + reply => t[p].logprob # NaN /\ t[p].version >= 0
                /\ x[p] = [mask |-> IF predicts THEN 1 ELSE 0,
                           logprob |-> IF predicts THEN t[p + 1].logprob ELSE 0,
                           advantage |-> IF predicts THEN row.reward ELSE 0,
                           returns |-> IF predicts THEN row.reward ELSE 0,
                           kl |-> 0,
                           total |-> IF predicts THEN row.reward ELSE 0]
  <2> DEFINE expected == Tokens(prompt, reply)[p]
             predicts == p \in prompt..prompt + reply - 1
             q == (p % Width) + 1
  <2>1. expected = IF p <= prompt THEN [active |-> 1, mask |-> 0, logprob |-> 0, version |-> -1]
                   ELSE IF p <= n THEN [active |-> 1, mask |-> 1, logprob |-> -1, version |-> 0]
                   ELSE [active |-> 0, mask |-> 0, logprob |-> 0, version |-> -1]
    BY <1>6 DEF Tokens
  <2>2. t[p] \in Mark /\ x[p] \in Tensors
    BY <1>3, <1>4
  <2>3. t[p].active = expected.active /\ t[p].mask = expected.mask
    BY <1>1, <1>2, <1>6, <2>1
  <2>4. ASSUME p <= prompt
        PROVE  t[p] = expected
    <3>1. t[p].active = 1 /\ t[p].mask = 0 /\ t[p].logprob = 0 /\ t[p].version = -1
      BY <1>1, <1>2, <1>6, <2>4 DEF Close
    <3>2. t[p] = [active |-> t[p].active, mask |-> t[p].mask,
                  logprob |-> t[p].logprob, version |-> t[p].version]
      BY <2>2 DEF Mark
    <3> QED BY <2>1, <2>4, <3>1, <3>2
  <2>5. prompt < p /\ p <= prompt + reply => t[p].logprob # NaN /\ t[p].version >= 0
    BY <1>1, <1>2, <1>6
  <2>6. q \in 1..Width /\ t[q].mask = (IF predicts THEN 1 ELSE 0) /\ (predicts => q = p + 1)
    <3>1. CASE p = Width
      <4>1. q = 1 /\ ~predicts
        BY <1>1, <1>6, <3>1, TargetOf
      <4>2. 1 \in 1..Width
        BY <1>3, <1>6
      <4>3. t[1].mask = 0
        BY <1>2, <4>2
      <4> HIDE DEF predicts, q
      <4> QED BY <4>1, <4>2, <4>3
    <3>2. CASE p < Width
      <4>1. q = p + 1
        BY <3>2, TargetOf
      <4>2. predicts <=> start <= q /\ q <= n
        BY <1>1, <1>6, <4>1
      <4>3. q \in 1..Width
        BY <1>3, <3>2, <4>1
      <4> QED BY <1>2, <4>1, <4>2, <4>3
    <3> QED BY <1>3, <3>1, <3>2
  <2>7. x[p].mask = t[q].mask /\ x[p].kl = 0
        /\ Close(x[p].logprob, Times(t[q].logprob, t[q].mask))
        /\ x[p].advantage = row.reward * t[q].mask /\ x[p].returns = row.reward * t[q].mask
        /\ x[p].total = row.reward * t[q].mask
    BY <1>5
  <2> HIDE DEF q
  <2>8. t[q].logprob \in Int
    BY <1>3, <2>6 DEF Mark
  <2>9. x[p].logprob = (IF predicts THEN t[p + 1].logprob ELSE 0)
    BY <2>6, <2>7, <2>8, TimesMask DEF Close
  <2>10. row.reward * t[q].mask = (IF predicts THEN row.reward ELSE 0)
    BY <1>3, <2>6
  <2>11. x[p] = [mask |-> x[p].mask, logprob |-> x[p].logprob, advantage |-> x[p].advantage,
                 returns |-> x[p].returns, kl |-> x[p].kl, total |-> x[p].total]
    BY <2>2 DEF Tensors
  <2>12. x[p] = [mask |-> IF predicts THEN 1 ELSE 0,
                 logprob |-> IF predicts THEN t[p + 1].logprob ELSE 0,
                 advantage |-> IF predicts THEN row.reward ELSE 0,
                 returns |-> IF predicts THEN row.reward ELSE 0,
                 kl |-> 0,
                 total |-> IF predicts THEN row.reward ELSE 0]
    BY <2>6, <2>7, <2>9, <2>10, <2>11
  <2> QED BY <2>3, <2>4, <2>5, <2>12
<1>9. prompt + reply <= Width /\ prompt + reply <= ContextLength
  BY <1>1, <1>2, <1>6
<1> HIDE DEF prompt, reply
<1> QED BY <1>6, <1>7, <1>8, <1>9 DEF Trainable, t

\* And nothing else is refused.
LEMMA TrainablePasses ==
  ASSUME NEW row, NEW x, IsRow(row), IsTrained(row, x), Trainable(row, x)
  PROVE  RawPasses(row) /\ TrainedPasses(row, x)
<1> DEFINE t == row.tokens
           Right(prompt, reply, p) ==
             LET expected == Tokens(prompt, reply)[p]
                 predicts == p \in prompt..prompt + reply - 1
             IN /\ t[p].active = expected.active /\ t[p].mask = expected.mask
                /\ p <= prompt => t[p] = expected
                /\ prompt < p /\ p <= prompt + reply => t[p].logprob # NaN /\ t[p].version >= 0
                /\ x[p] = [mask |-> IF predicts THEN 1 ELSE 0,
                           logprob |-> IF predicts THEN t[p + 1].logprob ELSE 0,
                           advantage |-> IF predicts THEN row.reward ELSE 0,
                           returns |-> IF predicts THEN row.reward ELSE 0,
                           kl |-> 0,
                           total |-> IF predicts THEN row.reward ELSE 0]
<1>1. \E s \in Slots : row.reward = 2 * s
  BY DEF Trainable
<1>2. PICK prompt \in 1..Width, reply \in 1..MaxNewTokens :
        /\ prompt + reply <= Width /\ prompt + reply <= ContextLength
        /\ \A p \in 1..Width : Right(prompt, reply, p)
  BY DEF Trainable
<1>3. t \in [1..Width -> Mark] /\ row.reward \in Int /\ Width \in Nat /\ MaxNewTokens \in Nat
  BY AuditAssumption DEF IsRow
<1>4. \A p \in 1..Width : t[(p % Width) + 1].logprob = NaN => x[p].logprob # 0
  BY DEF IsTrained
<1> DEFINE n == prompt + reply
<1>5. n \in 2..Width /\ prompt < n /\ n <= ContextLength
  BY <1>2, <1>3
<1>6. \A p \in 1..Width :
        /\ t[p].active = (IF p <= n THEN 1 ELSE 0)
        /\ t[p].mask = (IF prompt < p /\ p <= n THEN 1 ELSE 0)
        /\ p <= prompt => t[p].logprob = 0 /\ t[p].version = -1
        /\ prompt < p /\ p <= n => t[p].logprob # NaN /\ t[p].version >= 0
  <2> SUFFICES ASSUME NEW p \in 1..Width
               PROVE  /\ t[p].active = (IF p <= n THEN 1 ELSE 0)
                      /\ t[p].mask = (IF prompt < p /\ p <= n THEN 1 ELSE 0)
                      /\ p <= prompt => t[p].logprob = 0 /\ t[p].version = -1
                      /\ prompt < p /\ p <= n => t[p].logprob # NaN /\ t[p].version >= 0
    OBVIOUS
  <2>1. Right(prompt, reply, p)
    BY <1>2
  <2>2. Tokens(prompt, reply)[p] =
          IF p <= prompt THEN [active |-> 1, mask |-> 0, logprob |-> 0, version |-> -1]
          ELSE IF p <= n THEN [active |-> 1, mask |-> 1, logprob |-> -1, version |-> 0]
          ELSE [active |-> 0, mask |-> 0, logprob |-> 0, version |-> -1]
    BY DEF Tokens
  <2> QED BY <1>2, <1>3, <2>1, <2>2
<1>7. \A p \in 1..Width :
        LET predicts == p \in prompt..n - 1 IN
        /\ x[p].mask = (IF predicts THEN 1 ELSE 0)
        /\ x[p].logprob = (IF predicts THEN t[p + 1].logprob ELSE 0)
        /\ x[p].advantage = (IF predicts THEN row.reward ELSE 0)
        /\ x[p].returns = (IF predicts THEN row.reward ELSE 0)
        /\ x[p].total = (IF predicts THEN row.reward ELSE 0)
        /\ x[p].kl = 0
  <2> SUFFICES ASSUME NEW p \in 1..Width
               PROVE  LET predicts == p \in prompt..n - 1 IN
                      /\ x[p].mask = (IF predicts THEN 1 ELSE 0)
                      /\ x[p].logprob = (IF predicts THEN t[p + 1].logprob ELSE 0)
                      /\ x[p].advantage = (IF predicts THEN row.reward ELSE 0)
                      /\ x[p].returns = (IF predicts THEN row.reward ELSE 0)
                      /\ x[p].total = (IF predicts THEN row.reward ELSE 0)
                      /\ x[p].kl = 0
    OBVIOUS
  <2> DEFINE predicts == p \in prompt..n - 1
  <2>1. Right(prompt, reply, p)
    BY <1>2
  <2>2. x[p] = [mask |-> IF predicts THEN 1 ELSE 0,
                logprob |-> IF predicts THEN t[p + 1].logprob ELSE 0,
                advantage |-> IF predicts THEN row.reward ELSE 0,
                returns |-> IF predicts THEN row.reward ELSE 0,
                kl |-> 0,
                total |-> IF predicts THEN row.reward ELSE 0]
    BY <2>1
  <2> HIDE DEF predicts, Right
  <2>3. /\ x[p].mask = (IF predicts THEN 1 ELSE 0)
        /\ x[p].logprob = (IF predicts THEN t[p + 1].logprob ELSE 0)
        /\ x[p].advantage = (IF predicts THEN row.reward ELSE 0)
        /\ x[p].returns = (IF predicts THEN row.reward ELSE 0)
        /\ x[p].total = (IF predicts THEN row.reward ELSE 0)
        /\ x[p].kl = 0
    BY <2>2
  <2> QED BY <2>3 DEF predicts
<1> HIDE DEF Right, t, n
<1>8. Active(row) = n
  <2>1. {p \in 1..Width : row.tokens[p].active = 1} = 1..n
    BY <1>3, <1>5, <1>6 DEF t
  <2>2. Cardinality(1..n) = n
    BY <1>5, FS_Interval
  <2> QED BY <2>1, <2>2 DEF Active
<1>9. Start(row) = prompt + 1
  <2>1. /\ Start(row) \in 1..n + 1
        /\ \A p \in 1..n : p < Start(row) => t[p].mask # 1
        /\ Start(row) <= n => t[Start(row)].mask = 1
    BY <1>8, StartOfMask DEF t
  <2>2. prompt + 1 \in 1..n /\ t[prompt + 1].mask = 1
    BY <1>3, <1>5, <1>6
  <2>3. Start(row) <= prompt + 1
    BY <1>5, <2>1, <2>2
  <2>4. Start(row) \in 1..Width /\ t[Start(row)].mask = 1
    BY <1>3, <1>5, <2>1, <2>3
  <2>5. prompt < Start(row)
    BY <1>6, <2>4
  <2> QED BY <1>3, <2>3, <2>4, <2>5
<1>10. row.reward = 2 * NearestSlot(row)
  BY <1>1, <1>3, NearestInSlots
<1>11. RawPasses(row)
  <2>1. n - (prompt + 1) + 1 <= MaxNewTokens
    BY <1>2, <1>3 DEF n
  <2>2. \A p \in 1..Width : p < prompt + 1 => Close(t[p].logprob, 0) /\ t[p].version = -1
    BY <1>3, <1>6, AuditAssumption DEF Close
  <2>3. n > 0 /\ 1 < prompt + 1 /\ prompt + 1 <= n /\ n <= ContextLength
    BY <1>3, <1>5, AuditAssumption
  <2>4. \A p \in 1..Width :
          /\ t[p].active = (IF p <= n THEN 1 ELSE 0)
          /\ t[p].mask = (IF prompt + 1 <= p /\ p <= n THEN 1 ELSE 0)
          /\ p < prompt + 1 => Close(t[p].logprob, 0) /\ t[p].version = -1
          /\ prompt + 1 <= p /\ p <= n => t[p].logprob # NaN /\ t[p].version >= 0
    BY <1>3, <1>5, <1>6, <2>2
  <2> QED BY <1>8, <1>9, <1>10, <2>1, <2>3, <2>4 DEF RawPasses, t
<1>12. TrainedPasses(row, x)
  <2> SUFFICES ASSUME NEW p \in 1..Width
               PROVE  LET target == t[(p % Width) + 1]
                          credit == row.reward * target.mask
                      IN /\ x[p].mask = target.mask
                         /\ Close(x[p].logprob, Times(target.logprob, target.mask))
                         /\ x[p].advantage = credit /\ x[p].returns = credit /\ x[p].total = credit
                         /\ x[p].kl = 0
    BY DEF TrainedPasses, t
  <2> DEFINE q == (p % Width) + 1
             predicts == p \in prompt..n - 1
  <2>1. q \in 1..Width /\ t[q].mask = (IF predicts THEN 1 ELSE 0)
        /\ (predicts => q = p + 1 /\ t[q].logprob # NaN)
    <3>1. CASE p = Width
      <4>1. q = 1 /\ ~predicts
        BY <1>3, <1>5, <3>1, TargetOf
      <4>2. 1 \in 1..Width
        BY <1>3, <1>5
      <4>3. t[1].mask = 0
        BY <1>6, <4>2
      <4> HIDE DEF predicts, q
      <4> QED BY <4>1, <4>2, <4>3
    <3>2. CASE p < Width
      <4>1. q = p + 1
        BY <3>2, TargetOf
      <4>2. predicts <=> prompt < q /\ q <= n
        BY <1>3, <1>5, <4>1
      <4>3. q \in 1..Width
        BY <1>3, <3>2, <4>1
      <4> QED BY <1>6, <4>1, <4>2, <4>3
    <3> QED BY <1>3, <3>1, <3>2
  <2>2. t[q].logprob \in Int /\ (t[q].logprob = NaN => x[p].logprob # 0)
    BY <1>3, <1>4, <2>1 DEF Mark
  <2>3. /\ x[p].mask = (IF predicts THEN 1 ELSE 0)
        /\ x[p].logprob = (IF predicts THEN t[p + 1].logprob ELSE 0)
        /\ x[p].advantage = (IF predicts THEN row.reward ELSE 0)
        /\ x[p].returns = (IF predicts THEN row.reward ELSE 0)
        /\ x[p].total = (IF predicts THEN row.reward ELSE 0)
        /\ x[p].kl = 0
    BY <1>7
  <2> HIDE DEF q, predicts
  <2>4. row.reward * t[q].mask = (IF predicts THEN row.reward ELSE 0)
    BY <1>3, <2>1
  <2>5. Close(x[p].logprob, Times(t[q].logprob, t[q].mask))
    BY <2>1, <2>2, <2>3, TimesMask, AuditAssumption DEF Close
  <2> QED BY <2>1, <2>3, <2>4, <2>5 DEF q
<1> QED BY <1>11, <1>12

\* The two sides of the audit agree about a row.
LEMMA RowExact ==
  ASSUME NEW row, NEW x, IsRow(row), IsTrained(row, x)
  PROVE  RawPasses(row) /\ TrainedPasses(row, x) <=> Trainable(row, x)
BY PassingTrains, TrainablePasses

(***************************************************************************)
(* Where the rows of a run lie: Turns of them, one block after the other.  *)
(***************************************************************************)

LEMMA ProductGrows ==
  ASSUME NEW m \in Nat, NEW p \in Int, NEW q \in Int, p >= q + 1
  PROVE  m * p >= m * q + m
<1>1. m * (p - q - 1) >= 0
  OBVIOUS
<1>2. m * (p - q - 1) = m * p - m * q - m
  OBVIOUS
<1>3. m * p \in Int /\ m * q \in Int
  OBVIOUS
<1> QED BY <1>1, <1>2, <1>3

\* Division with remainder has one result.
LEMMA Quotient ==
  ASSUME NEW m \in Nat \ {0}, NEW q \in Nat, NEW r \in 0..m - 1, NEW a \in Nat, a = m * q + r
  PROVE  a \div m = q /\ a % m = r
<1> DEFINE p == a \div m
           s == a % m
<1>1. p \in Int /\ s \in 0..m - 1 /\ a = m * p + s
  OBVIOUS
<1>2. m * p \in Int /\ m * q \in Int
  BY <1>1
<1> HIDE DEF p, s
<1>3. ~(p >= q + 1)
  BY <1>1, <1>2, ProductGrows
<1>4. ~(q >= p + 1)
  BY <1>1, <1>2, ProductGrows
<1>5. p = q
  BY <1>1, <1>3, <1>4
<1>6. s = r
  BY <1>1, <1>2, <1>5
<1> QED BY <1>5, <1>6 DEF p, s

\* Below a product, the quotient is below the other factor.
LEMMA QuotientBelow ==
  ASSUME NEW m \in Nat \ {0}, NEW n \in Nat, NEW a \in 0..n * m - 1
  PROVE  /\ a \div m \in 0..n - 1 /\ a % m \in 0..m - 1
         /\ a = m * (a \div m) + (a % m)
<1> DEFINE p == a \div m
           s == a % m
<1>1. n * m \in Nat /\ m * n = n * m
  OBVIOUS
<1>2. a \in Nat /\ a < n * m
  BY <1>1
<1>3. p \in Nat /\ s \in 0..m - 1 /\ a = m * p + s
  BY <1>2
<1> HIDE DEF p, s
<1>4. ~(p >= n)
  <2> SUFFICES ASSUME p >= n PROVE FALSE
    OBVIOUS
  <2>1. m * p \in Int /\ m * n \in Int
    BY <1>3
  <2>2. CASE p = n
    BY <1>1, <1>2, <1>3, <2>1, <2>2
  <2>3. CASE p >= n + 1
    <3>1. m * p >= m * n + m
      <4>1. m \in Nat /\ p \in Int /\ n \in Int
        BY <1>3
      <4> QED BY <2>3, <4>1, ProductGrows
    <3> DEFINE u == m * p
               v == m * n
    <3>2. u \in Int /\ v \in Int /\ u >= v + m
      BY <2>1, <3>1
    <3>3. a < v
      BY <1>1, <1>2
    <3>4. a = u + s /\ s >= 0 /\ s \in Int /\ m > 0 /\ m \in Int /\ a \in Int
      BY <1>2, <1>3
    <3> HIDE DEF u, v
    <3> QED BY <3>2, <3>3, <3>4
  <2> QED BY <1>3, <2>2, <2>3
<1> QED BY <1>3, <1>4 DEF p, s

LEMMA TurnsPositive == Turns \in Nat \ {0} /\ Len(Declared) \in Nat \ {0}
<1>1. Len(Declared) \in Nat \ {0}
  BY AuditAssumption, EmptySeq
<1> DEFINE l == Len(Declared)
<1> HIDE DEF l
<1>2. \A m \in Nat \ {0} : l \in Nat \ {0} => m * l \in Nat \ {0}
  OBVIOUS
<1> QED BY <1>1, <1>2, AuditAssumption DEF Turns, l

Rows == GroupSize * Turns

Block(i) == ((i - 1) \div Turns) + 1

Place(i) == (i - 1) % Turns

First(b) == Turns * (b - 1)

LEMMA RowsNatural == Rows \in Nat \ {0}
<1> DEFINE t == Turns
<1> HIDE DEF t
<1>1. \A g \in Nat \ {0} : t \in Nat \ {0} => g * t \in Nat \ {0}
  OBVIOUS
<1> QED BY <1>1, TurnsPositive, AuditAssumption DEF Rows, t

LEMMA BlockOf ==
  ASSUME NEW i \in 1..Rows
  PROVE  /\ Block(i) \in 1..GroupSize /\ Place(i) \in 0..Turns - 1
         /\ First(Block(i)) \in Nat
         /\ i = First(Block(i)) + Place(i) + 1
<1> DEFINE t == Turns
           a == i - 1
<1>1. t \in Nat \ {0} /\ GroupSize \in Nat
  BY TurnsPositive, AuditAssumption
<1>2. a \in 0..GroupSize * t - 1 /\ i = a + 1
  BY RowsNatural DEF Rows
<1> HIDE DEF t, a
<1>3. a \div t \in 0..GroupSize - 1 /\ a % t \in 0..t - 1 /\ a = t * (a \div t) + (a % t)
  BY <1>1, <1>2, QuotientBelow
<1>4. Block(i) = (a \div t) + 1 /\ Place(i) = a % t
  BY <1>2 DEF Block, Place, t, a
<1>5. First(Block(i)) = t * (a \div t)
  BY <1>3, <1>4 DEF First, t
<1>6. t * (a \div t) \in Nat
  BY <1>1, <1>3
<1> QED BY <1>1, <1>2, <1>3, <1>4, <1>5, <1>6 DEF t

LEMMA PositionOf ==
  ASSUME NEW b \in 1..GroupSize, NEW k \in 0..Turns - 1
  PROVE  /\ First(b) \in Nat
         /\ First(b) + k + 1 \in 1..Rows
         /\ Block(First(b) + k + 1) = b
         /\ Place(First(b) + k + 1) = k
<1> DEFINE t == Turns
           q == b - 1
           a == First(b) + k
<1>1. t \in Nat \ {0} /\ GroupSize \in Nat /\ k \in 0..t - 1
  BY TurnsPositive, AuditAssumption
<1>2. q \in Nat /\ GroupSize >= q + 1
  BY <1>1
<1>3. First(b) = t * q
  BY DEF First, t, q
<1> HIDE DEF t, q
<1>4. t * q \in Nat
  BY <1>1, <1>2
<1>5. a \in Nat /\ a = t * q + k
  BY <1>1, <1>3, <1>4
<1> HIDE DEF a
<1>6. a \div t = q /\ a % t = k
  BY <1>1, <1>2, <1>5, Quotient
<1>7. t * GroupSize >= t * q + t /\ t * GroupSize = Rows
  <2>1. t * GroupSize >= t * q + t
    BY <1>1, <1>2, ProductGrows
  <2>2. t * GroupSize = GroupSize * t
    BY <1>1
  <2> QED BY <2>1, <2>2 DEF Rows, t
<1>8. a + 1 \in 1..Rows
  BY <1>1, <1>4, <1>5, <1>7, RowsNatural
<1>9. First(b) + k + 1 = a + 1 /\ (a + 1) - 1 = a
  BY <1>5 DEF a
<1>10. Block(a + 1) = q + 1 /\ Place(a + 1) = k
  BY <1>6, <1>9 DEF Block, Place, t
<1> QED BY <1>3, <1>4, <1>8, <1>9, <1>10 DEF q

LEMMA RunsEnumerate ==
  ASSUME NEW runs \in SetToSeqs(Slots)
  PROVE  /\ runs \in [1..GroupSize -> Slots]
         /\ \A a, b \in 1..GroupSize : runs[a] = runs[b] => a = b
         /\ \A s \in Slots : \E b \in 1..GroupSize : runs[b] = s
<1>1. IsFiniteSet(Slots) /\ Cardinality(Slots) = GroupSize
  BY FS_Interval, AuditAssumption DEF Slots
<1>2. /\ runs \in [1..GroupSize -> Slots]
      /\ \A a, b \in 1..GroupSize : a # b => runs[a] # runs[b]
  BY <1>1 DEF SetToSeqs
<1>3. runs \in Injection(1..GroupSize, Slots)
  BY <1>2 DEF Injection, IsInjective
<1>4. IsFiniteSet(1..GroupSize) /\ Cardinality(1..GroupSize) = GroupSize
  BY FS_Interval, AuditAssumption
<1>5. runs \in Surjection(1..GroupSize, Slots)
  BY <1>1, <1>3, <1>4, FS_Injection
<1> QED BY <1>2, <1>5 DEF Surjection

LEMMA BlockRows ==
  ASSUME NEW b \in 1..GroupSize
  PROVE  /\ First(b) \in Nat
         /\ {i \in 1..Rows : Block(i) = b} = First(b) + 1..First(b) + Turns
<1>1. First(b) \in Nat
  <2>1. 0 \in 0..Turns - 1
    BY TurnsPositive
  <2> QED BY <2>1, PositionOf
<1>2. ASSUME NEW i \in 1..Rows, Block(i) = b
      PROVE  i \in First(b) + 1..First(b) + Turns
  BY <1>1, <1>2, BlockOf, TurnsPositive
<1>3. ASSUME NEW i \in First(b) + 1..First(b) + Turns
      PROVE  i \in 1..Rows /\ Block(i) = b
  <2> DEFINE k == i - First(b) - 1
  <2>1. k \in 0..Turns - 1 /\ i = First(b) + k + 1
    BY <1>1, TurnsPositive
  <2> HIDE DEF k
  <2> QED BY <2>1, PositionOf
<1> QED BY <1>1, <1>2, <1>3

\* Rows in the places of an export; the first one may be spoiled.
Laid(rows, runs) ==
  /\ DOMAIN rows = 1..Rows /\ Len(rows) = Rows
  /\ \A i \in 1..Rows :
       /\ rows[i].slot = runs[Block(i)]
       /\ rows[i].turn = Place(i)
       /\ rows[i].speaker = order[(Place(i) % Len(order)) + 1]
       /\ i # 1 => rows[i].reward = 2 * rows[i].slot

Paid(rows) == \A i \in DOMAIN rows : rows[i].reward = 2 * rows[i].slot

LEMMA LaidDomain ==
  ASSUME NEW rows, NEW runs, Laid(rows, runs)
  PROVE  DOMAIN rows = 1..Rows
BY DEF Laid

LEMMA SlotsLaid ==
  ASSUME NEW runs \in SetToSeqs(Slots), NEW rows, Laid(rows, runs), Paid(rows)
  PROVE  \A i \in 1..Rows : NearestSlot(rows[i]) = runs[Block(i)]
<1> SUFFICES ASSUME NEW i \in 1..Rows PROVE NearestSlot(rows[i]) = runs[Block(i)]
  OBVIOUS
<1>1. Block(i) \in 1..GroupSize
  BY BlockOf
<1>2. runs[Block(i)] \in Slots
  BY <1>1, RunsEnumerate
<1>3. rows[i].reward = 2 * runs[Block(i)]
  BY LaidDomain DEF Laid, Paid
<1>4. rows[i].reward \in Int
  BY <1>2, <1>3, AuditAssumption DEF Slots
<1> QED BY <1>2, <1>3, <1>4, NearestInSlots

LEMMA OrdinalLaid ==
  ASSUME NEW runs \in SetToSeqs(Slots), NEW rows, Laid(rows, runs), Paid(rows),
         NEW i \in 1..Rows
  PROVE  Ordinal(rows, i) = Place(i)
<1> DEFINE b == Block(i)
<1>1. b \in 1..GroupSize /\ First(b) \in Nat /\ Place(i) \in 0..Turns - 1
      /\ i = First(b) + Place(i) + 1
  BY BlockOf
<1>2. \A j \in 1..i - 1 : j \in 1..Rows /\ Block(j) \in 1..GroupSize
  BY BlockOf, RowsNatural
<1>3. \A j \in 1..i - 1 : NearestSlot(rows[j]) = NearestSlot(rows[i]) <=> Block(j) = b
  BY <1>1, <1>2, SlotsLaid, RunsEnumerate
<1> HIDE DEF b
<1>4. \A j \in 1..i - 1 : Block(j) = b <=> j \in First(b) + 1..i - 1
  <2> SUFFICES ASSUME NEW j \in 1..i - 1
               PROVE  Block(j) = b <=> j \in First(b) + 1..i - 1
    OBVIOUS
  <2>1. j \in 1..Rows
    BY <1>2
  <2>2. Block(j) = b <=> j \in First(b) + 1..First(b) + Turns
    BY <1>1, <2>1, BlockRows
  <2> QED BY <1>1, <2>2, TurnsPositive
<1>5. {j \in 1..i - 1 : NearestSlot(rows[j]) = NearestSlot(rows[i])} = First(b) + 1..i - 1
  BY <1>1, <1>3, <1>4
<1>6. Cardinality(First(b) + 1..i - 1) = Place(i)
  <2> DEFINE lo == First(b) + 1
             hi == i - 1
  <2>1. lo \in Int /\ hi \in Int /\ hi - lo + 1 = Place(i) /\ (lo > hi => Place(i) = 0)
    BY <1>1, TurnsPositive
  <2> HIDE DEF lo, hi
  <2>2. Cardinality(lo..hi) = IF lo > hi THEN 0 ELSE hi - lo + 1
    BY <2>1, FS_Interval
  <2>3. Cardinality(lo..hi) = Place(i)
    BY <2>1, <2>2
  <2> QED BY <2>3 DEF lo, hi
<1> QED BY <1>5, <1>6 DEF Ordinal

LEMMA SlotsFull ==
  ASSUME NEW runs \in SetToSeqs(Slots), NEW rows, Laid(rows, runs), Paid(rows), NEW s \in Slots
  PROVE  Cardinality({i \in DOMAIN rows : NearestSlot(rows[i]) = s}) = Turns
<1>1. PICK b \in 1..GroupSize : runs[b] = s
  BY RunsEnumerate
<1>2. \A i \in 1..Rows : NearestSlot(rows[i]) = s <=> Block(i) = b
  BY <1>1, SlotsLaid, BlockOf, RunsEnumerate
<1>3. {i \in DOMAIN rows : NearestSlot(rows[i]) = s} = First(b) + 1..First(b) + Turns
  BY <1>2, LaidDomain, BlockRows
<1> DEFINE lo == First(b) + 1
           hi == First(b) + Turns
<1>4. lo \in Int /\ hi \in Int /\ hi - lo + 1 = Turns /\ ~(lo > hi)
  BY BlockRows, TurnsPositive
<1> HIDE DEF lo, hi
<1>5. Cardinality(lo..hi) = Turns
  BY <1>4, FS_Interval
<1> QED BY <1>3, <1>5 DEF lo, hi

\* Among n times m numbers, each remainder comes up n times.
LEMMA RemainderShare ==
  ASSUME NEW n \in Nat, NEW m \in Nat \ {0}, NEW j \in 0..m - 1
  PROVE  Cardinality({i \in 1..n * m : (i - 1) % m = j}) = n
<1> DEFINE S == {i \in 1..n * m : (i - 1) % m = j}
           f == [k \in 1..n |-> m * (k - 1) + j + 1]
<1>1. n * m \in Nat
  OBVIOUS
<1>2. ASSUME NEW k \in 1..n
      PROVE  f[k] \in S
  <2> DEFINE q == k - 1
             a == m * q + j
             u == m * q
             v == m * n
  <2>1. q \in Nat /\ u \in Nat /\ v \in Nat /\ v = n * m
    OBVIOUS
  <2>2. v >= u + m
    <3>1. n >= q + 1 /\ m \in Nat /\ n \in Int /\ q \in Int
      BY <2>1
    <3> HIDE DEF q
    <3> QED BY <3>1, ProductGrows
  <2>3. a = u + j /\ f[k] = a + 1
    OBVIOUS
  <2>4. a % m = j
    <3>1. a \in Nat /\ a = m * q + j
      BY <2>1, <2>3
    <3> HIDE DEF a, q
    <3> QED BY <2>1, <3>1, Quotient
  <2>5. a + 1 \in 1..n * m /\ (a + 1) - 1 = a
    <3> HIDE DEF a, u, v
    <3> QED BY <2>1, <2>2, <2>3
  <2> HIDE DEF a
  <2> QED BY <2>3, <2>4, <2>5
<1>3. ASSUME NEW i \in S
      PROVE  \E k \in 1..n : f[k] = i
  <2> DEFINE a == i - 1
             q == a \div m
  <2>1. a \in 0..n * m - 1 /\ a % m = j /\ i = a + 1
    BY <1>1
  <2> HIDE DEF a
  <2>2. q \in 0..n - 1 /\ a = m * q + j
    BY <2>1, QuotientBelow
  <2> HIDE DEF q
  <2>3. q + 1 \in 1..n /\ (q + 1) - 1 = q
    BY <2>2
  <2>4. f[q + 1] = m * q + j + 1
    BY <2>3
  <2>5. m * q \in Int
    BY <2>2
  <2> QED BY <2>1, <2>2, <2>3, <2>4, <2>5
<1>4. ASSUME NEW k \in 1..n, NEW l \in 1..n, f[k] = f[l]
      PROVE  k = l
  <2>1. m * (k - 1) \in Int /\ m * (l - 1) \in Int
    OBVIOUS
  <2>2. m * (k - 1) = m * (l - 1)
    BY <1>4, <2>1
  <2> DEFINE p == k - 1
             q == l - 1
  <2>3. p \in Int /\ q \in Int /\ m * p = m * q /\ m * p \in Int
    BY <2>1, <2>2
  <2> HIDE DEF p, q
  <2>4. ~(p >= q + 1)
    BY <2>3, ProductGrows
  <2>5. ~(q >= p + 1)
    BY <2>3, ProductGrows
  <2>6. p = q
    BY <2>3, <2>4, <2>5
  <2> QED BY <2>6 DEF p, q
<1>5. f \in Bijection(1..n, S)
  <2>1. f \in [1..n -> S]
    BY <1>2
  <2>2. \A k, l \in 1..n : f[k] = f[l] => k = l
    BY <1>4
  <2>3. \A i \in S : \E k \in 1..n : f[k] = i
    BY <1>3
  <2> HIDE DEF f, S
  <2> QED BY <2>1, <2>2, <2>3 DEF Bijection, Injection, Surjection, IsInjective
<1> HIDE DEF f, S
<1>6. Cardinality(S) = n
  BY <1>5, FS_CountingElements DEF ExistsBijection
<1> QED BY <1>6 DEF S

LEMMA PlaceInRound ==
  ASSUME NEW i \in 1..Rows
  PROVE  /\ Place(i) \div Len(Declared) \in 0..MaxRounds - 1
         /\ Place(i) % Len(Declared) = (i - 1) % Len(Declared)
         /\ Place(i) % Len(Declared) \in 0..Len(Declared) - 1
<1> DEFINE l == Len(Declared)
           m == MaxRounds
           k == Place(i)
           c == Block(i) - 1
           a == i - 1
<1>1. l \in Nat \ {0} /\ m \in Nat \ {0} /\ GroupSize \in Nat
  BY TurnsPositive, AuditAssumption
<1>2. k \in 0..Turns - 1 /\ c \in Nat /\ a = Turns * c + k /\ Turns * c \in Nat
  <2>1. /\ Block(i) \in 1..GroupSize /\ k \in 0..Turns - 1 /\ First(Block(i)) \in Nat
        /\ i = First(Block(i)) + k + 1
    BY BlockOf
  <2>2. First(Block(i)) = Turns * c
    BY DEF First
  <2>3. c \in Nat
    BY <1>1, <2>1
  <2> HIDE DEF c, k
  <2> QED BY <2>1, <2>2, <2>3
<1>3. Turns = m * l
  BY DEF Turns
<1> HIDE DEF l, m, k, c, a
<1> DEFINE q == k \div l
           r == k % l
<1>4. q \in 0..m - 1 /\ r \in 0..l - 1 /\ k = l * q + r
  BY <1>1, <1>2, <1>3, QuotientBelow
<1> HIDE DEF q, r
<1> DEFINE w == m * c + q
<1>5. w \in Nat /\ a = l * w + r /\ a \in Nat
  <2>1. m * c \in Nat /\ q \in Nat
    BY <1>1, <1>2, <1>4
  <2>2. (m * l) * c = l * (m * c)
    BY <1>1, <1>2
  <2>3. l * w = l * (m * c) + l * q
    BY <1>1, <2>1
  <2>4. l * (m * c) \in Int /\ l * q \in Int
    BY <1>1, <2>1
  <2>5. a = l * (m * c) + (l * q + r)
    BY <1>2, <1>3, <1>4, <2>2
  <2>6. w \in Nat
    BY <2>1
  <2> HIDE DEF w
  <2>7. a = l * w + r /\ l * w \in Nat
    BY <1>1, <1>4, <2>3, <2>4, <2>5, <2>6
  <2> QED BY <1>4, <2>6, <2>7
<1> HIDE DEF w
<1>6. a % l = r
  BY <1>1, <1>4, <1>5, Quotient
<1> QED BY <1>4, <1>6 DEF q, r, l, m, k, a

LEMMA SharesLaid ==
  ASSUME NEW runs \in SetToSeqs(Slots), NEW rows, Laid(rows, runs), Paid(rows),
         NEW c \in ToSet(Declared)
  PROVE  Cardinality({i \in DOMAIN rows : RecordOf(rows, i).character = c}) = GroupSize * MaxRounds
<1> DEFINE l == Len(Declared)
           n == GroupSize * MaxRounds
<1>1. l \in Nat \ {0} /\ DOMAIN Declared = 1..l
  BY TurnsPositive, LenProperties, AuditAssumption
<1>2. PICK d \in 1..l : Declared[d] = c
  BY <1>1 DEF ToSet
<1> DEFINE j == d - 1
<1>3. j \in 0..l - 1 /\ d = j + 1
  BY <1>1
<1>4. n \in Nat /\ Rows = n * l
  <2>1. n \in Nat
    BY AuditAssumption
  <2>2. GroupSize * (MaxRounds * l) = (GroupSize * MaxRounds) * l
    BY <1>1, AuditAssumption
  <2> QED BY <2>1, <2>2 DEF Rows, Turns
<1>5. \A i \in 1..Rows : RecordOf(rows, i).character = Declared[((i - 1) % l) + 1]
                         /\ (i - 1) % l \in 0..l - 1
  BY OrdinalLaid, PlaceInRound DEF RecordOf
<1> HIDE DEF l, n, j
<1>6. \A i \in 1..Rows : RecordOf(rows, i).character = c <=> (i - 1) % l = j
  <2> SUFFICES ASSUME NEW i \in 1..Rows
               PROVE  RecordOf(rows, i).character = c <=> (i - 1) % l = j
    OBVIOUS
  <2> DEFINE r == (i - 1) % l
  <2>1. RecordOf(rows, i).character = Declared[r + 1] /\ r \in 0..l - 1
    BY <1>5
  <2> HIDE DEF r
  <2>2. r + 1 \in DOMAIN Declared /\ j + 1 \in DOMAIN Declared
    BY <1>1, <1>3, <2>1
  <2>3. Declared[r + 1] = Declared[j + 1] => r + 1 = j + 1
    BY <2>2, AuditAssumption DEF IsInjective
  <2>4. r + 1 = j + 1 <=> r = j
    BY <1>1, <1>3, <2>1
  <2> QED BY <1>2, <1>3, <2>1, <2>3, <2>4 DEF r
<1>7. {i \in DOMAIN rows : RecordOf(rows, i).character = c} = {i \in 1..n * l : (i - 1) % l = j}
  BY <1>4, <1>6, LaidDomain
<1>8. Cardinality({i \in 1..n * l : (i - 1) % l = j}) = n
  BY <1>1, <1>3, <1>4, RemainderShare
<1> QED BY <1>7, <1>8 DEF n

(***************************************************************************)
(* The structure of an export of full length.  It passes exactly if no row *)
(* has the reward of another slot, and then every turn is there.           *)
(***************************************************************************)

LEMMA PaidPasses ==
  ASSUME NEW runs \in SetToSeqs(Slots), NEW rows, Laid(rows, runs), Paid(rows)
  PROVE  StructurePasses(rows)
<1>1. DOMAIN rows = 1..Rows
  BY LaidDomain
<1>2. \A i \in DOMAIN rows : RecordOf(rows, i).round < MaxRounds
  <2> SUFFICES ASSUME NEW i \in 1..Rows PROVE RecordOf(rows, i).round < MaxRounds
    BY <1>1
  <2>1. RecordOf(rows, i).round = Place(i) \div Len(Declared)
    BY OrdinalLaid DEF RecordOf
  <2> QED BY <2>1, PlaceInRound, AuditAssumption
<1>3. Len(rows) = GroupSize * Turns
  BY DEF Laid, Rows
<1> QED BY <1>2, <1>3, SlotsFull, SharesLaid DEF StructurePasses

Covers(rows) ==
  \A s \in Slots, k \in 0..Turns - 1 :
    \E i \in DOMAIN rows : rows[i].reward = 2 * s /\ rows[i].turn = k

LEMMA PaidCovers ==
  ASSUME NEW runs \in SetToSeqs(Slots), NEW rows, Laid(rows, runs), Paid(rows)
  PROVE  Covers(rows)
<1> SUFFICES ASSUME NEW s \in Slots, NEW k \in 0..Turns - 1
             PROVE  \E i \in DOMAIN rows : rows[i].reward = 2 * s /\ rows[i].turn = k
  BY DEF Covers
<1>1. PICK b \in 1..GroupSize : runs[b] = s
  BY RunsEnumerate
<1> DEFINE i == First(b) + k + 1
<1>2. i \in 1..Rows /\ Block(i) = b /\ Place(i) = k
  BY PositionOf
<1> HIDE DEF i
<1>3. i \in DOMAIN rows /\ rows[i].slot = s /\ rows[i].turn = k
  BY <1>1, <1>2, LaidDomain DEF Laid
<1> QED BY <1>3 DEF Paid

\* Only the first row can have another reward than its slot's.
LEMMA FirstPays ==
  ASSUME NEW rows, NEW runs, Laid(rows, runs), rows[1].reward = 2 * rows[1].slot
  PROVE  Paid(rows)
<1>1. DOMAIN rows = 1..Rows
  BY LaidDomain
<1>2. \A i \in 1..Rows : i # 1 => rows[i].reward = 2 * rows[i].slot
  BY DEF Laid
<1>3. \A i \in 1..Rows : rows[i].reward = 2 * rows[i].slot
  BY <1>2
<1> QED BY <1>1, <1>3 DEF Paid

LEMMA FirstBlock ==
  /\ Block(1) = 1 /\ 1 \in 1..GroupSize /\ 1 \in 1..Rows
  /\ {i \in 1..Rows : Block(i) = 1} = 1..Turns
<1>1. 1 \in 1..GroupSize /\ 1 \in 1..Rows
  BY RowsNatural, AuditAssumption
<1>2. First(1) = 0
  BY TurnsPositive DEF First
<1>3. {i \in 1..Rows : Block(i) = 1} = 1..Turns
  <2>1. {i \in 1..Rows : Block(i) = 1} = First(1) + 1..First(1) + Turns
    BY <1>1, BlockRows
  <2>2. First(1) + 1 = 1 /\ First(1) + Turns = Turns
    BY <1>2, TurnsPositive
  <2> QED BY <2>1, <2>2
<1>4. 1 \in 1..Turns
  BY TurnsPositive
<1> QED BY <1>1, <1>3, <1>4

LEMMA CoveragePays ==
  ASSUME NEW runs \in SetToSeqs(Slots), NEW rows, Laid(rows, runs), Covers(rows)
  PROVE  Paid(rows)
<1> DEFINE s == runs[1]
<1>1. s \in Slots /\ 0 \in 0..Turns - 1
  <2>1. runs \in [1..GroupSize -> Slots]
    BY RunsEnumerate
  <2> QED BY <2>1, FirstBlock, TurnsPositive
<1>2. PICK i \in 1..Rows : rows[i].reward = 2 * s /\ rows[i].turn = 0
  BY <1>1, LaidDomain DEF Covers
<1>3. i = 1
  <2> SUFFICES ASSUME i # 1 PROVE FALSE
    OBVIOUS
  <2>1. rows[i].reward = 2 * runs[Block(i)]
    BY DEF Laid
  <2>2. Block(i) \in 1..GroupSize /\ runs[Block(i)] \in Slots
    BY BlockOf, RunsEnumerate
  <2>3. runs[Block(i)] = s
    BY <1>1, <1>2, <2>1, <2>2, AuditAssumption DEF Slots
  <2>4. Block(i) = 1
    BY <2>2, <2>3, FirstBlock, RunsEnumerate
  <2>5. Place(i) = 0
    BY <1>2 DEF Laid
  <2>6. First(1) = 0
    BY TurnsPositive DEF First
  <2>7. i = First(Block(i)) + Place(i) + 1
    BY BlockOf
  <2> QED BY <2>4, <2>5, <2>6, <2>7
<1>4. rows[1].slot = s
  BY FirstBlock DEF Laid
<1> QED BY <1>2, <1>3, <1>4, FirstPays

\* With the reward of another slot the slot of the first row is a row short.
LEMMA StructurePays ==
  ASSUME NEW runs \in SetToSeqs(Slots), NEW rows, Laid(rows, runs), StructurePasses(rows),
         \A i \in DOMAIN rows : rows[i].reward \in Int /\ rows[i].reward = 2 * NearestSlot(rows[i])
  PROVE  Paid(rows)
<1> SUFFICES ASSUME rows[1].reward # 2 * rows[1].slot PROVE FALSE
  BY FirstPays
<1> DEFINE s == runs[1]
           N == {i \in DOMAIN rows : NearestSlot(rows[i]) = s}
<1>1. s \in Slots /\ rows[1].slot = s /\ DOMAIN rows = 1..Rows
  <2>1. runs \in [1..GroupSize -> Slots]
    BY RunsEnumerate
  <2>2. rows[1].slot = runs[Block(1)]
    BY FirstBlock DEF Laid
  <2> QED BY <2>1, <2>2, FirstBlock, LaidDomain
<1>2. 1 \notin N
  BY <1>1, FirstBlock
<1>3. ASSUME NEW i \in N PROVE i \in 2..Turns
  <2>1. i \in 1..Rows /\ i # 1
    BY <1>1, <1>2
  <2>2. rows[i].reward = 2 * runs[Block(i)] /\ Block(i) \in 1..GroupSize
    BY <2>1, BlockOf DEF Laid
  <2>3. runs[Block(i)] \in Slots
    BY <2>2, RunsEnumerate
  <2>4. NearestSlot(rows[i]) = runs[Block(i)]
    BY <1>1, <2>1, <2>2, <2>3, NearestInSlots
  <2>5. Block(i) = 1
    BY <2>2, <2>4, FirstBlock, RunsEnumerate
  <2> QED BY <2>1, <2>5, FirstBlock, TurnsPositive
<1>4. N \in SUBSET (2..Turns)
  BY <1>3
<1>5. Cardinality(N) = Turns
  BY <1>1 DEF StructurePasses
<1> HIDE DEF N
<1>6. IsFiniteSet(2..Turns) /\ Cardinality(2..Turns) < Turns
  <2>1. 2 \in Int /\ Turns \in Int /\ Turns >= 1
    BY TurnsPositive
  <2>2. IsFiniteSet(2..Turns) /\ Cardinality(2..Turns) = IF 2 > Turns THEN 0 ELSE Turns - 2 + 1
    BY <2>1, FS_Interval
  <2> QED BY <2>1, <2>2
<1>7. Cardinality(N) <= Cardinality(2..Turns)
  BY <1>4, <1>6, FS_Subset
<1>8. Cardinality(2..Turns) \in Nat
  BY <1>6, FS_CardinalityType
<1> QED BY <1>5, <1>6, <1>7, <1>8, TurnsPositive

(***************************************************************************)
(* What is exported.                                                       *)
(***************************************************************************)

LEMMA TokensTyped ==
  ASSUME NEW prompt \in Int, NEW reply \in Int
  PROVE  Tokens(prompt, reply) \in [1..Width -> Mark]
BY DEF Tokens, Mark

LEMMA InteractionRow ==
  ASSUME NEW s \in Slots, NEW k, NEW prompt \in Int, NEW reply \in Int
  PROVE  LET row == Interaction(s, k, prompt, reply) IN
         /\ IsRow(row) /\ row.reward = 2 * row.slot
         /\ row.slot = s /\ row.turn = k /\ row.speaker = order[(k % Len(order)) + 1]
<1>1. 2 * s \in Int
  BY AuditAssumption DEF Slots
<1> QED BY <1>1, TokensTyped DEF Interaction, IsRow

LEMMA SpoiledRow ==
  ASSUME NEW s \in Slots, NEW k, NEW prompt \in Int, NEW reply \in Int,
         NEW row \in Spoiled(Interaction(s, k, prompt, reply))
  PROVE  /\ IsRow(row)
         /\ row.slot = s /\ row.turn = k /\ row.speaker = order[(k % Len(order)) + 1]
<1> DEFINE good == Interaction(s, k, prompt, reply)
<1>1. good = [slot |-> good.slot, turn |-> good.turn, speaker |-> good.speaker,
              reward |-> good.reward, tokens |-> good.tokens]
  BY DEF Interaction
<1>2. /\ good.reward \in Int /\ good.tokens \in [1..Width -> Mark]
      /\ good.slot = s /\ good.turn = k /\ good.speaker = order[(k % Len(order)) + 1]
  BY InteractionRow DEF IsRow
<1>0. row \in Spoiled(good)
  OBVIOUS
<1> HIDE DEF good
<1>3. CASE \E v \in -1..2 * GroupSize : row = [good EXCEPT !.reward = v]
  <2>1. PICK v \in -1..2 * GroupSize : row = [good EXCEPT !.reward = v]
    BY <1>3
  <2>2. row = [slot |-> good.slot, turn |-> good.turn, speaker |-> good.speaker,
               reward |-> v, tokens |-> good.tokens]
    BY <1>1, <2>1
  <2>3. v \in Int
    BY AuditAssumption
  <2> QED BY <1>2, <2>2, <2>3 DEF IsRow
<1>4. ASSUME NEW p \in 1..Width, NEW q \in 1..Width, NEW x \in Token, NEW y \in Token,
             row = [good EXCEPT !.tokens = [@ EXCEPT ![p] = x, ![q] = y]]
      PROVE  /\ IsRow(row)
             /\ row.slot = s /\ row.turn = k /\ row.speaker = order[(k % Len(order)) + 1]
  <2> DEFINE two == [good.tokens EXCEPT ![p] = x, ![q] = y]
  <2>1. row = [slot |-> good.slot, turn |-> good.turn, speaker |-> good.speaker,
               reward |-> good.reward, tokens |-> two]
    BY <1>1, <1>4
  <2>2. x \in Mark /\ y \in Mark
    BY AuditAssumption DEF Mark
  <2>3. two \in [1..Width -> Mark]
    BY <1>2, <2>2
  <2> HIDE DEF two
  <2> QED BY <1>2, <2>1, <2>3 DEF IsRow
<1>5. \/ row \in {[good EXCEPT !.reward = v] : v \in -1..2 * GroupSize}
      \/ row \in {[good EXCEPT !.tokens = [@ EXCEPT ![p] = x, ![q] = y]] :
                   p \in 1..Width, q \in 1..Width, x \in Token, y \in Token}
  BY <1>0 DEF Spoiled
<1>6. CASE row \in {[good EXCEPT !.reward = v] : v \in -1..2 * GroupSize}
  <2>1. \E v \in -1..2 * GroupSize : row = [good EXCEPT !.reward = v]
    BY <1>6
  <2> QED BY <1>3, <2>1
<1>7. CASE row \in {[good EXCEPT !.tokens = [@ EXCEPT ![p] = x, ![q] = y]] :
                   p \in 1..Width, q \in 1..Width, x \in Token, y \in Token}
  <2>1. \E p \in 1..Width, q \in 1..Width, x \in Token, y \in Token :
           row = [good EXCEPT !.tokens = [@ EXCEPT ![p] = x, ![q] = y]]
    BY <1>7
  <2> QED BY <1>4, <2>1
<1> QED BY <1>5, <1>6, <1>7

LEMMA LenOfFunction ==
  ASSUME NEW n \in Nat, NEW S, NEW f \in [1..n -> S]
  PROVE  f \in Seq(S) /\ Len(f) = n /\ DOMAIN f = 1..n
<1>1. f \in Seq(S)
  BY SeqDef
<1>2. DOMAIN f = 1..Len(f) /\ Len(f) \in Nat
  BY <1>1, LenProperties
<1>3. 1..Len(f) = 1..n
  BY <1>2
<1>4. Len(f) = n
  BY <1>2, <1>3, FS_Interval
<1> QED BY <1>1, <1>2, <1>4

IsExport(rows) ==
  /\ \A i \in DOMAIN rows : IsRow(rows[i])
  /\ Len(rows) = Rows => \E runs \in SetToSeqs(Slots) : Laid(rows, runs)

\* A row lost or doubled shows in the length.
LEMMA RemovedRow ==
  ASSUME NEW S, \A row \in S : IsRow(row), NEW e \in Seq(S), Len(e) = Rows, NEW i \in DOMAIN e
  PROVE  IsExport(RemoveAt(e, i))
<1> DEFINE head == SubSeq(e, 1, i - 1)
           tail == SubSeq(e, i + 1, Len(e))
<1>1. i \in 1..Rows /\ DOMAIN e = 1..Rows /\ Rows \in Nat /\ e \in [1..Rows -> S]
  BY LenProperties, RowsNatural
<1>2. head \in Seq(S) /\ Len(head) = i - 1
  <2>1. 1 \in Int /\ i - 1 \in Int /\ \A j \in 1..i - 1 : e[j] \in S
    BY <1>1
  <2>2. /\ SubSeq(e, 1, i - 1) \in Seq(S)
        /\ Len(SubSeq(e, 1, i - 1)) = IF 1 <= i - 1 THEN i - 1 - 1 + 1 ELSE 0
    BY <2>1, SubSeqProperties
  <2> QED BY <1>1, <2>2
<1>3. tail \in Seq(S) /\ Len(tail) = Rows - i
  <2>1. i + 1 \in Int /\ Len(e) \in Int /\ \A j \in i + 1..Len(e) : e[j] \in S
    BY <1>1
  <2>2. /\ SubSeq(e, i + 1, Len(e)) \in Seq(S)
        /\ Len(SubSeq(e, i + 1, Len(e))) = IF i + 1 <= Len(e) THEN Len(e) - (i + 1) + 1 ELSE 0
    BY <2>1, SubSeqProperties
  <2> QED BY <1>1, <2>2
<1> HIDE DEF head, tail
<1>4. head \o tail \in Seq(S) /\ Len(head \o tail) = Rows - 1
  <2>1. head \o tail \in Seq(S) /\ Len(head \o tail) = Len(head) + Len(tail)
    BY <1>2, <1>3, ConcatProperties
  <2> QED BY <1>1, <1>2, <1>3, <2>1
<1>5. \A j \in DOMAIN (head \o tail) : (head \o tail)[j] \in S
  BY <1>4, LenProperties
<1>6. RemoveAt(e, i) = head \o tail
  BY DEF RemoveAt, head, tail
<1> QED BY <1>1, <1>4, <1>5, <1>6 DEF IsExport

LEMMA DoubledRow ==
  ASSUME NEW S, \A row \in S : IsRow(row), NEW e \in Seq(S), Len(e) = Rows, NEW i \in DOMAIN e
  PROVE  IsExport(InsertAt(e, i, e[i]))
<1> DEFINE head == SubSeq(e, 1, i - 1)
           tail == SubSeq(e, i, Len(e))
<1>1. i \in 1..Rows /\ DOMAIN e = 1..Rows /\ Rows \in Nat /\ e \in [1..Rows -> S]
  BY LenProperties, RowsNatural
<1>2. head \in Seq(S) /\ Len(head) = i - 1
  <2>1. 1 \in Int /\ i - 1 \in Int /\ \A j \in 1..i - 1 : e[j] \in S
    BY <1>1
  <2>2. /\ SubSeq(e, 1, i - 1) \in Seq(S)
        /\ Len(SubSeq(e, 1, i - 1)) = IF 1 <= i - 1 THEN i - 1 - 1 + 1 ELSE 0
    BY <2>1, SubSeqProperties
  <2> QED BY <1>1, <2>2
<1>3. tail \in Seq(S) /\ Len(tail) = Rows - i + 1
  <2>1. i \in Int /\ Len(e) \in Int /\ \A j \in i..Len(e) : e[j] \in S
    BY <1>1
  <2>2. /\ SubSeq(e, i, Len(e)) \in Seq(S)
        /\ Len(SubSeq(e, i, Len(e))) = IF i <= Len(e) THEN Len(e) - i + 1 ELSE 0
    BY <2>1, SubSeqProperties
  <2> QED BY <1>1, <2>2
<1> DEFINE more == head \o <<e[i]>>
           all == more \o tail
<1>4. <<e[i]>> \in Seq(S) /\ Len(<<e[i]>>) = 1
  BY <1>1
<1> HIDE DEF head, tail
<1>5. more \in Seq(S) /\ Len(more) = i
  <2>1. more \in Seq(S) /\ Len(more) = Len(head) + Len(<<e[i]>>)
    BY <1>2, <1>4, ConcatProperties
  <2> QED BY <1>1, <1>2, <1>4, <2>1
<1> HIDE DEF more
<1>6. all \in Seq(S) /\ Len(all) = Rows + 1
  <2>1. all \in Seq(S) /\ Len(all) = Len(more) + Len(tail)
    BY <1>3, <1>5, ConcatProperties
  <2> QED BY <1>1, <1>3, <1>5, <2>1
<1> HIDE DEF all
<1>7. \A j \in DOMAIN all : all[j] \in S
  BY <1>6, LenProperties
<1>8. InsertAt(e, i, e[i]) = all
  BY DEF InsertAt, head, tail, more, all
<1> QED BY <1>1, <1>6, <1>7, <1>8 DEF IsExport

ExportOf(runs, prompt, reply) ==
  [i \in 1..Rows |-> Interaction(runs[Block(i)], Place(i), prompt, reply)]

\* A whole export, with any row in the first place.
LEMMA WholeLaid ==
  ASSUME NEW runs \in SetToSeqs(Slots), NEW prompt \in Int, NEW reply \in Int,
         NEW e, e = ExportOf(runs, prompt, reply)
  PROVE  /\ e \in Seq(ToSet(e)) /\ Len(e) = Rows /\ DOMAIN e = 1..Rows
         /\ \A i \in 1..Rows : IsRow(e[i])
         /\ Laid(e, runs)
         /\ \A row \in Spoiled(e[1]) : IsExport([e EXCEPT ![1] = row])
<1>1. runs \in [1..GroupSize -> Slots] /\ Rows \in Nat
  BY RunsEnumerate, RowsNatural
<1>2. DOMAIN e = 1..Rows /\ e \in [1..Rows -> ToSet(e)]
  BY DEF ToSet, ExportOf
<1>3. e \in Seq(ToSet(e)) /\ Len(e) = Rows
  BY <1>1, <1>2, LenOfFunction
<1>4. ASSUME NEW i \in 1..Rows
      PROVE  /\ IsRow(e[i]) /\ e[i].reward = 2 * e[i].slot
             /\ e[i].slot = runs[Block(i)] /\ e[i].turn = Place(i)
             /\ e[i].speaker = order[(Place(i) % Len(order)) + 1]
  <2>1. runs[Block(i)] \in Slots
    BY <1>1, BlockOf
  <2>2. e[i] = Interaction(runs[Block(i)], Place(i), prompt, reply)
    BY DEF ExportOf
  <2> QED BY <2>1, <2>2, InteractionRow
<1>5. Laid(e, runs)
  BY <1>2, <1>3, <1>4 DEF Laid
<1>6. ASSUME NEW row \in Spoiled(e[1])
      PROVE  IsExport([e EXCEPT ![1] = row])
  <2> DEFINE f == [e EXCEPT ![1] = row]
  <2>1. 1 \in 1..Rows /\ runs[Block(1)] \in Slots
    BY <1>1, FirstBlock, BlockOf
  <2>2. e[1] = Interaction(runs[Block(1)], Place(1), prompt, reply)
    BY <2>1 DEF ExportOf
  <2>3. /\ IsRow(row) /\ row.slot = runs[Block(1)] /\ row.turn = Place(1)
        /\ row.speaker = order[(Place(1) % Len(order)) + 1]
    BY <2>1, <2>2, SpoiledRow
  <2>4. /\ DOMAIN f = 1..Rows /\ f \in [1..Rows -> ToSet(e) \cup {row}]
        /\ f[1] = row /\ \A i \in 1..Rows : i # 1 => f[i] = e[i]
    BY <1>2, <2>1
  <2> HIDE DEF f
  <2>5. Len(f) = Rows
    BY <1>1, <2>4, LenOfFunction
  <2>6. \A i \in 1..Rows : IsRow(f[i])
    BY <1>4, <2>3, <2>4
  <2>7. Laid(f, runs)
    <3> SUFFICES ASSUME NEW i \in 1..Rows
                 PROVE  /\ f[i].slot = runs[Block(i)]
                        /\ f[i].turn = Place(i)
                        /\ f[i].speaker = order[(Place(i) % Len(order)) + 1]
                        /\ i # 1 => f[i].reward = 2 * f[i].slot
      BY <2>4, <2>5 DEF Laid
    <3> QED BY <1>4, <2>3, <2>4
  <2> QED BY <2>4, <2>6, <2>7 DEF IsExport, f
<1> QED BY <1>2, <1>3, <1>4, <1>5, <1>6

LEMMA ExportsAreExports ==
  ASSUME NEW rows \in Exports
  PROVE  IsExport(rows)
<1>1. PICK e \in Whole :
        \/ rows = e
        \/ \E i \in DOMAIN e : rows = RemoveAt(e, i)
        \/ \E i \in DOMAIN e : rows = InsertAt(e, i, e[i])
        \/ \E row \in Spoiled(e[1]) : rows = [e EXCEPT ![1] = row]
  <2>1. PICK e \in Whole :
          rows \in {e} \cup {RemoveAt(e, i) : i \in DOMAIN e}
                       \cup {InsertAt(e, i, e[i]) : i \in DOMAIN e}
                       \cup {[e EXCEPT ![1] = row] : row \in Spoiled(e[1])}
    BY DEF Exports
  <2> QED BY <2>1
<1>2. PICK runs \in SetToSeqs(Slots), prompt \in 1..Width \div 2, reply \in 1..Width - 1 :
        e = ExportOf(runs, prompt, reply)
  BY DEF Whole, ExportOf, Rows, Block, Place
<1>3. prompt \in Int /\ reply \in Int
  OBVIOUS
<1>4. /\ e \in Seq(ToSet(e)) /\ Len(e) = Rows /\ DOMAIN e = 1..Rows
      /\ \A i \in 1..Rows : IsRow(e[i])
      /\ Laid(e, runs)
      /\ \A row \in Spoiled(e[1]) : IsExport([e EXCEPT ![1] = row])
  BY <1>2, <1>3, WholeLaid
<1>5. \A row \in ToSet(e) : IsRow(row)
  BY <1>4 DEF ToSet
<1>6. CASE rows = e
  BY <1>4, <1>6 DEF IsExport
<1>7. CASE \E i \in DOMAIN e : rows = RemoveAt(e, i)
  BY <1>4, <1>5, <1>7, RemovedRow
<1>8. CASE \E i \in DOMAIN e : rows = InsertAt(e, i, e[i])
  BY <1>4, <1>5, <1>8, DoubledRow
<1>9. CASE \E row \in Spoiled(e[1]) : rows = [e EXCEPT ![1] = row]
  <2>1. PICK row \in Spoiled(e[1]) : rows = [e EXCEPT ![1] = row]
    BY <1>9
  <2>2. IsExport([e EXCEPT ![1] = row])
    BY <1>4
  <2> QED BY <2>1, <2>2
<1> QED BY <1>1, <1>6, <1>7, <1>8, <1>9

(***************************************************************************)
(* What the actor makes of it.                                             *)
(***************************************************************************)

LEMMA ActorTrains ==
  ASSUME NEW row, IsRow(row)
  PROVE  /\ Actor(row) \in [1..Width -> Tensors]
         /\ \A p \in 1..Width : row.tokens[(p % Width) + 1].logprob = NaN =>
              Actor(row)[p].logprob = NaN
<1> SUFFICES ASSUME NEW p \in 1..Width
             PROVE  /\ Actor(row)[p] \in Tensors
                    /\ row.tokens[(p % Width) + 1].logprob = NaN => Actor(row)[p].logprob = NaN
  BY DEF Actor
<1> DEFINE target == row.tokens[(p % Width) + 1]
<1>1. (p % Width) + 1 \in 1..Width
  BY TargetOf, AuditAssumption
<1>2. target \in Mark /\ row.reward \in Int
  BY <1>1 DEF IsRow
<1>3. Actor(row)[p] =
        [mask |-> target.mask, logprob |-> Times(target.logprob, target.mask),
         advantage |-> row.reward * target.mask, returns |-> row.reward * target.mask,
         kl |-> 0, total |-> row.reward * target.mask]
  BY DEF Actor
<1> HIDE DEF target
<1>4. target.mask \in Int /\ target.logprob \in Int
  BY <1>2 DEF Mark
<1>5. row.reward * target.mask \in Int /\ target.logprob * target.mask \in Int
  BY <1>2, <1>4
<1>6. Times(target.logprob, target.mask) \in Int
      /\ (target.logprob = NaN => Times(target.logprob, target.mask) = NaN)
  BY <1>5, AuditAssumption DEF Times
<1>7. Actor(row)[p] \in Tensors
  BY <1>3, <1>4, <1>5, <1>6 DEF Tensors
<1> QED BY <1>3, <1>6, <1>7 DEF target

\* All rows of the actor are trained ones, also with one wrong number.
Fits(rows, x) == DOMAIN x = DOMAIN rows /\ \A i \in DOMAIN rows : IsTrained(rows[i], x[i])

LEMMA ActorFits ==
  ASSUME NEW rows, \A i \in DOMAIN rows : IsRow(rows[i]),
         NEW x \in ActorRows(rows)
  PROVE  Fits(rows, x)
<1> DEFINE good == [i \in DOMAIN rows |-> Actor(rows[i])]
<1>0. x \in {good} \cup {[good EXCEPT ![1][f.position][f.tensor] = @ + 1] : f \in ActorFault}
  BY DEF ActorRows
<1>5. DOMAIN good = DOMAIN rows /\ \A i \in DOMAIN rows : good[i] = Actor(rows[i])
  OBVIOUS
<1> HIDE DEF good
<1>1. ASSUME NEW i \in DOMAIN rows
      PROVE  /\ good[i] \in [1..Width -> Tensors]
             /\ \A p \in 1..Width : rows[i].tokens[(p % Width) + 1].logprob = NaN =>
                  good[i][p].logprob = NaN
             /\ IsTrained(rows[i], good[i])
  BY <1>5, ActorTrains, AuditAssumption DEF IsTrained
<1>2. CASE x = good
  BY <1>1, <1>2, <1>5 DEF Fits
<1>3. ASSUME NEW f \in ActorFault, x = [good EXCEPT ![1][f.position][f.tensor] = @ + 1]
      PROVE  Fits(rows, x)
  <2>1. /\ f.position \in 1..Width
        /\ f.tensor \in {"mask", "logprob", "advantage", "returns", "kl", "total"}
    BY AuditAssumption
  <2>2. DOMAIN x = DOMAIN rows /\ \A i \in DOMAIN rows : i # 1 => x[i] = good[i]
    BY <1>3, <1>5
  <2>3. ASSUME 1 \in DOMAIN rows
        PROVE  IsTrained(rows[1], x[1])
    <3> DEFINE g == good[1]
    <3>1. g \in [1..Width -> Tensors]
          /\ \A p \in 1..Width : rows[1].tokens[(p % Width) + 1].logprob = NaN => g[p].logprob = NaN
      BY <1>1, <2>3
    <3>2. x[1] = [g EXCEPT ![f.position][f.tensor] = @ + 1]
      BY <1>3, <1>5, <2>3
    <3> HIDE DEF g
    <3>3. \A p \in 1..Width : p # f.position => x[1][p] = g[p]
      BY <2>1, <3>1, <3>2
    <3>4. DOMAIN x[1] = 1..Width /\ x[1] = [p \in 1..Width |-> x[1][p]]
      BY <3>1, <3>2
    <3> DEFINE old == g[f.position]
               new == x[1][f.position]
    <3>5. new = [old EXCEPT ![f.tensor] = @ + 1] /\ old \in Tensors
      BY <2>1, <3>1, <3>2
    <3> HIDE DEF old, new
    <3>6. new \in Tensors /\ (new.logprob = old.logprob \/ new.logprob = old.logprob + 1)
      BY <2>1, <3>5 DEF Tensors
    <3>7. x[1] \in [1..Width -> Tensors]
      BY <2>1, <3>1, <3>3, <3>4, <3>6 DEF new
    <3>8. \A p \in 1..Width : rows[1].tokens[(p % Width) + 1].logprob = NaN => x[1][p].logprob # 0
      <4> SUFFICES ASSUME NEW p \in 1..Width, rows[1].tokens[(p % Width) + 1].logprob = NaN
                   PROVE  x[1][p].logprob # 0
        OBVIOUS
      <4>1. g[p].logprob = NaN
        BY <3>1
      <4>2. CASE p # f.position
        BY <3>3, <4>1, <4>2, AuditAssumption
      <4>3. CASE p = f.position
        <5>1. old.logprob = NaN
          BY <4>1, <4>3 DEF old
        <5>2. new.logprob # 0
          BY <3>6, <5>1, AuditAssumption
        <5> QED BY <4>3, <5>2 DEF new
      <4> QED BY <4>2, <4>3
    <3> QED BY <3>7, <3>8 DEF IsTrained
  <2> QED BY <1>1, <2>2, <2>3 DEF Fits
<1>4. CASE x \in {[good EXCEPT ![1][f.position][f.tensor] = @ + 1] : f \in ActorFault}
  BY <1>3, <1>4
<1> QED BY <1>0, <1>2, <1>4

(***************************************************************************)
(* The audit.                                                              *)
(***************************************************************************)

RecordsOf(rows) == IF strict THEN [i \in DOMAIN rows |-> RecordOf(rows, i)] ELSE <<>>

\* A result is of rows that were exported and of what the actor made of them.
Audited ==
  /\ IsExport(raw) /\ Fits(raw, trained)
  /\ summary = Status(raw, trained)
  /\ records = RecordsOf(raw)

AuditInv ==
  /\ stage \in {"directory", "launch", "rollout", "compute", "compare"} => summary = "none"
  /\ stage \in {"compute", "compare"} => IsExport(raw)
  /\ stage = "compare" => Fits(raw, trained)
  /\ summary = "none" \/ Audited

LEMMA ExportStays ==
  ASSUME IsExport(raw), UNCHANGED <<order, raw>>
  PROVE  IsExport(raw)'
BY DEF IsExport, Laid

LEMMA AuditedStays ==
  ASSUME Audited, UNCHANGED <<strict, order, raw, trained, summary, records>>
  PROVE  Audited'
<1>1. IsExport(raw)'
  BY ExportStays DEF Audited
<1>2. Fits(raw, trained)' /\ (summary = Status(raw, trained))' /\ (records = RecordsOf(raw))'
  BY DEF Audited, Fits, Status, RecordsOf
<1> QED BY <1>1, <1>2 DEF Audited

LEMMA AuditStays ==
  ASSUME AuditInv, UNCHANGED <<strict, order, raw, trained, summary, records>>,
         stage' \in {"directory", "launch", "rollout", "compute", "compare"} => summary = "none",
         stage' \in {"compute", "compare"} => IsExport(raw),
         stage' = "compare" => Fits(raw, trained)
  PROVE  AuditInv'
<1>1. stage' \in {"compute", "compare"} => IsExport(raw)'
  BY ExportStays
<1>2. stage' = "compare" => Fits(raw, trained)'
  BY DEF Fits
<1>3. summary' = "none" \/ Audited'
  BY AuditedStays DEF AuditInv
<1> QED BY <1>1, <1>2, <1>3 DEF AuditInv

LEMMA RolloutAudits ==
  ASSUME AuditInv, Rollout
  PROVE  AuditInv'
<1>1. CASE Leaves
  BY <1>1, AuditStays DEF Rollout, Leaves, AuditInv, kept, data
<1>2. CASE raw' \in Exports /\ stage' = "compute" /\ UNCHANGED <<trained, summary, records>>
  <2>1. summary' = "none" /\ UNCHANGED order
    BY <1>2 DEF Rollout, AuditInv, kept
  <2>2. raw' \in Exports
    BY <1>2
  <2>3. IsExport(raw')
    BY <2>2, ExportsAreExports
  <2>4. IsExport(raw)'
    BY <2>1, <2>3 DEF IsExport, Laid
  <2> QED BY <1>2, <2>1, <2>4 DEF AuditInv
<1> QED BY <1>1, <1>2 DEF Rollout

LEMMA ComputeAudits ==
  ASSUME AuditInv, Compute
  PROVE  AuditInv'
<1>1. CASE Leaves
  BY <1>1, AuditStays DEF Compute, Leaves, AuditInv, kept, data
<1>2. CASE ~Leaves
  <2>1. /\ stage = "compute" /\ stage' = "compare" /\ UNCHANGED <<raw, summary, records>>
        /\ UNCHANGED <<strict, order>> /\ trained' \in ActorRows(raw)
    BY <1>2 DEF Compute, kept
  <2>2. summary = "none" /\ IsExport(raw)
    BY <2>1 DEF AuditInv
  <2>6. Fits(raw, trained')
    BY <2>1, <2>2, ActorFits DEF IsExport
  <2>7. Fits(raw, trained)'
    BY <2>1, <2>6 DEF Fits
  <2>8. IsExport(raw)'
    BY <2>1, <2>2, ExportStays
  <2> QED BY <2>1, <2>2, <2>7, <2>8 DEF AuditInv
<1> QED BY <1>1, <1>2

LEMMA CompareAudits ==
  ASSUME AuditInv, Compare
  PROVE  AuditInv'
<1>1. CASE Leaves
  BY <1>1, AuditStays DEF Compare, Leaves, AuditInv, kept, data
<1>2. CASE ~Leaves
  <2>1. /\ stage = "compare" /\ stage' = "release" /\ UNCHANGED <<raw, trained, strict, order>>
        /\ summary' = Status(raw, trained)
        /\ records' = RecordsOf(raw)
    BY <1>2 DEF Compare, kept, RecordsOf
  <2>2. IsExport(raw) /\ Fits(raw, trained)
    BY <2>1 DEF AuditInv
  <2>3. IsExport(raw)'
    BY <2>1, <2>2, ExportStays
  <2>4. Fits(raw, trained)' /\ (summary = Status(raw, trained))' /\ (records = RecordsOf(raw))'
    BY <2>1, <2>2 DEF Fits, Status, RecordsOf
  <2>5. Audited'
    BY <2>3, <2>4 DEF Audited
  <2> QED BY <2>1, <2>5 DEF AuditInv
<1> QED BY <1>1, <1>2

LEMMA NextKeepsAudit == AuditInv /\ [Next]_vars => AuditInv'
<1> SUFFICES ASSUME AuditInv, [Next]_vars PROVE AuditInv'
  OBVIOUS
<1>1. CASE MakeDirectory
  BY <1>1, AuditStays DEF MakeDirectory, Raises, Report, AuditInv, kept, data
<1>2. CASE Launch
  BY <1>2, AuditStays DEF Launch, Raises, Report, AuditInv, kept, data
<1>3. CASE Rollout
  BY <1>3, RolloutAudits
<1>4. CASE Compute
  BY <1>4, ComputeAudits
<1>5. CASE Compare
  BY <1>5, CompareAudits
<1>6. CASE Release
  BY <1>6, AuditStays DEF Release, Report, kept, data
<1>7. CASE WriteOutputs
  BY <1>7, AuditStays DEF WriteOutputs, kept, data
<1>8. CASE UNCHANGED vars
  BY <1>8, AuditStays DEF AuditInv, vars
<1> QED BY <1>1, <1>2, <1>3, <1>4, <1>5, <1>6, <1>7, <1>8 DEF Next, Ended

LEMMA AuditInvariant == Spec => []AuditInv
<1>1. Init => AuditInv
  BY DEF Init, AuditInv
<1> QED BY <1>1, NextKeepsAudit, PTL DEF Spec

(***************************************************************************)
(* What the result says.                                                   *)
(***************************************************************************)

\* Rows that train right have the reward of the slot that is nearest.
LEMMA TrainableReward ==
  ASSUME NEW row, NEW x, IsRow(row), Trainable(row, x)
  PROVE  row.reward \in Int /\ row.reward = 2 * NearestSlot(row)
<1>1. row.reward \in Int
  BY DEF IsRow
<1>2. PICK s \in Slots : row.reward = 2 * s
  BY DEF Trainable
<1> QED BY <1>1, <1>2, NearestInSlots

\* The count of the rows of each slot and speaker finds the exports that miss
\* a turn, and none else.
LEMMA StructureExact ==
  ASSUME NEW rows, IsExport(rows),
         \A i \in DOMAIN rows : rows[i].reward \in Int /\ rows[i].reward = 2 * NearestSlot(rows[i])
  PROVE  StructurePasses(rows) <=> Len(rows) = GroupSize * Turns /\ Covers(rows)
<1>1. CASE Len(rows) = Rows
  <2>1. PICK runs \in SetToSeqs(Slots) : Laid(rows, runs)
    BY <1>1 DEF IsExport
  <2>2. StructurePasses(rows) => Paid(rows)
    BY <2>1, StructurePays
  <2>3. Covers(rows) => Paid(rows)
    BY <2>1, CoveragePays
  <2>4. Paid(rows) => StructurePasses(rows) /\ Covers(rows)
    BY <2>1, PaidPasses, PaidCovers
  <2> QED BY <1>1, <2>2, <2>3, <2>4 DEF Rows
<1>2. CASE Len(rows) # Rows
  BY <1>2 DEF StructurePasses, Rows
<1> QED BY <1>1, <1>2

\* A summary of the audit: the rows all train right, and are complete if they
\* are of one episode.
LEMMA StatusExact ==
  ASSUME Audited
  PROVE  summary = "passed" <=>
           /\ \A i \in DOMAIN raw : Trainable(raw[i], trained[i])
           /\ strict => Len(raw) = GroupSize * Turns /\ Covers(raw)
<1>1. \A i \in DOMAIN raw : IsRow(raw[i]) /\ IsTrained(raw[i], trained[i])
  BY DEF Audited, IsExport, Fits
<1>2. \A i \in DOMAIN raw :
        RawPasses(raw[i]) /\ TrainedPasses(raw[i], trained[i]) <=> Trainable(raw[i], trained[i])
  BY <1>1, RowExact
<1>3. ASSUME \A i \in DOMAIN raw : Trainable(raw[i], trained[i])
      PROVE  StructurePasses(raw) <=> Len(raw) = GroupSize * Turns /\ Covers(raw)
  <2>1. \A i \in DOMAIN raw : raw[i].reward \in Int /\ raw[i].reward = 2 * NearestSlot(raw[i])
    BY <1>1, <1>3, TrainableReward
  <2> QED BY <2>1, StructureExact DEF Audited
<1>4. summary = "passed" <=>
        /\ \A i \in DOMAIN raw : RawPasses(raw[i]) /\ TrainedPasses(raw[i], trained[i])
        /\ strict => StructurePasses(raw)
  BY DEF Audited, Status
<1> QED BY <1>2, <1>3, <1>4

\* The audit passes exactly the exports whose replies are all trained on the
\* reward of their slot, and of one episode only those with every turn of every
\* trajectory: what audit_rollout_batches compares row by row and counts is
\* enough to tell, for any size of the group and any width of the rows.
THEOREM AuditExact == Spec => []AuditIsExact
<1>1. AuditInv => AuditIsExact
  <2> SUFFICES ASSUME AuditInv, summary # "none"
               PROVE  summary = "passed" <=>
                        /\ \A i \in DOMAIN raw : Trainable(raw[i], trained[i])
                        /\ strict => /\ Len(raw) = GroupSize * Turns
                                     /\ Covers(raw)
    BY DEF AuditIsExact, Covers
  <2> QED BY StatusExact DEF AuditInv
<1> QED BY <1>1, AuditInvariant, PTL

\* A row's number among those of its slot is its turn: so the records of a
\* passed audit name the trajectory, the round and the speaker of each row.
LEMMA RecordsOfPassed ==
  ASSUME Audited, strict, summary = "passed", NEW i \in DOMAIN raw
  PROVE  /\ records[i].slot = raw[i].slot
         /\ records[i].round = raw[i].turn \div Len(Declared)
         /\ order = Declared => records[i].character = raw[i].speaker
<1>1. /\ \A j \in DOMAIN raw : Trainable(raw[j], trained[j])
      /\ Len(raw) = Rows /\ Covers(raw)
  BY StatusExact DEF Rows
<1>2. PICK runs \in SetToSeqs(Slots) : Laid(raw, runs)
  BY <1>1 DEF Audited, IsExport
<1>3. Paid(raw) /\ i \in 1..Rows
  BY <1>1, <1>2, CoveragePays, LaidDomain
<1>4. NearestSlot(raw[i]) = runs[Block(i)] /\ Ordinal(raw, i) = Place(i)
  BY <1>2, <1>3, SlotsLaid, OrdinalLaid
<1>5. records[i] = RecordOf(raw, i)
  BY DEF Audited, RecordsOf
<1>6. /\ records[i].slot = NearestSlot(raw[i])
      /\ records[i].round = Ordinal(raw, i) \div Len(Declared)
      /\ records[i].character = Declared[(Ordinal(raw, i) % Len(Declared)) + 1]
  BY <1>5 DEF RecordOf
<1>7. /\ raw[i].slot = runs[Block(i)] /\ raw[i].turn = Place(i)
      /\ raw[i].speaker = order[(Place(i) % Len(order)) + 1]
  BY <1>2, <1>3 DEF Laid
<1> QED BY <1>4, <1>6, <1>7

\* A passed audit of one episode attributes every row to its trajectory and its
\* round, and to its speaker when the characters spoke in the declared order:
\* audit_rollout_batches has only the reward and the row's place to go by.
THEOREM RecordsAreRight == Spec => []RecordsNameSpeakers
<1>1. AuditInv => RecordsNameSpeakers
  <2> SUFFICES ASSUME AuditInv, strict, summary = "passed", NEW i \in DOMAIN raw
               PROVE  /\ records[i].slot = raw[i].slot
                      /\ records[i].round = raw[i].turn \div Len(Declared)
                      /\ order = Declared => records[i].character = raw[i].speaker
    BY DEF RecordsNameSpeakers
  <2> QED BY RecordsOfPassed DEF AuditInv
<1> QED BY <1>1, AuditInvariant, PTL
=============================================================================
