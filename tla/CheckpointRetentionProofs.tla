---------------------- MODULE CheckpointRetentionProofs ----------------------
(***************************************************************************)
(* Proofs about CheckpointRetention, for any number of steps, export and   *)
(* recovery frequency, directories to keep and crashes.                    *)
(***************************************************************************)
EXTENDS CheckpointRetention, FiniteSetTheorems, WellFoundedInduction, TLAPS

(***************************************************************************)
(* The inductive invariant.                                                *)
(***************************************************************************)

Newer(s) == {t \in Present : t > s}

\* Where the trainer is within a step, and the recovery state behind it.
PlaceInv ==
  /\ pc # "done" => step \in Step
  /\ pc # "removing" => doomed = {}
  /\ resume <= step + 1
  /\ pc \in {"train", "export", "exporting", "recover"} => resume <= step
  /\ pc \in {"export", "exporting"} => Due(ExportEvery)

\* What a prune removes has Keep newer directories, also what an interrupted
\* one left half removed; what it keeps has fewer.
PruneInv ==
  /\ \A s \in Step : s \in doomed \/ export[s] = "emptying" => Cardinality(Newer(s)) >= Keep
  /\ pc = "removing" => \A s \in Present \ doomed : Cardinality(Newer(s)) < Keep

\* There are directories of the due steps only, none newer than LastExport.
ScheduleInv == \A s \in Present : (s + 1) % ExportEvery = 0

LastExportDone ==
  export[LastExport] = "whole" /\ exportedBy[LastExport] = trained[LastExport]

\* Behind the recovery state, and behind the export of its step, the last
\* export is there and holds what was trained; on the way to it, it is under
\* way.
LastExportInv ==
  LastExport \in Step =>
    /\ resume > LastExport => LastExportDone
    /\ step > LastExport => LastExportDone
    /\ step = LastExport =>
         /\ pc \in {"recover", "prune", "removing", "done"} => LastExportDone
         /\ pc \in {"export", "exporting"} => trained[LastExport] = incarnation
         /\ pc = "exporting" => exportedBy[LastExport] = incarnation
    /\ pc = "done" => step >= LastExport

RetentionInv ==
  RetentionTypeOK /\ PlaceInv /\ PruneInv /\ ScheduleInv /\ LastExportInv

(***************************************************************************)
(* Numbers and sets of them.                                               *)
(***************************************************************************)

LEMMA SmallestElement ==
  ASSUME NEW S \in SUBSET Nat, S # {}
  PROVE  \E m \in S : \A n \in S : m <= n
<1>1. PICK m \in S : \A n \in S : ~ (<<n, m>> \in OpToRel(<, Nat))
  BY NatLessThanWellFounded, WFMin
<1>2. \A n \in S : ~ (n < m)
  BY <1>1 DEF OpToRel
<1>3. QED
  BY <1>2

\* The steps that are due for an export are no later than LastExport, which is
\* due itself.
LEMMA LastExportIsLast ==
  ASSUME CheckpointRetentionAssumption
  PROVE  /\ \A s \in Step : (s + 1) % ExportEvery = 0 => s <= LastExport
         /\ (LastExport + 1) % ExportEvery = 0
<1> DEFINE E == ExportEvery
           D == (LastStep + 1) \div E
<1>1. E \in Nat \ {0} /\ LastStep \in Nat /\ LastExport = D * E - 1
  BY DEF CheckpointRetentionAssumption, LastExport
<1>2. D \in Nat /\ LastStep + 1 < D * E + E
  BY <1>1
<1>3. ASSUME NEW s \in Step, (s + 1) % E = 0
      PROVE  s <= LastExport
  <2> DEFINE q == (s + 1) \div E
  <2>1. s \in Nat /\ s <= LastStep
    BY <1>1 DEF Step
  <2>2. q \in Nat /\ s + 1 = q * E
    BY <1>1, <1>3, <2>1
  <2> HIDE DEF q, D, E
  <2>3. q * E < D * E + E
    BY <1>1, <1>2, <2>1, <2>2
  <2>4. q <= D
    BY <1>1, <1>2, <2>2, <2>3
  <2>5. q * E <= D * E
    BY <1>1, <1>2, <2>2, <2>4
  <2>6. q * E \in Int /\ D * E \in Int
    BY <1>1, <1>2, <2>2
  <2>7. QED
    BY <1>1, <2>1, <2>2, <2>5, <2>6
<1>4. (LastExport + 1) % E = 0
  <2>1. LastExport + 1 = D * E
    BY <1>1, <1>2
  <2> HIDE DEF D
  <2>2. QED
    BY <1>1, <1>2, <2>1
<1>5. QED
  BY <1>3, <1>4

\* A set of steps none of which has n or more later ones in it has at most n.
LEMMA FewNewerFewSteps ==
  ASSUME CheckpointRetentionAssumption, NEW S \in SUBSET Step, NEW n \in Nat \ {0},
         \A s \in S : Cardinality({t \in S : t > s}) < n
  PROVE  Cardinality(S) <= n
<1>1. IsFiniteSet(S) /\ S \subseteq Nat
  <2>1. Step \subseteq Nat /\ IsFiniteSet(Step)
    BY FS_Interval DEF Step, CheckpointRetentionAssumption
  <2>2. QED
    BY <2>1, FS_Subset
<1>2. CASE S = {}
  BY <1>2, FS_EmptySet
<1>3. CASE S # {}
  <2>1. PICK m \in S : \A t \in S : m <= t
    BY <1>1, <1>3, SmallestElement
  <2>2. {t \in S : t > m} = S \ {m}
    <3>1. \A t \in S : t > m <=> t # m
      BY <1>1, <2>1
    <3>2. QED
      BY <3>1
  <2>3. Cardinality(S \ {m}) = Cardinality(S) - 1 /\ Cardinality(S) \in Nat
    BY <1>1, FS_RemoveElement, FS_CardinalityType
  <2>4. QED
    BY <2>2, <2>3
<1>4. QED
  BY <1>2, <1>3

(***************************************************************************)
(* Every step keeps the invariant.                                         *)
(***************************************************************************)

LEMMA InitRetentionInv == ASSUME Init PROVE RetentionInv
<1>1. LastStep \in Nat /\ MaxCrashes \in Nat /\ 0 \in Step /\ 0 \in Incarnation
  BY CheckpointRetentionAssumption DEF CheckpointRetentionAssumption, Step, Incarnation
<1>2. Present = {}
  BY DEF Init, Present
<1>3. RetentionTypeOK
  BY <1>1, <1>2 DEF Init, RetentionTypeOK
<1>4. PlaceInv
  BY <1>1 DEF Init, PlaceInv
<1>5. PruneInv /\ ScheduleInv
  BY <1>2 DEF Init, PruneInv, ScheduleInv
<1>6. LastExportInv
  BY <1>1 DEF Init, LastExportInv, Step
<1>7. QED
  BY <1>3, <1>4, <1>5, <1>6 DEF RetentionInv

\* The set of newer directories as numbers that do not change.
LEMMA SameExports ==
  ASSUME UNCHANGED export
  PROVE  Present' = Present /\ \A s \in Step : Newer(s)' = Newer(s)
BY DEF Present, Newer

LEMMA TrainKeepsRetentionInv ==
  ASSUME RetentionInv, Train
  PROVE  RetentionInv'
<1>0. RetentionTypeOK /\ PlaceInv /\ PruneInv /\ ScheduleInv /\ LastExportInv
  BY DEF RetentionInv
<1>1. /\ pc = "train" /\ step \in Step
      /\ trained' = [trained EXCEPT ![step] = incarnation]
      /\ pc' = IF Due(ExportEvery) THEN "export" ELSE "recover"
      /\ UNCHANGED <<step, incarnation, export, exportedBy, resume, doomed>>
  BY <1>0 DEF Train, PlaceInv
<1>2. Present' = Present /\ \A s \in Step : Newer(s)' = Newer(s)
  BY <1>1, SameExports
<1>3. RetentionTypeOK'
  BY <1>0, <1>1, <1>2 DEF RetentionTypeOK
<1>4. PlaceInv'
  BY <1>0, <1>1 DEF PlaceInv, Due
<1>5. PruneInv' /\ ScheduleInv'
  BY <1>0, <1>1, <1>2 DEF PruneInv, ScheduleInv
<1>6. LastExportInv'
  <2>1. SUFFICES ASSUME LastExport \in Step PROVE LastExportInv'
    BY DEF LastExportInv
  <2>2. CASE step = LastExport
    <3>1. Due(ExportEvery)
      BY <2>2, LastExportIsLast, CheckpointRetentionAssumption DEF Due
    <3>2. resume <= LastExport
      BY <1>0, <1>1, <2>2 DEF PlaceInv
    <3>3. pc' = "export" /\ trained'[LastExport] = incarnation
      BY <1>0, <1>1, <2>2, <3>1 DEF RetentionTypeOK
    <3>4. resume \in Int /\ LastExport \in Int
      BY <1>0, <2>1 DEF RetentionTypeOK, Step
    <3>5. QED
      BY <1>1, <2>2, <3>2, <3>3, <3>4 DEF LastExportInv
  <2>3. CASE step # LastExport
    <3>1. trained'[LastExport] = trained[LastExport]
      BY <1>0, <1>1, <2>1, <2>3 DEF RetentionTypeOK
    <3>2. QED
      BY <1>0, <1>1, <2>1, <2>3, <3>1 DEF LastExportInv, LastExportDone
  <2>4. QED
    BY <2>2, <2>3
<1>7. QED
  BY <1>3, <1>4, <1>5, <1>6 DEF RetentionInv

\* There are finitely many newer directories.
LEMMA NewerIsFinite ==
  ASSUME CheckpointRetentionAssumption, NEW s
  PROVE  IsFiniteSet(Newer(s)) /\ Cardinality(Newer(s)) \in Nat
<1>1. IsFiniteSet(Step)
  BY FS_Interval DEF Step, CheckpointRetentionAssumption
<1>2. Newer(s) \in SUBSET Step
  BY DEF Newer, Present
<1>3. QED
  BY <1>1, <1>2, FS_Subset, FS_CardinalityType

\* More steps keep at least as many directories.
LEMMA MoreSteps ==
  ASSUME NEW S, NEW T \in SUBSET Step, S \in SUBSET T, Cardinality(S) >= Keep
  PROVE  Cardinality(T) >= Keep
<1>1. IsFiniteSet(Step) /\ Keep \in Nat
  BY FS_Interval, CheckpointRetentionAssumption DEF Step, CheckpointRetentionAssumption
<1>2. IsFiniteSet(T) /\ IsFiniteSet(S) /\ Cardinality(S) <= Cardinality(T)
  BY <1>1, FS_Subset
<1>3. Cardinality(S) \in Nat /\ Cardinality(T) \in Nat
  BY <1>2, FS_CardinalityType
<1>4. QED
  BY <1>1, <1>2, <1>3

LEMMA ExportBeginsKeepsRetentionInv ==
  ASSUME RetentionInv, ExportBegins
  PROVE  RetentionInv'
<1>0. RetentionTypeOK /\ PlaceInv /\ PruneInv /\ ScheduleInv /\ LastExportInv
  BY DEF RetentionInv
<1>1. /\ pc = "export" /\ step \in Step /\ Due(ExportEvery) /\ doomed = {} /\ resume <= step
      /\ export' = [export EXCEPT ![step] = "filling"]
      /\ exportedBy' = [exportedBy EXCEPT ![step] = incarnation]
      /\ pc' = "exporting"
      /\ UNCHANGED <<step, incarnation, trained, resume, doomed>>
  BY <1>0 DEF ExportBegins, PlaceInv
<1>2. Present' = Present \cup {step} /\ Present' \subseteq Step
  BY <1>0, <1>1 DEF RetentionTypeOK, Present
<1>3. RetentionTypeOK'
  BY <1>0, <1>1, <1>2 DEF RetentionTypeOK
<1>4. PlaceInv'
  BY <1>0, <1>1 DEF PlaceInv, Due
<1>5. PruneInv'
  <2>1. ASSUME NEW s \in Step, export'[s] = "emptying"
        PROVE  Cardinality(Newer(s)') >= Keep
    <3>1. export[s] = "emptying"
      BY <1>0, <1>1, <2>1 DEF RetentionTypeOK
    <3>2. Cardinality(Newer(s)) >= Keep
      BY <1>0, <3>1 DEF PruneInv
    <3>3. Newer(s) \in SUBSET (Newer(s)') /\ Newer(s)' \in SUBSET Step
      BY <1>2 DEF Newer
    <3>4. QED
      BY <3>2, <3>3, MoreSteps
  <2>2. QED
    BY <1>1, <2>1 DEF PruneInv
<1>6. ScheduleInv'
  BY <1>0, <1>1, <1>2 DEF ScheduleInv, Due
<1>7. LastExportInv'
  <2>1. SUFFICES ASSUME LastExport \in Step PROVE LastExportInv'
    BY DEF LastExportInv
  <2>2. CASE step = LastExport
    <3>1. exportedBy'[LastExport] = incarnation
      BY <1>0, <1>1, <2>2 DEF RetentionTypeOK
    <3>2. trained[LastExport] = incarnation
      BY <1>0, <1>1, <2>1, <2>2 DEF LastExportInv
    <3>3. resume \in Int /\ LastExport \in Int
      BY <1>0, <2>1 DEF RetentionTypeOK, Step
    <3>4. QED
      BY <1>1, <2>2, <3>1, <3>2, <3>3 DEF LastExportInv
  <2>3. CASE step # LastExport
    <3>1. export'[LastExport] = export[LastExport] /\ exportedBy'[LastExport] = exportedBy[LastExport]
      BY <1>0, <1>1, <2>1, <2>3 DEF RetentionTypeOK
    <3>2. QED
      BY <1>0, <1>1, <2>1, <2>3, <3>1 DEF LastExportInv, LastExportDone
  <2>4. QED
    BY <2>2, <2>3
<1>8. QED
  BY <1>3, <1>4, <1>5, <1>6, <1>7 DEF RetentionInv

LEMMA ExportEndsKeepsRetentionInv ==
  ASSUME RetentionInv, ExportEnds
  PROVE  RetentionInv'
<1>0. RetentionTypeOK /\ PlaceInv /\ PruneInv /\ ScheduleInv /\ LastExportInv
  BY DEF RetentionInv
<1>1. /\ pc = "exporting" /\ step \in Step /\ Due(ExportEvery) /\ doomed = {} /\ resume <= step
      /\ export' = [export EXCEPT ![step] = "whole"]
      /\ pc' = "recover"
      /\ UNCHANGED <<step, incarnation, trained, exportedBy, resume, doomed>>
  BY <1>0 DEF ExportEnds, PlaceInv
<1>2. Present' = Present \cup {step} /\ Present' \subseteq Step
  BY <1>0, <1>1 DEF RetentionTypeOK, Present
<1>3. RetentionTypeOK'
  BY <1>0, <1>1, <1>2 DEF RetentionTypeOK
<1>4. PlaceInv'
  BY <1>0, <1>1 DEF PlaceInv, Due
<1>5. PruneInv'
  <2>1. ASSUME NEW s \in Step, export'[s] = "emptying"
        PROVE  Cardinality(Newer(s)') >= Keep
    <3>1. export[s] = "emptying"
      BY <1>0, <1>1, <2>1 DEF RetentionTypeOK
    <3>2. Cardinality(Newer(s)) >= Keep
      BY <1>0, <3>1 DEF PruneInv
    <3>3. Newer(s) \in SUBSET (Newer(s)') /\ Newer(s)' \in SUBSET Step
      BY <1>2 DEF Newer
    <3>4. QED
      BY <3>2, <3>3, MoreSteps
  <2>2. QED
    BY <1>1, <2>1 DEF PruneInv
<1>6. ScheduleInv'
  BY <1>0, <1>1, <1>2 DEF ScheduleInv, Due
<1>7. LastExportInv'
  <2>1. SUFFICES ASSUME LastExport \in Step PROVE LastExportInv'
    BY DEF LastExportInv
  <2>2. CASE step = LastExport
    <3>1. export'[LastExport] = "whole"
      BY <1>0, <1>1, <2>2 DEF RetentionTypeOK
    <3>2. exportedBy[LastExport] = trained[LastExport]
      BY <1>0, <1>1, <2>1, <2>2 DEF LastExportInv
    <3>3. QED
      BY <1>1, <2>2, <3>1, <3>2 DEF LastExportInv, LastExportDone
  <2>3. CASE step # LastExport
    <3>1. export'[LastExport] = export[LastExport]
      BY <1>0, <1>1, <2>1, <2>3 DEF RetentionTypeOK
    <3>2. QED
      BY <1>0, <1>1, <2>1, <2>3, <3>1 DEF LastExportInv, LastExportDone
  <2>4. QED
    BY <2>2, <2>3
<1>8. QED
  BY <1>3, <1>4, <1>5, <1>6, <1>7 DEF RetentionInv

LEMMA SaveRecoverKeepsRetentionInv ==
  ASSUME RetentionInv, SaveRecover
  PROVE  RetentionInv'
<1>0. RetentionTypeOK /\ PlaceInv /\ PruneInv /\ ScheduleInv /\ LastExportInv
  BY DEF RetentionInv
<1>1. /\ pc = "recover" /\ step \in Step /\ doomed = {} /\ resume <= step
      /\ resume' \in {resume, step + 1}
      /\ pc' = "prune"
      /\ UNCHANGED <<step, incarnation, trained, export, exportedBy, doomed>>
  BY <1>0 DEF SaveRecover, PlaceInv
<1>2. Present' = Present /\ \A s \in Step : Newer(s)' = Newer(s)
  BY <1>1, SameExports
<1>3. LastStep \in Nat /\ step \in 0 .. LastStep /\ resume \in 0 .. LastStep + 1
  BY <1>0, <1>1, CheckpointRetentionAssumption
     DEF CheckpointRetentionAssumption, Step, RetentionTypeOK
<1>4. RetentionTypeOK'
  BY <1>0, <1>1, <1>2, <1>3 DEF RetentionTypeOK
<1>5. PlaceInv'
  BY <1>0, <1>1, <1>3 DEF PlaceInv
<1>6. PruneInv' /\ ScheduleInv'
  BY <1>0, <1>1, <1>2 DEF PruneInv, ScheduleInv
<1>7. LastExportInv'
  <2>1. SUFFICES ASSUME LastExport \in Step PROVE LastExportInv'
    BY DEF LastExportInv
  <2>2. LastExportDone' <=> LastExportDone
    BY <1>1 DEF LastExportDone
  <2>3. step >= LastExport => LastExportDone
    BY <1>0, <1>1, <1>3, <2>1 DEF LastExportInv, Step
  <2>4. resume' > LastExport => LastExportDone
    BY <1>0, <1>1, <1>3, <2>1, <2>3 DEF LastExportInv, Step
  <2>5. QED
    BY <1>1, <1>3, <2>1, <2>2, <2>3, <2>4 DEF LastExportInv, Step
<1>8. QED
  BY <1>4, <1>5, <1>6, <1>7 DEF RetentionInv

LEMMA ListKeepsRetentionInv ==
  ASSUME RetentionInv, List
  PROVE  RetentionInv'
<1>0. RetentionTypeOK /\ PlaceInv /\ PruneInv /\ ScheduleInv /\ LastExportInv
  BY DEF RetentionInv
<1>1. /\ pc = "prune" /\ step \in Step
      /\ doomed' = Superseded
      /\ pc' = "removing"
      /\ UNCHANGED <<step, incarnation, trained, export, exportedBy, resume>>
  BY <1>0 DEF List, PlaceInv
<1>2. Present' = Present /\ \A s \in Step : Newer(s)' = Newer(s)
  BY <1>1, SameExports
<1>3. Superseded = {s \in Present : Cardinality(Newer(s)) >= Keep}
  BY DEF Superseded, Newer
<1>4. RetentionTypeOK'
  BY <1>0, <1>1, <1>2, <1>3 DEF RetentionTypeOK
<1>5. PlaceInv'
  BY <1>0, <1>1 DEF PlaceInv
<1>6. PruneInv'
  <2>1. \A s \in Step : s \in doomed' \/ export'[s] = "emptying" => Cardinality(Newer(s)') >= Keep
    BY <1>0, <1>1, <1>2, <1>3 DEF PruneInv
  <2>2. ASSUME NEW s \in Present \ Superseded
        PROVE  Cardinality(Newer(s)) < Keep
    <3>1. ~ (Cardinality(Newer(s)) >= Keep)
      BY <1>3, <2>2
    <3>2. Cardinality(Newer(s)) \in Nat /\ Keep \in Nat
      BY NewerIsFinite, CheckpointRetentionAssumption DEF CheckpointRetentionAssumption
    <3>3. QED
      BY <3>1, <3>2
  <2>3. Present \subseteq Step
    BY DEF Present
  <2>4. QED
    BY <1>1, <1>2, <2>1, <2>2, <2>3 DEF PruneInv
<1>7. ScheduleInv'
  BY <1>0, <1>2 DEF ScheduleInv
<1>8. LastExportInv'
  BY <1>0, <1>1 DEF LastExportInv, LastExportDone
<1>9. QED
  BY <1>4, <1>5, <1>6, <1>7, <1>8 DEF RetentionInv

\* Only directories older than the last export are ever removed.
LEMMA DoomedAreOlder ==
  ASSUME RetentionInv, NEW s \in doomed
  PROVE  s \in Present /\ s \in Step /\ s < LastExport
<1>1. s \in Present /\ s \in Step
  BY DEF RetentionInv, RetentionTypeOK, Present
<1>2. Cardinality(Newer(s)) >= Keep
  BY <1>1 DEF RetentionInv, PruneInv
<1>3. Cardinality(Newer(s)) # 0
  <2>1. Keep \in Nat \ {0} /\ Cardinality(Newer(s)) \in Nat
    BY NewerIsFinite, CheckpointRetentionAssumption DEF CheckpointRetentionAssumption
  <2>2. QED
    BY <1>2, <2>1
<1>4. PICK t \in Newer(s) : TRUE
  BY <1>3, FS_EmptySet
<1>5. t \in Present /\ t \in Step /\ t > s
  BY <1>4 DEF Newer, Present
<1>6. t <= LastExport
  BY <1>5, LastExportIsLast, CheckpointRetentionAssumption DEF RetentionInv, ScheduleInv
<1>7. LastExport \in Int /\ t \in Int /\ s \in Int
  <2>1. LastStep \in Nat /\ ExportEvery \in Nat \ {0}
    BY CheckpointRetentionAssumption DEF CheckpointRetentionAssumption
  <2>2. QED
    BY <1>1, <1>5, <2>1 DEF Step, LastExport
<1>8. QED
  BY <1>1, <1>5, <1>6, <1>7

LEMMA RemoveBeginsKeepsRetentionInv ==
  ASSUME RetentionInv, RemoveBegins
  PROVE  RetentionInv'
<1>0. RetentionTypeOK /\ PlaceInv /\ PruneInv /\ ScheduleInv /\ LastExportInv
  BY DEF RetentionInv
<1>1. PICK s \in doomed : export' = [export EXCEPT ![s] = "emptying"]
  BY DEF RemoveBegins
<1>2. pc = "removing" /\ UNCHANGED <<pc, step, incarnation, trained, exportedBy, resume, doomed>>
  BY DEF RemoveBegins
<1>3. s \in Present /\ s \in Step /\ s # LastExport
  <2>1. s \in Present /\ s \in Step /\ s < LastExport
    BY DoomedAreOlder
  <2>2. QED
    BY <2>1 DEF Step
<1>4. Present' = Present /\ \A t \in Step : Newer(t)' = Newer(t)
  <2>1. Present' = Present
    BY <1>0, <1>1, <1>3 DEF RetentionTypeOK, Present
  <2>2. QED
    BY <2>1 DEF Newer
<1>5. RetentionTypeOK'
  BY <1>0, <1>1, <1>2, <1>3, <1>4 DEF RetentionTypeOK
<1>6. PlaceInv'
  BY <1>0, <1>2 DEF PlaceInv, Due
<1>7. PruneInv'
  <2>1. \A t \in Step : export'[t] = "emptying" => t = s \/ export[t] = "emptying"
    BY <1>0, <1>1 DEF RetentionTypeOK
  <2>2. ASSUME NEW t \in Step, t \in doomed' \/ export'[t] = "emptying"
        PROVE  Cardinality(Newer(t)') >= Keep
    <3>1. t \in doomed \/ export[t] = "emptying"
      BY <1>2, <2>1, <2>2
    <3>2. Cardinality(Newer(t)) >= Keep
      BY <1>0, <3>1 DEF PruneInv
    <3>3. QED
      BY <1>4, <3>2
  <2>3. \A t \in Present' \ doomed' : Cardinality(Newer(t)') < Keep
    BY <1>0, <1>2, <1>4 DEF PruneInv, Present
  <2>4. QED
    BY <2>2, <2>3 DEF PruneInv
<1>8. ScheduleInv'
  BY <1>0, <1>4 DEF ScheduleInv
<1>9. LastExportInv'
  BY <1>0, <1>1, <1>2, <1>3 DEF LastExportInv, LastExportDone, RetentionTypeOK
<1>10. QED
  BY <1>5, <1>6, <1>7, <1>8, <1>9 DEF RetentionInv

LEMMA RemoveEndsKeepsRetentionInv ==
  ASSUME RetentionInv, RemoveEnds
  PROVE  RetentionInv'
<1>0. RetentionTypeOK /\ PlaceInv /\ PruneInv /\ ScheduleInv /\ LastExportInv
  BY DEF RetentionInv
<1>1. PICK s \in doomed : /\ export[s] = "emptying"
                          /\ \A t \in doomed : s <= t
                          /\ export' = [export EXCEPT ![s] = "absent"]
                          /\ doomed' = doomed \ {s}
  BY DEF RemoveEnds
<1>2. pc = "removing" /\ UNCHANGED <<pc, step, incarnation, trained, exportedBy, resume>>
  BY DEF RemoveEnds
<1>3. s \in Present /\ s \in Step /\ s # LastExport
  <2>1. s \in Present /\ s \in Step /\ s < LastExport
    BY DoomedAreOlder
  <2>2. QED
    BY <2>1 DEF Step
<1>4. Present' = Present \ {s}
  BY <1>0, <1>1, <1>3 DEF RetentionTypeOK, Present
<1>5. RetentionTypeOK'
  BY <1>0, <1>1, <1>2, <1>3, <1>4 DEF RetentionTypeOK
<1>6. PlaceInv'
  BY <1>0, <1>1, <1>2 DEF PlaceInv, Due
<1>7. PruneInv'
  <2>1. ASSUME NEW t \in Step, t \in doomed' \/ export'[t] = "emptying"
        PROVE  Cardinality(Newer(t)') >= Keep
    <3>1. t # s /\ (t \in doomed \/ export[t] = "emptying")
      BY <1>0, <1>1, <2>1 DEF RetentionTypeOK
    <3>2. Cardinality(Newer(t)) >= Keep
      BY <1>0, <3>1 DEF PruneInv
    <3>3. t \in doomed
      <4>1. SUFFICES ASSUME t \notin doomed PROVE FALSE
        OBVIOUS
      <4>2. t \in Present \ doomed
        BY <3>1, <4>1 DEF Present
      <4>3. Cardinality(Newer(t)) < Keep
        BY <1>0, <1>2, <4>2 DEF PruneInv
      <4>4. Cardinality(Newer(t)) \in Nat /\ Keep \in Nat
        BY NewerIsFinite, CheckpointRetentionAssumption DEF CheckpointRetentionAssumption
      <4>5. QED
        BY <3>2, <4>3, <4>4
    <3>4. ~ (s > t)
      BY <1>1, <1>3, <3>3 DEF Step
    <3>5. Newer(t)' = Newer(t)
      BY <1>4, <3>4 DEF Newer
    <3>6. QED
      BY <3>2, <3>5
  <2>2. ASSUME NEW t \in Present' \ doomed'
        PROVE  Cardinality(Newer(t)') < Keep
    <3>1. t \in Present \ doomed
      BY <1>1, <1>4, <2>2
    <3>2. Cardinality(Newer(t)) < Keep
      BY <1>0, <1>2, <3>1 DEF PruneInv
    <3>3. Newer(t)' \in SUBSET Newer(t)
      BY <1>4 DEF Newer
    <3>4. /\ IsFiniteSet(Newer(t)) /\ Cardinality(Newer(t)) \in Nat
          /\ IsFiniteSet(Newer(t)') /\ Cardinality(Newer(t)') \in Nat
          /\ Cardinality(Newer(t)') <= Cardinality(Newer(t))
      BY <3>3, NewerIsFinite, FS_Subset, FS_CardinalityType, CheckpointRetentionAssumption
    <3>5. Keep \in Nat
      BY CheckpointRetentionAssumption DEF CheckpointRetentionAssumption
    <3>6. QED
      BY <3>2, <3>4, <3>5
  <2>3. QED
    BY <2>1, <2>2 DEF PruneInv
<1>8. ScheduleInv'
  BY <1>0, <1>4 DEF ScheduleInv
<1>9. LastExportInv'
  BY <1>0, <1>1, <1>2, <1>3 DEF LastExportInv, LastExportDone, RetentionTypeOK
<1>10. QED
  BY <1>5, <1>6, <1>7, <1>8, <1>9 DEF RetentionInv

LEMMA StepEndsKeepsRetentionInv ==
  ASSUME RetentionInv, StepEnds
  PROVE  RetentionInv'
<1>0. RetentionTypeOK /\ PlaceInv /\ PruneInv /\ ScheduleInv /\ LastExportInv
  BY DEF RetentionInv
<1>1. /\ pc = "removing" /\ doomed = {} /\ step \in Step /\ resume <= step + 1
      /\ IF step = LastStep THEN pc' = "done" /\ step' = step
                            ELSE pc' = "train" /\ step' = step + 1
      /\ UNCHANGED <<incarnation, trained, export, exportedBy, resume, doomed>>
  BY <1>0 DEF StepEnds, PlaceInv
<1>2. Present' = Present /\ \A s \in Step : Newer(s)' = Newer(s)
  BY <1>1, SameExports
<1>3. LastStep \in Nat /\ step \in 0 .. LastStep /\ resume \in 0 .. LastStep + 1
  BY <1>0, <1>1, CheckpointRetentionAssumption
     DEF CheckpointRetentionAssumption, Step, RetentionTypeOK
<1>4. RetentionTypeOK'
  BY <1>0, <1>1, <1>2, <1>3 DEF RetentionTypeOK
<1>5. PlaceInv'
  BY <1>0, <1>1, <1>3 DEF PlaceInv, Step
<1>6. PruneInv' /\ ScheduleInv'
  BY <1>0, <1>1, <1>2 DEF PruneInv, ScheduleInv
<1>7. LastExportInv'
  <2>1. SUFFICES ASSUME LastExport \in 0 .. LastStep PROVE LastExportInv'
    BY DEF LastExportInv, Step
  <2>2. LastExportDone' <=> LastExportDone
    BY <1>1 DEF LastExportDone
  <2>3. step >= LastExport => LastExportDone
    BY <1>0, <1>1, <1>3, <2>1 DEF LastExportInv, Step
  <2>4. resume > LastExport => LastExportDone
    BY <1>0, <2>1 DEF LastExportInv, Step
  <2>5. CASE step = LastStep
    BY <1>1, <1>3, <2>1, <2>2, <2>3, <2>4, <2>5 DEF LastExportInv
  <2>6. CASE step # LastStep
    <3>1. step' = step + 1 /\ pc' = "train" /\ resume' = resume
      BY <1>1, <2>6
    <3>2. step' > LastExport => LastExportDone
      BY <1>3, <2>1, <2>3, <3>1
    <3>3. QED
      BY <2>2, <2>4, <3>1, <3>2 DEF LastExportInv
  <2>7. QED
    BY <2>5, <2>6
<1>8. QED
  BY <1>4, <1>5, <1>6, <1>7 DEF RetentionInv

LEMMA CrashKeepsRetentionInv ==
  ASSUME RetentionInv, Crash
  PROVE  RetentionInv'
<1>0. RetentionTypeOK /\ PlaceInv /\ PruneInv /\ ScheduleInv /\ LastExportInv
  BY DEF RetentionInv
<1>1. /\ incarnation < MaxCrashes /\ incarnation' = incarnation + 1
      /\ step' = resume
      /\ pc' = IF resume > LastStep THEN "done" ELSE "train"
      /\ doomed' = {}
      /\ UNCHANGED <<trained, export, exportedBy, resume>>
  BY DEF Crash
<1>2. Present' = Present /\ \A s \in Step : Newer(s)' = Newer(s)
  BY <1>1, SameExports
<1>3. /\ LastStep \in Nat /\ resume \in 0 .. LastStep + 1
      /\ MaxCrashes \in Nat /\ incarnation \in 0 .. MaxCrashes
  BY <1>0, CheckpointRetentionAssumption
     DEF CheckpointRetentionAssumption, Incarnation, RetentionTypeOK
<1>4. RetentionTypeOK'
  BY <1>0, <1>1, <1>2, <1>3 DEF RetentionTypeOK, Incarnation
<1>5. PlaceInv'
  BY <1>1, <1>3 DEF PlaceInv, Step
<1>6. PruneInv' /\ ScheduleInv'
  BY <1>0, <1>1, <1>2 DEF PruneInv, ScheduleInv
<1>7. LastExportInv'
  <2>1. SUFFICES ASSUME LastExport \in 0 .. LastStep PROVE LastExportInv'
    BY DEF LastExportInv, Step
  <2>2. LastExportDone' <=> LastExportDone
    BY <1>1 DEF LastExportDone
  <2>3. resume > LastExport => LastExportDone
    BY <1>0, <2>1 DEF LastExportInv, Step
  <2>4. CASE resume > LastStep
    BY <1>1, <1>3, <2>1, <2>2, <2>3, <2>4 DEF LastExportInv
  <2>5. CASE ~ (resume > LastStep)
    BY <1>1, <1>3, <2>1, <2>2, <2>3, <2>5 DEF LastExportInv
  <2>6. QED
    BY <2>4, <2>5
<1>8. QED
  BY <1>4, <1>5, <1>6, <1>7 DEF RetentionInv

LEMMA NextKeepsRetentionInv ==
  ASSUME RetentionInv, [Next]_vars
  PROVE  RetentionInv'
<1>1. CASE Work
  BY <1>1, TrainKeepsRetentionInv, ExportBeginsKeepsRetentionInv, ExportEndsKeepsRetentionInv,
     SaveRecoverKeepsRetentionInv, ListKeepsRetentionInv, RemoveBeginsKeepsRetentionInv,
     RemoveEndsKeepsRetentionInv, StepEndsKeepsRetentionInv DEF Work
<1>2. CASE Crash
  BY <1>2, CrashKeepsRetentionInv
<1>3. CASE UNCHANGED vars
  BY <1>3 DEF vars, RetentionInv, RetentionTypeOK, PlaceInv, PruneInv, ScheduleInv,
              LastExportInv, LastExportDone, Present, Newer, Due
<1>4. QED
  BY <1>1, <1>2, <1>3 DEF Next, Done

(***************************************************************************)
(* The theorems.                                                           *)
(***************************************************************************)

\* The inductive invariant of the export directories and the recovery state.
THEOREM RetentionInvariant == Spec => []RetentionInv
<1>1. Init => RetentionInv
  BY InitRetentionInv
<1>2. RetentionInv /\ [Next]_vars => RetentionInv'
  BY NextKeepsRetentionInv
<1>3. QED
  BY <1>1, <1>2, PTL DEF Spec

\* Every variable keeps its type.
THEOREM RetentionTypeCorrect == Spec => []RetentionTypeOK
<1>1. RetentionInv => RetentionTypeOK
  BY DEF RetentionInv
<1>2. QED
  BY <1>1, RetentionInvariant, PTL

\* However training crashes and starts over, it ends with the whole last
\* export of the weights it ended with.
THEOREM TrainingLeavesLastExport == Spec => []FinishedWithLastExport
<1>1. RetentionInv => FinishedWithLastExport
  <2>1. SUFFICES ASSUME RetentionInv, pc = "done", LastExport \in Step
                 PROVE  LastExportDone
    BY DEF FinishedWithLastExport, LastExportDone
  <2>2. /\ step >= LastExport
        /\ step > LastExport => LastExportDone
        /\ step = LastExport => LastExportDone
    BY <2>1 DEF RetentionInv, LastExportInv
  <2>3. step \in Int /\ LastExport \in Int
    BY <2>1 DEF RetentionInv, RetentionTypeOK, Step
  <2>4. QED
    BY <2>2, <2>3
<1>2. QED
  BY <1>1, RetentionInvariant, PTL

\* prune_old_hf_checkpoints removes a directory only while enough newer ones
\* are there.
THEOREM PruneRemovesOnlySuperseded == Spec => RemovesOnlySuperseded
<1> DEFINE A == \A s \in Present : s \notin Present' =>
                  Cardinality({t \in Present' : t > s}) >= Keep
<1>1. RetentionInv /\ RetentionInv' /\ [Next]_vars => [A]_vars
  <2>1. SUFFICES ASSUME RetentionInv, RetentionInv', Next, NEW s \in Present, s \notin Present'
                 PROVE  Cardinality({t \in Present' : t > s}) >= Keep
    OBVIOUS
  <2>2. s \in Step /\ export[s] # "absent" /\ export'[s] = "absent"
    BY <2>1 DEF Present
  <2>3. RemoveEnds
    BY <2>1, <2>2
       DEF Next, Work, Train, ExportBegins, ExportEnds, SaveRecover, List, RemoveBegins,
           StepEnds, Crash, Done, vars, RetentionInv, RetentionTypeOK
  <2>4. /\ export[s] = "emptying" /\ s \in doomed
        /\ Present' = Present \ {s}
    <3>1. PICK d \in doomed : export[d] = "emptying" /\ export' = [export EXCEPT ![d] = "absent"]
      BY <2>3 DEF RemoveEnds
    <3>2. s = d
      BY <2>1, <2>2, <3>1 DEF RetentionInv, RetentionTypeOK
    <3>3. Present' = Present \ {s}
      BY <2>1, <2>2, <3>1, <3>2 DEF RetentionInv, RetentionTypeOK, Present
    <3>4. QED
      BY <3>1, <3>2, <3>3
  <2>5. Cardinality(Newer(s)) >= Keep
    BY <2>1, <2>2, <2>4 DEF RetentionInv, PruneInv
  <2>6. {t \in Present' : t > s} = Newer(s)
    BY <2>2, <2>4 DEF Newer, Step
  <2>7. QED
    BY <2>5, <2>6
<1>2. QED
  BY <1>1, RetentionInvariant, PTL DEF Spec, RemovesOnlySuperseded

\* A step that ends leaves at most HF_CHECKPOINTS_TO_KEEP directories, none of
\* them half removed, whatever crashes came before.
THEOREM PruneLeavesNewest == Spec => StepLeavesNewest
<1> DEFINE A == pc = "removing" /\ pc' \in {"train", "done"} /\ incarnation' = incarnation
                => /\ Cardinality(Present) <= Keep
                   /\ \A s \in Present : export[s] # "emptying"
<1>1. RetentionInv /\ [Next]_vars => [A]_vars
  <2>1. SUFFICES ASSUME RetentionInv, Next, pc = "removing", pc' \in {"train", "done"},
                        incarnation' = incarnation
                 PROVE  /\ Cardinality(Present) <= Keep
                        /\ \A s \in Present : export[s] # "emptying"
    OBVIOUS
  <2>2. incarnation \in Int
    BY <2>1, CheckpointRetentionAssumption
       DEF RetentionInv, RetentionTypeOK, Incarnation, CheckpointRetentionAssumption
  <2>3. doomed = {}
    BY <2>1, <2>2
       DEF Next, Work, Train, ExportBegins, ExportEnds, SaveRecover, List, RemoveBegins,
           RemoveEnds, StepEnds, Crash, Done, vars
  <2>4. \A s \in Present : Cardinality(Newer(s)) < Keep
    BY <2>1, <2>3 DEF RetentionInv, PruneInv
  <2>5. Present \in SUBSET Step /\ Keep \in Nat \ {0}
    BY CheckpointRetentionAssumption DEF Present, CheckpointRetentionAssumption
  <2>6. Cardinality(Present) <= Keep
    BY <2>4, <2>5, FewNewerFewSteps, CheckpointRetentionAssumption DEF Newer
  <2>7. ASSUME NEW s \in Present, export[s] = "emptying" PROVE FALSE
    <3>1. Cardinality(Newer(s)) >= Keep
      BY <2>1, <2>5, <2>7 DEF RetentionInv, PruneInv
    <3>2. Cardinality(Newer(s)) \in Nat
      BY NewerIsFinite, CheckpointRetentionAssumption
    <3>3. QED
      BY <2>4, <2>5, <3>1, <3>2
  <2>8. QED
    BY <2>6, <2>7
<1>2. QED
  BY <1>1, RetentionInvariant, PTL DEF Spec, StepLeavesNewest
=============================================================================
