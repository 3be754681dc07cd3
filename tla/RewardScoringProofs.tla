------------------------- MODULE RewardScoringProofs -------------------------
(***************************************************************************)
(* Proofs about RewardScoring, for any groups and calls, any retries and   *)
(* concurrency of the scopes, with or without resampling.                  *)
(***************************************************************************)
EXTENDS RewardScoring, SequenceTheorems, FiniteSetTheorems, TLAPS

(***************************************************************************)
(* The inductive invariant.                                                *)
(***************************************************************************)

Active == {"created", "waiting", "sending"}
Unsent == {"none", "created", "waiting", "raised"}
AtWork == {"trajectory", "completion", "both"}

\* The lock lists the groups with a live score task once each, and only its
\* holder has begun to gather.
LockInv ==
  /\ \A g \in Group : phase[g] \in {"queued"} \cup AtWork <=> g \in Range(lock)
  /\ IsInjective(lock)
  /\ \A i \in DOMAIN lock : i # 1 => phase[lock[i]] = "queued"

\* How far the task of a group is tells which of its calls were made and which
\* returned.
GroupInv ==
  \A g \in Group :
    /\ phase[g] \in {"generating", "queued"} => \A c \in CallsOf(g) : call[c] = "none"
    /\ phase[g] \in {"trajectory", "rejected"} =>
         \A c \in Calls(g, "completion_local") : call[c] = "none"
    /\ phase[g] \in {"completion", "rejected"} =>
         \A c \in Calls(g, "trajectory_role") : call[c] = "ok"
    /\ phase[g] = "scored" => \A c \in CallsOf(g) : call[c] = "ok"

\* The queue of a semaphore holds waiting calls of its scope, once each.
WaitersInv ==
  \A x \in Scope :
    /\ \A i \in DOMAIN waiters[x] :
         ScopeOf[waiters[x][i]] = x /\ call[waiters[x][i]] = "waiting"
    /\ IsInjective(waiters[x])

\* Finitely many calls send at once, however many there are.
PermitsInv ==
  PermitsConserved /\ \A x \in Scope : IsFiniteSet(Sending(x))

\* What a call has written down is what came back for it so far.
LogInv(c) ==
  LET allowed == Retries[ScopeOf[c]] + 1 IN
  /\ call[c] \in Unsent => attempts[c] = <<>> /\ audit[c] = {}
  /\ call[c] = "sending" => Len(attempts[c]) < allowed /\ audit[c] = {}
  /\ call[c] \in {"waiting", "sending"} => c \notin Taskless
  /\ call[c] # "ok" => IsLatest(raw[c], Texts(c, {"refused", "unusable"}))
  /\ call[c] = "ok" =>
       audit[c] = {IF c \in Taskless THEN [status |-> "skipped", text |-> 0]
                                     ELSE [status |-> "ok", text |-> Attempt(c)]}
  /\ call[c] = "invalid" =>
       /\ audit[c] = {[status |-> "invalid", text |-> raw[c]]}
       /\ failures[c] = <<attempts[c]>> /\ Len(attempts[c]) = allowed
  /\ call[c] # "invalid" => failures[c] = <<>>
  /\ Lists(quoted[c], IF ScopeOf[c] = "completion_local"
                      THEN {i \in Texts(c, {"unusable"}) : i < allowed} ELSE {})

LogsInv == \A c \in Call : LogInv(c)

ScoringInv ==
  ScoringTypeOK /\ LockInv /\ GroupInv /\ WaitersInv /\ PermitsInv /\ LogsInv

(***************************************************************************)
(* Sequences without duplicates.                                           *)
(***************************************************************************)

\* Appending what is not in the sequence.
LEMMA AppendNew ==
  ASSUME NEW S, NEW seq \in Seq(S), NEW e \in S,
         \A i \in DOMAIN seq : seq[i] # e
  PROVE  LET new == Append(seq, e) IN
         /\ new \in Seq(S)
         /\ Range(new) = Range(seq) \cup {e}
         /\ \A i \in DOMAIN new : IF i \in DOMAIN seq THEN new[i] = seq[i] ELSE new[i] = e
         /\ DOMAIN new = 1 .. Len(seq) + 1
         /\ DOMAIN seq = 1 .. Len(seq)
         /\ Len(seq) \in Nat
<1>1. /\ Append(seq, e) \in Seq(S)
      /\ Len(Append(seq, e)) = Len(seq) + 1
      /\ \A i \in 1 .. Len(seq) : Append(seq, e)[i] = seq[i]
      /\ Append(seq, e)[Len(seq) + 1] = e
  BY AppendProperties
<1>2. /\ DOMAIN Append(seq, e) = 1 .. Len(seq) + 1
      /\ DOMAIN seq = 1 .. Len(seq)
      /\ Len(seq) \in Nat
  BY <1>1, LenProperties
<1>3. Range(Append(seq, e)) = Range(seq) \cup {e}
  BY <1>1, <1>2 DEF Range
<1>4. QED
  BY <1>1, <1>2, <1>3

\* Dropping the head of a sequence without duplicates.
LEMMA TailOfDistinct ==
  ASSUME NEW S, NEW seq \in Seq(S), seq # <<>>,
         IsInjective(seq)
  PROVE  /\ Tail(seq) \in Seq(S)
         /\ 1 \in DOMAIN seq /\ Head(seq) = seq[1] /\ Head(seq) \in S
         /\ Range(Tail(seq)) = Range(seq) \ {Head(seq)}
         /\ \A i \in DOMAIN Tail(seq) :
              i + 1 \in DOMAIN seq /\ i \in Nat \ {0} /\ Tail(seq)[i] = seq[i + 1]
         /\ IsInjective(Tail(seq))
<1>1. Len(seq) \in Nat \ {0} /\ DOMAIN seq = 1 .. Len(seq)
  BY EmptySeq, LenProperties
<1>2. /\ Head(seq) \in S
      /\ Tail(seq) \in Seq(S)
      /\ Len(Tail(seq)) = Len(seq) - 1
      /\ \A i \in 1 .. Len(Tail(seq)) : Tail(seq)[i] = seq[i + 1]
  BY HeadTailProperties
<1>3. DOMAIN Tail(seq) = 1 .. Len(seq) - 1
  BY <1>2, LenProperties
<1>4. Head(seq) = seq[1]
  BY <1>1
<1>5. \A i \in DOMAIN Tail(seq) :
         i + 1 \in DOMAIN seq /\ i \in Nat \ {0} /\ Tail(seq)[i] = seq[i + 1]
  BY <1>1, <1>2, <1>3
<1>6. \A i \in DOMAIN seq : i # 1 => i - 1 \in DOMAIN Tail(seq) /\ seq[i] = Tail(seq)[i - 1]
  BY <1>1, <1>2, <1>3
<1>7. Range(Tail(seq)) = Range(seq) \ {Head(seq)}
  <2>1. ASSUME NEW e \in Range(Tail(seq)) PROVE e \in Range(seq) \ {Head(seq)}
    <3>1. PICK i \in DOMAIN Tail(seq) : e = Tail(seq)[i]
      BY DEF Range
    <3>2. i + 1 # 1 /\ i + 1 \in DOMAIN seq /\ e = seq[i + 1]
      BY <1>5, <3>1
    <3>3. QED
      BY <1>1, <1>4, <3>2 DEF Range, IsInjective
  <2>2. ASSUME NEW e \in Range(seq) \ {Head(seq)} PROVE e \in Range(Tail(seq))
    <3>1. PICK i \in DOMAIN seq : e = seq[i]
      BY DEF Range
    <3>2. i # 1
      BY <1>4, <3>1
    <3>3. QED
      BY <1>6, <3>1, <3>2 DEF Range
  <2>3. QED
    BY <2>1, <2>2
<1>8. IsInjective(Tail(seq))
  BY <1>5 DEF IsInjective
<1>9. QED
  BY <1>1, <1>2, <1>4, <1>5, <1>7, <1>8

(***************************************************************************)
(* Every part of the invariant speaks of some variables only.              *)
(***************************************************************************)

\* No step makes a call again or takes a valid reward back: then the tasks
\* find their calls as they left them.
LEMMA CallsKeepGroupInv ==
  ASSUME GroupInv, UNCHANGED phase,
         \A c \in Call : call[c] \in {"none", "ok"} => call'[c] = call[c]
  PROVE  GroupInv'
BY DEF GroupInv, Calls, CallsOf

\* A call that moves without an answer writes nothing down.
LEMMA MoveKeepsLog ==
  ASSUME RewardScoringAssumption, ScoringTypeOK, NEW c \in Call, LogInv(c),
         attempts'[c] = attempts[c], quoted'[c] = quoted[c], raw'[c] = raw[c],
         audit'[c] = audit[c], failures'[c] = failures[c],
         \/ call'[c] = call[c]
         \/ call[c] = "none" /\ call'[c] = "created"
         \/ call[c] = "created" /\ call'[c] = "raised"
         \/ call[c] = "created" /\ c \notin Taskless /\ call'[c] \in {"waiting", "sending"}
         \/ call[c] = "waiting" /\ call'[c] = "sending"
  PROVE  LogInv(c)'
<1>1. Retries[ScopeOf[c]] \in Nat
  BY DEF RewardScoringAssumption
<1>2. Len(<<>>) = 0
  BY EmptySeq
<1>3. \A kinds : Texts(c, kinds)' = Texts(c, kinds)
  BY DEF Texts
<1>4. CASE call'[c] = call[c]
  BY <1>3, <1>4 DEF LogInv, Unsent, Attempt, Texts
<1>5. CASE call'[c] # call[c]
  <2>1. /\ call[c] \in Unsent /\ call[c] \notin {"ok", "invalid", "sending"}
        /\ call'[c] \in {"created", "raised", "waiting", "sending"}
        /\ call'[c] \in {"waiting", "sending"} => c \notin Taskless
    BY <1>5 DEF LogInv, Unsent
  <2>2. /\ attempts[c] = <<>> /\ audit[c] = {} /\ failures[c] = <<>>
        /\ IsLatest(raw[c], Texts(c, {"refused", "unusable"}))
    BY <2>1 DEF LogInv
  <2>3. Len(attempts[c]) < Retries[ScopeOf[c]] + 1
    BY <1>1, <1>2, <2>2
  <2>4. QED
    BY <1>3, <2>1, <2>2, <2>3 DEF LogInv, Unsent, Texts
<1>6. QED
  BY <1>4, <1>5

\* A call with a free permit, or given one, sends; the others do not move.
LEMMA SendingGrows ==
  ASSUME NEW c \in Call, call[c] # "sending", call'[c] = "sending",
         ScopeOf[c] \in Scope,
         \A d \in Call \ {c} : call'[d] = "sending" <=> call[d] = "sending",
         NEW x \in Scope, IsFiniteSet(Sending(x))
  PROVE  /\ IsFiniteSet(Sending(x)')
         /\ Cardinality(Sending(x)') =
              IF x = ScopeOf[c] THEN Cardinality(Sending(x)) + 1 ELSE Cardinality(Sending(x))
<1>1. CASE x = ScopeOf[c]
  <2>1. Sending(x)' = Sending(x) \cup {c} /\ c \notin Sending(x)
    BY <1>1 DEF Sending
  <2>2. QED
    BY <1>1, <2>1, FS_AddElement
<1>2. CASE x # ScopeOf[c]
  <2>1. Sending(x)' = Sending(x)
    BY <1>2 DEF Sending
  <2>2. QED
    BY <1>2, <2>1
<1>3. QED
  BY <1>1, <1>2

\* A permit passes on to the first waiter or is free again.
LEMMA EndsKeepsPermits ==
  ASSUME RewardScoringAssumption, ScoringTypeOK, WaitersInv, PermitsInv,
         NEW c \in Call, call[c] = "sending", NEW how \in {"ok", "invalid"},
         EndsAndReleases(c, how),
         NEW x \in Scope, x = ScopeOf[c]
  PROVE  /\ call' \in [Call -> {"none", "created", "waiting", "sending",
                                "ok", "invalid", "raised"}]
         /\ permits' \in [Scope -> Nat]
         /\ waiters' \in [Scope -> Seq(Call)]
         /\ call'[c] = how
         /\ \A d \in Call \ {c} : \/ call'[d] = call[d]
                                  \/ call[d] = "waiting" /\ call'[d] = "sending"
         /\ WaitersInv'
         /\ PermitsInv'
<1>2. /\ permits \in [Scope -> Nat] /\ waiters \in [Scope -> Seq(Call)]
      /\ call \in [Call -> {"none", "created", "waiting", "sending",
                            "ok", "invalid", "raised"}]
      /\ Concurrency \in [Scope -> Nat \ {0}]
  BY DEF ScoringTypeOK, RewardScoringAssumption
<1>3. /\ IsFiniteSet(Sending(x)) /\ c \in Sending(x)
      /\ Cardinality(Sending(x)) \in Nat
  BY FS_CardinalityType DEF PermitsInv, Sending
<1>4. CASE waiters[x] = <<>>
  <2>1. /\ permits' = [permits EXCEPT ![x] = @ + 1]
        /\ call' = [call EXCEPT ![c] = how]
        /\ waiters' = waiters
    BY <1>4 DEF EndsAndReleases
  <2>2. /\ Sending(x)' = Sending(x) \ {c}
        /\ \A y \in Scope : y # x => Sending(y)' = Sending(y)
    BY <1>2, <2>1 DEF Sending
  <2>3. /\ IsFiniteSet(Sending(x)')
        /\ Cardinality(Sending(x)') = Cardinality(Sending(x)) - 1
    BY <1>3, <2>2, FS_RemoveElement
  <2>4. PermitsInv'
    <3>1. ASSUME NEW y \in Scope
          PROVE  /\ IsFiniteSet(Sending(y)')
                 /\ permits'[y] + Cardinality(Sending(y)') = Concurrency[y]
                 /\ waiters'[y] # <<>> => permits'[y] = 0
      <4>1. CASE y = x
        BY <1>2, <1>3, <1>4, <2>1, <2>3, <4>1 DEF PermitsInv, PermitsConserved
      <4>2. CASE y # x
        BY <1>2, <2>1, <2>2, <4>2 DEF PermitsInv, PermitsConserved
      <4>3. QED
        BY <4>1, <4>2
    <3>2. QED
      BY <3>1 DEF PermitsInv, PermitsConserved
  <2>5. WaitersInv'
    BY <1>2, <2>1 DEF WaitersInv
  <2>6. QED
    BY <1>2, <2>1, <2>4, <2>5
<1>5. CASE waiters[x] # <<>>
  <2> DEFINE w == Head(waiters[x])
  <2>1. /\ waiters' = [waiters EXCEPT ![x] = Tail(@)]
        /\ call' = [call EXCEPT ![c] = how, ![w] = "sending"]
        /\ permits' = permits
    BY <1>5 DEF EndsAndReleases
  <2>2. IsInjective(waiters[x])
    BY DEF WaitersInv
  <2>3. /\ Tail(waiters[x]) \in Seq(Call)
        /\ w \in Call /\ ScopeOf[w] = x /\ call[w] = "waiting" /\ w # c
        /\ \A i \in DOMAIN Tail(waiters[x]) :
             /\ ScopeOf[Tail(waiters[x])[i]] = x
             /\ call[Tail(waiters[x])[i]] = "waiting"
             /\ Tail(waiters[x])[i] # w
        /\ IsInjective(Tail(waiters[x]))
    <3> DEFINE q == waiters[x]
    <3>1. q \in Seq(Call) /\ q # <<>> /\ IsInjective(q)
      BY <1>2, <1>5, <2>2
    <3> HIDE DEF q
    <3>2. /\ 1 \in DOMAIN q /\ Head(q) = q[1] /\ Head(q) \in Call
          /\ Tail(q) \in Seq(Call)
          /\ Range(Tail(q)) = Range(q) \ {Head(q)}
          /\ \A i \in DOMAIN Tail(q) :
               i + 1 \in DOMAIN q /\ i \in Nat \ {0} /\ Tail(q)[i] = q[i + 1]
          /\ IsInjective(Tail(q))
      BY <3>1, TailOfDistinct, ZenonT(30)
    <3> HIDE DEF w
    <3>3. \A i \in DOMAIN waiters[x] :
             /\ ScopeOf[waiters[x][i]] = x
             /\ call[waiters[x][i]] = "waiting"
      BY DEF WaitersInv
    <3>4. w = q[1] /\ w \in Call
      BY <3>2 DEF w, q
    <3>5. \A i \in DOMAIN Tail(q) : Tail(q)[i] # w
      BY <3>1, <3>2, <3>4 DEF IsInjective
    <3> USE DEF q
    <3>6. QED
      BY <3>2, <3>3, <3>4, <3>5
  <2> HIDE DEF w
  <2>4. \A y \in Scope : Cardinality(Sending(y)') = Cardinality(Sending(y)) /\ IsFiniteSet(Sending(y)')
    <3>1. Sending(x)' = (Sending(x) \ {c}) \cup {w} /\ w \notin Sending(x) \ {c}
      BY <1>2, <2>1, <2>3 DEF Sending
    <3>2. /\ IsFiniteSet(Sending(x) \ {c})
          /\ Cardinality(Sending(x) \ {c}) = Cardinality(Sending(x)) - 1
      BY <1>3, FS_RemoveElement
    <3>3. /\ IsFiniteSet((Sending(x) \ {c}) \cup {w})
          /\ Cardinality((Sending(x) \ {c}) \cup {w}) = Cardinality(Sending(x) \ {c}) + 1
      BY <3>1, <3>2, FS_AddElement
    <3>4. \A y \in Scope : y # x => Sending(y)' = Sending(y)
      BY <1>2, <2>1, <2>3 DEF Sending
    <3>5. IsFiniteSet(Sending(x)') /\ Cardinality(Sending(x)') = Cardinality(Sending(x))
      BY <1>3, <3>1, <3>2, <3>3
    <3>6. ASSUME NEW y \in Scope
          PROVE  Cardinality(Sending(y)') = Cardinality(Sending(y)) /\ IsFiniteSet(Sending(y)')
      <4>1. CASE y = x
        BY <3>5, <4>1
      <4>2. CASE y # x
        BY <3>4, <4>2 DEF PermitsInv
      <4>3. QED
        BY <4>1, <4>2
    <3>7. QED
      BY <3>6
  <2>5. PermitsInv'
    <3>1. \A y \in Scope : waiters'[y] # <<>> => waiters[y] # <<>>
      BY <1>2, <1>5, <2>1
    <3>2. QED
      BY <2>1, <2>4, <3>1 DEF PermitsInv, PermitsConserved
  <2>6. WaitersInv'
    <3>1. ASSUME NEW y \in Scope
          PROVE  /\ \A i \in DOMAIN waiters'[y] :
                      ScopeOf[waiters'[y][i]] = y /\ call'[waiters'[y][i]] = "waiting"
                 /\ IsInjective(waiters'[y])
      <4>1. CASE y = x
        <5>1. waiters'[y] = Tail(waiters[x])
          BY <1>2, <2>1, <4>1
        <5>2. \A d \in Call : call[d] = "waiting" /\ d # w => call'[d] = "waiting"
          BY <1>2, <2>1
        <5>3. \A i \in DOMAIN Tail(waiters[x]) : Tail(waiters[x])[i] \in Call
          BY <2>3, ElementOfSeq, LenProperties
        <5> DEFINE t == Tail(waiters[x])
        <5>4. /\ \A i \in DOMAIN t : /\ ScopeOf[t[i]] = y /\ call[t[i]] = "waiting"
                                   /\ t[i] # w /\ t[i] \in Call
              /\ IsInjective(t)
          BY <2>3, <4>1, <5>3
        <5> HIDE DEF t
        <5>5. waiters'[y] = t
          BY <5>1 DEF t
        <5>6. QED
          BY <5>2, <5>4, <5>5
      <4>2. CASE y # x
        <5>1. waiters'[y] = waiters[y]
          BY <1>2, <2>1, <4>2
        <5>2. \A i \in DOMAIN waiters[y] :
                /\ ScopeOf[waiters[y][i]] = y /\ call[waiters[y][i]] = "waiting"
                /\ waiters[y][i] # w /\ waiters[y][i] \in Call
          BY <1>2, <2>3, <4>2, ElementOfSeq, LenProperties DEF WaitersInv
        <5>3. \A d \in Call : call[d] = "waiting" /\ d # w => call'[d] = "waiting"
          BY <1>2, <2>1
        <5>4. IsInjective(waiters[y])
          BY DEF WaitersInv
        <5>5. QED
          BY <5>1, <5>2, <5>3, <5>4
      <4>3. QED
        BY <4>1, <4>2
    <3>2. QED
      BY <3>1 DEF WaitersInv
  <2>7. call' \in [Call -> {"none", "created", "waiting", "sending",
                            "ok", "invalid", "raised"}]
    BY <1>2, <2>1, <2>3
  <2>8. waiters' \in [Scope -> Seq(Call)]
    BY <1>2, <2>1, <2>3
  <2>9. /\ call'[c] = how
        /\ \A d \in Call \ {c} : \/ call'[d] = call[d]
                                 \/ call[d] = "waiting" /\ call'[d] = "sending"
    BY <1>2, <2>1, <2>3
  <2>10. QED
    BY <1>2, <2>1, <2>5, <2>6, <2>7, <2>8, <2>9
<1>6. QED
  BY <1>4, <1>5

\* Calls that neither wait nor send leave the semaphores alone.
LEMMA IdleKeepsPermits ==
  ASSUME ScoringTypeOK, WaitersInv, PermitsInv, UNCHANGED <<permits, waiters>>,
         \A c \in Call : /\ call[c] = "waiting" => call'[c] = "waiting"
                         /\ call'[c] = "sending" <=> call[c] = "sending"
  PROVE  WaitersInv' /\ PermitsInv'
<1>1. \A x \in Scope : Sending(x)' = Sending(x)
  BY DEF Sending
<1>2. PermitsInv'
  BY <1>1 DEF PermitsInv, PermitsConserved
<1>3. \A x \in Scope : \A i \in DOMAIN waiters[x] : waiters[x][i] \in Call
  BY ElementOfSeq, LenProperties DEF ScoringTypeOK
<1>4. WaitersInv'
  BY <1>3 DEF WaitersInv
<1>5. QED
  BY <1>2, <1>4

\* A later number goes to the end of the list.
LEMMA ListsAppend ==
  ASSUME NEW seq \in Seq(Nat), NEW numbers \in SUBSET Nat, Lists(seq, numbers),
         NEW n \in Nat, \A i \in numbers : i < n
  PROVE  Append(seq, n) \in Seq(Nat) /\ Lists(Append(seq, n), numbers \cup {n})
<1>1. \A i \in DOMAIN seq : seq[i] \in numbers /\ seq[i] < n
  BY DEF Lists, Range
<1>2. \A i \in DOMAIN seq : seq[i] # n
  BY <1>1
<1> DEFINE new == Append(seq, n)
<1>3. /\ new \in Seq(Nat)
      /\ Range(new) = Range(seq) \cup {n}
      /\ \A i \in DOMAIN new : IF i \in DOMAIN seq THEN new[i] = seq[i] ELSE new[i] = n
      /\ DOMAIN new = 1 .. Len(seq) + 1
      /\ DOMAIN seq = 1 .. Len(seq)
      /\ Len(seq) \in Nat
  BY <1>2, AppendNew
<1> HIDE DEF new
<1>4. \A i, j \in DOMAIN new : i < j => new[i] < new[j]
  <2>1. SUFFICES ASSUME NEW i \in DOMAIN new, NEW j \in DOMAIN new, i < j
                 PROVE  new[i] < new[j]
    OBVIOUS
  <2>2. i \in DOMAIN seq /\ new[i] = seq[i]
    BY <1>3, <2>1
  <2>3. CASE j \in DOMAIN seq
    BY <1>3, <2>1, <2>2, <2>3 DEF Lists
  <2>4. CASE j \notin DOMAIN seq
    BY <1>1, <1>3, <2>2, <2>4
  <2>5. QED
    BY <2>3, <2>4
<1>5. QED
  BY <1>3, <1>4 DEF Lists, new

\* A failed attempt is the last one, and raw_response follows its text.
LEMMA FailedAttempt ==
  ASSUME ScoringTypeOK, NEW c \in Call, NEW outcome \in Outcome, Fails(c, outcome)
  PROVE  /\ attempts' \in [Call -> Seq(Outcome)]
         /\ raw' \in [Call -> Nat]
         /\ \A d \in Call \ {c} : attempts'[d] = attempts[d] /\ raw'[d] = raw[d]
         /\ Attempt(c) \in Nat \ {0}
         /\ Len(attempts'[c]) = Attempt(c)
         /\ Texts(c, {"unusable"}) \in SUBSET Nat
         /\ \A i \in Texts(c, {"unusable"}) : i < Attempt(c)
         /\ Texts(c, {"unusable"})' = IF outcome = "unusable"
                                      THEN Texts(c, {"unusable"}) \cup {Attempt(c)}
                                      ELSE Texts(c, {"unusable"})
         /\ IsLatest(raw[c], Texts(c, {"refused", "unusable"}))
              => IsLatest(raw'[c], Texts(c, {"refused", "unusable"})')
<1>1. /\ attempts \in [Call -> Seq(Outcome)] /\ raw \in [Call -> Nat]
      /\ attempts[c] \in Seq(Outcome) /\ raw[c] \in Nat
  BY DEF ScoringTypeOK
<1> DEFINE old == attempts[c]
           new == Append(old, outcome)
<1>2. /\ new \in Seq(Outcome)
      /\ Len(new) = Len(old) + 1
      /\ \A i \in 1 .. Len(old) : new[i] = old[i]
      /\ new[Len(old) + 1] = outcome
  BY <1>1, AppendProperties
<1>3. /\ Len(old) \in Nat /\ DOMAIN old = 1 .. Len(old)
      /\ DOMAIN new = 1 .. Len(old) + 1
  BY <1>1, <1>2, LenProperties
<1>4. attempts' = [attempts EXCEPT ![c] = new] /\ attempts'[c] = new
  BY <1>1 DEF Fails
<1> HIDE DEF old, new
<1>5. Attempt(c) = Len(old) + 1
  BY DEF Attempt, old
<1>6. raw' = IF outcome = "silent" THEN raw ELSE [raw EXCEPT ![c] = Attempt(c)]
  BY DEF Fails
<1>7. ASSUME NEW kinds
      PROVE  /\ Texts(c, kinds) \in SUBSET Nat
             /\ \A i \in Texts(c, kinds) : i < Attempt(c)
             /\ Texts(c, kinds)' = IF outcome \in kinds
                                   THEN Texts(c, kinds) \cup {Attempt(c)}
                                   ELSE Texts(c, kinds)
  <2>1. Texts(c, kinds) = {i \in 1 .. Len(old) : old[i] \in kinds}
    BY <1>3 DEF Texts, old
  <2>2. Texts(c, kinds)' = {i \in 1 .. Len(old) + 1 : new[i] \in kinds}
    BY <1>3, <1>4 DEF Texts
  <2>3. QED
    BY <1>2, <1>3, <1>5, <2>1, <2>2
<1>8. IsLatest(raw[c], Texts(c, {"refused", "unusable"}))
        => IsLatest(raw'[c], Texts(c, {"refused", "unusable"})')
  <2>1. CASE outcome = "silent"
    <3>1. Texts(c, {"refused", "unusable"})' = Texts(c, {"refused", "unusable"})
      BY <1>7, <2>1
    <3>2. QED
      BY <1>6, <2>1, <3>1 DEF IsLatest
  <2>2. CASE outcome # "silent"
    <3>1. Texts(c, {"refused", "unusable"})'
            = Texts(c, {"refused", "unusable"}) \cup {Attempt(c)}
      BY <1>7, <2>2 DEF Outcome
    <3>2. raw'[c] = Attempt(c)
      BY <1>1, <1>6, <2>2
    <3>3. \A i \in Texts(c, {"refused", "unusable"}) : i < Attempt(c) /\ i \in Nat
      BY <1>7
    <3>4. QED
      BY <1>3, <1>5, <3>1, <3>2, <3>3 DEF IsLatest
  <2>3. QED
    BY <2>1, <2>2
<1>9. /\ Texts(c, {"unusable"}) \in SUBSET Nat
      /\ \A i \in Texts(c, {"unusable"}) : i < Attempt(c)
      /\ Texts(c, {"unusable"})' = IF outcome = "unusable"
                                   THEN Texts(c, {"unusable"}) \cup {Attempt(c)}
                                   ELSE Texts(c, {"unusable"})
  BY <1>7
<1>10. QED
  BY <1>1, <1>2, <1>3, <1>4, <1>5, <1>6, <1>8, <1>9

(***************************************************************************)
(* Every step keeps the invariant.                                         *)
(***************************************************************************)

LEMMA InitScoringInv == ASSUME RewardScoringAssumption, Init PROVE ScoringInv
<1>1. ScoringTypeOK
  BY EmptySeq DEF RewardScoringAssumption, Init, ScoringTypeOK, Outcome
<1>2. Range(<<>>) = {} /\ DOMAIN <<>> = {}
  BY DEF Range
<1>3. LockInv
  BY <1>2 DEF Init, LockInv, AtWork, IsInjective
<1>4. GroupInv /\ WaitersInv
  BY DEF Init, GroupInv, WaitersInv, Calls, CallsOf, IsInjective
<1>5. PermitsInv
  <2>1. \A x \in Scope : Sending(x) = {}
    BY DEF Init, Sending
  <2>2. QED
    <3>1. \A x \in Scope : IsFiniteSet(Sending(x)) /\ Cardinality(Sending(x)) = 0
      BY <2>1, FS_EmptySet
    <3>2. \A x \in Scope : permits[x] = Concurrency[x] /\ permits[x] \in Nat /\ waiters[x] = <<>>
      BY DEF Init, RewardScoringAssumption
    <3>3. \A x \in Scope : permits[x] + 0 = Concurrency[x]
      BY ONLY <3>2
    <3>4. PermitsConserved
      <4>1. SUFFICES ASSUME NEW x \in Scope
                     PROVE  /\ permits[x] + Cardinality(Sending(x)) = Concurrency[x]
                            /\ waiters[x] # <<>> => permits[x] = 0
        BY DEF PermitsConserved
      <4>2. Cardinality(Sending(x)) = 0 /\ waiters[x] = <<>>
        BY <3>1, <3>2
      <4>3. QED
        BY <3>3, <4>2
    <3>5. QED
      BY <3>1, <3>4 DEF PermitsInv
<1>6. LogsInv
  <2>1. ASSUME NEW c \in Call PROVE LogInv(c)
    <3>1. /\ call[c] = "none" /\ attempts[c] = <<>> /\ quoted[c] = <<>> /\ raw[c] = 0
          /\ audit[c] = {} /\ failures[c] = <<>>
      BY DEF Init
    <3>2. \A kinds : Texts(c, kinds) = {}
      BY <3>1 DEF Texts
    <3>3. QED
      BY <1>2, <3>1, <3>2 DEF LogInv, Unsent, IsLatest, Lists
  <2>2. QED
    BY <2>1 DEF LogsInv
<1>7. QED
  BY <1>1, <1>3, <1>4, <1>5, <1>6 DEF ScoringInv

\* What is left to show for a step of a call: the lock is not touched, and of
\* the logs only its own move.
LEMMA CallKeepsScoringInv ==
  ASSUME ScoringInv, ScoringTypeOK', WaitersInv', PermitsInv',
         NEW c \in Call, call[c] \notin {"none", "ok"},
         UNCHANGED <<phase, lock>>,
         \A d \in Call \ {c} : /\ \/ call'[d] = call[d]
                                  \/ call[d] = "waiting" /\ call'[d] = "sending"
                               /\ attempts'[d] = attempts[d] /\ quoted'[d] = quoted[d]
                               /\ raw'[d] = raw[d] /\ audit'[d] = audit[d]
                               /\ failures'[d] = failures[d],
         LogInv(c)'
  PROVE  ScoringInv'
<1>1. LockInv'
  BY DEF ScoringInv, LockInv
<1>2. GroupInv'
  <2>1. \A d \in Call : call[d] \in {"none", "ok"} => call'[d] = call[d]
    OBVIOUS
  <2>2. QED
    BY <2>1, CallsKeepGroupInv DEF ScoringInv
<1>3. LogsInv'
  <2>1. ASSUME NEW d \in Call \ {c} PROVE LogInv(d)'
    <3>1. LogInv(d) /\ ScoringTypeOK
      BY DEF ScoringInv, LogsInv
    <3>2. QED
      BY <3>1, MoveKeepsLog, RewardScoringAssumption
  <2>2. QED
    BY <2>1 DEF LogsInv
<1>4. QED
  BY <1>1, <1>2, <1>3 DEF ScoringInv

LEMMA SkipKeepsScoringInv ==
  ASSUME ScoringInv, NEW c \in Call, Skip(c)
  PROVE  ScoringInv'
<1>1. /\ call[c] = "created" /\ c \in Taskless
      /\ call' = [call EXCEPT ![c] = "ok"]
      /\ audit' = [audit EXCEPT ![c] = @ \cup {[status |-> "skipped", text |-> 0]}]
      /\ UNCHANGED <<dynamic, phase, lock, attempts, quoted, raw, permits, waiters, failures>>
  BY DEF Skip, Audited, talk
<1>2. ScoringTypeOK /\ WaitersInv /\ PermitsInv /\ LogInv(c)
  BY DEF ScoringInv, LogsInv
<1>3. /\ call' \in [Call -> {"none", "created", "waiting", "sending", "ok", "invalid", "raised"}]
      /\ \A d \in Call \ {c} : call'[d] = call[d] /\ audit'[d] = audit[d]
      /\ call'[c] = "ok"
      /\ audit'[c] = audit[c] \cup {[status |-> "skipped", text |-> 0]}
  BY <1>1, <1>2 DEF ScoringTypeOK
<1>4. ScoringTypeOK'
  BY <1>1, <1>2, <1>3 DEF ScoringTypeOK
<1>5. WaitersInv' /\ PermitsInv'
  BY <1>1, <1>2, <1>3, IdleKeepsPermits
<1>6. LogInv(c)'
  <2>1. \A kinds : Texts(c, kinds)' = Texts(c, kinds)
    BY <1>1 DEF Texts
  <2>2. audit[c] = {} /\ failures[c] = <<>>
    BY <1>1, <1>2 DEF LogInv, Unsent
  <2>3. QED
    BY <1>1, <1>2, <1>3, <2>1, <2>2 DEF LogInv, Unsent, Texts
<1>7. QED
  BY <1>1, <1>3, <1>4, <1>5, <1>6, CallKeepsScoringInv

LEMMA UnrenderableKeepsScoringInv ==
  ASSUME ScoringInv, NEW c \in Call, Unrenderable(c)
  PROVE  ScoringInv'
<1>1. /\ call[c] = "created"
      /\ call' = [call EXCEPT ![c] = "raised"]
      /\ UNCHANGED <<dynamic, phase, lock, attempts, quoted, raw, permits, waiters,
                     audit, failures>>
  BY DEF Unrenderable, talk
<1>2. ScoringTypeOK /\ WaitersInv /\ PermitsInv /\ LogInv(c)
  BY DEF ScoringInv, LogsInv
<1>3. /\ call' \in [Call -> {"none", "created", "waiting", "sending", "ok", "invalid", "raised"}]
      /\ \A d \in Call \ {c} : call'[d] = call[d]
      /\ call'[c] = "raised"
  BY <1>1, <1>2 DEF ScoringTypeOK
<1>4. ScoringTypeOK'
  BY <1>1, <1>2, <1>3 DEF ScoringTypeOK
<1>5. WaitersInv' /\ PermitsInv'
  BY <1>1, <1>2, <1>3, IdleKeepsPermits
<1>6. LogInv(c)'
  BY <1>1, <1>2, <1>3, MoveKeepsLog, RewardScoringAssumption
<1>7. QED
  BY <1>1, <1>3, <1>4, <1>5, <1>6, CallKeepsScoringInv

LEMMA AcquireKeepsScoringInv ==
  ASSUME ScoringInv, NEW c \in Call, Acquire(c)
  PROVE  ScoringInv'
<1> DEFINE x == ScopeOf[c]
<1>1. /\ call[c] = "created" /\ c \notin Taskless
      /\ UNCHANGED <<dynamic, phase, lock, attempts, quoted, raw, audit, failures>>
  BY DEF Acquire, talk
<1>2. ScoringTypeOK /\ WaitersInv /\ PermitsInv /\ LogInv(c)
  BY DEF ScoringInv, LogsInv
<1>3. /\ permits \in [Scope -> Nat] /\ waiters \in [Scope -> Seq(Call)]
      /\ call \in [Call -> {"none", "created", "waiting", "sending",
                            "ok", "invalid", "raised"}]
      /\ Concurrency \in [Scope -> Nat \ {0}]
      /\ x \in Scope
  BY <1>2, RewardScoringAssumption DEF ScoringTypeOK, RewardScoringAssumption
<1>4. ASSUME NEW to \in {"waiting", "sending"}, call' = [call EXCEPT ![c] = to],
             permits' \in [Scope -> Nat], waiters' \in [Scope -> Seq(Call)],
             WaitersInv', PermitsInv'
      PROVE  ScoringInv'
  <2>1. /\ call' \in [Call -> {"none", "created", "waiting", "sending", "ok", "invalid", "raised"}]
        /\ \A d \in Call \ {c} : call'[d] = call[d]
        /\ call'[c] = to
    BY <1>2, <1>4 DEF ScoringTypeOK
  <2>2. ScoringTypeOK'
    BY <1>1, <1>2, <1>4, <2>1 DEF ScoringTypeOK
  <2>3. LogInv(c)'
    BY <1>1, <1>2, <2>1, MoveKeepsLog, RewardScoringAssumption
  <2>4. QED
    BY <1>1, <1>4, <2>1, <2>2, <2>3, CallKeepsScoringInv
<1>5. CASE /\ permits[x] > 0 /\ waiters[x] = <<>>
           /\ permits' = [permits EXCEPT ![x] = @ - 1]
           /\ call' = [call EXCEPT ![c] = "sending"]
           /\ UNCHANGED waiters
  <2>1. /\ permits' \in [Scope -> Nat] /\ waiters' \in [Scope -> Seq(Call)]
        /\ call'[c] = "sending" /\ \A d \in Call \ {c} : call'[d] = call[d]
    BY <1>3, <1>5
  <2>2. \A y \in Scope :
           /\ IsFiniteSet(Sending(y)')
           /\ Cardinality(Sending(y)') =
                IF y = x THEN Cardinality(Sending(y)) + 1 ELSE Cardinality(Sending(y))
           /\ Cardinality(Sending(y)) \in Nat
    <3>1. \A y \in Scope : IsFiniteSet(Sending(y)) /\ Cardinality(Sending(y)) \in Nat
      BY <1>2, FS_CardinalityType DEF PermitsInv
    <3>2. /\ call[c] # "sending" /\ call'[c] = "sending"
          /\ \A d \in Call \ {c} : call'[d] = "sending" <=> call[d] = "sending"
      BY <1>1, <2>1
    <3>3. QED
      BY <1>3, <3>1, <3>2, SendingGrows
  <2>3. PermitsInv'
    <3>1. ASSUME NEW y \in Scope
          PROVE  /\ permits'[y] + Cardinality(Sending(y)') = Concurrency[y]
                 /\ waiters'[y] # <<>> => permits'[y] = 0
      <4>1. CASE y = x
        BY <1>2, <1>3, <1>5, <2>2, <4>1 DEF PermitsInv, PermitsConserved
      <4>2. CASE y # x
        BY <1>2, <1>3, <1>5, <2>2, <4>2 DEF PermitsInv, PermitsConserved
      <4>3. QED
        BY <4>1, <4>2
    <3>2. QED
      BY <2>2, <3>1 DEF PermitsInv, PermitsConserved
  <2>4. WaitersInv'
    <3>1. \A y \in Scope : \A i \in DOMAIN waiters[y] :
            waiters[y][i] \in Call \ {c} /\ call'[waiters[y][i]] = call[waiters[y][i]]
      BY <1>1, <1>2, <1>3, <2>1, ElementOfSeq, LenProperties DEF WaitersInv
    <3>2. QED
      BY <1>2, <1>5, <3>1 DEF WaitersInv
  <2>5. QED
    BY <1>4, <1>5, <2>1, <2>3, <2>4
<1>6. CASE /\ permits[x] = 0 \/ waiters[x] # <<>>
           /\ waiters' = [waiters EXCEPT ![x] = Append(@, c)]
           /\ call' = [call EXCEPT ![c] = "waiting"]
           /\ UNCHANGED permits
  <2> DEFINE q == waiters[x]
             new == Append(q, c)
  <2>1. \A y \in Scope : \A i \in DOMAIN waiters[y] :
          /\ waiters[y][i] \in Call \ {c} /\ ScopeOf[waiters[y][i]] = y
          /\ call'[waiters[y][i]] = "waiting"
    BY <1>1, <1>2, <1>3, <1>6, ElementOfSeq, LenProperties DEF WaitersInv
  <2>2. q \in Seq(Call) /\ \A i \in DOMAIN q : q[i] # c
    BY <1>3, <2>1
  <2>3. /\ new \in Seq(Call)
        /\ \A i \in DOMAIN new : IF i \in DOMAIN q THEN new[i] = q[i] ELSE new[i] = c
        /\ DOMAIN new = 1 .. Len(q) + 1
        /\ DOMAIN q = 1 .. Len(q)
        /\ Len(q) \in Nat
    <3> HIDE DEF q
    <3>1. QED
      BY <2>2, AppendNew
  <2>4. /\ permits' \in [Scope -> Nat] /\ waiters' \in [Scope -> Seq(Call)]
        /\ call'[c] = "waiting" /\ \A d \in Call \ {c} : call'[d] = call[d]
        /\ waiters'[x] = new /\ \A y \in Scope : y # x => waiters'[y] = waiters[y]
    BY <1>3, <1>6, <2>3
  <2>5. WaitersInv'
    <3> HIDE DEF q, new
    <3>1. ASSUME NEW y \in Scope
          PROVE  /\ \A i \in DOMAIN waiters'[y] :
                      ScopeOf[waiters'[y][i]] = y /\ call'[waiters'[y][i]] = "waiting"
                 /\ IsInjective(waiters'[y])
      <4>1. CASE y = x
        <5>1. \A i \in DOMAIN q : ScopeOf[q[i]] = y /\ call'[q[i]] = "waiting"
          BY <2>1, <4>1 DEF q
        <5>2. IsInjective(q)
          BY <1>2, <1>3 DEF WaitersInv, q
        <5>3. waiters'[y] = new
          BY <2>4, <4>1
        <5>4. \A i \in DOMAIN new : ScopeOf[new[i]] = y /\ call'[new[i]] = "waiting"
          BY <2>3, <2>4, <4>1, <5>1
        <5>5. IsInjective(new)
          BY <2>2, <2>3, <5>2 DEF IsInjective
        <5>6. QED
          BY <5>3, <5>4, <5>5
      <4>2. CASE y # x
        BY <1>2, <2>1, <2>4, <4>2 DEF WaitersInv
      <4>3. QED
        BY <4>1, <4>2
    <3>2. QED
      BY <3>1 DEF WaitersInv
  <2>6. PermitsInv'
    <3>1. \A y \in Scope : Sending(y)' = Sending(y)
      BY <1>1, <2>4 DEF Sending
    <3>2. permits[x] = 0
      BY <1>2, <1>3, <1>6 DEF PermitsInv, PermitsConserved
    <3>3. QED
      BY <1>2, <1>6, <2>4, <3>1, <3>2 DEF PermitsInv, PermitsConserved
  <2>7. QED
    BY <1>4, <1>6, <2>4, <2>5, <2>6
<1>7. QED
  BY <1>5, <1>6 DEF Acquire

LEMMA ValidKeepsScoringInv ==
  ASSUME ScoringInv, NEW c \in Call, Valid(c)
  PROVE  ScoringInv'
<1> DEFINE x == ScopeOf[c]
           row == [status |-> "ok", text |-> Attempt(c)]
<1>1. /\ call[c] = "sending"
      /\ EndsAndReleases(c, "ok")
      /\ raw' = [raw EXCEPT ![c] = Attempt(c)]
      /\ audit' = [audit EXCEPT ![c] = @ \cup {row}]
      /\ UNCHANGED <<dynamic, phase, lock, attempts, quoted, failures>>
  BY DEF Valid, Audited
<1>2. ScoringTypeOK /\ WaitersInv /\ PermitsInv /\ LogInv(c)
  BY DEF ScoringInv, LogsInv
<1>3. x \in Scope
  BY RewardScoringAssumption DEF RewardScoringAssumption
<1>4. /\ call' \in [Call -> {"none", "created", "waiting", "sending",
                             "ok", "invalid", "raised"}]
      /\ permits' \in [Scope -> Nat]
      /\ waiters' \in [Scope -> Seq(Call)]
      /\ call'[c] = "ok"
      /\ \A d \in Call \ {c} : \/ call'[d] = call[d]
                               \/ call[d] = "waiting" /\ call'[d] = "sending"
      /\ WaitersInv'
      /\ PermitsInv'
  BY <1>1, <1>2, <1>3, EndsKeepsPermits, RewardScoringAssumption
<1>5. Attempt(c) \in Nat /\ Attempt(c)' = Attempt(c)
  BY <1>1, <1>2, LenProperties DEF ScoringTypeOK, Attempt
<1>6. /\ raw' \in [Call -> Nat] /\ raw'[c] = Attempt(c)
      /\ audit' \in [Call -> SUBSET [status : {"skipped", "ok", "invalid"}, text : Nat]]
      /\ audit'[c] = audit[c] \cup {row}
      /\ \A d \in Call \ {c} : raw'[d] = raw[d] /\ audit'[d] = audit[d]
  BY <1>1, <1>2, <1>5 DEF ScoringTypeOK
<1>7. ScoringTypeOK'
  BY <1>1, <1>2, <1>4, <1>6 DEF ScoringTypeOK
<1>8. LogInv(c)'
  <2>1. \A kinds : Texts(c, kinds)' = Texts(c, kinds)
    BY <1>1 DEF Texts
  <2>2. audit[c] = {} /\ failures[c] = <<>> /\ c \notin Taskless
    BY <1>1, <1>2 DEF LogInv
  <2>3. Lists(quoted[c], IF ScopeOf[c] = "completion_local"
                         THEN {i \in Texts(c, {"unusable"}) : i < Retries[ScopeOf[c]] + 1}
                         ELSE {})
    BY <1>2 DEF LogInv
  <2>4. QED
    BY <1>1, <1>4, <1>5, <1>6, <2>1, <2>2, <2>3 DEF LogInv, Unsent
<1>9. QED
  BY <1>1, <1>4, <1>6, <1>7, <1>8, CallKeepsScoringInv

LEMMA RetryKeepsScoringInv ==
  ASSUME ScoringInv, NEW c \in Call, Retry(c)
  PROVE  ScoringInv'
<1> DEFINE x == ScopeOf[c]
<1>1. /\ call[c] = "sending"
      /\ Attempt(c) <= Retries[x]
      /\ UNCHANGED <<dynamic, phase, lock, call, permits, waiters, audit, failures>>
  BY DEF Retry
<1>2. PICK outcome \in Outcome : Fails(c, outcome) /\ Repair(c, outcome)
  BY DEF Retry
<1>3. ScoringTypeOK /\ WaitersInv /\ PermitsInv /\ LogInv(c)
  BY DEF ScoringInv, LogsInv
<1>4. /\ attempts' \in [Call -> Seq(Outcome)]
      /\ raw' \in [Call -> Nat]
      /\ \A d \in Call \ {c} : attempts'[d] = attempts[d] /\ raw'[d] = raw[d]
      /\ Attempt(c) \in Nat \ {0}
      /\ Len(attempts'[c]) = Attempt(c)
      /\ IsLatest(raw[c], Texts(c, {"refused", "unusable"}))
           => IsLatest(raw'[c], Texts(c, {"refused", "unusable"})')
  BY <1>2, <1>3, FailedAttempt
<1> DEFINE allowed == Retries[x] + 1
           old == Texts(c, {"unusable"})
           Answered(texts) == IF x = "completion_local" THEN {i \in texts : i < allowed} ELSE {}
<1>5. /\ old \in SUBSET Nat
      /\ \A i \in old : i < Attempt(c)
      /\ old' = IF outcome = "unusable" THEN old \cup {Attempt(c)} ELSE old
  BY <1>2, <1>3, FailedAttempt
<1>6. Retries[x] \in Nat
  BY RewardScoringAssumption DEF RewardScoringAssumption
<1>7. Lists(quoted[c], Answered(old)) /\ quoted[c] \in Seq(Nat) /\ quoted \in [Call -> Seq(Nat)]
  BY <1>3 DEF LogInv, ScoringTypeOK
<1> HIDE DEF old
<1>8. /\ quoted' \in [Call -> Seq(Nat)]
      /\ \A d \in Call \ {c} : quoted'[d] = quoted[d]
      /\ Lists(quoted'[c], Answered(old'))
  <2>1. CASE x = "completion_local" /\ outcome = "unusable"
    <3>1. quoted' = [quoted EXCEPT ![c] = Append(@, Attempt(c))]
      BY <1>2, <2>1 DEF Repair
    <3>2. Answered(old') = Answered(old) \cup {Attempt(c)}
      BY <1>1, <1>4, <1>5, <1>6, <2>1
    <3>3. Answered(old) \in SUBSET Nat /\ \A i \in Answered(old) : i < Attempt(c)
      BY <1>5
    <3> HIDE DEF Answered
    <3>4. /\ Append(quoted[c], Attempt(c)) \in Seq(Nat)
          /\ Lists(Append(quoted[c], Attempt(c)), Answered(old) \cup {Attempt(c)})
      BY <1>4, <1>7, <3>3, ListsAppend
    <3>5. QED
      BY <1>7, <3>1, <3>2, <3>4
  <2>2. CASE ~(x = "completion_local" /\ outcome = "unusable")
    <3>1. quoted' = quoted
      BY <1>2, <2>2 DEF Repair
    <3>2. Answered(old') = Answered(old)
      BY <1>5, <2>2
    <3>3. QED
      BY <1>7, <3>1, <3>2
  <2>3. QED
    BY <2>1, <2>2
<1>9. ScoringTypeOK'
  BY <1>1, <1>3, <1>4, <1>8 DEF ScoringTypeOK
<1>10. WaitersInv' /\ PermitsInv'
  BY <1>1, <1>3, IdleKeepsPermits
<1>11. LogInv(c)'
  <2>1. /\ audit[c] = {} /\ failures[c] = <<>> /\ c \notin Taskless
        /\ IsLatest(raw[c], Texts(c, {"refused", "unusable"}))
    BY <1>1, <1>3 DEF LogInv
  <2>2. Len(attempts'[c]) < allowed
    BY <1>1, <1>4, <1>6
  <2>3. QED
    BY <1>1, <1>4, <1>8, <2>1, <2>2 DEF LogInv, Unsent, old
<1>12. QED
  BY <1>1, <1>4, <1>8, <1>9, <1>10, <1>11, CallKeepsScoringInv

LEMMA ExhaustedKeepsScoringInv ==
  ASSUME ScoringInv, NEW c \in Call, Exhausted(c)
  PROVE  ScoringInv'
<1> DEFINE x == ScopeOf[c]
           row == [status |-> "invalid", text |-> raw'[c]]
<1>1. /\ call[c] = "sending"
      /\ Attempt(c) > Retries[x]
      /\ EndsAndReleases(c, "invalid")
      /\ audit' = [audit EXCEPT ![c] = @ \cup {row}]
      /\ failures' = [failures EXCEPT ![c] = Append(@, attempts'[c])]
      /\ UNCHANGED <<dynamic, phase, lock, quoted>>
  BY DEF Exhausted, Audited
<1>2. PICK outcome \in Outcome : Fails(c, outcome)
  BY DEF Exhausted
<1>3. ScoringTypeOK /\ WaitersInv /\ PermitsInv /\ LogInv(c)
  BY DEF ScoringInv, LogsInv
<1>4. x \in Scope /\ Retries[x] \in Nat
  BY RewardScoringAssumption DEF RewardScoringAssumption
<1>5. /\ call' \in [Call -> {"none", "created", "waiting", "sending",
                             "ok", "invalid", "raised"}]
      /\ permits' \in [Scope -> Nat]
      /\ waiters' \in [Scope -> Seq(Call)]
      /\ call'[c] = "invalid"
      /\ \A d \in Call \ {c} : \/ call'[d] = call[d]
                               \/ call[d] = "waiting" /\ call'[d] = "sending"
      /\ WaitersInv'
      /\ PermitsInv'
  BY <1>1, <1>3, <1>4, EndsKeepsPermits, RewardScoringAssumption
<1>6. /\ attempts' \in [Call -> Seq(Outcome)]
      /\ raw' \in [Call -> Nat]
      /\ \A d \in Call \ {c} : attempts'[d] = attempts[d] /\ raw'[d] = raw[d]
      /\ Attempt(c) \in Nat \ {0}
      /\ Len(attempts'[c]) = Attempt(c)
      /\ IsLatest(raw[c], Texts(c, {"refused", "unusable"}))
           => IsLatest(raw'[c], Texts(c, {"refused", "unusable"})')
  BY <1>2, <1>3, FailedAttempt
<1>7. /\ audit[c] = {} /\ failures[c] = <<>>
      /\ IsLatest(raw[c], Texts(c, {"refused", "unusable"}))
      /\ Attempt(c) = Retries[x] + 1
  <2>1. Len(attempts[c]) < Retries[x] + 1 /\ Len(attempts[c]) \in Nat
    BY <1>1, <1>3, LenProperties DEF LogInv, ScoringTypeOK
  <2>2. QED
    BY <1>1, <1>3, <1>4, <2>1 DEF LogInv, Attempt
<1>8. /\ audit' \in [Call -> SUBSET [status : {"skipped", "ok", "invalid"}, text : Nat]]
      /\ audit'[c] = {row}
      /\ failures' \in [Call -> Seq(Seq(Outcome))]
      /\ failures'[c] = <<attempts'[c]>>
      /\ \A d \in Call \ {c} : audit'[d] = audit[d] /\ failures'[d] = failures[d]
  <2>1. attempts'[c] \in Seq(Outcome) /\ raw'[c] \in Nat
    BY <1>6
  <2>2. Append(<<>>, attempts'[c]) = <<attempts'[c]>> /\ <<attempts'[c]>> \in Seq(Seq(Outcome))
    BY <2>1
  <2>3. QED
    BY <1>1, <1>3, <1>7, <2>1, <2>2 DEF ScoringTypeOK
<1>9. ScoringTypeOK'
  BY <1>1, <1>3, <1>5, <1>6, <1>8 DEF ScoringTypeOK
<1>10. LogInv(c)'
  <2> DEFINE allowed == Retries[x] + 1
             old == Texts(c, {"unusable"})
             Answered(texts) == IF x = "completion_local" THEN {i \in texts : i < allowed} ELSE {}
  <2>1. /\ old \in SUBSET Nat
        /\ old' = IF outcome = "unusable" THEN old \cup {Attempt(c)} ELSE old
    BY <1>2, <1>3, FailedAttempt
  <2>2. Lists(quoted[c], Answered(old))
    BY <1>3 DEF LogInv
  <2> HIDE DEF old
  <2>3. Answered(old') = Answered(old)
    <3>1. {i \in old' : i < allowed} = {i \in old : i < allowed}
      <4>1. ~(Attempt(c) < allowed)
        BY <1>4, <1>7
      <4>2. QED
        BY <2>1, <4>1
    <3>2. QED
      BY <3>1
  <2>4. Lists(quoted'[c], Answered(old'))
    BY <1>1, <2>2, <2>3
  <2>5. QED
    BY <1>5, <1>6, <1>7, <1>8, <2>4 DEF LogInv, Unsent, old
<1>11. QED
  BY <1>1, <1>5, <1>6, <1>8, <1>9, <1>10, CallKeepsScoringInv

\* What a step of a group does to the lock leaves the calls as they are.
LEMMA SameCalls ==
  ASSUME ScoringTypeOK, WaitersInv, PermitsInv, LogsInv, UNCHANGED callVars
  PROVE  WaitersInv' /\ PermitsInv' /\ LogsInv'
<1>1. UNCHANGED <<call, attempts, quoted, raw, permits, waiters, audit, failures>>
  BY DEF callVars
<1>2. WaitersInv' /\ PermitsInv'
  BY <1>1, IdleKeepsPermits
<1>3. ASSUME NEW c \in Call PROVE LogInv(c)'
  BY <1>1, MoveKeepsLog, RewardScoringAssumption DEF LogsInv
<1>4. QED
  BY <1>2, <1>3 DEF LogsInv

LEMMA CompleteKeepsScoringInv ==
  ASSUME ScoringInv, NEW g \in Group, Complete(g)
  PROVE  ScoringInv'
<1>1. /\ phase[g] = "generating"
      /\ phase' = [phase EXCEPT ![g] = "queued"]
      /\ lock' = Append(lock, g)
      /\ UNCHANGED <<dynamic, call, attempts, quoted, raw, permits, waiters, audit, failures>>
  BY DEF Complete, callVars
<1>2. ScoringTypeOK /\ LockInv /\ GroupInv /\ WaitersInv /\ PermitsInv /\ LogsInv
  BY DEF ScoringInv
<1>3. g \notin Range(lock) /\ lock \in Seq(Group)
  BY <1>1, <1>2 DEF LockInv, AtWork, ScoringTypeOK
<1>4. /\ lock' \in Seq(Group)
      /\ Range(lock') = Range(lock) \cup {g}
      /\ \A i \in DOMAIN lock' : IF i \in DOMAIN lock THEN lock'[i] = lock[i] ELSE lock'[i] = g
      /\ DOMAIN lock' = 1 .. Len(lock) + 1
      /\ DOMAIN lock = 1 .. Len(lock)
      /\ Len(lock) \in Nat
  <2>1. \A i \in DOMAIN lock : lock[i] # g
    BY <1>3 DEF Range
  <2>2. QED
    BY <1>1, <1>3, <2>1, AppendNew
<1>5. phase'[g] = "queued" /\ \A h \in Group \ {g} : phase'[h] = phase[h]
  BY <1>1, <1>2 DEF ScoringTypeOK
<1>6. ScoringTypeOK'
  BY <1>1, <1>2, <1>4 DEF ScoringTypeOK
<1>7. LockInv'
  <2>1. \A i \in DOMAIN lock : lock[i] \in Group \ {g}
    BY <1>3, ElementOfSeq, LenProperties DEF Range
  <2>2. \A h \in Group : phase'[h] \in {"queued"} \cup AtWork <=> h \in Range(lock')
    BY <1>2, <1>4, <1>5 DEF LockInv
  <2>3. IsInjective(lock')
    BY <1>2, <1>4, <2>1 DEF LockInv, IsInjective
  <2>4. \A i \in DOMAIN lock' : i # 1 => phase'[lock'[i]] = "queued"
    BY <1>2, <1>4, <1>5, <2>1 DEF LockInv
  <2>5. QED
    BY <2>2, <2>3, <2>4 DEF LockInv
<1>8. GroupInv'
  BY <1>1, <1>2, <1>5 DEF GroupInv, Calls, CallsOf
<1>9. WaitersInv' /\ PermitsInv' /\ LogsInv'
  BY <1>1, <1>2, SameCalls DEF callVars, talk
<1>10. QED
  BY <1>6, <1>7, <1>8, <1>9 DEF ScoringInv

\* The holder of the lock begins to gather calls it has not made before.
LEMMA GatherKeepsScoringInv ==
  ASSUME ScoringInv, NEW g \in Group, Holds(g),
         NEW scopes \in SUBSET Scope, Gather(g, scopes),
         \A c \in CallsOf(g) : ScopeOf[c] \in scopes => call[c] = "none",
         NEW now \in AtWork, phase' = [phase EXCEPT ![g] = now],
         UNCHANGED <<dynamic, lock>>,
         now = "trajectory" =>
           \A c \in Calls(g, "completion_local") : call'[c] = "none",
         now = "completion" =>
           \A c \in Calls(g, "trajectory_role") : call'[c] = "ok"
  PROVE  ScoringInv'
<1>1. ScoringTypeOK /\ LockInv /\ GroupInv /\ WaitersInv /\ PermitsInv /\ LogsInv
  BY DEF ScoringInv
<1>2. /\ UNCHANGED <<attempts, quoted, raw, permits, waiters, audit, failures>>
      /\ call' = [c \in Call |-> IF GroupOf[c] = g /\ ScopeOf[c] \in scopes
                                 THEN "created" ELSE call[c]]
  BY DEF Gather, talk
<1>3. \A c \in Call : \/ call'[c] = call[c]
                      \/ call[c] = "none" /\ call'[c] = "created" /\ GroupOf[c] = g
  BY <1>2 DEF CallsOf
<1>4. phase'[g] = now /\ \A h \in Group \ {g} : phase'[h] = phase[h]
  BY <1>1 DEF ScoringTypeOK
<1>5. ScoringTypeOK'
  <2>1. call' \in [Call -> {"none", "created", "waiting", "sending", "ok", "invalid", "raised"}]
    BY <1>1, <1>2 DEF ScoringTypeOK
  <2>2. QED
    BY <1>1, <1>2, <2>1 DEF ScoringTypeOK, AtWork
<1>6. LockInv'
  <2>1. 1 \in DOMAIN lock /\ lock[1] = g
    BY <1>1, EmptySeq, LenProperties DEF Holds, ScoringTypeOK
  <2>2. \A h \in Group : phase'[h] \in {"queued"} \cup AtWork <=> h \in Range(lock)
    BY <1>1, <1>4, <2>1 DEF LockInv, Range
  <2>3. \A i \in DOMAIN lock : i # 1 => lock[i] \in Group /\ lock[i] # g
    BY <1>1, <2>1, ElementOfSeq, LenProperties DEF LockInv, ScoringTypeOK, IsInjective
  <2>4. \A i \in DOMAIN lock : i # 1 => phase'[lock[i]] = "queued"
    BY <1>1, <1>4, <2>3 DEF LockInv
  <2>5. QED
    BY <1>1, <2>2, <2>4 DEF LockInv
<1>7. GroupInv'
  BY <1>1, <1>3, <1>4 DEF GroupInv, Calls, CallsOf, AtWork
<1>8. WaitersInv' /\ PermitsInv'
  BY <1>1, <1>2, <1>3, IdleKeepsPermits
<1>9. LogsInv'
  <2>1. ASSUME NEW c \in Call PROVE LogInv(c)'
    BY <1>1, <1>2, <1>3, MoveKeepsLog, RewardScoringAssumption DEF LogsInv
  <2>2. QED
    BY <2>1 DEF LogsInv
<1>10. QED
  BY <1>5, <1>6, <1>7, <1>8, <1>9 DEF ScoringInv

\* The holder of the lock ends, with what its calls returned.
LEMMA EndKeepsScoringInv ==
  ASSUME ScoringInv, NEW g \in Group, Holds(g), NEW how \in Settled, End(g, how),
         how = "scored" => \A c \in CallsOf(g) : call[c] = "ok",
         how = "rejected" =>
           /\ \A c \in Calls(g, "completion_local") : call[c] = "none"
           /\ \A c \in Calls(g, "trajectory_role") : call[c] = "ok"
  PROVE  ScoringInv'
<1>1. ScoringTypeOK /\ LockInv /\ GroupInv /\ WaitersInv /\ PermitsInv /\ LogsInv
  BY DEF ScoringInv
<1>2. /\ phase' = [phase EXCEPT ![g] = how]
      /\ lock' = Tail(lock)
      /\ UNCHANGED <<dynamic, call, attempts, quoted, raw, permits, waiters, audit, failures>>
  BY DEF End, callVars
<1>3. phase'[g] = how /\ \A h \in Group \ {g} : phase'[h] = phase[h]
  BY <1>1, <1>2 DEF ScoringTypeOK
<1>4. /\ lock' \in Seq(Group)
      /\ 1 \in DOMAIN lock /\ lock[1] = g
      /\ Range(lock') = Range(lock) \ {g}
      /\ \A i \in DOMAIN lock' :
           i + 1 \in DOMAIN lock /\ i \in Nat \ {0} /\ lock'[i] = lock[i + 1]
      /\ IsInjective(lock')
  <2>1. /\ lock \in Seq(Group) /\ lock # <<>>
        /\ IsInjective(lock)
    BY <1>1 DEF Holds, LockInv, ScoringTypeOK
  <2> DEFINE q == lock
  <2> HIDE DEF q
  <2>2. /\ 1 \in DOMAIN q /\ Head(q) = q[1] /\ Head(q) \in Group
        /\ Tail(q) \in Seq(Group)
        /\ Range(Tail(q)) = Range(q) \ {Head(q)}
        /\ \A i \in DOMAIN Tail(q) :
             i + 1 \in DOMAIN q /\ i \in Nat \ {0} /\ Tail(q)[i] = q[i + 1]
        /\ IsInjective(Tail(q))
    <3>1. q \in Seq(Group) /\ q # <<>> /\ IsInjective(q)
      BY <2>1 DEF q
    <3>2. QED
      BY <3>1, TailOfDistinct, ZenonT(30)
  <2>3. Head(lock) = g
    BY DEF Holds
  <2>4. QED
    BY <1>2, <2>2, <2>3 DEF q
<1>5. ScoringTypeOK'
  BY <1>1, <1>2, <1>4 DEF ScoringTypeOK, Settled
<1>6. LockInv'
  <2>1. \A h \in Group : phase'[h] \in {"queued"} \cup AtWork <=> h \in Range(lock')
    BY <1>1, <1>3, <1>4 DEF LockInv, Settled, AtWork
  <2>2. ASSUME NEW i \in DOMAIN lock' PROVE phase'[lock'[i]] = "queued"
    <3>1. i + 1 \in DOMAIN lock /\ i + 1 # 1 /\ lock'[i] = lock[i + 1]
      BY <1>4
    <3>2. phase[lock[i + 1]] = "queued" /\ lock[i + 1] # g
      BY <1>1, <1>4, <3>1 DEF LockInv, IsInjective
    <3>3. lock[i + 1] \in Group
      BY <1>1, <3>1, ElementOfSeq, LenProperties DEF ScoringTypeOK
    <3>4. QED
      BY <1>3, <3>1, <3>2, <3>3
  <2>3. QED
    BY <1>4, <2>1, <2>2 DEF LockInv
<1>7. GroupInv'
  BY <1>1, <1>2, <1>3 DEF GroupInv, Calls, CallsOf, Settled
<1>8. WaitersInv' /\ PermitsInv' /\ LogsInv'
  BY <1>1, <1>2, SameCalls DEF callVars, talk
<1>9. QED
  BY <1>5, <1>6, <1>7, <1>8 DEF ScoringInv

LEMMA TaskStepKeepsScoringInv ==
  ASSUME ScoringInv, NEW g \in Group, TaskStep(g)
  PROVE  ScoringInv'
<1>1. ScoringTypeOK /\ GroupInv
  BY DEF ScoringInv
<1>2. \A c \in Call : ScopeOf[c] \in Scope
  BY RewardScoringAssumption DEF RewardScoringAssumption
<1>3. CASE Start(g)
  <2> DEFINE scopes == IF dynamic THEN {"trajectory_role"} ELSE Scope
             now == IF dynamic THEN "trajectory" ELSE "both"
  <2>1. /\ Holds(g) /\ phase[g] = "queued" /\ Gather(g, scopes)
        /\ phase' = [phase EXCEPT ![g] = now] /\ UNCHANGED <<dynamic, lock>>
    BY <1>3 DEF Start
  <2>2. scopes \in SUBSET Scope /\ now \in AtWork /\ now # "completion"
    BY DEF Scope, AtWork
  <2>3. \A c \in CallsOf(g) : call[c] = "none"
    BY <1>1, <2>1 DEF GroupInv
  <2>4. now = "trajectory" => \A c \in Calls(g, "completion_local") : call'[c] = "none"
    BY <2>1, <2>3 DEF Gather, Calls, CallsOf
  <2> HIDE DEF scopes, now
  <2>5. QED
    BY <2>1, <2>2, <2>3, <2>4, GatherKeepsScoringInv
<1>4. CASE Informative(g)
  <2>1. /\ Holds(g) /\ phase[g] = "trajectory" /\ AllOk(g)
        /\ Gather(g, {"completion_local"})
        /\ phase' = [phase EXCEPT ![g] = "completion"] /\ UNCHANGED <<dynamic, lock>>
    BY <1>4 DEF Informative
  <2>2. \A c \in CallsOf(g) : ScopeOf[c] \in {"completion_local"} => call[c] = "none"
    BY <1>1, <2>1 DEF GroupInv, CallsOf, Calls
  <2>3. \A c \in Calls(g, "trajectory_role") : call'[c] = "ok"
    BY <2>1 DEF AllOk, Gathered, Gathering, Gather, Calls
  <2>4. {"completion_local"} \in SUBSET Scope /\ "completion" \in AtWork
    BY DEF Scope, AtWork
  <2>5. QED
    BY <2>1, <2>2, <2>3, <2>4, GatherKeepsScoringInv
<1>5. CASE Reject(g)
  <2>1. /\ \A c \in Calls(g, "completion_local") : call[c] = "none"
        /\ \A c \in Calls(g, "trajectory_role") : call[c] = "ok"
    BY <1>1, <1>5 DEF Reject, AllOk, Gathered, Gathering, GroupInv
  <2>2. Holds(g) /\ End(g, "rejected") /\ "rejected" \in Settled
    BY <1>5 DEF Reject, Settled
  <2>3. QED
    BY <2>1, <2>2, EndKeepsScoringInv
<1>6. CASE Accept(g)
  <2>1. \A c \in CallsOf(g) : call[c] = "ok"
    <3>1. CASE phase[g] = "completion"
      BY <1>1, <1>2, <1>6, <3>1
         DEF Accept, AllOk, Gathered, Gathering, GroupInv, Calls, CallsOf, Scope
    <3>2. CASE phase[g] = "both"
      BY <1>2, <1>6, <3>2 DEF Accept, AllOk, Gathered, Gathering, Calls, CallsOf
    <3>3. QED
      BY <1>6, <3>1, <3>2 DEF Accept
  <2>2. Holds(g) /\ End(g, "scored") /\ "scored" \in Settled
    BY <1>6 DEF Accept, Settled
  <2>3. QED
    BY <2>1, <2>2, EndKeepsScoringInv
<1>7. CASE Fail(g)
  <2>1. Holds(g) /\ End(g, "failed") /\ "failed" \in Settled
    BY <1>7 DEF Fail, Settled
  <2>2. QED
    BY <2>1, EndKeepsScoringInv
<1>8. QED
  BY <1>3, <1>4, <1>5, <1>6, <1>7 DEF TaskStep

LEMMA StutterKeepsScoringInv ==
  ASSUME ScoringInv, UNCHANGED vars
  PROVE  ScoringInv'
<1>1. UNCHANGED <<dynamic, phase, lock, callVars>>
  BY DEF vars
<1>2. WaitersInv' /\ PermitsInv' /\ LogsInv'
  BY <1>1, SameCalls DEF ScoringInv
<1>3. ScoringTypeOK'
  BY <1>1 DEF ScoringInv, ScoringTypeOK, callVars
<1>4. LockInv' /\ GroupInv'
  BY <1>1 DEF ScoringInv, LockInv, GroupInv, Calls, CallsOf, callVars
<1>5. QED
  BY <1>2, <1>3, <1>4 DEF ScoringInv

LEMMA NextKeepsScoringInv ==
  ASSUME ScoringInv, [Next]_vars
  PROVE  ScoringInv'
<1>1. ASSUME NEW g \in Group, Complete(g) \/ TaskStep(g)
      PROVE  ScoringInv'
  BY <1>1, CompleteKeepsScoringInv, TaskStepKeepsScoringInv
<1>2. ASSUME NEW c \in Call, CallStep(c)
      PROVE  ScoringInv'
  BY <1>2, SkipKeepsScoringInv, UnrenderableKeepsScoringInv, AcquireKeepsScoringInv,
     ValidKeepsScoringInv, RetryKeepsScoringInv, ExhaustedKeepsScoringInv DEF CallStep
<1>3. CASE UNCHANGED vars
  BY <1>3, StutterKeepsScoringInv
<1>4. QED
  BY <1>1, <1>2, <1>3 DEF Next, Quiescent

(***************************************************************************)
(* The theorems.                                                           *)
(***************************************************************************)

\* The inductive invariant of the score tasks and their reward calls.
THEOREM ScoringInvariant == Spec => []ScoringInv
<1>1. Init => ScoringInv
  BY InitScoringInv, RewardScoringAssumption
<1>2. ScoringInv /\ [Next]_vars => ScoringInv'
  BY NextKeepsScoringInv
<1>3. QED
  BY <1>1, <1>2, PTL DEF Spec

\* Every variable keeps its type.
THEOREM ScoringTypeCorrect == Spec => []ScoringTypeOK
<1>1. ScoringInv => ScoringTypeOK
  BY DEF ScoringInv
<1>2. QED
  BY <1>1, ScoringInvariant, PTL

\* No permit of _semaphores is lost or made up, however calls fail, retry or
\* outlive their group, and none is free while a call waits for it.
THEOREM PermitsAreConserved == Spec => []PermitsConserved
<1>1. ScoringInv => PermitsConserved
  BY DEF ScoringInv, PermitsInv
<1>2. QED
  BY <1>1, ScoringInvariant, PTL

\* A group gets rewards from all its calls, a rejected one cost no completion
\* reward.
THEOREM RewardsComeFromWholeGroup == Spec => []RewardsFromWholeGroup
<1>1. ScoringInv => RewardsFromWholeGroup
  <2>1. SUFFICES ASSUME ScoringInv, NEW g \in Group
                 PROVE  /\ phase[g] = "scored" =>
                             \A c \in CallsOf(g) :
                               /\ call[c] = "ok"
                               /\ \E row \in audit[c] : audit[c] = {row} /\ row.status # "invalid"
                        /\ phase[g] = "rejected" =>
                             /\ \A c \in Calls(g, "trajectory_role") : call[c] = "ok"
                             /\ \A c \in Calls(g, "completion_local") : call[c] = "none"
    BY DEF RewardsFromWholeGroup
  <2>2. ASSUME NEW c \in Call, call[c] = "ok"
        PROVE  \E row \in audit[c] : audit[c] = {row} /\ row.status # "invalid"
    <3> DEFINE row == IF c \in Taskless THEN [status |-> "skipped", text |-> 0]
                                        ELSE [status |-> "ok", text |-> Attempt(c)]
    <3>1. audit[c] = {row}
      BY <2>1, <2>2 DEF ScoringInv, LogsInv, LogInv
    <3>2. row.status # "invalid"
      OBVIOUS
    <3>3. QED
      BY <3>1, <3>2
  <2>3. QED
    BY <2>1, <2>2 DEF ScoringInv, GroupInv, CallsOf
<1>2. QED
  BY <1>1, ScoringInvariant, PTL

\* The reward-schedule lock keeps the requests of groups apart, and only a
\* failed group leaves requests behind.
THEOREM RequestsOverlapOnlyAfterFailure == Spec => []OverlapOnlyAfterFailure
<1>1. ScoringInv => OverlapOnlyAfterFailure
  <2>1. SUFFICES ASSUME ScoringInv, NEW c \in Call, NEW d \in Call,
                        call[c] \in Active, call[d] \in Active,
                        phase[GroupOf[c]] # "failed", phase[GroupOf[d]] # "failed"
                 PROVE  GroupOf[c] = GroupOf[d]
    BY DEF OverlapOnlyAfterFailure, Active
  <2>2. ASSUME NEW e \in Call, call[e] \in Active, phase[GroupOf[e]] # "failed"
        PROVE  1 \in DOMAIN lock /\ GroupOf[e] = lock[1]
    <3> DEFINE g == GroupOf[e]
    <3>1. g \in Group /\ ScopeOf[e] \in Scope /\ e \in CallsOf(g) /\ e \in Calls(g, ScopeOf[e])
      BY RewardScoringAssumption DEF RewardScoringAssumption, CallsOf, Calls
    <3>2. call[e] # "none" /\ call[e] # "ok"
      BY <2>2 DEF Active
    <3>3. /\ phase[g] \in {"generating", "queued", "trajectory", "completion", "both"} \cup Settled
          /\ phase[g] \notin {"generating", "queued"}
          /\ phase[g] # "scored"
      BY <2>1, <3>1, <3>2 DEF ScoringInv, ScoringTypeOK, GroupInv
    <3>4. phase[g] # "rejected"
      BY <2>1, <3>1, <3>2 DEF ScoringInv, GroupInv, Scope
    <3>5. phase[g] \in AtWork
      BY <2>2, <3>3, <3>4 DEF AtWork, Settled
    <3>6. PICK i \in DOMAIN lock : lock[i] = g
      BY <2>1, <3>1, <3>5 DEF ScoringInv, LockInv, Range
    <3>7. i = 1
      BY <2>1, <3>3, <3>6 DEF ScoringInv, LockInv
    <3>8. QED
      BY <3>6, <3>7
  <2>3. QED
    BY <2>1, <2>2
<1>2. QED
  BY <1>1, ScoringInvariant, PTL

\* The audit, the failure log and the repair requests tell what the model
\* answered, attempt by attempt.
THEOREM LogsTellAttempts == Spec => []LogsFollowAttempts
<1>1. ScoringInv => LogsFollowAttempts
  <2>1. SUFFICES ASSUME ScoringInv, NEW c \in Call
                 PROVE  LET allowed == Retries[ScopeOf[c]] + 1
                            answered == {i \in Texts(c, {"unusable"}) : i < allowed}
                        IN
                        /\ Lists(quoted[c], IF ScopeOf[c] = "completion_local"
                                            THEN answered ELSE {})
                        /\ call[c] = "ok" /\ c \notin Taskless =>
                             audit[c] = {[status |-> "ok", text |-> Attempt(c)]}
                        /\ call[c] = "invalid" =>
                             /\ \E text \in 0 .. allowed :
                                  /\ IsLatest(text, Texts(c, {"refused", "unusable"}))
                                  /\ audit[c] = {[status |-> "invalid", text |-> text]}
                             /\ failures[c] = <<attempts[c]>> /\ Len(attempts[c]) = allowed
                        /\ call[c] # "invalid" => failures[c] = <<>>
    BY DEF LogsFollowAttempts
  <2>2. LogInv(c)
    BY <2>1 DEF ScoringInv, LogsInv
  <2>3. ASSUME call[c] = "invalid"
        PROVE  /\ raw[c] \in 0 .. Retries[ScopeOf[c]] + 1
               /\ IsLatest(raw[c], Texts(c, {"refused", "unusable"}))
               /\ audit[c] = {[status |-> "invalid", text |-> raw[c]]}
    <3>1. /\ Len(attempts[c]) = Retries[ScopeOf[c]] + 1
          /\ IsLatest(raw[c], Texts(c, {"refused", "unusable"}))
          /\ audit[c] = {[status |-> "invalid", text |-> raw[c]]}
      BY <2>2, <2>3 DEF LogInv
    <3>2. DOMAIN attempts[c] = 1 .. Len(attempts[c]) /\ Len(attempts[c]) \in Nat
      BY <2>1, LenProperties DEF ScoringInv, ScoringTypeOK
    <3>3. raw[c] \in 0 .. Retries[ScopeOf[c]] + 1
      BY <3>1, <3>2 DEF IsLatest, Texts
    <3>4. QED
      BY <3>1, <3>3
  <2>4. QED
    BY <2>2, <2>3 DEF LogInv
<1>2. QED
  BY <1>1, ScoringInvariant, PTL
=============================================================================
