------------------------ MODULE RolloutEngineProofs ------------------------
(***************************************************************************)
(* Theorems of RolloutEngine: for any number of samples, any episode and   *)
(* any limits, each dialogue is what was said in it, each prompt shows all *)
(* of it, each report of a trajectory is what its replies make it, and     *)
(* reward requests quote what was said.                                    *)
(***************************************************************************)
EXTENDS RolloutEngine, FiniteSetTheorems, SequenceTheorems, NaturalsInduction,
  WellFoundedInduction, TLAPS

(***************************************************************************)
(* The inductive invariant.                                                *)
(***************************************************************************)

TurnType ==
  [character : Name, text : ({"given"} \X Nat) \cup (Sample \X Nat)]

ReplyType ==
  [character : Name, turn : Nat, text : Sample \X Nat, kind : {"spoken", "empty", "blank"}]

EpisodeInv ==
  /\ path \in {"offline", "online"}
  /\ Given(episode) \in Seq(TurnType)
  /\ order \in Seq(Name) /\ order # <<>> /\ IsInjective(order)
  /\ PlannedRounds(episode) \in Nat \ {0}

TypeInv ==
  /\ history \in [Sample -> Seq(TurnType)]
  /\ completions \in [Sample -> Seq(ReplyType)]
  /\ status \in [Sample -> {"created", "asking"} \cup Ended]
  /\ group \in {"running", "returned", "raised"}

\* Whoever asks has turns left, and only all turns are the end of a dialogue.
LengthsInv ==
  \A t \in Sample :
    /\ Len(completions[t]) <= Turns
    /\ status[t] = "created" => completions[t] = <<>>
    /\ status[t] = "asking" => Len(completions[t]) < Turns
    /\ status[t] = "max_rounds" => Len(completions[t]) = Turns

SpokenIn(replies) == {k \in DOMAIN replies : replies[k].kind = "spoken"}

\* h is the given dialogue and then what the replies of t said.
Said(given, h, replies, t) ==
  /\ Len(h) = Len(given) + Cardinality(SpokenIn(replies))
  /\ \A i \in DOMAIN given : h[i] = given[i]
  /\ \A k \in SpokenIn(replies) :
       /\ h[Len(given) + Cardinality({j \in SpokenIn(replies) : j <= k})]
            = [character |-> replies[k].character, text |-> replies[k].text]
       /\ replies[k].text[1] = t

\* Every reply is by the character whose turn it was.
InTurn(o, replies) ==
  \A k \in DOMAIN replies :
    replies[k].turn = k - 1 /\ replies[k].character = o[((k - 1) % Len(o)) + 1]

SaidInv ==
  \A t \in Sample :
    Said(Given(episode), history[t], completions[t], t) /\ InTurn(order, completions[t])

EngineInv == EpisodeInv /\ TypeInv /\ LengthsInv /\ SaidInv

(***************************************************************************)
(* One more reply.                                                         *)
(***************************************************************************)

LEMMA SpokenFinite ==
  ASSUME NEW replies \in Seq(ReplyType)
  PROVE  /\ IsFiniteSet(SpokenIn(replies))
         /\ Cardinality(SpokenIn(replies)) \in Nat
         /\ SpokenIn(replies) \subseteq 1..Len(replies)
<1>1. SpokenIn(replies) \subseteq 1..Len(replies) /\ Len(replies) \in Nat
  BY DEF SpokenIn
<1>2. IsFiniteSet(1..Len(replies))
  BY <1>1, FS_Interval
<1> QED BY <1>1, <1>2, FS_Subset, FS_CardinalityType

LEMMA SpokenOfAppend ==
  ASSUME NEW replies \in Seq(ReplyType), NEW r \in ReplyType
  PROVE  SpokenIn(Append(replies, r))
           = IF r.kind = "spoken" THEN SpokenIn(replies) \cup {Len(replies) + 1}
             ELSE SpokenIn(replies)
<1> DEFINE g == Append(replies, r)
           n == Len(replies)
<1>1. /\ n \in Nat /\ Len(g) = n + 1 /\ DOMAIN g = 1..n + 1 /\ DOMAIN replies = 1..n
      /\ \A k \in 1..n : g[k] = replies[k]
      /\ g[n + 1] = r
  OBVIOUS
<1> HIDE DEF g, n
<1>2. SpokenIn(g) = {k \in 1..n + 1 : g[k].kind = "spoken"}
  BY <1>1 DEF SpokenIn
<1>3. SpokenIn(replies) = {k \in 1..n : g[k].kind = "spoken"}
  BY <1>1 DEF SpokenIn
<1>4. 1..n + 1 = (1..n) \cup {n + 1}
  BY <1>1
<1> QED BY <1>1, <1>2, <1>3, <1>4 DEF g, n

\* A reply that says nothing leaves the dialogue.
LEMMA SilentReply ==
  ASSUME NEW given, NEW h, NEW t,
         NEW replies \in Seq(ReplyType), NEW r \in ReplyType, r.kind # "spoken",
         Said(given, h, replies, t)
  PROVE  Said(given, h, Append(replies, r), t)
<1> DEFINE g == Append(replies, r)
<1>1. SpokenIn(g) = SpokenIn(replies)
  BY SpokenOfAppend
<1>2. \A k \in SpokenIn(replies) : g[k] = replies[k]
  BY SpokenFinite
<1> HIDE DEF g
<1>3. Said(given, h, g, t)
  BY <1>1, <1>2 DEF Said
<1> QED BY <1>3 DEF g

\* A reply that says something comes at the end of the dialogue.
LEMMA SpokenReply ==
  ASSUME NEW given \in Seq(TurnType), NEW h \in Seq(TurnType), NEW t, NEW x \in TurnType,
         NEW replies \in Seq(ReplyType), NEW r \in ReplyType, r.kind = "spoken",
         x = [character |-> r.character, text |-> r.text], r.text[1] = t,
         Said(given, h, replies, t)
  PROVE  Said(given, Append(h, x), Append(replies, r), t)
<1> DEFINE g == Append(replies, r)
           f == Append(h, x)
           n == Len(replies)
           m == Len(given)
           S == SpokenIn(replies)
           c == Cardinality(S)
           upTo(k) == {j \in S : j <= k}
<1>1. /\ n \in Nat /\ m \in Nat /\ c \in Nat /\ IsFiniteSet(S) /\ S \subseteq 1..n
      /\ Len(h) = m + c
  BY SpokenFinite DEF Said
<1>2. SpokenIn(g) = S \cup {n + 1}
  BY SpokenOfAppend
<1>3. \A k \in S : g[k] = replies[k]
  BY <1>1
<1>4. g[n + 1] = r
  OBVIOUS
<1>5. Len(f) = m + c + 1 /\ f[m + c + 1] = x /\ \A i \in 1..m + c : f[i] = h[i]
  BY <1>1
<1>6. \A i \in DOMAIN given : h[i] = given[i] /\ i \in 1..m
  BY DEF Said
<1>7. \A k \in S : /\ h[m + Cardinality(upTo(k))]
                        = [character |-> replies[k].character, text |-> replies[k].text]
                   /\ replies[k].text[1] = t
  BY DEF Said
<1> HIDE DEF g, f, n, m, S, c
<1>8. Cardinality(S \cup {n + 1}) = c + 1
  <2>1. n + 1 \notin S
    BY <1>1
  <2> QED BY <1>1, <2>1, FS_AddElement DEF c
<1>9. ASSUME NEW k \in S
      PROVE  /\ {j \in S \cup {n + 1} : j <= k} = upTo(k)
             /\ m + Cardinality(upTo(k)) \in 1..m + c
  <2>1. k \in Nat /\ k <= n
    BY <1>1
  <2>2. {j \in S \cup {n + 1} : j <= k} = upTo(k)
    BY <1>1, <2>1
  <2>3. k \in upTo(k) /\ upTo(k) \in SUBSET S
    BY <2>1
  <2> HIDE DEF upTo
  <2>4. IsFiniteSet(upTo(k)) /\ Cardinality(upTo(k)) <= c
    BY <1>1, <2>3, FS_Subset DEF c
  <2>5. Cardinality(upTo(k)) \in Nat /\ Cardinality(upTo(k)) # 0
    BY <2>3, <2>4, FS_CardinalityType, FS_EmptySet
  <2> QED BY <1>1, <2>2, <2>4, <2>5
<1>10. {j \in S \cup {n + 1} : j <= n + 1} = S \cup {n + 1}
  BY <1>1
<1>11. \A i \in DOMAIN given : f[i] = given[i]
  BY <1>1, <1>5, <1>6
<1>12. ASSUME NEW k \in S \cup {n + 1}
       PROVE  /\ f[m + Cardinality({j \in S \cup {n + 1} : j <= k})]
                   = [character |-> g[k].character, text |-> g[k].text]
              /\ g[k].text[1] = t
  <2>1. CASE k \in S
    <3> DEFINE i == m + Cardinality(upTo(k))
    <3>1. {j \in S \cup {n + 1} : j <= k} = upTo(k) /\ i \in 1..m + c
      BY <1>9, <2>1
    <3>2. h[i] = [character |-> replies[k].character, text |-> replies[k].text]
          /\ replies[k].text[1] = t
      BY <1>7, <2>1
    <3>3. m + Cardinality({j \in S \cup {n + 1} : j <= k}) = i
      BY <3>1
    <3> HIDE DEF upTo, i
    <3>4. f[i] = h[i] /\ g[k] = replies[k]
      BY <1>3, <1>5, <2>1, <3>1
    <3> QED BY <3>2, <3>3, <3>4, Zenon
  <2>2. CASE k = n + 1
    <3>1. Cardinality({j \in S \cup {n + 1} : j <= k}) = c + 1
      BY <1>8, <1>10, <2>2
    <3>2. m + (c + 1) = m + c + 1
      BY <1>1
    <3> QED BY <1>4, <1>5, <2>2, <3>1, <3>2
  <2> QED BY <2>1, <2>2
<1>13. Len(f) = m + Cardinality(S \cup {n + 1})
  BY <1>1, <1>5, <1>8
<1>14. Said(given, f, g, t)
  BY <1>2, <1>11, <1>12, <1>13 DEF Said, m
<1> QED BY <1>14 DEF f, g

LEMMA NextInTurn ==
  ASSUME NEW o, NEW replies \in Seq(ReplyType), NEW r \in ReplyType, InTurn(o, replies),
         r.turn = Len(replies), r.character = o[(Len(replies) % Len(o)) + 1]
  PROVE  InTurn(o, Append(replies, r))
<1> DEFINE g == Append(replies, r)
           n == Len(replies)
<1>1. /\ n \in Nat /\ DOMAIN g = 1..n + 1 /\ DOMAIN replies = 1..n
      /\ \A k \in 1..n : g[k] = replies[k]
      /\ g[n + 1] = r
  OBVIOUS
<1>2. n + 1 - 1 = n
  BY <1>1
<1> HIDE DEF g
<1>3. InTurn(o, g)
  <2> SUFFICES ASSUME NEW k \in 1..n + 1
               PROVE  g[k].turn = k - 1 /\ g[k].character = o[((k - 1) % Len(o)) + 1]
    BY <1>1 DEF InTurn
  <2>1. CASE k \in 1..n
    BY <1>1, <2>1 DEF InTurn
  <2>2. CASE k = n + 1
    BY <1>1, <1>2, <2>2
  <2> QED BY <1>1, <2>1, <2>2
<1> QED BY <1>3 DEF g

(***************************************************************************)
(* The start.                                                              *)
(***************************************************************************)

LEMMA RoundsPositive ==
  ASSUME NEW e, Len(e.characters) \in Nat
  PROVE  PlannedRounds(e) \in Nat \ {0}
BY DialogueAssumption DEF PlannedRounds, RoundsFor

LEMMA InitEpisode == Init => EpisodeInv
<1> SUFFICES ASSUME Init PROVE EpisodeInv
  OBVIOUS
<1> DEFINE chars == episode.characters
           names == ToSet(chars)
<1>1. /\ path \in {"offline", "online"}
      /\ episode \in Record(MaxCharacters, MaxTurns) /\ ValidEpisode(episode)
      /\ order \in CharacterOrders(path, episode)
  BY DEF Init
<1>2. PICK n \in 0..MaxCharacters : chars \in [1..n -> Name]
  BY <1>1 DEF Record, BoundedSeq, SeqOf
<1>3. PICK m \in 0..MaxTurns : episode.speakers \in [1..m -> Name]
  BY <1>1 DEF Record, BoundedSeq, SeqOf
<1>4. n \in Nat /\ m \in Nat
  OBVIOUS
<1>5. chars \in Seq(Name) /\ Len(chars) = n
  BY <1>2, <1>4
<1>6. chars # <<>> /\ IsInjective(chars)
  BY <1>1 DEF ValidEpisode
<1>7. Given(episode) \in Seq(TurnType)
  <2>1. Given(episode) = [i \in 1..m |-> [character |-> episode.speakers[i], text |-> <<"given", i>>]]
    BY <1>3 DEF Given
  <2>2. Given(episode) \in [1..m -> TurnType]
    BY <1>3, <2>1 DEF TurnType
  <2> QED BY <1>4, <2>2
<1>8. order \in Seq(Name) /\ order # <<>> /\ IsInjective(order)
  <2>1. CASE path = "offline"
    BY <1>1, <1>5, <1>6, <2>1 DEF CharacterOrders
  <2>2. CASE path = "online"
    <3> DEFINE c == Cardinality(names)
    <3>1. order \in [1..c -> names] /\ \A i, j \in 1..c : i # j => order[i] # order[j]
      BY <1>1, <2>2 DEF CharacterOrders, SetToSeqs
    <3>2. names \subseteq Name /\ chars[1] \in names
      BY <1>2, <1>5, <1>6 DEF ToSet
    <3>3. IsFiniteSet(names)
      <4>1. chars \in Surjection(1..n, names)
        BY <1>2 DEF Surjection, ToSet
      <4> QED BY <1>4, <4>1, FS_Interval, FS_Surjection
    <3>4. c \in Nat /\ c # 0
      BY <3>2, <3>3, FS_CardinalityType, FS_EmptySet
    <3> HIDE DEF names, c
    <3>5. order \in Seq(Name) /\ Len(order) = c
      BY <3>1, <3>2, <3>4
    <3>6. IsInjective(order)
      BY <3>1 DEF IsInjective
    <3> QED BY <3>4, <3>5, <3>6
  <2> QED BY <1>1, <2>1, <2>2
<1>9. PlannedRounds(episode) \in Nat \ {0}
  BY <1>4, <1>5, RoundsPositive
<1> QED BY <1>1, <1>7, <1>8, <1>9 DEF EpisodeInv

\* A positive number of turns.
LEMMA TurnsPositive ==
  ASSUME EpisodeInv
  PROVE  Characters \in Nat \ {0} /\ Turns \in Nat \ {0} /\ Turns = PlannedRounds(episode) * Characters
<1>1. Characters \in Nat \ {0}
  BY DEF EpisodeInv, Characters
<1> DEFINE p == PlannedRounds(episode)
           c == Characters
<1>2. p \in Nat \ {0} /\ c \in Nat \ {0}
  BY <1>1 DEF EpisodeInv
<1> HIDE DEF p, c
<1>3. p * c \in Nat \ {0}
  BY <1>2
<1> QED BY <1>1, <1>3 DEF Turns, p, c

LEMMA InitEngine == Init => EngineInv
<1> SUFFICES ASSUME Init PROVE EngineInv
  OBVIOUS
<1>1. EpisodeInv
  BY InitEpisode
<1>2. TypeInv
  BY <1>1 DEF Init, TypeInv, EpisodeInv
<1>3. LengthsInv
  BY <1>1, TurnsPositive DEF Init, LengthsInv
<1>4. SaidInv
  <2>1. SpokenIn(<<>>) = {} /\ Cardinality({}) = 0
    BY FS_EmptySet DEF SpokenIn
  <2>2. Len(Given(episode)) \in Nat
    BY <1>1 DEF EpisodeInv
  <2>3. ASSUME NEW t, NEW g, Len(g) \in Nat
        PROVE  Said(g, g, <<>>, t)
    <3> DEFINE z == Cardinality(SpokenIn(<<>>))
    <3>0. z = 0
      BY <2>1
    <3>1. Len(g) = Len(g) + z
      <4> HIDE DEF z
      <4> QED BY <2>3, <3>0
    <3>2. \A k : k \notin SpokenIn(<<>>)
      BY <2>1
    <3> QED BY <3>1, <3>2, Zenon DEF Said
  <2>4. InTurn(order, <<>>)
    BY DEF InTurn
  <2> QED BY <2>2, <2>3, <2>4 DEF Init, SaidInv
<1> QED BY <1>1, <1>2, <1>3, <1>4 DEF EngineInv

(***************************************************************************)
(* What a step of a sample does.                                           *)
(***************************************************************************)

\* It asks again or ends, the former with turns left and as max_rounds with none.
Moves(t, how) ==
  /\ how \in {"asking"} \cup Ended
  /\ status' = [status EXCEPT ![t] = how]
  /\ how = "asking" => Len(completions'[t]) < Turns
  /\ how = "max_rounds" => Len(completions'[t]) = Turns

\* One reply, a turn too if it says something.
Adds(t, kind) ==
  /\ kind \in {"spoken", "empty", "blank"}
  /\ completions' = [completions EXCEPT ![t] = Append(@, Reply(t, kind))]
  /\ history' = [history EXCEPT ![t] = IF kind = "spoken" THEN Append(@, Turn(t)) ELSE @]

LEMMA GoOnMoves ==
  ASSUME NEW t \in Sample, NEW h, GoOn(t, h, completions'[t])
  PROVE  \E how : Moves(t, how)
<1>1. CASE Len(completions'[t]) = Turns /\ Ends(t, "max_rounds")
  BY <1>1 DEF Ends, Moves, Ended
<1>2. CASE \E how \in {"infrastructure_failure", "raised", "context_limit"} : Ends(t, how)
  BY <1>2 DEF Ends, Moves, Ended, Failed
<1>3. CASE Len(completions'[t]) < Turns /\ status' = [status EXCEPT ![t] = "asking"]
  <2>1. Moves(t, "asking")
    BY <1>3 DEF Moves
  <2> QED BY <2>1
<1>4. \/ Len(completions'[t]) = Turns /\ Ends(t, "max_rounds")
      \/ Ends(t, IF path = "offline" THEN "infrastructure_failure" ELSE "raised")
      \/ Ends(t, "context_limit")
      \/ Len(completions'[t]) < Turns /\ status' = [status EXCEPT ![t] = "asking"]
  BY Zenon DEF GoOn
<1> QED BY <1>1, <1>2, <1>3, <1>4

LEMMA TakesAdds ==
  ASSUME NEW t \in Sample, NEW kind \in {"spoken", "empty"}, Takes(t, kind)
  PROVE  Adds(t, kind)
BY DEF Takes, Adds

LEMMA SampleStepShape ==
  ASSUME EngineInv, NEW t \in Sample, SampleStep(t)
  PROVE  /\ UNCHANGED <<path, episode, order, group>>
         /\ \E how : Moves(t, how)
         /\ \/ UNCHANGED <<history, completions>>
            \/ status[t] = "asking" /\ \E kind : Adds(t, kind)
<1>1. CASE Start(t)
  <2>1. UNCHANGED <<path, episode, order, group, history, completions>>
    BY <1>1 DEF Start, fixed
  <2>2. GoOn(t, history[t], completions'[t])
    BY <1>1, <2>1 DEF Start
  <2> QED BY <2>1, <2>2, GoOnMoves
<1>2. CASE AnsweredOffline(t)
  <2>1. UNCHANGED <<path, episode, order, group>> /\ status[t] = "asking"
    BY <1>2 DEF AnsweredOffline, fixed
  <2>2. CASE \E kind \in {"spoken", "empty"} :
               Takes(t, kind) /\ GoOn(t, history'[t], completions'[t])
    BY <2>1, <2>2, TakesAdds, GoOnMoves
  <2>3. CASE /\ completions' = [completions EXCEPT ![t] = Append(@, Reply(t, "blank"))]
             /\ Ends(t, "raised") /\ UNCHANGED <<history, generated>>
    <3>1. history' = [history EXCEPT ![t] = @]
      BY <2>3 DEF EngineInv, TypeInv
    <3>2. Adds(t, "blank")
      BY <2>3, <3>1 DEF Adds
    <3>3. Moves(t, "raised")
      BY <2>3 DEF Ends, Moves, Ended
    <3> QED BY <2>1, <3>2, <3>3
  <2>4. CASE \E wire \in {"result", "mapping"}, fault \in Fault \ {"none"} :
               Ends(t, Verdict(wire, fault)) /\ UNCHANGED <<history, generated, completions>>
    <3>1. PICK wire \in {"result", "mapping"}, fault \in Fault \ {"none"} :
                 Ends(t, Verdict(wire, fault)) /\ UNCHANGED <<history, generated, completions>>
      BY <2>4
    <3>2. Verdict(wire, fault) \in {"infrastructure_failure", "invalid"}
      BY DEF Verdict
    <3>3. Moves(t, Verdict(wire, fault))
      BY <3>1, <3>2 DEF Ends, Moves, Ended, Failed
    <3> QED BY <2>1, <3>1, <3>3
  <2> QED BY <1>2, <2>2, <2>3, <2>4 DEF AnsweredOffline
<1>3. CASE AnsweredOnline(t)
  <2>1. UNCHANGED <<path, episode, order, group>> /\ status[t] = "asking"
    BY <1>3 DEF AnsweredOnline, fixed
  <2>2. CASE Takes(t, "spoken") /\ GoOn(t, history'[t], completions'[t])
    BY <2>1, <2>2, TakesAdds, GoOnMoves
  <2>3. CASE Ends(t, "raised") /\ UNCHANGED <<history, generated, completions>>
    <3>1. Moves(t, "raised")
      BY <2>3 DEF Ends, Moves, Ended
    <3> QED BY <2>1, <2>3, <3>1
  <2> QED BY <1>3, <2>2, <2>3 DEF AnsweredOnline
<1> QED BY <1>1, <1>2, <1>3 DEF SampleStep

(***************************************************************************)
(* Every step keeps the invariant.                                         *)
(***************************************************************************)

LEMMA EpisodeStays ==
  ASSUME EpisodeInv, UNCHANGED <<path, episode, order>>
  PROVE  EpisodeInv' /\ Turns' = Turns
<1>1. Given(episode)' = Given(episode) /\ PlannedRounds(episode)' = PlannedRounds(episode)
  BY Zenon DEF Given, PlannedRounds
<1> QED BY <1>1 DEF EpisodeInv, Turns, Characters

\* What a sample says is a reply and a turn.
LEMMA ReplyTyped ==
  ASSUME EngineInv, NEW t \in Sample, NEW kind \in {"spoken", "empty", "blank"}
  PROVE  /\ Reply(t, kind) \in ReplyType /\ Reply(t, kind).kind = kind
         /\ Reply(t, kind).turn = Len(completions[t])
         /\ Reply(t, kind).character = order[(Len(completions[t]) % Len(order)) + 1]
         /\ Reply(t, kind).text[1] = t
         /\ Turn(t) \in TurnType
         /\ Turn(t) = [character |-> Reply(t, kind).character, text |-> Reply(t, kind).text]
<1> DEFINE n == Len(completions[t])
           m == Len(order)
<1>1. n \in Nat /\ m \in Nat \ {0} /\ order \in [1..m -> Name]
  BY DEF EngineInv, TypeInv, EpisodeInv
<1>2. (n % m) + 1 \in 1..m
  <2> HIDE DEF n, m
  <2>1. n % m \in 0..m - 1
    BY <1>1
  <2> QED BY <1>1, <2>1
<1>3. Speaker(n) = order[(n % m) + 1] /\ Speaker(n) \in Name
  BY <1>1, <1>2 DEF Speaker, Characters
<1> HIDE DEF m
<1>4. /\ Reply(t, kind) = [character |-> Speaker(n), turn |-> n, text |-> <<t, n>>, kind |-> kind]
      /\ Turn(t) = [character |-> Speaker(n), text |-> <<t, n>>]
  BY DEF Reply, Turn
<1> HIDE DEF n
<1>5. Reply(t, kind) \in ReplyType /\ Turn(t) \in TurnType
  BY <1>1, <1>3, <1>4 DEF ReplyType, TurnType
<1>6. /\ Reply(t, kind).kind = kind /\ Reply(t, kind).turn = n
      /\ Reply(t, kind).character = Speaker(n) /\ Reply(t, kind).text = <<t, n>>
  BY <1>4
<1>7. Reply(t, kind).text[1] = t
  BY <1>6
<1> QED BY <1>3, <1>4, <1>5, <1>6, <1>7 DEF n, m

LEMMA SampleStepKeeps ==
  ASSUME EngineInv, NEW t \in Sample, SampleStep(t)
  PROVE  EngineInv'
<1>1. UNCHANGED <<path, episode, order, group>>
  BY SampleStepShape
<1>2. PICK how : Moves(t, how)
  BY SampleStepShape
<1>3. EpisodeInv' /\ Turns' = Turns
  BY <1>1, EpisodeStays DEF EngineInv
<1>4. Given(episode)' = Given(episode) /\ Given(episode) \in Seq(TurnType)
  BY <1>1, Zenon DEF Given, EngineInv, EpisodeInv
<1>5. Turns \in Nat \ {0}
  BY TurnsPositive DEF EngineInv
<1>6. /\ history \in [Sample -> Seq(TurnType)] /\ completions \in [Sample -> Seq(ReplyType)]
      /\ status \in [Sample -> {"created", "asking"} \cup Ended]
  BY DEF EngineInv, TypeInv
<1>7. /\ how \in {"asking"} \cup Ended
      /\ status' = [status EXCEPT ![t] = how]
      /\ how = "asking" => Len(completions'[t]) < Turns
      /\ how = "max_rounds" => Len(completions'[t]) = Turns
  BY <1>2 DEF Moves
<1>8. how # "created" /\ status' \in [Sample -> {"created", "asking"} \cup Ended] /\ status'[t] = how
      /\ \A x \in Sample \ {t} : status'[x] = status[x]
  BY <1>6, <1>7 DEF Ended, Failed
<1>9. CASE UNCHANGED <<history, completions>>
  <2>1. TypeInv'
    BY <1>1, <1>6, <1>8, <1>9 DEF EngineInv, TypeInv
  <2>2. LengthsInv'
    <3> SUFFICES ASSUME NEW x \in Sample
                 PROVE  /\ Len(completions[x]) <= Turns
                        /\ status'[x] = "created" => completions[x] = <<>>
                        /\ status'[x] = "asking" => Len(completions[x]) < Turns
                        /\ status'[x] = "max_rounds" => Len(completions[x]) = Turns
      BY <1>3, <1>9 DEF LengthsInv
    <3> QED BY <1>7, <1>8, <1>9 DEF EngineInv, LengthsInv
  <2>3. SaidInv'
    BY <1>1, <1>4, <1>9 DEF EngineInv, SaidInv
  <2> QED BY <1>3, <2>1, <2>2, <2>3 DEF EngineInv
<1>10. CASE status[t] = "asking" /\ \E kind : Adds(t, kind)
  <2>1. PICK kind \in {"spoken", "empty", "blank"} : Adds(t, kind)
    BY <1>10 DEF Adds
  <2> DEFINE r == Reply(t, kind)
             h == IF kind = "spoken" THEN Append(history[t], Turn(t)) ELSE history[t]
             c == Append(completions[t], r)
  <2>2. r \in ReplyType /\ Turn(t) \in TurnType
    BY ReplyTyped
  <2>3. /\ completions' = [completions EXCEPT ![t] = c]
        /\ history' = [history EXCEPT ![t] = h]
    BY <2>1 DEF Adds
  <2>4. c \in Seq(ReplyType) /\ h \in Seq(TurnType) /\ Len(c) = Len(completions[t]) + 1
    <3> HIDE DEF r
    <3> QED BY <1>6, <2>2
  <2>5. Said(Given(episode), h, c, t) /\ InTurn(order, c)
    <3>1. /\ r.kind = kind /\ r.turn = Len(completions[t])
          /\ r.character = order[(Len(completions[t]) % Len(order)) + 1]
          /\ r.text[1] = t /\ Turn(t) = [character |-> r.character, text |-> r.text]
      BY ReplyTyped
    <3>2. /\ Said(Given(episode), history[t], completions[t], t)
          /\ InTurn(order, completions[t])
      BY DEF EngineInv, SaidInv
    <3>3. completions[t] \in Seq(ReplyType) /\ history[t] \in Seq(TurnType)
      BY <1>6
    <3> HIDE DEF r
    <3>4. InTurn(order, c)
      BY <2>2, <3>1, <3>2, <3>3, NextInTurn
    <3>5. CASE kind = "spoken"
      <4>1. r.kind = "spoken"
        BY <3>1, <3>5
      <4>2. Said(Given(episode), Append(history[t], Turn(t)), Append(completions[t], r), t)
        BY <1>4, <2>2, <3>1, <3>2, <3>3, <4>1, SpokenReply
      <4> QED BY <3>4, <3>5, <4>2
    <3>6. CASE kind # "spoken"
      <4>1. r.kind # "spoken"
        BY <3>1, <3>6
      <4>2. Said(Given(episode), history[t], Append(completions[t], r), t)
        BY <2>2, <3>2, <3>3, <4>1, SilentReply
      <4> QED BY <3>4, <3>6, <4>2
    <3> QED BY <3>4, <3>5, <3>6
  <2> HIDE DEF r, h, c
  <2>6. /\ completions'[t] = c /\ history'[t] = h
        /\ \A x \in Sample \ {t} : completions'[x] = completions[x] /\ history'[x] = history[x]
    BY <1>6, <2>3
  <2>7. TypeInv'
    BY <1>1, <1>6, <1>8, <2>3, <2>4 DEF EngineInv, TypeInv
  <2>8. LengthsInv'
    <3> SUFFICES ASSUME NEW x \in Sample
                 PROVE  /\ Len(completions'[x]) <= Turns
                        /\ status'[x] = "created" => completions'[x] = <<>>
                        /\ status'[x] = "asking" => Len(completions'[x]) < Turns
                        /\ status'[x] = "max_rounds" => Len(completions'[x]) = Turns
      BY <1>3 DEF LengthsInv
    <3>1. CASE x = t
      <4>1. Len(completions[t]) < Turns /\ Len(completions[t]) \in Nat
        BY <1>6, <1>10 DEF EngineInv, LengthsInv
      <4>2. Len(completions'[t]) <= Turns
        BY <1>5, <2>4, <2>6, <4>1
      <4> QED BY <1>7, <1>8, <3>1, <4>2
    <3>2. CASE x # t
      BY <1>8, <2>6, <3>2 DEF EngineInv, LengthsInv
    <3> QED BY <3>1, <3>2
  <2>9. SaidInv'
    <3> SUFFICES ASSUME NEW x \in Sample
                 PROVE  /\ Said(Given(episode), history'[x], completions'[x], x)
                        /\ InTurn(order, completions'[x])
      BY <1>1, <1>4 DEF SaidInv
    <3>1. CASE x = t
      BY <2>5, <2>6, <3>1
    <3>2. CASE x # t
      BY <2>6, <3>2 DEF EngineInv, SaidInv
    <3> QED BY <3>1, <3>2
  <2> QED BY <1>3, <2>7, <2>8, <2>9 DEF EngineInv
<1> QED BY <1>9, <1>10, SampleStepShape

\* The gather reads the samples.
LEMMA GroupStepKeeps ==
  ASSUME EngineInv, UNCHANGED <<path, episode, order, history, completions, status>>,
         group' \in {"running", "returned", "raised"}
  PROVE  EngineInv'
<1>1. EpisodeInv' /\ Turns' = Turns
  BY EpisodeStays DEF EngineInv
<1>2. Given(episode)' = Given(episode)
  BY Zenon DEF Given
<1>3. TypeInv' /\ LengthsInv'
  BY <1>1 DEF EngineInv, TypeInv, LengthsInv
<1>4. SaidInv'
  BY <1>2 DEF EngineInv, SaidInv
<1> QED BY <1>1, <1>3, <1>4 DEF EngineInv

LEMMA NextKeepsEngine == EngineInv /\ [Next]_vars => EngineInv'
<1> SUFFICES ASSUME EngineInv, [Next]_vars PROVE EngineInv'
  OBVIOUS
<1>1. CASE \E t \in Sample : SampleStep(t)
  BY <1>1, SampleStepKeeps
<1>2. CASE GatherRaises \/ GatherReturns
  BY <1>2, GroupStepKeeps DEF GatherRaises, GatherReturns, fixed
<1>3. CASE UNCHANGED vars
  <2>1. group' \in {"running", "returned", "raised"}
    BY <1>3 DEF vars, EngineInv, TypeInv
  <2> QED BY <1>3, <2>1, GroupStepKeeps DEF vars
<1> QED BY <1>1, <1>2, <1>3 DEF Next, Finished

\* The invariant holds of every run of either loop.
THEOREM EngineInvariant == Spec => []EngineInv
BY InitEngine, NextKeepsEngine, PTL DEF Spec

\* Whatever other samples do and whatever fails, the dialogue of a sample is
\* what was given and then, in order, what was said in it, each reply by the
\* character whose turn it was (rollout/engine.py, proxy/agent.py).
THEOREM DialoguesAreWhatWasSaid == Spec => []DialogueIsWhatWasSaid
<1>1. EngineInv => DialogueIsWhatWasSaid
  <2> SUFFICES ASSUME EngineInv, NEW t \in Sample
               PROVE  /\ Said(Given(episode), history[t], completions[t], t)
                      /\ \A k \in DOMAIN completions[t] :
                           /\ completions[t][k].turn = k - 1
                           /\ completions[t][k].character = Speaker(k - 1)
    BY DEF DialogueIsWhatWasSaid, Said, SpokenIn
  <2> QED BY DEF EngineInv, SaidInv, InTurn, Speaker, Characters
<1> QED BY <1>1, EngineInvariant, PTL

(***************************************************************************)
(* Rounds.                                                                 *)
(***************************************************************************)

LEMMA ProductGrows ==
  ASSUME NEW m \in Nat, NEW p \in Int, NEW q \in Int, p >= q + 1
  PROVE  m * p >= m * q + m
<1>1. m * (p - q - 1) >= 0
  OBVIOUS
<1>2. m * (p - q - 1) = m * p - m * q - m
  OBVIOUS
<1>3. m * p \in Int /\ m * q \in Int
  OBVIOUS
<1> QED BY <1>1, <1>2, <1>3

\* Division with remainder has one result.
LEMMA Quotient ==
  ASSUME NEW m \in Nat \ {0}, NEW q \in Nat, NEW r \in 0..m - 1, NEW a \in Nat, a = m * q + r
  PROVE  a \div m = q /\ a % m = r
<1> DEFINE p == a \div m
           s == a % m
<1>1. p \in Int /\ s \in 0..m - 1 /\ a = m * p + s
  OBVIOUS
<1>2. m * p \in Int /\ m * q \in Int
  BY <1>1
<1> HIDE DEF p, s
<1>3. ~(p >= q + 1)
  BY <1>1, <1>2, ProductGrows
<1>4. ~(q >= p + 1)
  BY <1>1, <1>2, ProductGrows
<1>5. p = q
  BY <1>1, <1>3, <1>4
<1>6. s = r
  BY <1>1, <1>2, <1>5
<1> QED BY <1>5, <1>6 DEF p, s

LEMMA QuotientStep ==
  ASSUME NEW m \in Nat \ {0}, NEW n \in Nat
  PROVE  /\ n \div m \in Nat /\ n % m \in 0..m - 1
         /\ n % m < m - 1 => (n + 1) \div m = n \div m /\ (n + 1) % m = (n % m) + 1
         /\ n % m = m - 1 => (n + 1) \div m = n \div m + 1 /\ (n + 1) % m = 0
<1> DEFINE q == n \div m
           r == n % m
<1>1. q \in Nat /\ r \in 0..m - 1 /\ n = m * q + r
  OBVIOUS
<1> HIDE DEF q, r
<1>2. ASSUME r < m - 1
      PROVE  (n + 1) \div m = q /\ (n + 1) % m = r + 1
  <2> DEFINE a == n + 1
             x == r + 1
  <2>1. x \in 0..m - 1 /\ a \in Nat
    BY <1>1, <1>2
  <2>2. a = m * q + x
    BY <1>1
  <2> HIDE DEF a, x
  <2>3. a \div m = q /\ a % m = x
    BY <1>1, <2>1, <2>2, Quotient
  <2> QED BY <2>3 DEF a, x
<1>3. ASSUME r = m - 1
      PROVE  (n + 1) \div m = q + 1 /\ (n + 1) % m = 0
  <2> DEFINE a == n + 1
             p == q + 1
             x == 0
  <2>1. p \in Nat /\ x \in 0..m - 1 /\ a \in Nat
    BY <1>1
  <2>2. a = m * p + x
    BY <1>1, <1>3
  <2> HIDE DEF a, p, x
  <2>3. a \div m = p /\ a % m = x
    BY <2>1, <2>2, Quotient
  <2> QED BY <2>3 DEF a, p, x
<1> QED BY <1>1, <1>2, <1>3 DEF q, r

\* How often place j comes up in n turns of m characters.
Shares(n, m, j) == {k \in 1..n : (k - 1) % m = j}

ShareOf(n, m, j) == n \div m + (IF j < n % m THEN 1 ELSE 0)

LEMMA SmallestElement ==
  ASSUME NEW S \in SUBSET Nat, S # {}
  PROVE  \E m \in S : \A n \in S : m <= n
<1>1. PICK m \in S : \A n \in S : ~ (<<n, m>> \in OpToRel(<, Nat))
  BY NatLessThanWellFounded, WFMin
<1>2. \A n \in S : ~ (n < m)
  BY <1>1 DEF OpToRel
<1> QED BY <1>2

\* Induction over an interval, about a set of numbers.
LEMMA IntervalInduction ==
  ASSUME NEW n \in Nat, NEW P, 0 \in P, \A k \in 0..n : k # n /\ k \in P => k + 1 \in P
  PROVE  0..n \subseteq P
<1> DEFINE Off == {k \in 0..n : k \notin P}
<1> SUFFICES ASSUME Off # {} PROVE FALSE
  OBVIOUS
<1>1. PICK m \in Off : \A k \in Off : m <= k
  <2>1. Off \in SUBSET Nat
    OBVIOUS
  <2> HIDE DEF Off
  <2> QED BY <2>1, SmallestElement
<1>2. m \in 1..n
  BY <1>1
<1> DEFINE k == m - 1
<1>3. k \in 0..n /\ k # n /\ k \notin Off /\ k + 1 = m
  BY <1>1, <1>2
<1>4. k \in P
  BY <1>3
<1> HIDE DEF k
<1>5. k + 1 \in P
  BY <1>3, <1>4
<1> QED BY <1>1, <1>3, <1>5

LEMMA SharesNext ==
  ASSUME NEW m \in Nat \ {0}, NEW j \in 0..m - 1, NEW n \in Nat,
         Cardinality(Shares(n, m, j)) = ShareOf(n, m, j)
  PROVE  Cardinality(Shares(n + 1, m, j)) = ShareOf(n + 1, m, j)
<1> DEFINE q == n \div m
           r == n % m
           S == Shares(n, m, j)
<1>1. /\ q \in Nat /\ r \in 0..m - 1
      /\ r < m - 1 => (n + 1) \div m = q /\ (n + 1) % m = r + 1
      /\ r = m - 1 => (n + 1) \div m = q + 1 /\ (n + 1) % m = 0
  BY QuotientStep
<1>2. IsFiniteSet(S)
  <2>1. S \subseteq 1..n
    BY DEF Shares
  <2>2. IsFiniteSet(1..n)
    BY FS_Interval
  <2> HIDE DEF S
  <2> QED BY <2>1, <2>2, FS_Subset
<1>3. Cardinality(S) = q + (IF j < r THEN 1 ELSE 0)
  BY DEF ShareOf
<1>4. 1..n + 1 = (1..n) \cup {n + 1} /\ n + 1 \notin 1..n /\ (n + 1) - 1 = n
  OBVIOUS
<1>5. Shares(n + 1, m, j) = IF r = j THEN S \cup {n + 1} ELSE S
  BY <1>4 DEF Shares
<1>6. n + 1 \notin S
  BY <1>4 DEF Shares
<1>7. Cardinality(Shares(n + 1, m, j)) = Cardinality(S) + (IF r = j THEN 1 ELSE 0)
  <2> HIDE DEF S
  <2>1. Cardinality(S) \in Nat
    BY <1>2, FS_CardinalityType
  <2> QED BY <1>2, <1>5, <1>6, <2>1, FS_AddElement
<1>8. ShareOf(n + 1, m, j) = (n + 1) \div m + (IF j < (n + 1) % m THEN 1 ELSE 0)
  BY DEF ShareOf
<1> HIDE DEF q, r, S
<1>9. CASE r < m - 1
  BY <1>1, <1>3, <1>7, <1>8, <1>9
<1>10. CASE r = m - 1
  BY <1>1, <1>3, <1>7, <1>8, <1>10
<1> QED BY <1>1, <1>9, <1>10

LEMMA SharesCount ==
  ASSUME NEW m \in Nat \ {0}, NEW j \in 0..m - 1, NEW n \in Nat
  PROVE  Cardinality(Shares(n, m, j)) = ShareOf(n, m, j)
<1> DEFINE P == {k \in Nat : Cardinality(Shares(k, m, j)) = ShareOf(k, m, j)}
<1>1. 0 \in P
  <2>1. Shares(0, m, j) = {}
    BY DEF Shares
  <2>2. 0 \div m = 0 /\ 0 % m = 0
    <3>1. 0 = m * 0 + 0 /\ 0 \in 0..m - 1
      OBVIOUS
    <3> QED BY <3>1, Quotient
  <2>3. ShareOf(0, m, j) = 0
    BY <2>2 DEF ShareOf
  <2> QED BY <2>1, <2>3, FS_EmptySet
<1>2. \A k \in 0..n : k # n /\ k \in P => k + 1 \in P
  BY SharesNext
<1>3. n \in P
  <2> HIDE DEF P
  <2>1. n \in 0..n
    OBVIOUS
  <2> QED BY <1>1, <1>2, <2>1, IntervalInduction
<1> QED BY <1>3

\* The turns of a character are the shares of its place.
LEMMA TurnsAreShares ==
  ASSUME EngineInv, NEW t \in Sample, NEW j \in 0..Characters - 1
  PROVE  TurnsOf(t, order[j + 1]) = ShareOf(Len(completions[t]), Characters, j)
<1> DEFINE n == Len(completions[t])
           m == Characters
<1>1. /\ n \in Nat /\ m \in Nat \ {0} /\ DOMAIN completions[t] = 1..n
      /\ DOMAIN order = 1..m
  BY DEF EngineInv, TypeInv, EpisodeInv, Characters
<1>2. \A k \in 1..n : completions[t][k].character = order[((k - 1) % m) + 1]
  BY <1>1 DEF EngineInv, SaidInv, InTurn, Characters
<1>3. ASSUME NEW k \in 1..n
      PROVE  (completions[t][k].character = order[j + 1]) <=> ((k - 1) % m = j)
  <2> DEFINE x == (k - 1) % m
  <2>1. x \in 0..m - 1
    BY <1>1
  <2>2. x + 1 \in DOMAIN order /\ j + 1 \in DOMAIN order
    BY <1>1, <2>1
  <2>3. order[x + 1] = order[j + 1] => x + 1 = j + 1
    BY <2>2 DEF EngineInv, EpisodeInv, IsInjective
  <2>4. completions[t][k].character = order[x + 1]
    BY <1>2
  <2> HIDE DEF x
  <2>5. (completions[t][k].character = order[j + 1]) <=> (x = j)
    BY <2>1, <2>3, <2>4
  <2> QED BY <2>5 DEF x
<1>4. {k \in 1..n : completions[t][k].character = order[j + 1]} = Shares(n, m, j)
  BY <1>3 DEF Shares
<1>5. Cardinality(Shares(n, m, j)) = ShareOf(n, m, j)
  BY <1>1, SharesCount
<1> QED BY <1>1, <1>4, <1>5 DEF TurnsOf

\* Every trajectory that a task of the engine returns meets its contract and
\* counts exactly the rounds in which every character spoke, wherever it was
\* cut off (rollout/engine.py, contracts.py).
THEOREM ReportsCountWholeRounds == Spec => []ReportsAreWhole
<1>1. ASSUME EngineInv, NEW t \in Sample, status[t] \in Ended \ {"raised"}
      PROVE  LET r == Report(t) IN
             /\ MeetsContract(r, completions[t])
             /\ \A c \in ToSet(order) : TurnsOf(t, c) \in {r.completed, r.completed + 1}
             /\ \E c \in ToSet(order) : TurnsOf(t, c) = r.completed
             /\ r.valid => \A c \in ToSet(order) : TurnsOf(t, c) = r.planned
  <2> DEFINE n == Len(completions[t])
             m == Characters
             p == PlannedRounds(episode)
             q == n \div m
             x == n % m
             done == IF status[t] = "max_rounds" THEN p ELSE q
  <2>1. /\ Report(t).reason = status[t] /\ Report(t).valid = (status[t] = "max_rounds")
        /\ Report(t).truncated = (status[t] \in {"context_limit", "infrastructure_failure"})
        /\ Report(t).planned = p /\ Report(t).completed = done /\ Report(t).count = n
        /\ Report(t).explained = (status[t] # "max_rounds")
    BY DEF Report
  <2>2. /\ m \in Nat \ {0} /\ p \in Nat \ {0} /\ n \in Nat /\ n <= p * m
        /\ status[t] = "max_rounds" => n = p * m
    BY <1>1, TurnsPositive DEF EngineInv, EpisodeInv, TypeInv, LengthsInv
  <2>3. \A j \in 0..m - 1 : TurnsOf(t, order[j + 1]) = q + (IF j < x THEN 1 ELSE 0)
    BY <1>1, TurnsAreShares DEF ShareOf
  <2>4. /\ \A c \in ToSet(order) : \E j \in 0..m - 1 : c = order[j + 1]
        /\ order[(m - 1) + 1] \in ToSet(order)
    <3>1. DOMAIN order = 1..m
      BY <1>1 DEF EngineInv, EpisodeInv, Characters
    <3>2. \A i \in 1..m : i - 1 \in 0..m - 1 /\ (i - 1) + 1 = i
      BY <2>2
    <3>3. (m - 1) + 1 = m /\ m \in 1..m
      BY <2>2
    <3> HIDE DEF m
    <3> QED BY <3>1, <3>2, <3>3 DEF ToSet
  <2>5. q \in Nat /\ x \in 0..m - 1 /\ n = m * q + x
    <3> HIDE DEF n, m
    <3> QED BY <2>2
  <2>6. status[t] = "max_rounds" => q = p /\ x = 0
    <3> SUFFICES ASSUME status[t] = "max_rounds" PROVE q = p /\ x = 0
      OBVIOUS
    <3> HIDE DEF n, m, p
    <3>1. n = m * p + 0 /\ 0 \in 0..m - 1
      BY <2>2
    <3> QED BY <2>2, <3>1, Quotient
  <2>7. q <= p
    <3> HIDE DEF n, m, p, q, x
    <3>1. ~(q >= p + 1)
      <4>1. SUFFICES ASSUME q >= p + 1 PROVE FALSE
        OBVIOUS
      <4>2. m * q >= m * p + m
        BY <2>2, <2>5, <4>1, ProductGrows
      <4>3. m * q \in Int /\ m * p \in Int /\ p * m = m * p
        BY <2>2, <2>5
      <4> QED BY <2>2, <2>5, <4>2, <4>3
    <3> QED BY <2>2, <2>5, <3>1
  <2> HIDE DEF n, m, p, q, x
  <2>8. done = q /\ (status[t] = "max_rounds" => done = p)
    BY <2>6
  <2>9. MeetsContract(Report(t), completions[t])
    BY <2>1, <2>7, <2>8 DEF MeetsContract, n
  <2> HIDE DEF done
  <2>10. \A c \in ToSet(order) : TurnsOf(t, c) \in {done, done + 1}
    BY <2>3, <2>4, <2>5, <2>8
  <2>11. TurnsOf(t, order[(m - 1) + 1]) = done
    BY <2>2, <2>3, <2>5, <2>8
  <2>12. status[t] = "max_rounds" => \A c \in ToSet(order) : TurnsOf(t, c) = p
    BY <2>3, <2>4, <2>5, <2>6, <2>8
  <2> QED BY <2>1, <2>4, <2>9, <2>10, <2>11, <2>12
<1>2. EngineInv => ReportsAreWhole
  BY <1>1 DEF ReportsAreWhole
<1> QED BY <1>2, EngineInvariant, PTL

(***************************************************************************)
(* Folds.  A fold from the left is defined by recursion over the subsets   *)
(* of a domain; the recursion has a solution, and what a solution gives to *)
(* the prefixes of the domain are the steps of the fold.  F is the folded  *)
(* operator as a function of pairs.                                        *)
(***************************************************************************)

LEMMA MaxOfInterval ==
  ASSUME NEW n \in Nat, NEW S \in SUBSET (1..n + 1), n + 1 \in S
  PROVE  Max(S) = n + 1
<1>1. \A y \in S : n + 1 >= y
  OBVIOUS
<1>2. \A x \in S : (\A y \in S : x >= y) => x = n + 1
  <2> SUFFICES ASSUME NEW x \in S, \A y \in S : x >= y PROVE x = n + 1
    OBVIOUS
  <2>1. x >= n + 1 /\ x \in 1..n + 1
    OBVIOUS
  <2> QED BY <2>1
<1> QED BY <1>1, <1>2 DEF Max

LEMMA MaxInside ==
  ASSUME NEW n \in Nat, NEW S \in SUBSET (1..n), S # {}
  PROVE  Max(S) \in S
<1> DEFINE T == {n - x : x \in S}
<1>1. T \in SUBSET Nat /\ T # {}
  <2>1. \A x \in S : n - x \in Nat
    OBVIOUS
  <2> QED BY <2>1
<1> HIDE DEF T
<1>2. PICK y \in T : \A z \in T : y <= z
  BY <1>1, SmallestElement
<1>3. PICK x \in S : y = n - x
  BY DEF T
<1>4. \A z \in S : x >= z
  <2> SUFFICES ASSUME NEW z \in S PROVE x >= z
    OBVIOUS
  <2>1. n - x <= n - z
    BY <1>2, <1>3 DEF T
  <2> QED BY <2>1
<1> QED BY <1>4 DEF Max

FoldSolution(F, base, s, n, g) ==
  \A S \in SUBSET (1..n) :
    g[S] = IF S = {} THEN base ELSE F[<<g[S \ {Max(S)}], s[Max(S)]>>]

Foldable(F, A, base, s, n) == \E g \in [SUBSET (1..n) -> A] : FoldSolution(F, base, s, n, g)

LEMMA FoldableNext ==
  ASSUME NEW A, NEW B, NEW F \in [A \X B -> A], NEW base \in A, NEW s, NEW n \in Nat,
         s[n + 1] \in B, Foldable(F, A, base, s, n)
  PROVE  Foldable(F, A, base, s, n + 1)
<1>1. PICK g \in [SUBSET (1..n) -> A] : FoldSolution(F, base, s, n, g)
  BY DEF Foldable
<1> DEFINE h == [S \in SUBSET (1..n + 1) |->
                   IF n + 1 \in S THEN F[<<g[S \ {n + 1}], s[n + 1]>>] ELSE g[S]]
<1>2. \A S \in SUBSET (1..n + 1) :
        S \ {n + 1} \in SUBSET (1..n) /\ (n + 1 \notin S => S \in SUBSET (1..n))
  OBVIOUS
<1>3. \A S \in SUBSET (1..n) : S \in SUBSET (1..n + 1) /\ n + 1 \notin S /\ h[S] = g[S]
  <2> SUFFICES ASSUME NEW S \in SUBSET (1..n)
               PROVE  S \in SUBSET (1..n + 1) /\ n + 1 \notin S
    BY Zenon
  <2> QED OBVIOUS
<1>4. h \in [SUBSET (1..n + 1) -> A]
  <2> SUFFICES ASSUME NEW S \in SUBSET (1..n + 1)
               PROVE  (IF n + 1 \in S THEN F[<<g[S \ {n + 1}], s[n + 1]>>] ELSE g[S]) \in A
    OBVIOUS
  <2> QED BY <1>2
<1>5. ASSUME NEW S \in SUBSET (1..n + 1)
      PROVE  h[S] = IF S = {} THEN base ELSE F[<<h[S \ {Max(S)}], s[Max(S)]>>]
  <2>1. CASE n + 1 \in S
    <3>1. Max(S) = n + 1
      BY <2>1, MaxOfInterval
    <3>2. h[S] = F[<<g[S \ {n + 1}], s[n + 1]>>]
      BY <2>1
    <3>3. h[S \ {n + 1}] = g[S \ {n + 1}]
      BY <1>2, <1>3
    <3> HIDE DEF h
    <3> QED BY <2>1, <3>1, <3>2, <3>3
  <2>2. CASE n + 1 \notin S
    <3>1. S \in SUBSET (1..n) /\ h[S] = g[S]
      BY <1>2, <1>3, <2>2
    <3>2. g[S] = IF S = {} THEN base ELSE F[<<g[S \ {Max(S)}], s[Max(S)]>>]
      BY <1>1, <3>1 DEF FoldSolution
    <3>3. S \ {Max(S)} \in SUBSET (1..n)
      BY <3>1
    <3>4. h[S \ {Max(S)}] = g[S \ {Max(S)}]
      BY <1>3, <3>3
    <3> HIDE DEF h
    <3> QED BY <3>1, <3>2, <3>4
  <2> QED BY <2>1, <2>2
<1> HIDE DEF h
<1>6. FoldSolution(F, base, s, n + 1, h)
  BY <1>5 DEF FoldSolution
<1> QED BY <1>4, <1>6 DEF Foldable

LEMMA AlwaysFoldable ==
  ASSUME NEW A, NEW B, NEW F \in [A \X B -> A], NEW base \in A, NEW s \in Seq(B)
  PROVE  Foldable(F, A, base, s, Len(s))
<1> DEFINE n == Len(s)
           P == {k \in 0..n : Foldable(F, A, base, s, k)}
<1>1. n \in Nat /\ \A k \in 0..n : k # n => k + 1 \in 0..n /\ k \in Nat /\ s[k + 1] \in B
  OBVIOUS
<1>2. 0 \in P
  <2> DEFINE g == [S \in SUBSET (1..0) |-> base]
  <2>1. \A S \in SUBSET (1..0) : S = {}
    OBVIOUS
  <2>2. g \in [SUBSET (1..0) -> A] /\ \A S \in SUBSET (1..0) : g[S] = base
    OBVIOUS
  <2> HIDE DEF g
  <2>3. FoldSolution(F, base, s, 0, g)
    BY <2>1, <2>2 DEF FoldSolution
  <2>4. Foldable(F, A, base, s, 0)
    BY <2>2, <2>3 DEF Foldable
  <2> QED BY <1>1, <2>4
<1> HIDE DEF n
<1>3. \A k \in 0..n : k # n /\ k \in P => k + 1 \in P
  BY <1>1, FoldableNext
<1>4. n \in P
  <2> HIDE DEF P
  <2>1. n \in 0..n
    BY <1>1
  <2> QED BY <1>1, <1>2, <1>3, <2>1, IntervalInduction
<1> QED BY <1>4 DEF n

\* The prefixes of the domain are the steps.
LEMMA PrefixLemma ==
  ASSUME NEW n \in Nat, NEW k \in 1..n
  PROVE  /\ 1..k \in SUBSET (1..n) /\ 1..k # {}
         /\ Max(1..k) = k /\ (1..k) \ {k} = 1..k - 1
<1> DEFINE j == k - 1
<1>1. j \in Nat /\ j + 1 = k
  OBVIOUS
<1>2. Max(1..j + 1) = j + 1
  <2> HIDE DEF j
  <2> QED BY <1>1, MaxOfInterval
<1> QED BY <1>1, <1>2

\* A fold has one result.
Steps(F, base, s, e) ==
  /\ e[0] = base
  /\ \A k \in 1..Len(s) : e[k] = F[<<e[k - 1], s[k]>>]

LEMMA StepsUnique ==
  ASSUME NEW F, NEW base, NEW s, Len(s) \in Nat, NEW d, NEW e,
         Steps(F, base, s, d), Steps(F, base, s, e)
  PROVE  \A k \in 0..Len(s) : d[k] = e[k]
<1> DEFINE P == {k \in 0..Len(s) : d[k] = e[k]}
<1>1. 0 \in P
  BY DEF Steps
<1>2. \A k \in 0..Len(s) : k # Len(s) /\ k \in P => k + 1 \in P
  <2> SUFFICES ASSUME NEW k \in 0..Len(s), k # Len(s), d[k] = e[k]
               PROVE  k + 1 \in P
    OBVIOUS
  <2>1. k + 1 \in 1..Len(s) /\ (k + 1) - 1 = k
    OBVIOUS
  <2>2. d[k + 1] = F[<<d[k], s[k + 1]>>] /\ e[k + 1] = F[<<e[k], s[k + 1]>>]
    BY <2>1 DEF Steps
  <2> QED BY <2>1, <2>2
<1> HIDE DEF P
<1>3. 0..Len(s) \subseteq P
  BY <1>1, <1>2, IntervalInduction
<1> QED BY <1>3 DEF P

(***************************************************************************)
(* The prompt.                                                             *)
(***************************************************************************)

MessageType == [role : {"system", "user", "assistant"}, turns : Seq(TurnType)]

Messages == {m \in Seq(MessageType) : m # <<>>}

AddF(c) == [p \in Messages \X TurnType |-> AddTurn(p[1], RoleOf(c, p[2]), p[2])]

Joined(s, x) == s \o x.turns

ShowF == [p \in Seq(TurnType) \X MessageType |-> Joined(p[1], p[2])]

\* A turn is added to the last message or as a message of its own.
LEMMA AddTurnTyped ==
  ASSUME NEW m \in Messages, NEW x \in TurnType, NEW role \in {"user", "assistant"}
  PROVE  AddTurn(m, role, x) \in Messages
<1> DEFINE n == Len(m)
<1>1. /\ m \in Seq(MessageType) /\ n \in Nat \ {0} /\ n \in DOMAIN m
      /\ m[n] \in MessageType
  <2>1. m \in Seq(MessageType) /\ n \in Nat \ {0} /\ n \in DOMAIN m
    BY DEF Messages
  <2> QED BY <2>1
<1>2. CASE Last(m).role = role
  <2> DEFINE y == [m[n] EXCEPT !.turns = Append(@, x)]
  <2>1. y \in MessageType
    <3>1. m[n].turns \in Seq(TurnType)
      BY <1>1 DEF MessageType
    <3>2. Append(m[n].turns, x) \in Seq(TurnType)
      BY <3>1
    <3> QED BY <1>1, <3>2 DEF MessageType
  <2>2. AddTurn(m, role, x) = [m EXCEPT ![n] = y]
    BY <1>2 DEF AddTurn
  <2> HIDE DEF y
  <2>3. [m EXCEPT ![n] = y] \in Seq(MessageType) /\ Len([m EXCEPT ![n] = y]) = n
    BY <1>1, <2>1
  <2> QED BY <1>1, <2>2, <2>3 DEF Messages
<1>3. CASE Last(m).role # role
  <2> DEFINE y == [role |-> role, turns |-> <<x>>]
  <2>1. y \in MessageType
    BY DEF MessageType
  <2>2. AddTurn(m, role, x) = Append(m, y)
    BY <1>3 DEF AddTurn
  <2> HIDE DEF y
  <2>3. Append(m, y) \in Seq(MessageType) /\ Append(m, y) # <<>>
    BY <1>1, <2>1
  <2> QED BY <2>2, <2>3 DEF Messages
<1> QED BY <1>2, <1>3

\* A projection is built turn by turn.
LEMMA ProjectionSteps ==
  ASSUME NEW c, NEW h \in Seq(TurnType)
  PROVE  \E e \in [0..Len(h) -> Messages] :
           Steps(AddF(c), <<System>>, h, e) /\ Projection(c, h) = e[Len(h)]
<1> DEFINE n == Len(h)
           Body(g, S) == IF S = {} THEN <<System>>
                         ELSE AddTurn(g[S \ {Max(S)}], RoleOf(c, h[Max(S)]), h[Max(S)])
           IsProjection(g) == g = [S \in SUBSET DOMAIN h |-> Body(g, S)]
<1>1. Projection(c, h) = (CHOOSE g : IsProjection(g))[DOMAIN h]
  BY DEF Projection, FoldLeft, MapThenFoldSet
<1>2. /\ n \in Nat /\ DOMAIN h = 1..n /\ \A k \in 1..n : h[k] \in TurnType
      /\ <<System>> \in Messages
  BY DEF Messages, MessageType, System
<1>3. /\ AddF(c) \in [Messages \X TurnType -> Messages]
      /\ \A m \in Messages, x \in TurnType : AddF(c)[<<m, x>>] = AddTurn(m, RoleOf(c, x), x)
  BY AddTurnTyped DEF AddF, RoleOf
<1>4. \E g : IsProjection(g)
  <2>1. PICK g \in [SUBSET (1..n) -> Messages] : FoldSolution(AddF(c), <<System>>, h, n, g)
    BY <1>2, <1>3, AlwaysFoldable DEF Foldable
  <2>2. ASSUME NEW S \in SUBSET (1..n) PROVE g[S] = Body(g, S)
    <3>1. CASE S = {}
      BY <2>1, <3>1 DEF FoldSolution
    <3>2. CASE S # {}
      <4>1. Max(S) \in S
        BY <1>2, <3>2, MaxInside
      <4>2. g[S \ {Max(S)}] \in Messages /\ h[Max(S)] \in TurnType
        BY <1>2, <2>1, <4>1
      <4>3. g[S] = AddF(c)[<<g[S \ {Max(S)}], h[Max(S)]>>]
        BY <2>1, <3>2 DEF FoldSolution
      <4> QED BY <1>3, <3>2, <4>2, <4>3
    <3> QED BY <3>1, <3>2
  <2>3. g = [S \in SUBSET (1..n) |-> Body(g, S)]
    <3> HIDE DEF Body
    <3> QED BY <2>1, <2>2
  <2> QED BY <1>2, <2>3
<1>5. PICK g : IsProjection(g) /\ Projection(c, h) = g[1..n]
  <2> HIDE DEF IsProjection
  <2> QED BY <1>1, <1>2, <1>4
<1>6. \A S \in SUBSET (1..n) : g[S] = Body(g, S)
  <2>1. g = [S \in SUBSET (1..n) |-> Body(g, S)]
    BY <1>2, <1>5
  <2> HIDE DEF Body
  <2> QED BY <2>1
<1> DEFINE e == [k \in 0..n |-> g[1..k]]
<1>7. e[0] = <<System>> /\ e[n] = Projection(c, h)
  <2>1. 1..0 = {} /\ {} \in SUBSET (1..n)
    OBVIOUS
  <2>2. g[{}] = <<System>>
    BY <1>6, <2>1
  <2>3. e[0] = g[{}]
    BY <1>2, <2>1
  <2> QED BY <1>2, <1>5, <2>2, <2>3
<1>8. \A k \in 1..n : e[k] = AddTurn(e[k - 1], RoleOf(c, h[k]), h[k])
  <2> SUFFICES ASSUME NEW k \in 1..n
               PROVE  g[1..k] = AddTurn(g[1..k - 1], RoleOf(c, h[k]), h[k])
    BY <1>2
  <2> QED BY <1>2, <1>6, PrefixLemma
<1> HIDE DEF e, n
<1>9. \A k \in 0..n : e[k] \in Messages
  <2> DEFINE P == {k \in 0..n : e[k] \in Messages}
  <2>1. 0 \in P
    BY <1>2, <1>7
  <2>2. \A k \in 0..n : k # n /\ k \in P => k + 1 \in P
    <3> SUFFICES ASSUME NEW k \in 0..n, k # n, e[k] \in Messages PROVE e[k + 1] \in Messages
      BY <1>2
    <3> HIDE DEF P
    <3>1. k + 1 \in 1..n /\ (k + 1) - 1 = k
      BY <1>2
    <3>2. e[k + 1] = AddTurn(e[k], RoleOf(c, h[k + 1]), h[k + 1])
      BY <1>8, <3>1
    <3> QED BY <1>2, <3>1, <3>2, AddTurnTyped DEF RoleOf
  <2> HIDE DEF P
  <2>3. 0..n \subseteq P
    BY <1>2, <2>1, <2>2, IntervalInduction
  <2> QED BY <2>3 DEF P
<1>10. Steps(AddF(c), <<System>>, h, e)
  <2> SUFFICES ASSUME NEW k \in 1..n PROVE e[k] = AddF(c)[<<e[k - 1], h[k]>>]
    BY <1>7 DEF Steps, n
  <2>1. e[k - 1] \in Messages
    BY <1>2, <1>9
  <2> QED BY <1>2, <1>3, <1>8, <2>1
<1>11. e \in [0..n -> Messages]
  <2>1. e = [k \in 0..n |-> e[k]]
    BY DEF e
  <2> QED BY <1>9, <2>1
<1> QED BY <1>7, <1>10, <1>11 DEF n

\* The turns a prompt shows are collected message by message.
LEMMA ShownSteps ==
  ASSUME NEW m \in Seq(MessageType)
  PROVE  \E e \in [0..Len(m) -> Seq(TurnType)] :
           Steps(ShowF, <<>>, m, e) /\ TurnsShown(m) = e[Len(m)]
<1> DEFINE n == Len(m)
           A == Seq(TurnType)
           Body(g, S) == IF S = {} THEN <<>> ELSE Joined(g[S \ {Max(S)}], m[Max(S)])
           IsShown(g) == g = [S \in SUBSET DOMAIN m |-> Body(g, S)]
<1>1. TurnsShown(m) = (CHOOSE g : IsShown(g))[DOMAIN m]
  BY DEF TurnsShown, FoldLeft, MapThenFoldSet, Joined
<1>2. /\ n \in Nat /\ DOMAIN m = 1..n
      /\ \A k \in 1..n : m[k] \in MessageType
      /\ <<>> \in A
  OBVIOUS
<1>3. \A s \in A, x \in MessageType : Joined(s, x) \in A
  <2> SUFFICES ASSUME NEW s \in Seq(TurnType), NEW x \in MessageType
               PROVE  s \o x.turns \in Seq(TurnType)
    BY DEF Joined
  <2>1. x.turns \in Seq(TurnType)
    BY DEF MessageType
  <2> QED BY <2>1, ConcatProperties
<1>4. /\ ShowF \in [A \X MessageType -> A]
      /\ \A s \in A, x \in MessageType : ShowF[<<s, x>>] = Joined(s, x)
  BY <1>3 DEF ShowF
<1>5. \E g : IsShown(g)
  <2>1. PICK g \in [SUBSET (1..n) -> A] : FoldSolution(ShowF, <<>>, m, n, g)
    <3> HIDE DEF A
    <3> QED BY <1>2, <1>4, AlwaysFoldable DEF Foldable
  <2>2. ASSUME NEW S \in SUBSET (1..n) PROVE g[S] = Body(g, S)
    <3>1. CASE S = {}
      BY <2>1, <3>1 DEF FoldSolution
    <3>2. CASE S # {}
      <4>1. Max(S) \in S
        BY <1>2, <3>2, MaxInside
      <4>2. g[S \ {Max(S)}] \in A /\ m[Max(S)] \in MessageType
        BY <1>2, <2>1, <4>1
      <4>3. g[S] = ShowF[<<g[S \ {Max(S)}], m[Max(S)]>>]
        BY <2>1, <3>2 DEF FoldSolution
      <4> QED BY <1>4, <3>2, <4>2, <4>3
    <3> QED BY <3>1, <3>2
  <2>3. g = [S \in SUBSET (1..n) |-> Body(g, S)]
    <3> HIDE DEF Body
    <3> QED BY <2>1, <2>2
  <2> QED BY <1>2, <2>3
<1>6. PICK g : IsShown(g) /\ TurnsShown(m) = g[1..n]
  <2> HIDE DEF IsShown
  <2> QED BY <1>1, <1>2, <1>5
<1>7. \A S \in SUBSET (1..n) : g[S] = Body(g, S)
  <2>1. g = [S \in SUBSET (1..n) |-> Body(g, S)]
    BY <1>2, <1>6
  <2> HIDE DEF Body
  <2> QED BY <2>1
<1> DEFINE e == [k \in 0..n |-> g[1..k]]
<1>8. e[0] = <<>> /\ e[n] = TurnsShown(m)
  <2>1. 1..0 = {} /\ {} \in SUBSET (1..n)
    OBVIOUS
  <2>2. g[{}] = <<>>
    BY <1>7, <2>1
  <2>3. e[0] = g[{}]
    BY <1>2, <2>1
  <2> QED BY <1>2, <1>6, <2>2, <2>3
<1>9. \A k \in 1..n : e[k] = Joined(e[k - 1], m[k])
  <2> SUFFICES ASSUME NEW k \in 1..n
               PROVE  g[1..k] = Joined(g[1..k - 1], m[k])
    BY <1>2
  <2> QED BY <1>2, <1>7, PrefixLemma
<1> HIDE DEF e, n, A
<1>10. \A k \in 0..n : e[k] \in A
  <2> DEFINE P == {k \in 0..n : e[k] \in A}
  <2>1. 0 \in P
    BY <1>2, <1>8
  <2>2. \A k \in 0..n : k # n /\ k \in P => k + 1 \in P
    <3> SUFFICES ASSUME NEW k \in 0..n, k # n, e[k] \in A PROVE e[k + 1] \in A
      BY <1>2
    <3> HIDE DEF P
    <3>1. k + 1 \in 1..n /\ (k + 1) - 1 = k
      BY <1>2
    <3>2. e[k + 1] = Joined(e[k], m[k + 1])
      BY <1>9, <3>1
    <3> QED BY <1>2, <1>3, <3>1, <3>2
  <2> HIDE DEF P
  <2>3. 0..n \subseteq P
    BY <1>2, <2>1, <2>2, IntervalInduction
  <2> QED BY <2>3 DEF P
<1>11. Steps(ShowF, <<>>, m, e)
  <2> SUFFICES ASSUME NEW k \in 1..n PROVE e[k] = ShowF[<<e[k - 1], m[k]>>]
    BY <1>8 DEF Steps, n
  <2>1. e[k - 1] \in A
    BY <1>2, <1>10
  <2> HIDE DEF A
  <2> QED BY <1>2, <1>9, <1>4, <2>1
<1>12. e \in [0..n -> A]
  <2>1. e = [k \in 0..n |-> e[k]]
    BY DEF e
  <2> HIDE DEF A
  <2> QED BY <1>10, <2>1
<1> QED BY <1>8, <1>11, <1>12 DEF n, A

\* One more message shows its turns at the end.
LEMMA ShownGrows ==
  ASSUME NEW m \in Seq(MessageType), NEW y \in MessageType
  PROVE  /\ TurnsShown(m) \in Seq(TurnType)
         /\ TurnsShown(Append(m, y)) = TurnsShown(m) \o y.turns
<1> DEFINE n == Len(m)
           f == Append(m, y)
<1>1. /\ n \in Nat /\ f \in Seq(MessageType) /\ Len(f) = n + 1 /\ f[n + 1] = y
      /\ \A k \in 1..n : f[k] = m[k]
  OBVIOUS
<1> HIDE DEF f
<1>2. PICK d \in [0..n -> Seq(TurnType)] : Steps(ShowF, <<>>, m, d) /\ TurnsShown(m) = d[n]
  BY ShownSteps
<1>3. PICK e \in [0..n + 1 -> Seq(TurnType)] :
        Steps(ShowF, <<>>, f, e) /\ TurnsShown(f) = e[n + 1]
  <2>1. \E e \in [0..Len(f) -> Seq(TurnType)] :
          Steps(ShowF, <<>>, f, e) /\ TurnsShown(f) = e[Len(f)]
    BY <1>1, ShownSteps
  <2> HIDE DEF n
  <2> QED BY <1>1, <2>1
<1> HIDE DEF n
<1>4. /\ e[0] = <<>>
      /\ \A k \in 1..n + 1 : e[k] = ShowF[<<e[k - 1], f[k]>>]
  BY <1>1, <1>3 DEF Steps
<1>5. \A k \in 1..n : k \in 1..n + 1
  BY <1>1
<1>6. \A k \in 1..n : e[k] = ShowF[<<e[k - 1], m[k]>>]
  BY <1>1, <1>4, <1>5
<1>7. Steps(ShowF, <<>>, m, e)
  BY <1>4, <1>6 DEF Steps, n
<1>8. d[n] = e[n]
  <2>1. n \in 0..n
    BY <1>1
  <2>2. \A k \in 0..Len(m) : d[k] = e[k]
    BY <1>1, <1>2, <1>7, StepsUnique DEF n
  <2> QED BY <2>1, <2>2 DEF n
<1>9. n + 1 \in 1..n + 1 /\ (n + 1) - 1 = n /\ n \in 0..n + 1 /\ n \in 0..n
  BY <1>1
<1>10. e[n + 1] = ShowF[<<e[n], y>>]
  BY <1>1, <1>4, <1>9
<1>11. <<e[n], y>> \in Seq(TurnType) \X MessageType
  BY <1>3, <1>9
<1>12. e[n + 1] = e[n] \o y.turns
  BY <1>10, <1>11 DEF ShowF, Joined
<1> QED BY <1>2, <1>3, <1>8, <1>9, <1>12 DEF f

\* A turn added is a turn shown, at the end and once.
LEMMA AddShown ==
  ASSUME NEW m \in Messages, NEW x \in TurnType, NEW role \in {"user", "assistant"}
  PROVE  /\ TurnsShown(m) \in Seq(TurnType)
         /\ TurnsShown(AddTurn(m, role, x)) = Append(TurnsShown(m), x)
<1> DEFINE n == Len(m)
           f == [i \in 1..n - 1 |-> m[i]]
           new == [role |-> role, turns |-> <<x>>]
           longer == [m[n] EXCEPT !.turns = Append(@, x)]
<1>1. /\ m \in Seq(MessageType) /\ n \in Nat \ {0}
      /\ DOMAIN m = 1..n /\ \A i \in 1..n : m[i] \in MessageType
  BY DEF Messages
<1>2. new \in MessageType /\ new.turns = <<x>>
  BY DEF MessageType
<1>3. TurnsShown(m) \in Seq(TurnType) /\ TurnsShown(Append(m, new)) = TurnsShown(m) \o <<x>>
  <2> HIDE DEF new
  <2> QED BY <1>1, <1>2, ShownGrows
<1>4. CASE Last(m).role # role
  <2>1. AddTurn(m, role, x) = Append(m, new)
    BY <1>4 DEF AddTurn
  <2> HIDE DEF new
  <2>2. TurnsShown(m) \o <<x>> = Append(TurnsShown(m), x)
    BY <1>3
  <2> QED BY <1>3, <2>1, <2>2
<1>5. CASE Last(m).role = role
  <2>1. m[n] \in MessageType /\ m[n].turns \in Seq(TurnType)
    <3>1. m[n] \in MessageType
      <4> HIDE DEF n
      <4> QED BY <1>1
    <3> QED BY <3>1 DEF MessageType
  <2>2. longer \in MessageType /\ longer.turns = Append(m[n].turns, x)
    <3>1. Append(m[n].turns, x) \in Seq(TurnType)
      BY <2>1
    <3> QED BY <2>1, <3>1 DEF MessageType
  <2>3. AddTurn(m, role, x) = [m EXCEPT ![n] = longer]
    BY <1>5 DEF AddTurn
  <2>4. f \in Seq(MessageType) /\ Len(f) = n - 1
    <3> HIDE DEF n
    <3> QED BY <1>1
  <2>5. ASSUME NEW y \in MessageType PROVE Append(f, y) = [m EXCEPT ![n] = y]
    <3> DEFINE a == Append(f, y)
               b == [m EXCEPT ![n] = y]
    <3>1. a \in Seq(MessageType) /\ Len(a) = n
      <4> HIDE DEF f, n
      <4> QED BY <1>1, <2>4
    <3>2. b \in Seq(MessageType) /\ Len(b) = n
      BY <1>1
    <3>3. \A i \in 1..n : a[i] = b[i]
      <4>1. \A i \in 1..n - 1 : f[i] = m[i]
        OBVIOUS
      <4> HIDE DEF f
      <4>2. \A i \in 1..n : b[i] = IF i = n THEN y ELSE m[i]
        BY <1>1
      <4>3. \A i \in 1..n : a[i] = IF i = n THEN y ELSE f[i]
        <5> HIDE DEF n
        <5> QED BY <1>1, <2>4
      <4> HIDE DEF a, b, n
      <4> QED BY <1>1, <4>1, <4>2, <4>3
    <3> HIDE DEF a, b, n
    <3>4. a = b
      BY <3>1, <3>2, <3>3, SeqEqual
    <3> QED BY <3>4 DEF a, b
  <2>6. m = [m EXCEPT ![n] = m[n]]
    BY <1>1
  <2> HIDE DEF f, longer, n
  <2>7. /\ TurnsShown(f) \in Seq(TurnType)
        /\ TurnsShown(m) = TurnsShown(f) \o m[n].turns
        /\ TurnsShown(AddTurn(m, role, x)) = TurnsShown(f) \o Append(m[n].turns, x)
    <3>1. Append(f, m[n]) = m /\ Append(f, longer) = AddTurn(m, role, x)
      BY <2>1, <2>2, <2>3, <2>5, <2>6
    <3>2. /\ TurnsShown(f) \in Seq(TurnType)
          /\ TurnsShown(Append(f, m[n])) = TurnsShown(f) \o m[n].turns
          /\ TurnsShown(Append(f, longer)) = TurnsShown(f) \o longer.turns
      BY <2>1, <2>2, <2>4, ShownGrows
    <3> QED BY <2>2, <3>1, <3>2
  <2>8. ASSUME NEW r \in Seq(TurnType), NEW s \in Seq(TurnType)
        PROVE  r \o Append(s, x) = Append(r \o s, x)
    OBVIOUS
  <2> QED BY <1>3, <2>1, <2>7, <2>8
<1> QED BY <1>4, <1>5

\* After the system message come turns, under alternating roles, the speaker's
\* own as assistant.
WellFormed(c, m) ==
  /\ m[1].role = "system"
  /\ \A i \in 2..Len(m) :
       /\ m[i].turns # <<>>
       /\ m[i].role # m[i - 1].role
       /\ \A j \in DOMAIN m[i].turns : (m[i].turns[j].character = c) <=> (m[i].role = "assistant")

LEMMA AddTurnWellFormed ==
  ASSUME NEW c, NEW m \in Messages, NEW x \in TurnType, WellFormed(c, m)
  PROVE  WellFormed(c, AddTurn(m, RoleOf(c, x), x))
<1> DEFINE n == Len(m)
           role == RoleOf(c, x)
           new == [role |-> role, turns |-> <<x>>]
           longer == [m[n] EXCEPT !.turns = Append(@, x)]
<1>1. /\ m \in Seq(MessageType) /\ n \in Nat \ {0} /\ DOMAIN m = 1..n
  BY DEF Messages
<1>2. role \in {"user", "assistant"} /\ (x.character = c <=> role = "assistant")
  BY DEF RoleOf
<1>3. /\ m[1].role = "system"
      /\ \A i \in 2..n :
           /\ m[i].turns # <<>>
           /\ m[i].role # m[i - 1].role
           /\ \A j \in DOMAIN m[i].turns : (m[i].turns[j].character = c) <=> (m[i].role = "assistant")
  BY DEF WellFormed
<1>4. CASE m[n].role # role
  <2> DEFINE f == Append(m, new)
  <2>1. AddTurn(m, role, x) = f
    BY <1>4 DEF AddTurn, Last
  <2>2. new.role = role /\ new.turns = <<x>>
    OBVIOUS
  <2> HIDE DEF role, new
  <2>3. Len(f) = n + 1 /\ f[n + 1] = new /\ \A i \in 1..n : f[i] = m[i]
    BY <1>1
  <2> HIDE DEF f, n
  <2>4. f[1].role = "system"
    BY <1>1, <1>3, <2>3
  <2>5. ASSUME NEW i \in 2..n + 1
        PROVE  /\ f[i].turns # <<>>
               /\ f[i].role # f[i - 1].role
               /\ \A j \in DOMAIN f[i].turns : (f[i].turns[j].character = c) <=> (f[i].role = "assistant")
    <3>1. CASE i = n + 1
      <4>1. f[i] = new /\ f[i - 1] = m[n]
        BY <1>1, <2>3, <3>1
      <4>2. \A j \in DOMAIN <<x>> : <<x>>[j] = x
        OBVIOUS
      <4>3. f[i].turns = <<x>> /\ f[i].role = role /\ f[i - 1].role = m[n].role /\ <<x>> # <<>>
        BY <2>2, <4>1
      <4> HIDE DEF n
      <4>4. \A j \in DOMAIN f[i].turns : f[i].turns[j] = x
        BY <4>2, <4>3, Zenon
      <4> QED BY <1>2, <1>4, <4>3, <4>4, Zenon
    <3>2. CASE i # n + 1
      <4>1. i \in 2..n /\ f[i] = m[i] /\ f[i - 1] = m[i - 1]
        BY <1>1, <2>3, <3>2
      <4> QED BY <1>3, <4>1
    <3> QED BY <3>1, <3>2
  <2>6. WellFormed(c, f)
    BY <2>3, <2>4, <2>5 DEF WellFormed
  <2> QED BY <2>1, <2>6 DEF role
<1>5. CASE m[n].role = role
  <2> DEFINE f == [m EXCEPT ![n] = longer]
  <2>1. AddTurn(m, role, x) = f
    BY <1>5 DEF AddTurn, Last
  <2>2. m[n] \in MessageType
    <3> HIDE DEF n
    <3> QED BY <1>1
  <2>3. longer.role = role /\ longer.turns = Append(m[n].turns, x) /\ m[n].turns \in Seq(TurnType)
    BY <1>5, <2>2 DEF MessageType
  <2> HIDE DEF role, longer
  <2>4. Len(f) = n /\ \A i \in 1..n : f[i] = IF i = n THEN longer ELSE m[i]
    BY <1>1
  <2> HIDE DEF f, n
  <2>5. n \in 2..n
    BY <1>1, <1>2, <1>3, <1>5
  <2>6. f[1].role = "system"
    BY <1>1, <1>3, <2>4, <2>5
  <2>7. ASSUME NEW i \in 2..n
        PROVE  /\ f[i].turns # <<>>
               /\ f[i].role # f[i - 1].role
               /\ \A j \in DOMAIN f[i].turns : (f[i].turns[j].character = c) <=> (f[i].role = "assistant")
    <3>1. i \in 1..n /\ i - 1 \in 1..n /\ i - 1 # n
      BY <1>1
    <3>2. f[i - 1] = m[i - 1]
      BY <2>4, <3>1
    <3>3. CASE i = n
      <4> DEFINE s == m[n].turns
      <4>1. f[i] = longer
        BY <2>4, <3>1, <3>3
      <4>2. \A j \in DOMAIN s : (s[j].character = c) <=> (role = "assistant")
        BY <1>3, <1>5, <2>5
      <4> HIDE DEF s
      <4>3. s \in Seq(TurnType) /\ longer.turns = Append(s, x)
        BY <2>3 DEF s
      <4>4. /\ Append(s, x) # <<>>
            /\ \A j \in DOMAIN Append(s, x) :
                 Append(s, x)[j] = x \/ (j \in DOMAIN s /\ Append(s, x)[j] = s[j])
        BY <4>3
      <4>5. m[i].role # m[i - 1].role
        BY <1>3
      <4> QED BY <1>2, <1>5, <2>3, <3>2, <3>3, <4>1, <4>2, <4>3, <4>4, <4>5
    <3>4. CASE i # n
      <4>1. f[i] = m[i]
        BY <2>4, <3>1, <3>4
      <4> QED BY <1>3, <3>2, <4>1
    <3> QED BY <3>3, <3>4
  <2>8. WellFormed(c, f)
    BY <2>4, <2>6, <2>7 DEF WellFormed
  <2> QED BY <2>1, <2>8 DEF role
<1> QED BY <1>4, <1>5

\* A projection is well formed and shows the dialogue, every turn once.
LEMMA ProjectionShows ==
  ASSUME NEW c, NEW h \in Seq(TurnType)
  PROVE  /\ Projection(c, h) \in Messages
         /\ WellFormed(c, Projection(c, h))
         /\ TurnsShown(Projection(c, h)) = h
<1> DEFINE n == Len(h)
<1>1. PICK e \in [0..n -> Messages] :
        Steps(AddF(c), <<System>>, h, e) /\ Projection(c, h) = e[n]
  BY ProjectionSteps
<1>2. /\ n \in Nat /\ n \in 0..n
      /\ \A k \in 0..n : k # n => k + 1 \in 1..n /\ (k + 1) - 1 = k
      /\ \A k \in 1..n : h[k] \in TurnType
  OBVIOUS
<1>3. /\ e[0] = <<System>>
      /\ \A k \in 0..n : k # n => e[k + 1] = AddTurn(e[k], RoleOf(c, h[k + 1]), h[k + 1])
  <2>1. /\ e[0] = <<System>>
        /\ \A k \in 1..n : e[k] = AddF(c)[<<e[k - 1], h[k]>>]
    BY <1>1 DEF Steps
  <2>2. \A p \in Messages \X TurnType : AddF(c)[p] = AddTurn(p[1], RoleOf(c, p[2]), p[2])
    BY DEF AddF
  <2> HIDE DEF n
  <2> QED BY <1>1, <1>2, <2>1, <2>2
\* The first k turns are shown.
<1> DEFINE Shows(s, k) == s \in Seq(TurnType) /\ Len(s) = k /\ \A i \in 1..k : s[i] = h[i]
           P == {k \in 0..n : WellFormed(c, e[k]) /\ Shows(TurnsShown(e[k]), k)}
<1>4. 0 \in P
  <2>1. System \in MessageType /\ System.turns = <<>> /\ System.role = "system"
    BY DEF System, MessageType
  <2>2. TurnsShown(<<>>) = <<>>
    <3>1. PICK d : Steps(ShowF, <<>>, <<>>, d) /\ TurnsShown(<<>>) = d[Len(<<>>)]
      <4>1. <<>> \in Seq(MessageType)
        OBVIOUS
      <4> QED BY <4>1, ShownSteps, Zenon
    <3>2. Len(<<>>) = 0
      OBVIOUS
    <3> QED BY <3>1, <3>2 DEF Steps
  <2>3. TurnsShown(<<System>>) = <<>>
    <3>1. <<>> \in Seq(MessageType) /\ Append(<<>>, System) = <<System>> /\ <<>> \o <<>> = <<>>
      OBVIOUS
    <3> QED BY <2>1, <2>2, <3>1, ShownGrows
  <2>4. WellFormed(c, <<System>>)
    <3>1. Len(<<System>>) = 1 /\ <<System>>[1] = System /\ 2..1 = {}
      OBVIOUS
    <3> QED BY <2>1, <3>1 DEF WellFormed
  <2>5. Shows(<<>>, 0)
    OBVIOUS
  <2> HIDE DEF Shows, n
  <2>6. 0 \in 0..n
    BY <1>2
  <2> QED BY <1>3, <2>3, <2>4, <2>5, <2>6
<1>5. \A k \in 0..n : k # n /\ k \in P => k + 1 \in P
  <2> SUFFICES ASSUME NEW k \in 0..n, k # n, k \in P PROVE k + 1 \in P
    OBVIOUS
  <2> DEFINE x == h[k + 1]
             s == TurnsShown(e[k])
  <2>1. WellFormed(c, e[k]) /\ Shows(s, k)
    OBVIOUS
  <2>2. /\ x \in TurnType /\ e[k] \in Messages /\ k + 1 \in 0..n /\ k \in Nat
        /\ e[k + 1] = AddTurn(e[k], RoleOf(c, x), x)
    <3> HIDE DEF P, Shows, n
    <3> QED BY <1>2, <1>3
  <2>3. RoleOf(c, x) \in {"user", "assistant"}
    BY DEF RoleOf
  <2> HIDE DEF Shows, x, s, n, P
  <2>4. WellFormed(c, e[k + 1])
    BY <2>1, <2>2, AddTurnWellFormed
  <2>5. TurnsShown(e[k + 1]) = Append(s, x)
    BY <2>2, <2>3, AddShown DEF s
  <2>6. Shows(Append(s, x), k + 1)
    <3>1. s \in Seq(TurnType) /\ Len(s) = k /\ \A i \in 1..k : s[i] = h[i]
      BY <2>1 DEF Shows
    <3>2. /\ Append(s, x) \in Seq(TurnType) /\ Len(Append(s, x)) = k + 1
          /\ \A i \in 1..k + 1 : Append(s, x)[i] = IF i = k + 1 THEN x ELSE s[i]
      BY <2>2, <3>1
    <3>3. \A i \in 1..k + 1 : i # k + 1 => i \in 1..k
      BY <2>2
    <3>4. \A i \in 1..k + 1 : Append(s, x)[i] = h[i]
      BY <3>1, <3>2, <3>3 DEF x
    <3> QED BY <3>2, <3>4 DEF Shows
  <2> QED BY <2>2, <2>4, <2>5, <2>6 DEF P
<1>6. n \in P
  <2> HIDE DEF P, n
  <2> QED BY <1>2, <1>4, <1>5, IntervalInduction
<1>7. TurnsShown(e[n]) = h
  <2> DEFINE s == TurnsShown(e[n])
  <2>1. s \in Seq(TurnType) /\ Len(s) = Len(h) /\ \A i \in 1..Len(s) : s[i] = h[i]
    BY <1>6
  <2> HIDE DEF s
  <2>2. s = h
    BY <2>1, SeqEqual
  <2> QED BY <2>2 DEF s
<1>8. WellFormed(c, e[n])
  BY <1>6
<1> HIDE DEF n
<1> QED BY <1>1, <1>2, <1>7, <1>8

\* The prompt of a request after these replies.
PromptOf(o, h, replies) == Projection(o[(Len(replies) % Len(o)) + 1], h)

PromptInv ==
  /\ prompt = [t \in Sample |-> prompt[t]]
  /\ \A t \in Sample :
       status[t] = "asking" => prompt[t] = PromptOf(order, history[t], completions[t])

\* A loop that goes on asks with the dialogue as it is then.
LEMMA GoOnPrompts ==
  ASSUME EngineInv, NEW t \in Sample, NEW h, UNCHANGED order, GoOn(t, h, completions'[t])
  PROVE  \E v : /\ prompt' = [prompt EXCEPT ![t] = v]
                /\ status'[t] = "asking" => v = PromptOf(order, h, completions'[t])
<1> DEFINE p == Projection(Speaker(Len(completions'[t])), h)
<1>1. p = PromptOf(order, h, completions'[t])
  BY DEF PromptOf, Speaker, Characters
<1>2. status \in [Sample -> {"created", "asking"} \cup Ended]
  BY DEF EngineInv, TypeInv
<1>3. ASSUME NEW how, how # "asking", Ends(t, how)
      PROVE  prompt' = [prompt EXCEPT ![t] = <<>>] /\ status'[t] # "asking"
  BY <1>2, <1>3 DEF Ends
<1>4. \/ \E how \in {"max_rounds", "infrastructure_failure", "raised", "context_limit"} : Ends(t, how)
      \/ prompt' = [prompt EXCEPT ![t] = p]
  BY Zenon DEF GoOn
<1>5. CASE \E how \in {"max_rounds", "infrastructure_failure", "raised", "context_limit"} : Ends(t, how)
  BY <1>3, <1>5
<1> HIDE DEF p
<1>6. CASE prompt' = [prompt EXCEPT ![t] = p]
  BY <1>1, <1>6
<1> QED BY <1>4, <1>5, <1>6

LEMMA SampleStepPrompts ==
  ASSUME EngineInv, NEW t \in Sample, SampleStep(t)
  PROVE  \E v : /\ prompt' = [prompt EXCEPT ![t] = v]
                /\ status'[t] = "asking" => v = PromptOf(order, history'[t], completions'[t])
<1>1. UNCHANGED order
  BY SampleStepShape
<1>2. status \in [Sample -> {"created", "asking"} \cup Ended]
  BY DEF EngineInv, TypeInv
<1>3. \/ GoOn(t, history'[t], completions'[t])
      \/ \E how \in {"raised", "infrastructure_failure", "invalid"} : Ends(t, how)
  <2>1. CASE Start(t)
    BY <2>1, Zenon DEF Start
  <2>2. CASE AnsweredOffline(t)
    <3>1. \A wire \in {"result", "mapping"}, fault \in Fault \ {"none"} :
            Verdict(wire, fault) \in {"infrastructure_failure", "invalid"}
      BY DEF Verdict
    <3> QED BY <2>2, <3>1, Zenon DEF AnsweredOffline
  <2>3. CASE AnsweredOnline(t)
    BY <2>3, Zenon DEF AnsweredOnline
  <2> QED BY <2>1, <2>2, <2>3 DEF SampleStep
<1>4. CASE GoOn(t, history'[t], completions'[t])
  BY <1>1, <1>4, GoOnPrompts
<1>5. CASE \E how \in {"raised", "infrastructure_failure", "invalid"} : Ends(t, how)
  <2>1. prompt' = [prompt EXCEPT ![t] = <<>>] /\ status'[t] # "asking"
    BY <1>2, <1>5 DEF Ends
  <2> QED BY <2>1
<1> QED BY <1>3, <1>4, <1>5

LEMMA NextKeepsPrompts == EngineInv /\ PromptInv /\ [Next]_vars => PromptInv'
<1> SUFFICES ASSUME EngineInv, PromptInv, [Next]_vars PROVE PromptInv'
  OBVIOUS
<1>1. ASSUME NEW t \in Sample, SampleStep(t) PROVE PromptInv'
  <2>1. PICK v : /\ prompt' = [prompt EXCEPT ![t] = v]
                 /\ status'[t] = "asking" => v = PromptOf(order, history'[t], completions'[t])
    BY <1>1, SampleStepPrompts
  <2>2. order' = order
    BY <1>1, SampleStepShape
  <2>3. /\ prompt' = [x \in Sample |-> prompt'[x]]
        /\ prompt'[t] = v /\ \A x \in Sample \ {t} : prompt'[x] = prompt[x]
    BY <2>1 DEF PromptInv
  <2>4. \A x \in Sample \ {t} :
          status'[x] = status[x] /\ history'[x] = history[x] /\ completions'[x] = completions[x]
    <3>1. /\ status \in [Sample -> {"created", "asking"} \cup Ended]
          /\ history \in [Sample -> Seq(TurnType)] /\ completions \in [Sample -> Seq(ReplyType)]
      BY DEF EngineInv, TypeInv
    <3>2. PICK how : Moves(t, how)
      BY <1>1, SampleStepShape
    <3>3. \A x \in Sample \ {t} : status'[x] = status[x]
      BY <3>1, <3>2 DEF Moves
    <3>4. CASE UNCHANGED <<history, completions>>
      BY <3>3, <3>4
    <3>5. CASE \E kind : Adds(t, kind)
      BY <3>1, <3>3, <3>5 DEF Adds
    <3> QED BY <1>1, <3>4, <3>5, SampleStepShape
  <2>5. ASSUME NEW x \in Sample, status'[x] = "asking"
        PROVE  prompt'[x] = PromptOf(order', history'[x], completions'[x])
    <3>1. CASE x = t
      BY <2>1, <2>2, <2>3, <2>5, <3>1
    <3>2. CASE x # t
      BY <2>2, <2>3, <2>4, <2>5, <3>2 DEF PromptInv
    <3> QED BY <3>1, <3>2
  <2> QED BY <2>3, <2>5 DEF PromptInv
<1>2. CASE UNCHANGED <<order, history, completions, prompt, status>>
  BY <1>2 DEF PromptInv
<1>3. (GatherRaises \/ GatherReturns \/ UNCHANGED vars)
        => UNCHANGED <<order, history, completions, prompt, status>>
  BY DEF GatherRaises, GatherReturns, fixed, vars
<1> QED BY <1>1, <1>2, <1>3 DEF Next, Finished

\* Whoever is asked for a turn sees the whole dialogue up to then, in order and
\* once, its own turns as assistant and those of others as user, no two
\* neighbouring messages of one role: in the engine and in the agent's loop
\* (episodes.py, rollout/engine.py, proxy/agent.py).
THEOREM PromptsShowTheDialogue == Spec => []PromptShowsDialogue
<1>1. Init => PromptInv
  BY DEF Init, PromptInv
<1>2. EngineInv /\ PromptInv => PromptShowsDialogue
  <2> SUFFICES ASSUME EngineInv, PromptInv, NEW t \in Sample, status[t] = "asking"
               PROVE  LET m == prompt[t] IN
                      /\ Head(m).role = "system"
                      /\ TurnsShown(m) = history[t]
                      /\ \A i \in 2..Len(m) :
                           /\ m[i].turns # <<>>
                           /\ m[i].role # m[i - 1].role
                           /\ \A j \in DOMAIN m[i].turns :
                                (m[i].turns[j].character = Speaker(Len(completions[t])))
                                  <=> (m[i].role = "assistant")
    BY DEF PromptShowsDialogue
  <2> DEFINE m == prompt[t]
             c == Speaker(Len(completions[t]))
  <2>1. m = Projection(c, history[t])
    BY DEF PromptInv, PromptOf, Speaker, Characters
  <2>2. history[t] \in Seq(TurnType)
    BY DEF EngineInv, TypeInv
  <2> HIDE DEF m, c
  <2>3. m \in Messages /\ WellFormed(c, m) /\ TurnsShown(m) = history[t]
    BY <2>1, <2>2, ProjectionShows
  <2>4. Head(m) = m[1]
    BY <2>3 DEF Messages
  <2> QED BY <2>3, <2>4 DEF WellFormed, m, c
<1> QED BY <1>1, <1>2, NextKeepsPrompts, EngineInvariant, PTL DEF Spec

(***************************************************************************)
(* The reward requests.                                                    *)
(***************************************************************************)

\* The agent's replies all say something: it refuses any other.
SpokenInv == path = "online" => \A t \in Sample : SpokenIn(completions[t]) = DOMAIN completions[t]

LEMMA OnlineStepSpeaks ==
  ASSUME EngineInv, SpokenInv, path = "online", NEW t \in Sample, SampleStep(t)
  PROVE  completions' = completions \/ completions' = [completions EXCEPT ![t] = Append(@, Reply(t, "spoken"))]
<1>1. CASE Start(t)
  BY <1>1 DEF Start
<1>2. CASE AnsweredOffline(t)
  BY <1>2 DEF AnsweredOffline
<1>3. CASE AnsweredOnline(t)
  BY <1>3, Zenon DEF AnsweredOnline, Takes
<1> QED BY <1>1, <1>2, <1>3 DEF SampleStep

LEMMA NextKeepsSpoken == EngineInv /\ SpokenInv /\ [Next]_vars => SpokenInv'
<1> SUFFICES ASSUME EngineInv, SpokenInv, [Next]_vars, path' = "online", NEW t \in Sample
             PROVE  SpokenIn(completions'[t]) = DOMAIN completions'[t]
  BY DEF SpokenInv, SpokenIn
<1>1. ASSUME NEW x \in Sample, SampleStep(x)
      PROVE  SpokenIn(completions'[t]) = DOMAIN completions'[t]
  <2>1. path = "online"
    BY <1>1, SampleStepShape
  <2>2. SpokenIn(completions[t]) = DOMAIN completions[t] /\ completions \in [Sample -> Seq(ReplyType)]
    BY <2>1 DEF SpokenInv, EngineInv, TypeInv
  <2>3. CASE completions' = completions
    BY <2>2, <2>3
  <2>4. CASE completions' = [completions EXCEPT ![x] = Append(@, Reply(x, "spoken"))]
    <3> DEFINE r == Reply(x, "spoken")
               c == completions[t]
    <3>1. r \in ReplyType /\ r.kind = "spoken"
      BY ReplyTyped
    <3> HIDE DEF r
    <3>2. CASE t = x
      <4>1. completions'[t] = Append(c, r)
        BY <2>2, <2>4, <3>2 DEF r
      <4>2. SpokenIn(Append(c, r)) = DOMAIN c \cup {Len(c) + 1}
        BY <2>2, <3>1, SpokenOfAppend
      <4>3. c \in Seq(ReplyType)
        BY <2>2
      <4> HIDE DEF c
      <4>4. DOMAIN Append(c, r) = 1..Len(c) + 1 /\ DOMAIN c = 1..Len(c) /\ Len(c) \in Nat
        BY <4>3
      <4> QED BY <4>1, <4>2, <4>4
    <3>3. CASE t # x
      <4>1. completions'[t] = completions[t]
        BY <2>2, <2>4, <3>3
      <4> QED BY <2>2, <4>1
    <3> QED BY <3>2, <3>3
  <2> QED BY <1>1, <2>1, <2>3, <2>4, OnlineStepSpeaks
<1>2. CASE UNCHANGED <<path, completions>>
  BY <1>2 DEF SpokenInv
<1>3. (GatherRaises \/ GatherReturns \/ UNCHANGED vars) => UNCHANGED <<path, completions>>
  BY DEF GatherRaises, GatherReturns, fixed, vars
<1> QED BY <1>1, <1>2, <1>3 DEF Next, Finished

\* The agent keeps each turn twice, in the dialogue and in the list of generated
\* turns, which is that dialogue without the given one.
GeneratedInv ==
  /\ generated \in [Sample -> Seq(TurnType)]
  /\ path = "online" => \A t \in Sample : history[t] = Given(episode) \o generated[t]

LEMMA InitGenerated == Init => GeneratedInv
<1> SUFFICES ASSUME Init PROVE GeneratedInv
  OBVIOUS
<1>1. generated = [t \in Sample |-> <<>>] /\ history = [t \in Sample |-> Given(episode)]
  BY DEF Init
<1>2. Given(episode) \in Seq(TurnType)
  BY InitEpisode DEF EpisodeInv
<1>3. Given(episode) \o <<>> = Given(episode)
  BY <1>2, ConcatEmptySeq
<1>4. generated \in [Sample -> Seq(TurnType)]
  BY <1>1
<1>5. ASSUME NEW t \in Sample PROVE history[t] = Given(episode) \o generated[t]
  <2>1. history[t] = Given(episode) /\ generated[t] = <<>>
    BY <1>1, Zenon
  <2> QED BY <1>3, <2>1
<1> QED BY <1>4, <1>5 DEF GeneratedInv

\* A step that says something says it in both places, any other in neither.
LEMMA OnlineStepGenerates ==
  ASSUME path = "online", NEW t \in Sample, SampleStep(t)
  PROVE  \/ UNCHANGED <<history, generated>>
         \/ /\ history' = [history EXCEPT ![t] = Append(@, Turn(t))]
            /\ generated' = [generated EXCEPT ![t] = Append(@, Turn(t))]
<1>1. CASE Start(t)
  BY <1>1 DEF Start
<1>2. CASE AnsweredOffline(t)
  BY <1>2 DEF AnsweredOffline
<1>3. CASE AnsweredOnline(t)
  BY <1>3, Zenon DEF AnsweredOnline, Takes, Generates
<1> QED BY <1>1, <1>2, <1>3 DEF SampleStep

\* The engine fills no such list.
LEMMA OfflineStepGeneratesNothing ==
  ASSUME path = "offline", generated \in [Sample -> Seq(TurnType)],
         NEW t \in Sample, SampleStep(t)
  PROVE  generated' = generated
<1>1. CASE Start(t)
  BY <1>1 DEF Start
<1>2. CASE AnsweredOffline(t)
  <2>1. \A x \in Sample : generated' = [generated EXCEPT ![x] = @] => generated' = generated
    OBVIOUS
  <2>2. (\E kind : Takes(t, kind)) \/ UNCHANGED generated
    BY <1>2, Zenon DEF AnsweredOffline
  <2> QED BY <2>1, <2>2 DEF Takes, Generates
<1>3. CASE AnsweredOnline(t)
  BY <1>3 DEF AnsweredOnline
<1> QED BY <1>1, <1>2, <1>3 DEF SampleStep

LEMMA NextKeepsGenerated == EngineInv /\ GeneratedInv /\ [Next]_vars => GeneratedInv'
<1> SUFFICES ASSUME EngineInv, GeneratedInv, [Next]_vars PROVE GeneratedInv'
  OBVIOUS
<1> DEFINE given == Given(episode)
<1>1. /\ given \in Seq(TurnType) /\ path \in {"offline", "online"}
      /\ history \in [Sample -> Seq(TurnType)] /\ generated \in [Sample -> Seq(TurnType)]
      /\ path = "online" => \A t \in Sample : history[t] = given \o generated[t]
  BY DEF EngineInv, EpisodeInv, TypeInv, GeneratedInv
<1>2. UNCHANGED <<path, episode>> => given' = given
  BY Zenon DEF Given
<1>3. CASE UNCHANGED <<path, episode, history, generated>>
  BY <1>2, <1>3 DEF GeneratedInv
<1>4. ASSUME NEW x \in Sample, SampleStep(x)
      PROVE  GeneratedInv'
  <2>1. UNCHANGED <<path, episode>>
    BY <1>4, SampleStepShape
  <2>2. CASE path = "offline"
    <3>1. generated' = generated
      BY <1>1, <1>4, <2>2, OfflineStepGeneratesNothing
    <3> QED BY <1>1, <2>1, <2>2, <3>1 DEF GeneratedInv
  <2>3. CASE path = "online" /\ UNCHANGED <<history, generated>>
    BY <1>3, <2>1, <2>3
  <2>4. CASE /\ path = "online"
             /\ history' = [history EXCEPT ![x] = Append(@, Turn(x))]
             /\ generated' = [generated EXCEPT ![x] = Append(@, Turn(x))]
    <3> DEFINE u == Turn(x)
    <3>1. u \in TurnType
      BY ReplyTyped
    <3> HIDE DEF u, given
    <3>2. \A s \in Seq(TurnType) : Append(s, u) \in Seq(TurnType)
      BY <3>1
    <3>3. generated' \in [Sample -> Seq(TurnType)]
      <4>1. generated[x] \in Seq(TurnType) /\ Append(generated[x], u) \in Seq(TurnType)
        BY <1>1, <3>2
      <4>2. generated' = [generated EXCEPT ![x] = Append(generated[x], u)]
        BY <2>4 DEF u
      <4> QED BY <1>1, <4>1, <4>2
    <3>4. ASSUME NEW s \in Seq(TurnType) PROVE Append(given \o s, u) = given \o Append(s, u)
      <4>1. <<u>> \in Seq(TurnType) /\ given \o s \in Seq(TurnType)
        BY <1>1, <3>1
      <4>2. Append(given \o s, u) = (given \o s) \o <<u>> /\ Append(s, u) = s \o <<u>>
        BY <3>1, <4>1, AppendIsConcat
      <4> QED BY <1>1, <4>1, <4>2, ConcatAssociative
    <3>5. ASSUME NEW t \in Sample PROVE history'[t] = given \o generated'[t]
      <4>1. history[t] = given \o generated[t] /\ generated[t] \in Seq(TurnType)
        BY <1>1, <2>4
      <4>2. CASE t = x
        <5>1. history'[t] = Append(history[t], u) /\ generated'[t] = Append(generated[t], u)
          BY <1>1, <2>4, <4>2 DEF u
        <5> QED BY <3>4, <4>1, <5>1
      <4>3. CASE t # x
        BY <1>1, <2>4, <4>1, <4>3
      <4> QED BY <4>2, <4>3
    <3> QED BY <1>2, <2>1, <3>3, <3>5 DEF GeneratedInv, given
  <2> QED BY <1>1, <1>4, <2>2, <2>3, <2>4, OnlineStepGenerates
<1>5. (GatherRaises \/ GatherReturns \/ UNCHANGED vars) => UNCHANGED <<path, episode, history, generated>>
  BY DEF GatherRaises, GatherReturns, fixed, vars
<1> QED BY <1>3, <1>4, <1>5 DEF Next, Finished

\* Replies that count their turns are sorted as they stand.
LEMMA InTurnIsSorted ==
  ASSUME NEW c \in Seq(ReplyType), \A k \in DOMAIN c : c[k].turn = k - 1
  PROVE  ByTurn(c) = c
<1> DEFINE n == Len(c)
           place(i) == Cardinality({j \in DOMAIN c :
                         \/ c[j].turn < c[i].turn
                         \/ ~(c[i].turn < c[j].turn) /\ j <= i})
<1>1. n \in Nat /\ DOMAIN c = 1..n /\ c = [k \in 1..n |-> c[k]]
  OBVIOUS
<1>2. ASSUME NEW i \in 1..n PROVE place(i) = i
  <2>1. ASSUME NEW j \in 1..n
        PROVE  (c[j].turn < c[i].turn \/ (~(c[i].turn < c[j].turn) /\ j <= i)) <=> j \in 1..i
    <3>1. c[j].turn = j - 1 /\ c[i].turn = i - 1
      BY <1>1
    <3> QED BY <3>1
  <2>2. {j \in DOMAIN c : c[j].turn < c[i].turn \/ (~(c[i].turn < c[j].turn) /\ j <= i)} = 1..i
    <3>1. \A j \in 1..i : j \in 1..n
      BY <1>1
    <3> HIDE DEF n
    <3> QED BY <1>1, <2>1, <3>1
  <2>3. Cardinality(1..i) = i
    <3>1. 1 \in Int /\ i \in Int /\ i - 1 + 1 = i /\ ~(1 > i)
      BY <1>1
    <3> QED BY <3>1, FS_Interval
  <2> QED BY <2>2, <2>3
<1>3. ByTurn(c) = [k \in DOMAIN c |-> c[CHOOSE i \in DOMAIN c : place(i) = k]]
  BY DEF ByTurn
<1> HIDE DEF place, n
<1>4. ASSUME NEW k \in 1..n PROVE (CHOOSE i \in DOMAIN c : place(i) = k) = k
  BY <1>1, <1>2
<1> QED BY <1>1, <1>3, <1>4

\* A dialogue in which every reply says something is the given one and then the
\* replies.
LEMMA AllSaid ==
  ASSUME NEW given \in Seq(TurnType), NEW h \in Seq(TurnType), NEW c \in Seq(ReplyType), NEW t,
         Said(given, h, c, t), SpokenIn(c) = DOMAIN c
  PROVE  given \o Quoted(c) = h
<1> DEFINE n == Len(c)
           m == Len(given)
           q == Quoted(c)
<1>1. n \in Nat /\ m \in Nat /\ DOMAIN c = 1..n /\ DOMAIN given = 1..m
  OBVIOUS
<1>2. /\ q = [i \in 1..n |-> [character |-> c[i].character, text |-> c[i].text]]
      /\ \A i \in 1..n : q[i] = [character |-> c[i].character, text |-> c[i].text]
  BY <1>1 DEF Quoted
<1>3. q \in Seq(TurnType) /\ Len(q) = n
  <2>1. \A i \in 1..n : c[i] \in ReplyType
    OBVIOUS
  <2>2. \A i \in 1..n : [character |-> c[i].character, text |-> c[i].text] \in TurnType
    <3> SUFFICES ASSUME NEW i \in 1..n
                 PROVE  [character |-> c[i].character, text |-> c[i].text] \in TurnType
      OBVIOUS
    <3> QED BY <2>1 DEF ReplyType, TurnType
  <2> HIDE DEF n, q
  <2> QED BY <1>1, <1>2, <2>2
<1>4. ASSUME NEW k \in 1..n PROVE Cardinality({j \in SpokenIn(c) : j <= k}) = k
  <2>1. {j \in 1..n : j <= k} = 1..k
    <3> HIDE DEF n
    <3> QED BY <1>1
  <2>2. Cardinality(1..k) = k
    <3>1. 1 \in Int /\ k \in Int /\ k - 1 + 1 = k /\ ~(1 > k)
      BY <1>1
    <3> QED BY <3>1, FS_Interval
  <2> QED BY <1>1, <2>1, <2>2
<1>5. Len(h) = m + n
  <2>1. Cardinality(1..n) = n
    <3>1. 1 \in Int /\ n \in Int /\ n - 1 + 1 = n /\ (1 > n => n = 0)
      BY <1>1
    <3> HIDE DEF n
    <3> QED BY <1>1, <3>1, FS_Interval
  <2> QED BY <1>1, <2>1 DEF Said
<1>6. /\ \A i \in 1..m : h[i] = given[i]
      /\ \A k \in 1..n : h[m + k] = q[k]
  BY <1>1, <1>2, <1>4 DEF Said
<1> HIDE DEF n, m, q
<1>7. /\ given \o q \in Seq(TurnType) /\ Len(given \o q) = m + n
      /\ \A i \in 1..m + n : (given \o q)[i] = IF i <= m THEN given[i] ELSE q[i - m]
  BY <1>3, ConcatProperties DEF m
<1>8. \A i \in 1..m + n : (given \o q)[i] = h[i]
  <2> SUFFICES ASSUME NEW i \in 1..m + n PROVE (given \o q)[i] = h[i]
    OBVIOUS
  <2>1. CASE i <= m
    BY <1>1, <1>6, <1>7, <2>1
  <2>2. CASE ~(i <= m)
    <3>1. i - m \in 1..n /\ m + (i - m) = i
      BY <1>1, <2>2
    <3>2. h[m + (i - m)] = q[i - m]
      BY <1>6, <3>1
    <3> QED BY <1>7, <2>2, <3>1, <3>2
  <2> QED BY <2>1, <2>2
<1>9. given \o q = h
  <2> DEFINE a == given \o q
  <2>1. a \in Seq(TurnType) /\ Len(a) = Len(h) /\ \A i \in 1..Len(a) : a[i] = h[i]
    BY <1>5, <1>7, <1>8
  <2> HIDE DEF a
  <2>2. a = h
    BY <2>1, SeqEqual
  <2> QED BY <2>2 DEF a
<1> QED BY <1>9 DEF q

\* At the end of a dialogue everyone had all turns.
LEMMA AllTurnsTaken ==
  ASSUME EngineInv, NEW t \in Sample, status[t] = "max_rounds", NEW c \in ToSet(order)
  PROVE  TurnsOf(t, c) = PlannedRounds(episode)
<1> DEFINE m == Characters
           p == PlannedRounds(episode)
           n == Len(completions[t])
<1>1. m \in Nat \ {0} /\ p \in Nat \ {0} /\ n = p * m
  BY TurnsPositive DEF EngineInv, EpisodeInv, LengthsInv, Turns, Characters
<1>2. PICK i \in DOMAIN order : c = order[i]
  BY DEF ToSet
<1> DEFINE j == i - 1
<1>3. j \in 0..m - 1 /\ j + 1 = i
  BY DEF EngineInv, EpisodeInv, Characters
<1>4. TurnsOf(t, order[j + 1]) = ShareOf(n, m, j)
  <2> HIDE DEF j
  <2> QED BY <1>3, TurnsAreShares
<1> HIDE DEF n, m, p, j
<1>5. n \div m = p /\ n % m = 0
  <2>1. n = m * p + 0 /\ 0 \in 0..m - 1
    BY <1>1
  <2> QED BY <1>1, <2>1, Quotient
<1>6. ShareOf(n, m, j) = p
  BY <1>1, <1>3, <1>5 DEF ShareOf
<1> QED BY <1>2, <1>3, <1>4, <1>6 DEF p

\* Both reward requests about a trajectory of the agent quote the dialogue its
\* characters saw, the one that is built from the replies and the one that is
\* built from the list of generated turns; and everyone has a reply for each
\* round to be scored (proxy/agent.py, rewards/payloads.py).
THEOREM RequestsQuoteTheDialogue == Spec => []RewardsReadDialogue
<1>1. Init => SpokenInv
  BY DEF Init, SpokenInv, SpokenIn
<1>2. EngineInv /\ SpokenInv /\ GeneratedInv => RewardsReadDialogue
  <2> SUFFICES ASSUME EngineInv, SpokenInv, GeneratedInv, NEW t \in Sample, path = "online",
                      status[t] = "max_rounds"
               PROVE  /\ OnlineCompletionUtterances(episode, completions[t]) = history[t]
                      /\ OnlineTrajectoryUtterances(episode, generated[t]) = history[t]
                      /\ \A c \in ToSet(order) : TurnsOf(t, c) = PlannedRounds(episode)
    BY DEF RewardsReadDialogue
  <2>1. /\ Given(episode) \in Seq(TurnType) /\ history[t] \in Seq(TurnType)
        /\ completions[t] \in Seq(ReplyType)
        /\ Said(Given(episode), history[t], completions[t], t)
        /\ \A k \in DOMAIN completions[t] : completions[t][k].turn = k - 1
        /\ SpokenIn(completions[t]) = DOMAIN completions[t]
    BY DEF EngineInv, EpisodeInv, TypeInv, SaidInv, InTurn, SpokenInv
  <2>2. Given(episode) \o Quoted(completions[t]) = history[t]
    BY <2>1, AllSaid
  <2>3. ByTurn(completions[t]) = completions[t]
    BY <2>1, InTurnIsSorted
  <2>4. OnlineCompletionUtterances(episode, completions[t]) = history[t]
    BY <2>2, <2>3 DEF OnlineCompletionUtterances
  <2>5. OnlineTrajectoryUtterances(episode, generated[t]) = history[t]
    BY DEF GeneratedInv, OnlineTrajectoryUtterances
  <2> QED BY <2>4, <2>5, AllTurnsTaken
<1> QED BY <1>1, <1>2, InitGenerated, NextKeepsSpoken, NextKeepsGenerated, EngineInvariant, PTL
        DEF Spec
=============================================================================
