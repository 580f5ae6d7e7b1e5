-------------------------- MODULE OperatorsProofs --------------------------
(***************************************************************************)
(* Proofs about Config and Calibration: what they compute is right for every *)
(* environment and every file of measurements, not only for those the run    *)
(* builds up.  Facts about the least and the greatest of a set come from the  *)
(* naturals being well founded, which stands in for induction.               *)
(***************************************************************************)
EXTENDS MCOperators, FiniteSetTheorems, WellFoundedInduction, TLAPS

----------------------------------------------------------------------------
(* The least and the greatest of a set. *)
LEMMA LeastOfNaturals ==
  ASSUME NEW S \in SUBSET Nat, S # {}
  PROVE  \E m \in S : \A n \in S : m <= n
<1>1. \E less : IsWellFoundedOn(less, Nat) /\ \A m, n \in Nat : n < m => <<n, m>> \in less
  <2>1. \A m, n \in Nat : n < m => <<n, m>> \in OpToRel(<, Nat)
    BY DEF OpToRel
  <2> QED BY <2>1, NatLessThanWellFounded, Zenon
<1>2. PICK less : IsWellFoundedOn(less, Nat) /\ \A m, n \in Nat : n < m => <<n, m>> \in less
  BY <1>1
<1>3. PICK m \in S : \A n \in S : ~ (<<n, m>> \in less)
  BY <1>2, WFMin, Zenon
<1>4. \A n \in S : ~ (n < m)
  BY <1>2, <1>3, Zenon
<1> QED BY <1>4

(* Below a bound it does not matter that integers go on downwards. *)
LEMMA LeastAndGreatest ==
  ASSUME NEW lo \in Int, NEW hi \in Int, NEW S \in SUBSET (lo..hi), S # {}
  PROVE  /\ Min(S) \in S /\ \A n \in S : Min(S) <= n
         /\ Max(S) \in S /\ \A n \in S : n <= Max(S)
<1>1. \E m \in S : \A n \in S : m <= n
  <2> DEFINE T == {n \in Nat : lo + n \in S}
  <2>1. \A s \in S : s - lo \in T
    OBVIOUS
  <2>2. T # {}
    BY <2>1
  <2> HIDE DEF T
  <2>3. PICK m \in T : \A n \in T : m <= n
    BY <2>2, LeastOfNaturals DEF T
  <2>4. lo + m \in S /\ m \in Nat
    BY <2>3 DEF T
  <2>5. \A s \in S : lo + m <= s
    BY <2>1, <2>3, <2>4
  <2> QED BY <2>4, <2>5
<1>2. \E m \in S : \A n \in S : n <= m
  <2> DEFINE T == {n \in Nat : hi - n \in S}
  <2>1. \A s \in S : hi - s \in T
    OBVIOUS
  <2>2. T # {}
    BY <2>1
  <2> HIDE DEF T
  <2>3. PICK m \in T : \A n \in T : m <= n
    BY <2>2, LeastOfNaturals DEF T
  <2>4. hi - m \in S /\ m \in Nat
    BY <2>3 DEF T
  <2>5. \A s \in S : s <= hi - m
    BY <2>1, <2>3, <2>4
  <2> QED BY <2>4, <2>5
<1>3. Min(S) \in S /\ \A n \in S : Min(S) <= n
  BY <1>1 DEF Min
<1>4. Max(S) \in S /\ \A n \in S : n <= Max(S)
  BY <1>2 DEF Max
<1> QED BY <1>3, <1>4

(* The same, of what is measured. *)
LEMMA LeastAndGreatestValue ==
  ASSUME NEW S \in SUBSET (0..Top), S # {}
  PROVE  /\ Min(S) \in S /\ \A n \in S : Min(S) <= n
         /\ Max(S) \in S /\ \A n \in S : n <= Max(S)
<1>1. 0 \in Int /\ Top \in Int
  BY CalibrationAssumption
<1> QED BY <1>1, LeastAndGreatest

----------------------------------------------------------------------------
(* The measurements. *)
Sample == [label : Labels, value : 0..Top]

SamplesOK ==
  /\ samples \in Seq(Sample)
  /\ direction \in {"higher", "lower"}

(* The classes are finite, and so are the errors a threshold makes in them. *)
LEMMA Counts ==
  ASSUME SamplesOK
  PROVE  /\ Attacks \in Nat /\ Genuine \in Nat
         /\ \A t : FalseAccepts(t) \in Nat /\ FalseRejects(t) \in Nat
         /\ \A t : FalseRejects(t) <= Genuine
<1>1. IsFiniteSet(DOMAIN samples)
  <2>1. DOMAIN samples = 1..Len(samples) /\ Len(samples) \in Nat
    BY DEF SamplesOK
  <2> QED BY <2>1, FS_Interval
<1>2. \A label : IsFiniteSet(Of(label))
  BY <1>1, FS_Subset DEF Of
<1>3. Attacks \in Nat /\ Genuine \in Nat
  BY <1>2, FS_CardinalityType DEF Attacks, Genuine
<1>4. ASSUME NEW t
      PROVE  FalseAccepts(t) \in Nat /\ FalseRejects(t) \in Nat /\ FalseRejects(t) <= Genuine
  <2> DEFINE FA == {i \in Of("attack") : Accepts(samples[i].value, t)}
             FR == {i \in Of("genuine") : ~Accepts(samples[i].value, t)}
  <2>1. IsFiniteSet(FA) /\ IsFiniteSet(FR) /\ Cardinality(FR) <= Cardinality(Of("genuine"))
    BY <1>2, FS_Subset
  <2> QED BY <2>1, FS_CardinalityType DEF FalseAccepts, FalseRejects, Genuine
<1> QED BY <1>3, <1>4

(* The values lie between the ends of the scale, the candidates one further. *)
LEMMA OnTheScale ==
  ASSUME SamplesOK, Swept
  PROVE  /\ Values \in SUBSET (0..Top) /\ Values # {}
         /\ Candidates \in SUBSET AllThresholds /\ Candidates # {}
         /\ AllThresholds \subseteq Int
<1>1. \A i \in DOMAIN samples : samples[i] \in Sample
  BY DEF SamplesOK
<1>2. Values \in SUBSET (0..Top)
  BY <1>1 DEF Values, Sample
<1>3. Of("attack") # {}
  BY FS_EmptySet DEF Swept, Attacks
<1>4. Values # {}
  BY <1>3 DEF Of, Values
<1>5. /\ Min(Values) \in Values /\ Max(Values) \in Values
  BY <1>2, <1>4, LeastAndGreatestValue
<1>6. Min(Values) - 1 \in AllThresholds /\ Max(Values) + 1 \in AllThresholds
  <2>1. Min(Values) \in 0..Top /\ Max(Values) \in 0..Top
    BY <1>2, <1>5
  <2> QED BY <2>1, CalibrationAssumption DEF AllThresholds
<1>7. Values \subseteq AllThresholds
  BY <1>2, CalibrationAssumption DEF AllThresholds
<1>8. Candidates \in SUBSET AllThresholds /\ Candidates # {}
  BY <1>6, <1>7 DEF Candidates
<1>9. AllThresholds \subseteq Int
  BY CalibrationAssumption DEF AllThresholds
<1> QED BY <1>2, <1>4, <1>8, <1>9

(* Thresholds that accept the same values have the same rates. *)
LEMMA SameAcceptsSameRates ==
  ASSUME SamplesOK, NEW t, NEW c,
         \A v \in Values : Accepts(v, t) <=> Accepts(v, c)
  PROVE  FalseAccepts(c) = FalseAccepts(t) /\ FalseRejects(c) = FalseRejects(t)
<1>1. \A label : \A i \in Of(label) : samples[i].value \in Values
  BY DEF Of, Values
<1>2. {i \in Of("attack") : Accepts(samples[i].value, c)}
        = {i \in Of("attack") : Accepts(samples[i].value, t)}
  BY <1>1
<1>3. {i \in Of("genuine") : ~Accepts(samples[i].value, c)}
        = {i \in Of("genuine") : ~Accepts(samples[i].value, t)}
  BY <1>1
<1> QED BY <1>2, <1>3 DEF FalseAccepts, FalseRejects

(* Any integer t falls between two neighbouring candidates, and the nearer one  *)
(* on the accepting side does what t does.                                      *)
LEMMA EveryThresholdHasACandidate ==
  ASSUME SamplesOK, Swept, NEW t \in Int
  PROVE  \E c \in Candidates :
           FalseAccepts(c) = FalseAccepts(t) /\ FalseRejects(c) = FalseRejects(t)
<1>1. /\ Values \in SUBSET (0..Top) /\ Values # {} /\ \A v \in Values : v \in Int
  BY OnTheScale, CalibrationAssumption
<1>2. /\ Min(Values) \in Values /\ \A v \in Values : Min(Values) <= v
      /\ Max(Values) \in Values /\ \A v \in Values : v <= Max(Values)
  BY <1>1, LeastAndGreatestValue
<1>3. Min(Values) \in Int /\ Max(Values) \in Int
  BY <1>1, <1>2
<1>4. \E c \in Candidates : \A v \in Values : Accepts(v, t) <=> Accepts(v, c)
  <2>1. CASE direction = "lower"
    <3> DEFINE T == {v \in Values : v <= t}
    <3>1. CASE T = {}
      <4>1. \A v \in Values : ~(v <= t) /\ ~(v <= Min(Values) - 1)
        BY <3>1, <1>1, <1>2, <1>3
      <4> QED BY <2>1, <4>1 DEF Candidates, Accepts
    <3>2. CASE T # {}
      <4>1. T \in SUBSET (0..Top)
        BY <1>1
      <4>2. Max(T) \in T /\ \A v \in T : v <= Max(T)
        BY <3>2, <4>1, LeastAndGreatestValue
      <4>3. Max(T) \in Int
        BY <1>1, <4>2
      <4>4. \A v \in Values : (v <= t) <=> (v <= Max(T))
        BY <1>1, <4>2, <4>3
      <4> QED BY <2>1, <4>2, <4>4 DEF Candidates, Accepts
    <3> QED BY <3>1, <3>2
  <2>2. CASE direction # "lower"
    <3> DEFINE T == {v \in Values : v >= t}
    <3>1. CASE T = {}
      <4>1. \A v \in Values : ~(v >= t) /\ ~(v >= Max(Values) + 1)
        BY <3>1, <1>1, <1>2, <1>3
      <4> QED BY <2>2, <4>1 DEF Candidates, Accepts
    <3>2. CASE T # {}
      <4>1. T \in SUBSET (0..Top)
        BY <1>1
      <4>2. Min(T) \in T /\ \A v \in T : Min(T) <= v
        BY <3>2, <4>1, LeastAndGreatestValue
      <4>3. Min(T) \in Int
        BY <1>1, <4>2
      <4>4. \A v \in Values : (v >= t) <=> (v >= Min(T))
        BY <1>1, <4>2, <4>3
      <4> QED BY <2>2, <4>2, <4>4 DEF Candidates, Accepts
    <3> QED BY <3>1, <3>2
  <2> QED BY <2>1, <2>2
<1> QED BY <1>4, SameAcceptsSameRates

(* Whatever the file of measurements holds, a threshold between two that Sweep    *)
(* tries, or beyond them, has the rates of one that Sweep tries.                  *)
THEOREM NoThresholdIsMissed == SamplesOK => SweepMissesNoThreshold
BY EveryThresholdHasACandidate, OnTheScale DEF SweepMissesNoThreshold

----------------------------------------------------------------------------
(* The scans.  A cost has a least value on any set of thresholds, and the first  *)
(* threshold that has it is what a scan returns.                                *)
LEMMA SomethingIsCheapest ==
  ASSUME NEW S \in SUBSET AllThresholds, S # {}, NEW cost \in [S -> Nat]
  PROVE  /\ Min({t \in S : \A u \in S : cost[t] <= cost[u]}) \in S
         /\ \A u \in S : cost[Min({t \in S : \A v \in S : cost[t] <= cost[v]})] <= cost[u]
<1> DEFINE Costs == {cost[t] : t \in S}
           Cheapest == {t \in S : \A u \in S : cost[t] <= cost[u]}
<1>1. Costs \in SUBSET Nat /\ Costs # {}
  OBVIOUS
<1>2. PICK m \in Costs : \A n \in Costs : m <= n
  BY <1>1, LeastOfNaturals
<1>3. PICK t \in S : cost[t] = m
  OBVIOUS
<1>4. t \in Cheapest
  BY <1>2, <1>3
<1>5. Cheapest \in SUBSET ((-1)..(Top + 1)) /\ Cheapest # {}
  BY <1>4 DEF AllThresholds
<1>6. -1 \in Int /\ Top + 1 \in Int
  BY CalibrationAssumption
<1> HIDE DEF Cheapest
<1>7. Min(Cheapest) \in Cheapest
  BY <1>5, <1>6, LeastAndGreatest
<1> QED BY <1>7 DEF Cheapest

(* The three costs the sweep goes by. *)
LEMMA FewestRejects ==
  ASSUME SamplesOK, NEW S \in SUBSET AllThresholds, S # {}
  PROVE  /\ First(S, FalseRejects) \in S
         /\ \A u \in S : FalseRejects(First(S, FalseRejects)) <= FalseRejects(u)
<1> DEFINE cost == [t \in S |-> FalseRejects(t)]
<1>1. cost \in [S -> Nat] /\ \A t \in S : cost[t] = FalseRejects(t)
  BY Counts
<1>2. First(S, FalseRejects) = Min({t \in S : \A u \in S : cost[t] <= cost[u]})
  <2>1. {t \in S : \A u \in S : cost[t] <= cost[u]}
          = {t \in S : \A u \in S : FalseRejects(t) <= FalseRejects(u)}
    BY <1>1
  <2> QED BY <2>1 DEF First
<1> HIDE DEF cost
<1> QED BY <1>1, <1>2, SomethingIsCheapest

LEMMA FewestAccepts ==
  ASSUME SamplesOK, NEW S \in SUBSET AllThresholds, S # {}
  PROVE  /\ First(S, FalseAccepts) \in S
         /\ \A u \in S : FalseAccepts(First(S, FalseAccepts)) <= FalseAccepts(u)
<1> DEFINE cost == [t \in S |-> FalseAccepts(t)]
<1>1. cost \in [S -> Nat] /\ \A t \in S : cost[t] = FalseAccepts(t)
  BY Counts
<1>2. First(S, FalseAccepts) = Min({t \in S : \A u \in S : cost[t] <= cost[u]})
  <2>1. {t \in S : \A u \in S : cost[t] <= cost[u]}
          = {t \in S : \A u \in S : FalseAccepts(t) <= FalseAccepts(u)}
    BY <1>1
  <2> QED BY <2>1 DEF First
<1> HIDE DEF cost
<1> QED BY <1>1, <1>2, SomethingIsCheapest

LEMMA Closest ==
  ASSUME SamplesOK, NEW S \in SUBSET AllThresholds, S # {}
  PROVE  /\ First(S, Gap) \in S
         /\ \A u \in S : Gap(First(S, Gap)) <= Gap(u)
<1> DEFINE cost == [t \in S |-> Gap(t)]
<1>1. cost \in [S -> Nat] /\ \A t \in S : cost[t] = Gap(t)
  <2>1. ASSUME NEW t PROVE Gap(t) \in Nat
    <3>1. /\ FalseAccepts(t) \in Int /\ FalseRejects(t) \in Int
          /\ Attacks \in Int /\ Genuine \in Int
      BY Counts
    <3>2. FalseAccepts(t) * Genuine - FalseRejects(t) * Attacks \in Int
      BY <3>1
    <3> QED BY <3>2 DEF Gap
  <2> QED BY <2>1
<1>2. First(S, Gap) = Min({t \in S : \A u \in S : cost[t] <= cost[u]})
  <2>1. {t \in S : \A u \in S : cost[t] <= cost[u]}
          = {t \in S : \A u \in S : Gap(t) <= Gap(u)}
    BY <1>1
  <2> QED BY <2>1 DEF First
<1> HIDE DEF cost
<1> QED BY <1>1, <1>2, SomethingIsCheapest

----------------------------------------------------------------------------
(* The operating points. *)

(* A threshold has the rates, and so the gap, of some candidate. *)
LEMMA CandidateFor ==
  ASSUME SamplesOK, Swept, NEW t \in AllThresholds
  PROVE  \E c \in Candidates :
           /\ FalseAccepts(c) = FalseAccepts(t) /\ FalseRejects(c) = FalseRejects(t)
           /\ Gap(c) = Gap(t)
<1>1. t \in Int
  BY OnTheScale
<1>2. PICK c \in Candidates :
        FalseAccepts(c) = FalseAccepts(t) /\ FalseRejects(c) = FalseRejects(t)
  BY <1>1, EveryThresholdHasACandidate
<1> QED BY <1>2 DEF Gap

(* What AtFAR answers, and when it answers nothing. *)
LEMMA AtFARIsBest ==
  ASSUME SamplesOK, Swept, NEW target \in 0..Percent
  PROVE  /\ AtFAR(target) = None <=>
              \A t \in AllThresholds : WithinFAR(t, target) => FalseRejects(t) = Genuine
         /\ AtFAR(target) # None =>
              /\ AtFAR(target) \in AllThresholds /\ WithinFAR(AtFAR(target), target)
              /\ \A t \in AllThresholds :
                   WithinFAR(t, target) => FalseRejects(AtFAR(target)) <= FalseRejects(t)
<1> DEFINE within == {t \in Candidates : WithinFAR(t, target)}
           best == First(within, FalseRejects)
<1>1. AtFAR(target) = IF within = {} THEN None
                      ELSE IF FalseRejects(best) >= Genuine THEN None ELSE best
  BY DEF AtFAR
<1>2. /\ within \in SUBSET AllThresholds
      /\ \A t \in within : t \in AllThresholds /\ WithinFAR(t, target)
  BY OnTheScale
<1>3. \A t \in AllThresholds : WithinFAR(t, target) =>
        \E c \in within : FalseRejects(c) = FalseRejects(t)
  <2>1. ASSUME NEW t \in AllThresholds, WithinFAR(t, target)
        PROVE  \E c \in within : FalseRejects(c) = FalseRejects(t)
    <3>1. PICK c \in Candidates :
            FalseAccepts(c) = FalseAccepts(t) /\ FalseRejects(c) = FalseRejects(t)
      BY CandidateFor
    <3> QED BY <2>1, <3>1 DEF WithinFAR
  <2> QED BY <2>1
<1>4. Genuine \in Nat /\ \A t : FalseRejects(t) \in Nat /\ FalseRejects(t) <= Genuine
  BY Counts
<1>5. None \notin AllThresholds
  BY CalibrationAssumption DEF None, AllThresholds
<1> HIDE DEF within, best
<1>6. CASE within = {}
  <2>1. AtFAR(target) = None
    BY <1>1, <1>6
  <2> QED BY <2>1, <1>3, <1>6
<1>7. CASE within # {}
  <2>1. best \in within /\ \A u \in within : FalseRejects(best) <= FalseRejects(u)
    BY <1>2, <1>7, FewestRejects DEF best
  <2>2. \A t \in AllThresholds : WithinFAR(t, target) => FalseRejects(best) <= FalseRejects(t)
    BY <1>3, <2>1
  <2>3. best \in AllThresholds /\ WithinFAR(best, target) /\ best # None
    BY <1>2, <1>5, <2>1
  <2>4. CASE FalseRejects(best) >= Genuine
    <3>1. AtFAR(target) = None
      BY <1>1, <1>7, <2>4
    <3>2. \A t \in AllThresholds : WithinFAR(t, target) => FalseRejects(t) = Genuine
      BY <1>4, <2>2, <2>4
    <3> QED BY <3>1, <3>2
  <2>5. CASE ~(FalseRejects(best) >= Genuine)
    <3>1. AtFAR(target) = best
      BY <1>1, <1>7, <2>5
    <3>2. FalseRejects(best) # Genuine
      BY <1>4, <2>5
    <3> QED BY <2>2, <2>3, <3>1, <3>2
  <2> QED BY <2>4, <2>5
<1> QED BY <1>6, <1>7

LEMMA AtFRRIsBest ==
  ASSUME SamplesOK, Swept, NEW target \in 0..Percent
  PROVE  /\ AtFRR(target) = None <=> \A t \in AllThresholds : ~WithinFRR(t, target)
         /\ AtFRR(target) # None =>
              /\ AtFRR(target) \in Candidates /\ WithinFRR(AtFRR(target), target)
              /\ \A t \in AllThresholds :
                   WithinFRR(t, target) => FalseAccepts(AtFRR(target)) <= FalseAccepts(t)
<1> DEFINE within == {t \in Candidates : WithinFRR(t, target)}
           best == First(within, FalseAccepts)
<1>1. AtFRR(target) = IF within = {} THEN None ELSE best
  BY DEF AtFRR
<1>2. /\ within \in SUBSET AllThresholds
      /\ \A t \in within : t \in AllThresholds /\ t \in Candidates /\ WithinFRR(t, target)
  BY OnTheScale
<1>3. \A t \in AllThresholds : WithinFRR(t, target) =>
        \E c \in within : FalseAccepts(c) = FalseAccepts(t)
  <2>1. ASSUME NEW t \in AllThresholds, WithinFRR(t, target)
        PROVE  \E c \in within : FalseAccepts(c) = FalseAccepts(t)
    <3>1. PICK c \in Candidates :
            FalseAccepts(c) = FalseAccepts(t) /\ FalseRejects(c) = FalseRejects(t)
      BY CandidateFor
    <3> QED BY <2>1, <3>1 DEF WithinFRR
  <2> QED BY <2>1
<1>4. None \notin AllThresholds
  BY CalibrationAssumption DEF None, AllThresholds
<1> HIDE DEF within, best
<1>5. CASE within = {}
  <2>1. AtFRR(target) = None
    BY <1>1, <1>5
  <2> QED BY <2>1, <1>3, <1>5
<1>6. CASE within # {}
  <2>1. best \in within /\ \A u \in within : FalseAccepts(best) <= FalseAccepts(u)
    BY <1>2, <1>6, FewestAccepts DEF best
  <2>2. \A t \in AllThresholds : WithinFRR(t, target) => FalseAccepts(best) <= FalseAccepts(t)
    BY <1>3, <2>1
  <2>3. /\ best \in AllThresholds /\ best \in Candidates
        /\ WithinFRR(best, target) /\ best # None
    BY <1>2, <1>4, <2>1
  <2>4. AtFRR(target) = best
    BY <1>1, <1>6
  <2> QED BY <2>2, <2>3, <2>4
<1> QED BY <1>5, <1>6

(* Nobody of either class is misjudged at some candidate just when the point that *)
(* rejects no genuine subject accepts no attack either.                           *)
LEMMA SeparationIsTold ==
  ASSUME SamplesOK, Swept
  PROVE  Separable <=> AtFRR(0) # None /\ FalseAccepts(AtFRR(0)) = 0
<1>1. 0 \in 0..Percent
  BY CalibrationAssumption
<1>2. \A t : FalseAccepts(t) \in Nat /\ FalseRejects(t) \in Nat
  BY Counts
<1>3. \A t : WithinFRR(t, 0) <=> FalseRejects(t) = 0
  <2>1. Genuine \in Nat
    BY Counts
  <2>2. \A n \in Nat : n * Percent <= 0 <=> n = 0
    BY CalibrationAssumption
  <2> QED BY <1>2, <2>1, <2>2 DEF WithinFRR
<1>4. ASSUME NEW t \in Candidates, FalseAccepts(t) = 0, FalseRejects(t) = 0
      PROVE  AtFRR(0) # None /\ FalseAccepts(AtFRR(0)) = 0
  <2>1. t \in AllThresholds /\ WithinFRR(t, 0)
    BY <1>3, <1>4, OnTheScale
  <2>2. AtFRR(0) # None /\ FalseAccepts(AtFRR(0)) <= FalseAccepts(t)
    BY <1>1, <2>1, AtFRRIsBest
  <2> QED BY <1>2, <1>4, <2>2
<1>5. ASSUME AtFRR(0) # None, FalseAccepts(AtFRR(0)) = 0
      PROVE  Separable
  <2>1. AtFRR(0) \in Candidates /\ FalseRejects(AtFRR(0)) = 0
    BY <1>1, <1>3, <1>5, AtFRRIsBest
  <2> QED BY <1>5, <2>1 DEF Separable
<1> QED BY <1>4, <1>5 DEF Separable

(* Whatever the file of measurements holds, no threshold at all does better than  *)
(* the operating point the report names, and it says so when the two kinds can be *)
(* told apart.                                                                    *)
THEOREM PointsAreBest == SamplesOK => OperatingPointsAreBest
<1> SUFFICES ASSUME SamplesOK, Swept PROVE OperatingPointsAreBest
  BY DEF OperatingPointsAreBest
<1>1. samples # <<>>
  BY FS_EmptySet DEF Swept, Attacks, Of
<1>2. ASSUME NEW target \in 0..Percent
      PROVE  LET within == {t \in AllThresholds : WithinFAR(t, target)}
                 out == SweepCmd(target, -1)
             IN  /\ out.fails <=> \A t \in within : FalseRejects(t) = Genuine
                 /\ \A p \in out.prints :
                      p[2] \in within /\ \A t \in within : FalseRejects(p[2]) <= FalseRejects(t)
  <2>1. target >= 0 /\ ~(target < 0) /\ ~(-1 >= 0) /\ -1 < 0
    BY CalibrationAssumption
  <2>2. /\ SweepCmd(target, -1).fails <=> AtFAR(target) = None
        /\ SweepCmd(target, -1).prints =
             IF AtFAR(target) = None THEN {} ELSE {<<"FAR", AtFAR(target)>>}
    BY <1>1, <2>1 DEF SweepCmd
  <2>3. CASE AtFAR(target) = None
    <3>1. SweepCmd(target, -1).fails /\ SweepCmd(target, -1).prints = {}
      BY <2>2, <2>3
    <3> QED BY <3>1, <2>3, AtFARIsBest
  <2>4. CASE AtFAR(target) # None
    <3>1. /\ ~SweepCmd(target, -1).fails
          /\ SweepCmd(target, -1).prints = {<<"FAR", AtFAR(target)>>}
      BY <2>2, <2>4
    <3> QED BY <3>1, <2>4, AtFARIsBest
  <2> QED BY <2>3, <2>4
<1>3. ASSUME NEW target \in 0..Percent
      PROVE  LET within == {t \in AllThresholds : WithinFRR(t, target)}
             IN  \A p \in SweepCmd(-1, target).prints :
                   p[2] \in within /\ \A t \in within : FalseAccepts(p[2]) <= FalseAccepts(t)
  <2>1. target >= 0 /\ ~(target < 0) /\ ~(-1 >= 0) /\ -1 < 0
    BY CalibrationAssumption
  <2>2. SweepCmd(-1, target).prints =
          IF AtFRR(target) = None THEN {} ELSE {<<"FRR", AtFRR(target)>>}
    BY <1>1, <2>1 DEF SweepCmd
  <2> QED BY <2>2, AtFRRIsBest, OnTheScale
<1>4. \A t \in AllThresholds : Gap(EqualError) <= Gap(t)
  <2>1. \A c \in Candidates : Gap(EqualError) <= Gap(c)
    BY OnTheScale, Closest DEF EqualError
  <2> QED BY <2>1, CandidateFor
<1> QED BY <1>2, <1>3, <1>4, SeparationIsTold DEF OperatingPointsAreBest

----------------------------------------------------------------------------
(* Config. *)

(* What a range is: whole numbers from its least to its most, its default one of   *)
(* them.                                                                          *)
Ranged(n) ==
  /\ n.default \in Nat /\ n.least \in Nat /\ n.most \in Nat
  /\ n.least <= n.default /\ n.default <= n.most

LEMMA EveryNumberIsRanged == \A v \in DOMAIN Numbers : Ranged(Numbers[v])
BY SMTT(60) DEF Numbers, Number, Duration, Whole, Float, Ranged

LEMMA NaNIsNegative == NaN \in Int /\ NaN < -1
BY SMT DEF NaN

(* Any environment: a number may be any integer, NaN for a float only.            *)
Sayable(v, said) ==
  \/ v \in Required /\ said = Unset
  \/ v \in Words /\ said = Junk
  \/ v \in DOMAIN Numbers /\ said = Junk
  \/ /\ v \in DOMAIN Numbers
     /\ \E n \in Int : said = Say(n) /\ (Numbers[v].kind = "float" \/ n # NaN)

GivenOK ==
  /\ DOMAIN given \subseteq Variables
  /\ \A v \in DOMAIN given : Sayable(v, given[v])

LEMMA SayingsAreSayable ==
  ASSUME NEW v \in Variables, NEW said \in Sayings(v)
  PROVE  Sayable(v, said)
<1>1. CASE v \in Required
  BY <1>1 DEF Sayings, Sayable, Words, Required
<1>2. CASE v \in Words
  BY <1>2 DEF Sayings, Sayable, Words, Required
<1>3. CASE v \notin Required /\ v \notin Words
  <2>1. v \in DOMAIN Numbers
    BY <1>3 DEF Variables
  <2>2. Ranged(Numbers[v])
    BY <2>1, EveryNumberIsRanged
  <2> DEFINE n == Numbers[v]
  <2>3. said \in {Junk} \cup {Say(k) : k \in {n.least - 1, n.least, n.default + 1, n.most, n.most + 1}}
                 \cup (IF n.kind = "float" THEN {Say(NaN)} ELSE {})
    BY <1>3 DEF Sayings
  <2>4. CASE said = Junk
    BY <2>1, <2>4 DEF Sayable
  <2>5. CASE n.kind = "float" /\ said = Say(NaN)
    BY <2>1, <2>5, NaNIsNegative DEF Sayable
  <2>6. ASSUME NEW k \in {n.least - 1, n.least, n.default + 1, n.most, n.most + 1},
               said = Say(k)
        PROVE  Sayable(v, said)
    <3>1. k \in Int /\ k # NaN
      BY <2>2, NaNIsNegative DEF Ranged
    <3> QED BY <2>1, <2>6, <3>1 DEF Sayable
  <2> QED BY <2>3, <2>4, <2>5, <2>6
<1> QED BY <1>1, <1>2, <1>3

(* A number that was not refused is in its range, or is NaN, which no range       *)
(* refuses.                                                                       *)
LEMMA LoadedValue ==
  ASSUME GivenOK, Loads, NEW v \in DOMAIN Numbers
  PROVE  /\ Value(v) \in Int
         /\ Numbers[v].kind = "float" \/ Value(v) # NaN
         /\ Value(v) = NaN \/ (Numbers[v].least <= Value(v) /\ Value(v) <= Numbers[v].most)
<1>1. Ranged(Numbers[v])
  BY EveryNumberIsRanged
<1>2. ~Refused(v)
  BY DEF Loads, Problems, Variables
<1>3. CASE v \notin DOMAIN given
  BY <1>1, <1>3, NaNIsNegative DEF Value, Ranged
<1>4. CASE v \in DOMAIN given
  <2>1. Value(v) = given[v].number
    BY <1>2, <1>4 DEF Value
  <2>2. PICK n \in Int : given[v] = Say(n) /\ (Numbers[v].kind = "float" \/ n # NaN)
    <3>1. given[v] # Junk
      BY <1>2, <1>4 DEF Refused, Junk
    <3>2. ~(v \in Required /\ given[v] = Unset)
      BY <1>2, <1>4 DEF Refused, Unset
    <3> QED BY <1>4, <3>1, <3>2 DEF GivenOK, Sayable
  <2>3. ~OutOfRange(v, n)
    BY <1>2, <1>4, <2>2 DEF Refused, Say
  <2>4. Value(v) = n
    BY <2>1, <2>2 DEF Say
  <2> QED BY <1>1, <2>2, <2>3, <2>4, NaNIsNegative DEF OutOfRange, Below, Ranged
<1> QED BY <1>3, <1>4

(* What each range is for: the tests of the components that it makes true. *)
LEMMA ThresholdsRanges ==
  ASSUME GivenOK, Loads
  PROVE  /\ ~AtMost(Value("BlinkCloseRatio"), 0) /\ ~AtMost(100, Value("BlinkCloseRatio"))
         /\ ~Below(100, Value("BlinkOpenRatio"))
         /\ ~(Value("BlinkMinFrames") < 1)
         /\ ~AtMost(Value("YawTurnDeg"), 0)
         /\ ~AtMost(Value("PitchNodDeg"), 0)
         /\ AtMost(Value("MARMouthOpen"), 0) => Value("MARMouthOpen") = 0
<1>1. ~AtMost(Value("BlinkCloseRatio"), 0) /\ ~AtMost(100, Value("BlinkCloseRatio"))
  <2>1. /\ "BlinkCloseRatio" \in DOMAIN Numbers
        /\ Numbers["BlinkCloseRatio"].least = 5 /\ Numbers["BlinkCloseRatio"].most = 95
    BY SMT DEF Numbers, Float, Number
  <2> QED BY <2>1, LoadedValue, NaNIsNegative, SMT DEF AtMost
<1>2. ~Below(100, Value("BlinkOpenRatio"))
  <2>1. /\ "BlinkOpenRatio" \in DOMAIN Numbers
        /\ Numbers["BlinkOpenRatio"].least = 10 /\ Numbers["BlinkOpenRatio"].most = 100
    BY SMT DEF Numbers, Float, Number
  <2> QED BY <2>1, LoadedValue, NaNIsNegative, SMT DEF Below
<1>3. ~(Value("BlinkMinFrames") < 1)
  <2>1. /\ "BlinkMinFrames" \in DOMAIN Numbers /\ Numbers["BlinkMinFrames"].kind = "int"
        /\ Numbers["BlinkMinFrames"].least = 1 /\ Numbers["BlinkMinFrames"].most = 30
    BY SMT DEF Numbers, Whole, Number
  <2> QED BY <2>1, LoadedValue, NaNIsNegative, SMT
<1>4. ~AtMost(Value("YawTurnDeg"), 0)
  <2>1. /\ "YawTurnDeg" \in DOMAIN Numbers
        /\ Numbers["YawTurnDeg"].least = 500 /\ Numbers["YawTurnDeg"].most = 8900
    BY SMT DEF Numbers, Float, Number
  <2> QED BY <2>1, LoadedValue, NaNIsNegative, SMT DEF AtMost
<1>5. ~AtMost(Value("PitchNodDeg"), 0)
  <2>1. /\ "PitchNodDeg" \in DOMAIN Numbers
        /\ Numbers["PitchNodDeg"].least = 500 /\ Numbers["PitchNodDeg"].most = 8900
    BY SMT DEF Numbers, Float, Number
  <2> QED BY <2>1, LoadedValue, NaNIsNegative, SMT DEF AtMost
<1>6. AtMost(Value("MARMouthOpen"), 0) => Value("MARMouthOpen") = 0
  <2>1. /\ "MARMouthOpen" \in DOMAIN Numbers
        /\ Numbers["MARMouthOpen"].least = 0 /\ Numbers["MARMouthOpen"].most = 500
    BY SMT DEF Numbers, Float, Number
  <2> QED BY <2>1, LoadedValue, NaNIsNegative, SMT DEF AtMost
<1> QED BY <1>1, <1>2, <1>3, <1>4, <1>5, <1>6

LEMMA GuardRanges ==
  ASSUME GivenOK, Loads
  PROVE  /\ ~NotIn("MinScore", 0, 100)
         /\ ~NotIn("IdentityCosineMin", -100, 100) /\ ~Below(100, Value("IdentityCosineMin"))
         /\ (AtMost(Value("IdentityCosineMin"), 0) => Value("IdentityCosineMin") = 0)
         /\ ~NotIn("PHashMinDistance", 0, 64)
<1>1. ~NotIn("MinScore", 0, 100)
  <2>1. /\ "MinScore" \in DOMAIN Numbers
        /\ Numbers["MinScore"].least = 0 /\ Numbers["MinScore"].most = 100
    BY SMT DEF Numbers, Float, Number
  <2> QED BY <2>1, LoadedValue, NaNIsNegative, SMT DEF NotIn, Below
<1>2. ~NotIn("IdentityCosineMin", -100, 100) /\ ~Below(100, Value("IdentityCosineMin"))
      /\ (AtMost(Value("IdentityCosineMin"), 0) => Value("IdentityCosineMin") = 0)
  <2>1. /\ "IdentityCosineMin" \in DOMAIN Numbers
        /\ Numbers["IdentityCosineMin"].least = 0 /\ Numbers["IdentityCosineMin"].most = 100
    BY SMT DEF Numbers, Float, Number
  <2> QED BY <2>1, LoadedValue, NaNIsNegative, SMT DEF AtMost, Below, NotIn
<1>3. ~NotIn("PHashMinDistance", 0, 64)
  <2>1. /\ "PHashMinDistance" \in DOMAIN Numbers /\ Numbers["PHashMinDistance"].kind = "int"
        /\ Numbers["PHashMinDistance"].least = 0 /\ Numbers["PHashMinDistance"].most = 64
    BY SMT DEF Numbers, Whole, Number
  <2> QED BY <2>1, LoadedValue, NaNIsNegative, SMT DEF NotIn, Below
<1> QED BY <1>1, <1>2, <1>3

LEMMA LivenessRanges ==
  ASSUME GivenOK, Loads
  PROVE  /\ ~(Value("SessionTTL") <= 0)
         /\ ~(Value("ChallengeTimeout") <= 0)
         /\ ~(Value("ChallengeCount") < 1) /\ ~(Value("ChallengeCount") > 5)
         /\ ~(Value("MaxChallengeRetries") < 0)
<1>1. ~(Value("SessionTTL") <= 0)
  <2>1. /\ "SessionTTL" \in DOMAIN Numbers /\ Numbers["SessionTTL"].kind = "duration"
        /\ Numbers["SessionTTL"].least = 10 /\ Numbers["SessionTTL"].most = 600
    BY SMT DEF Numbers, Duration, Number
  <2> QED BY <2>1, LoadedValue, NaNIsNegative, SMT
<1>2. ~(Value("ChallengeTimeout") <= 0)
  <2>1. /\ "ChallengeTimeout" \in DOMAIN Numbers /\ Numbers["ChallengeTimeout"].kind = "duration"
        /\ Numbers["ChallengeTimeout"].least = 3 /\ Numbers["ChallengeTimeout"].most = 300
    BY SMT DEF Numbers, Duration, Number
  <2> QED BY <2>1, LoadedValue, NaNIsNegative, SMT
<1>3. ~(Value("ChallengeCount") < 1) /\ ~(Value("ChallengeCount") > 5)
  <2>1. /\ "ChallengeCount" \in DOMAIN Numbers /\ Numbers["ChallengeCount"].kind = "int"
        /\ Numbers["ChallengeCount"].least = 1 /\ Numbers["ChallengeCount"].most = 5
    BY SMT DEF Numbers, Whole, Number
  <2> QED BY <2>1, LoadedValue, NaNIsNegative, SMT
<1>4. ~(Value("MaxChallengeRetries") < 0)
  <2>1. /\ "MaxChallengeRetries" \in DOMAIN Numbers /\ Numbers["MaxChallengeRetries"].kind = "int"
        /\ Numbers["MaxChallengeRetries"].least = 0 /\ Numbers["MaxChallengeRetries"].most = 5
    BY SMT DEF Numbers, Whole, Number
  <2> QED BY <2>1, LoadedValue, NaNIsNegative, SMT
<1> QED BY <1>1, <1>2, <1>3, <1>4

LEMMA OnnxRanges ==
  ASSUME GivenOK, Loads
  PROVE  /\ ~(Value("PoolSize") < 1)
         /\ ~(Value("IntraOpThreads") < 0)
         /\ ~(Value("DetectorInputSize") <= 0)
         /\ ~NotIn("MinDetectionScore", 0, 100)
         /\ ~AtMost(Value("DetectorNMSIoU"), 0) /\ ~Below(100, Value("DetectorNMSIoU"))
<1>1. ~(Value("PoolSize") < 1)
  <2>1. /\ "PoolSize" \in DOMAIN Numbers /\ Numbers["PoolSize"].kind = "int"
        /\ Numbers["PoolSize"].least = 1 /\ Numbers["PoolSize"].most = 64
    BY SMT DEF Numbers, Whole, Number
  <2> QED BY <2>1, LoadedValue, NaNIsNegative, SMT
<1>2. ~(Value("IntraOpThreads") < 0)
  <2>1. /\ "IntraOpThreads" \in DOMAIN Numbers /\ Numbers["IntraOpThreads"].kind = "int"
        /\ Numbers["IntraOpThreads"].least = 0 /\ Numbers["IntraOpThreads"].most = 128
    BY SMT DEF Numbers, Whole, Number
  <2> QED BY <2>1, LoadedValue, NaNIsNegative, SMT
<1>3. ~(Value("DetectorInputSize") <= 0)
  <2>1. /\ "DetectorInputSize" \in DOMAIN Numbers /\ Numbers["DetectorInputSize"].kind = "int"
        /\ Numbers["DetectorInputSize"].least = 128 /\ Numbers["DetectorInputSize"].most = 1920
    BY SMT DEF Numbers, Whole, Number
  <2> QED BY <2>1, LoadedValue, NaNIsNegative, SMT
<1>4. ~NotIn("MinDetectionScore", 0, 100)
  <2>1. /\ "MinDetectionScore" \in DOMAIN Numbers
        /\ Numbers["MinDetectionScore"].least = 0 /\ Numbers["MinDetectionScore"].most = 100
    BY SMT DEF Numbers, Float, Number
  <2> QED BY <2>1, LoadedValue, NaNIsNegative, SMT DEF NotIn, Below
<1>5. ~AtMost(Value("DetectorNMSIoU"), 0) /\ ~Below(100, Value("DetectorNMSIoU"))
  <2>1. /\ "DetectorNMSIoU" \in DOMAIN Numbers
        /\ Numbers["DetectorNMSIoU"].least = 1 /\ Numbers["DetectorNMSIoU"].most = 100
    BY SMT DEF Numbers, Float, Number
  <2> QED BY <2>1, LoadedValue, NaNIsNegative, SMT DEF AtMost, Below
<1> QED BY <1>1, <1>2, <1>3, <1>4, <1>5

LEMMA OthersRanges ==
  ASSUME GivenOK, Loads
  PROVE  /\ ~Below(100, Value("MatchCosineMin")) /\ (AtMost(Value("MatchCosineMin"), 0) => Value("MatchCosineMin") = 0)
         /\ ~(Value("SearchTopK") < 1)
         /\ ~(Value("TokenTTL") <= 0)
         /\ ~(Value("HNSWEfSearch") < 1)
<1>1. ~Below(100, Value("MatchCosineMin")) /\ (AtMost(Value("MatchCosineMin"), 0) => Value("MatchCosineMin") = 0)
  <2>1. /\ "MatchCosineMin" \in DOMAIN Numbers
        /\ Numbers["MatchCosineMin"].least = 0 /\ Numbers["MatchCosineMin"].most = 100
    BY SMT DEF Numbers, Float, Number
  <2> QED BY <2>1, LoadedValue, NaNIsNegative, SMT DEF AtMost, Below
<1>2. ~(Value("SearchTopK") < 1)
  <2>1. /\ "SearchTopK" \in DOMAIN Numbers /\ Numbers["SearchTopK"].kind = "int"
        /\ Numbers["SearchTopK"].least = 1 /\ Numbers["SearchTopK"].most = 1000
    BY SMT DEF Numbers, Whole, Number
  <2> QED BY <2>1, LoadedValue, NaNIsNegative, SMT
<1>3. ~(Value("TokenTTL") <= 0)
  <2>1. /\ "TokenTTL" \in DOMAIN Numbers /\ Numbers["TokenTTL"].kind = "duration"
        /\ Numbers["TokenTTL"].least = 30 /\ Numbers["TokenTTL"].most = 3600
    BY SMT DEF Numbers, Duration, Number
  <2> QED BY <2>1, LoadedValue, NaNIsNegative, SMT
<1>4. ~(Value("HNSWEfSearch") < 1)
  <2>1. /\ "HNSWEfSearch" \in DOMAIN Numbers /\ Numbers["HNSWEfSearch"].kind = "int"
        /\ Numbers["HNSWEfSearch"].least = 1 /\ Numbers["HNSWEfSearch"].most = 1000
    BY SMT DEF Numbers, Whole, Number
  <2> QED BY <2>1, LoadedValue, NaNIsNegative, SMT
<1> QED BY <1>1, <1>2, <1>3, <1>4

(* What crossValidate has made sure of. *)
LEMMA CrossRules ==
  ASSUME Loads
  PROVE  /\ Value("DetectorInputSize") % 32 = 0
         /\ ~AtMost(Value("BlinkOpenRatio"), Value("BlinkCloseRatio"))
BY DEF Loads, Problems, CrossProblems

(* Whatever the environment says, what loads is accepted by every component, but   *)
(* for the thresholds that may load as zero.                                       *)
THEOREM LoadedIsBuilt == GivenOK => WhatLoadsIsBuilt
<1> SUFFICES ASSUME GivenOK, Loads
             PROVE  \A v \in RefusedByComponents :
                      v \in {"MARMouthOpen", "MatchCosineMin", "IdentityCosineMin"} /\ Value(v) = 0
  BY DEF WhatLoadsIsBuilt
<1> DEFINE MayBeZero == {v \in {"MARMouthOpen", "MatchCosineMin", "IdentityCosineMin"} : Value(v) = 0}
<1>1. Thresholds \subseteq MayBeZero
  BY ThresholdsRanges, CrossRules, Zenon DEF Thresholds
<1>2. Guard = {}
  BY GuardRanges, Zenon DEF Guard
<1>3. Liveness = {}
  BY LivenessRanges, Zenon DEF Liveness
<1>4. Onnx = {}
  BY OnnxRanges, CrossRules, Zenon DEF Onnx
<1>5. EnrollmentService \subseteq MayBeZero
  BY OthersRanges, GuardRanges, Zenon DEF EnrollmentService
<1>6. TokenService = {} /\ FaceRepo = {} /\ ChallengeSet = {}
  BY OthersRanges, LivenessRanges, Zenon DEF TokenService, FaceRepo, ChallengeSet
<1> QED BY <1>1, <1>2, <1>3, <1>4, <1>5, <1>6 DEF RefusedByComponents

----------------------------------------------------------------------------
(* What the run builds up is an environment and a file of these. *)
OperatorsInv == SamplesOK /\ GivenOK

(* Each behaviour builds up a file whose measurements are on the scale, or an     *)
(* environment whose variables each say something they can say.                   *)
THEOREM OperatorsInvariance == Spec => []OperatorsInv
<1>1. Init => OperatorsInv
  BY DEF Init, ConfigInit, CalibrationInit, OperatorsInv, SamplesOK, GivenOK
<1>2. OperatorsInv /\ [Next]_vars => OperatorsInv'
  <2> SUFFICES ASSUME OperatorsInv, [Next]_vars
               PROVE  OperatorsInv'
    OBVIOUS
  <2>1. CASE Configuring
    <3>1. PICK v \in Variables \ DOMAIN given : \E said \in Sayings(v) :
            given' = [w \in DOMAIN given \cup {v} |-> IF w = v THEN said ELSE given[w]]
      BY <2>1 DEF Configuring, Give
    <3>2. PICK said \in Sayings(v) :
            given' = [w \in DOMAIN given \cup {v} |-> IF w = v THEN said ELSE given[w]]
      BY <3>1
    <3>3. Sayable(v, said)
      BY SayingsAreSayable
    <3>4. DOMAIN given' = DOMAIN given \cup {v}
      BY <3>2
    <3>5. \A w \in DOMAIN given' : Sayable(w, given'[w])
      BY <3>2, <3>3 DEF OperatorsInv, GivenOK
    <3>6. GivenOK'
      BY <3>4, <3>5 DEF OperatorsInv, GivenOK, Sayable
    <3> QED BY <2>1, <3>6 DEF Configuring, OperatorsInv, SamplesOK
  <2>2. CASE Measuring
    <3>1. PICK label \in Labels, half \in 0..(Top \div 2) :
            samples' = Append(samples, [label |-> label, value |-> 2 * half])
      BY <2>2 DEF Measuring, Measure
    <3>2. 2 * half \in 0..Top
      BY CalibrationAssumption
    <3>3. [label |-> label, value |-> 2 * half] \in Sample
      BY <3>2 DEF Sample
    <3>4. samples' \in Seq(Sample)
      BY <3>1, <3>3 DEF OperatorsInv, SamplesOK
    <3> QED BY <2>2, <3>4 DEF Measuring, Measure, OperatorsInv, SamplesOK, GivenOK
  <2>3. CASE UNCHANGED vars
    BY <2>3 DEF vars, OperatorsInv, SamplesOK, GivenOK
  <2> QED BY <2>1, <2>2, <2>3 DEF Next
<1> QED BY <1>1, <1>2, PTL DEF Spec

(* In every environment a behaviour builds up, a configuration that loads is one  *)
(* the components accept, but for thresholds that are zero.                       *)
THEOREM OnlyZeroesAreRefused == Spec => []WhatLoadsIsBuilt
<1>1. OperatorsInv => WhatLoadsIsBuilt
  BY LoadedIsBuilt DEF OperatorsInv
<1> QED BY <1>1, OperatorsInvariance, PTL

(* However many measurements the file has, and however long their scale, Sweep    *)
(* misses no threshold that would give other rates.                               *)
THEOREM SweepIsComplete == Spec => []SweepMissesNoThreshold
<1>1. OperatorsInv => SweepMissesNoThreshold
  BY NoThresholdIsMissed DEF OperatorsInv
<1> QED BY <1>1, OperatorsInvariance, PTL

(* Of however many measurements, on whatever scale, and for whichever rate is     *)
(* asked for, the operating points are the best there are.                        *)
THEOREM SweepPointsAreBest == Spec => []OperatingPointsAreBest
<1>1. OperatorsInv => OperatingPointsAreBest
  BY PointsAreBest DEF OperatorsInv
<1> QED BY <1>1, OperatorsInvariance, PTL
=============================================================================
