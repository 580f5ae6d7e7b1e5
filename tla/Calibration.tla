---------------------------- MODULE Calibration ----------------------------
(***************************************************************************)
(* internal/calibrate and cmd/calibrate: from labelled measurements to the    *)
(* threshold that holds an error rate.  Values are even numbers, so that a     *)
(* threshold can lie between two, below them all or above; a rate is kept as   *)
(* the count it is computed from.                                             *)
(***************************************************************************)
EXTENDS Integers, Sequences, FiniteSets, FiniteSetsExt

CONSTANTS
  MaxSamples,  \* bound
  Top,         \* the largest value measured
  Percent      \* into how many parts a target rate is divided

ASSUME CalibrationAssumption ==
  /\ MaxSamples \in Nat
  /\ Top \in Nat
  /\ Percent \in Nat \ {0}

VARIABLES
  samples,     \* what readMeasurements has read
  direction    \* "higher" or "lower" is genuine

Labels == {"genuine", "attack", "misspelt"}

Of(label) == {i \in DOMAIN samples : samples[i].label = label}

Accepts(value, t) == IF direction = "lower" THEN value <= t ELSE value >= t

(* The rates of threshold t, of the attacks accepted and the genuine rejected. *)
FalseAccepts(t) == Cardinality({i \in Of("attack") : Accepts(samples[i].value, t)})
FalseRejects(t) == Cardinality({i \in Of("genuine") : ~Accepts(samples[i].value, t)})

Attacks == Cardinality(Of("attack"))
Genuine == Cardinality(Of("genuine"))

Swept == Of("misspelt") = {} /\ Attacks > 0 /\ Genuine > 0

Values == {samples[i].value : i \in DOMAIN samples}

(* Seeded defect: only what was measured is a candidate. *)
MeasuredOnly == Values

(* The values, and the neighbours of the least and the greatest. *)
Candidates == Values \cup {Min(Values) - 1, Max(Values) + 1}

(* The first of the candidates that is cheapest, as the scans keep the best so far. *)
First(among, Cost(_)) ==
  Min({t \in among : \A u \in among : Cost(t) <= Cost(u)})

(* How far apart the two rates are, and the point at which they are closest.  *)
Gap(t) ==
  LET apart == FalseAccepts(t) * Genuine - FalseRejects(t) * Attacks
  IN  IF apart < 0 THEN -apart ELSE apart

EqualError == First(Candidates, Gap)

WithinFAR(t, target) == FalseAccepts(t) * Percent <= target * Attacks
WithinFRR(t, target) == FalseRejects(t) * Percent <= target * Genuine

None == -100

(* Seeded defect: rejecting everyone is an operating point. *)
AtFARAtAnyCost(target) ==
  LET within == {t \in Candidates : WithinFAR(t, target)}
  IN  IF within = {} THEN None ELSE First(within, FalseRejects)

(* A target nothing reaches, or that only a threshold that rejects everyone does,  *)
(* is an error; so is a target that is no rate.                                    *)
AtFAR(target) ==
  LET within == {t \in Candidates : WithinFAR(t, target)}
      best == First(within, FalseRejects)
  IN  IF target \notin 0..Percent \/ within = {} THEN None
      ELSE IF FalseRejects(best) >= Genuine THEN None ELSE best

AtFRR(target) ==
  LET within == {t \in Candidates : WithinFRR(t, target)}
  IN  IF target \notin 0..Percent \/ within = {} THEN None
      ELSE First(within, FalseAccepts)

Separable == \E t \in Candidates : FalseAccepts(t) = 0 /\ FalseRejects(t) = 0

(* sweep -target-far far -target-frr frr, a target below zero being none: whether it *)
(* fails, and the operating points it prints before it does.                        *)
SweepCmd(far, frr) ==
  IF (far < 0 /\ frr < 0) \/ samples = <<>> \/ ~Swept THEN [fails |-> TRUE, prints |-> {}]
  ELSE LET farFails == far >= 0 /\ AtFAR(far) = None
           frrFails == frr >= 0 /\ AtFRR(frr) = None
       IN  [fails |-> farFails \/ frrFails,
            prints |-> (IF far < 0 \/ farFails THEN {} ELSE {<<"FAR", AtFAR(far)>>})
                       \cup (IF frr < 0 \/ farFails \/ frrFails THEN {} ELSE {<<"FRR", AtFRR(frr)>>})]

----------------------------------------------------------------------------
CalibrationInit == samples = <<>> /\ direction \in {"higher", "lower"}

(* A measurement read.  Blank lines and comments are skipped; a line that is no      *)
(* measurement fails the command, which then reports nothing.                      *)
Measure ==
  /\ Len(samples) < MaxSamples
  /\ \E label \in Labels, half \in 0..(Top \div 2) :
       samples' = Append(samples, [label |-> label, value |-> 2 * half])
  /\ UNCHANGED direction

----------------------------------------------------------------------------
(* Every threshold there is, not only those the sweep tries. *)
AllThresholds == -1..(Top + 1)

(* The candidates leave no behaviour of the gate out: whichever threshold one might  *)
(* choose has the rates of one of them, those that accept or reject everyone too.    *)
SweepMissesNoThreshold ==
  Swept => \A t \in AllThresholds : \E c \in Candidates :
             FalseAccepts(c) = FalseAccepts(t) /\ FalseRejects(c) = FalseRejects(t)

(* A point that is printed for a target holds it, and no threshold of all that hold  *)
(* it is better for the other class; nothing is printed for a false accept rate only  *)
(* if every threshold that holds it turns every genuine subject away; no threshold is *)
(* nearer to equal rates than the one reported; and a perfect separation is told      *)
(* exactly when there is one.                                                        *)
OperatingPointsAreBest ==
  Swept =>
    /\ \A target \in 0..Percent :
         LET within == {t \in AllThresholds : WithinFAR(t, target)}
             out == SweepCmd(target, -1)
         IN  /\ out.fails <=> \A t \in within : FalseRejects(t) = Genuine
             /\ \A p \in out.prints :
                  p[2] \in within /\ \A t \in within : FalseRejects(p[2]) <= FalseRejects(t)
    /\ \A target \in 0..Percent :
         LET within == {t \in AllThresholds : WithinFRR(t, target)}
         IN  \A p \in SweepCmd(-1, target).prints :
               p[2] \in within /\ \A t \in within : FalseAccepts(p[2]) <= FalseAccepts(t)
    /\ \A t \in AllThresholds : Gap(EqualError) <= Gap(t)
    /\ Separable <=> AtFRR(0) # None /\ FalseAccepts(AtFRR(0)) = 0
=============================================================================
