---------------------------- MODULE Calibration ----------------------------
(***************************************************************************)
(* How sure the system is of a field, when that is too little, and where   *)
(* the floor should be.  Pure operators.  Confidences and penalties are in *)
(* hundredths, a composite one and a floor in ten-thousandths; NULL is a   *)
(* confidence nobody measured.                                             *)
(***************************************************************************)
EXTENDS Integers, FiniteSetsExt

CONSTANTS
  NULL,
  Thresholds    \* the floors that are swept, in ten-thousandths

\* What the confidence of a field is composed of.
Evidence == [elements : SUBSET (Nat \cup {NULL}), llm : Nat \cup {NULL},
             populated : Nat, expected : Nat]

\* Linear in the fields that have a value.
CompletenessPenalty(populated, expected) ==
  IF expected <= 0 THEN 100 ELSE Min({100, (100 * populated) \div expected})

\* The weakest cited element, text that was never recognised left aside.
OcrConfidence(elements) == IF elements \ {NULL} = {} THEN NULL ELSE Min(elements \ {NULL})

\* compose: the weaker of the two, times the penalty.
Final(evidence) ==
  LET known == {OcrConfidence(evidence.elements), evidence.llm} \ {NULL}
  IN IF known = {} THEN NULL
     ELSE Min(known) * CompletenessPenalty(evidence.populated, evidence.expected)

\* link_fields: an accepted value is flagged below its floor, and a field that
\* tolerates no error also when nothing was measured.
IsFlagged(evidence, floor, zeroTolerance) ==
  \/ Final(evidence) # NULL /\ Final(evidence) < floor
  \/ Final(evidence) = NULL /\ zeroTolerance

(***************************************************************************)
(* The calibration curve.  A sample is a measured confidence and whether   *)
(* the value was wrong.                                                    *)
(***************************************************************************)
FlaggedBelow(samples, t) == {s \in samples : s.confidence < t}
Errors(samples) == {s \in samples : s.wrong}

\* (Variant, to test the checks: a value right at the floor does not escape.)
EscapedAbove(samples, t) == {s \in Errors(samples) : s.confidence > t}

Escaped(samples, t) == {s \in Errors(samples) : s.confidence >= t}

\* Escape rates are compared with a target in percent.
IsViable(samples, t, target) ==
  100 * Cardinality(Escaped(samples, t)) <= target * Cardinality(Errors(samples))

\* recommend: the viable floor that flags fewest, the lowest of equals.
Recommend(samples, target) ==
  LET viable == {t \in Thresholds : IsViable(samples, t, target)}
      Cost(t) == Cardinality(FlaggedBelow(samples, t))
  IN IF viable = {} THEN NULL
     ELSE CHOOSE t \in viable : \A u \in viable : Cost(t) < Cost(u) \/ (Cost(t) = Cost(u) /\ t <= u)

\* gather_samples: the fields with a measured confidence.
Samples(fields) ==
  {[id |-> f.id, confidence |-> Final(f.evidence), wrong |-> f.wrong] :
     f \in {g \in fields : Final(g.evidence) # NULL}}
=============================================================================
