------------------------------ MODULE Parsing ------------------------------
(***************************************************************************)
(* The field parsers: what each makes of a string read off a sheet.  A     *)
(* string is the shape its parser recognises it by, a tuple whose head     *)
(* names the shape; BLANK is an empty or missing one, <<"other">> one that no *)
(* rule recognises.  A reading is typed, or flagged; "absent" is a finding *)
(* of its own and never a fallback.                                        *)
(***************************************************************************)
EXTENDS Integers, Sequences, FiniteSetsExt

CONSTANT NULL

BLANK == <<"blank">>

Flagged == [value |-> NULL, absent |-> FALSE, review |-> TRUE]
Read(v) == [value |-> v, absent |-> FALSE, review |-> FALSE]
SaysNone == [value |-> NULL, absent |-> TRUE, review |-> FALSE]

(***************************************************************************)
(* Fire rating: <<"none">>, <<"minutes", n>>, <<"label", letter>> or        *)
(* <<"hours", whole, num, den>>, where a plain number of hours is n / 1.   *)
(***************************************************************************)
FireRatingReading ==
  {BLANK, <<"other">>, <<"none">>} \cup ({"minutes"} \X Nat)
    \cup ({"label"} \X {"A", "B", "C", "D", "E"}) \cup ({"hours"} \X Nat \X Nat \X Nat)

FIRE_RATING_MINUTES == {20, 45, 60, 90}

\* What a letter may stand for in the reference works.
LetterLabels(letter) ==
  CASE letter = "A" -> {180}
    [] letter = "B" -> {60, 90}
    [] letter = "D" -> {90}
    [] letter \in {"C", "E"} -> {45}

Normalised(minutes) == IF minutes \in FIRE_RATING_MINUTES THEN Read(minutes) ELSE Flagged

\* int(round(x)) of n/d: to the nearest, a tie to the even neighbour.
Rounded(n, d) ==
  LET q == n \div d
      r == n % d
  IN IF 2 * r > d \/ (2 * r = d /\ q % 2 = 1) THEN q + 1 ELSE q

\* (Variant, to test the checks: of two readings of a label, the stricter.)
StricterLabel(raw) ==
  CASE raw[1] \in {"blank", "other"} -> Flagged
    [] raw[1] = "none" -> SaysNone
    [] raw[1] = "minutes" -> Normalised(raw[2])
    [] raw[1] = "hours" -> IF raw[4] = 0 THEN Flagged
                           ELSE Normalised(Rounded(60 * (raw[2] * raw[4] + raw[3]), raw[4]))
    [] raw[1] = "label" -> Normalised(Max(LetterLabels(raw[2])))

ParseFireRating(raw) ==
  CASE raw[1] \in {"blank", "other"} -> Flagged
    [] raw[1] = "none" -> SaysNone
    [] raw[1] = "minutes" -> Normalised(raw[2])
    [] raw[1] = "hours" -> IF raw[4] = 0 THEN Flagged
                           ELSE Normalised(Rounded(60 * (raw[2] * raw[4] + raw[3]), raw[4]))
    [] raw[1] = "label" -> LET minutes == LetterLabels(raw[2])
                           IN IF \E m \in minutes : minutes = {m}
                              THEN Normalised(CHOOSE m \in minutes : TRUE) ELSE Flagged

(***************************************************************************)
(* Size: <<"four", wf, wi, hf, hi>> is the four-digit shorthand, one digit  *)
(* each, and <<"explicit", wf, wi, hf, hi>> feet and inches written out.   *)
(***************************************************************************)
SizeReading ==
  {BLANK, <<"other">>} \cup ({"four"} \X (0..9) \X (0..9) \X (0..9) \X (0..9))
    \cup ({"explicit"} \X Nat \X Nat \X Nat \X Nat)

MAX_INCHES == 11

Inches(feet, inches) == 12 * feet + inches
TwoSizes(raw) == <<Inches(raw[2], raw[3]), Inches(raw[4], raw[5])>>

\* (Variant, to test the checks: the inches of the written-out form are not checked.)
AnyInches(raw) ==
  CASE raw[1] = "four" /\ raw[2] # 0 /\ raw[4] # 0 -> Read(TwoSizes(raw))
    [] raw[1] = "explicit" -> Read(TwoSizes(raw))
    [] OTHER -> Flagged

ParseSize(raw) ==
  CASE raw[1] = "four" /\ raw[2] # 0 /\ raw[4] # 0 -> Read(TwoSizes(raw))
    [] raw[1] = "explicit" /\ raw[3] <= MAX_INCHES /\ raw[5] <= MAX_INCHES -> Read(TwoSizes(raw))
    [] OTHER -> Flagged

\* format_size: back to feet and inches.
FormatSize(size) ==
  <<"explicit", size[1] \div 12, size[1] % 12, size[2] \div 12, size[2] % 12>>

(***************************************************************************)
(* Handing: <<"hand", letters>>, the letters left of punctuation and digits. *)
(***************************************************************************)
HandingReading == {BLANK, <<"other">>} \cup ({"hand"} \X STRING)

CANONICAL ==
  [LH |-> {"LH", "LEFTHAND", "LEFT", "L"},
   RH |-> {"RH", "RIGHTHAND", "RIGHT", "R"},
   LHR |-> {"LHR", "LHRB", "LEFTHANDREVERSE", "LEFTHANDREVERSEBEVEL"},
   RHR |-> {"RHR", "RHRB", "RIGHTHANDREVERSE", "RIGHTHANDREVERSEBEVEL"}]
NOT_HANDED == {"NA", "NONE", "-", "--", "PAIR", "DBL", "DOUBLE"}

ParseHanding(raw) ==
  CASE raw = BLANK -> Flagged
    [] raw[1] = "hand" /\ raw[2] \in NOT_HANDED -> SaysNone
    [] raw[1] = "hand" /\ \E h \in DOMAIN CANONICAL : raw[2] \in CANONICAL[h] ->
         Read(CHOOSE h \in DOMAIN CANONICAL : raw[2] \in CANONICAL[h])
    [] OTHER -> Flagged

(***************************************************************************)
(* Reference lookups.  A table is a sequence of rows in the order the       *)
(* database returns them; tokens are already stripped and upper-cased.     *)
(***************************************************************************)
\* No US code is listed twice, or is another row's BHMA number.
FinishTable(rows) ==
  /\ DOMAIN rows \subseteq Nat
  /\ \A i, j \in DOMAIN rows : rows[i].us = rows[j].us => i = j
  /\ \A i, j \in DOMAIN rows : i # j => rows[i].us # rows[j].bhma

\* No wall type is listed twice.
WallTable(rows) ==
  DOMAIN rows \subseteq Nat /\ \A i, j \in DOMAIN rows : rows[i].wall = rows[j].wall => i = j

LastOf(rows, hits) == IF hits = {} THEN Flagged ELSE Read(rows[Max(hits)])

\* (Variant, to test the checks: a code is resolved through its BHMA number.)
ByBhmaNumber(raw, rows) ==
  IF raw = BLANK THEN Flagged
  ELSE LastOf(rows, {i \in DOMAIN rows : \E j \in DOMAIN rows :
                       raw[2] \in {rows[j].us, rows[j].bhma} /\ rows[i].bhma = rows[j].bhma})

\* <<"finish", token>>.  Both nomenclatures index the same row; a later row takes a token over.
ParseFinish(raw, rows) ==
  IF raw = BLANK THEN Flagged
  ELSE LastOf(rows, {i \in DOMAIN rows : raw[2] \in {rows[i].us, rows[i].bhma}})

\* One token lies within another: both are sequences of words.
Within(s, t) ==
  \E i \in 0..(Len(t) - Len(s)) : SubSeq(t, i + 1, i + Len(s)) = s

\* <<"wall", words>>: the wall type itself, else the first row whose name holds the
\* words or is held by them.  Punctuation alone leaves no words, and any name holds those.
ParseThroatDepth(raw, rows) ==
  LET Near(words) == {i \in DOMAIN rows : /\ rows[i].wall # <<>>
                                          /\ Within(rows[i].wall, words) \/ Within(words, rows[i].wall)}
  IN CASE raw = BLANK -> Flagged
       [] raw[1] = "wall" /\ \E i \in DOMAIN rows : rows[i].wall = raw[2] ->
            LastOf(rows, {i \in DOMAIN rows : rows[i].wall = raw[2]})
       [] OTHER -> IF Near(raw[2]) = {} THEN Flagged ELSE Read(rows[Min(Near(raw[2]))])
=============================================================================
