---------------------------- MODULE GaugeStream ----------------------------
(***************************************************************************)
(* The input of "plaindialog --gauge" (gauge_stream and gauge_line of      *)
(* src/src/plaindialog.c): lines that are percentages, and blocks between  *)
(* two XXX of a percentage and a text.  Each makes an update of the gauge. *)
(* How the input is cut into reads does not matter: whatever a read brings *)
(* is worked off before the next.  A text line has length 1.               *)
(***************************************************************************)
EXTENDS Integers, Sequences, FiniteSets

CONSTANTS
  MaxLines,   \* bound: lines of input
  TextSize,   \* sizeof(input->text)
  Numbers,    \* lines that are a number from 0 to 100
  Words       \* lines that are neither a number nor XXX

VARIABLES input, at, gauge, value, text, updates, outcome

vars == <<input, at, gauge, value, text, updates, outcome>>

ConstAssumption == MaxLines \in Nat /\ TextSize \in Nat

Lines == Numbers \cup Words \cup {"XXX"}
NoText == <<"none">>

Init ==
  /\ input \in UNION {[1..n -> Lines] : n \in 0..MaxLines}
  /\ at = 0 /\ gauge = "percent" /\ value = "none" /\ text = <<>>
  /\ updates = <<>> /\ outcome = "reading"

Reading == outcome = "reading" /\ at < Len(input)
Line    == input[at + 1]
Consume == at' = at + 1 /\ UNCHANGED input

Invalid ==
  /\ outcome' = "invalid"
  /\ UNCHANGED <<gauge, value, text, updates>>

(* An update of the gauge; the daemon may refuse it. *)
Update(v, t) ==
  /\ gauge' = "percent" /\ value' = v
  /\ \/ updates' = Append(updates, [value |-> v, text |-> t]) /\ UNCHANGED outcome
     \/ outcome' = "refused" /\ UNCHANGED updates

TextLine ==
  /\ Reading /\ gauge = "text" /\ Line # "XXX"
  /\ Consume
  /\ \/ /\ 2 * Len(text) + 2 < TextSize
        /\ text' = Append(text, Line)
        /\ UNCHANGED <<gauge, value, updates, outcome>>
     \/ 2 * Len(text) + 2 >= TextSize /\ Invalid

BlockBegins ==
  /\ Reading /\ gauge = "percent" /\ Line = "XXX"
  /\ Consume
  /\ gauge' = "blockPercent" /\ text' = <<>>
  /\ UNCHANGED <<value, updates, outcome>>

BlockPercent ==
  /\ Reading /\ gauge = "blockPercent"
  /\ Consume
  /\ \/ /\ Line \in Numbers
        /\ value' = Line /\ gauge' = "text"
        /\ UNCHANGED <<text, updates, outcome>>
     \/ Line \notin Numbers /\ Invalid

Percent ==
  /\ Reading /\ gauge = "percent" /\ Line # "XXX"
  /\ Consume
  /\ \/ Line \in Numbers /\ Update(Line, NoText) /\ UNCHANGED text
     \/ Line \notin Numbers /\ Invalid

BlockEndsAgain ==  \* faulty: the state is left as it is
  /\ Reading /\ gauge = "text" /\ Line = "XXX"
  /\ Consume
  /\ updates' = Append(updates, [value |-> value, text |-> text])
  /\ UNCHANGED <<gauge, value, text, outcome>>

BlockEnds ==
  /\ Reading /\ gauge = "text" /\ Line = "XXX"
  /\ Consume
  /\ Update(value, text) /\ UNCHANGED text

EndOfInput ==
  /\ outcome = "reading" /\ at = Len(input)
  /\ outcome' = IF gauge = "percent" THEN "done" ELSE "invalid"
  /\ UNCHANGED <<input, at, gauge, value, text, updates>>

Next ==
  TextLine \/ BlockBegins \/ BlockPercent \/ Percent \/ BlockEnds \/ EndOfInput

Spec == Init /\ [][Next]_vars

-----------------------------------------------------------------------------
(* The same, said of a whole input: XXX lines pair up, each pair encloses  *)
(* a number and then less text than fits, and all lines outside the pairs  *)
(* are numbers.                                                            *)
Marks(i)   == Cardinality({j \in 1..i : input[j] = "XXX"})
Opens(i)   == input[i] = "XXX" /\ Marks(i) % 2 = 1
Closes(i)  == input[i] = "XXX" /\ Marks(i) % 2 = 0
Outside(i) == input[i] # "XXX" /\ Marks(i) % 2 = 0
Opener(i)  == CHOOSE j \in 1..(i - 1) : Opens(j) /\ Marks(j) = Marks(i) - 1

WellFormed ==
  \A i \in DOMAIN input :
    /\ Outside(i) => input[i] \in Numbers
    /\ Closes(i)  => /\ i > Opener(i) + 1 /\ input[Opener(i) + 1] \in Numbers
                     /\ 2 * (i - Opener(i) - 2) < TextSize
    /\ Opens(i)   => \E j \in (i + 1)..Len(input) : Closes(j)

UpdateAt(i) ==
  IF Outside(i) THEN [value |-> input[i], text |-> NoText]
  ELSE [value |-> input[Opener(i) + 1], text |-> SubSeq(input, Opener(i) + 2, i - 1)]

(* A gauge shows exactly the percentages and texts of its input, in order, *)
(* up to the line that ends it; it succeeds only for a well-formed input,  *)
(* and is refused only for one that is not, or by the daemon               *)
(* (Documentation/plaindialog.md, --gauge).                                *)
GaugeFollowsInput ==
  LET shown == {i \in 1..at : Outside(i) \/ Closes(i)}
      nth(i) == Cardinality({j \in shown : j <= i})
      good  == IF outcome \in {"invalid", "refused"} THEN {i \in shown : i < at} ELSE shown
  IN /\ outcome = "done" => WellFormed
     /\ outcome = "invalid" => ~WellFormed
     /\ outcome = "reading" => Len(updates) = Cardinality(shown)
     /\ \A i \in good : nth(i) \in DOMAIN updates /\ updates[nth(i)] = UpdateAt(i)
=============================================================================
