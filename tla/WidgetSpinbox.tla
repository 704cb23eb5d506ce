--------------------------- MODULE WidgetSpinbox ---------------------------
(***************************************************************************)
(* A number field (src/src/widget_spinbox.c): a value stepped by keys, and *)
(* an edit buffer of decimal digits that becomes the value when the field  *)
(* is full or confirmed.  The buffer is bounded by what an int can hold,   *)
(* one more after a minus.                                                 *)
(***************************************************************************)
EXTENDS Integers, FiniteSetsExt

CONSTANTS
  IntMax,      \* stands for INT_MAX
  Digits,      \* digits that are typed
  Fields,      \* records [min, max, step, width] that plugins ask for
  SetValues    \* values that set-value gives

VARIABLES
  field, value, editBuf, editLen, negative,  \* struct widget_spinbox
  number, meant   \* history: what was typed, without a bound; the value it and
                  \* the other keys stand for

edit == <<editBuf, editLen, negative>>
vars == <<field, value, edit, number, meant>>

ConstAssumption ==
  /\ IntMax \in Nat /\ Digits \subseteq 0..9
  /\ \A f \in Fields :
       /\ {f.min, f.max} \subseteq -IntMax - 1..IntMax /\ f.min <= f.max
       /\ f.width \in Nat \ {0} /\ f.step \in Nat \ {0}
  /\ SetValues \subseteq -IntMax - 1..IntMax

Clamp(v) == IF v < field.min THEN field.min ELSE IF v > field.max THEN field.max ELSE v

(* make_spinbox, which clamps its initial value. *)
Init ==
  /\ field \in Fields
  /\ \E v \in SetValues : value = Clamp(v)
  /\ editBuf = 0 /\ editLen = 0 /\ negative = FALSE
  /\ number = 0 /\ meant = value

LengthOnly == editLen' = 0 /\ UNCHANGED <<editBuf, negative>>  \* faulty: digits and sign stay
ResetEdit  == editBuf' = 0 /\ editLen' = 0 /\ negative' = FALSE

(* A value from outside, or a step, gives up what is being typed. *)
Becomes(v) ==
  /\ value' = Clamp(v) /\ meant' = Clamp(v)
  /\ ResetEdit /\ number' = 0 /\ UNCHANGED field

Up   == Becomes(value + field.step)
Down == Becomes(value - field.step)

Backspace ==
  ResetEdit /\ number' = 0 /\ UNCHANGED <<field, value, meant>>

Signed(n) == IF negative THEN -n ELSE n

(* spinbox_commit, of a buffer and of what was typed into it. *)
Commit(buf, typed) ==
  /\ value' = Clamp(Signed(buf)) /\ meant' = Clamp(Signed(typed))
  /\ ResetEdit /\ number' = 0

Enter == editLen > 0 /\ Commit(editBuf, number) /\ UNCHANGED field

Minus ==
  /\ field.min < 0
  /\ editBuf' = 0 /\ editLen' = 0 /\ negative' = TRUE /\ number' = 0
  /\ UNCHANGED <<field, value, meant>>

Digit(d) ==
  LET limit == IF negative THEN IntMax + 1 ELSE IntMax
      buf   == Min({editBuf * 10 + d, limit})
      typed == number * 10 + d
      room  == IF negative THEN field.width - 1 ELSE field.width
  IN
  /\ IF editLen + 1 >= room THEN Commit(buf, typed)
     ELSE /\ editBuf' = buf /\ editLen' = editLen + 1 /\ number' = typed
          /\ UNCHANGED <<negative, value, meant>>
  /\ UNCHANGED field

Next ==
  \/ Up \/ Down \/ Backspace \/ Enter \/ Minus
  \/ \E d \in Digits : Digit(d)
  \/ \E v \in SetValues : Becomes(v)   \* PROP_SPINBOX_VALUE

Spec == Init /\ [][Next]_vars

-----------------------------------------------------------------------------
(* The value is the nearest in range to the number that was typed, however *)
(* many digits it had, or that was set; a sign or a digit given up with a  *)
(* step, Backspace or a set-value is in no later number; the buffer stays  *)
(* within what the code stores (Documentation/plainmouthd-commands.md on   *)
(* spinboxes, tests of spinbox input).                                     *)
ValueAsTyped ==
  /\ value \in field.min..field.max
  /\ value = meant
  /\ editBuf = Min({number, IF negative THEN IntMax + 1 ELSE IntMax})
=============================================================================
