------------------------------ MODULE LineEdit ------------------------------
(***************************************************************************)
(* What an input field promises (module WidgetInput implements it): a line *)
(* of text cut in two by the cursor, never longer than its limit, which    *)
(* keys no longer change once it is done, and a token that tells whether   *)
(* the text is still the one seen before.                                  *)
(***************************************************************************)
EXTENDS Integers, Sequences, SequencesExt

CONSTANTS Chars, MaxText

VARIABLES before, after, limit, done, token

vars == <<before, after, limit, done, token>>

Texts == BoundedSeq(Chars, MaxText)
Text  == before \o after

Init ==
  /\ before \in Texts /\ after = <<>> /\ limit = MaxText
  /\ done = FALSE /\ token = 0

(* The token differs from the one before exactly if the text does.         *)
Becomes(b, a) ==
  /\ before' = b /\ after' = a
  /\ token' = IF b \o a = Text THEN token ELSE 1 - token
  /\ UNCHANGED <<limit, done>>

Move   == ~done /\ \E i \in 0..Len(Text) :
            Becomes(SubSeq(Text, 1, i), SubSeq(Text, i + 1, Len(Text)))
Insert == ~done /\ Len(Text) < limit /\ \E c \in Chars : Becomes(Append(before, c), after)
Rubout == ~done /\ before # <<>> /\ Becomes(Front(before), after)
Delete == ~done /\ after # <<>> /\ Becomes(before, Tail(after))

Set(t)      == Len(t) <= limit /\ Becomes(t, <<>>)
SetLimit(n) == n >= Len(Text) /\ limit' = n /\ UNCHANGED <<before, after, done, token>>
SetDone(d)  == done' = d /\ UNCHANGED <<before, after, limit, token>>

Next ==
  \/ Move \/ Insert \/ Rubout \/ Delete
  \/ \E t \in Texts : Set(t)
  \/ \E n \in 0..MaxText : SetLimit(n)
  \/ \E d \in BOOLEAN : SetDone(d)

Spec == Init /\ [][Next]_vars
=============================================================================
