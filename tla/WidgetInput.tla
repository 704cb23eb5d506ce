---------------------------- MODULE WidgetInput ----------------------------
(***************************************************************************)
(* An input or password field (src/src/widget_input.c): a wide string in a *)
(* buffer that grows by one character, edited with memory moves, and a     *)
(* viewport of a few columns in which a character takes none, one or two.  *)
(* Every handler is followed by a render of the field (ui_update, or the   *)
(* handler of set-value), which is part of its action.  An allocation that *)
(* fails leaves the field as it was, like a key that is not taken.         *)
(***************************************************************************)
EXTENDS Integers, Sequences, FiniteSets, FiniteSetsExt, SequencesExt

CONSTANTS
  Chars,      \* printable characters
  WidthOf,    \* wcwidth of each
  MaxText,    \* stands for INT_MAX - 1, the limit of a field that is given none
  Limits,     \* limits a field may be given
  Values,     \* texts that clients create it with or set
  Columns     \* widths a layout may give the field

VARIABLES
  buffer,             \* the allocation, indexed from 0
  len, cap, index,    \* struct widget_input
  viewStart, cursorX,
  maxLength, revision, finished, finishOnEnter, masked,
  columns             \* w of the widget

line == <<buffer, len, cap, index, revision>>
view == <<viewStart, cursorX>>
vars == <<line, view, maxLength, finished, finishOnEnter, masked, columns>>

NUL  == "NUL"
Junk == "junk"   \* memory that was never written

ConstAssumption ==
  /\ WidthOf \in [Chars -> 0..2] /\ NUL \notin Chars /\ MaxText \in Nat \ {0}
  /\ Columns \subseteq Nat \ {0} /\ Limits \subseteq 0..MaxText
  /\ Values \subseteq BoundedSeq(Chars, MaxText)

(* wcsdup *)
Copy(t) == [i \in 0..Len(t) |-> IF i < Len(t) THEN t[i + 1] ELSE NUL]

-----------------------------------------------------------------------------
CharWidth(c) == IF masked THEN 1 ELSE WidthOf[c]

(* The columns of the characters before i, and of those from one on.       *)
Widths(b, i) == [k \in 0..i - 1 |-> CharWidth(b[k])]

Added(ws, i) ==
  LET sum[k \in 0..i] == IF k = 0 THEN 0 ELSE sum[k - 1] + ws[k - 1] IN sum
Taken(ws, from, i) == Added(ws, i)[i] - Added(ws, i)[from]

(* input_render: the first start, not before the present one, from which   *)
(* the cursor is reached in the columns there are, past combining          *)
(* characters that would be cut off from theirs.                           *)
FirstStart(ws, i, from, w) ==
  LET fits == Min({s \in from..i : Taken(ws, s, i) <= w})
  IN Min({s \in fits..i : s = i \/ ws[s] > 0})

StartCut(ws, i, from, w) ==  \* faulty: may begin with a detached combining character
  Min({s \in Min({from, i})..i : Taken(ws, s, i) <= w})
StartFor(ws, i, from, w) == FirstStart(ws, i, Min({from, i}), w)

Render(from) ==
  LET ws == Widths(buffer', index') IN
  /\ viewStart' = StartFor(ws, index', from, columns')
  /\ cursorX' = Min({Taken(ws, viewStart', index'), columns' - 1})

(* make_input, and its first render. *)
Init ==
  /\ \E t \in Values :
       /\ buffer = Copy(t) /\ len = Len(t) /\ cap = Len(t) + 1 /\ index = Len(t)
  /\ revision = 0 /\ maxLength = MaxText /\ finished = FALSE
  /\ finishOnEnter \in BOOLEAN /\ masked \in BOOLEAN /\ columns \in Columns
  /\ viewStart = StartFor(Widths(buffer, index), index, 0, columns)
  /\ cursorX = Min({Taken(Widths(buffer, index), viewStart, index), columns - 1})

-----------------------------------------------------------------------------
MemMove(b, to, from, n) ==
  [k \in DOMAIN b |-> IF k \in to..to + n - 1 THEN b[k - to + from] ELSE b[k]]

Revised == revision' = 1 - revision   \* only whether it changed is looked at

(* realloc, when the terminator would not fit any more. *)
Larger(b) == [i \in 0..cap |-> IF i < cap THEN b[i] ELSE Junk]
GrownLate(b) == IF cap < len + 1 THEN Larger(b) ELSE b  \* faulty: no room for the terminator
Grown(b)     == IF cap <= len + 1 THEN Larger(b) ELSE b

(* __input_append: opens a gap, the terminator moving too. *)
Opened(b) ==
  IF index < len THEN MemMove(b, index + 1, index, len - index + 1) ELSE b

Append1(c) ==
  /\ len < maxLength
  /\ buffer' = [Opened(Grown(buffer)) EXCEPT ![index] = c, ![len + 1] = NUL]
  /\ cap' = Max({cap, Cardinality(DOMAIN buffer')})
  /\ len' = len + 1 /\ Revised

Unchr ==
  /\ index > 0
  /\ buffer' =
       [(IF index < len THEN MemMove(buffer, index - 1, index, len - index + 1) ELSE buffer)
        EXCEPT ![len - 1] = NUL]
  /\ len' = len - 1 /\ Revised /\ UNCHANGED cap

-----------------------------------------------------------------------------
Key == ~finished /\ UNCHANGED <<maxLength, finishOnEnter, masked, columns>>

Insert(c) ==
  /\ Key /\ Append1(c) /\ index' = Min({index + 1, len'})
  /\ UNCHANGED finished /\ Render(viewStart)

Backspace ==
  /\ Key /\ Unchr /\ index' = Max({0, index - 1})
  /\ UNCHANGED finished /\ Render(viewStart)

Delete ==
  /\ Key /\ index # len
  /\ buffer' = MemMove(buffer, index, index + 1, len - index)
  /\ len' = len - 1 /\ Revised
  /\ UNCHANGED <<cap, index, finished>> /\ Render(viewStart)

Move ==
  /\ Key
  /\ index' \in {Max({0, index - 1}), Min({index + 1, len}), 0, len}
  /\ UNCHANGED <<buffer, len, cap, revision, finished>> /\ Render(viewStart)

Enter ==
  /\ Key /\ finishOnEnter /\ finished' = TRUE
  /\ UNCHANGED line /\ Render(viewStart)

(* PROP_INPUT_VALUE: a text longer than the limit is refused. *)
SetValue(t) ==
  /\ Len(t) <= maxLength
  /\ buffer' = Copy(t) /\ len' = Len(t) /\ cap' = Len(t) + 1 /\ index' = Len(t)
  /\ IF \A i \in 0..Len(t) : i \in DOMAIN buffer /\ buffer[i] = buffer'[i]
     THEN UNCHANGED revision ELSE Revised
  /\ UNCHANGED <<maxLength, finished, finishOnEnter, masked, columns>>
  /\ Render(0)

SetState(f) ==
  /\ finished' = f
  /\ UNCHANGED <<line, maxLength, finishOnEnter, masked, columns>> /\ Render(viewStart)

(* PROP_INPUT_MAX_LENGTH, set by the plugins when they create the field. *)
SetMaxLength(n) ==
  /\ n >= len /\ maxLength' = n
  /\ UNCHANGED <<line, finished, finishOnEnter, masked, columns>> /\ Render(viewStart)

Resize(w) ==
  /\ columns' = w
  /\ UNCHANGED <<line, maxLength, finished, finishOnEnter, masked>> /\ Render(viewStart)

Next ==
  \/ Backspace \/ Delete \/ Move \/ Enter
  \/ \E c \in Chars : Insert(c)
  \/ \E t \in Values : SetValue(t)
  \/ \E f \in BOOLEAN : SetState(f)
  \/ \E n \in Limits : SetMaxLength(n)
  \/ \E w \in Columns : Resize(w)

Spec == Init /\ [][Next]_vars

-----------------------------------------------------------------------------
(* What a reader of the string finds: up to the first terminator.          *)
Stored ==
  LET ends == {i \in DOMAIN buffer : buffer[i] = NUL} IN
  IF ends = {} THEN <<Junk>> ELSE [i \in 1..Min(ends) |-> buffer[i - 1]]

Abstract == INSTANCE LineEdit WITH
  before <- SubSeq(Stored, 1, index), after <- SubSeq(Stored, index + 1, Len(Stored)),
  limit <- maxLength, done <- finished, token <- revision

(* The memory moves amount to a line cut in two by the cursor: whatever    *)
(* keys and set-values came before, a reader of the string finds the line, *)
(* its terminator is inside the allocation, and compose's change token (the*)
(* revision) moves exactly when the text does.                             *)
EditsAsALine == Abstract!Spec

(* After every render the cursor is on a column of the field, at the one   *)
(* its character has, the whole text between start and cursor is on screen,*)
(* and the viewport begins with a character that has a column              *)
(* (input_render on detached combining characters).                        *)
CursorOnScreen ==
  /\ cap = Cardinality(DOMAIN buffer) /\ len < cap
  /\ viewStart <= index /\ index <= len
  /\ Taken(Widths(buffer, index), viewStart, index) <= columns
  /\ cursorX = Min({Taken(Widths(buffer, index), viewStart, index), columns - 1})
  /\ viewStart < index => CharWidth(buffer[viewStart]) > 0
=============================================================================
