----------------------------- MODULE MCWidgets -----------------------------
(***************************************************************************)
(* The focus ring of two dialogs, and the widgets that take keys once they *)
(* have the focus, one at a time: part says whether a behaviour is one of  *)
(* the ring (FocusRing), of an input field (WidgetInput), of a list        *)
(* (WidgetSelect), of a number field (WidgetSpinbox), of an area that      *)
(* scrolls (ScrollArea) or of the dialogs' colours (Styles).  They share   *)
(* no state; the parts a behaviour is not of stay as they began.           *)
(***************************************************************************)
EXTENDS MCFocusRing

CONSTANTS Chars, WidthOf, MaxText, Limits, Values, Columns
CONSTANTS Letters, Lists, MaxSelected, RowCounts, PrefixLimit
CONSTANTS IntMax, Digits, Fields, SetValues
CONSTANTS Forms, Sizes
CONSTANTS Themes, Roles, Pairs, Cells, Initial, Changes, MaxCommands

VARIABLES part
VARIABLES
  buffer, len, cap, index, viewStart, cursorX, maxLength, revision, finished,
  finishOnEnter, masked, columns
VARIABLES
  made, isMenu, most, options, checked, selected, cursor, chosen, prefix, held,
  rows, asked, view, brought, squeezed
VARIABLES field, value, editBuf, editLen, negative, number, meant
VARIABLES form, size, created, area, pad, content, bars, scroll, item, shown
VARIABLES
  global, themes, alive, onScreen, theme, over, colours, slots, next, cells, painted,
  commands

I == INSTANCE WidgetInput
S == INSTANCE WidgetSelect WITH finished <- chosen
N == INSTANCE WidgetSpinbox
A == INSTANCE ScrollArea WITH asked <- created, focused <- item, brought <- shown
C == INSTANCE Styles WITH Dialogs <- Ids, visible <- onScreen, content <- colours

MCWidthOf == [c \in Chars |-> CASE c = "x" -> 1 [] c = "wide" -> 2 [] OTHER -> 0]
MCValues  == {<<>>, <<"x", "comb">>, <<"wide", "x">>, <<"comb", "x", "wide">>}

MCOption(text, height) == [text |-> text, height |-> height]
MCLists ==
  {<<>>,
   <<MCOption(<<"a">>, 1), MCOption(<<"a", "b", "a">>, 2), MCOption(<<"b">>, 1)>>,
   <<MCOption(<<"a", "b">>, 1), MCOption(<<"a", "a">>, 1), MCOption(<<"a">>, 1)>>}

MCField(min, max, width) == [min |-> min, max |-> max, step |-> 2, width |-> width]
MCFields == {MCField(-12, 9, 3), MCField(0, 15, 2), MCField(-16, 15, 4)}
MCSetValues == {-16, 0, 15}

MCItem(y, x, h, w, gap, stretch) ==
  [y |-> y, x |-> x, h |-> h, w |-> w, gap |-> gap, stretch |-> stretch]
MCForm(items, limit, above, below, gap) ==
  [items |-> items, visible |-> limit, above |-> above, below |-> below, gap |-> gap,
   padding |-> 0, composed |-> FALSE, isText |-> FALSE]
MCText(items) ==
  [MCForm(items, 0, <<A!Child(1, 1, 0, 0, 1)>>, <<A!Child(1, 1, 0, 1, 1)>>, 1)
     EXCEPT !.composed = TRUE, !.isText = TRUE, !.padding = 1]
MCForms ==
  LET buttons == A!Child(1, 1, 0, 1, 1)
      text    == A!Child(3, 1, 0, 2, 3)
      fields  == <<MCItem(0, 2, 1, 2, 2, FALSE), MCItem(2, 4, 1, 3, 3, FALSE),
                   MCItem(4, 0, 1, 6, 0, FALSE)>>
      nodes   == <<MCItem(0, 0, 2, 3, 0, TRUE), MCItem(2, 0, 4, 2, 0, FALSE),
                   MCItem(6, 0, 1, 1, 0, TRUE)>>
  IN {MCForm(fields, v, <<>>, <<buttons>>, 0) : v \in {0, 2}}
       \cup {MCForm(fields, 2, <<text>>, <<A!Child(2, 1, 2, 1, 0)>>, 0),
             [MCForm(nodes, 0, <<text, A!Child(1, 1, 3, 1, 0)>>, <<>>, 1)
                EXCEPT !.composed = TRUE]}
       \cup {MCText(<<MCItem(0, 0, h, w, 0, FALSE)>>) : h \in {1, 3}, w \in {1, 4}}
MCSizes == {[h |-> h, w |-> w] : h \in {3, 5, 9}, w \in {3, 7}}

MCColours(fg, bg) == [fg |-> fg, bg |-> bg]
MCStyle(fg, bg, attrs) == [fg |-> fg, bg |-> bg, attrs |-> attrs]
MCCells   == {MCColours(4, 4)}
MCInitial == MCStyle(1, 0, "normal")
MCChanges == {MCStyle(0, None, None), MCStyle(3, 4, None), MCStyle(None, None, "bold")}

ASSUME WidgetsAssumption ==
  /\ I!ConstAssumption /\ S!ConstAssumption /\ N!ConstAssumption /\ A!ConstAssumption
  /\ C!ConstAssumption

inputVars ==
  <<buffer, len, cap, index, viewStart, cursorX, maxLength, revision, finished,
    finishOnEnter, masked, columns>>
selectVars ==
  <<made, isMenu, most, options, checked, selected, cursor, chosen, prefix, held,
    rows, asked, view, brought, squeezed>>
spinVars == <<field, value, editBuf, editLen, negative, number, meant>>
areaVars == <<form, size, created, area, pad, content, bars, scroll, item, shown>>
styleVars ==
  <<global, themes, alive, onScreen, theme, over, colours, slots, next, cells, painted,
    commands>>
allvars == <<part, vars, inputVars, selectVars, spinVars, areaVars, styleVars>>

Fixed == CHOOSE f \in Fields : TRUE
FixedForm == CHOOSE f \in Forms : TRUE
FixedSize == CHOOSE s \in Sizes : TRUE

AllInit ==
  /\ part \in {"ring", "input", "select", "spin", "area", "style"}
  /\ Init /\ S!Init
  /\ IF part = "input" THEN I!Init
     ELSE /\ I!Init /\ len = 0 /\ finishOnEnter /\ masked
          /\ columns = CHOOSE w \in Columns : TRUE
  /\ N!Init /\ (part # "spin" => field = Fixed /\ value = Fixed.max)
  /\ (part # "area" => form = FixedForm /\ size = FixedSize) /\ A!Init
  /\ C!Init

RingStep(F) ==
  part = "ring" /\ F /\ UNCHANGED <<part, inputVars, selectVars, spinVars, areaVars, styleVars>>
InputStep(F) ==
  part = "input" /\ F /\ UNCHANGED <<part, vars, selectVars, spinVars, areaVars, styleVars>>
SelectStep(F) ==
  part = "select" /\ F /\ UNCHANGED <<part, vars, inputVars, spinVars, areaVars, styleVars>>
SpinStep(F) ==
  part = "spin" /\ F /\ UNCHANGED <<part, vars, inputVars, selectVars, areaVars, styleVars>>
AreaStep(F) ==
  part = "area" /\ F /\ UNCHANGED <<part, vars, inputVars, selectVars, spinVars, styleVars>>
StyleStep(F) ==
  part = "style" /\ F /\ UNCHANGED <<part, vars, inputVars, selectVars, spinVars, areaVars>>

AllNext ==
  RingStep(Next) \/ InputStep(I!Next) \/ SelectStep(S!Next) \/ SpinStep(N!Next)
    \/ AreaStep(A!Next) \/ StyleStep(C!Next)

(* Of the ring, the user who keeps pressing Tab.                           *)
AllSpec == AllInit /\ [][AllNext]_allvars /\ WF_allvars(RingStep(TabNext))

(* A field's text is the line its keys and set-values make: WidgetInput.   *)
EditsAsALine == I!EditsAsALine

(* A field's cursor is on screen, at its character: module WidgetInput.    *)
CursorOnScreen == I!CursorOnScreen

(* A list's boxes, cursor and search prefix agree: module WidgetSelect.    *)
ChoiceSound == S!ChoiceSound

(* What is moved to is scrolled into view: module WidgetSelect.            *)
BroughtIntoView == S!BroughtIntoView

(* A number field has the number that was typed: module WidgetSpinbox.     *)
ValueAsTyped == N!ValueAsTyped

(* Rows, columns and scroll bars add up: module ScrollArea.                *)
SpaceUsedUp == A!SpaceUsedUp

(* The field that was moved to is on screen: module ScrollArea.            *)
FieldsInView == A!FieldsInView

(* A form area of limited height keeps the limit: module ScrollArea.       *)
VisibleLimits == A!VisibleLimits

(* Dialogs have the colours they were given: module Styles.                *)
StylesShown == C!StylesShown
=============================================================================
