---------------------------- MODULE WidgetSelect ----------------------------
(***************************************************************************)
(* A checklist or a menu (src/src/widget_select.c) over a list of which a  *)
(* contiguous range of rows is shown (widget_list_vbox.c).  Options have a *)
(* text, of which the search compares folded letters, and take one row or  *)
(* more.  Every handler is followed by a render of the widget (ui_update,  *)
(* or the handlers of set-value and update), which is part of its action:  *)
(* its dialog is shown.                                                    *)
(***************************************************************************)
EXTENDS Integers, Sequences, FiniteSets, FiniteSetsExt, SequencesExt

CONSTANTS
  Letters,
  Lists,        \* lists of options clients send, the empty one for "clear"
  MaxSelected,  \* values of "select"
  RowCounts,    \* heights a layout may give the list
  PrefixLimit   \* 127 in the code

VARIABLES
  made, isMenu, most,         \* most: max_selected
  options, checked,           \* what is in the list, and the boxes that are checked
  selected, cursor, finished, \* struct widget_select; cursor is its focus, 0 for none
  prefix,
  held,                       \* the select has FLAG_INFOCUS
  rows, view,                 \* the list: its h, and flags and state of its viewport
  asked,                      \* its h in the size the dialog was created with
  brought, squeezed           \* history: the option last brought into view; an
                              \* option was higher than the list when it was laid out

vars == <<made, isMenu, most, options, checked, selected, cursor, finished, prefix,
          held, rows, asked, view, brought, squeezed>>

Options == [text : Seq(Letters), height : Nat \ {0}]
ConstAssumption ==
  /\ Lists \subseteq Seq(Options) /\ MaxSelected \subseteq Int
  /\ RowCounts # {} /\ RowCounts \subseteq Nat \ {0} /\ PrefixLimit \in Nat \ {0}

-----------------------------------------------------------------------------
(* widget_list_vbox.c, on options o in r rows.  A viewport has the options *)
(* with FLAG_VISIBLE, the row the first of them begins at, and the rows of *)
(* all.                                                                    *)
RowsTo(o) ==
  LET sum[k \in 0..Len(o)] == IF k = 0 THEN 0 ELSE sum[k - 1] + o[k].height IN sum
Rows(o, i, j) == RowsTo(o)[j] - RowsTo(o)[i - 1]

Within(v) == Min(v.visible)..Max(v.visible)
SetVisible(o, v, i, j) ==
  [visible |-> i..j, offset |-> Rows(o, 1, i - 1), content |-> v.content]

AnchorFirst(o, r, v, i) ==
  SetVisible(o, v, i, Max({i} \cup {j \in i..Len(o) : Rows(o, i, j) <= r}))
AnchorLast(o, r, v, i) ==
  SetVisible(o, v, Min({i} \cup {j \in 1..i : Rows(o, j, i) <= r}), i)

EnsureVisible(o, r, v, i) ==
  IF v.visible = {} \/ i \in Within(v) THEN v
  ELSE IF i < Min(v.visible) THEN AnchorFirst(o, r, v, i) ELSE AnchorLast(o, r, v, i)

AnchorAt(o, y) == Min({Len(o)} \cup {i \in 1..Len(o) : Rows(o, 1, i) > y})

Layout(o, r, v) ==
  LET w == [v EXCEPT !.content = Rows(o, 1, Len(o))] IN
  IF v.visible = {} THEN w
  ELSE AnchorFirst(o, r, w, AnchorAt(o, Min({w.offset, Max({0, w.content - r})})))

(* PROP_SCROLL_Y with 0, its only use on a select's list. *)
ScrollTop(o, r, v) == IF o = <<>> THEN [v EXCEPT !.offset = 0] ELSE AnchorFirst(o, r, v, 1)

(* list_vbox_render hides for good what does not fit. *)
Rendered(o, r, v) ==
  LET used[i \in 0..Len(o)] ==
        IF i = 0 THEN 0
        ELSE IF i \in v.visible /\ used[i - 1] + o[i].height <= r
             THEN used[i - 1] + o[i].height ELSE used[i - 1]
  IN [v EXCEPT !.visible = {i \in @ : used[i - 1] + o[i].height <= r}]

-----------------------------------------------------------------------------
(* select_layout *)
PlainLayout(o, r, v, c) == Layout(o, r, v)  \* faulty: the cursor is left where it is
SelectLayout(o, r, v, c) ==
  IF c = 0 THEN Layout(o, r, v) ELSE EnsureVisible(o, r, Layout(o, r, v), c)

Unlaid(o) == [visible |-> DOMAIN o, offset |-> 0, content |-> 0]
TooHigh(o, r) == \E i \in DOMAIN o : o[i].height > r
First(o) == IF o = <<>> THEN 0 ELSE 1   \* select_add_child

Init ==
  /\ made = FALSE /\ isMenu = FALSE /\ most = 0
  /\ options = <<>> /\ checked = {} /\ selected = 0 /\ cursor = 0 /\ finished = FALSE
  /\ prefix = <<>> /\ held = FALSE /\ rows = Min(RowCounts) /\ asked = rows /\ view = Unlaid(<<>>)
  /\ brought = 0 /\ squeezed = FALSE

Created(o, r, c) ==
  /\ ~made /\ made' = TRUE
  /\ options' = o /\ cursor' = c /\ rows' = r /\ asked' = r
  /\ view' = Rendered(o, r, SelectLayout(o, r, Unlaid(o), c))
  /\ brought' = c /\ squeezed' = TooHigh(o, r)
  /\ UNCHANGED <<finished, prefix, held>>

(* checklistbox refuses to check more than may be selected. *)
CreateChecklist(o, r, n, boxes) ==
  /\ boxes # {} => Cardinality(boxes) <= n
  /\ most' = n /\ checked' = boxes /\ selected' = Cardinality(boxes)
  /\ Created(o, r, First(o)) /\ UNCHANGED isMenu

(* menubox and compose want an option; compose puts the cursor on any. *)
CreateMenu(o, r, c) ==
  /\ isMenu' = TRUE /\ most' = 1
  /\ Created(o, r, c) /\ UNCHANGED <<checked, selected>>

-----------------------------------------------------------------------------
(* select_render after a handler that leaves prefix p and viewport v.      *)
Show(p, v) ==
  /\ prefix' = IF held' THEN p ELSE <<>>
  /\ view' = Rendered(options, rows, v)

MoveTo(i) == cursor' = i /\ brought' = i

PrefixKept == prefix     \* faulty: the cursor moves and the prefix stays
PrefixAfterMove == <<>>  \* select_setter

Same == UNCHANGED <<made, isMenu, most, options, rows, asked, squeezed>>
Key  == made /\ held /\ UNCHANGED held

Clamped(i) == Max({1, Min({i, Len(options)})})

Navigate ==
  /\ Key /\ cursor # 0 /\ Same /\ UNCHANGED <<checked, selected, finished>>
  /\ \E i \in {cursor - 1, cursor + 1, cursor - rows, cursor + rows, 1, Len(options)} :
       /\ MoveTo(Clamped(i))
       /\ Show(PrefixAfterMove, EnsureVisible(options, rows, view, Clamped(i)))

(* The option a search finds: from start on, cyclically, the first whose   *)
(* text begins with the prefix; 0 if there is none.                        *)
Matches(p) == {i \in DOMAIN options : IsPrefix(p, options[i].text)}
Distance(i, start) == (i - start) % Len(options)
Found(p, start) ==
  IF Matches(p) = {} THEN 0
  ELSE CHOOSE i \in Matches(p) :
         \A j \in Matches(p) : Distance(i, start) <= Distance(j, start)

(* select_search: a prefix typed more than a second ago is forgotten; the  *)
(* same letter again goes on to the next option; a longer prefix nothing   *)
(* begins with starts again with its last letter.                          *)
Search(c, old) ==
  LET known == IF old THEN <<>> ELSE prefix
      cycle == known = <<c>>
      typed == IF cycle THEN known ELSE Append(known, c)
      again == <<c>>
      one   == Found(typed, IF Len(typed) = 1 THEN cursor + 1 ELSE cursor)
      two   == Found(again, cursor + 1)
  IN
  /\ Key /\ cursor # 0 /\ Same /\ UNCHANGED <<checked, selected, finished>>
  /\ IF ~cycle /\ Len(known) = PrefixLimit
     THEN UNCHANGED <<cursor, brought>> /\ Show(known, view)
     ELSE IF one # 0
     THEN MoveTo(one) /\ Show(typed, EnsureVisible(options, rows, view, one))
     ELSE IF two # 0
     THEN MoveTo(two) /\ Show(again, EnsureVisible(options, rows, view, two))
     ELSE UNCHANGED <<cursor, brought>> /\ Show(<<>>, view)

(* The main loop renders the focused widget when the second is over.       *)
SearchTimeout ==
  /\ made /\ prefix # <<>> /\ Same /\ UNCHANGED <<checked, selected, cursor, finished, held, brought>>
  /\ Show(<<>>, view)

Enter ==
  /\ Key /\ isMenu /\ finished' = (cursor # 0)
  /\ Same /\ UNCHANGED <<checked, selected, cursor, brought>> /\ Show(prefix, view)

Space ==
  /\ Key /\ cursor # 0 /\ Same /\ UNCHANGED <<cursor, finished, brought>> /\ Show(<<>>, view)
  /\ \/ /\ ~isMenu /\ cursor \in checked
        /\ checked' = checked \ {cursor} /\ selected' = selected - 1
     \/ /\ ~isMenu /\ cursor \notin checked /\ selected < most
        /\ checked' = checked \cup {cursor} /\ selected' = selected + 1
     \/ /\ isMenu \/ (cursor \notin checked /\ selected >= most)
        /\ UNCHANGED <<checked, selected>>

-----------------------------------------------------------------------------
(* set-value of a checklist: with at most one to select, as a radio list.  *)
ClearedUncounted(n) == n  \* faulty: what is cleared is still counted
ClearedCount(n) == 0

SetOption(i, value) ==
  LET radio == value /\ most <= 1
      boxes == IF radio THEN {} ELSE checked
      count == IF radio THEN ClearedCount(selected) ELSE selected
  IN
  /\ made /\ ~isMenu /\ i \in DOMAIN options
  /\ Same /\ UNCHANGED <<cursor, finished, held>>
  /\ \/ /\ value = (i \in checked)
        /\ UNCHANGED <<checked, selected, brought>> /\ Show(prefix, view)
     \/ /\ value # (i \in checked) /\ value /\ count >= most
        /\ checked' = boxes /\ selected' = count
        /\ UNCHANGED brought /\ Show(prefix, view)
     \/ /\ value # (i \in checked) /\ (value => count < most)
        /\ checked' = IF value THEN boxes \cup {i} ELSE boxes \ {i}
        /\ selected' = IF value THEN count + 1 ELSE count - 1
        /\ brought' = i /\ Show(prefix, EnsureVisible(options, rows, view, i))

(* set-value of a menu: the cursor, and for menubox whether it is done.    *)
SetCursor(i, done) ==
  /\ made /\ isMenu /\ i \in DOMAIN options /\ MoveTo(i) /\ finished' \in {finished, done}
  /\ Same /\ UNCHANGED <<checked, selected, held>>
  /\ Show(PrefixAfterMove, EnsureVisible(options, rows, view, i))

(* widget_menu_replace_options: refused if one of the options is wider or  *)
(* higher than the list.                                                   *)
Replace(o, c, wide) ==
  /\ made /\ isMenu
  /\ UNCHANGED <<made, isMenu, most, checked, held, rows, asked>>
  /\ \/ /\ wide \/ TooHigh(o, rows)
        /\ UNCHANGED <<options, selected, cursor, finished, prefix, view, brought, squeezed>>
     \/ /\ ~wide /\ ~TooHigh(o, rows)
        /\ options' = o /\ cursor' = c /\ brought' = c
        /\ selected' = 0 /\ finished' = FALSE /\ prefix' = <<>> /\ squeezed' = FALSE
        /\ LET laid == SelectLayout(o, rows, [view EXCEPT !.visible = DOMAIN o], c)
               top  == ScrollTop(o, rows, laid)
           IN view' = Rendered(o, rows, IF c = 0 THEN top ELSE EnsureVisible(o, rows, top, c))

Focus ==
  /\ made /\ held' = ~held
  /\ Same /\ UNCHANGED <<checked, selected, cursor, finished, brought>> /\ Show(prefix, view)

(* daemon_instances_resize: the terminal leaves the dialog its size or less. *)
Resize(r) ==
  /\ made /\ r <= asked /\ rows' = r
  /\ view' = Rendered(options, r, SelectLayout(options, r, view, cursor))
  /\ brought' = cursor /\ squeezed' = (squeezed \/ TooHigh(options, r))
  /\ prefix' = IF held THEN prefix ELSE <<>>
  /\ UNCHANGED <<made, isMenu, most, options, checked, selected, cursor, finished, held, asked>>

Cursors(o) == IF o = <<>> THEN {0} ELSE DOMAIN o

Next ==
  \/ \E o \in Lists, r \in RowCounts :
       \/ \E n \in MaxSelected, boxes \in SUBSET DOMAIN o : CreateChecklist(o, r, n, boxes)
       \/ \E c \in DOMAIN o : CreateMenu(o, r, c)
  \/ Navigate \/ Enter \/ Space \/ Focus \/ SearchTimeout
  \/ \E c \in Letters, old \in BOOLEAN : Search(c, old)
  \/ \E i \in DOMAIN options, b \in BOOLEAN : SetOption(i, b) \/ SetCursor(i, b)
  \/ \E o \in Lists, wide \in BOOLEAN : \E c \in Cursors(o) : Replace(o, c, wide)
  \/ \E r \in RowCounts : Resize(r)

Spec == Init /\ [][Next]_vars

-----------------------------------------------------------------------------
(* The count that limits a checklist is of the boxes that are checked,     *)
(* through keys, set-values and a new list; the cursor is on an option     *)
(* while there is one, and a menu is done only with a choice; the search   *)
(* prefix that is underlined, and that the next letter extends, is one of  *)
(* the option under the cursor (select_search, select_render).             *)
ChoiceSound ==
  /\ selected = Cardinality(checked) /\ (made => selected <= Max({most, 0}))
  /\ checked \subseteq DOMAIN options
  /\ cursor \in Cursors(options) \cup (IF made THEN {} ELSE {0})
  /\ finished => isMenu /\ cursor # 0
  /\ prefix # <<>> => cursor # 0 /\ IsPrefix(prefix, options[cursor].text)

(* The rows shown are a range that fits the list, the scroll bar tells     *)
(* where it begins, and the option last moved to, changed or laid out is   *)
(* in it (Documentation/plainmouthd-commands.md: "scrolls the new selection*)
(* into view"), as long as no option is, or was, higher than the list.     *)
InView(i) == i \in view.visible
BroughtIntoView ==
  made /\ ~squeezed /\ options # <<>> =>
    /\ view.visible # {} /\ view.visible = Within(view)
    /\ Rows(options, Min(view.visible), Max(view.visible)) <= rows
    /\ view.offset = Rows(options, 1, Min(view.visible) - 1)
    /\ InView(brought)
=============================================================================
