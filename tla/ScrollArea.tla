----------------------------- MODULE ScrollArea -----------------------------
(***************************************************************************)
(* The body of a form, a composed dialog or a text view: a vertical box    *)
(* with a scroll area (src/src/widget_scroll_vbox.c) between other         *)
(* children; in the area a pad (widget_pad_box.c) that shows a part of its *)
(* contents, and the scroll bars that are needed, each of which takes a    *)
(* row or a column from the pad.  The contents are rectangles, explicit    *)
(* ones (widget_positioned.c) or stacked.                                  *)
(***************************************************************************)
EXTENDS Integers, Sequences, FiniteSets, FiniteSetsExt, SequencesExt, FlexAxis

CONSTANTS
  Forms,   \* what clients ask for: see Form
  Sizes    \* sizes [h, w] a terminal leaves for the body

VARIABLES
  form,           \* the items and the other children of the body
  size, asked,    \* of the body, and the one it was created with
  area,           \* height of the scroll area
  pad, content,   \* sizes of the viewport and of what is in it
  bars,           \* which scroll bars the last layout made room for
  scroll,         \* offsets [y, x]
  focused,        \* item with the focus, 0 for the area itself or outside
  brought         \* history: the item last brought into view, 0 if it may have
                  \* left since

vars == <<form, size, asked, area, pad, content, bars, scroll, focused, brought>>

(* visible: the form's PREFERRED height, 0 for none.  composed: a dialog   *)
(* of the compose plugin.  gap: what is between an input and the label to  *)
(* its left, 0 for none.                                                   *)
Item == [y : Nat, x : Nat, h : Nat \ {0}, w : Nat \ {0}, gap : Nat, stretch : BOOLEAN]
ConstAssumption ==
  /\ \A f \in Forms :
       /\ f.items \in Seq(Item) /\ f.visible \in Nat
       /\ f.composed \in BOOLEAN /\ f.isText \in BOOLEAN
       /\ \A s \in {f.above, f.below} : \A i \in DOMAIN s : s[i].pref >= s[i].min
  /\ \A s \in Sizes : s.h \in Nat \ {0} /\ s.w \in Nat \ {0}

-----------------------------------------------------------------------------
(* Measured and laid out contents, in a pad of width w.                    *)
Height(items) == Max({0} \cup {items[i].y + items[i].h : i \in DOMAIN items})
Width(items, w) ==
  Max({0} \cup {items[i].x + (IF items[i].stretch THEN Max({w, items[i].w}) ELSE items[i].w)
                 : i \in DOMAIN items})

Bar(shown) == LET n == IF shown THEN 1 ELSE 0 IN Child(n, n, 1, 0, 1)

(* vbox_layout and hbox_layout of the boxes in the area.                   *)
PadSize(f, h, w, b) ==
  [h |-> Distribute(<<Child(1, 1, 0, 1, 1), Bar(b.h)>>, h)[1],
   w |-> Distribute(<<Child(Max({1, Width(f.items, 0)}), 1, 0, 1, 0), Bar(b.v)>>, w)[1]]

Clamp(n, most) == Max({0, Min({n, most})})
Clamped(s, c, p) == [y |-> Clamp(s.y, Max({0, c.h - p.h})), x |-> Clamp(s.x, Max({0, c.w - p.w}))]

NoBars == [v |-> FALSE, h |-> FALSE]

(* One pass of scroll_vbox_layout with the bars wanted so far.             *)
Padded(f, p, st) ==
  LET c == [h |-> Height(f.items), w |-> Width(f.items, p.w)]
  IN [pad |-> p, content |-> c, scroll |-> Clamped(st.scroll, c, p), bars |-> st.wanted,
      wanted |-> [v |-> st.wanted.v \/ c.h > p.h, h |-> st.wanted.h \/ c.w > p.w]]

Pass(f, h, w, st) == CHOOSE l \in {Padded(f, p, st) : p \in {PadSize(f, h, w, st.wanted)}} : TRUE

TwoPasses == 2  \* faulty: a bar that makes the other one needed is not noticed
MaxPasses == 3
Passes(f, h, w, s, n) ==
  FoldLeft(LAMBDA st, k : Pass(f, h, w, st), [scroll |-> s, wanted |-> NoBars], [k \in 1..n |-> k])

(* The area in the body: visible limits it, but only until the dialog is   *)
(* measured again is it what the area prefers, too.                        *)
Preferred(f, created) ==
  IF created /\ f.visible > 0 THEN f.visible ELSE Max({1, Height(f.items)}) + 1
Body(f, created) ==
  f.above \o <<Child(Preferred(f, created), 1, f.visible, IF f.visible > 0 THEN 0 ELSE 1, 1)>>
          \o f.below
BodyRows(f, n) == Available(n, f.padding, f.gap, Len(Body(f, TRUE)))
AreaRows(f, created, n) == Distribute(Body(f, created), BodyRows(f, n))[Len(f.above) + 1]

Laid(f, created, s, at) ==
  Passes(f, AreaRows(f, created, s.h), Max({0, s.w - 2 * f.padding}), at, MaxPasses)

(* pad_box_ensure_visible of item i in layout l, with the label of an input *)
(* as far as both fit.                                                     *)
Towards(from, n, at, view) ==
  IF from < at THEN from ELSE IF from + n > at + view THEN from + n - view ELSE at

BackAlways(it, own, view) == it.gap  \* faulty: though the field needs the room
Back(it, own, view) == IF it.gap + own <= view THEN it.gap ELSE 0

Reveal(f, l, i) ==
  LET it   == f.items[i]
      own  == IF it.stretch THEN Max({l.pad.w, it.w}) ELSE it.w
      back == Back(it, own, l.pad.w)
      to   == [y |-> Towards(it.y, it.h, l.scroll.y, l.pad.h),
               x |-> Towards(it.x - back, own + back, l.scroll.x, l.pad.w)]
  IN [l EXCEPT !.scroll = Clamped(to, l.content, l.pad)]

(* Both the pad and the area around it are asked.                          *)
Reveals(f, l, i) ==
  IF i = 0 THEN l ELSE FoldLeft(LAMBDA st, asks : Reveal(f, st, i), l, <<pad, area>>)

-----------------------------------------------------------------------------
Becomes(laid) ==
  \E l \in {laid} :
    pad' = l.pad /\ content' = l.content /\ bars' = l.bars /\ scroll' = l.scroll

Now == [pad |-> pad, content |-> content, bars |-> bars, scroll |-> scroll]

Init ==
  /\ form \in Forms /\ size \in Sizes /\ asked = size
  /\ area = AreaRows(form, TRUE, size.h)
  /\ \E l \in {Laid(form, TRUE, size, [y |-> 0, x |-> 0])} :
       pad = l.pad /\ content = l.content /\ bars = l.bars /\ scroll = l.scroll
  /\ focused = 0 /\ brought = 0

(* The focus moves to an item, or to the area or away.                     *)
Focus(i) ==
  /\ form.isText => i = 0
  /\ focused' = i /\ brought' = (IF i = 0 THEN brought ELSE i)
  /\ Becomes(Reveals(form, Now, i)) /\ UNCHANGED <<form, size, asked, area>>

(* set-value of an item: compose_reveal_node, p_form_set_value.            *)
SetValue(i) ==
  /\ ~form.isText /\ brought' = i /\ Becomes(Reveals(form, Now, i))
  /\ UNCHANGED <<form, size, asked, area, focused>>

(* Keys of the area, or that its field leaves to it (widget_input_event).  *)
ScrollKey ==
  /\ \/ \E d \in {1, Max({1, pad.h}), content.h} : \E dy \in {-d, d} :
          scroll' = Clamped([scroll EXCEPT !.y = @ + dy], content, pad)
     \/ \E dx \in {-1, 1} : scroll' = Clamped([scroll EXCEPT !.x = @ + dx], content, pad)
  /\ brought' = 0
  /\ UNCHANGED <<form, size, asked, area, pad, content, bars, focused>>

(* daemon_instances_resize, of a terminal that has room for the dialog.    *)
LeastRows(f) ==
  LET cs == Body(f, FALSE) IN
  MapThenSumSet(LAMBDA i : cs[i].min, DOMAIN cs) + (Len(cs) - 1) * f.gap + 2 * f.padding

Resize(s) ==
  /\ LeastRows(form) <= s.h /\ s.h <= asked.h /\ s.w <= asked.w /\ size' = s
  /\ area' = AreaRows(form, FALSE, s.h)
  /\ Becomes(Reveals(form, Laid(form, FALSE, s, scroll), focused))
  /\ brought' = focused /\ UNCHANGED <<form, asked, focused>>

(* daemon_events_redraw, of a dialog whose plugin has a descriptor polled:  *)
(* a composed one's timer, but never a form's.  The first pass has the     *)
(* whole area as its pad: with both bars it may scroll the last row or     *)
(* column out of view.                                                     *)
Redraw ==
  /\ form.composed
  /\ area' = AreaRows(form, FALSE, size.h)
  /\ Becomes(Laid(form, FALSE, size, scroll))
  /\ brought' = (IF area' # area \/ (bars.v /\ bars.h) THEN 0 ELSE brought)
  /\ UNCHANGED <<form, size, asked, focused>>

(* compose_set_textview: another text, at its beginning, in the same place. *)
SetText(f) ==
  /\ form.isText /\ f.isText /\ form' = [form EXCEPT !.items = f.items]
  /\ Becomes(Passes(f, area, Max({0, size.w - 2 * form.padding}), [y |-> 0, x |-> 0], MaxPasses))
  /\ brought' = 0 /\ UNCHANGED <<size, asked, area, focused>>

Next ==
  \/ \E i \in 0..Len(form.items) : Focus(i)
  \/ \E i \in DOMAIN form.items : SetValue(i)
  \/ ScrollKey \/ Redraw
  \/ \E s \in Sizes : Resize(s)
  \/ \E f \in Forms : SetText(f)

Spec == Init /\ [][Next]_vars

-----------------------------------------------------------------------------
(* The body's and the area's rows and columns are dealt out as Fits says,  *)
(* and there is a scroll bar exactly where the contents are larger than    *)
(* what the bars leave of the area (scroll_vbox_layout: "Adding one        *)
(* scrollbar can make the other axis overflow as well").                   *)
SpaceUsedUp ==
  /\ \A created \in BOOLEAN :
       LET axis == Body(form, created) IN
       Fits(axis, BodyRows(form, size.h), Distribute(axis, BodyRows(form, size.h)))
  /\ bars = [v |-> content.h > pad.h, h |-> content.w > pad.w]
  /\ pad.h = Max({1, area - (IF bars.h THEN 1 ELSE 0)})

(* The field that has got the focus or a value, or has it in a terminal of *)
(* another size, is on screen, whole if it fits, with its label if both do *)
(* (Documentation/plainmouthd-commands.md:567, :569, :481), and the pad    *)
(* never shows what is outside the contents.                               *)
Shows(from, n, at, view) ==
  IF n <= view THEN at <= from /\ from + n <= at + view
  ELSE from < at + view /\ at < from + n

FieldsInView ==
  /\ scroll.y \in 0..Max({0, content.h - pad.h})
  /\ scroll.x \in 0..Max({0, content.w - pad.w})
  /\ brought # 0 =>
       LET it  == form.items[brought]
           own == IF it.stretch THEN Max({pad.w, it.w}) ELSE it.w
       IN /\ Shows(it.y, it.h, scroll.y, pad.h) /\ Shows(it.x, own, scroll.x, pad.w)
          /\ it.gap + own <= pad.w => Shows(it.x - it.gap, it.gap, scroll.x, pad.w)

(* Documentation/plainmouthd-commands.md:730: "In positioned mode, optional *)
(* `visible=N` sets the preferred height of the form area, including       *)
(* scrollbars, and limits its maximum height."  Measuring the tree again,  *)
(* for another size of the terminal, prefers the height of the contents,   *)
(* and the cuts do not look at the maximum.                                *)
VisibleLimits == form.visible > 0 => area <= form.visible
=============================================================================
