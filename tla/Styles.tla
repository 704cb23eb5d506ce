------------------------------- MODULE Styles -------------------------------
(***************************************************************************)
(* Colours and attributes of dialogs (widget_style_* of src/src/widget.c,  *)
(* daemon_style.c): what a dialog does not override comes from its theme,  *)
(* what the theme does not override from the global role, each property by *)
(* itself.  Whoever overrides a colour has a colour pair of ncurses, taken *)
(* from a pool that the cells of terminal dialogs share; what a pair shows *)
(* is brought up to date when somebody who uses it is drawn.               *)
(***************************************************************************)
EXTENDS Integers, FiniteSets, FiniteSetsExt, SequencesExt

CONSTANTS
  Dialogs, Themes,
  Roles,        \* enum color_pair: a role's number is that of its own pair
  Pairs,        \* those of the pool, the numbers up to COLOR_PAIRS
  Cells,        \* colours [fg, bg] that commands in terminals write
  Initial,      \* [fg, bg, attrs] of every role at the beginning
  Changes,      \* what set-style may ask for: [fg, bg, attrs], None to keep
  None, MaxCommands

VARIABLES
  global,       \* of each role: its pair's colours and its attributes
  themes,       \* that have been defined
  alive, visible, theme,
  over,         \* of a dialog or theme and a role: what is overridden, its
                \* pair (0: none) and the colours the pair was last given
  content,      \* what ncurses shows for a pair
  slots, next,  \* widget.c's color_slots and next_color_pair
  cells,        \* of a terminal dialog: the pair of a cell's colours, or 0
  painted,      \* of a visible dialog: pair and attributes its roles have
  commands

vars ==
  <<global, themes, alive, visible, theme, over, content, slots, next, cells, painted, commands>>

Owners == Dialogs \cup Themes

ConstAssumption ==
  /\ Dialogs \cap Themes = {} /\ None \notin Owners
  /\ Pairs \subseteq Nat \ {0} /\ \A p \in Pairs : \A q \in 1..p : q < Min(Pairs) \/ q \in Pairs
  /\ Roles \cap Pairs = {} /\ MaxCommands \in Nat

Zero  == [fg |-> 0, bg |-> 0]  \* black on black
Plain == [fg |-> None, bg |-> None, attrs |-> None, pair |-> 0, current |-> Zero]
Colours(c) == [fg |-> c.fg, bg |-> c.bg]

-----------------------------------------------------------------------------
(* The pool: the least free pair from next on.                             *)
Free(s) == {p \in Pairs : p >= next /\ p \notin s}

HintKept(s, n, freed) == n  \* faulty: what is freed below is never found again
Hint(s, n, freed) == Min({n} \cup (freed \cap s))

Give(freed) == slots' = slots \ freed /\ next' = Hint(slots, next, freed)
Take(p)     == slots' = slots \cup {p} /\ next' = p + 1

-----------------------------------------------------------------------------
(* widget_style_resolve: from the global role along the theme to the       *)
(* dialog.  t is the part of the state that this brings up to date.        *)
Or(own, inherited) == IF own = None THEN inherited ELSE own
Wanted(o, base) == [fg |-> Or(o.fg, base.fg), bg |-> Or(o.bg, base.bg)]

Shown(t, pair) == IF pair \in Roles THEN Colours(global'[pair]) ELSE t.content[pair]

Updated(t, v, r, base) ==
  LET want == Wanted(t.over[v][r], Shown(t, base))
  IN IF want = t.over[v][r].current THEN t
     ELSE [content |-> [t.content EXCEPT ![t.over[v][r].pair] = want],
           over    |-> [t.over EXCEPT ![v][r].current = want]]

Merge(st, v, r) ==
  LET o == st.t.over[v][r]
  IN [t     |-> IF o.pair = 0 THEN st.t ELSE Updated(st.t, v, r, st.pair),
      pair  |-> IF o.pair = 0 THEN st.pair ELSE o.pair,
      attrs |-> Or(o.attrs, st.attrs)]

Above(v) == IF v \in Dialogs /\ theme'[v] # None THEN <<theme'[v]>> ELSE <<>>

Resolve(t, chain, r) ==
  FoldLeft(LAMBDA st, v : Merge(st, v, r), [t |-> t, pair |-> r, attrs |-> global'[r].attrs], chain)

(* widget_render_tree of the dialogs in ds: see widget_style_apply_widget. *)
Paint(st, d, r) ==
  LET res == Resolve(st.t, Append(Above(d), d), r)
  IN [t |-> res.t, painted |-> [st.painted EXCEPT ![d][r] = [pair |-> res.pair, attrs |-> res.attrs]]]

Render(t, ds) ==
  \E st \in {FoldLeft(LAMBDA s, dr : Paint(s, dr[1], dr[2]), [t |-> t, painted |-> painted],
                      SetToSeq((ds \cap visible') \X Roles))} :
    content' = st.t.content /\ over' = st.t.over /\ painted' = st.painted

Now == [content |-> content, over |-> over]

-----------------------------------------------------------------------------
Unpainted == [r \in Roles |-> [pair |-> r, attrs |-> None]]

Command == commands < MaxCommands /\ commands' = commands + 1

Init ==
  /\ global = [r \in Roles |-> Initial]
  /\ themes = {} /\ alive = {} /\ visible = {} /\ theme = [d \in Dialogs |-> None]
  /\ over = [v \in Owners |-> [r \in Roles |-> Plain]]
  /\ content = [p \in Pairs |-> None] /\ slots = {} /\ next = Min(Pairs)
  /\ cells = [d \in Dialogs |-> [c \in Cells |-> 0]]
  /\ painted = [d \in Dialogs |-> Unpainted]
  /\ commands = 0

(* set-style of a role: both colours, attributes or all three.             *)
SetGlobal(r, c) ==
  /\ Command /\ (c.fg = None <=> c.bg = None)
  /\ global' = [global EXCEPT ![r] =
       [fg |-> Or(c.fg, @.fg), bg |-> Or(c.bg, @.bg), attrs |-> Or(c.attrs, @.attrs)]]
  /\ UNCHANGED <<themes, alive, visible, theme, slots, next, cells>>
  /\ Render(Now, Dialogs)

(* Who is drawn again after a change of v (ui_process_task_set_style).     *)
Itself(v) == {v} \cap Dialogs  \* faulty: the dialogs of a theme are forgotten
Users(v)  == {d \in Dialogs : d = v \/ theme[d] = v}

Known(v) == v \in alive \cup themes

Kept(o, c) ==
  [o EXCEPT !.fg = Or(c.fg, @), !.bg = Or(c.bg, @), !.attrs = Or(c.attrs, @)]

(* The record a pair that has just been taken begins with, or one that     *)
(* keeps what an earlier pair was given.                                   *)
WithOldPair(o, p) == [o EXCEPT !.pair = p]  \* faulty
WithPair(o, p)    == [o EXCEPT !.pair = p, !.current = None]

(* set-style with id or style, widget_style_override.  A pair can fail to  *)
(* be had, or (new) to be set up: nothing has changed then, and a theme    *)
(* this would have defined is not.                                         *)
Override(v, r, c) ==
  LET o     == Kept(over[v][r], c)
      needs == (c.fg # None \/ c.bg # None) /\ o.pair = 0
      with(n) == [Now EXCEPT !.over[v][r] = n]
      apply(n) == LET t == with(n) IN
        Render(IF n.pair = 0 THEN t
               ELSE Updated(Resolve(t, Above(v), r).t, v, r, Resolve(t, Above(v), r).pair), Users(v))
  IN /\ Command /\ v \in alive \cup Themes
     /\ UNCHANGED <<global, alive, visible, theme, cells>>
     /\ \/ /\ ~needs /\ themes' = themes \cup ({v} \cap Themes)
           /\ UNCHANGED <<slots, next>> /\ apply(o)
        \/ /\ needs /\ Free(slots) # {} /\ themes' = themes \cup ({v} \cap Themes)
           /\ Take(Min(Free(slots))) /\ apply(WithPair(o, Min(Free(slots))))
        \/ /\ needs /\ UNCHANGED <<themes, slots, next>> /\ Render(Now, {})
        \/ /\ needs /\ Free(slots) # {} /\ UNCHANGED <<themes, slots>>
           /\ next' = Min(Free(slots)) /\ Render(Resolve(Now, Above(v), r).t, {})

(* set-style with reset.                                                   *)
Reset(v, r) ==
  /\ Command /\ Known(v) /\ Give({over[v][r].pair})
  /\ UNCHANGED <<global, themes, alive, visible, theme, cells>>
  /\ Render([Now EXCEPT !.over[v][r] = Plain], Users(v))

(* What daemon_style_apply or create refuse: an unknown dialog, theme or   *)
(* property, a reset with overrides, one colour without the other for all. *)
Refuse == UNCHANGED vars

(* create with style or without, delete (widget_free, screen_free).        *)
Create(d, v) ==
  /\ Command /\ d \notin alive /\ v \in themes \cup {None}
  /\ alive' = alive \cup {d} /\ visible' = visible \cup {d}
  /\ theme' = [theme EXCEPT ![d] = v]
  /\ UNCHANGED <<global, themes, slots, next, cells>> /\ Render(Now, {d})

PairsOf(d) == {over[d][r].pair : r \in Roles} \cup {cells[d][c] : c \in Cells}

Delete(d) ==
  /\ d \in alive /\ alive' = alive \ {d} /\ visible' = visible \ {d}
  /\ theme' = [theme EXCEPT ![d] = None] /\ Give(PairsOf(d))
  /\ cells' = [cells EXCEPT ![d] = [c \in Cells |-> 0]]
  /\ over' = [over EXCEPT ![d] = [r \in Roles |-> Plain]]
  /\ painted' = [painted EXCEPT ![d] = Unpainted]
  /\ UNCHANGED <<global, themes, content, commands>>

(* A terminal too small for the dialog, and one large enough again.        *)
Hide(d) ==
  /\ d \in visible /\ visible' = visible \ {d}
  /\ UNCHANGED <<global, themes, alive, theme, over, content, slots, next, cells, painted, commands>>

Show(d) ==
  /\ d \in alive \ visible /\ visible' = visible \cup {d}
  /\ UNCHANGED <<global, themes, alive, theme, slots, next, cells, commands>> /\ Render(Now, {d})

(* screen_pair, of a cell a command has written; without a pair it is drawn *)
(* in the pair of the window role.                                         *)
Cell(d, c) ==
  /\ d \in visible /\ cells[d][c] = 0 /\ Free(slots) # {}
  /\ UNCHANGED <<global, themes, alive, visible, theme, over, painted, commands>>
  /\ LET p == Min(Free(slots)) IN
     \/ /\ Take(p) /\ content' = [content EXCEPT ![p] = c] /\ cells' = [cells EXCEPT ![d][c] = p]
     \/ next' = p /\ UNCHANGED <<content, cells, slots>>

Next ==
  \/ Refuse
  \/ \E r \in Roles, c \in Changes : SetGlobal(r, c) \/ \E v \in Owners : Override(v, r, c)
  \/ \E v \in Owners, r \in Roles : Reset(v, r)
  \/ \E d \in Dialogs : \/ \E v \in Themes \cup {None} : Create(d, v)
                        \/ Delete(d) \/ Hide(d) \/ Show(d) \/ \E c \in Cells : Cell(d, c)

Spec == Init /\ [][Next]_vars

-----------------------------------------------------------------------------
(* Each pair that is taken has one user, each that has a user is taken, and *)
(* none below the place the search begins at is free.                      *)
PairsAccounted ==
  LET uses == {u \in Owners \X Roles : over[u[1]][u[2]].pair # 0}
      used == {u \in Dialogs \X Cells : cells[u[1]][u[2]] # 0}
      taken == {over[u[1]][u[2]].pair : u \in uses} \cup {cells[u[1]][u[2]] : u \in used}
  IN /\ slots = taken /\ Cardinality(taken) = Cardinality(uses) + Cardinality(used)
     /\ \A p \in Pairs \ slots : p >= next

(* What each property of a role should be: the dialog's, else the theme's, *)
(* else the global one.                                                    *)
Nearest(d, r, property) ==
  Or(over[d][r][property],
     IF theme[d] = None THEN global[r][property]
     ELSE Or(over[theme[d]][r][property], global[r][property]))

Look(pair) == IF pair \in Roles THEN Colours(global[pair]) ELSE content[pair]

(* Visible dialogs look as the last set-style of themselves, their theme   *)
(* and the global role say, cells have the colours they were written with, *)
(* whoever had their pair before (Documentation/plainmouthd-commands.md:117 *)
(* "Local instance overrides take priority over theme properties; theme    *)
(* properties take priority over global properties, independently for      *)
(* foreground, background, and text attributes"), and no pair is lost to   *)
(* the pool.                                                               *)
StylesShown ==
  /\ PairsAccounted
  /\ \A d \in visible, r \in Roles :
       /\ Look(painted[d][r].pair) = [fg |-> Nearest(d, r, "fg"), bg |-> Nearest(d, r, "bg")]
       /\ painted[d][r].attrs = Nearest(d, r, "attrs")
  /\ \A d \in alive, c \in Cells : cells[d][c] # 0 => content[cells[d][c]] = c
=============================================================================
