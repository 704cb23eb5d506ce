------------------------------ MODULE FlexAxis ------------------------------
(***************************************************************************)
(* How a box deals out its space to its children along one axis            *)
(* (distribute_flex_axis of src/src/widget.c, and its two callers in       *)
(* widget_vbox.c and widget_hbox.c), in integers.  A child is a record of  *)
(* its preferred, least and greatest size (0: no greatest one) and of its  *)
(* weights when there is space left over or missing.                       *)
(***************************************************************************)
LOCAL INSTANCE Integers
LOCAL INSTANCE Sequences
LOCAL INSTANCE FiniteSets
LOCAL INSTANCE FiniteSetsExt
LOCAL INSTANCE SequencesExt

Child(pref, min, max, grow, shrink) ==
  [pref |-> pref, min |-> min, max |-> max, grow |-> grow, shrink |-> shrink]

Total(s) == MapThenSumSet(LAMBDA i : s[i], DOMAIN s)
Prefs(cs) == [i \in DOMAIN cs |-> IF cs[i].pref > 0 THEN cs[i].pref ELSE cs[i].min]

Available(size, padding, gap, n) == Max({0, size - 2 * padding - (n - 1) * gap})

-----------------------------------------------------------------------------
(* Shares of what is left over, up to the greatest sizes; what the integer *)
(* shares leave goes to the first that can take one more.                  *)
Capped(c, n) == IF c.max > 0 THEN Min({c.max, n}) ELSE n

Grow(cs, extra) ==
  LET weight == MapThenSumSet(LAMBDA i : cs[i].grow, DOMAIN cs)
      share  == [i \in DOMAIN cs |-> IF weight = 0 THEN 0 ELSE (extra * cs[i].grow) \div weight]
      sizes  == [i \in DOMAIN cs |-> Capped(cs[i], Prefs(cs)[i] + share[i])]
      takers == {i \in DOMAIN cs : cs[i].grow > 0 /\ (cs[i].max = 0 \/ sizes[i] < cs[i].max)}
      first  == {i \in takers : Cardinality({j \in takers : j < i}) < extra - Total(share)}
  IN [i \in DOMAIN cs |-> IF i \in first THEN sizes[i] + 1 ELSE sizes[i]]

(* A round of cuts among the children above their least size.              *)
Round(cs, st) ==
  LET active == {i \in DOMAIN cs : st.sizes[i] > cs[i].min}
      weight == MapThenSumSet(LAMBDA i : cs[i].shrink, active)
      cut(i) == Min({st.sizes[i] - cs[i].min, (st.deficit * cs[i].shrink) \div weight})
      sizes  == [i \in DOMAIN cs |-> IF i \in active THEN st.sizes[i] - cut(i) ELSE st.sizes[i]]
  IN IF st.deficit = 0 \/ weight = 0 THEN st
     ELSE [sizes |-> sizes, deficit |-> st.deficit - (Total(st.sizes) - Total(sizes))]

(* Each round but the last cuts something, so there are at most as many as *)
(* cells are missing.                                                      *)
Rounds(cs, missing) ==
  FoldLeft(LAMBDA st, k : Round(cs, st), [sizes |-> Prefs(cs), deficit |-> missing],
           [k \in 1..missing |-> k])

(* What is missing still is taken from the last children, whatever their   *)
(* weights.                                                                *)
Shrink(cs, missing) ==
  LET st      == Rounds(cs, missing)
      room(i) == st.sizes[i] - cs[i].min
      left(i) == Max({0, st.deficit - MapThenSumSet(room, i + 1..Len(cs))})
  IN [i \in DOMAIN cs |-> st.sizes[i] - Min({left(i), room(i)})]

Distribute(cs, available) ==
  IF available >= Total(Prefs(cs)) THEN Grow(cs, available - Total(Prefs(cs)))
  ELSE Shrink(cs, Total(Prefs(cs)) - available)

-----------------------------------------------------------------------------
(* The axis is used up exactly, unless the children need more than it has  *)
(* or may not take all of it; each has at least its least size, more than  *)
(* the preferred one only when nobody was cut, and never more than the     *)
(* greatest one when there is space left over.                             *)
Fits(cs, available, sizes) ==
  LET ample == available >= Total(Prefs(cs)) IN
  /\ ample =>
       /\ Total(sizes) <= available
       /\ \A i \in DOMAIN cs : sizes[i] >= Capped(cs[i], Prefs(cs)[i])
       /\ (\E i \in DOMAIN cs : cs[i].grow > 0) /\ (\A i \in DOMAIN cs : cs[i].grow > 0 => cs[i].max = 0)
            /\ (\A i \in DOMAIN cs : cs[i].max = 0 \/ Prefs(cs)[i] <= cs[i].max)
            => Total(sizes) = available
       /\ \A i \in DOMAIN cs : cs[i].max > 0 => sizes[i] <= cs[i].max
  /\ ~ample =>
       /\ \A i \in DOMAIN cs : sizes[i] \in cs[i].min..Prefs(cs)[i]
       /\ Total(sizes) = Max({available, MapThenSumSet(LAMBDA i : cs[i].min, DOMAIN cs)})
=============================================================================
