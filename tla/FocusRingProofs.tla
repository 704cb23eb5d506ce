-------------------------- MODULE FocusRingProofs --------------------------
(***************************************************************************)
(* Proofs about the keyboard focus, for any number of dialogs, any tree of *)
(* widgets and any sequence of requests, resizes and keys: what has the    *)
(* focus can take it and is the one thing seen to have it, and the focus   *)
(* is given up only where nobody could take it.                            *)
(***************************************************************************)
EXTENDS FocusRing, SequenceLemmas

(* The inductive invariant: the stack of panels is of dialogs, as well. *)
IInv == FocusSound /\ panels \in Seq(Ids)

-----------------------------------------------------------------------------
(* The elements of the sequences that the handlers build. *)
LEMMA ElementsOfConcat ==
  ASSUME NEW S, NEW s \in Seq(S), NEW t \in Seq(S)
  PROVE  s \o t \in Seq(S) /\ Elements(s \o t) = Elements(s) \union Elements(t)
<1>1. /\ s \o t \in Seq(S) /\ Len(s \o t) = Len(s) + Len(t)
      /\ Len(s) \in Nat /\ Len(t) \in Nat
  OBVIOUS
<1>2. \A i \in 1..Len(s) : i \in DOMAIN (s \o t) /\ (s \o t)[i] = s[i]
  BY <1>1
<1>3. \A i \in 1..Len(t) : Len(s) + i \in DOMAIN (s \o t) /\ (s \o t)[Len(s) + i] = t[i]
  BY <1>1
<1>4. ASSUME NEW i \in DOMAIN (s \o t)
      PROVE  \/ i \in 1..Len(s)
             \/ i - Len(s) \in 1..Len(t) /\ i = Len(s) + (i - Len(s))
  BY <1>1
<1>5. Elements(s \o t) \subseteq Elements(s) \union Elements(t)
  BY <1>1, <1>2, <1>3, <1>4 DEF Elements
<1>6. Elements(s) \subseteq Elements(s \o t)
  BY <1>2 DEF Elements
<1>7. ASSUME NEW i \in 1..Len(t) PROVE t[i] \in Elements(s \o t)
  <2>1. Len(s) + i \in DOMAIN (s \o t) /\ (s \o t)[Len(s) + i] = t[i]
    BY <1>3
  <2> QED
    BY <2>1 DEF Elements
<1>8. DOMAIN t = 1..Len(t)
  OBVIOUS
<1> QED
  BY <1>1, <1>5, <1>6, <1>7, <1>8 DEF Elements

(* An element more, and the elements a filter leaves.                      *)
LEMMA ElementsOfAppend ==
  ASSUME NEW S, NEW s \in Seq(S), NEW e \in S
  PROVE  /\ Append(s, e) \in Seq(S) /\ Elements(Append(s, e)) = Elements(s) \union {e}
         /\ Append(s, e) # <<>> /\ Append(s, e)[Len(Append(s, e))] = e
<1>1. /\ Append(s, e) \in Seq(S) /\ Len(Append(s, e)) = Len(s) + 1 /\ Len(s) \in Nat
      /\ Append(s, e)[Len(s) + 1] = e
  OBVIOUS
<1>2. \A i \in 1..Len(s) : i \in DOMAIN Append(s, e) /\ Append(s, e)[i] = s[i]
  BY <1>1
<1>3. \A i \in DOMAIN Append(s, e) : i \in 1..Len(s) \/ i = Len(s) + 1
  BY <1>1
<1>4. Len(s) + 1 \in DOMAIN Append(s, e)
  BY <1>1
<1>5. Elements(Append(s, e)) \subseteq Elements(s) \union {e}
  BY <1>1, <1>2, <1>3 DEF Elements
<1>6. Elements(s) \union {e} \subseteq Elements(Append(s, e))
  BY <1>1, <1>2, <1>4 DEF Elements
<1> QED
  BY <1>1, <1>5, <1>6

(* What a filter leaves is what is in both.                                *)
LEMMA ElementsOfFilter ==
  ASSUME NEW S, NEW s \in Seq(S), NEW K
  PROVE  Filter(s, K) \in Seq(S) /\ Elements(Filter(s, K)) = Elements(s) \cap K
<1>1. /\ Filter(s, K) \in Seq(S)
      /\ \A k \in 1..Len(Filter(s, K)) :
           Filter(s, K)[k] \in K /\ \E i \in 1..Len(s) : Filter(s, K)[k] = s[i]
      /\ \A i \in 1..Len(s) :
           s[i] \in K => \E k \in 1..Len(Filter(s, K)) : Filter(s, K)[k] = s[i]
  BY FilterKeeps
<1>2. DOMAIN s = 1..Len(s) /\ DOMAIN Filter(s, K) = 1..Len(Filter(s, K))
  BY <1>1
<1>3. Elements(Filter(s, K)) \subseteq Elements(s) \cap K
  BY <1>1, <1>2 DEF Elements
<1>4. ASSUME NEW i \in 1..Len(s), s[i] \in K
      PROVE  s[i] \in Elements(Filter(s, K))
  <2>1. PICK k \in 1..Len(Filter(s, K)) : Filter(s, K)[k] = s[i]
    BY <1>1, <1>4
  <2> QED
    BY <1>2, <2>1 DEF Elements
<1> QED
  BY <1>1, <1>2, <1>3, <1>4 DEF Elements

(* A stack after one of its panels, or a new one, was put on top of it. *)
LEMMA RaisePutsOnTop ==
  ASSUME NEW stack \in Seq(Ids), NEW id \in Ids
  PROVE  LET raised == Raise(stack, id)
         IN  /\ raised \in Seq(Ids) /\ Elements(raised) = Elements(stack) \union {id}
             /\ raised # <<>> /\ raised[Len(raised)] = id
<1> DEFINE rest == Filter(stack, Ids \ {id})
<1>1. rest \in Seq(Ids) /\ Elements(rest) = Elements(stack) \cap (Ids \ {id})
  BY ElementsOfFilter
<1>2. Elements(stack) \subseteq Ids
  BY DEF Elements
<1> HIDE DEF rest
<1>3. /\ Append(rest, id) \in Seq(Ids)
      /\ Elements(Append(rest, id)) = Elements(rest) \union {id}
      /\ Append(rest, id) # <<>> /\ Append(rest, id)[Len(Append(rest, id))] = id
  BY <1>1, ElementsOfAppend
<1>4. Raise(stack, id) = Append(rest, id)
  BY DEF Raise, rest
<1> QED
  BY <1>1, <1>2, <1>3, <1>4

(* Where a search finds something, what it returns is one of the places. *)
LEMMA FirstIsFound ==
  ASSUME NEW found, found \subseteq Nat, found # {}
  PROVE  (CHOOSE k \in found : \A j \in found : k <= j) \in found
BY FirstIsThere

-----------------------------------------------------------------------------
(* Going round a ring of n from any place of it, or from just before the   *)
(* first, comes by all of them.                                            *)
LEMMA ModNear ==
  ASSUME NEW n \in Nat, n # 0, NEW a \in (-n)..(2 * n - 1)
  PROVE  a % n = IF a < 0 THEN a + n ELSE IF a < n THEN a ELSE a - n
OBVIOUS

(* Stepping from one place of a ring comes by every place.                 *)
LEMMA StepsGoRound ==
  ASSUME NEW r \in Seq(Widgets), NEW w \in Elements(r) \union {None},
         NEW reverse \in BOOLEAN, None \notin Widgets
  PROVE  /\ DOMAIN Steps(r, w, reverse) = 1..Len(r)
         /\ Elements(Steps(r, w, reverse)) = Elements(r)
<1> DEFINE n == Len(r)
           i == IF w = None THEN IF reverse THEN 1 ELSE 0 ELSE IndexOf(r, w)
           place(k) == IF reverse THEN ((i - 1 - k) % n) + 1 ELSE ((i - 1 + k) % n) + 1
           steps == Steps(r, w, reverse)
<1>1. n \in Nat /\ DOMAIN r = 1..n
  OBVIOUS
<1>2. steps = [k \in 1..n |-> r[place(k)]]
  BY DEF Steps
<1>3. CASE n = 0
  BY <1>1, <1>2, <1>3 DEF Elements
<1>4. CASE n # 0
  <2>1. i \in 0..n /\ (reverse => i # 0)
    <3>1. w # None => IndexOf(r, w) \in 1..n
      BY <1>1 DEF IndexOf, Elements
    <3> QED
      BY <1>1, <1>4, <3>1
  <2> HIDE DEF i, n
  <2>2. ASSUME NEW k \in 1..n PROVE place(k) \in 1..n
    <3> DEFINE a == IF reverse THEN i - 1 - k ELSE i - 1 + k
    <3>1. a \in (-n)..(2 * n - 1)
      BY <1>1, <2>1
    <3>2. place(k) = (a % n) + 1
      OBVIOUS
    <3> HIDE DEF a
    <3>3. a % n = IF a < 0 THEN a + n ELSE IF a < n THEN a ELSE a - n
      BY <1>1, <1>4, <3>1, ModNear
    <3>4. a % n \in 0..(n - 1)
      BY <1>1, <3>1, <3>3
    <3> HIDE DEF place
    <3> QED
      BY <1>1, <3>2, <3>4
  <2>3. ASSUME NEW j \in 1..n PROVE \E k \in 1..n : place(k) = j
    <3> DEFINE k == IF reverse THEN IF j < i THEN i - j ELSE i - j + n
                    ELSE IF j > i THEN j - i ELSE j - i + n
               a == IF reverse THEN i - 1 - k ELSE i - 1 + k
    <3>1. k \in 1..n
      BY <1>1, <2>1
    <3>2. a \in (-n)..(2 * n - 1) /\ (a = j - 1 \/ a = j - 1 - n \/ a = j - 1 + n)
      BY <1>1, <2>1
    <3>3. place(k) = (a % n) + 1
      OBVIOUS
    <3> HIDE DEF a, k
    <3>4. a % n = IF a < 0 THEN a + n ELSE IF a < n THEN a ELSE a - n
      BY <1>1, <1>4, <3>2, ModNear
    <3>5. a % n = j - 1
      BY <1>1, <3>2, <3>4
    <3> HIDE DEF place
    <3> QED
      BY <1>1, <3>1, <3>3, <3>5
  <2> HIDE DEF n, place, steps
  <2> QED
    BY <1>1, <1>2, <2>2, <2>3 DEF Elements, n, steps
<1> QED
  BY <1>3, <1>4

(* find_focus: a widget of the ring that takes input, or nobody, if no     *)
(* widget of the ring does.                                                *)
LEMMA FindFocusFinds ==
  ASSUME NEW r \in Seq(Widgets), NEW w \in Elements(r) \union {None},
         NEW reverse \in BOOLEAN, NEW off, None \notin Widgets
  PROVE  LET next == FindFocus(r, w, reverse, off)
         IN  \/ next \in Elements(r) /\ next # None /\ Interactive(next, off)
             \/ next = None /\ \A v \in Elements(r) : ~Interactive(v, off)
<1> DEFINE tried == Steps(r, w, reverse)
           found == {k \in DOMAIN tried : Interactive(tried[k], off)}
           first == CHOOSE k \in found : \A j \in found : k <= j
<1>1. DOMAIN tried = 1..Len(r) /\ Elements(tried) = Elements(r)
  BY StepsGoRound
<1>2. FindFocus(r, w, reverse, off) = IF found = {} THEN None ELSE tried[first]
  BY DEF FindFocus
<1>3. found \subseteq Nat
  BY <1>1
<1>4. found # {} => first \in found
  <2> HIDE DEF found
  <2> QED
    BY <1>3, FirstIsFound
<1>5. \A v \in Elements(r) : v # None
  BY DEF Elements
<1>6. CASE found # {}
  <2>1. first \in DOMAIN tried /\ Interactive(tried[first], off)
    BY <1>4, <1>6
  <2>2. tried[first] \in Elements(tried)
    BY <2>1 DEF Elements
  <2> QED
    BY <1>1, <1>2, <1>5, <1>6, <2>1, <2>2
<1>7. CASE found = {}
  <2>1. \A v \in Elements(tried) : ~Interactive(v, off)
    BY <1>7 DEF Elements
  <2> QED
    BY <1>1, <1>2, <1>7, <2>1
<1> QED
  BY <1>6, <1>7

-----------------------------------------------------------------------------
Distinct(s) == \A i, j \in DOMAIN s : s[i] = s[j] => i = j

(* Two sequences without repetitions and without an element in common.     *)
LEMMA DistinctConcat ==
  ASSUME NEW S, NEW s \in Seq(S), NEW t \in Seq(S), Distinct(s), Distinct(t),
         \A e \in Elements(s) : e \notin Elements(t)
  PROVE  Distinct(s \o t)
<1> DEFINE n == Len(s)
           m == Len(t)
<1>1. n \in Nat /\ m \in Nat /\ DOMAIN s = 1..n /\ DOMAIN t = 1..m
  OBVIOUS
<1>2. /\ DOMAIN (s \o t) = 1..(n + m)
      /\ \A i \in 1..(n + m) : (s \o t)[i] = IF i <= n THEN s[i] ELSE t[i - n]
  OBVIOUS
<1> HIDE DEF n, m
<1>3. SUFFICES ASSUME NEW i \in 1..(n + m), NEW j \in 1..(n + m), (s \o t)[i] = (s \o t)[j]
               PROVE  i = j
  BY <1>2 DEF Distinct
<1>4. CASE i <= n /\ j <= n
  <2>1. i \in DOMAIN s /\ j \in DOMAIN s /\ s[i] = s[j]
    BY <1>1, <1>2, <1>3, <1>4
  <2> QED
    BY <2>1 DEF Distinct
<1>5. CASE ~(i <= n) /\ ~(j <= n)
  <2>1. i - n \in DOMAIN t /\ j - n \in DOMAIN t /\ t[i - n] = t[j - n]
    BY <1>1, <1>2, <1>3, <1>5
  <2>2. i - n = j - n
    BY <2>1 DEF Distinct
  <2> QED
    BY <1>1, <2>2
<1>6. CASE i <= n /\ ~(j <= n)
  <2>1. i \in DOMAIN s /\ j - n \in DOMAIN t /\ s[i] = t[j - n]
    BY <1>1, <1>2, <1>3, <1>6
  <2> QED
    BY <2>1 DEF Elements
<1>7. CASE ~(i <= n) /\ j <= n
  <2>1. j \in DOMAIN s /\ i - n \in DOMAIN t /\ s[j] = t[i - n]
    BY <1>1, <1>2, <1>3, <1>7
  <2> QED
    BY <2>1 DEF Elements
<1> QED
  BY <1>4, <1>5, <1>6, <1>7

(* No element twice before, none twice after.                              *)
LEMMA DistinctFilter ==
  ASSUME NEW S, NEW s \in Seq(S), NEW K, Distinct(s)
  PROVE  Distinct(Filter(s, K))
<1>1. Filter(s, K) \in Seq(S)
  BY FilterKeeps
<1>2. DOMAIN s = 1..Len(s) /\ DOMAIN Filter(s, K) = 1..Len(Filter(s, K))
  BY <1>1
<1>3. \A i, j \in 1..Len(s) : s[i] = s[j] => i = j
  BY <1>2 DEF Distinct
<1> QED
  BY <1>2, <1>3, FilterKeeps DEF Distinct

(* What use_instance_widgets puts into the ring: widgets of that dialog,   *)
(* each once.                                                              *)
LEMMA FocusableOfDialog ==
  ASSUME PreorderAssumption, NEW id \in Ids
  PROVE  Focusable(id) \in Seq({id} \X Nodes) /\ Distinct(Focusable(id))
<1> DEFINE walk == Preorder[Root]
           nodes == Filter(walk, CanFocus[id])
<1>1. walk \in Seq(Nodes) /\ Distinct(walk)
  BY DEF PreorderAssumption, Distinct
<1> HIDE DEF walk
<1>2. nodes \in Seq(Nodes) /\ Distinct(nodes)
  BY <1>1, FilterKeeps, DistinctFilter
<1>3. Focusable(id) = [i \in DOMAIN nodes |-> <<id, nodes[i]>>]
  BY DEF Focusable, walk
<1> HIDE DEF nodes
<1>4. DOMAIN nodes = 1..Len(nodes) /\ Len(nodes) \in Nat
  BY <1>2
<1>5. \A i \in DOMAIN nodes : nodes[i] \in Nodes
  BY <1>2
<1>6. Focusable(id) \in Seq({id} \X Nodes)
  BY <1>3, <1>4, <1>5
<1>7. ASSUME NEW i \in DOMAIN Focusable(id), NEW j \in DOMAIN Focusable(id),
             Focusable(id)[i] = Focusable(id)[j]
      PROVE  i = j
  <2>1. i \in DOMAIN nodes /\ j \in DOMAIN nodes /\ nodes[i] = nodes[j]
    BY <1>3, <1>7
  <2> QED
    BY <1>2, <2>1 DEF Distinct
<1> QED
  BY <1>6, <1>7 DEF Distinct

-----------------------------------------------------------------------------
(* Who is in the ring is a widget of a living dialog. *)
LEMMA RingOfLiving ==
  ASSUME TypeOK
  PROVE  /\ Alive \subseteq Ids /\ ring \in Seq(Widgets) /\ Distinct(ring)
         /\ Elements(ring) \subseteq Widgets
         /\ \A v \in Elements(ring) : v[1] \in Alive
<1>1. Alive \subseteq Ids
  BY DEF TypeOK, Alive, Elements
<1>2. \A i \in DOMAIN ring : ring[i] \in Alive \X Nodes
  BY DEF TypeOK
<1>3. \A i \in DOMAIN ring : ring[i] \in Widgets /\ ring[i][1] \in Alive
  BY <1>1, <1>2 DEF Widgets
<1>4. ring \in Seq(Widgets)
  BY <1>3 DEF TypeOK
<1> QED
  BY <1>1, <1>3, <1>4 DEF Elements, TypeOK, Distinct

(* The focus moves with its mark, and the panel of who gets it to the top. *)
LEMMA FocusOnMovesAll ==
  ASSUME None \notin Widgets, OneInFocus, NEW stack \in Seq(Ids),
         NEW w \in Widgets \union {None}, FocusOn(w, stack)
  PROVE  /\ focused' = w /\ OneInFocus' /\ panels' \in Seq(Ids)
         /\ w = None => panels' = stack
         /\ w # None => OnTop' /\ Elements(panels') = Elements(stack) \union {w[1]}
<1>1. focused' = w /\ OneInFocus'
  BY DEF FocusOn, OneInFocus
<1>2. CASE w = None
  BY <1>1, <1>2 DEF FocusOn
<1>3. CASE w # None
  <2>1. w[1] \in Ids /\ panels' = Raise(stack, w[1])
    BY <1>3 DEF FocusOn, Widgets
  <2>2. /\ panels' \in Seq(Ids) /\ Elements(panels') = Elements(stack) \union {w[1]}
        /\ panels' # <<>> /\ panels'[Len(panels')] = w[1]
    BY <2>1, RaisePutsOnTop
  <2> QED
    BY <1>1, <1>3, <2>2 DEF OnTop
<1> QED
  BY <1>2, <1>3

(* What a handler must leave behind for the moving of the focus at its end *)
(* to restore the invariant.                                               *)
LEMMA FocusOnRestores ==
  ASSUME TreeAssumption, OneInFocus,
         instances' \in Seq(Ids), ring' \in Seq(Alive' \X Nodes), Distinct(ring'),
         blocked' \subseteq Alive' \X Nodes, visible' \subseteq Alive',
         events' \in 0..MaxEvents,
         NEW stack \in Seq(Ids), Elements(stack) \subseteq Alive',
         NEW w, w = None \/ (w \in Elements(ring') /\ Interactive(w, blocked')),
         FocusOn(w, stack)
  PROVE  IInv'
<1>1. None \notin Widgets
  BY DEF TreeAssumption, Widgets
<1>2. Alive' \subseteq Ids
  BY DEF Alive, Elements
<1>3. w \in Elements(ring') => w \in Widgets /\ w[1] \in Alive'
  <2>1. \A i \in DOMAIN ring' : ring'[i] \in Alive' \X Nodes
    OBVIOUS
  <2> QED
    BY <1>2, <2>1 DEF Elements, Widgets
<1>4. w \in Widgets \union {None}
  BY <1>3
<1>5. /\ focused' = w /\ OneInFocus' /\ panels' \in Seq(Ids)
      /\ w = None => panels' = stack
      /\ w # None => OnTop' /\ Elements(panels') = Elements(stack) \union {w[1]}
  BY <1>1, <1>4, FocusOnMovesAll
<1>6. inFocus' \subseteq Widgets
  BY <1>4, <1>5 DEF OneInFocus
<1>7. Elements(panels') \subseteq Alive'
  BY <1>3, <1>5
<1>8. focused' \in Elements(ring') \union {None}
  BY <1>5
<1>9. TypeOK'
  BY <1>6, <1>7, <1>8 DEF TypeOK, Distinct
<1>10. FocusInteractive'
  BY <1>5 DEF FocusInteractive
<1> QED
  BY <1>5, <1>9, <1>10 DEF IInv, FocusSound

(* Handlers that look for a widget from where the focus is, and change no  *)
(* dialog: Tab, and the check of the focus after an update.                *)
LEMMA SearchSound ==
  ASSUME TreeAssumption, IInv, UNCHANGED <<instances, ring, visible>>,
         blocked' \subseteq Alive \X Nodes, events' \in 0..MaxEvents,
         NEW reverse \in BOOLEAN, FocusOn(FindFocus(ring, focused, reverse, blocked'), panels)
  PROVE  IInv' /\ GivenUpForCause
<1> DEFINE w == FindFocus(ring, focused, reverse, blocked')
<1>1. None \notin Widgets
  BY DEF TreeAssumption, Widgets
<1>2. TypeOK /\ OneInFocus /\ panels \in Seq(Ids)
  BY DEF IInv, FocusSound
<1>3. focused \in Elements(ring) \union {None} /\ ring \in Seq(Widgets) /\ Distinct(ring)
  BY <1>2, RingOfLiving DEF TypeOK
<1>4. \/ w \in Elements(ring) /\ w # None /\ Interactive(w, blocked')
      \/ w = None /\ \A v \in Elements(ring) : ~Interactive(v, blocked')
  BY <1>1, <1>3, FindFocusFinds
<1> HIDE DEF w
<1>5. Alive' = Alive
  BY DEF Alive
<1>6. /\ instances' \in Seq(Ids) /\ ring' \in Seq(Alive' \X Nodes) /\ Distinct(ring')
      /\ visible' \subseteq Alive' /\ blocked' \subseteq Alive' \X Nodes
      /\ Elements(panels) \subseteq Alive'
  BY <1>2, <1>3, <1>5 DEF TypeOK
<1>7. FocusOn(w, panels)
  BY DEF w
<1>8. IInv'
  BY <1>2, <1>4, <1>6, <1>7, FocusOnRestores
<1>9. focused' = w
  BY <1>7 DEF FocusOn
<1> QED
  BY <1>4, <1>8, <1>9 DEF GivenUpForCause

-----------------------------------------------------------------------------
(* A new dialog brings its widgets into the ring, and the focus to one of  *)
(* them if nobody had it; whoever had it keeps it, and the place on top.   *)
LEMMA CreateSound ==
  ASSUME TreeAssumption, PreorderAssumption, IInv, NEW id \in Ids, Create(id)
  PROVE  IInv' /\ GivenUpForCause
<1> DEFINE w == IF focused # None THEN focused ELSE FindFocus(ring', None, FALSE, blocked')
           stack == Append(panels, id)
<1>1. /\ TypeOK /\ FocusInteractive /\ OneInFocus /\ panels \in Seq(Ids)
      /\ None \notin Widgets
  BY DEF IInv, FocusSound, TreeAssumption, Widgets
<1>2. /\ Alive \subseteq Ids /\ ring \in Seq(Widgets) /\ Distinct(ring)
      /\ Elements(ring) \subseteq Widgets
      /\ \A v \in Elements(ring) : v[1] \in Alive
  BY <1>1, RingOfLiving
<1>3. id \notin Alive /\ instances' = Append(instances, id)
  BY DEF Create
<1>4. instances' \in Seq(Ids) /\ Alive' = Alive \union {id}
  BY <1>1, <1>3, ElementsOfAppend DEF TypeOK, Alive
<1>5. stack \in Seq(Ids) /\ Elements(stack) = Elements(panels) \union {id}
  BY <1>1, ElementsOfAppend
<1>6. ring' = Focusable(id) \o ring
  BY DEF Create
<1>7. Focusable(id) \in Seq({id} \X Nodes) /\ Distinct(Focusable(id))
  BY FocusableOfDialog
<1>8. \A i \in DOMAIN Focusable(id) : Focusable(id)[i] \in {id} \X Nodes
  BY <1>7
<1>9. Focusable(id) \in Seq(Alive' \X Nodes) /\ ring \in Seq(Alive' \X Nodes)
  <2>1. \A i \in DOMAIN Focusable(id) : Focusable(id)[i] \in Alive' \X Nodes
    BY <1>4, <1>8
  <2>2. Focusable(id) \in Seq(Alive' \X Nodes)
    BY <1>7, <2>1
  <2>3. ring \in Seq(Alive \X Nodes)
    BY <1>1 DEF TypeOK
  <2>4. \A i \in DOMAIN ring : ring[i] \in Alive' \X Nodes
    BY <1>4, <2>3
  <2> QED
    BY <2>2, <2>3, <2>4
<1>10. /\ ring' \in Seq(Alive' \X Nodes)
       /\ Elements(ring') = Elements(Focusable(id)) \union Elements(ring)
  BY <1>6, <1>9, ElementsOfConcat
<1>11. Distinct(ring')
  <2>1. \A e \in Elements(Focusable(id)) : e[1] = id
    BY <1>8 DEF Elements
  <2>2. \A e \in Elements(Focusable(id)) : e \notin Elements(ring)
    BY <1>2, <1>3, <2>1
  <2> QED
    BY <1>2, <1>6, <1>7, <1>9, <2>2, DistinctConcat
<1>12. PICK off \in SUBSET Parts(id) : blocked' = blocked \union off
  BY DEF Create
<1>13. blocked' \subseteq Alive' \X Nodes
  BY <1>1, <1>4, <1>12 DEF TypeOK, Parts
<1>14. visible' \subseteq Alive' /\ Elements(stack) \subseteq Alive'
  BY <1>1, <1>4, <1>5 DEF TypeOK, Create
<1>15. events' \in 0..MaxEvents
  BY <1>1 DEF TypeOK, Create, Event, TreeAssumption
<1>16. w = None \/ (w \in Elements(ring') /\ Interactive(w, blocked'))
  <2>1. CASE focused # None
    <3>1. focused \in Elements(ring) /\ focused[1] # id
      BY <1>1, <1>2, <1>3, <2>1 DEF TypeOK
    <3>2. Interactive(focused, blocked)
      BY <1>1, <2>1 DEF FocusInteractive
    <3>3. \A n : <<focused[1], n>> \notin off
      BY <3>1 DEF Parts
    <3>4. Interactive(focused, blocked')
      BY <1>12, <3>2, <3>3 DEF Interactive
    <3> QED
      BY <1>10, <2>1, <3>1, <3>4
  <2>2. CASE focused = None
    <3>1. ring' \in Seq(Widgets)
      <4>1. \A i \in DOMAIN ring' : ring'[i] \in Widgets
        BY <1>2, <1>4, <1>10 DEF Widgets
      <4> QED
        BY <1>10, <4>1
    <3>2. w = FindFocus(ring', None, FALSE, blocked')
      BY <2>2
    <3> HIDE DEF w
    <3> QED
      BY <1>1, <3>1, <3>2, FindFocusFinds
  <2> QED
    BY <2>1, <2>2
<1>17. FocusOn(w, stack)
  BY DEF Create
<1>18. focused # None => w # None
  OBVIOUS
<1> HIDE DEF w, stack
<1>19. IInv'
  BY <1>1, <1>4, <1>5, <1>10, <1>11, <1>13, <1>14, <1>15, <1>16, <1>17, FocusOnRestores
<1>20. GivenUpForCause
  BY <1>17, <1>18 DEF FocusOn, GivenUpForCause
<1> QED
  BY <1>19, <1>20

(* With a dialog its widgets leave the ring, and the focus if it is one of *)
(* theirs; the panel of another that has it stays on top.                  *)
LEMMA DeleteSound ==
  ASSUME TreeAssumption, IInv, NEW id \in Ids, Delete(id)
  PROVE  IInv' /\ GivenUpForCause
<1>1. /\ TypeOK /\ FocusInteractive /\ OneInFocus /\ panels \in Seq(Ids)
      /\ focused # None /\ ~FocusHidden => OnTop
      /\ None \notin Widgets
  BY DEF IInv, FocusSound, TreeAssumption, Widgets
<1>2. /\ Alive \subseteq Ids /\ ring \in Seq(Widgets) /\ Distinct(ring)
      /\ Elements(ring) \subseteq Widgets
      /\ \A v \in Elements(ring) : v[1] \in Alive
  BY <1>1, RingOfLiving
<1>3. /\ instances' = Filter(instances, Ids \ {id})
      /\ ring' = Filter(ring, Widgets \ Parts(id))
      /\ focused' = IF focused \in Parts(id) THEN None ELSE focused
      /\ inFocus' = inFocus \ Parts(id)
      /\ blocked' = blocked \ Parts(id)
      /\ visible' = visible \ {id}
      /\ panels' = Filter(panels, Ids \ {id})
      /\ events' = events + 1 /\ events < MaxEvents
  BY DEF Delete, Event
<1>4. instances' \in Seq(Ids) /\ Alive' = Alive \cap (Ids \ {id})
  <2>1. instances \in Seq(Ids)
    BY <1>1 DEF TypeOK
  <2> QED
    BY <1>3, <2>1, ElementsOfFilter DEF Alive
<1>5. ring' \in Seq(Widgets) /\ Elements(ring') = Elements(ring) \cap (Widgets \ Parts(id))
  BY <1>2, <1>3, ElementsOfFilter
<1>6. ring' \in Seq(Alive' \X Nodes) /\ Distinct(ring')
  <2>1. ASSUME NEW v \in Elements(ring') PROVE v \in Alive' \X Nodes
    <3>1. v \in Widgets /\ v \notin Parts(id) /\ v[1] \in Alive
      BY <1>2, <1>5, <2>1
    <3>2. v[1] # id
      BY <3>1 DEF Widgets, Parts
    <3> QED
      BY <1>2, <1>4, <3>1, <3>2 DEF Widgets
  <2>2. \A i \in DOMAIN ring' : ring'[i] \in Alive' \X Nodes
    BY <2>1 DEF Elements
  <2>3. Distinct(ring')
    BY <1>2, <1>3, DistinctFilter
  <2> QED
    BY <1>5, <2>2, <2>3
<1>7. panels' \in Seq(Ids) /\ Elements(panels') = Elements(panels) \cap (Ids \ {id})
  BY <1>1, <1>3, ElementsOfFilter
<1>8. /\ blocked' \subseteq Alive' \X Nodes /\ visible' \subseteq Alive'
      /\ Elements(panels') \subseteq Alive' /\ events' \in 0..MaxEvents
  <2>1. blocked' \subseteq Alive' \X Nodes
    BY <1>1, <1>2, <1>3, <1>4 DEF TypeOK, Parts
  <2>2. visible' \subseteq Alive'
    BY <1>1, <1>2, <1>3, <1>4 DEF TypeOK
  <2>3. Elements(panels') \subseteq Alive'
    BY <1>1, <1>4, <1>7 DEF TypeOK
  <2>4. events' \in 0..MaxEvents
    BY <1>1, <1>3 DEF TypeOK, TreeAssumption
  <2> QED
    BY <2>1, <2>2, <2>3, <2>4
<1>9. CASE focused' # None
  <2>1. focused' = focused /\ focused # None /\ focused \notin Parts(id)
    BY <1>1, <1>3, <1>9
  <2>2. focused \in Elements(ring) /\ focused \in Widgets
    BY <1>1, <1>2, <2>1 DEF TypeOK
  <2>3. focused' \in Elements(ring') /\ focused[1] \in Ids \ {id}
    BY <1>5, <2>1, <2>2 DEF Widgets, Parts
  <2>4. inFocus' = {focused}
    BY <1>1, <1>3, <2>1 DEF OneInFocus
  <2>5. Interactive(focused, blocked')
    BY <1>1, <1>3, <2>1 DEF FocusInteractive, Interactive
  <2>6. ~FocusHidden' => OnTop'
    <3>1. SUFFICES ASSUME focused[1] \in visible PROVE OnTop'
      BY <1>3, <2>1 DEF FocusHidden
    <3>2. panels # <<>> /\ panels[Len(panels)] = focused[1]
      BY <1>1, <2>1, <3>1 DEF OnTop, FocusHidden
    <3>3. panels' # <<>> /\ panels'[Len(panels')] = focused[1]
      BY <1>1, <1>3, <2>3, <3>2, FilterKeepsLast
    <3> QED
      BY <2>1, <3>3 DEF OnTop
  <2>7. TypeOK'
    BY <1>4, <1>6, <1>8, <2>2, <2>3, <2>4 DEF TypeOK, Distinct
  <2> QED
    BY <1>7, <2>1, <2>4, <2>5, <2>6, <2>7
       DEF IInv, FocusSound, OneInFocus, FocusInteractive, GivenUpForCause
<1>10. CASE focused' = None
  <2>1. focused # None => focused \in Parts(id)
    BY <1>3, <1>10
  <2>2. inFocus' = {}
    BY <1>1, <1>3, <2>1 DEF OneInFocus
  <2>3. TypeOK'
    BY <1>4, <1>6, <1>8, <1>10, <2>2 DEF TypeOK, Distinct
  <2>4. IInv'
    BY <1>7, <1>10, <2>2, <2>3 DEF IInv, FocusSound, OneInFocus, FocusInteractive
  <2>5. focused # None => focused[1] \notin Alive'
    BY <1>4, <2>1 DEF Parts
  <2> QED
    BY <2>4, <2>5 DEF GivenUpForCause
<1> QED
  BY <1>9, <1>10

(* After an update the focus stays where it is, or goes to a widget that   *)
(* takes input now that what was blocked is blocked.                       *)
LEMMA UpdateSound ==
  ASSUME TreeAssumption, IInv, NEW id \in Ids, Update(id)
  PROVE  IInv' /\ GivenUpForCause
<1>1. /\ TypeOK /\ FocusInteractive /\ OneInFocus /\ panels \in Seq(Ids)
      /\ focused # None /\ ~FocusHidden => OnTop
  BY DEF IInv, FocusSound
<1>2. id \in Alive /\ UNCHANGED <<instances, ring, visible>>
  BY DEF Update
<1>3. blocked' \subseteq Alive \X Nodes /\ events' \in 0..MaxEvents
  <2>1. PICK v \in Parts(id) : blocked' \in {blocked, blocked \union {v}, blocked \ {v}}
    BY DEF Update
  <2>2. v \in Alive \X Nodes
    BY <1>2, <2>1 DEF Parts
  <2>3. events' \in 0..MaxEvents
    BY <1>1 DEF TypeOK, Update, Event, TreeAssumption
  <2> QED
    BY <1>1, <2>1, <2>2, <2>3 DEF TypeOK
<1>4. CASE focused = None \/ ~Interactive(focused, blocked')
  <2>1. FocusOn(FindFocus(ring, focused, FALSE, blocked'), panels)
    BY <1>4 DEF Update, Validate
  <2> QED
    BY <1>2, <1>3, <2>1, SearchSound
<1>5. CASE ~(focused = None \/ ~Interactive(focused, blocked'))
  <2>1. UNCHANGED <<focused, inFocus, panels>>
    BY <1>5 DEF Update, Validate
  <2>2. Alive' = Alive
    BY <1>2 DEF Alive
  <2>3. TypeOK'
    BY <1>1, <1>2, <1>3, <2>1, <2>2 DEF TypeOK
  <2>4. FocusInteractive' /\ OneInFocus'
    BY <1>1, <1>5, <2>1 DEF FocusInteractive, OneInFocus
  <2>5. (focused # None /\ ~FocusHidden => OnTop)'
    BY <1>1, <1>2, <2>1 DEF FocusHidden, OnTop
  <2> QED
    BY <1>1, <2>1, <2>3, <2>4, <2>5 DEF IInv, FocusSound, GivenUpForCause
<1> QED
  BY <1>4, <1>5

(* A request gives the focus to a widget that takes input, or changes      *)
(* nothing.                                                                *)
LEMMA RequestSound ==
  ASSUME TreeAssumption, IInv, NEW id \in Ids, NEW target, Request(id, target)
  PROVE  IInv' /\ GivenUpForCause
<1> DEFINE found == {k \in DOMAIN ring :
                       /\ ring[k][1] = id /\ Interactive(ring[k], blocked)
                       /\ target # None => ring[k][2] = target /\ id \in visible}
           first == CHOOSE k \in found : \A j \in found : k <= j
<1>1. /\ TypeOK /\ FocusInteractive /\ OneInFocus /\ panels \in Seq(Ids)
      /\ focused # None /\ ~FocusHidden => OnTop
      /\ None \notin Widgets
  BY DEF IInv, FocusSound, TreeAssumption, Widgets
<1>2. UNCHANGED <<instances, ring, blocked, visible>> /\ Alive' = Alive
  BY DEF Request, Alive
<1>3. events' \in 0..MaxEvents
  BY <1>1 DEF TypeOK, Request, Event, TreeAssumption
<1>4. CASE found = {}
  <2>1. UNCHANGED <<focused, inFocus, panels>>
    BY <1>4 DEF Request
  <2>2. TypeOK'
    BY <1>1, <1>2, <1>3, <2>1 DEF TypeOK
  <2> QED
    BY <1>1, <1>2, <2>1, <2>2
       DEF IInv, FocusSound, FocusInteractive, OneInFocus, FocusHidden, OnTop, GivenUpForCause
<1>5. CASE found # {}
  <2>1. FocusOn(ring[first], panels)
    BY <1>5 DEF Request
  <2>2. ring \in Seq(Widgets) /\ Distinct(ring) /\ Elements(ring) \subseteq Widgets
    BY <1>1, RingOfLiving
  <2>3. found \subseteq Nat
    BY <2>2
  <2>4. first \in found
    <3> HIDE DEF found
    <3> QED
      BY <1>5, <2>3, FirstIsFound
  <2>5. ring[first] \in Elements(ring) /\ Interactive(ring[first], blocked)
    BY <2>4 DEF Elements
  <2> HIDE DEF first, found
  <2>6. /\ instances' \in Seq(Ids) /\ ring' \in Seq(Alive' \X Nodes) /\ Distinct(ring')
        /\ visible' \subseteq Alive' /\ blocked' \subseteq Alive' \X Nodes
        /\ Elements(panels) \subseteq Alive'
    BY <1>1, <1>2, <2>2 DEF TypeOK
  <2>7. ring[first] \in Elements(ring') /\ Interactive(ring[first], blocked')
    BY <1>2, <2>5
  <2>8. IInv'
    BY <1>1, <1>3, <2>1, <2>6, <2>7, FocusOnRestores
  <2>9. focused' # None
    BY <1>1, <2>1, <2>2, <2>5 DEF FocusOn
  <2> QED
    BY <2>8, <2>9 DEF GivenUpForCause
<1> QED
  BY <1>4, <1>5

(* Whatever a new size of the terminal hides or shows again, if there is   *)
(* room for the dialog with the focus it is on top.                        *)
LEMMA ResizeSound ==
  ASSUME TreeAssumption, IInv, NEW hidden \in SUBSET Ids, Resize(hidden)
  PROVE  IInv' /\ GivenUpForCause
<1>1. /\ TypeOK /\ FocusInteractive /\ OneInFocus /\ panels \in Seq(Ids)
  BY DEF IInv, FocusSound
<1>2. UNCHANGED <<instances, ring, focused, inFocus, blocked>> /\ Alive' = Alive
  BY DEF Resize, Alive
<1>3. events' \in 0..MaxEvents
  BY <1>1 DEF TypeOK, Resize, Event, TreeAssumption
<1>4. PICK failed \in SUBSET (Alive \ hidden) :
        LET restored == Alive \ (hidden \union failed)
            stack == Filter(panels, Ids \ hidden)
                       \o Filter(instances, restored \ Elements(panels))
        IN  /\ visible' = (visible \ hidden) \union restored
            /\ panels' = IF focused # None /\ focused[1] \in visible'
                         THEN Raise(stack, focused[1]) ELSE stack
  BY DEF Resize
<1> DEFINE restored == Alive \ (hidden \union failed)
           kept  == Filter(panels, Ids \ hidden)
           shown == Filter(instances, restored \ Elements(panels))
           stack == kept \o shown
<1>5. Alive \subseteq Ids /\ Elements(ring) \subseteq Widgets
      /\ \A v \in Elements(ring) : v[1] \in Alive
  BY <1>1, RingOfLiving
<1>6. kept \in Seq(Ids) /\ Elements(kept) \subseteq Alive
  BY <1>1, ElementsOfFilter DEF TypeOK
<1>7. shown \in Seq(Ids) /\ Elements(shown) \subseteq Alive
  BY <1>1, ElementsOfFilter DEF TypeOK, Alive
<1>8. visible' \subseteq Alive
  BY <1>1, <1>4 DEF TypeOK
<1>9. panels' = IF focused # None /\ focused[1] \in visible'
                THEN Raise(stack, focused[1]) ELSE stack
  BY <1>4
<1> HIDE DEF kept, shown
<1>10. stack \in Seq(Ids) /\ Elements(stack) \subseteq Alive
  BY <1>6, <1>7, ElementsOfConcat
<1> HIDE DEF stack
<1>11. CASE focused # None /\ focused[1] \in visible'
  <2>1. focused[1] \in Ids /\ focused[1] \in Alive
    BY <1>5, <1>8, <1>11
  <2>2. /\ panels' \in Seq(Ids) /\ Elements(panels') = Elements(stack) \union {focused[1]}
        /\ panels' # <<>> /\ panels'[Len(panels')] = focused[1]
    BY <1>9, <1>10, <1>11, <2>1, RaisePutsOnTop
  <2>3. TypeOK'
    BY <1>1, <1>2, <1>3, <1>8, <1>10, <2>1, <2>2 DEF TypeOK
  <2> QED
    BY <1>1, <1>2, <2>2, <2>3
       DEF IInv, FocusSound, FocusInteractive, OneInFocus, OnTop, GivenUpForCause
<1>12. CASE ~(focused # None /\ focused[1] \in visible')
  <2>1. panels' = stack
    BY <1>9, <1>12
  <2>2. TypeOK'
    BY <1>1, <1>2, <1>3, <1>8, <1>10, <2>1 DEF TypeOK
  <2>3. ~(focused # None /\ ~FocusHidden)'
    BY <1>2, <1>12 DEF FocusHidden
  <2> QED
    BY <1>1, <1>2, <1>10, <2>1, <2>2, <2>3
       DEF IInv, FocusSound, FocusInteractive, OneInFocus, GivenUpForCause
<1> QED
  BY <1>11, <1>12

(* Tab goes to a widget that takes input, if there is one.                 *)
LEMMA TabSound ==
  ASSUME TreeAssumption, IInv, NEW reverse \in BOOLEAN, Tab(reverse),
         events' \in 0..MaxEvents
  PROVE  IInv' /\ GivenUpForCause
<1>1. /\ TypeOK /\ FocusInteractive /\ OneInFocus /\ panels \in Seq(Ids)
      /\ focused # None /\ ~FocusHidden => OnTop
  BY DEF IInv, FocusSound
<1>2. UNCHANGED <<instances, ring, blocked, visible>> /\ Alive' = Alive
  BY DEF Tab, Alive
<1>3. CASE FocusHidden
  <2>1. UNCHANGED <<focused, inFocus, panels>>
    BY <1>3 DEF Tab
  <2>2. TypeOK'
    BY <1>1, <1>2, <2>1 DEF TypeOK
  <2> QED
    BY <1>1, <1>2, <2>1, <2>2
       DEF IInv, FocusSound, FocusInteractive, OneInFocus, FocusHidden, OnTop, GivenUpForCause
<1>4. CASE ~FocusHidden
  <2>1. FocusOn(FindFocus(ring, focused, reverse, blocked'), panels)
    BY <1>2, <1>4 DEF Tab
  <2>2. blocked' \subseteq Alive \X Nodes
    BY <1>1, <1>2 DEF TypeOK
  <2> QED
    BY <1>2, <2>1, <2>2, SearchSound
<1> QED
  BY <1>3, <1>4

-----------------------------------------------------------------------------
(* The invariant holds at the start,                                       *)
LEMMA InitIInv == ASSUME TreeAssumption, Init PROVE IInv
BY DEF Init, TreeAssumption, IInv, FocusSound, TypeOK, FocusInteractive, OneInFocus,
       FocusHidden, Alive, Elements

(* and through every step.                                                 *)
LEMMA NextSound ==
  ASSUME TreeAssumption, PreorderAssumption, IInv, [Next]_vars
  PROVE  IInv' /\ GivenUpForCause
<1>1. Large \in SUBSET Ids /\ {} \in SUBSET Ids /\ events \in 0..MaxEvents
  BY DEF TreeAssumption, IInv, FocusSound, TypeOK
<1>2. ASSUME NEW id \in Ids, Create(id) PROVE IInv' /\ GivenUpForCause
  BY <1>2, CreateSound
<1>3. ASSUME NEW id \in Ids, Delete(id) PROVE IInv' /\ GivenUpForCause
  BY <1>3, DeleteSound
<1>4. ASSUME NEW id \in Ids, Update(id) PROVE IInv' /\ GivenUpForCause
  BY <1>4, UpdateSound
<1>5. ASSUME NEW id \in Ids, NEW target \in Nodes \union {None}, Request(id, target)
      PROVE  IInv' /\ GivenUpForCause
  BY <1>5, RequestSound
<1>6. ASSUME Resize({}) \/ Resize(Large) PROVE IInv' /\ GivenUpForCause
  BY <1>1, <1>6, ResizeSound
<1>7. CASE TabNext
  <2>1. events' \in 0..MaxEvents /\ Tab(FALSE)
    BY <1>1, <1>7 DEF TabNext
  <2> QED
    BY <2>1, TabSound
<1>8. CASE TabPrev
  <2>1. events < MaxEvents /\ events' = events + 1 /\ Tab(TRUE)
    BY <1>8 DEF TabPrev, Event
  <2>2. events' \in 0..MaxEvents
    BY <1>1, <2>1 DEF TreeAssumption
  <2> QED
    BY <2>1, <2>2, TabSound
<1>9. CASE UNCHANGED vars
  <2>1. Alive' = Alive
    BY <1>9 DEF vars, Alive
  <2> QED
    BY <1>9, <2>1 DEF vars, IInv, FocusSound, TypeOK, FocusInteractive, OneInFocus,
                      FocusHidden, OnTop, GivenUpForCause
<1> QED
  BY <1>2, <1>3, <1>4, <1>5, <1>6, <1>7, <1>8, <1>9 DEF Next

(* Whatever clients ask for and the user types, what has the focus is a    *)
(* widget of a living dialog that takes input, it alone is drawn as having *)
(* it, and no other dialog covers it.                                      *)
THEOREM FocusIsSound ==
  ASSUME TreeAssumption, PreorderAssumption PROVE Spec => []FocusSound
<1>1. Init => IInv
  BY InitIInv
<1>2. IInv /\ [Next]_vars => IInv'
  BY NextSound
<1>3. IInv => FocusSound
  BY DEF IInv
<1> QED
  BY <1>1, <1>2, <1>3, PTL DEF Spec

(* Of the steps that change more than the focus none moves it from a       *)
(* widget that may keep it: a new dialog, the check after an update, and   *)
(* the resize leave it there, and a deletion takes only its own.           *)
LEMMA StepNotStolen ==
  ASSUME TreeAssumption, IInv, [Next]_vars
  PROVE  NotStolen
<1>2. ASSUME NEW id \in Ids, Create(id) PROVE NotStolen
  BY <1>2 DEF Create, FocusOn, NotStolen
<1>3. ASSUME NEW id \in Ids, Delete(id) PROVE NotStolen
  <2>1. focused' # focused => focused \in Parts(id)
    BY <1>3 DEF Delete
  <2>2. focused \in Parts(id) => focused[1] = id
    BY DEF Parts
  <2>3. id \notin Alive'
    <3>1. instances' = Filter(instances, Ids \ {id}) /\ instances \in Seq(Ids)
      BY <1>3 DEF Delete, IInv, FocusSound, TypeOK
    <3>2. Elements(instances') = Elements(instances) \cap (Ids \ {id})
      BY <3>1, ElementsOfFilter
    <3> QED
      BY <3>2 DEF Alive
  <2> QED
    BY <2>1, <2>2, <2>3 DEF NotStolen
<1>4. ASSUME NEW id \in Ids, Update(id) PROVE NotStolen
  BY <1>4 DEF Update, Validate, NotStolen
<1>5. ASSUME NEW id \in Ids, NEW target \in Nodes \union {None}, Request(id, target)
      PROVE  NotStolen
  BY <1>5 DEF Request, NotStolen
<1>6. ASSUME Resize({}) \/ Resize(Large) PROVE NotStolen
  BY <1>6 DEF Resize, NotStolen
<1>7. ASSUME TabNext \/ TabPrev PROVE NotStolen
  BY <1>7 DEF TabNext, TabPrev, Tab, NotStolen
<1>8. ASSUME UNCHANGED vars PROVE NotStolen
  BY <1>8 DEF vars, NotStolen
<1> QED
  BY <1>2, <1>3, <1>4, <1>5, <1>6, <1>7, <1>8 DEF Next

(* The focus goes to nobody only when its dialog does, or when no widget   *)
(* in the ring takes input; and while its widget is there and takes input, *)
(* no handler moves it elsewhere but Tab's and the focus request's.        *)
THEOREM FocusIsKept ==
  ASSUME TreeAssumption, PreorderAssumption PROVE Spec => FocusKept
<1>1. Init => IInv
  BY InitIInv
<1>2. IInv /\ [Next]_vars => IInv'
  BY NextSound
<1>3. IInv /\ [Next]_vars => [GivenUpForCause /\ NotStolen]_vars
  BY NextSound, StepNotStolen
<1> QED
  BY <1>1, <1>2, <1>3, PTL DEF Spec, FocusKept
=============================================================================
