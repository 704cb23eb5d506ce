---------------------------- MODULE WidgetsProofs ----------------------------
(***************************************************************************)
(* Proofs about the widgets that take keys.                                *)
(***************************************************************************)
EXTENDS MCWidgets, SequenceLemmas

-----------------------------------------------------------------------------
(***************************************************************************)
(* The number field (N, module WidgetSpinbox).                             *)
(***************************************************************************)
SpinTypes ==
  /\ field \in Fields
  /\ value \in Int /\ meant \in Int
  /\ editBuf \in Nat /\ editLen \in Nat /\ number \in Nat
  /\ negative \in BOOLEAN

SpinInv == SpinTypes /\ N!ValueAsTyped

(* The largest absolute value the buffer holds. *)
MostTyped == IF negative THEN IntMax + 1 ELSE IntMax

-----------------------------------------------------------------------------
(* Of two numbers, N!Min is the smaller one. *)
LEMMA MinOfTwo ==
  ASSUME NEW a \in Int, NEW b \in Int
  PROVE  N!Min({a, b}) = IF a <= b THEN a ELSE b
<1>1. CASE a <= b
  BY <1>1 DEF N!Min
<1>2. CASE ~(a <= b)
  BY <1>2 DEF N!Min
<1> QED
  BY <1>1, <1>2

(* What N!Clamp returns is in the range of the field. *)
LEMMA ClampInRange ==
  ASSUME N!ConstAssumption, field \in Fields, NEW v \in Int
  PROVE  N!Clamp(v) \in field.min..field.max /\ N!Clamp(v) \in Int
BY DEF N!ConstAssumption, N!Clamp

(* The buffer after a digit is the number typed, cut off at MostTyped: cutting  *)
(* off early and late comes to the same.                                   *)
LEMMA DigitCutsOff ==
  ASSUME NEW limit \in Nat, NEW typed \in Nat, NEW d \in 0..9
  PROVE  N!Min({N!Min({typed, limit}) * 10 + d, limit}) = N!Min({typed * 10 + d, limit})
<1> DEFINE cut == N!Min({typed, limit})
<1>1. cut = IF typed <= limit THEN typed ELSE limit
  BY MinOfTwo
<1> HIDE DEF cut
<1>2. cut \in Nat
  BY <1>1
<1>3. N!Min({cut * 10 + d, limit}) = IF cut * 10 + d <= limit THEN cut * 10 + d ELSE limit
  BY <1>2, MinOfTwo
<1>4. N!Min({typed * 10 + d, limit})
        = IF typed * 10 + d <= limit THEN typed * 10 + d ELSE limit
  BY MinOfTwo
<1>5. N!Min({cut * 10 + d, limit}) = N!Min({typed * 10 + d, limit})
  BY <1>1, <1>2, <1>3, <1>4
<1> QED
  BY <1>5 DEF cut

(* A number cut off at MostTyped and the number itself have the same value in a *)
(* field: beyond the limits of int there is nothing a range could hold.    *)
LEMMA CutOffClampsAlike ==
  ASSUME N!ConstAssumption, field \in Fields, negative \in BOOLEAN, NEW typed \in Nat
  PROVE  N!Clamp(N!Signed(N!Min({typed, MostTyped}))) = N!Clamp(N!Signed(typed))
<1>1. /\ IntMax \in Nat /\ field.min \in Int /\ field.max \in Int
      /\ field.min >= -IntMax - 1 /\ field.max <= IntMax /\ field.min <= field.max
  BY DEF N!ConstAssumption
<1>2. MostTyped \in Int
  BY <1>1 DEF MostTyped
<1>3. N!Min({typed, MostTyped}) = IF typed <= MostTyped THEN typed ELSE MostTyped
  BY <1>2, MinOfTwo
<1>4. CASE typed <= MostTyped
  BY <1>3, <1>4
<1>5. CASE ~(typed <= MostTyped) /\ negative
  BY <1>1, <1>3, <1>5 DEF MostTyped, N!Signed, N!Clamp
<1>6. CASE ~(typed <= MostTyped) /\ ~negative
  BY <1>1, <1>3, <1>6 DEF MostTyped, N!Signed, N!Clamp
<1> QED
  BY <1>4, <1>5, <1>6

-----------------------------------------------------------------------------
(* A field begins with its initial value, clamped, and nothing typed. *)
LEMMA SpinInit == ASSUME N!ConstAssumption, N!Init PROVE SpinInv
<1>1. SpinTypes
  <2>1. PICK v \in SetValues : value = N!Clamp(v)
    BY DEF N!Init
  <2>2. v \in Int
    BY DEF N!ConstAssumption
  <2> QED
    BY <2>1, <2>2, ClampInRange DEF N!Init, SpinTypes
<1>2. editBuf = N!Min({number, IF negative THEN IntMax + 1 ELSE IntMax})
  BY MinOfTwo DEF N!Init, N!ConstAssumption
<1>3. value \in field.min..field.max
  <2>1. PICK v \in SetValues : value = N!Clamp(v)
    BY DEF N!Init
  <2>2. v \in Int
    BY DEF N!ConstAssumption
  <2> QED
    BY <2>1, <2>2, ClampInRange DEF N!Init
<1> QED
  BY <1>1, <1>2, <1>3 DEF SpinInv, N!ValueAsTyped, N!Init

(* Every key and every set-value keeps it. *)
LEMMA SpinNext == ASSUME N!ConstAssumption, SpinInv, [N!Next]_N!vars PROVE SpinInv'
<1> USE DEF SpinInv, SpinTypes
<1>0. /\ IntMax \in Nat /\ \A d \in Digits : d \in 0..9
      /\ field.min \in Int /\ field.max \in Int /\ field.step \in Int
      /\ field.width \in Int
  BY DEF N!ConstAssumption
<1>1. ASSUME NEW v \in Int, N!Becomes(v) PROVE SpinInv'
  <2>1. /\ field' = field /\ value' = N!Clamp(v) /\ meant' = value'
        /\ editBuf' = 0 /\ editLen' = 0 /\ number' = 0 /\ negative' = FALSE
    BY <1>1 DEF N!Becomes, N!ResetEdit
  <2>2. N!Clamp(v) \in field.min..field.max /\ N!Clamp(v) \in Int
    BY ClampInRange
  <2>3. N!Min({0, IntMax}) = 0
    BY <1>0, MinOfTwo
  <2>4. SpinTypes'
    BY <2>1, <2>2
  <2>5. value' \in field'.min..field'.max
    BY <2>1, <2>2
  <2> QED
    BY <2>1, <2>3, <2>4, <2>5 DEF N!ValueAsTyped
<1>2. ASSUME UNCHANGED <<field, value, meant>>, editBuf' = 0, editLen' = 0, number' = 0,
             negative' \in BOOLEAN
      PROVE  SpinInv'
  <2>1. N!Min({0, IntMax}) = 0 /\ N!Min({0, IntMax + 1}) = 0
    BY <1>0, MinOfTwo
  <2> QED
    BY <1>2, <2>1 DEF N!ValueAsTyped
<1>3. ASSUME NEW buf \in Nat, NEW typed \in Nat, buf = N!Min({typed, MostTyped}),
             N!Commit(buf, typed), field' = field
      PROVE  SpinInv'
  <2>1. /\ value' = N!Clamp(N!Signed(buf)) /\ meant' = N!Clamp(N!Signed(typed))
        /\ editBuf' = 0 /\ editLen' = 0 /\ number' = 0 /\ negative' = FALSE
    BY <1>3 DEF N!Commit, N!ResetEdit
  <2>2. N!Signed(buf) \in Int
    BY <1>3 DEF N!Signed
  <2>3. N!Clamp(N!Signed(buf)) \in field.min..field.max /\ N!Clamp(N!Signed(buf)) \in Int
    BY <2>2, ClampInRange
  <2>4. N!Clamp(N!Signed(buf)) = N!Clamp(N!Signed(typed))
    BY <1>3, CutOffClampsAlike
  <2>5. N!Min({0, IntMax}) = 0
    BY <1>0, MinOfTwo
  <2>6. SpinTypes'
    BY <1>3, <2>1, <2>3, <2>4
  <2>7. value' \in field'.min..field'.max
    BY <1>3, <2>1, <2>3
  <2> QED
    BY <2>1, <2>4, <2>5, <2>6, <2>7 DEF N!ValueAsTyped
<1>4. editBuf = N!Min({number, MostTyped})
  BY DEF N!ValueAsTyped, MostTyped
<1>5. CASE N!Up
  <2>1. value + field.step \in Int
    BY <1>0
  <2> QED
    BY <1>1, <1>5, <2>1 DEF N!Up
<1>6. CASE N!Down
  <2>1. value - field.step \in Int
    BY <1>0
  <2> QED
    BY <1>1, <1>6, <2>1 DEF N!Down
<1>7. CASE N!Backspace
  BY <1>2, <1>7 DEF N!Backspace, N!ResetEdit
<1>8. CASE N!Enter
  BY <1>3, <1>4, <1>8 DEF N!Enter
<1>9. CASE N!Minus
  BY <1>2, <1>9 DEF N!Minus
<1>10. ASSUME NEW d \in Digits, N!Digit(d) PROVE SpinInv'
  <2> DEFINE buf == N!Min({editBuf * 10 + d, MostTyped})
             typed == number * 10 + d
             room == IF negative THEN field.width - 1 ELSE field.width
  <2>1. typed \in Nat /\ MostTyped \in Nat /\ MostTyped \in Int /\ typed \in Int /\ d \in 0..9
    BY <1>0 DEF MostTyped
  <2>2. buf = N!Min({typed, MostTyped})
    BY <1>4, <2>1, DigitCutsOff
  <2>3. buf \in Nat
    BY <2>1, <2>2, MinOfTwo
  <2>4. CASE editLen + 1 >= room
    <3>1. N!Commit(buf, typed) /\ field' = field
      BY <1>10, <2>4 DEF N!Digit, MostTyped
    <3> QED
      BY <1>3, <2>1, <2>2, <2>3, <3>1
  <2>5. CASE ~(editLen + 1 >= room)
    <3>1. /\ editBuf' = buf /\ editLen' = editLen + 1 /\ number' = typed
          /\ UNCHANGED <<field, negative, value, meant>>
      BY <1>10, <2>5 DEF N!Digit, MostTyped
    <3> QED
      BY <2>1, <2>2, <2>3, <3>1 DEF N!ValueAsTyped, MostTyped
  <2> QED
    BY <2>4, <2>5
<1>11. ASSUME NEW v \in SetValues, N!Becomes(v) PROVE SpinInv'
  BY <1>1, <1>11 DEF N!ConstAssumption
<1>12. CASE UNCHANGED N!vars
  BY <1>12 DEF N!vars, N!edit, N!ValueAsTyped
<1> QED
  BY <1>5, <1>6, <1>7, <1>8, <1>9, <1>10, <1>11, <1>12 DEF N!Next

-----------------------------------------------------------------------------
(***************************************************************************)
(* The list (S, module WidgetSelect): its boxes, its cursor, its search.   *)
(***************************************************************************)
SelectTypes ==
  /\ made \in BOOLEAN /\ isMenu \in BOOLEAN /\ most \in Int /\ selected \in Int
  /\ options \in Seq(S!Options) /\ prefix \in Seq(Letters)
  /\ held \in BOOLEAN /\ rows \in Nat \ {0}

(* A menu has no boxes; what is not made yet is empty.                     *)
SelectInv ==
  /\ SelectTypes /\ S!ChoiceSound
  /\ isMenu => checked = {}
  /\ ~made => ~isMenu /\ options = <<>>

(* The larger of two numbers, and the nearest number in a range.           *)
LEMMA LargerOfTwo ==
  ASSUME NEW a \in Int, NEW b \in Int
  PROVE  S!Max({a, b}) = IF a >= b THEN a ELSE b
<1>1. CASE a >= b
  BY <1>1 DEF S!Max
<1>2. CASE ~(a >= b)
  BY <1>2 DEF S!Max
<1> QED
  BY <1>1, <1>2

(* The smaller of two numbers.                                             *)
LEMMA SmallerOfTwo ==
  ASSUME NEW a \in Int, NEW b \in Int
  PROVE  S!Min({a, b}) = IF a <= b THEN a ELSE b
<1>1. CASE a <= b
  BY <1>1 DEF S!Min
<1>2. CASE ~(a <= b)
  BY <1>2 DEF S!Min
<1> QED
  BY <1>1, <1>2

(* A number clamped to the options is one of them.                         *)
LEMMA ClampedIsOption ==
  ASSUME NEW i \in Int, options \in Seq(S!Options), options # <<>>
  PROVE  S!Clamped(i) \in DOMAIN options
<1>1. Len(options) \in Nat /\ Len(options) # 0 /\ DOMAIN options = 1..Len(options)
  OBVIOUS
<1>2. S!Min({i, Len(options)}) = IF i <= Len(options) THEN i ELSE Len(options)
  BY <1>1, SmallerOfTwo
<1> DEFINE m == S!Min({i, Len(options)})
<1>3. S!Clamped(i) = S!Max({1, m})
  BY DEF S!Clamped
<1>4. m \in Int
  BY <1>1, <1>2
<1> HIDE DEF m
<1>5. S!Max({1, m}) = IF 1 >= m THEN 1 ELSE m
  BY <1>4, LargerOfTwo
<1> QED
  BY <1>1, <1>2, <1>3, <1>4, <1>5 DEF m

(* An option that a search finds begins with what was searched for.        *)
LEMMA FoundMatches ==
  ASSUME options \in Seq(S!Options), NEW p, NEW start \in Int, S!Found(p, start) # 0
  PROVE  /\ S!Found(p, start) \in DOMAIN options
         /\ S!IsPrefix(p, options[S!Found(p, start)].text)
<1> DEFINE M == S!Matches(p)
           D == {S!Distance(i, start) : i \in M}
<1>1. M # {} /\ M \subseteq DOMAIN options
  BY DEF S!Found, S!Matches
<1>2. DOMAIN options = 1..Len(options) /\ Len(options) \in Nat /\ Len(options) # 0
  BY <1>1
<1>3. ASSUME NEW i \in M PROVE S!Distance(i, start) \in Nat
  <2>1. i - start \in Int
    BY <1>1, <1>2
  <2> QED
    BY <1>2, <2>1 DEF S!Distance
<1>4. D \subseteq Nat /\ D # {}
  BY <1>1, <1>3
<1>5. PICK d \in D : \A e \in D : d <= e
  <2> HIDE DEF D
  <2> QED
    BY <1>4, FirstIsThere
<1>6. PICK i \in M : \A j \in M : S!Distance(i, start) <= S!Distance(j, start)
  BY <1>5
<1>7. S!Found(p, start) \in M
  BY <1>1, <1>6 DEF S!Found
<1> QED
  BY <1>7 DEF S!Matches

(* Boxes are counted the same way in every module. *)
LEMMA SelectCounts == \A T : S!Cardinality(T) = Cardinality(T)
BY DEF S!Cardinality, Cardinality

-----------------------------------------------------------------------------
(* What is shown after a handler that leaves the boxes alone: the prefix   *)
(* that is left belongs to the option the cursor is left on.               *)
LEMMA CursorSound ==
  ASSUME SelectInv, S!Same, UNCHANGED <<checked, selected>>, held' \in BOOLEAN,
         NEW p \in Seq(Letters), prefix' = IF held' THEN p ELSE <<>>,
         cursor' \in S!Cursors(options) \cup (IF made THEN {} ELSE {0}),
         p # <<>> => cursor' # 0 /\ S!IsPrefix(p, options[cursor'].text),
         chosen' => isMenu /\ cursor' # 0
  PROVE  SelectInv'
<1>1. UNCHANGED <<made, isMenu, most, options, rows, checked, selected>>
  BY DEF S!Same
<1>2. SelectTypes'
  BY <1>1 DEF SelectInv, SelectTypes
<1>3. S!ChoiceSound'
  BY <1>1 DEF SelectInv, S!ChoiceSound, S!Cursors
<1> QED
  BY <1>1, <1>2, <1>3 DEF SelectInv

(* A key, set-value or time that moves the cursor or leaves it, and the    *)
(* boxes alone.                                                            *)
LEMMA SelectKeys ==
  ASSUME S!ConstAssumption, SelectInv,
         \/ S!Navigate \/ S!Enter \/ S!Focus \/ S!SearchTimeout
         \/ \E c \in Letters, old \in BOOLEAN : S!Search(c, old)
         \/ \E i \in DOMAIN options, b \in BOOLEAN : S!SetCursor(i, b)
  PROVE  SelectInv'
<1>0. SelectTypes /\ S!ChoiceSound /\ <<>> \in Seq(Letters)
  BY DEF SelectInv
<1>1. cursor # 0 => options # <<>> /\ cursor \in DOMAIN options /\ cursor \in Int
  BY <1>0 DEF S!ChoiceSound, S!Cursors, SelectTypes
<1>2. ASSUME NEW i \in DOMAIN options
      PROVE  i \in S!Cursors(options) /\ i # 0 /\ options # <<>>
  BY <1>0 DEF S!Cursors, SelectTypes
<1>3. ASSUME NEW p, prefix' = IF held' THEN p ELSE <<>>, p = <<>> \/ p = prefix,
             UNCHANGED cursor
      PROVE  /\ p \in Seq(Letters)
             /\ p # <<>> => cursor' # 0 /\ S!IsPrefix(p, options[cursor'].text)
  BY <1>0, <1>3 DEF S!ChoiceSound, SelectTypes
<1>4. CASE S!Navigate
  <2>1. PICK i \in {cursor - 1, cursor + 1, cursor - rows, cursor + rows, 1, Len(options)} :
          S!MoveTo(S!Clamped(i)) /\ prefix' = IF held' THEN <<>> ELSE <<>>
    BY <1>4 DEF S!Navigate, S!Show, S!PrefixAfterMove
  <2>2. i \in Int
    BY <1>0, <1>1, <1>4 DEF S!Navigate, SelectTypes
  <2>3. cursor' = S!Clamped(i) /\ S!Clamped(i) \in DOMAIN options
    BY <1>0, <1>1, <1>4, <2>1, <2>2, ClampedIsOption DEF S!Navigate, S!MoveTo, SelectTypes
  <2>4. chosen' => isMenu /\ cursor' # 0
    BY <1>0, <1>2, <1>4, <2>3 DEF S!Navigate, S!ChoiceSound
  <2> QED
    BY <1>0, <1>2, <1>4, <2>1, <2>3, <2>4, CursorSound DEF S!Navigate, S!Key, SelectTypes
<1>5. CASE S!Enter
  <2>1. /\ S!Same /\ UNCHANGED <<checked, selected, cursor, held>>
        /\ isMenu /\ chosen' = (cursor # 0) /\ prefix' = IF held' THEN prefix ELSE <<>>
    BY <1>5 DEF S!Enter, S!Key, S!Show
  <2> QED
    BY <1>0, <2>1, CursorSound DEF S!ChoiceSound, SelectTypes
<1>6. CASE S!Focus
  <2>1. /\ S!Same /\ UNCHANGED <<checked, selected, cursor, chosen>>
        /\ held' = ~held /\ prefix' = IF held' THEN prefix ELSE <<>>
    BY <1>6 DEF S!Focus, S!Show
  <2> QED
    BY <1>0, <2>1, CursorSound DEF S!ChoiceSound, SelectTypes
<1>7. CASE S!SearchTimeout
  <2>1. /\ S!Same /\ UNCHANGED <<checked, selected, cursor, chosen, held>>
        /\ prefix' = IF held' THEN <<>> ELSE <<>>
    BY <1>7 DEF S!SearchTimeout, S!Show
  <2> QED
    BY <1>0, <2>1, CursorSound DEF S!ChoiceSound, SelectTypes
<1>8. ASSUME NEW c \in Letters, NEW old \in BOOLEAN, S!Search(c, old) PROVE SelectInv'
  <2> DEFINE known == IF old THEN <<>> ELSE prefix
             cycle == known = <<c>>
             typed == IF cycle THEN known ELSE Append(known, c)
             again == <<c>>
             one   == S!Found(typed, IF Len(typed) = 1 THEN cursor + 1 ELSE cursor)
             two   == S!Found(again, cursor + 1)
  <2>1. /\ S!Same /\ UNCHANGED <<checked, selected, chosen, held>> /\ cursor # 0
        /\ \/ cursor' = cursor /\ prefix' = IF held' THEN known ELSE <<>>
           \/ one # 0 /\ cursor' = one /\ prefix' = IF held' THEN typed ELSE <<>>
           \/ two # 0 /\ cursor' = two /\ prefix' = IF held' THEN again ELSE <<>>
           \/ cursor' = cursor /\ prefix' = IF held' THEN <<>> ELSE <<>>
    BY <1>8 DEF S!Search, S!Key, S!Show, S!MoveTo
  <2>2. known \in Seq(Letters) /\ typed \in Seq(Letters) /\ again \in Seq(Letters)
    BY <1>0 DEF SelectTypes
  <2>3. /\ one # 0 => one \in DOMAIN options /\ S!IsPrefix(typed, options[one].text)
        /\ two # 0 => two \in DOMAIN options /\ S!IsPrefix(again, options[two].text)
    <3>1. (IF Len(typed) = 1 THEN cursor + 1 ELSE cursor) \in Int /\ cursor + 1 \in Int
      BY <1>1, <2>1
    <3>2. options \in Seq(S!Options)
      BY <1>0 DEF SelectTypes
    <3> HIDE DEF typed, again
    <3> QED
      BY <3>1, <3>2, FoundMatches
  <2>4. chosen' => isMenu
    BY <1>0, <2>1 DEF S!ChoiceSound
  <2>5. held' \in BOOLEAN
    BY <1>0, <2>1 DEF SelectTypes
  <2>6. known = <<>> \/ known = prefix
    OBVIOUS
  <2>7. cursor \in S!Cursors(options)
    BY <1>1, <1>2, <2>1
  <2> HIDE DEF known, typed, again, one, two
  <2>8. CASE one # 0 /\ cursor' = one /\ prefix' = IF held' THEN typed ELSE <<>>
    BY <1>2, <2>1, <2>2, <2>3, <2>4, <2>5, <2>8, CursorSound
  <2>9. CASE two # 0 /\ cursor' = two /\ prefix' = IF held' THEN again ELSE <<>>
    BY <1>2, <2>1, <2>2, <2>3, <2>4, <2>5, <2>9, CursorSound
  <2>10. CASE cursor' = cursor /\ prefix' = IF held' THEN known ELSE <<>>
    BY <1>3, <2>1, <2>2, <2>4, <2>5, <2>6, <2>7, <2>10, CursorSound
  <2>11. CASE cursor' = cursor /\ prefix' = IF held' THEN <<>> ELSE <<>>
    BY <1>0, <2>1, <2>4, <2>5, <2>7, <2>11, CursorSound
  <2> QED
    BY <2>1, <2>8, <2>9, <2>10, <2>11
<1>9. ASSUME NEW i \in DOMAIN options, NEW b \in BOOLEAN, S!SetCursor(i, b) PROVE SelectInv'
  <2>1. /\ S!Same /\ UNCHANGED <<checked, selected, held>> /\ isMenu /\ cursor' = i
        /\ prefix' = IF held' THEN <<>> ELSE <<>>
    BY <1>9 DEF S!SetCursor, S!MoveTo, S!Show, S!PrefixAfterMove
  <2> QED
    BY <1>0, <1>2, <2>1, CursorSound DEF SelectTypes
<1> QED
  BY <1>4, <1>5, <1>6, <1>7, <1>8, <1>9

(* Checking a box, clearing one, or clearing all and checking one: the     *)
(* count goes along, and stays within what may be selected.                *)
LEMMA BoxesCounted ==
  ASSUME SelectTypes, S!ChoiceSound, NEW i \in DOMAIN options
  PROVE  /\ i \notin checked => Cardinality(checked \cup {i}) = selected + 1
         /\ i \in checked => Cardinality(checked \ {i}) = selected - 1 /\ selected # 0
         /\ Cardinality({}) = 0 /\ Cardinality({} \cup {i}) = 1
         /\ selected \in Nat
<1>1. IsFiniteSet(checked)
  <2>1. IsFiniteSet(1..Len(options)) /\ DOMAIN options = 1..Len(options)
    BY FS_Interval DEF SelectTypes
  <2> QED
    BY <2>1, FS_Subset DEF S!ChoiceSound
<1>2. selected = Cardinality(checked) /\ Cardinality(checked) \in Nat
  BY <1>1, FS_CardinalityType, SelectCounts DEF S!ChoiceSound
<1>3. Cardinality({}) = 0 /\ Cardinality({i}) = 1
  BY FS_EmptySet, FS_Singleton
<1>4. i \notin checked => Cardinality(checked \cup {i}) = Cardinality(checked) + 1
  BY <1>1, FS_AddElement
<1>5. i \in checked => Cardinality(checked \ {i}) = Cardinality(checked) - 1
  BY <1>1, FS_RemoveElement
<1>6. i \in checked => Cardinality(checked) # 0
  BY <1>1, FS_EmptySet
<1>7. {} \cup {i} = {i}
  OBVIOUS
<1> QED
  BY <1>2, <1>3, <1>4, <1>5, <1>6, <1>7

(* A box is checked only below the limit, and the count follows.           *)
LEMMA BoxesSound ==
  ASSUME S!ConstAssumption, SelectInv,
         \/ S!Space
         \/ \E i \in DOMAIN options, b \in BOOLEAN : S!SetOption(i, b)
  PROVE  SelectInv'
<1>0. SelectTypes /\ S!ChoiceSound /\ <<>> \in Seq(Letters)
  BY DEF SelectInv
<1>1. ASSUME NEW boxes, NEW count, S!Same, UNCHANGED <<cursor, chosen, held>>,
             checked' = boxes, selected' = count, boxes \subseteq DOMAIN options,
             count = Cardinality(boxes), count \in Nat,
             count = 0 \/ count <= selected \/ count <= most,
             isMenu => boxes = {}, made,
             NEW p, p = <<>> \/ p = prefix, prefix' = IF held' THEN p ELSE <<>>
      PROVE  SelectInv'
  <2>1. UNCHANGED <<made, isMenu, most, options, rows>>
    BY <1>1 DEF S!Same
  <2>2. SelectTypes'
    <3>1. prefix' \in Seq(Letters)
      BY <1>0, <1>1 DEF SelectTypes
    <3>2. selected' \in Int /\ held' \in BOOLEAN
      BY <1>0, <1>1 DEF SelectTypes
    <3> QED
      BY <1>0, <2>1, <3>1, <3>2 DEF SelectTypes
  <2>3. count <= S!Max({most, 0})
    <3>1. S!Max({most, 0}) = IF most >= 0 THEN most ELSE 0
      BY <1>0, LargerOfTwo DEF SelectTypes
    <3>2. selected <= S!Max({most, 0}) /\ selected \in Int /\ most \in Int
      BY <1>0, <1>1 DEF S!ChoiceSound, SelectTypes
    <3> QED
      BY <1>1, <3>1, <3>2
  <2>4. selected' = S!Cardinality(checked')
    BY <1>1, SelectCounts
  <2>5. S!ChoiceSound'
    BY <1>0, <1>1, <2>1, <2>3, <2>4 DEF S!ChoiceSound, S!Cursors
  <2> QED
    BY <1>1, <2>1, <2>2, <2>5 DEF SelectInv
<1>2. CASE S!Space
  <2>1. /\ S!Same /\ UNCHANGED <<cursor, chosen, held>> /\ made /\ cursor # 0
        /\ prefix' = IF held' THEN <<>> ELSE <<>>
    BY <1>2 DEF S!Space, S!Key, S!Show
  <2>2. cursor \in DOMAIN options
    BY <1>0, <2>1 DEF S!ChoiceSound, S!Cursors
  <2>3. /\ cursor \notin checked => Cardinality(checked \cup {cursor}) = selected + 1
        /\ cursor \in checked =>
             Cardinality(checked \ {cursor}) = selected - 1 /\ selected # 0
        /\ selected \in Nat /\ selected = Cardinality(checked) /\ most \in Int
        /\ checked \subseteq DOMAIN options
    BY <1>0, <2>2, BoxesCounted, SelectCounts DEF S!ChoiceSound, SelectTypes
  <2>4. CASE ~isMenu /\ cursor \in checked
               /\ checked' = checked \ {cursor} /\ selected' = selected - 1
    BY <1>1, <2>1, <2>3, <2>4
  <2>5. CASE ~isMenu /\ cursor \notin checked /\ selected < most
               /\ checked' = checked \cup {cursor} /\ selected' = selected + 1
    <3>1. selected + 1 <= most /\ selected + 1 \in Nat
      BY <2>3, <2>5
    <3> QED
      BY <1>1, <2>1, <2>2, <2>3, <2>5, <3>1
  <2>6. CASE UNCHANGED <<checked, selected>>
    <3>1. isMenu => checked = {}
      BY DEF SelectInv
    <3> QED
      BY <1>1, <2>1, <2>3, <2>6, <3>1
  <2> QED
    BY <1>2, <2>4, <2>5, <2>6 DEF S!Space
<1>3. ASSUME NEW i \in DOMAIN options, NEW b \in BOOLEAN, S!SetOption(i, b) PROVE SelectInv'
  <2> DEFINE radio == b /\ most <= 1
             boxes == IF radio THEN {} ELSE checked
             count == IF radio THEN 0 ELSE selected
  <2>1. /\ S!Same /\ UNCHANGED <<cursor, chosen, held>> /\ made /\ ~isMenu
        /\ prefix' = IF held' THEN prefix ELSE <<>>
        /\ \/ UNCHANGED <<checked, selected>>
           \/ checked' = boxes /\ selected' = count
           \/ /\ b /\ i \notin checked /\ count < most
              /\ checked' = boxes \cup {i} /\ selected' = count + 1
           \/ /\ ~b /\ i \in checked
              /\ checked' = boxes \ {i} /\ selected' = count - 1
    BY <1>3 DEF S!SetOption, S!Show, S!ClearedCount
  <2>2. /\ i \notin checked => Cardinality(checked \cup {i}) = selected + 1
        /\ i \in checked => Cardinality(checked \ {i}) = selected - 1 /\ selected # 0
        /\ Cardinality({}) = 0 /\ Cardinality({} \cup {i}) = 1
        /\ selected \in Nat /\ selected = Cardinality(checked) /\ most \in Int
        /\ checked \subseteq DOMAIN options
    BY <1>0, BoxesCounted, SelectCounts DEF S!ChoiceSound, SelectTypes
  <2>3. CASE UNCHANGED <<checked, selected>>
    BY <1>1, <2>1, <2>2, <2>3
  <2>4. CASE checked' = boxes /\ selected' = count
    <3>1. /\ boxes \subseteq DOMAIN options /\ count = Cardinality(boxes) /\ count \in Nat
          /\ count = 0 \/ count <= selected
      BY <2>2
    <3> HIDE DEF boxes, count
    <3> QED
      BY <1>1, <2>1, <2>4, <3>1
  <2>5. CASE b /\ i \notin checked /\ count < most
               /\ checked' = boxes \cup {i} /\ selected' = count + 1
    <3>1. /\ boxes \cup {i} \subseteq DOMAIN options
          /\ count + 1 = Cardinality(boxes \cup {i}) /\ count + 1 \in Nat
          /\ count + 1 <= most
      <4>1. CASE radio
        BY <2>2, <2>5, <4>1
      <4>2. CASE ~radio
        BY <2>2, <2>5, <4>2
      <4> QED
        BY <4>1, <4>2
    <3> HIDE DEF boxes, count
    <3> QED
      BY <1>1, <2>1, <2>5, <3>1
  <2>6. CASE ~b /\ i \in checked /\ checked' = boxes \ {i} /\ selected' = count - 1
    <3>1. boxes = checked /\ count = selected
      BY <2>6
    <3>2. /\ checked \ {i} \subseteq DOMAIN options /\ selected - 1 <= selected
          /\ selected - 1 = Cardinality(checked \ {i}) /\ selected - 1 \in Nat
      BY <2>2, <2>6
    <3> HIDE DEF boxes, count
    <3> QED
      BY <1>1, <2>1, <2>6, <3>1, <3>2
  <2> QED
    BY <2>1, <2>3, <2>4, <2>5, <2>6
<1> QED
  BY <1>2, <1>3

(* A list that is made, replaced or laid out again. *)
LEMMA ListSound ==
  ASSUME S!ConstAssumption, SelectInv,
         \/ \E o \in Lists, r \in RowCounts :
              \/ \E n \in MaxSelected, boxes \in SUBSET DOMAIN o :
                   S!CreateChecklist(o, r, n, boxes)
              \/ \E c \in DOMAIN o : S!CreateMenu(o, r, c)
         \/ \E o \in Lists, wide \in BOOLEAN : \E c \in S!Cursors(o) : S!Replace(o, c, wide)
         \/ \E r \in RowCounts : S!Resize(r)
  PROVE  SelectInv'
<1>0. /\ SelectTypes /\ S!ChoiceSound /\ <<>> \in Seq(Letters)
      /\ \A o \in Lists : o \in Seq(S!Options)
      /\ \A n \in MaxSelected : n \in Int
      /\ \A r \in RowCounts : r \in Nat \ {0}
  <2>1. SelectTypes /\ S!ChoiceSound /\ <<>> \in Seq(Letters)
    BY DEF SelectInv
  <2>2. /\ Lists \subseteq Seq(S!Options) /\ MaxSelected \subseteq Int
        /\ RowCounts \subseteq Nat \ {0}
    BY Zenon DEF S!ConstAssumption
  <2> QED
    BY <2>1, <2>2, Zenon
<1>1. ~made => /\ ~isMenu /\ checked = {} /\ selected = 0 /\ prefix = <<>> /\ ~chosen
  <2>1. ASSUME ~made PROVE checked = {} /\ prefix = <<>> /\ ~chosen
    <3>1. options = <<>> /\ DOMAIN options = {}
      BY <2>1 DEF SelectInv
    <3>2. cursor = 0
      BY <1>0, <2>1, <3>1 DEF S!ChoiceSound, S!Cursors
    <3> QED
      BY <1>0, <3>1, <3>2 DEF S!ChoiceSound
  <2>2. selected = Cardinality(checked)
    BY <1>0, SelectCounts DEF S!ChoiceSound
  <2> QED
    BY <2>1, <2>2, FS_EmptySet DEF SelectInv
<1>2. ASSUME NEW o \in Lists, NEW r \in RowCounts, NEW n \in MaxSelected,
             NEW boxes \in SUBSET DOMAIN o, S!CreateChecklist(o, r, n, boxes)
      PROVE  SelectInv'
  <2>1. /\ ~made /\ made' = TRUE /\ options' = o /\ cursor' = S!First(o) /\ rows' = r
        /\ UNCHANGED <<chosen, prefix, held, isMenu>> /\ most' = n /\ checked' = boxes
        /\ selected' = Cardinality(boxes) /\ (boxes # {} => Cardinality(boxes) <= n)
    BY <1>2, SelectCounts DEF S!CreateChecklist, S!Created
  <2>2. Cardinality(boxes) \in Nat /\ (boxes = {} => Cardinality(boxes) = 0)
    <3>1. DOMAIN o = 1..Len(o) /\ IsFiniteSet(1..Len(o))
      BY <1>0, FS_Interval
    <3>2. IsFiniteSet(boxes)
      BY <3>1, FS_Subset
    <3> QED
      BY <3>2, FS_CardinalityType, FS_EmptySet
  <2>3. SelectTypes'
    BY <1>0, <2>1, <2>2 DEF SelectTypes
  <2>4. Cardinality(boxes) <= S!Max({n, 0})
    <3>1. S!Max({n, 0}) = IF n >= 0 THEN n ELSE 0
      BY <1>0, LargerOfTwo
    <3> QED
      BY <1>0, <2>1, <2>2, <3>1
  <2>5. S!First(o) \in S!Cursors(o)
    <3>1. o # <<>> => 1 \in DOMAIN o
      BY <1>0
    <3> QED
      BY <3>1 DEF S!First, S!Cursors
  <2>6. S!ChoiceSound'
    BY <1>1, <2>1, <2>4, <2>5, SelectCounts DEF S!ChoiceSound, S!Cursors
  <2> QED
    BY <1>1, <2>1, <2>3, <2>6 DEF SelectInv
<1>3. ASSUME NEW o \in Lists, NEW r \in RowCounts, NEW c \in DOMAIN o, S!CreateMenu(o, r, c)
      PROVE  SelectInv'
  <2>1. /\ ~made /\ made' = TRUE /\ options' = o /\ cursor' = c /\ rows' = r
        /\ UNCHANGED <<chosen, prefix, held, checked, selected>> /\ isMenu' = TRUE /\ most' = 1
    BY <1>3 DEF S!CreateMenu, S!Created
  <2>2. SelectTypes'
    BY <1>0, <2>1 DEF SelectTypes
  <2>3. S!Max({1, 0}) = 1
    BY LargerOfTwo
  <2>4. o # <<>> /\ c \in S!Cursors(o)
    BY <1>0 DEF S!Cursors
  <2>5. S!ChoiceSound'
    BY <1>0, <1>1, <2>1, <2>3, <2>4 DEF S!ChoiceSound
  <2> QED
    BY <1>1, <2>1, <2>2, <2>5 DEF SelectInv
<1>4. ASSUME NEW o \in Lists, NEW wide \in BOOLEAN, NEW c \in S!Cursors(o),
             S!Replace(o, c, wide)
      PROVE  SelectInv'
  <2>1. made /\ isMenu /\ UNCHANGED <<made, isMenu, most, checked, held, rows>>
    BY <1>4 DEF S!Replace
  <2>2. checked = {} /\ selected = 0
    BY <1>0, <2>1, SelectCounts, FS_EmptySet DEF SelectInv, S!ChoiceSound
  <2>3. CASE UNCHANGED <<options, selected, cursor, chosen, prefix>>
    BY <2>1, <2>3 DEF SelectInv, SelectTypes, S!ChoiceSound, S!Cursors
  <2>4. CASE options' = o /\ cursor' = c /\ selected' = 0 /\ chosen' = FALSE /\ prefix' = <<>>
    <3>1. SelectTypes'
      BY <1>0, <2>1, <2>4 DEF SelectTypes
    <3>2. S!ChoiceSound'
      BY <1>0, <2>1, <2>2, <2>4 DEF S!ChoiceSound
    <3> QED
      BY <2>1, <2>2, <3>1, <3>2 DEF SelectInv
  <2> QED
    BY <1>4, <2>3, <2>4 DEF S!Replace
<1>5. ASSUME NEW r \in RowCounts, S!Resize(r) PROVE SelectInv'
  <2>1. /\ UNCHANGED <<made, isMenu, most, options, checked, selected, cursor, chosen, held>>
        /\ rows' = r /\ (prefix' = prefix \/ prefix' = <<>>)
    BY <1>5 DEF S!Resize
  <2>2. SelectTypes'
    BY <1>0, <2>1 DEF SelectTypes
  <2>3. S!ChoiceSound'
    BY <1>0, <2>1 DEF S!ChoiceSound, S!Cursors
  <2> QED
    BY <2>1, <2>2, <2>3 DEF SelectInv
<1> QED
  BY <1>2, <1>3, <1>4, <1>5

(* A select is sound at the start,                                         *)
LEMMA SelectInit == ASSUME S!ConstAssumption, S!Init PROVE SelectInv
<1>1. /\ made = FALSE /\ isMenu = FALSE /\ most = 0 /\ options = <<>> /\ checked = {}
      /\ selected = 0 /\ cursor = 0 /\ chosen = FALSE /\ prefix = <<>> /\ held = FALSE
      /\ rows = S!Min(RowCounts)
  BY DEF S!Init
<1>2. S!Min(RowCounts) \in RowCounts
  <2>1. RowCounts \subseteq Nat /\ RowCounts # {}
    BY DEF S!ConstAssumption
  <2> QED
    BY <2>1, FirstIsThere DEF S!Min
<1>3. SelectTypes
  <2>1. rows \in Nat \ {0}
    BY <1>1, <1>2 DEF S!ConstAssumption
  <2>2. options \in Seq(S!Options) /\ prefix \in Seq(Letters)
    BY <1>1
  <2>3. made \in BOOLEAN /\ isMenu \in BOOLEAN /\ held \in BOOLEAN
    BY <1>1
  <2>4. most \in Int /\ selected \in Int
    BY <1>1
  <2> QED
    BY <2>1, <2>2, <2>3, <2>4 DEF SelectTypes
<1>4. S!ChoiceSound
  BY <1>1, SelectCounts, FS_EmptySet DEF S!ChoiceSound, S!Cursors
<1> QED
  BY <1>1, <1>3, <1>4 DEF SelectInv

(* and through every step.                                                 *)
LEMMA SelectNext == ASSUME S!ConstAssumption, SelectInv, [S!Next]_S!vars PROVE SelectInv'
<1>1. CASE UNCHANGED S!vars
  BY <1>1 DEF S!vars, SelectInv, SelectTypes, S!ChoiceSound, S!Cursors
<1>2. CASE S!Next
  <2>1. \/ \/ S!Navigate \/ S!Enter \/ S!Focus \/ S!SearchTimeout
           \/ \E c \in Letters, old \in BOOLEAN : S!Search(c, old)
           \/ \E i \in DOMAIN options, b \in BOOLEAN : S!SetCursor(i, b)
        \/ \/ S!Space
           \/ \E i \in DOMAIN options, b \in BOOLEAN : S!SetOption(i, b)
        \/ \/ \E o \in Lists, r \in RowCounts :
                \/ \E n \in MaxSelected, boxes \in SUBSET DOMAIN o :
                     S!CreateChecklist(o, r, n, boxes)
                \/ \E c \in DOMAIN o : S!CreateMenu(o, r, c)
           \/ \E o \in Lists, wide \in BOOLEAN : \E c \in S!Cursors(o) : S!Replace(o, c, wide)
           \/ \E r \in RowCounts : S!Resize(r)
    BY <1>2, Zenon DEF S!Next
  <2> QED
    BY <2>1, SelectKeys, BoxesSound, ListSound, Zenon
<1> QED
  BY <1>1, <1>2

-----------------------------------------------------------------------------
(***************************************************************************)
(* The viewport of the list.  It shows a range of the options that fits:   *)
(* every operation that scrolls begins or ends with an option and takes as *)
(* many as there is room for, and a render hides nothing of such a range.  *)
(***************************************************************************)

(* Numbers can be added up: the functions that RowsTo and Added say exist. *)
LEMMA SumsExist ==
  ASSUME NEW n \in Nat, NEW ws \in [0..n - 1 -> Nat]
  PROVE  \E f \in [0..n -> Nat] : f[0] = 0 /\ \A k \in 0..n - 1 : f[k + 1] = f[k] + ws[k]
<1> DEFINE Sums(m, f) == f[0] = 0 /\ \A k \in 0..m - 1 : f[k + 1] = f[k] + ws[k]
           P == {m \in 0..n : \E f \in [0..m -> Nat] : Sums(m, f)}
<1>1. 0 \in P
  <2> DEFINE f == [k \in 0..0 |-> 0]
  <2>1. f \in [0..0 -> Nat] /\ Sums(0, f)
    OBVIOUS
  <2>2. 0 \in 0..n
    OBVIOUS
  <2> HIDE DEF Sums, f
  <2> QED
    BY <2>1, <2>2
<1>2. ASSUME NEW m \in 0..n - 1, m \in P PROVE m + 1 \in P
  <2>1. PICK f \in [0..m -> Nat] : Sums(m, f)
    BY <1>2
  <2> DEFINE g == [k \in 0..m + 1 |-> IF k = m + 1 THEN f[m] + ws[m] ELSE f[k]]
  <2>2. g \in [0..m + 1 -> Nat]
    <3>1. f[m] + ws[m] \in Nat
      OBVIOUS
    <3> QED
      BY <3>1
  <2>3. Sums(m + 1, g)
    <3>1. g[0] = 0
      BY <2>1
    <3>2. ASSUME NEW k \in 0..(m + 1) - 1 PROVE g[k + 1] = g[k] + ws[k]
      <4>1. CASE k = m
        BY <4>1
      <4>2. CASE k # m
        <5>1. k \in 0..m - 1
          BY <4>2
        <5>2. f[k + 1] = f[k] + ws[k]
          BY <2>1, <5>1
        <5>3. g[k + 1] = f[k + 1] /\ g[k] = f[k]
          BY <5>1
        <5> QED
          BY <5>2, <5>3
      <4> QED
        BY <4>1, <4>2
    <3> QED
      BY <3>1, <3>2
  <2>4. m + 1 \in 0..n
    BY <1>2
  <2> HIDE DEF Sums, g
  <2> QED
    BY <2>2, <2>3, <2>4
<1>3. \A k \in 0..n : k \in P
  <2> HIDE DEF P
  <2> QED
    BY <1>1, <1>2, Reached
<1>4. n \in P
  <2> HIDE DEF P
  <2> QED
    BY <1>3
<1> QED
  BY <1>4

(* The rows of the first options of a list.                                *)
LEMMA RowsAdded ==
  ASSUME NEW o \in Seq(S!Options)
  PROVE  /\ \A k \in 0..Len(o) : S!RowsTo(o)[k] \in Nat
         /\ S!RowsTo(o)[0] = 0
         /\ \A k \in DOMAIN o : S!RowsTo(o)[k] = S!RowsTo(o)[k - 1] + o[k].height
<1> DEFINE n == Len(o)
           ws == [k \in 0..n - 1 |-> o[k + 1].height]
           Body(f) == [k \in 0..n |-> IF k = 0 THEN 0 ELSE f[k - 1] + o[k].height]
           sum == CHOOSE f : f = Body(f)
<1>1. n \in Nat /\ \A k \in 1..n : o[k].height \in Nat
  <2>1. Len(o) \in Nat /\ \A k \in 1..Len(o) : o[k] \in S!Options
    OBVIOUS
  <2>2. \A p \in S!Options : p.height \in Nat
    BY DEF S!Options
  <2> QED
    BY <2>1, <2>2
<1>2. ws \in [0..n - 1 -> Nat]
  <2>1. \A k \in 0..n - 1 : k + 1 \in 1..n
    BY <1>1
  <2> QED
    BY <1>1, <2>1
<1>3. S!RowsTo(o) = sum
  BY DEF S!RowsTo
<1>4. \E f : f = Body(f)
  <2>1. PICK f \in [0..n -> Nat] : f[0] = 0 /\ \A k \in 0..n - 1 : f[k + 1] = f[k] + ws[k]
    <3> HIDE DEF ws
    <3> QED
      BY <1>1, <1>2, SumsExist
  <2>2. ASSUME NEW k \in 0..n PROVE f[k] = Body(f)[k]
    <3>1. CASE k = 0
      BY <2>1, <3>1
    <3>2. CASE k # 0
      <4>1. k - 1 \in 0..n - 1 /\ (k - 1) + 1 = k
        BY <1>1, <3>2
      <4>2. f[k] = f[k - 1] + ws[k - 1]
        BY <2>1, <4>1
      <4>3. ws[k - 1] = o[k].height
        BY <4>1
      <4> QED
        BY <3>2, <4>2, <4>3
    <3> QED
      BY <3>1, <3>2
  <2>3. f = Body(f)
    BY <2>2
  <2> QED
    BY <2>3
<1>5. sum = Body(sum)
  <2> HIDE DEF Body
  <2> QED
    BY <1>4
<1> HIDE DEF sum
<1>6. sum[0] = 0 /\ \A k \in 1..n : sum[k] = sum[k - 1] + o[k].height
  BY <1>1, <1>5
<1> DEFINE P == {k \in 0..n : sum[k] \in Nat}
<1>7. 0 \in P
  BY <1>1, <1>6
<1>8. ASSUME NEW k \in 0..n - 1, k \in P PROVE k + 1 \in P
  <2>1. k + 1 \in 1..n /\ (k + 1) - 1 = k /\ k + 1 \in 0..n
    BY <1>1, <1>8
  <2>2. sum[k + 1] = sum[k] + o[k + 1].height
    BY <1>6, <2>1
  <2> QED
    BY <1>1, <1>8, <2>1, <2>2
<1>9. \A k \in 0..n : k \in P
  <2> HIDE DEF P
  <2> QED
    BY <1>1, <1>7, <1>8, Reached
<1> QED
  BY <1>3, <1>6, <1>9

(* The greatest number of a bounded set is in it.                          *)
LEMMA GreatestIsThere ==
  ASSUME NEW n \in Nat, NEW T, T \subseteq 0..n, T # {}
  PROVE  S!Max(T) \in T /\ \A y \in T : y <= S!Max(T)
<1> DEFINE D == {n - y : y \in T}
<1>1. D \subseteq Nat /\ D # {}
  <2>1. PICK t \in T : TRUE
    OBVIOUS
  <2>2. n - t \in D
    OBVIOUS
  <2>3. \A y \in T : n - y \in Nat
    OBVIOUS
  <2> QED
    BY <2>2, <2>3
<1>2. PICK d \in D : \A e \in D : d <= e
  <2> HIDE DEF D
  <2> QED
    BY <1>1, FirstIsThere
<1>3. PICK x \in T : d = n - x
  BY <1>2
<1>4. ASSUME NEW y \in T PROVE y <= x
  <2>1. n - x <= n - y
    BY <1>2, <1>3, <1>4
  <2> QED
    BY <1>3, <1>4, <2>1
<1> QED
  BY <1>3, <1>4 DEF S!Max

(* and so is the least of any set of them.                                  *)
LEMMA LowestIsThere ==
  ASSUME NEW T, T \subseteq Nat, T # {}
  PROVE  S!Min(T) \in T /\ \A y \in T : S!Min(T) <= y
<1>1. PICK x \in T : \A y \in T : x <= y
  BY FirstIsThere
<1> QED
  BY <1>1 DEF S!Min

(* The extremes of a range are its ends.                                   *)
LEMMA RangeEnds ==
  ASSUME NEW i \in Nat, NEW j \in Nat, i <= j
  PROVE  S!Min(i..j) = i /\ S!Max(i..j) = j
BY DEF S!Min, S!Max

(* A viewport, and one that shows a range of the options that fits.        *)
IsView(v) == v = [visible |-> v.visible, offset |-> v.offset, content |-> v.content]
Lies(o, r, v) ==
  \E i, j \in DOMAIN o : /\ i <= j /\ v.visible = i..j
                         /\ S!Rows(o, i, j) <= r /\ v.offset = S!Rows(o, 1, i - 1)
AllFit(o, r) == \A i \in DOMAIN o : o[i].height <= r

(* One option takes its own rows.                                           *)
LEMMA RowsOfOne ==
  ASSUME NEW o \in Seq(S!Options), NEW i \in DOMAIN o
  PROVE  S!Rows(o, i, i) = o[i].height
<1> DEFINE f == S!RowsTo(o)
           h == o[i].height
<1>1. f[i - 1] \in Nat /\ f[i] \in Nat /\ f[i] = f[i - 1] + h
  <2>1. i \in 0..Len(o) /\ i - 1 \in 0..Len(o)
    OBVIOUS
  <2> QED
    BY <2>1, RowsAdded
<1>2. h \in Nat
  <2>1. o[i] \in S!Options
    OBVIOUS
  <2> QED
    BY <2>1 DEF S!Options
<1>3. S!Rows(o, i, i) = f[i] - f[i - 1]
  BY DEF S!Rows
<1> HIDE DEF f, h
<1>4. S!Rows(o, i, i) = h
  BY <1>1, <1>2, <1>3
<1> QED
  BY <1>4 DEF h

(* What list_vbox's set_visible_range leaves.                               *)
LEMMA VisibleSet ==
  ASSUME NEW o, NEW v, NEW i, NEW j
  PROVE  /\ IsView(S!SetVisible(o, v, i, j))
         /\ S!SetVisible(o, v, i, j).visible = i..j
         /\ S!SetVisible(o, v, i, j).offset = S!Rows(o, 1, i - 1)
         /\ S!SetVisible(o, v, i, j).content = v.content
<1> DEFINE x == i..j
           y == S!Rows(o, 1, i - 1)
           c == v.content
<1>1. S!SetVisible(o, v, i, j) = [visible |-> x, offset |-> y, content |-> c]
  BY DEF S!SetVisible
<1> HIDE DEF x, y, c
<1>2. IsView(S!SetVisible(o, v, i, j))
  BY <1>1 DEF IsView
<1> QED
  BY <1>1, <1>2 DEF x, y, c

(* A viewport that begins, or ends, with an option that fits.              *)
LEMMA AnchoredFirst ==
  ASSUME NEW o \in Seq(S!Options), NEW r, NEW v, IsView(v), NEW i \in DOMAIN o
  PROVE  LET w == S!AnchorFirst(o, r, v, i) IN
           /\ IsView(w) /\ i \in w.visible /\ w.content = v.content
           /\ o[i].height <= r => Lies(o, r, w)
<1> DEFINE T == {i} \cup {j \in i..Len(o) : S!Rows(o, i, j) <= r}
           m == S!Max(T)
           w == S!AnchorFirst(o, r, v, i)
<1>1. i \in 1..Len(o) /\ Len(o) \in Nat /\ DOMAIN o = 1..Len(o)
  OBVIOUS
<1>2. m \in T /\ \A y \in T : y <= m
  <2>1. T \subseteq 0..Len(o) /\ T # {}
    BY <1>1
  <2> HIDE DEF T
  <2> QED
    BY <1>1, <2>1, GreatestIsThere
<1>3. w = S!SetVisible(o, v, i, m)
  BY DEF S!AnchorFirst
<1>4. m \in i..Len(o) /\ (o[i].height <= r => S!Rows(o, i, m) <= r)
  <2> HIDE DEF m
  <2> QED
    BY <1>1, <1>2, RowsOfOne
<1> HIDE DEF m, w
<1>5. IsView(w) /\ w.visible = i..m /\ w.offset = S!Rows(o, 1, i - 1) /\ w.content = v.content
  BY <1>3, VisibleSet
<1>6. i \in i..m /\ m \in DOMAIN o /\ i <= m
  BY <1>1, <1>4
<1>7. o[i].height <= r => Lies(o, r, w)
  BY <1>4, <1>5, <1>6 DEF Lies
<1> QED
  BY <1>5, <1>6, <1>7 DEF w

(* The same, from the last option back.                                      *)
LEMMA AnchoredLast ==
  ASSUME NEW o \in Seq(S!Options), NEW r, NEW v, IsView(v), NEW i \in DOMAIN o
  PROVE  LET w == S!AnchorLast(o, r, v, i) IN
           /\ IsView(w) /\ i \in w.visible /\ w.content = v.content
           /\ o[i].height <= r => Lies(o, r, w)
<1> DEFINE T == {i} \cup {j \in 1..i : S!Rows(o, j, i) <= r}
           m == S!Min(T)
           w == S!AnchorLast(o, r, v, i)
<1>1. i \in 1..Len(o) /\ Len(o) \in Nat /\ DOMAIN o = 1..Len(o)
  OBVIOUS
<1>2. m \in T /\ \A y \in T : m <= y
  <2>1. T \subseteq Nat /\ T # {}
    BY <1>1
  <2> HIDE DEF T
  <2> QED
    BY <2>1, LowestIsThere
<1>3. w = S!SetVisible(o, v, m, i)
  BY DEF S!AnchorLast
<1>4. m \in 1..i /\ (o[i].height <= r => S!Rows(o, m, i) <= r)
  <2> HIDE DEF m
  <2> QED
    BY <1>1, <1>2, RowsOfOne
<1> HIDE DEF m, w
<1>5. IsView(w) /\ w.visible = m..i /\ w.offset = S!Rows(o, 1, m - 1) /\ w.content = v.content
  BY <1>3, VisibleSet
<1>6. i \in m..i /\ m \in DOMAIN o /\ m <= i
  BY <1>1, <1>4
<1>7. o[i].height <= r => Lies(o, r, w)
  BY <1>4, <1>5, <1>6 DEF Lies
<1> QED
  BY <1>5, <1>6, <1>7 DEF w

(* Bringing an option into view (list_vbox_ensure_visible).                *)
LEMMA Ensured ==
  ASSUME NEW o \in Seq(S!Options), NEW r, NEW v, IsView(v), NEW i \in DOMAIN o
  PROVE  LET w == S!EnsureVisible(o, r, v, i) IN
           /\ IsView(w)
           /\ AllFit(o, r) /\ Lies(o, r, v) => Lies(o, r, w) /\ i \in w.visible
<1> DEFINE w == S!EnsureVisible(o, r, v, i)
<1>1. CASE w = v /\ (v.visible = {} \/ i \in S!Within(v))
  <2>1. Lies(o, r, v) => v.visible # {} /\ S!Within(v) = v.visible
    <3> SUFFICES ASSUME Lies(o, r, v) PROVE v.visible # {} /\ S!Within(v) = v.visible
      OBVIOUS
    <3>1. PICK a, b \in DOMAIN o : a <= b /\ v.visible = a..b
      BY DEF Lies
    <3>2. a \in Nat /\ b \in Nat /\ a \in a..b
      BY <3>1
    <3>3. S!Min(a..b) = a /\ S!Max(a..b) = b
      BY <3>1, <3>2, RangeEnds
    <3> QED
      BY <3>1, <3>2, <3>3 DEF S!Within
  <2> HIDE DEF w
  <2> QED
    BY <1>1, <2>1 DEF w
<1>2. CASE w = S!AnchorFirst(o, r, v, i)
  <2> HIDE DEF w
  <2>1. IsView(w) /\ i \in w.visible /\ (o[i].height <= r => Lies(o, r, w))
    BY <1>2, AnchoredFirst
  <2> QED
    BY <2>1 DEF AllFit, w
<1>3. CASE w = S!AnchorLast(o, r, v, i)
  <2> HIDE DEF w
  <2>1. IsView(w) /\ i \in w.visible /\ (o[i].height <= r => Lies(o, r, w))
    BY <1>3, AnchoredLast
  <2> QED
    BY <2>1 DEF AllFit, w
<1> QED
  BY <1>1, <1>2, <1>3 DEF S!EnsureVisible

(* A layout begins with an option (list_vbox_find_anchor_by_scroll_y).     *)
LEMMA LaidOut ==
  ASSUME NEW o \in Seq(S!Options), NEW r, NEW v, IsView(v)
  PROVE  LET w == S!Layout(o, r, v) IN
           /\ o # <<>> => IsView(w)
           /\ o # <<>> /\ v.visible # {} /\ AllFit(o, r) => Lies(o, r, w)
<1> DEFINE c == S!Rows(o, 1, Len(o))
           u == [v EXCEPT !.content = c]
           y == S!Min({u.offset, S!Max({0, u.content - r})})
           a == S!AnchorAt(o, y)
<1>1. IsView(u) /\ u.visible = v.visible
  <2> DEFINE x == v.visible
             f == v.offset
             d == v.content
  <2>1. v = [visible |-> x, offset |-> f, content |-> d]
    BY DEF IsView
  <2> HIDE DEF x, f, d, c
  <2>2. u = [visible |-> x, offset |-> f, content |-> c]
    BY <2>1
  <2> QED
    BY <2>1, <2>2 DEF IsView
<1>2. o # <<>> => a \in DOMAIN o
  <2> HIDE DEF y
  <2> SUFFICES ASSUME o # <<>> PROVE a \in DOMAIN o
    OBVIOUS
  <2> DEFINE T == {Len(o)} \cup {i \in 1..Len(o) : S!Rows(o, 1, i) > y}
  <2>1. T \subseteq DOMAIN o /\ T # {} /\ T \subseteq Nat
    OBVIOUS
  <2>2. a = S!Min(T)
    BY DEF S!AnchorAt
  <2> HIDE DEF T, a
  <2>3. S!Min(T) \in T
    BY <2>1, LowestIsThere
  <2> QED
    BY <2>1, <2>2, <2>3
<1>3. S!Layout(o, r, v) = IF v.visible = {} THEN u ELSE S!AnchorFirst(o, r, u, a)
  BY DEF S!Layout
<1> HIDE DEF u, a
<1>4. o # <<>> => /\ IsView(S!AnchorFirst(o, r, u, a))
                  /\ o[a].height <= r => Lies(o, r, S!AnchorFirst(o, r, u, a))
  BY <1>1, <1>2, AnchoredFirst
<1> QED
  BY <1>1, <1>2, <1>3, <1>4 DEF AllFit

(* A layout of a select brings its cursor into view (select_layout).        *)
LEMMA CursorLaidOut ==
  ASSUME NEW o \in Seq(S!Options), NEW r, NEW v, IsView(v), NEW c \in DOMAIN o
  PROVE  LET w == S!SelectLayout(o, r, v, c) IN
           /\ IsView(w)
           /\ v.visible # {} /\ AllFit(o, r) => Lies(o, r, w) /\ c \in w.visible
<1> DEFINE w == S!SelectLayout(o, r, v, c)
           l == S!Layout(o, r, v)
<1>1. o # <<>> /\ c # 0
  OBVIOUS
<1>2. IsView(l) /\ (v.visible # {} /\ AllFit(o, r) => Lies(o, r, l))
  BY <1>1, LaidOut
<1>3. w = S!EnsureVisible(o, r, l, c)
  BY <1>1 DEF S!SelectLayout
<1> HIDE DEF w, l
<1>4. IsView(w) /\ (AllFit(o, r) /\ Lies(o, r, l) => Lies(o, r, w) /\ c \in w.visible)
  BY <1>2, <1>3, Ensured
<1> QED
  BY <1>2, <1>4 DEF w

(* More options take no fewer rows.                                         *)
LEMMA RowsGrow ==
  ASSUME NEW o \in Seq(S!Options), NEW i \in 0..Len(o), NEW j \in 0..Len(o), i <= j
  PROVE  S!RowsTo(o)[i] <= S!RowsTo(o)[j]
<1> DEFINE f == S!RowsTo(o)
           n == Len(o)
           P == {k \in 0..n : i <= k => f[i] <= f[k]}
<1>1. \A k \in 0..n : f[k] \in Nat
  BY RowsAdded
<1>2. \A k \in 1..n : f[k] = f[k - 1] + o[k].height /\ o[k].height \in Nat
  <2>1. \A k \in 1..n : k \in DOMAIN o /\ o[k] \in S!Options
    OBVIOUS
  <2>2. \A p \in S!Options : p.height \in Nat
    BY DEF S!Options
  <2> QED
    BY <2>1, <2>2, RowsAdded
<1> HIDE DEF f
<1>3. 0 \in P
  BY <1>1
<1>4. ASSUME NEW k \in 0..n - 1, k \in P PROVE k + 1 \in P
  <2>1. k + 1 \in 1..n /\ (k + 1) - 1 = k /\ k + 1 \in 0..n
    BY <1>4
  <2>2. f[k + 1] = f[k] + o[k + 1].height /\ o[k + 1].height \in Nat /\ f[k] \in Nat
    BY <1>1, <1>2, <1>4, <2>1
  <2>3. f[k] <= f[k + 1] /\ f[k + 1] \in Nat /\ f[i] \in Nat
    BY <1>1, <2>2
  <2>4. CASE i = k + 1
    BY <2>1, <2>3, <2>4
  <2>5. CASE i # k + 1
    <3>1. i <= k + 1 => i <= k
      BY <1>4, <2>5
    <3>2. i <= k => f[i] <= f[k]
      BY <1>4
    <3>3. i <= k + 1 => f[i] <= f[k + 1]
      BY <2>2, <2>3, <3>1, <3>2
    <3> QED
      BY <2>1, <3>3
  <2> QED
    BY <2>4, <2>5
<1>5. \A k \in 0..n : k \in P
  <2>1. n \in Nat
    OBVIOUS
  <2> HIDE DEF P, n
  <2> QED
    BY <1>3, <1>4, <2>1, Reached
<1> QED
  BY <1>5 DEF f

(* A range that fits is rendered as it is.                                 *)
LEMMA RenderedAsLaid ==
  ASSUME NEW o \in Seq(S!Options), NEW r \in Nat, NEW v, IsView(v), Lies(o, r, v)
  PROVE  S!Rendered(o, r, v) = v
<1> DEFINE n == Len(o)
           f == S!RowsTo(o)
<1>1. /\ n \in Nat /\ DOMAIN o = 1..n /\ \A k \in 0..n : f[k] \in Nat
      /\ \A k \in 1..n : f[k] = f[k - 1] + o[k].height
  BY RowsAdded
<1>2. PICK a, b \in 1..n : a <= b /\ v.visible = a..b /\ f[b] - f[a - 1] <= r
  <2>1. PICK a, b \in DOMAIN o : a <= b /\ v.visible = a..b /\ S!Rows(o, a, b) <= r
    BY DEF Lies
  <2> QED
    BY <1>1, <2>1 DEF S!Rows
<1>3. \A k \in a..b : f[k] <= f[b]
  <2> TAKE k \in a..b
  <2>1. k \in 0..n /\ b \in 0..n /\ k <= b
    BY <1>1, <1>2
  <2> QED
    BY <2>1, RowsGrow
<1> HIDE DEF f
<1> DEFINE more(g, i) == g[i - 1] + o[i].height
           Body(g) == [i \in 0..n |-> IF i = 0 THEN 0
                                      ELSE IF i \in v.visible /\ more(g, i) <= r
                                           THEN more(g, i) ELSE g[i - 1]]
           used  == CHOOSE g : g = Body(g)
           sofar == [k \in 0..n |-> IF k < a THEN 0
                                    ELSE IF k <= b THEN f[k] - f[a - 1] ELSE f[b] - f[a - 1]]
<1>4. S!Rendered(o, r, v) = [v EXCEPT !.visible = {i \in @ : more(used, i) <= r}]
  BY DEF S!Rendered
<1>5. ASSUME NEW k \in a..b
      PROVE  /\ sofar[k - 1] + o[k].height = sofar[k] /\ sofar[k] <= r
             /\ k \in 1..n
  <2>1. /\ k \in 1..n /\ k - 1 \in 0..n /\ k \in 0..n /\ a - 1 \in 0..n /\ b \in 0..n
        /\ f[k] \in Nat /\ f[k - 1] \in Nat /\ f[a - 1] \in Nat /\ f[b] \in Nat
        /\ f[k] = f[k - 1] + o[k].height /\ f[k] <= f[b] /\ a <= k /\ k <= b
    <3>1. /\ k \in 1..n /\ k - 1 \in 0..n /\ k \in 0..n /\ a - 1 \in 0..n /\ b \in 0..n
          /\ a <= k /\ k <= b
      BY <1>1, <1>2
    <3> QED
      BY <1>1, <1>3, <3>1
  <2>2. sofar[k] = f[k] - f[a - 1]
    BY <1>2, <2>1
  <2>3. sofar[k - 1] = f[k - 1] - f[a - 1]
    <3>1. CASE k = a
      BY <1>2, <2>1, <3>1
    <3>2. CASE k # a
      <4>1. ~(k - 1 < a) /\ k - 1 <= b
        BY <1>2, <2>1, <3>2
      <4> QED
        BY <2>1, <4>1
    <3> QED
      BY <3>1, <3>2
  <2> DEFINE h == o[k].height
             p == f[k]
             q == f[k - 1]
             s == f[a - 1]
             t == f[b]
  <2>4. /\ p \in Nat /\ q \in Nat /\ s \in Nat /\ t \in Nat /\ p = q + h /\ p <= t /\ t - s <= r
        /\ sofar[k] = p - s /\ sofar[k - 1] = q - s
    BY <1>2, <2>1, <2>2, <2>3
  <2>5. h \in Int
    <3>1. o[k] \in S!Options
      BY <2>1
    <3> QED
      BY <3>1 DEF S!Options
  <2> HIDE DEF h, p, q, s, t, sofar
  <2>6. sofar[k - 1] + h = sofar[k] /\ sofar[k] <= r
    BY <2>4, <2>5
  <2> QED
    BY <2>1, <2>6 DEF h
<1>6. sofar = Body(sofar)
  <2>1. ASSUME NEW k \in 0..n PROVE sofar[k] = Body(sofar)[k]
    <3>1. CASE k = 0
      BY <1>2, <3>1
    <3>2. CASE k # 0 /\ k < a
      <4>1. k - 1 \in 0..n /\ k - 1 < a /\ k \notin a..b
        BY <1>1, <1>2, <3>2
      <4>2. sofar[k] = 0 /\ sofar[k - 1] = 0
        BY <3>2, <4>1
      <4> HIDE DEF sofar, more
      <4> QED
        BY <1>2, <3>2, <4>1, <4>2
    <3>3. CASE k \in a..b
      <4>1. k # 0
        BY <1>2, <3>3
      <4>2. more(sofar, k) = sofar[k] /\ sofar[k] <= r
        BY <1>5, <3>3
      <4> HIDE DEF sofar, more
      <4> QED
        BY <1>2, <3>3, <4>1, <4>2
    <3>4. CASE k > b
      <4>1. k - 1 \in 0..n /\ ~(k - 1 < a) /\ ~(k < a) /\ ~(k <= b) /\ k \notin a..b /\ k # 0
        BY <1>1, <1>2, <3>4
      <4>2. sofar[k] = f[b] - f[a - 1]
        BY <4>1
      <4>3. sofar[k - 1] = f[b] - f[a - 1]
        <5>1. CASE k - 1 = b
          BY <1>2, <4>1, <5>1
        <5>2. CASE k - 1 # b
          <6>1. ~(k - 1 <= b)
            BY <1>1, <1>2, <3>4, <5>2
          <6> QED
            BY <4>1, <6>1
        <5> QED
          BY <5>1, <5>2
      <4> HIDE DEF sofar, more
      <4> QED
        BY <1>2, <4>1, <4>2, <4>3
    <3> QED
      BY <1>1, <1>2, <3>1, <3>2, <3>3, <3>4
  <2>2. DOMAIN sofar = 0..n /\ DOMAIN Body(sofar) = 0..n
    OBVIOUS
  <2>3. sofar = [k \in 0..n |-> sofar[k]] /\ Body(sofar) = [k \in 0..n |-> Body(sofar)[k]]
    OBVIOUS
  <2> HIDE DEF sofar, Body
  <2> QED
    BY <2>1, <2>3
<1>7. used = Body(used)
  <2> HIDE DEF sofar, Body
  <2> QED
    BY <1>6
<1> HIDE DEF used
<1>8. \A k \in 0..n : used[k] = sofar[k]
  <2> DEFINE P == {k \in 0..n : used[k] = sofar[k]}
  <2>1. \A g : Body(g)[0] = 0
    BY <1>1
  <2>2. 0 \in P
    <3>1. used[0] = 0 /\ sofar[0] = 0
      <4> HIDE DEF sofar, Body
      <4> QED
        BY <1>6, <1>7, <2>1
    <3> QED
      BY <1>1, <3>1
  <2>3. ASSUME NEW k \in 0..n - 1, k \in P PROVE k + 1 \in P
    <3>1. k + 1 \in 0..n /\ k + 1 # 0 /\ (k + 1) - 1 = k
      BY <1>1, <2>3
    <3>2. ASSUME NEW g, NEW h, g[k] = h[k] PROVE Body(g)[k + 1] = Body(h)[k + 1]
      BY <3>1, <3>2
    <3> HIDE DEF sofar, Body
    <3>3. Body(used)[k + 1] = Body(sofar)[k + 1]
      BY <2>3, <3>2
    <3>4. used[k + 1] = sofar[k + 1]
      BY <1>6, <1>7, <3>3
    <3> QED
      BY <3>1, <3>4
  <2>4. \A k \in 0..n : k \in P
    <3> HIDE DEF P
    <3> QED
      BY <1>1, <2>2, <2>3, Reached
  <2> QED
    BY <2>4
<1>9. {i \in v.visible : more(used, i) <= r} = v.visible
  <2>1. ASSUME NEW i \in a..b PROVE more(used, i) <= r
    <3>1. i - 1 \in 0..n
      BY <1>1, <1>2
    <3>2. used[i - 1] = sofar[i - 1]
      BY <1>8, <3>1
    <3> HIDE DEF sofar
    <3> QED
      BY <1>5, <3>2
  <2> QED
    BY <1>2, <2>1
<1> DEFINE V == {i \in v.visible : more(used, i) <= r}
<1>10. S!Rendered(o, r, v) = [v EXCEPT !.visible = V]
  BY <1>4
<1> HIDE DEF V
<1> QED
  BY <1>9, <1>10 DEF V, IsView

(* A render leaves a viewport,                                              *)
LEMMA RenderedIsView ==
  ASSUME NEW o, NEW r, NEW v, IsView(v) PROVE IsView(S!Rendered(o, r, v))
<1>1. \A x : IsView([v EXCEPT !.visible = x])
  <2> TAKE x
  <2> DEFINE a == v.visible
             b == v.offset
             c == v.content
  <2>1. v = [visible |-> a, offset |-> b, content |-> c]
    BY DEF IsView
  <2> HIDE DEF a, b, c
  <2>2. [v EXCEPT !.visible = x] = [visible |-> x, offset |-> b, content |-> c]
    BY <2>1
  <2> QED
    BY <2>2 DEF IsView
<1> QED
  BY <1>1 DEF S!Rendered

(* A select's viewport: unless an option was higher than the list, it      *)
(* shows a range that fits and has the option last brought into view.      *)
ViewInv ==
  /\ IsView(view)
  /\ made /\ ~squeezed /\ options # <<>> =>
       AllFit(options, rows) /\ Lies(options, rows, view) /\ brought \in view.visible

(* and so does every operation that scrolls.                                *)
LEMMA StillViews ==
  ASSUME NEW o, NEW r, NEW v, IsView(v), NEW i
  PROVE  /\ IsView(S!EnsureVisible(o, r, v, i)) /\ IsView(S!Layout(o, r, v))
         /\ IsView(S!SelectLayout(o, r, v, i)) /\ IsView(S!ScrollTop(o, r, v))
<1>1. \A u, j : IsView(S!AnchorFirst(o, r, u, j)) /\ IsView(S!AnchorLast(o, r, u, j))
  BY VisibleSet DEF S!AnchorFirst, S!AnchorLast
<1>2. \A u, j : IsView(u) => IsView(S!EnsureVisible(o, r, u, j))
  BY <1>1 DEF S!EnsureVisible
<1>3. \A x : IsView([v EXCEPT !.content = x]) /\ IsView([v EXCEPT !.offset = x])
  <2> TAKE x
  <2> DEFINE a == v.visible
             b == v.offset
             c == v.content
  <2>1. v = [visible |-> a, offset |-> b, content |-> c]
    BY DEF IsView
  <2> HIDE DEF a, b, c
  <2>2. /\ [v EXCEPT !.content = x] = [visible |-> a, offset |-> b, content |-> x]
        /\ [v EXCEPT !.offset = x] = [visible |-> a, offset |-> x, content |-> c]
    BY <2>1
  <2> QED
    BY <2>2 DEF IsView
<1>4. IsView(S!Layout(o, r, v))
  BY <1>1, <1>3 DEF S!Layout
<1>5. IsView(S!SelectLayout(o, r, v, i))
  BY <1>2, <1>4 DEF S!SelectLayout
<1>6. IsView(S!ScrollTop(o, r, v))
  BY <1>1, <1>3 DEF S!ScrollTop
<1> QED
  BY <1>2, <1>4, <1>5, <1>6

(* An option is higher than the list, or all fit.                          *)
LEMMA NoneTooHigh ==
  ASSUME NEW o \in Seq(S!Options), NEW r \in Nat, ~S!TooHigh(o, r) PROVE AllFit(o, r)
<1>1. \A i \in DOMAIN o : o[i].height \in Nat
  <2>1. \A i \in DOMAIN o : o[i] \in S!Options
    OBVIOUS
  <2>2. \A p \in S!Options : p.height \in Nat
    BY DEF S!Options
  <2> QED
    BY <2>1, <2>2
<1>2. \A i \in DOMAIN o : ~(o[i].height > r)
  BY DEF S!TooHigh
<1>3. ASSUME NEW i \in DOMAIN o PROVE o[i].height <= r
  <2> DEFINE h == o[i].height
  <2>1. h \in Nat /\ ~(h > r)
    BY <1>1, <1>2
  <2> HIDE DEF h
  <2>2. h <= r
    BY <2>1
  <2> QED
    BY <2>2 DEF h
<1> QED
  BY <1>3 DEF AllFit

(* A list that is laid out, with its cursor on an option, and rendered.    *)
LEMMA LaidShown ==
  ASSUME NEW o \in Seq(S!Options), NEW r \in Nat, NEW v, IsView(v), NEW c \in DOMAIN o,
         v.visible # {}, AllFit(o, r)
  PROVE  LET w == S!Rendered(o, r, S!SelectLayout(o, r, v, c)) IN
           Lies(o, r, w) /\ c \in w.visible
<1> DEFINE u == S!SelectLayout(o, r, v, c)
<1>1. IsView(u) /\ Lies(o, r, u) /\ c \in u.visible
  BY CursorLaidOut
<1> HIDE DEF u
<1>2. S!Rendered(o, r, u) = u
  BY <1>1, RenderedAsLaid
<1> QED
  BY <1>1, <1>2 DEF u

(* A handler renders the viewport it found, or brings an option into it.   *)
LEMMA ViewKept ==
  ASSUME SelectTypes, ViewInv, S!Same,
         \/ view' = S!Rendered(options, rows, view) /\ UNCHANGED brought
         \/ \E i \in DOMAIN options :
              /\ brought' = i
              /\ view' = S!Rendered(options, rows, S!EnsureVisible(options, rows, view, i))
  PROVE  ViewInv'
<1>1. UNCHANGED <<made, options, rows, squeezed>> /\ IsView(view)
  BY DEF S!Same, ViewInv
<1>2. options \in Seq(S!Options) /\ rows \in Nat
  BY DEF SelectTypes
<1>3. CASE view' = S!Rendered(options, rows, view) /\ UNCHANGED brought
  <2>1. IsView(view')
    BY <1>1, <1>3, RenderedIsView
  <2>2. Lies(options, rows, view) => view' = view
    BY <1>1, <1>2, <1>3, RenderedAsLaid
  <2> QED
    BY <1>1, <1>3, <2>1, <2>2 DEF ViewInv
<1>4. ASSUME NEW i \in DOMAIN options, brought' = i,
             view' = S!Rendered(options, rows, S!EnsureVisible(options, rows, view, i))
      PROVE  ViewInv'
  <2> DEFINE u == S!EnsureVisible(options, rows, view, i)
  <2>1. /\ IsView(u)
        /\ AllFit(options, rows) /\ Lies(options, rows, view) =>
             Lies(options, rows, u) /\ i \in u.visible
    BY <1>1, <1>2, Ensured
  <2>2. view' = S!Rendered(options, rows, u)
    BY <1>4
  <2> HIDE DEF u
  <2>3. IsView(view')
    BY <2>1, <2>2, RenderedIsView
  <2>4. Lies(options, rows, u) => view' = u
    BY <1>2, <2>1, <2>2, RenderedAsLaid
  <2> QED
    BY <1>1, <1>4, <2>1, <2>3, <2>4 DEF ViewInv
<1> QED
  BY <1>3, <1>4

(* A list that is made or laid out in another size.                        *)
LEMMA ViewLaid ==
  ASSUME NEW o \in Seq(S!Options), NEW r \in Nat, NEW v, IsView(v), NEW c \in S!Cursors(o),
         o # <<>> /\ ~squeezed' => v.visible # {} /\ ~S!TooHigh(o, r),
         options' = o, rows' = r, brought' = c,
         view' = S!Rendered(o, r, S!SelectLayout(o, r, v, c))
  PROVE  ViewInv'
<1>1. IsView(view')
  BY StillViews, RenderedIsView
<1>2. ASSUME o # <<>>, ~squeezed'
      PROVE  AllFit(o, r) /\ Lies(o, r, view') /\ brought' \in view'.visible
  <2>1. c \in DOMAIN o
    BY <1>2 DEF S!Cursors
  <2>2. AllFit(o, r)
    BY <1>2, NoneTooHigh
  <2> QED
    BY <1>2, <2>1, <2>2, LaidShown
<1> QED
  BY <1>1, <1>2 DEF ViewInv

(* A list that replaces another.                                           *)
LEMMA ViewReplaced ==
  ASSUME S!ConstAssumption, ViewInv, SelectTypes,
         NEW o \in Lists, NEW wide \in BOOLEAN, NEW c \in S!Cursors(o),
         S!Replace(o, c, wide)
  PROVE  ViewInv'
<1> DEFINE v == [view EXCEPT !.visible = DOMAIN o]
           laid == S!SelectLayout(o, rows, v, c)
           top == S!ScrollTop(o, rows, laid)
           u == IF c = 0 THEN top ELSE S!EnsureVisible(o, rows, top, c)
<1>1. CASE UNCHANGED <<options, view, brought, squeezed>>
  <2>1. UNCHANGED <<made, rows>>
    BY DEF S!Replace
  <2> QED
    BY <1>1, <2>1 DEF ViewInv
<1>2. CASE /\ ~S!TooHigh(o, rows) /\ options' = o /\ brought' = c
           /\ view' = S!Rendered(o, rows, u)
  <2>1. rows' = rows /\ rows \in Nat /\ o \in Seq(S!Options)
    BY DEF S!Replace, SelectTypes, S!ConstAssumption
  <2>2. AllFit(o, rows)
    BY <1>2, <2>1, NoneTooHigh
  <2>3. IsView(v)
    <3> DEFINE x == DOMAIN o
               b == view.offset
               d == view.content
    <3>1. view = [visible |-> view.visible, offset |-> b, content |-> d]
      BY DEF ViewInv, IsView
    <3>2. v = [view EXCEPT !.visible = x]
      OBVIOUS
    <3> HIDE DEF x, b, d, v
    <3>3. v = [visible |-> x, offset |-> b, content |-> d]
      BY <3>1, <3>2
    <3> QED
      BY <3>3 DEF IsView
  <2> HIDE DEF v
  <2>4. IsView(laid)
    BY <2>3, StillViews
  <2>5. IsView(top) /\ (o # <<>> => Lies(o, rows, top))
    <3>1. o # <<>> => 1 \in DOMAIN o
      BY <2>1
    <3>2. o # <<>> => top = S!AnchorFirst(o, rows, laid, 1)
      BY DEF S!ScrollTop
    <3>3. o # <<>> => Lies(o, rows, S!AnchorFirst(o, rows, laid, 1))
      <4> DEFINE one == 1
      <4> HIDE DEF one, laid
      <4>1. one \in DOMAIN o => Lies(o, rows, S!AnchorFirst(o, rows, laid, one))
        BY <2>1, <2>2, <2>4, AnchoredFirst DEF AllFit
      <4> QED
        BY <3>1, <4>1 DEF one
    <3>4. IsView(top)
      BY <2>4, StillViews
    <3> QED
      BY <3>2, <3>3, <3>4
  <2> HIDE DEF top, laid
  <2>6. IsView(u)
    BY <2>5, StillViews
  <2>7. o # <<>> => Lies(o, rows, u) /\ c \in u.visible
    <3> SUFFICES ASSUME o # <<>> PROVE Lies(o, rows, u) /\ c \in u.visible
      OBVIOUS
    <3>1. c \in DOMAIN o /\ c # 0
      BY <2>1 DEF S!Cursors
    <3>2. u = S!EnsureVisible(o, rows, top, c)
      BY <3>1
    <3> HIDE DEF u
    <3> QED
      BY <2>1, <2>2, <2>5, <3>1, <3>2, Ensured
  <2> HIDE DEF u
  <2>8. IsView(view')
    BY <1>2, <2>6, RenderedIsView
  <2>9. o # <<>> => view' = u
    BY <1>2, <2>1, <2>6, <2>7, RenderedAsLaid
  <2> QED
    BY <1>2, <2>1, <2>2, <2>7, <2>8, <2>9 DEF ViewInv
<1> QED
  BY <1>1, <1>2 DEF S!Replace

(* The viewport is sound at the start,                                      *)
LEMMA ViewInit == ASSUME S!Init PROVE ViewInv
<1>1. made = FALSE /\ view = S!Unlaid(<<>>)
  BY DEF S!Init
<1>2. IsView(view)
  <2> DEFINE x == DOMAIN <<>>
  <2>1. view = [visible |-> x, offset |-> 0, content |-> 0]
    BY <1>1 DEF S!Unlaid
  <2> HIDE DEF x
  <2> QED
    BY <2>1 DEF IsView
<1> QED
  BY <1>1, <1>2 DEF ViewInv

(* in a new dialog,                                                         *)
LEMMA ViewCreated ==
  ASSUME NEW o \in Seq(S!Options), NEW r \in Nat, NEW c \in S!Cursors(o), S!Created(o, r, c)
  PROVE  ViewInv'
<1> DEFINE v == S!Unlaid(o)
<1>1. IsView(v) /\ v.visible = DOMAIN o
  <2> DEFINE x == DOMAIN o
  <2>1. v = [visible |-> x, offset |-> 0, content |-> 0]
    BY DEF S!Unlaid
  <2> HIDE DEF x, v
  <2>2. IsView(v) /\ v.visible = x
    BY <2>1 DEF IsView
  <2> QED
    BY <2>2 DEF x
<1>2. o # <<>> => DOMAIN o # {}
  <2>1. o # <<>> => 1 \in DOMAIN o
    OBVIOUS
  <2> QED
    BY <2>1
<1>3. /\ options' = o /\ rows' = r /\ brought' = c /\ squeezed' = S!TooHigh(o, r)
      /\ view' = S!Rendered(o, r, S!SelectLayout(o, r, v, c))
  BY DEF S!Created
<1> HIDE DEF v
<1> QED
  BY <1>1, <1>2, <1>3, ViewLaid

(* and through every step.                                                  *)
LEMMA ViewNext ==
  ASSUME S!ConstAssumption, SelectInv, ViewInv, [S!Next]_S!vars PROVE ViewInv'
<1>0. /\ SelectTypes /\ cursor \in Int
      /\ cursor # 0 => options # <<>> /\ cursor \in DOMAIN options
      /\ made => cursor \in S!Cursors(options)
      /\ \A o \in Lists : o \in Seq(S!Options)
      /\ \A r \in RowCounts : r \in Nat
  <2>1. SelectTypes /\ S!ChoiceSound
    BY DEF SelectInv
  <2>2. Lists \subseteq Seq(S!Options) /\ RowCounts \subseteq Nat \ {0}
    BY Zenon DEF S!ConstAssumption
  <2>3. cursor # 0 => options # <<>> /\ cursor \in DOMAIN options /\ cursor \in Int
    BY <2>1 DEF S!ChoiceSound, S!Cursors, SelectTypes
  <2>4. made => cursor \in S!Cursors(options)
    BY <2>1 DEF S!ChoiceSound
  <2> QED
    BY <2>1, <2>2, <2>3, <2>4
<1>1. CASE UNCHANGED S!vars
  BY <1>1 DEF S!vars, ViewInv
<1>2. CASE S!Navigate
  <2>1. PICK i \in {cursor - 1, cursor + 1, cursor - rows, cursor + rows, 1, Len(options)} :
          /\ brought' = S!Clamped(i)
          /\ view' = S!Rendered(options, rows,
                       S!EnsureVisible(options, rows, view, S!Clamped(i)))
    BY <1>2 DEF S!Navigate, S!MoveTo, S!Show
  <2>2. i \in Int /\ options \in Seq(S!Options) /\ options # <<>> /\ S!Same
    BY <1>0, <1>2 DEF S!Navigate, SelectTypes
  <2>3. S!Clamped(i) \in DOMAIN options
    BY <2>2, ClampedIsOption
  <2> QED
    BY <1>0, <2>1, <2>2, <2>3, ViewKept
<1>3. CASE S!Enter \/ S!Focus \/ S!SearchTimeout \/ S!Space
  <2>1. S!Same /\ view' = S!Rendered(options, rows, view) /\ UNCHANGED brought
    BY <1>3 DEF S!Enter, S!Focus, S!SearchTimeout, S!Space, S!Show
  <2> QED
    BY <1>0, <2>1, ViewKept
<1>4. ASSUME NEW c \in Letters, NEW old \in BOOLEAN, S!Search(c, old) PROVE ViewInv'
  <2> DEFINE known == IF old THEN <<>> ELSE prefix
             cycle == known = <<c>>
             typed == IF cycle THEN known ELSE Append(known, c)
             again == <<c>>
             start == IF Len(typed) = 1 THEN cursor + 1 ELSE cursor
             after == cursor + 1
             one   == S!Found(typed, start)
             two   == S!Found(again, after)
             To(i) == /\ brought' = i
                      /\ view' = S!Rendered(options, rows,
                                   S!EnsureVisible(options, rows, view, i))
  <2>1. /\ S!Same
        /\ \/ view' = S!Rendered(options, rows, view) /\ UNCHANGED brought
           \/ one # 0 /\ To(one)
           \/ two # 0 /\ To(two)
    BY <1>4 DEF S!Search, S!Show, S!MoveTo
  <2>2. (one # 0 => one \in DOMAIN options) /\ (two # 0 => two \in DOMAIN options)
    <3>1. start \in Int /\ after \in Int
      BY <1>0
    <3>2. options \in Seq(S!Options)
      BY <1>0 DEF SelectTypes
    <3> HIDE DEF typed, again, start, after
    <3> QED
      BY <3>1, <3>2, FoundMatches
  <2> HIDE DEF one, two
  <2> QED
    BY <1>0, <2>1, <2>2, ViewKept
<1>5. ASSUME NEW i \in DOMAIN options, NEW b \in BOOLEAN, S!SetOption(i, b) \/ S!SetCursor(i, b)
      PROVE  ViewInv'
  <2>1. /\ S!Same
        /\ \/ view' = S!Rendered(options, rows, view) /\ UNCHANGED brought
           \/ /\ brought' = i
              /\ view' = S!Rendered(options, rows, S!EnsureVisible(options, rows, view, i))
    <3>1. CASE S!SetOption(i, b)
      BY <3>1 DEF S!SetOption, S!Show
    <3>2. CASE S!SetCursor(i, b)
      BY <3>2 DEF S!SetCursor, S!Show, S!MoveTo
    <3> QED
      BY <1>5, <3>1, <3>2
  <2> QED
    BY <1>0, <2>1, ViewKept
<1>6. ASSUME NEW o \in Lists, NEW r \in RowCounts, NEW n \in MaxSelected,
             NEW boxes \in SUBSET DOMAIN o, S!CreateChecklist(o, r, n, boxes)
      PROVE  ViewInv'
  <2>1. o \in Seq(S!Options) /\ r \in Nat
    BY <1>0
  <2>2. S!First(o) \in S!Cursors(o)
    <3>1. o # <<>> => 1 \in DOMAIN o
      BY <2>1
    <3> QED
      BY <3>1 DEF S!First, S!Cursors
  <2>3. S!Created(o, r, S!First(o))
    BY <1>6 DEF S!CreateChecklist
  <2> QED
    BY <2>1, <2>2, <2>3, ViewCreated
<1>7. ASSUME NEW o \in Lists, NEW r \in RowCounts, NEW c \in DOMAIN o, S!CreateMenu(o, r, c)
      PROVE  ViewInv'
  <2>1. o \in Seq(S!Options) /\ r \in Nat
    BY <1>0
  <2>2. c \in S!Cursors(o)
    BY <2>1 DEF S!Cursors
  <2>3. S!Created(o, r, c)
    BY <1>7 DEF S!CreateMenu
  <2> QED
    BY <2>1, <2>2, <2>3, ViewCreated
<1>8. ASSUME NEW o \in Lists, NEW wide \in BOOLEAN, NEW c \in S!Cursors(o),
             S!Replace(o, c, wide)
      PROVE  ViewInv'
  BY <1>0, <1>8, ViewReplaced
<1>9. ASSUME NEW r \in RowCounts, S!Resize(r) PROVE ViewInv'
  <2>1. /\ made /\ options' = options /\ rows' = r /\ brought' = cursor
        /\ squeezed' = (squeezed \/ S!TooHigh(options, r))
        /\ view' = S!Rendered(options, r, S!SelectLayout(options, r, view, cursor))
    BY <1>9 DEF S!Resize
  <2>2. options \in Seq(S!Options) /\ r \in Nat /\ cursor \in S!Cursors(options) /\ IsView(view)
    BY <1>0, <2>1 DEF SelectTypes, ViewInv
  <2>3. options # <<>> /\ ~squeezed' => view.visible # {} /\ ~S!TooHigh(options, r)
    BY <2>1 DEF ViewInv
  <2> QED
    BY <2>1, <2>2, <2>3, ViewLaid
<1> QED
  BY <1>1, <1>2, <1>3, <1>4, <1>5, <1>6, <1>7, <1>8, <1>9, Zenon DEF S!Next

(* A range that fits is what the promise asks.                             *)
LEMMA ViewPromised == ASSUME SelectInv, ViewInv PROVE BroughtIntoView
<1> SUFFICES ASSUME made, ~squeezed, options # <<>>
             PROVE  /\ view.visible # {} /\ view.visible = S!Within(view)
                    /\ S!Rows(options, S!Min(view.visible), S!Max(view.visible)) <= rows
                    /\ view.offset = S!Rows(options, 1, S!Min(view.visible) - 1)
                    /\ brought \in view.visible
  BY DEF BroughtIntoView, S!BroughtIntoView, S!InView
<1>1. Lies(options, rows, view) /\ brought \in view.visible
  BY DEF ViewInv
<1>2. PICK i, j \in DOMAIN options :
        /\ i <= j /\ view.visible = i..j
        /\ S!Rows(options, i, j) <= rows /\ view.offset = S!Rows(options, 1, i - 1)
  BY <1>1 DEF Lies
<1>3. i \in Nat /\ j \in Nat
  BY DEF SelectInv, SelectTypes
<1>4. S!Min(i..j) = i /\ S!Max(i..j) = j
  BY <1>2, <1>3, RangeEnds
<1> QED
  BY <1>1, <1>2, <1>4 DEF S!Within

-----------------------------------------------------------------------------
(***************************************************************************)
(* The input field (I, module WidgetInput).                                *)
(***************************************************************************)

(* Added is that function. *)
LEMMA AddedUp ==
  ASSUME NEW n \in Nat, NEW ws \in [0..n - 1 -> Nat]
  PROVE  /\ I!Added(ws, n) \in [0..n -> Nat]
         /\ \A k \in 0..n - 1 : I!Added(ws, n)[k + 1] = I!Added(ws, n)[k] + ws[k]
<1> DEFINE Body(f) == [k \in 0..n |-> IF k = 0 THEN 0 ELSE f[k - 1] + ws[k - 1]]
           sum == CHOOSE f : f = Body(f)
<1>1. I!Added(ws, n) = sum
  BY DEF I!Added
<1>2. \E f : f = Body(f)
  <2>1. PICK f \in [0..n -> Nat] : f[0] = 0 /\ \A k \in 0..n - 1 : f[k + 1] = f[k] + ws[k]
    BY SumsExist
  <2>2. ASSUME NEW k \in 0..n PROVE f[k] = Body(f)[k]
    <3>1. CASE k = 0
      BY <2>1, <3>1
    <3>2. CASE k # 0
      <4>1. k - 1 \in 0..n - 1 /\ (k - 1) + 1 = k
        BY <3>2
      <4>2. f[k] = f[k - 1] + ws[k - 1]
        BY <2>1, <4>1
      <4> QED
        BY <3>2, <4>2
    <3> QED
      BY <3>1, <3>2
  <2>3. f = Body(f)
    BY <2>2
  <2> QED
    BY <2>3
<1>3. sum = Body(sum)
  <2> HIDE DEF Body
  <2> QED
    BY <1>2
<1> HIDE DEF sum
<1> DEFINE P == {k \in 0..n : sum[k] \in Nat}
<1>4. \A k \in 0..n - 1 : sum[k + 1] = sum[k] + ws[k]
  BY <1>3
<1>5. 0 \in P
  BY <1>3
<1>6. ASSUME NEW k \in 0..n - 1, k \in P PROVE k + 1 \in P
  BY <1>4, <1>6
<1>7. \A k \in 0..n : k \in P
  <2> HIDE DEF P
  <2> QED
    BY <1>5, <1>6, Reached
<1>8. sum \in [0..n -> Nat]
  BY <1>3, <1>7
<1> QED
  BY <1>1, <1>4, <1>8

(* The columns from a position on, and what one more character adds.       *)
LEMMA TakenIs ==
  ASSUME NEW n \in Nat, NEW ws \in [0..n - 1 -> Nat]
  PROVE  /\ I!Taken(ws, n, n) = 0
         /\ \A k \in 0..n : I!Taken(ws, k, n) \in Int
         /\ \A k \in 0..n - 1 : I!Taken(ws, k, n) = ws[k] + I!Taken(ws, k + 1, n)
<1> DEFINE sum == I!Added(ws, n)
<1>1. sum \in [0..n -> Nat] /\ \A k \in 0..n - 1 : sum[k + 1] = sum[k] + ws[k]
  BY AddedUp
<1>2. \A k : I!Taken(ws, k, n) = sum[n] - sum[k]
  BY DEF I!Taken
<1> HIDE DEF sum
<1>3. \A k \in 0..n : sum[k] \in Nat
  BY <1>1
<1>4. ASSUME NEW k \in 0..n - 1
      PROVE  I!Taken(ws, k, n) = ws[k] + I!Taken(ws, k + 1, n)
  <2>1. k \in 0..n /\ k + 1 \in 0..n /\ n \in 0..n
    OBVIOUS
  <2>2. ws[k] \in Nat /\ sum[k] \in Nat /\ sum[n] \in Nat /\ sum[k + 1] = sum[k] + ws[k]
    BY <1>1, <1>3, <2>1
  <2> QED
    BY <1>2, <2>2
<1>5. n \in 0..n /\ sum[n] \in Nat
  BY <1>3
<1>6. I!Taken(ws, n, n) = 0
  BY <1>2, <1>5
<1>7. \A k \in 0..n : I!Taken(ws, k, n) \in Int
  BY <1>2, <1>3, <1>5
<1> QED
  BY <1>4, <1>6, <1>7

(* The least number of a set is in it. *)
LEMMA LeastIsThere ==
  ASSUME NEW T, T \subseteq Nat, T # {}
  PROVE  I!Min(T) \in T /\ \A y \in T : I!Min(T) <= y
<1>1. PICK x \in T : \A y \in T : x <= y
  BY FirstIsThere
<1> QED
  BY <1>1 DEF I!Min

(* Where the viewport begins, the columns up to the cursor fit, and a      *)
(* character begins it that has one.                                       *)
LEMMA StartFits ==
  ASSUME NEW n \in Nat, NEW ws \in [0..n - 1 -> Nat], NEW from \in 0..n, NEW w \in Nat
  PROVE  LET s == I!FirstStart(ws, n, from, w) IN
         /\ s \in 0..n /\ I!Taken(ws, s, n) <= w
         /\ s < n => ws[s] > 0
<1> DEFINE Fitting == {s \in from..n : I!Taken(ws, s, n) <= w}
           fits    == I!Min(Fitting)
           Starts  == {s \in fits..n : s = n \/ ws[s] > 0}
           start   == I!Min(Starts)
<1>1. fits \in from..n /\ I!Taken(ws, fits, n) <= w
  <2>1. n \in Fitting
    BY TakenIs
  <2>2. Fitting \subseteq Nat
    OBVIOUS
  <2>3. fits \in Fitting
    <3> HIDE DEF Fitting
    <3> QED
      BY <2>1, <2>2, LeastIsThere
  <2> HIDE DEF fits
  <2> QED
    BY <2>3
<1> HIDE DEF fits
<1>2. start \in Starts /\ \A y \in Starts : start <= y
  <2>1. n \in Starts /\ Starts \subseteq Nat
    BY <1>1
  <2> HIDE DEF Starts
  <2> QED
    BY <2>1, LeastIsThere
<1> HIDE DEF start
<1>3. start \in fits..n /\ (start < n => ws[start] > 0)
  BY <1>2
<1>4. \A k \in fits..n : k < start => ws[k] = 0
  <2> SUFFICES ASSUME NEW k \in fits..n, k < start PROVE ws[k] = 0
    OBVIOUS
  <2>1. k \notin Starts
    BY <1>1, <1>2, <1>3
  <2>2. k \in 0..n - 1 /\ ws[k] \in Nat
    BY <1>1, <1>3
  <2> QED
    BY <2>1, <2>2
<1> DEFINE P == {k \in Nat : fits + k <= start => I!Taken(ws, fits + k, n) <= w}
<1>5. 0 \in P
  BY <1>1
<1>6. ASSUME NEW k \in 0..n - 1, k \in P PROVE k + 1 \in P
  <2>1. ASSUME fits + (k + 1) <= start PROVE I!Taken(ws, fits + (k + 1), n) <= w
    <3> DEFINE j == fits + k
    <3>1. /\ j < start /\ j \in fits..n /\ j \in 0..n - 1
          /\ fits + (k + 1) = j + 1 /\ j + 1 \in 0..n /\ j <= start
      BY <1>1, <1>3, <2>1
    <3>2. I!Taken(ws, j, n) <= w
      <4>1. j <= start => I!Taken(ws, j, n) <= w
        BY <1>6
      <4> QED
        BY <3>1, <4>1
    <3> HIDE DEF j
    <3>3. ws[j] = 0
      BY <1>4, <3>1
    <3>4. I!Taken(ws, j, n) = ws[j] + I!Taken(ws, j + 1, n) /\ I!Taken(ws, j + 1, n) \in Int
      BY <3>1, TakenIs
    <3>5. I!Taken(ws, j + 1, n) <= w
      BY <3>2, <3>3, <3>4
    <3> QED
      BY <3>1, <3>5
  <2> QED
    BY <2>1
<1>7. \A k \in 0..n : k \in P
  <2> HIDE DEF P
  <2> QED
    BY <1>5, <1>6, Reached
<1>8. start - fits \in 0..n /\ fits + (start - fits) = start
  BY <1>1, <1>3
<1>9. I!Taken(ws, start, n) <= w
  <2>1. start - fits \in P
    <3> HIDE DEF P
    <3> QED
      BY <1>7, <1>8
  <2>2. fits + (start - fits) <= start => I!Taken(ws, fits + (start - fits), n) <= w
    BY <2>1
  <2>3. start <= start
    BY <1>1, <1>3
  <2> QED
    BY <1>8, <2>2, <2>3
<1>10. start \in 0..n
  BY <1>1, <1>3
<1>11. I!FirstStart(ws, n, from, w) = start
  BY DEF I!FirstStart, start, fits
<1> QED
  BY <1>3, <1>9, <1>10, <1>11

-----------------------------------------------------------------------------
(* What the memory of a field has in it.                                   *)
Cell == Chars \cup {I!NUL, I!Junk}

(* A line is in its allocation, ended by its only terminator.              *)
LineOK(b, n, c) ==
  /\ n \in Nat /\ c \in Nat /\ n < c
  /\ b \in [0..c - 1 -> Cell]
  /\ b[n] = I!NUL /\ \A i \in 0..n - 1 : b[i] \in Chars

LineInv ==
  /\ LineOK(buffer, len, cap) /\ index \in 0..len
  /\ revision \in {0, 1} /\ maxLength \in 0..MaxText
  /\ finished \in BOOLEAN /\ masked \in BOOLEAN /\ columns \in Columns

InputInv == LineInv /\ viewStart \in Nat /\ CursorOnScreen

(* The cardinality of the instance is the one of the theorems about sets.  *)
LEMMA InputCounts == \A T : I!Cardinality(T) = Cardinality(T)
BY DEF I!Cardinality, Cardinality

(* The smaller and the larger one of two numbers.                          *)
LEMMA LeastOfTwo ==
  ASSUME NEW a \in Int, NEW b \in Int
  PROVE  /\ I!Min({a, b}) = IF a <= b THEN a ELSE b
         /\ I!Max({a, b}) = IF a >= b THEN a ELSE b
<1>1. CASE a < b
  BY <1>1 DEF I!Min, I!Max
<1>2. CASE a >= b
  BY <1>2 DEF I!Min, I!Max
<1> QED
  BY <1>1, <1>2

(* A viewport that has been rendered, whatever was shown before.           *)
Rendered ==
  /\ LineInv
  /\ \E from \in Nat : viewStart = I!StartFor(I!Widths(buffer, index), index, from, columns)
  /\ cursorX = I!Min({I!Taken(I!Widths(buffer, index), viewStart, index), columns - 1})

(* It shows the cursor. *)
LEMMA ShowsCursor == Rendered => InputInv
<1> SUFFICES ASSUME Rendered PROVE InputInv
  OBVIOUS
<1> USE WidgetsAssumption DEF Rendered
<1>0. PICK from \in Nat :
         viewStart = I!StartFor(I!Widths(buffer, index), index, from, columns)
  OBVIOUS
<1> DEFINE ws == I!Widths(buffer, index)
<1>1. ws \in [0..index - 1 -> Nat] /\ \A i \in 0..index - 1 : ws[i] = I!CharWidth(buffer[i])
  <2>1. ASSUME NEW i \in 0..index - 1 PROVE I!CharWidth(buffer[i]) \in Nat
    <3>1. buffer[i] \in Chars
      BY DEF LineInv, LineOK
    <3>2. WidthOf[buffer[i]] \in Nat
      BY <3>1 DEF I!ConstAssumption
    <3> QED
      BY <3>2 DEF I!CharWidth
  <2> QED
    BY <2>1 DEF I!Widths
<1> HIDE DEF ws
<1>2. index \in Nat /\ columns \in Nat
  BY DEF LineInv, LineOK, I!ConstAssumption
<1>3. I!Min({from, index}) \in 0..index
  BY <1>2, LeastOfTwo
<1>4. viewStart = I!FirstStart(ws, index, I!Min({from, index}), columns)
  BY <1>0 DEF I!StartFor, ws
<1>5. /\ viewStart \in 0..index /\ I!Taken(ws, viewStart, index) <= columns
      /\ viewStart < index => ws[viewStart] > 0
  BY <1>1, <1>2, <1>3, <1>4, StartFits
<1>6. viewStart < index => I!CharWidth(buffer[viewStart]) > 0
  BY <1>1, <1>2, <1>5
<1>7. cap = I!Cardinality(DOMAIN buffer)
  <2>1. DOMAIN buffer = 0..cap - 1 /\ cap \in Nat /\ cap # 0
    BY DEF LineInv, LineOK
  <2>2. Cardinality(0..cap - 1) = cap
    BY <2>1, FS_Interval
  <2> QED
    BY <2>1, <2>2, InputCounts
<1>8. len < cap /\ viewStart <= index /\ index <= len /\ viewStart \in Nat
  BY <1>2, <1>5 DEF LineInv, LineOK
<1> QED
  BY <1>5, <1>6, <1>7, <1>8 DEF InputInv, CursorOnScreen, I!CursorOnScreen, ws

(* So a handler that leaves a line and renders it keeps all of this.       *)
LEMMA RenderKeeps ==
  ASSUME LineInv', NEW from \in Nat, I!Render(from), masked' = masked
  PROVE  InputInv'
<1>1. I!Widths(buffer', index') = I!Widths(buffer, index)'
  BY DEF I!Widths, I!CharWidth
<1>2. /\ viewStart' = I!StartFor(I!Widths(buffer, index)', index', from, columns')
      /\ cursorX' = I!Min({I!Taken(I!Widths(buffer, index)', viewStart', index'), columns' - 1})
  BY <1>1 DEF I!Render
<1>3. Rendered'
  BY <1>2 DEF Rendered
<1> QED
  BY <1>3, ShowsCursor, PTL

-----------------------------------------------------------------------------
(* What the keys make of the memory.                                       *)
LEMMA CellsCounted ==
  ASSUME NEW k \in Nat, k # 0, NEW b \in [0..k - 1 -> Cell]
  PROVE  I!Cardinality(DOMAIN b) = k
<1>1. DOMAIN b = 0..k - 1 /\ Cardinality(0..k - 1) = k
  BY FS_Interval
<1> QED
  BY <1>1, InputCounts

(* There is room for one more character, and the line is where it was.     *)
LEMMA RoomMade ==
  ASSUME LineInv
  PROVE  \E k \in Nat :
           /\ k > len + 1 /\ k >= cap /\ I!Grown(buffer) \in [0..k - 1 -> Cell]
           /\ \A i \in 0..len : I!Grown(buffer)[i] = buffer[i]
<1>1. /\ len \in Nat /\ cap \in Nat /\ len < cap /\ buffer \in [0..cap - 1 -> Cell]
  BY DEF LineInv, LineOK
<1>2. CASE cap <= len + 1
  <2>1. I!Grown(buffer) = [i \in 0..cap |-> IF i < cap THEN buffer[i] ELSE I!Junk]
    BY <1>2 DEF I!Grown, I!Larger
  <2>2. I!Junk \in Cell /\ \A i \in 0..cap : i < cap => i \in 0..cap - 1
    BY <1>1 DEF Cell
  <2>3. \A i \in 0..cap : i < cap => buffer[i] \in Cell
    BY <1>1, <2>2
  <2> DEFINE k == cap + 1
  <2>4. k \in Nat /\ k > len + 1 /\ k >= cap /\ 0..k - 1 = 0..cap
    BY <1>1
  <2>5. I!Grown(buffer) \in [0..cap -> Cell]
    BY <2>1, <2>2, <2>3
  <2>6. \A i \in 0..len : I!Grown(buffer)[i] = buffer[i]
    BY <1>1, <2>1
  <2> QED
    BY <2>4, <2>5, <2>6
<1>3. CASE ~(cap <= len + 1)
  <2>1. I!Grown(buffer) = buffer
    BY <1>3 DEF I!Grown
  <2> QED
    BY <1>1, <1>3, <2>1
<1> QED
  BY <1>2, <1>3

(* A character at the cursor.                                              *)
LEMMA Inserted ==
  ASSUME LineInv, NEW c \in Chars, I!Append1(c)
  PROVE  /\ len' = len + 1 /\ revision' = 1 - revision /\ len < maxLength
         /\ LineOK(buffer', len', cap')
         /\ \A i \in 0..len :
              buffer'[i] = IF i < index THEN buffer[i] ELSE IF i = index THEN c ELSE buffer[i - 1]
<1> DEFINE g == I!Grown(buffer)
           o == I!Opened(g)
<1>1. PICK k \in Nat : /\ k > len + 1 /\ k >= cap /\ g \in [0..k - 1 -> Cell]
                       /\ \A i \in 0..len : g[i] = buffer[i]
  BY RoomMade
<1> HIDE DEF g
<1>2. /\ len \in Nat /\ cap \in Nat /\ len < cap /\ index \in 0..len
      /\ buffer[len] = I!NUL /\ \A i \in 0..len - 1 : buffer[i] \in Chars
  BY DEF LineInv, LineOK
<1>3. /\ o \in [0..k - 1 -> Cell]
      /\ \A i \in 0..len : o[i] = IF i <= index THEN g[i] ELSE g[i - 1]
  <2>1. CASE index < len
    <3> DEFINE last == (index + 1) + (len - index + 1) - 1
               From(i) == (i - (index + 1)) + index
    <3>1. o = [i \in 0..k - 1 |-> IF i \in index + 1..last THEN g[From(i)] ELSE g[i]]
      BY <1>1, <2>1 DEF I!Opened, I!MemMove
    <3>2. last = len + 1 /\ \A i \in 0..k - 1 : From(i) = i - 1
      BY <1>2
    <3> HIDE DEF last, From
    <3>3. \A i \in 0..k - 1 : o[i] = IF i \in index + 1..len + 1 THEN g[i - 1] ELSE g[i]
      BY <3>1, <3>2
    <3>4. ASSUME NEW i \in 0..k - 1
          PROVE  (IF i \in index + 1..len + 1 THEN g[i - 1] ELSE g[i]) \in Cell
      BY <1>1, <1>2
    <3>5. o \in [0..k - 1 -> Cell]
      <4>1. \A i \in 0..k - 1 : o[i] \in Cell
        BY <3>3, <3>4
      <4> QED
        BY <3>1, <4>1
    <3>6. ASSUME NEW i \in 0..len PROVE o[i] = IF i <= index THEN g[i] ELSE g[i - 1]
      <4>1. i \in 0..k - 1 /\ (i \in index + 1..len + 1 <=> ~(i <= index))
        BY <1>1, <1>2
      <4> QED
        BY <3>3, <4>1
    <3> QED
      BY <3>5, <3>6
  <2>2. CASE ~(index < len)
    <3>1. o = g /\ \A i \in 0..len : i <= index
      BY <1>2, <2>2 DEF I!Opened
    <3> QED
      BY <1>1, <3>1
  <2> QED
    BY <2>1, <2>2
<1> HIDE DEF o
<1>4. /\ len < maxLength /\ len' = len + 1 /\ revision' = 1 - revision
      /\ buffer' = [o EXCEPT ![index] = c, ![len + 1] = I!NUL]
      /\ cap' = I!Max({cap, I!Cardinality(DOMAIN buffer')})
  BY DEF I!Append1, I!Revised, o, g
<1>5. index \in 0..k - 1 /\ len + 1 \in 0..k - 1 /\ index # len + 1
  BY <1>1, <1>2
<1>6. c \in Cell /\ I!NUL \in Cell
  BY DEF Cell
<1>7. /\ buffer' \in [0..k - 1 -> Cell] /\ buffer'[len + 1] = I!NUL
      /\ \A i \in 0..k - 1 : buffer'[i] =
            IF i = len + 1 THEN I!NUL ELSE IF i = index THEN c ELSE o[i]
  BY <1>3, <1>4, <1>5, <1>6
<1>8. cap' = k
  <2>1. I!Cardinality(DOMAIN buffer') = k
    BY <1>1, <1>7, <1>2, CellsCounted
  <2>2. cap' = I!Max({cap, k})
    BY <1>4, <2>1
  <2>3. I!Max({cap, k}) = IF cap >= k THEN cap ELSE k
    BY <1>2, LeastOfTwo
  <2> QED
    BY <1>1, <1>2, <2>2, <2>3
<1>9. ASSUME NEW i \in 0..len
      PROVE  /\ buffer'[i] = IF i < index THEN buffer[i] ELSE IF i = index THEN c ELSE buffer[i - 1]
             /\ buffer'[i] \in Chars
  <2>1. buffer'[i] = IF i = index THEN c ELSE o[i]
    <3>1. i \in 0..k - 1 /\ i # len + 1
      BY <1>1, <1>2
    <3> QED
      BY <1>7, <3>1
  <2>2. CASE i < index
    <3>1. i # index /\ i <= index /\ i \in 0..len - 1
      BY <1>2, <2>2
    <3> QED
      BY <1>1, <1>2, <1>3, <2>1, <2>2, <3>1
  <2>3. CASE i = index
    BY <1>2, <2>1, <2>3
  <2>4. CASE i > index
    <3>1. i # index /\ ~(i <= index) /\ ~(i < index) /\ i - 1 \in 0..len - 1 /\ i - 1 \in 0..len
      BY <1>2, <2>4
    <3> QED
      BY <1>1, <1>2, <1>3, <2>1, <2>4, <3>1
  <2> QED
    BY <1>2, <2>2, <2>3, <2>4
<1>10. LineOK(buffer', len', cap')
  <2>1. len' \in Nat /\ cap' \in Nat /\ len' < cap' /\ 0..len' - 1 = 0..len
    BY <1>1, <1>2, <1>4, <1>8
  <2>2. buffer' \in [0..cap' - 1 -> Cell] /\ buffer'[len'] = I!NUL
    BY <1>4, <1>7, <1>8
  <2>3. \A i \in 0..len : buffer'[i] \in Chars
    BY <1>9
  <2> QED
    BY <2>1, <2>2, <2>3 DEF LineOK
<1> QED
  BY <1>4, <1>9, <1>10

(* The line without the character at p.                                    *)
Closes(p) ==
  /\ len' = len - 1 /\ revision' = 1 - revision
  /\ LineOK(buffer', len', cap')
  /\ \A i \in 0..len - 2 : buffer'[i] = IF i < p THEN buffer[i] ELSE buffer[i + 1]

(* What the moves of one place to the left make of the memory.             *)
LEMMA MovedDown ==
  ASSUME LineInv, NEW p \in 0..len - 1, NEW q \in Int, q = p + 1, NEW n \in Int, n = len - p
  PROVE  /\ I!MemMove(buffer, p, q, n) \in [0..cap - 1 -> Cell]
         /\ \A i \in 0..len - 1 :
              I!MemMove(buffer, p, q, n)[i] = IF i < p THEN buffer[i] ELSE buffer[i + 1]
<1> DEFINE m == I!MemMove(buffer, p, q, n)
           last == p + n - 1
           From(i) == i - p + q
<1>1. /\ len \in Nat /\ cap \in Nat /\ len < cap /\ buffer \in [0..cap - 1 -> Cell]
  BY DEF LineInv, LineOK
<1>2. m = [i \in 0..cap - 1 |-> IF i \in p..last THEN buffer[From(i)] ELSE buffer[i]]
  BY <1>1 DEF I!MemMove
<1>3. last = len - 1 /\ \A i \in 0..cap - 1 : From(i) = i + 1
  BY <1>1
<1> HIDE DEF last, From, m
<1>4. \A i \in 0..cap - 1 : m[i] = IF i \in p..len - 1 THEN buffer[i + 1] ELSE buffer[i]
  BY <1>2, <1>3
<1>5. ASSUME NEW i \in 0..cap - 1 PROVE m[i] \in Cell
  <2>1. i \in p..len - 1 => i + 1 \in 0..cap - 1
    BY <1>1
  <2> QED
    BY <1>1, <1>4, <2>1
<1>6. ASSUME NEW i \in 0..len - 1 PROVE m[i] = IF i < p THEN buffer[i] ELSE buffer[i + 1]
  <2>1. i \in 0..cap - 1 /\ (i \in p..len - 1 <=> ~(i < p))
    BY <1>1
  <2> QED
    BY <1>4, <2>1
<1>7. m \in [0..cap - 1 -> Cell]
  BY <1>2, <1>5
<1> QED
  BY <1>6, <1>7 DEF m

(* A line that is a character shorter.                                     *)
LEMMA ClosedIs ==
  ASSUME LineInv, NEW p \in 0..len - 1, len' = len - 1, cap' = cap, revision' = 1 - revision,
         buffer' \in [0..cap - 1 -> Cell], buffer'[len - 1] = I!NUL,
         \A i \in 0..len - 2 : buffer'[i] = IF i < p THEN buffer[i] ELSE buffer[i + 1]
  PROVE  Closes(p)
<1>1. /\ len \in Nat /\ cap \in Nat /\ len < cap /\ \A i \in 0..len - 1 : buffer[i] \in Chars
  BY DEF LineInv, LineOK
<1>2. ASSUME NEW i \in 0..len - 2 PROVE buffer'[i] \in Chars
  <2>1. i \in 0..len - 1 /\ i + 1 \in 0..len - 1
    BY <1>1
  <2> QED
    BY <1>1, <2>1
<1>3. len' \in Nat /\ cap' \in Nat /\ len' < cap' /\ 0..len' - 1 = 0..len - 2
  BY <1>1
<1>4. LineOK(buffer', len', cap')
  BY <1>2, <1>3 DEF LineOK
<1> QED
  BY <1>4 DEF Closes

(* Backspace takes the character before the cursor.                        *)
LEMMA BackspaceCloses ==
  ASSUME LineInv, I!Unchr PROVE index > 0 /\ Closes(index - 1)
<1>1. /\ len \in Nat /\ cap \in Nat /\ len < cap /\ buffer \in [0..cap - 1 -> Cell]
      /\ index \in 0..len
  BY DEF LineInv, LineOK
<1>2. index > 0 /\ len' = len - 1 /\ revision' = 1 - revision /\ cap' = cap
  BY DEF I!Unchr, I!Revised
<1> DEFINE p == index - 1
           moved == IF index < len THEN I!MemMove(buffer, p, index, len - index + 1) ELSE buffer
<1>3. p \in 0..len - 1 /\ index = p + 1 /\ len - index + 1 = len - p /\ index \in Int
        /\ len - index + 1 \in Int
  BY <1>1, <1>2
<1>4. buffer' = [moved EXCEPT ![len - 1] = I!NUL]
  BY DEF I!Unchr
<1>5. /\ moved \in [0..cap - 1 -> Cell]
      /\ \A i \in 0..len - 2 : moved[i] = IF i < p THEN buffer[i] ELSE buffer[i + 1]
  <2>1. CASE index < len
    <3>1. moved = I!MemMove(buffer, p, index, len - index + 1)
      BY <2>1
    <3> HIDE DEF p, moved
    <3>2. \A i \in 0..len - 2 : i \in 0..len - 1
      BY <1>1
    <3> QED
      BY <1>3, <3>1, <3>2, MovedDown
  <2>2. CASE ~(index < len)
    <3>1. moved = buffer /\ \A i \in 0..len - 2 : i < p
      BY <1>1, <2>2
    <3> QED
      BY <1>1, <3>1
  <2> QED
    BY <2>1, <2>2
<1> HIDE DEF moved, p
<1>6. len - 1 \in 0..cap - 1 /\ I!NUL \in Cell /\ \A i \in 0..len - 2 : i # len - 1 /\ i \in 0..cap - 1
  BY <1>1, <1>3 DEF Cell
<1>7. /\ buffer' \in [0..cap - 1 -> Cell] /\ buffer'[len - 1] = I!NUL
      /\ \A i \in 0..len - 2 : buffer'[i] = moved[i]
  BY <1>4, <1>5, <1>6
<1>8. Closes(p)
  BY <1>2, <1>3, <1>5, <1>7, ClosedIs
<1> QED
  BY <1>2, <1>8 DEF p

(* Delete takes the one at the cursor.                                     *)
LEMMA DeleteCloses ==
  ASSUME LineInv, I!Delete PROVE index < len /\ Closes(index)
<1>1. /\ len \in Nat /\ cap \in Nat /\ len < cap /\ index \in 0..len
      /\ buffer[len] = I!NUL
  BY DEF LineInv, LineOK
<1>2. index # len /\ len' = len - 1 /\ revision' = 1 - revision /\ cap' = cap
      /\ buffer' = I!MemMove(buffer, index, index + 1, len - index)
  BY DEF I!Delete, I!Revised
<1>3. index \in 0..len - 1 /\ index + 1 \in Int /\ len - index \in Int
        /\ index < len /\ len - 1 \in 0..len - 1 /\ ~(len - 1 < index) /\ (len - 1) + 1 = len
        /\ \A i \in 0..len - 2 : i \in 0..len - 1
  BY <1>1, <1>2
<1>4. /\ buffer' \in [0..cap - 1 -> Cell]
      /\ \A i \in 0..len - 1 : buffer'[i] = IF i < index THEN buffer[i] ELSE buffer[i + 1]
  BY <1>2, <1>3, MovedDown
<1>5. buffer'[len - 1] = I!NUL
  BY <1>1, <1>3, <1>4
<1> QED
  BY <1>2, <1>3, <1>4, <1>5, ClosedIs

(* A text that is set.                                                     *)
LEMMA CopyIsLine ==
  ASSUME NEW t \in Seq(Chars)
  PROVE  /\ LineOK(I!Copy(t), Len(t), Len(t) + 1)
         /\ \A i \in 0..Len(t) - 1 : I!Copy(t)[i] = t[i + 1]
<1>1. Len(t) \in Nat /\ \A i \in 1..Len(t) : t[i] \in Chars
  OBVIOUS
<1>2. I!Copy(t) = [i \in 0..Len(t) |-> IF i < Len(t) THEN t[i + 1] ELSE I!NUL]
  BY DEF I!Copy
<1> DEFINE n == Len(t)
<1>3. \A i \in 0..n - 1 : i \in 0..n /\ i + 1 \in 1..n /\ i < n
  BY <1>1
<1>4. ASSUME NEW i \in 0..n - 1 PROVE I!Copy(t)[i] = t[i + 1] /\ t[i + 1] \in Chars
  BY <1>1, <1>2, <1>3
<1>5. I!Copy(t)[n] = I!NUL
  BY <1>1, <1>2
<1>6. \A i \in 0..n : i < n => i \in 0..n - 1
  BY <1>1
<1>7. I!Copy(t) \in [0..n -> Cell]
  BY <1>2, <1>4, <1>5, <1>6 DEF Cell
<1>8. n \in Nat /\ n + 1 \in Nat /\ n < n + 1 /\ (n + 1) - 1 = n
  BY <1>1
<1> QED
  BY <1>4, <1>5, <1>7, <1>8 DEF LineOK

(* Texts that clients set are sequences of characters, not too long.       *)
LEMMA ValuesAreTexts ==
  ASSUME NEW t \in Values PROVE t \in Seq(Chars) /\ Len(t) \in 0..MaxText
<1>1. PICK n \in 0..MaxText : t \in [1..n -> Chars]
  BY WidgetsAssumption DEF I!ConstAssumption, I!BoundedSeq, I!SeqOf
<1>2. n \in Nat
  BY WidgetsAssumption DEF I!ConstAssumption
<1> QED
  BY <1>1, <1>2

(* A new field has the line it is given, and shows its end.                *)
LEMMA InputInit == I!Init => InputInv
<1> SUFFICES ASSUME I!Init PROVE InputInv
  OBVIOUS
<1>1. PICK t \in Values : /\ buffer = I!Copy(t) /\ len = Len(t) /\ cap = Len(t) + 1
                          /\ index = Len(t)
  BY DEF I!Init
<1>2. t \in Seq(Chars) /\ Len(t) \in 0..MaxText
  BY ValuesAreTexts
<1>3. LineOK(buffer, len, cap)
  BY <1>1, <1>2, CopyIsLine
<1>4. LineInv
  <2>1. index \in 0..len /\ MaxText \in 0..MaxText
    BY <1>1, <1>2, WidgetsAssumption DEF I!ConstAssumption
  <2> QED
    BY <1>3, <2>1 DEF LineInv, I!Init
<1>5. Rendered
  BY <1>4 DEF Rendered, I!Init
<1> QED
  BY <1>5, ShowsCursor

(* Every handler leaves a line in its allocation, and renders it.          *)
LEMMA InputNext == InputInv /\ [I!Next]_I!vars => InputInv'
<1> SUFFICES ASSUME InputInv, [I!Next]_I!vars PROVE InputInv'
  OBVIOUS
<1> USE DEF InputInv
<1>0. /\ LineOK(buffer, len, cap) /\ index \in 0..len /\ len \in Nat
      /\ revision \in {0, 1} /\ 1 - revision \in {0, 1} /\ maxLength \in 0..MaxText
      /\ finished \in BOOLEAN /\ masked \in BOOLEAN /\ columns \in Columns
      /\ viewStart \in Nat /\ 0 \in Nat
  BY DEF LineInv, LineOK
<1>1. ASSUME NEW c \in Chars, I!Insert(c) PROVE InputInv'
  <2>1. len' = len + 1 /\ revision' = 1 - revision /\ LineOK(buffer', len', cap')
    BY <1>1, Inserted DEF I!Insert
  <2>2. index' = I!Min({index + 1, len'})
    BY <1>1 DEF I!Insert
  <2>3. index' \in 0..len'
    BY <1>0, <2>1, <2>2, LeastOfTwo
  <2>4. UNCHANGED <<maxLength, masked, columns, finished>> /\ I!Render(viewStart)
    BY <1>1 DEF I!Insert, I!Key
  <2>5. LineInv'
    BY <1>0, <2>1, <2>3, <2>4 DEF LineInv
  <2> QED
    BY <1>0, <2>4, <2>5, RenderKeeps
<1>2. CASE I!Backspace
  <2>1. index > 0 /\ Closes(index - 1)
    BY <1>2, BackspaceCloses DEF I!Backspace
  <2>2. index' = I!Max({0, index - 1})
    BY <1>2 DEF I!Backspace
  <2>3. index' \in 0..len'
    <3>1. index \in Int /\ index - 1 \in Int /\ 0 <= index - 1
      BY <1>0, <2>1
    <3>2. I!Max({0, index - 1}) = IF 0 >= index - 1 THEN 0 ELSE index - 1
      BY <3>1, LeastOfTwo
    <3>3. len' = len - 1
      BY <2>1 DEF Closes
    <3> QED
      BY <1>0, <2>1, <2>2, <3>1, <3>2, <3>3
  <2>4. UNCHANGED <<maxLength, masked, columns, finished>> /\ I!Render(viewStart)
    BY <1>2 DEF I!Backspace, I!Key
  <2>5. LineInv'
    BY <1>0, <2>1, <2>3, <2>4 DEF LineInv, Closes
  <2> QED
    BY <1>0, <2>4, <2>5, RenderKeeps
<1>3. CASE I!Delete
  <2>1. index < len /\ Closes(index)
    BY <1>3, DeleteCloses
  <2>2. UNCHANGED <<maxLength, masked, columns, finished, index>> /\ I!Render(viewStart)
    BY <1>3 DEF I!Delete, I!Key
  <2>3. index' \in 0..len'
    BY <1>0, <2>1, <2>2 DEF Closes
  <2>4. LineInv'
    BY <1>0, <2>1, <2>2, <2>3 DEF LineInv, Closes
  <2> QED
    BY <1>0, <2>2, <2>4, RenderKeeps
<1>4. CASE I!Move
  <2>1. /\ UNCHANGED <<buffer, len, cap, revision, finished, maxLength, masked, columns>>
        /\ I!Render(viewStart)
    BY <1>4 DEF I!Move, I!Key
  <2>2. index' \in {I!Max({0, index - 1}), I!Min({index + 1, len}), 0, len}
    BY <1>4 DEF I!Move
  <2>3. index' \in 0..len
    <3>1. index \in Int /\ index - 1 \in Int /\ index + 1 \in Int /\ len \in Int
      BY <1>0
    <3>2. /\ I!Max({0, index - 1}) = IF 0 >= index - 1 THEN 0 ELSE index - 1
          /\ I!Min({index + 1, len}) = IF index + 1 <= len THEN index + 1 ELSE len
      BY <3>1, LeastOfTwo
    <3>3. /\ I!Max({0, index - 1}) \in 0..len
          /\ I!Min({index + 1, len}) \in 0..len
      BY <1>0, <3>2
    <3> QED
      BY <1>0, <2>2, <3>3
  <2>4. LineInv'
    BY <1>0, <2>1, <2>3 DEF LineInv
  <2> QED
    BY <1>0, <2>1, <2>4, RenderKeeps
<1>5. CASE I!Enter
  <2>1. /\ UNCHANGED <<buffer, len, cap, index, revision, maxLength, masked, columns>>
        /\ finished' = TRUE /\ I!Render(viewStart)
    BY <1>5 DEF I!Enter, I!Key, I!line
  <2>2. LineInv'
    BY <1>0, <2>1 DEF LineInv
  <2> QED
    BY <1>0, <2>1, <2>2, RenderKeeps
<1>6. ASSUME NEW t \in Values, I!SetValue(t) PROVE InputInv'
  <2>1. /\ buffer' = I!Copy(t) /\ len' = Len(t) /\ cap' = Len(t) + 1 /\ index' = Len(t)
        /\ revision' \in {revision, 1 - revision}
        /\ UNCHANGED <<maxLength, finished, masked, columns>> /\ I!Render(0)
    BY <1>6 DEF I!SetValue, I!Revised
  <2>2. t \in Seq(Chars) /\ Len(t) \in Nat
    BY ValuesAreTexts
  <2>3. LineInv'
    BY <1>0, <2>1, <2>2, CopyIsLine DEF LineInv
  <2> QED
    BY <1>0, <2>1, <2>3, RenderKeeps
<1>7. ASSUME NEW f \in BOOLEAN, I!SetState(f) PROVE InputInv'
  <2>1. /\ UNCHANGED <<buffer, len, cap, index, revision, maxLength, masked, columns>>
        /\ finished' = f /\ I!Render(viewStart)
    BY <1>7 DEF I!SetState, I!line
  <2>2. LineInv'
    BY <1>0, <1>7, <2>1 DEF LineInv
  <2> QED
    BY <1>0, <2>1, <2>2, RenderKeeps
<1>8. ASSUME NEW n \in Limits, I!SetMaxLength(n) PROVE InputInv'
  <2>1. /\ UNCHANGED <<buffer, len, cap, index, revision, finished, masked, columns>>
        /\ maxLength' = n /\ I!Render(viewStart)
    BY <1>8 DEF I!SetMaxLength, I!line
  <2>2. n \in 0..MaxText
    BY WidgetsAssumption DEF I!ConstAssumption
  <2>3. LineInv'
    BY <1>0, <2>1, <2>2 DEF LineInv
  <2> QED
    BY <1>0, <2>1, <2>3, RenderKeeps
<1>9. ASSUME NEW w \in Columns, I!Resize(w) PROVE InputInv'
  <2>1. /\ UNCHANGED <<buffer, len, cap, index, revision, finished, maxLength, masked>>
        /\ columns' = w /\ I!Render(viewStart)
    BY <1>9 DEF I!Resize, I!line
  <2>2. LineInv'
    BY <1>0, <2>1 DEF LineInv
  <2> QED
    BY <1>0, <2>1, <2>2, RenderKeeps
<1>10. CASE UNCHANGED I!vars
  <2>1. UNCHANGED <<buffer, len, cap, index, revision, viewStart, cursorX, finished, maxLength,
                    masked, columns>>
    BY <1>10 DEF I!vars, I!line, I!view
  <2>2. LineInv'
    BY <1>0, <2>1 DEF LineInv
  <2>3. /\ I!Widths(buffer, index)' = I!Widths(buffer, index)
        /\ I!CharWidth(buffer[viewStart])' = I!CharWidth(buffer[viewStart])
    BY <2>1 DEF I!Widths, I!CharWidth
  <2>4. viewStart' \in Nat /\ CursorOnScreen'
    BY <1>0, <2>1, <2>3 DEF CursorOnScreen, I!CursorOnScreen
  <2> QED
    BY <2>2, <2>4
<1> QED
  BY <1>1, <1>2, <1>3, <1>4, <1>5, <1>6, <1>7, <1>8, <1>9, <1>10 DEF I!Next

-----------------------------------------------------------------------------
(* The line on both sides of the cursor.                                   *)
Before == SubSeq(I!Stored, 1, index)
After  == SubSeq(I!Stored, index + 1, Len(I!Stored))

(* What a reader of the string finds is the line in the buffer.            *)
LineText ==
  /\ Before \o After = I!Stored
  /\ I!Stored \in Seq(Chars) /\ Len(I!Stored) = len
  /\ \A k \in 1..len : I!Stored[k] = buffer[k - 1]

(* Its only terminator is where len has it.                                *)
LEMMA StoredIs == LineInv => LineText
<1> SUFFICES ASSUME LineInv PROVE LineText
  OBVIOUS
<1>1. /\ len \in Nat /\ cap \in Nat /\ len < cap /\ buffer \in [0..cap - 1 -> Cell]
      /\ buffer[len] = I!NUL /\ \A i \in 0..len - 1 : buffer[i] \in Chars
  BY DEF LineInv, LineOK
<1> DEFINE ends == {i \in DOMAIN buffer : buffer[i] = I!NUL}
<1>2. I!Min(ends) = len
  <2>1. len \in ends /\ ends \subseteq Nat
    BY <1>1
  <2>2. \A i \in ends : ~(i < len)
    BY <1>1, WidgetsAssumption DEF I!ConstAssumption
  <2> HIDE DEF ends
  <2>3. I!Min(ends) \in ends /\ I!Min(ends) <= len
    BY <2>1, LeastIsThere
  <2>4. I!Min(ends) \in Nat /\ ~(I!Min(ends) < len)
    BY <2>1, <2>2, <2>3
  <2> QED
    BY <1>1, <2>3, <2>4
<1>3. ends # {}
  BY <1>1
<1>4. I!Stored = [i \in 1..len |-> buffer[i - 1]]
  <2> HIDE DEF ends
  <2>1. I!Stored = [i \in 1..I!Min(ends) |-> buffer[i - 1]]
    BY <1>3 DEF I!Stored, ends
  <2> QED
    BY <1>2, <2>1
<1>5. \A k \in 1..len : buffer[k - 1] \in Chars
  <2>1. \A k \in 1..len : k - 1 \in 0..len - 1
    BY <1>1
  <2> QED
    BY <1>1, <2>1
<1>6. I!Stored \in Seq(Chars) /\ Len(I!Stored) = len
  BY <1>1, <1>4, <1>5
<1>7. index \in 0..Len(I!Stored)
  BY <1>6 DEF LineInv
<1>8. Before \o After = I!Stored
  BY <1>6, <1>7, HalvesMakeIt DEF Before, After
<1> QED
  BY <1>1, <1>4, <1>6, <1>8 DEF LineText

(* The promise is about this text.                                         *)
LEMMA TextIs == LineText => I!Abstract!Text = I!Stored
BY DEF LineText, I!Abstract!Text, Before, After

(* The line that a handler leaves is the one the promise wants, token and   *)
(* all, if its halves are.                                                 *)
LEMMA BecomesIs ==
  ASSUME LineInv, LineInv', NEW b, NEW a, Before' = b, After' = a,
         UNCHANGED <<maxLength, finished>>,
         revision' = IF I!Stored' = I!Stored THEN revision ELSE 1 - revision
  PROVE  I!Abstract!Becomes(b, a)
<1>1. LineText /\ LineText'
  BY StoredIs, PTL
<1>2. I!Abstract!Text = I!Stored
  BY <1>1, TextIs
<1>3. b \o a = I!Stored'
  BY <1>1 DEF LineText
<1> QED
  BY <1>2, <1>3 DEF I!Abstract!Becomes, Before, After

(* A handler that changes the length of the line changes the token.        *)
LEMMA LengthTold ==
  ASSUME LineInv, LineInv', len' # len, revision' = 1 - revision
  PROVE  revision' = IF I!Stored' = I!Stored THEN revision ELSE 1 - revision
<1>1. LineText /\ LineText'
  BY StoredIs, PTL
<1>2. I!Stored' # I!Stored
  BY <1>1 DEF LineText
<1> QED
  BY <1>2

(* A character that is typed.                                              *)
LEMMA LineInserts ==
  ASSUME LineInv, LineInv', NEW c \in Chars, I!Insert(c)
  PROVE  I!Abstract!Next
<1> DEFINE s == I!Stored
           t == I!Stored'
<1>1. LineText /\ LineText'
  BY StoredIs, PTL
<1>2. /\ ~finished /\ UNCHANGED <<maxLength, finished>> /\ index' = I!Min({index + 1, len'})
      /\ I!Append1(c)
  BY DEF I!Insert, I!Key
<1>3. /\ len' = len + 1 /\ revision' = 1 - revision /\ len < maxLength
      /\ \A i \in 0..len :
           buffer'[i] = IF i < index THEN buffer[i] ELSE IF i = index THEN c ELSE buffer[i - 1]
  BY <1>2, Inserted
<1>4. index \in 0..len /\ len \in Nat
  BY DEF LineInv, LineOK
<1>5. index' = index + 1
  <2>1. index + 1 \in Int /\ len' \in Int /\ index + 1 <= len'
    BY <1>3, <1>4
  <2>2. I!Min({index + 1, len'}) = IF index + 1 <= len' THEN index + 1 ELSE len'
    BY <2>1, LeastOfTwo
  <2> QED
    BY <1>2, <2>1, <2>2
<1>6. /\ s \in Seq(Chars) /\ t \in Seq(Chars) /\ Len(s) = len /\ Len(t) = len + 1
      /\ \A k \in 1..len : s[k] = buffer[k - 1]
      /\ \A k \in 1..len + 1 : t[k] = buffer'[k - 1]
  BY <1>1, <1>3 DEF LineText
<1> HIDE DEF s, t
<1>7. ASSUME NEW k \in 1..len + 1
      PROVE  t[k] = IF k <= index THEN s[k] ELSE IF k = index + 1 THEN c ELSE s[k - 1]
  <2> DEFINE i == k - 1
  <2>1. i \in 0..len /\ k \in Nat /\ (i < index <=> k <= index) /\ (i = index <=> k = index + 1)
    BY <1>4
  <2>2. t[k] = buffer'[i]
    BY <1>6
  <2>3. k <= index => s[k] = buffer[i]
    BY <1>4, <1>6
  <2>4. ~(k <= index) /\ k # index + 1 => s[k - 1] = buffer[i - 1]
    <3>1. ~(k <= index) /\ k # index + 1 => k - 1 \in 1..len
      BY <1>4
    <3> QED
      BY <1>6, <3>1
  <2> HIDE DEF i
  <2> QED
    BY <1>3, <2>1, <2>2, <2>3, <2>4
<1>8. /\ SubSeq(t, 1, index + 1) = Append(SubSeq(s, 1, index), c)
      /\ SubSeq(t, (index + 1) + 1, Len(t)) = SubSeq(s, index + 1, Len(s))
  BY <1>4, <1>6, <1>7, OneMore
<1>9. Before' = Append(Before, c) /\ After' = After
  BY <1>5, <1>8 DEF Before, After, s, t
<1>10. len' # len
  BY <1>3, <1>4
<1>11. I!Abstract!Becomes(Append(Before, c), After)
  BY <1>2, <1>3, <1>9, <1>10, LengthTold, BecomesIs
<1>12. Len(I!Abstract!Text) = len
  BY <1>1, <1>6, TextIs DEF s
<1>13. I!Abstract!Insert
  BY <1>2, <1>3, <1>11, <1>12 DEF I!Abstract!Insert, Before, After
<1> QED
  BY <1>13 DEF I!Abstract!Next

(* The halves of a line that loses the character at p.                     *)
LEMMA LineCloses ==
  ASSUME LineInv, LineInv', NEW p \in 0..len - 1, Closes(p)
  PROVE  /\ SubSeq(I!Stored', 1, p) = SubSeq(I!Stored, 1, p)
         /\ SubSeq(I!Stored', p + 1, Len(I!Stored')) = SubSeq(I!Stored, (p + 1) + 1, Len(I!Stored))
<1> DEFINE s == I!Stored
           t == I!Stored'
           q == p + 1
<1>1. LineText /\ LineText'
  BY StoredIs, PTL
<1>2. /\ len' = len - 1
      /\ \A i \in 0..len - 2 : buffer'[i] = IF i < p THEN buffer[i] ELSE buffer[i + 1]
  BY DEF Closes
<1>3. /\ s \in Seq(Chars) /\ t \in Seq(Chars) /\ Len(s) = len /\ Len(t) = len - 1
      /\ \A k \in 1..len : s[k] = buffer[k - 1]
      /\ \A k \in 1..len - 1 : t[k] = buffer'[k - 1]
  BY <1>1, <1>2 DEF LineText
<1>4. len \in Nat /\ q \in 1..len /\ q - 1 = p
  BY DEF LineInv, LineOK
<1> HIDE DEF s, t
<1>5. ASSUME NEW k \in 1..len - 1
      PROVE  t[k] = IF k < q THEN s[k] ELSE s[k + 1]
  <2> DEFINE i == k - 1
  <2>1. i \in 0..len - 2 /\ i + 1 = k /\ (k + 1) - 1 = k /\ (i < p <=> k < q)
    BY <1>4
  <2>2. t[k] = buffer'[i]
    BY <1>3
  <2>3. k \in 1..len /\ k + 1 \in 1..len
    BY <1>4
  <2>4. s[k] = buffer[i]
    BY <1>3, <2>3
  <2>5. s[k + 1] = buffer[k]
    BY <1>3, <2>1, <2>3
  <2> HIDE DEF i, q
  <2> QED
    BY <1>2, <2>1, <2>2, <2>4, <2>5
<1> HIDE DEF q
<1>6. /\ SubSeq(t, 1, q - 1) = SubSeq(s, 1, q - 1)
      /\ SubSeq(t, (q - 1) + 1, Len(t)) = SubSeq(s, q + 1, Len(s))
  BY <1>3, <1>4, <1>5, OneLess
<1>7. SubSeq(t, 1, p) = SubSeq(s, 1, p) /\ SubSeq(t, p + 1, Len(t)) = SubSeq(s, q + 1, Len(s))
  BY <1>4, <1>6
<1> QED
  BY <1>7 DEF s, t, q

(* Backspace.                                                              *)
LEMMA LineRubsOut ==
  ASSUME LineInv, LineInv', I!Backspace
  PROVE  I!Abstract!Next
<1>1. LineText /\ LineText'
  BY StoredIs, PTL
<1>2. /\ ~finished /\ UNCHANGED <<maxLength, finished>> /\ index' = I!Max({0, index - 1})
      /\ index > 0 /\ Closes(index - 1)
  BY BackspaceCloses DEF I!Backspace, I!Key
<1>3. index \in 0..len /\ len \in Nat /\ Len(I!Stored) = len /\ I!Stored \in Seq(Chars)
  BY <1>1 DEF LineInv, LineOK, LineText
<1> DEFINE p == index - 1
<1>4. p \in 0..len - 1 /\ p + 1 = index
  BY <1>2, <1>3
<1>5. index' = p
  <2>0. index' = I!Max({0, p}) /\ 0 <= p /\ p \in Int
    BY <1>2, <1>4
  <2> HIDE DEF p
  <2>1. p \in Int /\ 0 <= p /\ 0 \in Int
    BY <2>0
  <2>2. I!Max({0, p}) = IF 0 >= p THEN 0 ELSE p
    BY <2>1, LeastOfTwo
  <2>3. I!Max({0, p}) = p
    BY <2>1, <2>2
  <2> QED
    BY <2>0, <2>3
<1>6. Closes(p)
  BY <1>2
<1> HIDE DEF p
<1>7. /\ SubSeq(I!Stored', 1, p) = SubSeq(I!Stored, 1, p)
      /\ SubSeq(I!Stored', p + 1, Len(I!Stored')) = SubSeq(I!Stored, (p + 1) + 1, Len(I!Stored))
  BY <1>4, <1>6, LineCloses
<1>8. I!Abstract!Front(Before) = SubSeq(I!Stored, 1, p)
  <2>1. I!Abstract!Front(Before) = SubSeq(Before, 1, Len(Before) - 1)
    BY DEF I!Abstract!Front
  <2>2. index > 0 => SubSeq(Before, 1, Len(Before) - 1) = SubSeq(I!Stored, 1, index - 1)
    BY <1>3, HalfButOne DEF Before
  <2> QED
    BY <1>2, <2>1, <2>2 DEF p
<1>9. Before' = I!Abstract!Front(Before) /\ After' = After
  BY <1>4, <1>5, <1>7, <1>8 DEF Before, After
<1>10. len' # len /\ revision' = 1 - revision
  BY <1>3, <1>6 DEF Closes
<1>11. I!Abstract!Becomes(I!Abstract!Front(Before), After)
  BY <1>2, <1>9, <1>10, LengthTold, BecomesIs
<1>12. Before # <<>>
  <2>1. Len(Before) = index
    BY <1>3, Halves DEF Before
  <2> QED
    BY <1>2, <2>1
<1>13. I!Abstract!Rubout
  BY <1>2, <1>11, <1>12 DEF I!Abstract!Rubout, Before, After
<1> QED
  BY <1>13 DEF I!Abstract!Next

(* Delete.                                                                 *)
LEMMA LineDeletes ==
  ASSUME LineInv, LineInv', I!Delete
  PROVE  I!Abstract!Next
<1>1. LineText /\ LineText'
  BY StoredIs, PTL
<1>2. ~finished /\ UNCHANGED <<maxLength, finished, index>> /\ index < len /\ Closes(index)
  BY DeleteCloses DEF I!Delete, I!Key
<1>3. index \in 0..len /\ len \in Nat /\ Len(I!Stored) = len /\ I!Stored \in Seq(Chars)
  BY <1>1 DEF LineInv, LineOK, LineText
<1>4. index \in 0..len - 1
  BY <1>2, <1>3
<1>5. /\ SubSeq(I!Stored', 1, index) = SubSeq(I!Stored, 1, index)
      /\ SubSeq(I!Stored', index + 1, Len(I!Stored'))
           = SubSeq(I!Stored, (index + 1) + 1, Len(I!Stored))
  BY <1>2, <1>4, LineCloses
<1>6. Tail(After) = SubSeq(I!Stored, (index + 1) + 1, Len(I!Stored))
  BY <1>2, <1>3, HalfButOne DEF After
<1>7. Before' = Before /\ After' = Tail(After)
  BY <1>2, <1>5, <1>6 DEF Before, After
<1>8. len' # len /\ revision' = 1 - revision
  BY <1>2, <1>3 DEF Closes
<1>9. I!Abstract!Becomes(Before, Tail(After))
  BY <1>2, <1>7, <1>8, LengthTold, BecomesIs
<1>10. After # <<>>
  <2>1. Len(After) = len - index
    BY <1>3, Halves DEF After
  <2> QED
    BY <1>2, <1>3, <2>1
<1>11. I!Abstract!Delete
  BY <1>2, <1>9, <1>10 DEF I!Abstract!Delete, Before, After
<1> QED
  BY <1>11 DEF I!Abstract!Next

(* A key that moves the cursor.                                            *)
LEMMA LineMoves ==
  ASSUME LineInv, LineInv', I!Move
  PROVE  I!Abstract!Next
<1>1. LineText /\ LineText'
  BY StoredIs, PTL
<1>2. ~finished /\ UNCHANGED <<maxLength, finished, buffer, len, revision>>
  BY DEF I!Move, I!Key
<1>3. I!Stored' = I!Stored
  BY <1>2 DEF I!Stored
<1>4. I!Abstract!Text = I!Stored
  BY <1>1, TextIs
<1>5. index' \in 0..Len(I!Abstract!Text)
  BY <1>1, <1>2, <1>4 DEF LineInv, LineText
<1>6. /\ Before' = SubSeq(I!Abstract!Text, 1, index')
      /\ After' = SubSeq(I!Abstract!Text, index' + 1, Len(I!Abstract!Text))
  BY <1>3, <1>4 DEF Before, After
<1>7. I!Abstract!Becomes(SubSeq(I!Abstract!Text, 1, index'),
                         SubSeq(I!Abstract!Text, index' + 1, Len(I!Abstract!Text)))
  BY <1>2, <1>3, <1>6, BecomesIs
<1>8. I!Abstract!Move
  BY <1>2, <1>5, <1>7 DEF I!Abstract!Move
<1> QED
  BY <1>8 DEF I!Abstract!Next

(* A text that is set is the line there is exactly if all of its           *)
(* characters, terminator included, are in the buffer.                     *)
LEMMA SameText ==
  ASSUME LineInv, LineText, NEW t \in Seq(Chars)
  PROVE  (\A i \in 0..Len(t) : i \in DOMAIN buffer /\ buffer[i] = I!Copy(t)[i])
           <=> I!Stored = t
<1>1. /\ len \in Nat /\ cap \in Nat /\ len < cap /\ DOMAIN buffer = 0..cap - 1
      /\ buffer[len] = I!NUL /\ \A i \in 0..len - 1 : buffer[i] \in Chars
  BY DEF LineInv, LineOK
<1>2. /\ I!Stored \in Seq(Chars) /\ Len(I!Stored) = len
      /\ \A k \in 1..len : I!Stored[k] = buffer[k - 1]
  BY DEF LineText
<1>3. Len(t) \in Nat /\ \A k \in 1..Len(t) : t[k] \in Chars
  OBVIOUS
<1> DEFINE copy == I!Copy(t)
<1>4. /\ \A i \in 0..Len(t) - 1 : copy[i] = t[i + 1]
      /\ copy[Len(t)] = I!NUL
  BY <1>3 DEF I!Copy
<1> HIDE DEF copy
<1>5. I!NUL \notin Chars
  BY WidgetsAssumption DEF I!ConstAssumption
<1>6. ASSUME \A i \in 0..Len(t) : i \in DOMAIN buffer /\ buffer[i] = copy[i]
      PROVE  I!Stored = t
  <2>1. ~(len < Len(t))
    <3>1. ASSUME len < Len(t) PROVE FALSE
      <4>1. len \in 0..Len(t) - 1 /\ len \in 0..Len(t) /\ len + 1 \in 1..Len(t)
        BY <1>1, <1>3, <3>1
      <4> QED
        BY <1>1, <1>3, <1>4, <1>5, <1>6, <4>1
    <3> QED
      BY <3>1
  <2>2. ~(Len(t) < len)
    <3>1. ASSUME Len(t) < len PROVE FALSE
      <4>1. Len(t) \in 0..len - 1 /\ Len(t) \in 0..Len(t)
        BY <1>1, <1>3, <3>1
      <4> QED
        BY <1>1, <1>4, <1>5, <1>6, <4>1
    <3> QED
      BY <3>1
  <2>3. Len(t) = len
    BY <1>1, <1>3, <2>1, <2>2
  <2>4. ASSUME NEW k \in 1..len PROVE I!Stored[k] = t[k]
    <3> DEFINE i == k - 1
    <3>1. i \in 0..Len(t) - 1 /\ i \in 0..Len(t) /\ i + 1 = k
      BY <2>3
    <3>2. I!Stored[k] = buffer[i]
      BY <1>2
    <3> HIDE DEF i
    <3>3. buffer[i] = copy[i] /\ copy[i] = t[i + 1]
      BY <1>4, <1>6, <3>1
    <3> QED
      BY <3>1, <3>2, <3>3
  <2> QED
    BY <1>2, <2>3, <2>4, SeqEqual
<1>7. ASSUME I!Stored = t, NEW i \in 0..Len(t)
      PROVE  i \in DOMAIN buffer /\ buffer[i] = copy[i]
  <2>1. Len(t) = len /\ i \in 0..cap - 1
    BY <1>1, <1>2, <1>7
  <2>2. CASE i = len
    BY <1>1, <1>4, <2>1, <2>2
  <2>3. CASE i # len
    <3> DEFINE k == i + 1
    <3>1. i \in 0..Len(t) - 1 /\ k \in 1..len /\ k - 1 = i
      BY <1>1, <2>1, <2>3
    <3>2. copy[i] = t[k]
      BY <1>4, <3>1
    <3> HIDE DEF k
    <3>3. t[k] = buffer[k - 1]
      BY <1>2, <1>7, <3>1
    <3> QED
      BY <1>1, <2>1, <3>1, <3>2, <3>3
  <2> QED
    BY <2>2, <2>3
<1> QED
  BY <1>6, <1>7 DEF copy

(* Clients' texts are the texts of the promise.                            *)
LEMMA ValuesArePromised == ASSUME NEW t \in Values PROVE t \in I!Abstract!Texts
BY WidgetsAssumption
   DEF I!ConstAssumption, I!BoundedSeq, I!SeqOf,
       I!Abstract!Texts, I!Abstract!BoundedSeq, I!Abstract!SeqOf

(* A text that a client sets.                                              *)
LEMMA LineIsSet ==
  ASSUME LineInv, LineInv', NEW t \in Values, I!SetValue(t)
  PROVE  I!Abstract!Next
<1>1. LineText /\ LineText'
  BY StoredIs, PTL
<1>2. /\ Len(t) <= maxLength /\ UNCHANGED <<maxLength, finished>>
      /\ buffer' = I!Copy(t) /\ len' = Len(t) /\ index' = Len(t)
  BY DEF I!SetValue
<1>3. t \in Seq(Chars) /\ Len(t) \in Nat
  BY ValuesAreTexts
<1>4. I!Stored' = t
  <2>1. /\ I!Stored' \in Seq(Chars) /\ Len(I!Stored') = Len(t)
        /\ \A k \in 1..Len(t) : I!Stored'[k] = I!Copy(t)[k - 1]
    BY <1>1, <1>2 DEF LineText
  <2>2. \A i \in 0..Len(t) - 1 : I!Copy(t)[i] = t[i + 1]
    BY <1>3, CopyIsLine
  <2>3. ASSUME NEW k \in 1..Len(t) PROVE I!Stored'[k] = t[k]
    <3> DEFINE i == k - 1
    <3>1. i \in 0..Len(t) - 1 /\ i + 1 = k
      BY <1>3
    <3>2. I!Stored'[k] = I!Copy(t)[i]
      BY <2>1
    <3> HIDE DEF i
    <3> QED
      BY <2>2, <3>1, <3>2
  <2> QED
    BY <1>3, <2>1, <2>3, SeqEqual
<1>5. Before' = t /\ After' = <<>>
  <2>1. Before' = SubSeq(t, 1, Len(t)) /\ After' = SubSeq(t, Len(t) + 1, Len(t))
    BY <1>2, <1>4 DEF Before, After
  <2> QED
    BY <1>3, <2>1, WholeAndRest
<1>6. revision' = IF I!Stored' = I!Stored THEN revision ELSE 1 - revision
  <2>1. IF \A i \in 0..Len(t) : i \in DOMAIN buffer /\ buffer[i] = I!Copy(t)[i]
        THEN revision' = revision ELSE revision' = 1 - revision
    BY <1>2 DEF I!SetValue, I!Revised
  <2>2. (\A i \in 0..Len(t) : i \in DOMAIN buffer /\ buffer[i] = I!Copy(t)[i]) <=> I!Stored = t
    BY <1>1, <1>3, SameText
  <2> QED
    BY <1>4, <2>1, <2>2
<1>7. I!Abstract!Becomes(t, <<>>)
  BY <1>2, <1>5, <1>6, BecomesIs
<1>8. I!Abstract!Set(t)
  BY <1>2, <1>7 DEF I!Abstract!Set
<1> QED
  BY <1>8, ValuesArePromised DEF I!Abstract!Next

(* Every handler of a field does to the line what the promise allows, or   *)
(* nothing.                                                                *)
LEMMA LineNext ==
  LineInv /\ LineInv' /\ [I!Next]_I!vars => [I!Abstract!Next]_I!Abstract!vars
<1> SUFFICES ASSUME LineInv, LineInv', [I!Next]_I!vars
             PROVE  [I!Abstract!Next]_I!Abstract!vars
  OBVIOUS
<1>1. LineText /\ LineText'
  BY StoredIs, PTL
<1>2. ASSUME UNCHANGED <<buffer, len, index, revision>>
      PROVE  /\ UNCHANGED <<Before, After, revision>>
             /\ Len(I!Abstract!Text) = len
  <2>1. I!Stored' = I!Stored
    BY <1>2 DEF I!Stored
  <2> QED
    BY <1>1, <1>2, <2>1, TextIs DEF Before, After, LineText
<1>3. ASSUME NEW c \in Chars, I!Insert(c) PROVE I!Abstract!Next
  BY <1>3, LineInserts
<1>4. CASE I!Backspace
  BY <1>4, LineRubsOut
<1>5. CASE I!Delete
  BY <1>5, LineDeletes
<1>6. CASE I!Move
  BY <1>6, LineMoves
<1>7. CASE I!Enter
  <2>1. UNCHANGED <<buffer, len, index, revision, maxLength>> /\ finished' = TRUE
    BY <1>7 DEF I!Enter, I!Key, I!line
  <2>2. I!Abstract!SetDone(TRUE)
    BY <1>2, <2>1 DEF I!Abstract!SetDone, Before, After
  <2> QED
    BY <2>2 DEF I!Abstract!Next
<1>8. ASSUME NEW t \in Values, I!SetValue(t) PROVE I!Abstract!Next
  BY <1>8, LineIsSet
<1>9. ASSUME NEW f \in BOOLEAN, I!SetState(f) PROVE I!Abstract!Next
  <2>1. UNCHANGED <<buffer, len, index, revision, maxLength>> /\ finished' = f
    BY <1>9 DEF I!SetState, I!line
  <2>2. I!Abstract!SetDone(f)
    BY <1>2, <2>1 DEF I!Abstract!SetDone, Before, After
  <2> QED
    BY <2>2 DEF I!Abstract!Next
<1>10. ASSUME NEW n \in Limits, I!SetMaxLength(n) PROVE I!Abstract!Next
  <2>1. UNCHANGED <<buffer, len, index, revision, finished>> /\ maxLength' = n /\ n >= len
    BY <1>10 DEF I!SetMaxLength, I!line
  <2>2. I!Abstract!SetLimit(n)
    BY <1>2, <2>1 DEF I!Abstract!SetLimit, Before, After
  <2>3. n \in 0..MaxText
    BY WidgetsAssumption DEF I!ConstAssumption
  <2> QED
    BY <2>2, <2>3 DEF I!Abstract!Next
<1>11. ASSUME UNCHANGED <<buffer, len, index, revision, maxLength, finished>>
       PROVE  UNCHANGED I!Abstract!vars
  BY <1>2, <1>11 DEF I!Abstract!vars, Before, After
<1>12. ASSUME NEW w \in Columns, I!Resize(w) PROVE UNCHANGED I!Abstract!vars
  BY <1>11, <1>12 DEF I!Resize, I!line
<1>13. CASE UNCHANGED I!vars
  BY <1>11, <1>13 DEF I!vars, I!line
<1> QED
  BY <1>3, <1>4, <1>5, <1>6, <1>7, <1>8, <1>9, <1>10, <1>12, <1>13 DEF I!Next

(* So does the field as it is made.                                        *)
LEMMA LineInit == I!Init => I!Abstract!Init
<1> SUFFICES ASSUME I!Init PROVE I!Abstract!Init
  OBVIOUS
<1>1. PICK t \in Values : buffer = I!Copy(t) /\ len = Len(t) /\ index = Len(t)
  BY DEF I!Init
<1>2. t \in Seq(Chars) /\ Len(t) \in Nat
  BY ValuesAreTexts
<1>3. LineText
  BY InputInit, StoredIs DEF InputInv
<1>4. I!Stored = t
  <2>1. ASSUME NEW k \in 1..Len(t) PROVE I!Stored[k] = t[k]
    <3> DEFINE i == k - 1
    <3>1. i \in 0..Len(t) - 1 /\ i + 1 = k
      BY <1>2
    <3>2. I!Stored[k] = I!Copy(t)[i]
      BY <1>1, <1>3 DEF LineText
    <3> HIDE DEF i
    <3>3. I!Copy(t)[i] = t[i + 1]
      BY <1>2, <3>1, CopyIsLine
    <3> QED
      BY <3>1, <3>2, <3>3
  <2> QED
    BY <1>1, <1>2, <1>3, <2>1, SeqEqual DEF LineText
<1>5. Before = t /\ After = <<>>
  BY <1>1, <1>2, <1>4, WholeAndRest DEF Before, After
<1> QED
  BY <1>5, ValuesArePromised DEF I!Abstract!Init, I!Init, Before, After

-----------------------------------------------------------------------------
(* Each part of the whole makes its own steps, and no others. *)
LEMMA PartSteps ==
  ASSUME [AllNext]_allvars
  PROVE  [I!Next]_I!vars /\ [N!Next]_N!vars /\ [S!Next]_S!vars
<1> USE DEF AllNext, RingStep, InputStep, SelectStep, SpinStep, AreaStep, StyleStep, allvars
<1>1. [N!Next]_N!vars
  BY DEF spinVars, N!vars, N!edit
<1>2. [S!Next]_S!vars
  BY DEF selectVars, S!vars
<1>3. [I!Next]_I!vars
  BY DEF inputVars, I!vars, I!line, I!view
<1> QED
  BY <1>1, <1>2, <1>3

(* The value of a field is always the nearest in its range to the number   *)
(* that was typed or set, though the buffer the code types into is bounded *)
(* by what an int holds and by the width of the field.                     *)
THEOREM FieldHasWhatWasTyped == AllSpec => []ValueAsTyped
<1>1. AllInit => SpinInv
  BY WidgetsAssumption, SpinInit DEF AllInit
<1>2. SpinInv /\ [AllNext]_allvars => SpinInv'
  BY WidgetsAssumption, PartSteps, SpinNext
<1>3. SpinInv => ValueAsTyped
  BY DEF SpinInv, ValueAsTyped
<1> QED
  BY <1>1, <1>2, <1>3, PTL DEF AllSpec

(* What is counted as selected is what is checked, and no more than may    *)
(* be; the cursor is on an option while there is one; the prefix that is   *)
(* searched for is one of the option under the cursor.                     *)
THEOREM ChoiceIsSound == AllSpec => []ChoiceSound
<1>1. AllInit => SelectInv
  BY WidgetsAssumption, SelectInit DEF AllInit
<1>2. SelectInv /\ [AllNext]_allvars => SelectInv'
  BY WidgetsAssumption, PartSteps, SelectNext
<1>3. SelectInv => ChoiceSound
  BY DEF SelectInv, ChoiceSound
<1> QED
  BY <1>1, <1>2, <1>3, PTL DEF AllSpec

(* The rows of a list that are shown are a range that fits; the scroll bar *)
(* tells where it begins; the option last moved to, changed or laid out is *)
(* among them, unless one was ever higher than the list.                   *)
THEOREM OptionIsInView == AllSpec => []BroughtIntoView
<1>1. AllInit => SelectInv /\ ViewInv
  BY WidgetsAssumption, SelectInit, ViewInit DEF AllInit
<1>2. SelectInv /\ ViewInv /\ [AllNext]_allvars => SelectInv' /\ ViewInv'
  BY WidgetsAssumption, PartSteps, SelectNext, ViewNext
<1>3. SelectInv /\ ViewInv => BroughtIntoView
  BY ViewPromised
<1> QED
  BY <1>1, <1>2, <1>3, PTL DEF AllSpec

(* After every render of a field the cursor is on one of its columns, at   *)
(* its character, and the viewport begins with a character that has a      *)
(* column; the line is in the allocation, with its only terminator.        *)
THEOREM CursorIsOnScreen == AllSpec => []CursorOnScreen
<1>1. AllInit => InputInv
  BY InputInit DEF AllInit
<1>2. InputInv /\ [AllNext]_allvars => InputInv'
  BY PartSteps, InputNext
<1>3. InputInv => CursorOnScreen
  BY DEF InputInv
<1> QED
  BY <1>1, <1>2, <1>3, PTL DEF AllSpec

(* Whatever keys and set-values came before, a reader of the string finds  *)
(* the line they make (LineEdit), though the code moves memory under it and*)
(* lets it grow by one; and the token changes exactly when the text does.  *)
THEOREM FieldIsALine == AllSpec => EditsAsALine
<1>1. AllInit => I!Abstract!Init /\ InputInv
  BY LineInit, InputInit DEF AllInit
<1>2. InputInv /\ [AllNext]_allvars => InputInv'
  BY PartSteps, InputNext
<1>3. InputInv /\ InputInv' /\ [AllNext]_allvars => [I!Abstract!Next]_I!Abstract!vars
  BY PartSteps, LineNext DEF InputInv
<1> QED
  BY <1>1, <1>2, <1>3, PTL DEF AllSpec, EditsAsALine, I!EditsAsALine, I!Abstract!Spec
=============================================================================
