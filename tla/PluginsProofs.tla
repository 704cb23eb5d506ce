--------------------------- MODULE PluginsProofs ---------------------------
(***************************************************************************)
(* Proofs about what feeds and changes dialogs while the daemon runs: the  *)
(* poll snapshot of the main loop (PollEvents), terminal dialogs (Termbox) *)
(* and composed dialogs (Compose), for any numbers of them, any limits and *)
(* any inputs.                                                             *)
(***************************************************************************)
EXTENDS MCPlugins, SequenceLemmas, SequenceTheorems

-----------------------------------------------------------------------------
(* The main loop.                                                          *)
Phases == {"collect", "poll", "dispatch", "children", "redraw", "work", "stopped"}
Owner  == [slot : Slots, gen : Nat, revents : BOOLEAN]

LoopTypeOK ==
  /\ list \in Seq(Slots) /\ gen \in [Slots -> Nat]
  /\ ready \in [Slots -> BOOLEAN]
  /\ phase \in Phases /\ owners \in Seq(Owner)

(* A dialog of the snapshot is there, and is the one it was taken of. From *)
(* the poll to the end of the dispatch all of them are: nothing is deleted *)
(* then.                                                                   *)
Known(o) == P!Live(o.slot) /\ gen[o.slot] = o.gen
LoopInv ==
  /\ LoopTypeOK
  /\ phase \in {"poll", "dispatch"} => \A k \in 1..Len(owners) : Known(owners[k])

(* PollEvents and Termbox have the standard modules' operators as their    *)
(* own.                                                                    *)
LEMMA CardinalitiesAgree ==
  \A S : P!Cardinality(S) = Cardinality(S) /\ T!Cardinality(S) = Cardinality(S)
BY DEF Cardinality, P!Cardinality, T!Cardinality

(* So they do that of SeqFilter.                                           *)
LEMMA FiltersAgree ==
  ASSUME NEW s, NEW K
  PROVE  P!Filter(s, K) = Filter(s, K)
<1>1. P!Staying(s, K) = Staying(s, K)
  BY DEF Staying, P!Staying
<1>2. ASSUME NEW A, NEW k PROVE P!Nth(A, k) = Nth(A, k)
  BY CardinalitiesAgree DEF Nth, P!Nth, UpTo, P!UpTo
<1> QED
  BY <1>1, <1>2, CardinalitiesAgree DEF Filter, P!Filter, Picked, P!Picked

(* Of the loop's steps, the ones that take the snapshot and that make and  *)
(* delete dialogs are the ones to look at.                                 *)
LEMMA CollectTakesLiving == ASSUME LoopInv, P!Collect PROVE LoopInv'
<1> DEFINE asked == {s \in Slots : P!Collects(s)}
           own   == Filter(list, asked)
<1>1. own \in Seq(Slots) /\ \A k \in 1..Len(own) : \E i \in 1..Len(list) : own[k] = list[i]
  <2> HIDE DEF asked
  <2>1. list \in Seq(Slots)
    BY DEF LoopInv, LoopTypeOK
  <2> QED
    BY <2>1, FilterKeeps
<1>2. owners' = [k \in 1..Len(own) |-> [slot |-> own[k], gen |-> gen[own[k]], revents |-> FALSE]]
  BY FiltersAgree DEF P!Collect
<1>3. phase' = "poll" /\ UNCHANGED <<list, gen, ready>>
  BY DEF P!Collect, P!Advance, P!After, P!dialogs, P!sources, P!sigs
<1> HIDE DEF own
<1>4. LoopTypeOK'
  BY <1>1, <1>2, <1>3 DEF LoopInv, LoopTypeOK, Phases, Owner
<1>5. ASSUME NEW k \in 1..Len(owners') PROVE Known(owners[k])'
  BY <1>1, <1>2, <1>3, <1>5 DEF Known, P!Live
<1> QED
  BY <1>4, <1>5 DEF LoopInv

(* The snapshot is sound at the start,                                     *)
LEMMA LoopInit == P!Init => LoopInv
BY DEF P!Init, LoopInv, LoopTypeOK, Phases

(* and through every step of the loop and of what goes on around it.       *)
LEMMA LoopNext == LoopInv /\ [P!Next]_loopVars => LoopInv'
<1> SUFFICES ASSUME LoopInv, P!Next PROVE LoopInv'
  BY DEF LoopInv, LoopTypeOK, Known, P!Live, loopVars
<1> USE DEF P!dialogs, P!sources, P!sigs
<1>1. CASE P!Collect
  BY <1>1, CollectTakesLiving
<1>2. ASSUME NEW size, P!Seen(size), UNCHANGED <<list, gen, ready>>, phase = "poll",
             phase' \in Phases
      PROVE  LoopInv'
  <2>1. owners' \in Seq(Owner)
    <3>1. ASSUME NEW k \in 1..Len(owners)
          PROVE  [owners[k] EXCEPT !.revents = ready[owners[k].slot]] \in Owner
      <4>1. owners[k] \in Owner
        BY <3>1 DEF LoopInv, LoopTypeOK
      <4>2. ready[owners[k].slot] \in BOOLEAN
        BY <4>1 DEF LoopInv, LoopTypeOK, Owner
      <4> QED
        BY <4>1, <4>2 DEF Owner
    <3> QED
      BY <1>2, <3>1 DEF LoopInv, LoopTypeOK, P!Seen
  <2>2. LoopTypeOK'
    BY <1>2, <2>1 DEF LoopInv, LoopTypeOK
  <2>3. ASSUME NEW k \in 1..Len(owners') PROVE Known(owners[k])'
    <3>1. k \in 1..Len(owners) /\ owners[k] \in Owner /\ Known(owners[k])
      BY <1>2 DEF LoopInv, LoopTypeOK, P!Seen
    <3>2. owners'[k].slot = owners[k].slot /\ owners'[k].gen = owners[k].gen
      BY <1>2, <3>1 DEF P!Seen, Owner
    <3> QED
      BY <1>2, <3>1, <3>2 DEF Known, P!Live
  <2> QED
    BY <2>2, <2>3 DEF LoopInv
<1>3. CASE P!DispatchSkips
  BY <1>3 DEF P!DispatchSkips, LoopInv, LoopTypeOK, Known, P!Live
<1>4. CASE P!HandleEvent
  <2>1. PICK result \in {"idle", "redraw", "error"} :
          ready' = [ready EXCEPT ![Head(owners).slot] = @ /\ result = "error"]
    BY <1>4 DEF P!HandleEvent
  <2>2. ready' \in [Slots -> BOOLEAN]
    BY <2>1 DEF LoopInv, LoopTypeOK
  <2> QED
    BY <1>4, <2>2 DEF P!HandleEvent, P!Dispatched, LoopInv, LoopTypeOK, Known, P!Live
<1>5. CASE P!ReadChildren
  BY <1>5 DEF P!ReadChildren, LoopInv, LoopTypeOK
<1>6. CASE P!AskChild
  BY <1>6 DEF P!AskChild, LoopInv, LoopTypeOK
<1>7. CASE P!Redraw
  BY <1>7 DEF P!Redraw, P!Advance, P!After, LoopInv, LoopTypeOK, Phases
<1>8. CASE P!Take
  BY <1>8 DEF P!Take, LoopInv, LoopTypeOK
<1>9. CASE P!StepDone
  BY <1>9 DEF P!StepDone, P!Advance, P!After, LoopInv, LoopTypeOK, Phases
<1>10. CASE P!Stops
  BY <1>10 DEF P!Stops, LoopInv, LoopTypeOK, Phases
<1>11. CASE \E s \in Slots : P!Make(s)
  BY <1>11 DEF P!Make, P!Working, LoopInv, LoopTypeOK, Phases
<1>12. CASE \E s \in Slots : P!Delete(s)
  <2>1. PICK s \in Slots : P!Delete(s)
    BY <1>12
  <2>2. list' = Filter(list, Slots \ {s})
    BY <2>1, FiltersAgree DEF P!Delete
  <2>3. list' \in Seq(Slots)
    BY <2>2, FilterKeeps DEF LoopInv, LoopTypeOK
  <2> QED
    BY <2>1, <2>3 DEF P!Delete, P!Working, LoopInv, LoopTypeOK
<1>13. CASE \E s \in Slots : P!Finish(s)
  BY <1>13 DEF P!Finish, P!Working, LoopInv, LoopTypeOK
<1>14. CASE P!Outside
  <2>1. phase' = phase /\ UNCHANGED <<list, gen, owners>>
    BY <1>14 DEF P!Outside, P!WorkArrives, P!DescriptorReady, P!ChildExits
  <2>2. ready' \in [Slots -> BOOLEAN]
    BY <1>14 DEF P!Outside, P!WorkArrives, P!DescriptorReady, P!ChildExits, LoopInv, LoopTypeOK
  <2> QED
    BY <2>1, <2>2 DEF LoopInv, LoopTypeOK, Known, P!Live
<1>15. CASE P!Poll \/ P!PollSized \/ P!PollElapses
  BY <1>2, <1>15 DEF P!Poll, P!PollSized, P!PollElapses, P!Advance, P!After, Phases
<1>16. CASE P!ResizeKey
  BY <1>16 DEF P!ResizeKey, P!Working, LoopInv, LoopTypeOK
<1> QED
  BY <1>1, <1>3, <1>4, <1>5, <1>6, <1>7, <1>8, <1>9, <1>10, <1>11, <1>12, <1>13, <1>14, <1>15,
     <1>16
  DEF P!Next, P!LoopRun, P!Requests

-----------------------------------------------------------------------------
(* Composed dialogs.                                                       *)
ComposeTypeOK ==
  /\ stage \in {"none", "open", "gone"}
  /\ shown \in BOOLEAN /\ ticking \in BOOLEAN
  /\ ended \in BOOLEAN /\ broken \in BOOLEAN /\ eventsOff \in BOOLEAN
  /\ closeClicked \in BOOLEAN
  /\ turning \in [Spinners -> BOOLEAN] /\ pressed \in [Buttons -> BOOLEAN]
  /\ reported \in [Buttons -> Nat] /\ clicks \in [Buttons -> Nat]

(* Besides what is to be shown: until the dialog is over no press of a     *)
(* button is left unhandled, so that every press is counted as reported.   *)
ComposeInv ==
  /\ ComposeTypeOK
  /\ C!TimerFollowsSpinners
  /\ ended <=> closeClicked \/ broken
  /\ eventsOff => ended
  /\ ~ended => \A b \in Buttons : ~pressed[b]
  /\ ~ended => \A b \in Buttons \ Closing : reported[b] = clicks[b]
  /\ stage = "none" => ~ticking /\ ~ended /\ ~broken

(* Whether the timer should run is a yes or no.                            *)
LEMMA WantedIsBoolean ==
  ASSUME NEW spin, NEW end, NEW vis PROVE C!Wanted(spin, end, vis) \in BOOLEAN
BY DEF C!Wanted

(* Synchronizing the timer makes it run as it should, or fails and leaves  *)
(* it as it is.                                                            *)
LEMMA SyncedIs ==
  ASSUME NEW spin, NEW end, NEW vis, NEW run \in BOOLEAN,
         NEW s \in C!Synced(spin, end, vis, run)
  PROVE  \/ s.ok = TRUE /\ s.run = C!Wanted(spin, end, vis)
         \/ s.ok = FALSE /\ s.run = run /\ run # C!Wanted(spin, end, vis)
<1> DEFINE want == C!Wanted(spin, end, vis)
<1>1. s \in {[ok |-> TRUE, run |-> want]} \cup
           (IF want = run THEN {} ELSE {[ok |-> FALSE, run |-> run]})
  BY DEF C!Synced
<1> HIDE DEF want
<1> QED
  BY <1>1 DEF want

(* Looking for pressed buttons in a dialog that is over only takes what it *)
(* is given;                                                               *)
LEMMA WhenFinished ==
  ASSUME ComposeTypeOK, NEW p \in [Buttons -> BOOLEAN], NEW run \in BOOLEAN,
         NEW fail \in BOOLEAN, ended, C!CheckFinished(p, run, fail)
  PROVE  /\ pressed' = p /\ ticking' = run /\ broken' = fail
         /\ ended' = ended /\ reported' = reported
BY DEF C!CheckFinished

(* in one that is not, it reports the presses of buttons that do not close *)
(* and ends the dialog for one that does.                                  *)
LEMMA WhenNot ==
  ASSUME ComposeTypeOK, NEW p \in [Buttons -> BOOLEAN], NEW run \in BOOLEAN,
         NEW fail \in BOOLEAN, ~ended, C!CheckFinished(p, run, fail)
  PROVE  /\ pressed' = [b \in Buttons |-> p[b] /\ b \in Closing]
         /\ pressed' \in [Buttons -> BOOLEAN]
         /\ reported' \in [Buttons -> Nat]
         /\ \A b \in Buttons \ Closing : reported'[b] = IF p[b] THEN reported[b] + 1 ELSE reported[b]
         /\ ended' \in BOOLEAN /\ ticking' \in BOOLEAN /\ broken' \in BOOLEAN
         /\ ended' <=> (fail \/ \E b \in Buttons : p[b] /\ b \in Closing)
         /\ ended' /\ ~broken' => ~ticking'
         /\ fail => broken'
         /\ ~ended' => ticking' = run /\ ~broken'
<1> DEFINE ends == fail \/ \E b \in Buttons : p[b] /\ b \in Closing
<1>1. /\ pressed' = [b \in Buttons |-> p[b] /\ b \in Closing]
      /\ reported' = [b \in Buttons |->
                        IF p[b] /\ b \notin Closing THEN reported[b] + 1 ELSE reported[b]]
  BY DEF C!CheckFinished, C!AfterReports
<1>2. ended' = (fail \/ \E b \in Buttons : [c \in Buttons |-> p[c] /\ c \in Closing][b])
  BY DEF C!CheckFinished, C!AfterReports
<1>3. ended' <=> ends
  BY <1>2
<1>4. ended' \in BOOLEAN
  BY <1>2
<1>5. ASSUME ended'
      PROVE  /\ ticking' \in BOOLEAN /\ broken' \in BOOLEAN
             /\ ~broken' => ~ticking'
             /\ fail => broken'
  <2>1. PICK s \in C!SyncedEnd(shown', run) : ticking' = s.run /\ broken' = (fail \/ ~s.ok)
    BY <1>5 DEF C!CheckFinished
  <2>2. \/ s.ok = TRUE /\ s.run = C!Wanted(turning, TRUE, shown')
        \/ s.ok = FALSE /\ s.run = run
    BY <2>1, SyncedIs DEF C!SyncedEnd
  <2>3. C!Wanted(turning, TRUE, shown') = FALSE
    BY DEF C!Wanted
  <2> QED
    BY <2>1, <2>2, <2>3
<1>6. ASSUME ~ended' PROVE ticking' = run /\ broken' = fail /\ ~fail
  <2>1. \E s \in {[ok |-> TRUE, run |-> run]} : ticking' = s.run /\ broken' = (fail \/ ~s.ok)
    BY <1>6 DEF C!CheckFinished
  <2> QED
    BY <2>1, <1>3, <1>6
<1>7. pressed' \in [Buttons -> BOOLEAN]
  BY <1>1
<1>8. reported' \in [Buttons -> Nat]
  BY <1>1 DEF ComposeTypeOK
<1> QED
  BY <1>1, <1>3, <1>4, <1>5, <1>6, <1>7, <1>8

(* However the presses came about, looking for them keeps the invariant.   *)
LEMMA CheckingKeeps ==
  ASSUME ComposeInv, stage' = "open",
         NEW p \in [Buttons -> BOOLEAN], NEW run \in BOOLEAN, NEW fail \in BOOLEAN,
         C!CheckFinished(p, run, fail),
         shown' \in BOOLEAN, eventsOff' \in BOOLEAN, closeClicked' \in BOOLEAN,
         turning' \in [Spinners -> BOOLEAN], clicks' \in [Buttons -> Nat],
         broken => fail,
         ~fail => (run <=> C!Wanted(turning', ended, shown')),
         closeClicked' <=>
           (closeClicked \/ (~ended /\ \E b \in Buttons : p[b] /\ b \in Closing)),
         eventsOff' => eventsOff \/ fail,
         ~ended => \A b \in Buttons \ Closing :
                     clicks'[b] = IF p[b] THEN clicks[b] + 1 ELSE clicks[b]
  PROVE  ComposeInv'
<1>0. ComposeTypeOK /\ ended \in BOOLEAN
  BY DEF ComposeInv, ComposeTypeOK
<1>1. CASE ended
  <2>1. /\ pressed' = p /\ ticking' = run /\ broken' = fail
        /\ ended' = ended /\ reported' = reported
    BY <1>0, <1>1, WhenFinished
  <2>2. ComposeTypeOK'
    BY <1>0, <2>1 DEF ComposeTypeOK
  <2>3. C!TimerFollowsSpinners'
    BY <2>1 DEF C!TimerFollowsSpinners, C!Wanted
  <2>4. ended' <=> closeClicked' \/ broken'
    BY <1>1, <2>1 DEF ComposeInv
  <2> QED
    BY <1>1, <2>1, <2>2, <2>3, <2>4 DEF ComposeInv
<1>2. CASE ~ended
  <2>1. /\ pressed' = [b \in Buttons |-> p[b] /\ b \in Closing]
        /\ pressed' \in [Buttons -> BOOLEAN]
        /\ reported' \in [Buttons -> Nat]
        /\ \A b \in Buttons \ Closing :
             reported'[b] = IF p[b] THEN reported[b] + 1 ELSE reported[b]
        /\ ended' \in BOOLEAN /\ ticking' \in BOOLEAN /\ broken' \in BOOLEAN
        /\ ended' <=> (fail \/ \E b \in Buttons : p[b] /\ b \in Closing)
        /\ ended' /\ ~broken' => ~ticking'
        /\ fail => broken'
        /\ ~ended' => ticking' = run /\ ~broken'
    BY <1>0, <1>2, WhenNot
  <2>2. ComposeTypeOK'
    BY <1>0, <2>1 DEF ComposeTypeOK
  <2>3. C!TimerFollowsSpinners'
    <3>1. CASE ended'
      BY <2>1, <3>1 DEF C!TimerFollowsSpinners, C!Wanted
    <3>2. CASE ~ended'
      BY <1>2, <2>1, <3>2 DEF C!TimerFollowsSpinners, C!Wanted
    <3> QED
      BY <3>1, <3>2
  <2>4. ended' <=> closeClicked' \/ broken'
    BY <1>2, <2>1 DEF ComposeInv
  <2>5. ASSUME ~ended', NEW b \in Buttons PROVE ~pressed'[b]
    BY <2>1, <2>5
  <2>6. ASSUME ~ended', NEW b \in Buttons \ Closing PROVE reported'[b] = clicks'[b]
    BY <1>2, <2>1, <2>6 DEF ComposeInv
  <2>7. eventsOff' => ended'
    BY <1>2, <2>1 DEF ComposeInv
  <2> QED
    BY <2>2, <2>3, <2>4, <2>5, <2>6, <2>7 DEF ComposeInv
<1> QED
  BY <1>1, <1>2

(* A button that is pressed with nothing left unhandled is reported at     *)
(* once.                                                                   *)
LEMMA PressKeeps ==
  ASSUME ComposeInv, stage = "open", NEW b \in Buttons, NEW value \in BOOLEAN, C!Press(b, value)
  PROVE  ComposeInv'
<1> DEFINE p == [pressed EXCEPT ![b] = value]
<1>1. /\ C!CheckFinished(p, ticking, broken)
      /\ UNCHANGED <<stage, shown, eventsOff, turning>>
      /\ clicks' = IF value /\ b \notin Closing /\ ~ended THEN [clicks EXCEPT ![b] = @ + 1] ELSE clicks
      /\ closeClicked' = (closeClicked \/ (value /\ b \in Closing /\ ~ended))
  BY DEF C!Press
<1>2. p \in [Buttons -> BOOLEAN] /\ clicks' \in [Buttons -> Nat] /\ closeClicked' \in BOOLEAN
  BY <1>1 DEF ComposeInv, ComposeTypeOK
<1>3. ~ended => \A c \in Buttons : p[c] <=> c = b /\ value
  BY DEF ComposeInv, ComposeTypeOK
<1>4. closeClicked' <=>
        (closeClicked \/ (~ended /\ \E c \in Buttons : p[c] /\ c \in Closing))
  <2> HIDE DEF p
  <2> QED
    BY <1>1, <1>3
<1>5. ~ended => \A c \in Buttons \ Closing :
                  clicks'[c] = IF p[c] THEN clicks[c] + 1 ELSE clicks[c]
  <2> HIDE DEF p
  <2> QED
    BY <1>1, <1>3 DEF ComposeInv, ComposeTypeOK
<1>6. ~broken => (ticking <=> C!Wanted(turning', ended, shown'))
  BY <1>1 DEF ComposeInv, C!TimerFollowsSpinners
<1>7. ticking \in BOOLEAN /\ broken \in BOOLEAN /\ shown' \in BOOLEAN /\ eventsOff' \in BOOLEAN
      /\ turning' \in [Spinners -> BOOLEAN] /\ stage' = "open"
  BY <1>1 DEF ComposeInv, ComposeTypeOK
<1>8. eventsOff' => eventsOff \/ broken
  BY <1>1
<1> HIDE DEF p
<1> QED
  BY <1>1, <1>2, <1>4, <1>5, <1>6, <1>7, <1>8, CheckingKeeps

(* The clicks stay when nothing new is pressed. *)
LEMMA RecheckKeeps ==
  ASSUME ComposeInv, stage' = "open", NEW run \in BOOLEAN, NEW fail \in BOOLEAN,
         C!CheckFinished(pressed, run, fail),
         shown' \in BOOLEAN, eventsOff' \in BOOLEAN, turning' \in [Spinners -> BOOLEAN],
         broken => fail,
         ~fail => (run <=> C!Wanted(turning', ended, shown')),
         eventsOff' => eventsOff \/ fail,
         UNCHANGED <<clicks, closeClicked>>
  PROVE  ComposeInv'
<1>1. pressed \in [Buttons -> BOOLEAN] /\ clicks' \in [Buttons -> Nat] /\ closeClicked' \in BOOLEAN
  BY DEF ComposeInv, ComposeTypeOK
<1>2. ~ended => \A b \in Buttons : ~pressed[b]
  BY DEF ComposeInv
<1>3. closeClicked' <=>
        (closeClicked \/ (~ended /\ \E b \in Buttons : pressed[b] /\ b \in Closing))
  BY <1>2
<1>4. ~ended => \A b \in Buttons \ Closing :
                  clicks'[b] = IF pressed[b] THEN clicks[b] + 1 ELSE clicks[b]
  BY <1>2
<1> QED
  BY <1>1, <1>3, <1>4, CheckingKeeps

(* A composed dialog is sound at the start,                                *)
LEMMA ComposeInit == C!Init => ComposeInv
<1> SUFFICES ASSUME C!Init PROVE ComposeInv
  OBVIOUS
<1>1. ComposeTypeOK
  BY DEF C!Init, ComposeTypeOK
<1>2. C!TimerFollowsSpinners
  BY DEF C!Init, C!TimerFollowsSpinners
<1>3. /\ ended = FALSE /\ closeClicked = FALSE /\ broken = FALSE /\ eventsOff = FALSE
      /\ ticking = FALSE
  BY DEF C!Init
<1>4. \A b \in Buttons : ~pressed[b] /\ reported[b] = clicks[b]
  BY DEF C!Init
<1> QED
  BY <1>1, <1>2, <1>3, <1>4 DEF ComposeInv

(* and through every step.                                                 *)
LEMMA ComposeNext == ComposeInv /\ [C!Next]_composeVars => ComposeInv'
<1> SUFFICES ASSUME ComposeInv, [C!Next]_composeVars PROVE ComposeInv'
  OBVIOUS
<1> USE DEF C!timer, C!nodes, C!history
<1>0. /\ ComposeTypeOK /\ ticking \in BOOLEAN /\ broken \in BOOLEAN
      /\ shown \in BOOLEAN /\ eventsOff \in BOOLEAN /\ turning \in [Spinners -> BOOLEAN]
      /\ ended \in BOOLEAN
  BY DEF ComposeInv, ComposeTypeOK
<1>1. CASE C!Create
  <2>1. PICK s \in C!Synced(turning, ended, shown, ticking) :
          \/ s.ok /\ stage' = "open" /\ ticking' = s.run
          \/ ~s.ok /\ stage' = "gone" /\ UNCHANGED ticking
    BY <1>1 DEF C!Create
  <2>2. \/ s.ok = TRUE /\ s.run = C!Wanted(turning, ended, shown)
        \/ s.ok = FALSE /\ s.run = ticking
    BY <1>0, SyncedIs
  <2>3. C!Wanted(turning, ended, shown) \in BOOLEAN
    BY WantedIsBoolean
  <2>4. UNCHANGED <<shown, ended, broken, eventsOff, turning, pressed, reported, clicks, closeClicked>>
    BY <1>1 DEF C!Create
  <2>5. ComposeTypeOK'
    BY <1>0, <2>1, <2>2, <2>3, <2>4 DEF ComposeTypeOK
  <2>6. C!TimerFollowsSpinners'
    BY <2>1, <2>2, <2>4 DEF C!TimerFollowsSpinners, C!Wanted
  <2> QED
    BY <2>1, <2>4, <2>5, <2>6 DEF ComposeInv
<1>2. CASE C!Delete
  BY <1>2 DEF C!Delete, ComposeInv, ComposeTypeOK, C!TimerFollowsSpinners
<1>3. CASE C!Keys
  <2>1. CASE C!KeyOnSelect
    BY <2>1 DEF C!KeyOnSelect, ComposeInv, ComposeTypeOK, C!TimerFollowsSpinners, C!Wanted
  <2>2. CASE \E b \in Buttons : C!KeyOnButton(b)
    <3>1. PICK b \in Buttons : C!KeyOnButton(b)
      BY <2>2
    <3>2. stage = "open" /\ C!Press(b, ~pressed[b]) /\ (~pressed[b]) \in BOOLEAN
      BY <3>1 DEF C!KeyOnButton, C!Interactive
    <3> QED
      BY <3>2, PressKeeps
  <2> QED
    BY <1>3, <2>1, <2>2 DEF C!Keys
<1>4. CASE C!SetValue
  <2>1. CASE \E b \in Buttons, v \in BOOLEAN : C!SetButton(b, v)
    BY <2>1, PressKeeps DEF C!SetButton
  <2>2. CASE \E s \in Spinners, v \in BOOLEAN : C!SetSpinner(s, v)
    <3>1. PICK s \in Spinners, v \in BOOLEAN : C!SetSpinner(s, v)
      BY <2>2
    <3> DEFINE spin == [turning EXCEPT ![s] = v]
    <3>2. PICK sync \in C!Synced(spin, ended, shown, ticking) :
            \/ sync.ok /\ turning' = spin /\ C!CheckFinished(pressed, sync.run, broken)
            \/ /\ ~sync.ok /\ turning' = turning
               /\ UNCHANGED <<ticking, ended, broken, pressed, reported>>
      BY <3>1 DEF C!SetSpinner, C!SpinnerRestored
    <3>3. stage' = "open" /\ UNCHANGED <<stage, shown, eventsOff, clicks, closeClicked>>
      BY <3>1 DEF C!SetSpinner
    <3>4. spin \in [Spinners -> BOOLEAN]
      BY <1>0
    <3> HIDE DEF spin
    <3>5. \/ sync.ok = TRUE /\ sync.run = C!Wanted(spin, ended, shown)
          \/ sync.ok = FALSE
      BY <1>0, SyncedIs
    <3>6. C!Wanted(spin, ended, shown) \in BOOLEAN
      BY WantedIsBoolean
    <3>7. CASE sync.ok = TRUE
      <4>1. turning' = spin /\ C!CheckFinished(pressed, sync.run, broken)
        BY <3>2, <3>7
      <4>2. sync.run \in BOOLEAN /\ (sync.run <=> C!Wanted(turning', ended, shown'))
        BY <3>3, <3>5, <3>6, <3>7, <4>1
      <4> QED
        BY <1>0, <3>3, <3>4, <4>1, <4>2, RecheckKeeps
    <3>8. CASE sync.ok = FALSE
      BY <3>2, <3>3, <3>8 DEF ComposeInv, ComposeTypeOK, C!TimerFollowsSpinners, C!Wanted
    <3> QED
      BY <3>5, <3>7, <3>8
  <2>3. CASE \E o \in 0..MaxOptions + 1 : C!SetSelect(o)
    BY <2>3 DEF C!SetSelect, ComposeInv, ComposeTypeOK, C!TimerFollowsSpinners, C!Wanted
  <2>4. CASE \E width \in 0..Room + 1 : C!SetLabel(width)
    BY <2>4 DEF C!SetLabel, ComposeInv, ComposeTypeOK, C!TimerFollowsSpinners, C!Wanted
  <2> QED
    BY <1>4, <2>1, <2>2, <2>3, <2>4 DEF C!SetValue
<1>5. CASE C!Updates
  <2>1. \E n, values, options, ok : C!Update(n, values, options, ok)
    BY <1>5 DEF C!Updates
  <2>2. stage' = "open" /\ UNCHANGED <<stage, shown, eventsOff, turning, clicks, closeClicked>>
    BY <2>1 DEF C!Update
  <2>3. CASE C!CheckFinished(pressed, ticking, broken)
    <3>1. ~broken => (ticking <=> C!Wanted(turning', ended, shown'))
      BY <2>2 DEF ComposeInv, C!TimerFollowsSpinners
    <3> QED
      BY <1>0, <2>2, <2>3, <3>1, RecheckKeeps
  <2>4. CASE UNCHANGED <<ticking, ended, broken, pressed, reported>>
    BY <2>2, <2>4 DEF ComposeInv, ComposeTypeOK, C!TimerFollowsSpinners, C!Wanted
  <2> QED
    BY <2>1, <2>3, <2>4 DEF C!Update
<1>6. CASE C!Refuse
  BY <1>6 DEF C!Refuse, ComposeInv, ComposeTypeOK, C!TimerFollowsSpinners, C!Wanted
<1>7. CASE C!Visibility
  <2>1. /\ stage' = "open" /\ stage = "open" /\ shown' \in BOOLEAN
        /\ UNCHANGED <<turning, clicks, closeClicked>>
    BY <1>7 DEF C!Visibility
  <2>2. PICK sync \in C!Synced(turning, ended, shown', ticking) :
          \/ /\ sync.ok /\ ticking' = sync.run
             /\ UNCHANGED <<ended, broken, eventsOff, pressed, reported>>
          \/ ~sync.ok /\ eventsOff' = TRUE /\ C!CheckFinished(pressed, ticking, TRUE)
    BY <1>7 DEF C!Visibility
  <2>3. \/ sync.ok = TRUE /\ sync.run = C!Wanted(turning, ended, shown')
        \/ sync.ok = FALSE
    BY <1>0, SyncedIs
  <2>4. C!Wanted(turning, ended, shown') \in BOOLEAN
    BY WantedIsBoolean
  <2>5. CASE sync.ok = TRUE
    <3>1. ticking' = C!Wanted(turning, ended, shown')
      BY <2>2, <2>3, <2>5
    <3>2. UNCHANGED <<ended, broken, eventsOff, pressed, reported>>
      BY <2>2, <2>5
    <3>3. ComposeTypeOK'
      BY <1>0, <2>1, <2>4, <3>1, <3>2 DEF ComposeTypeOK
    <3>4. C!TimerFollowsSpinners'
      BY <2>1, <3>1, <3>2 DEF C!TimerFollowsSpinners, C!Wanted
    <3> QED
      BY <2>1, <3>2, <3>3, <3>4 DEF ComposeInv
  <2>6. CASE sync.ok = FALSE
    <3>1. eventsOff' = TRUE /\ C!CheckFinished(pressed, ticking, TRUE)
      BY <2>2, <2>6
    <3> QED
      BY <1>0, <2>1, <3>1, RecheckKeeps
  <2> QED
    BY <2>3, <2>5, <2>6
<1>8. CASE C!Tick
  <2>1. stage' = "open" /\ stage = "open" /\ UNCHANGED <<shown, turning, clicks, closeClicked>>
    BY <1>8 DEF C!Tick
  <2>2. ~broken => (ticking <=> C!Wanted(turning', ended, shown'))
    BY <2>1 DEF ComposeInv, C!TimerFollowsSpinners
  <2>3. CASE C!CheckFinished(pressed, ticking, broken) /\ UNCHANGED eventsOff
    BY <1>0, <2>1, <2>2, <2>3, RecheckKeeps
  <2>4. CASE C!CheckFinished(pressed, ticking, TRUE) /\ eventsOff' = TRUE
    BY <1>0, <2>1, <2>4, RecheckKeeps
  <2> QED
    BY <1>8, <2>3, <2>4 DEF C!Tick
<1>9. CASE UNCHANGED composeVars
  BY <1>9 DEF composeVars, ComposeInv, ComposeTypeOK, C!TimerFollowsSpinners, C!Wanted
<1> QED
  BY <1>1, <1>2, <1>3, <1>4, <1>5, <1>6, <1>7, <1>8, <1>9 DEF C!Next

-----------------------------------------------------------------------------
(* Terminal dialogs.                                                       *)
(* The array of the input not written yet is within its bounds, and what   *)
(* waits in it are its last bytes.                                         *)
QueueOK(q) ==
  /\ q \in [data : Seq(Nat), offset : Nat, length : Nat]
  /\ q.offset + q.length = Len(q.data)
  /\ Len(q.data) <= Limit

(* The command is reaped only by the cleanup, at its end, so that no       *)
(* signal follows.                                                         *)
ProcessOK ==
  /\ ~stray
  /\ proc \in {"none", "running", "zombie", "reaped"}
  /\ cleanup \in {"none", "wait", "kill", "reap", "done", "joined"}
  /\ life \in {"none", "open", "deleted"}
  /\ life \in {"none", "open"} => cleanup = "none"
  /\ life = "none" => proc = "none"
  /\ proc = "reaped" => cleanup \in {"done", "joined"}

(* What waits to be written is what is owed, and POLLOUT is asked for as   *)
(* long as there is any; nothing waits when the command is gone.           *)
InputOK ==
  /\ QueueOK(queue) /\ inputs \in Nat /\ unread \in 0..PtyRoom
  /\ out \in Seq({"text", "query"})
  /\ inOrder
  /\ owed = T!Pending(queue)
  /\ wantOut <=> queue.length > 0
  /\ exited \/ inputClosed => queue.length = 0

(* What waits, byte by byte.                                               *)
LEMMA PendingIs ==
  ASSUME NEW q, QueueOK(q)
  PROVE  /\ T!Pending(q) \in Seq(Nat) /\ Len(T!Pending(q)) = q.length
         /\ \A i \in 1..q.length : T!Pending(q)[i] = q.data[q.offset + i]
<1>1. /\ q.offset \in Nat /\ q.length \in Nat /\ q.data \in Seq(Nat)
      /\ q.offset + q.length = Len(q.data)
  BY DEF QueueOK
<1> DEFINE m == q.offset + 1
           n == q.offset + q.length
           p == SubSeq(q.data, m, n)
<1>2. m \in Int /\ n \in Int /\ \A i \in m..n : q.data[i] \in Nat
  BY <1>1
<1>3. \A i \in 1..q.length : i \in 1..n - m + 1 /\ m + i - 1 = q.offset + i
  BY <1>1
<1>4. n - m + 1 = q.length /\ (m <= n \/ q.length = 0) /\ (m <= n => q.length # 0)
  <2>1. n - m + 1 = q.length
    BY <1>1
  <2>2. m <= n \/ q.length = 0
    BY <1>1
  <2>3. m <= n => q.length # 0
    BY <1>1
  <2> QED
    BY <2>1, <2>2, <2>3
<1> HIDE DEF m, n
<1>5. /\ p \in Seq(Nat) /\ Len(p) = IF m <= n THEN n - m + 1 ELSE 0
      /\ \A i \in 1..n - m + 1 : p[i] = q.data[m + i - 1]
  BY <1>2, SubSeqProperties
<1>6. \A i \in 1..q.length : p[i] = q.data[q.offset + i]
  BY <1>3, <1>5
<1>7. T!Pending(q) = p
  BY DEF T!Pending, m, n
<1>8. Len(p) = q.length
  BY <1>4, <1>5
<1> QED
  BY <1>5, <1>6, <1>7, <1>8

(* An empty array has nothing that waits.                                  *)
LEMMA NothingPending ==
  /\ QueueOK(T!Cleared) /\ T!Pending(T!Cleared) = <<>> /\ T!Cleared.length = 0
  /\ \A q : QueueOK(q) /\ q.length = 0 => T!Pending(q) = <<>>
<1>1. QueueOK(T!Cleared) /\ T!Cleared.length = 0
  BY PluginsAssumption DEF QueueOK, T!Cleared, T!ConstAssumption
<1>2. ASSUME NEW q, QueueOK(q), q.length = 0 PROVE T!Pending(q) = <<>>
  BY <1>2, PendingIs
<1> QED
  BY <1>1, <1>2

(* A chunk that fits goes behind what waits,                               *)
LEMMA AppendedIs ==
  ASSUME NEW q, QueueOK(q), NEW chunk \in Seq(Nat), T!Fits(q, Len(chunk))
  PROVE  /\ QueueOK(T!Appended(q, chunk))
         /\ T!Appended(q, chunk).length = q.length + Len(chunk)
         /\ T!Pending(T!Appended(q, chunk)) = T!Pending(q) \o chunk
<1> DEFINE d == T!Pending(q) \o chunk
<1>1. q.length \in Nat /\ Len(chunk) \in Nat
  BY DEF QueueOK
<1>2. d \in Seq(Nat) /\ Len(d) = q.length + Len(chunk)
  <2>1. T!Pending(q) \in Seq(Nat) /\ Len(T!Pending(q)) = q.length
    BY PendingIs
  <2> QED
    BY <2>1, ConcatProperties
<1>3. T!Appended(q, chunk) = [data |-> d, offset |-> 0, length |-> q.length + Len(chunk)]
  BY DEF T!Appended
<1> HIDE DEF d
<1>4. Limit \in Nat
  BY PluginsAssumption DEF T!ConstAssumption
<1>5. Len(d) <= Limit
  BY <1>1, <1>2, <1>4 DEF T!Fits
<1>6. SubSeq(d, 0 + 1, 0 + (q.length + Len(chunk))) = d
  BY <1>1, <1>2, SubSeqFull
<1>7. QueueOK(T!Appended(q, chunk))
  BY <1>1, <1>2, <1>3, <1>5 DEF QueueOK
<1>8. /\ T!Appended(q, chunk).data = d /\ T!Appended(q, chunk).offset = 0
      /\ T!Appended(q, chunk).length = q.length + Len(chunk)
  BY <1>3
<1> QED
  BY <1>6, <1>7, <1>8 DEF T!Pending, d

(* and what was written leaves from its front.                             *)
LEMMA FlushedIs ==
  ASSUME NEW q, QueueOK(q), NEW n \in 0..q.length
  PROVE  /\ QueueOK(T!Flushed(q, n)) /\ T!Flushed(q, n).length = q.length - n
         /\ T!Pending(T!Flushed(q, n)) = SubSeq(T!Pending(q), n + 1, q.length)
<1>1. /\ q.offset \in Nat /\ q.length \in Nat /\ q.data \in Seq(Nat)
      /\ q.offset + q.length = Len(q.data) /\ Len(q.data) <= Limit
      /\ q \in [data : Seq(Nat), offset : Nat, length : Nat]
  BY DEF QueueOK
<1>2. /\ T!Pending(q) \in Seq(Nat) /\ Len(T!Pending(q)) = q.length
      /\ \A i \in 1..q.length : T!Pending(q)[i] = q.data[q.offset + i]
  BY PendingIs
<1>3. CASE n = q.length
  <2>1. T!Flushed(q, n) = T!Cleared
    BY <1>3 DEF T!Flushed
  <2>2. SubSeq(T!Pending(q), n + 1, q.length) = <<>>
    BY <1>1, <1>3, SubSeqEmpty
  <2> QED
    BY <1>1, <1>3, <2>1, <2>2, NothingPending
<1>4. CASE n # q.length
  <2> DEFINE f == T!Flushed(q, n)
             p == T!Pending(q)
  <2>1. f = [q EXCEPT !.offset = @ + n, !.length = @ - n]
    BY <1>4 DEF T!Flushed
  <2>2. n \in Nat /\ n < q.length
    BY <1>1, <1>4
  <2>3. /\ f \in [data : Seq(Nat), offset : Nat, length : Nat]
        /\ f.data = q.data /\ f.offset = q.offset + n /\ f.length = q.length - n
    <3>1. q.offset + n \in Nat /\ q.length - n \in Nat
      BY <1>1, <2>2
    <3>2. f = [data |-> q.data, offset |-> q.offset + n, length |-> q.length - n]
      BY <1>1, <2>1
    <3> HIDE DEF f
    <3> QED
      BY <1>1, <3>1, <3>2
  <2> HIDE DEF f, p
  <2>4. QueueOK(f)
    BY <1>1, <2>2, <2>3 DEF QueueOK
  <2>5. /\ T!Pending(f) \in Seq(Nat) /\ Len(T!Pending(f)) = q.length - n
        /\ \A i \in 1..q.length - n : T!Pending(f)[i] = q.data[q.offset + n + i]
    BY <2>3, <2>4, PendingIs
  <2>6. /\ p \in Seq(Nat) /\ Len(p) = q.length
        /\ \A i \in 1..q.length : p[i] = q.data[q.offset + i]
    BY <1>2 DEF p
  <2>7. \A i \in n + 1..q.length : p[i] \in Nat
    BY <1>1, <2>2, <2>6
  <2>8. /\ SubSeq(p, n + 1, q.length) \in Seq(Nat)
        /\ Len(SubSeq(p, n + 1, q.length))
             = IF n + 1 <= q.length THEN q.length - (n + 1) + 1 ELSE 0
        /\ \A i \in 1..q.length - (n + 1) + 1 : SubSeq(p, n + 1, q.length)[i] = p[n + 1 + i - 1]
    <3> DEFINE a == n + 1
               b == q.length
    <3>1. a \in Int /\ b \in Int /\ \A i \in a..b : p[i] \in Nat
      BY <1>1, <2>2, <2>7
    <3> HIDE DEF a, b
    <3>2. /\ SubSeq(p, a, b) \in Seq(Nat)
          /\ Len(SubSeq(p, a, b)) = IF a <= b THEN b - a + 1 ELSE 0
          /\ \A i \in 1..b - a + 1 : SubSeq(p, a, b)[i] = p[a + i - 1]
      BY <3>1, SubSeqProperties
    <3> QED
      BY <3>2 DEF a, b
  <2>9. Len(SubSeq(p, n + 1, q.length)) = q.length - n
    BY <1>1, <2>2, <2>8
  <2>10. ASSUME NEW i \in 1..q.length - n
         PROVE  T!Pending(f)[i] = SubSeq(p, n + 1, q.length)[i]
    <3>1. n + 1 + i - 1 = n + i /\ n + i \in 1..q.length /\ i \in 1..q.length - (n + 1) + 1
      BY <1>1, <2>2
    <3>2. q.offset + n + i = q.offset + (n + i)
      BY <1>1, <2>2
    <3> QED
      BY <2>5, <2>6, <2>8, <3>1, <3>2
  <2>11. T!Pending(f) = SubSeq(p, n + 1, q.length)
    BY <2>5, <2>8, <2>9, <2>10, SeqEqual
  <2> QED
    BY <2>3, <2>4, <2>11 DEF f, p
<1> QED
  BY <1>3, <1>4
TermInv == ProcessOK /\ InputOK

UntouchedInput ==
  UNCHANGED <<queue, inputs, unread, out, inOrder, owed, wantOut, exited, inputClosed>>
UntouchedProcess == UNCHANGED <<stray, proc, cleanup, life>>

(* The two halves change in different steps.                               *)
LEMMA InputStays == ASSUME InputOK, UntouchedInput PROVE InputOK'
BY DEF InputOK, UntouchedInput, QueueOK, T!Pending

(* So the other half stays.                                                *)
LEMMA ProcessStays == ASSUME ProcessOK, UntouchedProcess PROVE ProcessOK'
BY DEF ProcessOK, UntouchedProcess

(* A terminal dialog is sound at the start,                                *)
LEMMA TermInit == T!Init => TermInv
<1> SUFFICES ASSUME T!Init PROVE TermInv
  OBVIOUS
<1>1. ProcessOK
  BY DEF T!Init, ProcessOK
<1>2. queue = T!Cleared /\ owed = <<>>
  BY DEF T!Init, T!Cleared
<1>3. PtyRoom \in Nat
  BY PluginsAssumption DEF T!ConstAssumption
<1> QED
  BY <1>1, <1>2, <1>3, NothingPending DEF T!Init, InputOK, TermInv

(* A key or set-value: what is accepted is owed.                           *)
LEMMA QueueInputKeeps ==
  ASSUME InputOK, NEW n \in 1..2, T!QueueInput(n) PROVE InputOK'
<1> DEFINE chunk == T!Chunk(n)
<1>1. chunk \in Seq(Nat) /\ Len(chunk) = n /\ inputs + n \in Nat
  BY DEF T!Chunk, InputOK
<1>2. inputs' = inputs + n /\ UNCHANGED <<exited, inputClosed, unread, out>>
  BY DEF T!QueueInput, T!flags, T!pty
<1>3. CASE UNCHANGED <<queue, wantOut, owed, inOrder>>
  BY <1>1, <1>2, <1>3 DEF InputOK, QueueOK, T!Pending
<1>4. CASE /\ ~exited /\ ~inputClosed /\ T!Fits(queue, n) /\ queue' = T!Appended(queue, chunk)
           /\ wantOut' = TRUE /\ owed' = owed \o chunk /\ UNCHANGED inOrder
  <2> HIDE DEF chunk
  <2>1. /\ QueueOK(T!Appended(queue, chunk))
        /\ T!Appended(queue, chunk).length = queue.length + Len(chunk)
        /\ T!Pending(T!Appended(queue, chunk)) = T!Pending(queue) \o chunk
    BY <1>1, <1>4, AppendedIs DEF InputOK
  <2>2. QueueOK(queue') /\ queue'.length = queue.length + n
    BY <1>1, <1>4, <2>1
  <2>3. owed' = T!Pending(queue')
    BY <1>4, <2>1 DEF InputOK
  <2>4. queue.length \in Nat
    BY DEF InputOK, QueueOK
  <2>5. wantOut' <=> queue'.length > 0
    BY <1>4, <2>2, <2>4
  <2>6. T!Pending(queue)' = T!Pending(queue') /\ QueueOK(queue)' = QueueOK(queue')
    BY DEF T!Pending, QueueOK
  <2> QED
    BY <1>1, <1>2, <1>4, <2>2, <2>3, <2>5, <2>6 DEF InputOK
<1> QED
  BY <1>3, <1>4 DEF T!QueueInput, T!input

(* The end of the command, or of the dialog, clears what waits.            *)
LEMMA ClearingKeeps ==
  ASSUME InputOK, queue' = T!Cleared, owed' = <<>>, wantOut' <=> FALSE,
         unread' \in 0..PtyRoom, out' \in Seq({"text", "query"}), UNCHANGED <<inputs, inOrder>>
  PROVE  InputOK'
<1>1. /\ QueueOK(queue') /\ T!Pending(queue') = <<>> /\ queue'.length = 0
  BY NothingPending
<1>2. T!Pending(queue)' = T!Pending(queue') /\ QueueOK(queue)' = QueueOK(queue')
  BY DEF T!Pending, QueueOK
<1> QED
  BY <1>1, <1>2 DEF InputOK

(* Replies of the screen are bytes like any other.                         *)
LEMMA RepliesTyped ==
  ASSUME InputOK PROVE T!Replies \in Seq(Nat) /\ T!ToRead \in Nat /\ T!ToRead <= Len(out)
<1>1. Len(out) \in Nat /\ ReadLimit \in Nat
  BY PluginsAssumption DEF InputOK, T!ConstAssumption
<1>2. T!ToRead \in Nat /\ T!ToRead <= Len(out)
  BY <1>1 DEF T!ToRead, T!Least
<1> DEFINE asked == {k \in 1..T!ToRead : out[k] = "query"}
<1>3. IsFiniteSet(1..T!ToRead) /\ asked \in SUBSET (1..T!ToRead)
  BY <1>2, FS_Interval
<1> HIDE DEF asked
<1>4. Cardinality(asked) \in Nat
  BY <1>3, FS_Subset, FS_CardinalityType
<1>5. T!Replies = [i \in 1..Cardinality(asked) |-> 0]
  BY CardinalitiesAgree DEF T!Replies, T!Reply, asked
<1> QED
  BY <1>2, <1>4, <1>5

(* Output that is read is consumed from its front.                         *)
LEMMA RestOfOutput ==
  ASSUME InputOK, NEW k \in Nat, out' = SubSeq(out, k + 1, Len(out))
  PROVE  out' \in Seq({"text", "query"})
<1>1. Len(out) \in Nat /\ k + 1 \in Int /\ \A i \in k + 1..Len(out) : out[i] \in {"text", "query"}
  BY DEF InputOK
<1> QED
  BY <1>1, SubSeqProperties

(* What the screen makes of the output goes behind what waits, and what of *)
(* it the PTY has room for leaves from the front.                          *)
LEMMA EventReadsKeeps ==
  ASSUME InputOK, T!EventReads, UNCHANGED inputs PROVE InputOK'
<1> DEFINE q   == IF T!Deaf \/ T!Replies = <<>> THEN queue ELSE T!Appended(queue, T!Replies)
           n   == T!Least(q.length, PtyRoom - unread)
           due == IF T!Deaf THEN owed ELSE owed \o T!Replies
<1>1. T!Replies \in Seq(Nat) /\ queue.length \in Nat
  BY RepliesTyped DEF InputOK, QueueOK
<1>2. PtyRoom \in Nat /\ unread \in 0..PtyRoom
  BY PluginsAssumption DEF InputOK, T!ConstAssumption
<1>3. out' \in Seq({"text", "query"})
  BY RepliesTyped, RestOfOutput DEF T!EventReads
<1>4. T!Deaf \/ T!Fits(queue, Len(T!Replies))
  BY DEF T!EventReads
<1>5. QueueOK(q) /\ T!Pending(q) = due
  <2>1. CASE T!Deaf
    BY <2>1 DEF InputOK
  <2>2. CASE ~T!Deaf /\ T!Replies = <<>>
    <3>1. T!Pending(queue) \in Seq(Nat)
      BY PendingIs DEF InputOK
    <3>2. T!Pending(queue) \o <<>> = T!Pending(queue)
      BY <3>1, ConcatEmptySeq
    <3> QED
      BY <2>2, <3>2 DEF InputOK
  <2>3. CASE ~T!Deaf /\ T!Replies # <<>>
    BY <1>1, <1>4, <2>3, AppendedIs DEF InputOK
  <2> QED
    BY <2>1, <2>2, <2>3
<1>6. q.length > 0 => wantOut \/ T!Replies # <<>>
  BY DEF InputOK
<1>7. T!Deaf => q.length = 0
  BY DEF T!Deaf, InputOK
<1>8. /\ wantOut' <=> queue'.length > 0 /\ (wantOut \/ T!Replies # <<>>)
      /\ UNCHANGED exited
  BY DEF T!EventReads
<1>9. \/ /\ inputClosed \/ T!Eof
         /\ queue' = IF T!Eof THEN T!Cleared ELSE q
         /\ inputClosed' = TRUE /\ owed' = <<>> /\ UNCHANGED <<inOrder, unread>>
      \/ /\ queue' = T!Flushed(q, n)
         /\ inOrder' = (inOrder /\ SubSeq(T!Pending(q), 1, n) = SubSeq(due, 1, n))
         /\ owed' = SubSeq(due, n + 1, Len(due))
         /\ unread' = unread + n /\ UNCHANGED inputClosed
      \/ /\ queue' = T!Cleared /\ inputClosed' = TRUE /\ owed' = <<>>
         /\ UNCHANGED <<inOrder, unread>>
      \/ /\ queue' = q /\ owed' = due
         /\ UNCHANGED <<inOrder, unread, inputClosed>>
  BY DEF T!EventReads
<1>10. exited \/ inputClosed => T!Deaf
  BY DEF T!Deaf
<1>11. q.length \in Nat /\ n \in 0..q.length /\ unread + n \in 0..PtyRoom
  <2>1. q.length \in Nat
    BY <1>5 DEF QueueOK
  <2> HIDE DEF q
  <2> QED
    BY <1>2, <2>1 DEF T!Least
<1> HIDE DEF q, n, due
<1>12. T!Pending(queue)' = T!Pending(queue') /\ QueueOK(queue)' = QueueOK(queue')
  BY DEF T!Pending, QueueOK
<1>13. CASE queue' = T!Cleared /\ owed' = <<>> /\ UNCHANGED <<inOrder, unread>>
  <2>1. wantOut' <=> FALSE
    BY <1>8, <1>13, NothingPending
  <2> QED
    BY <1>2, <1>3, <1>13, <2>1, ClearingKeeps
<1>14. CASE inputClosed /\ queue' = q /\ owed' = <<>> /\ UNCHANGED <<inOrder, unread>>
  <2>1. q.length = 0
    BY <1>7, <1>10, <1>14
  <2>2. T!Pending(queue') = <<>>
    BY <1>5, <1>14, <2>1, NothingPending
  <2> QED
    BY <1>2, <1>3, <1>5, <1>8, <1>12, <1>14, <2>1, <2>2 DEF InputOK
<1>15. CASE /\ queue' = T!Flushed(q, n)
            /\ inOrder' = (inOrder /\ SubSeq(T!Pending(q), 1, n) = SubSeq(due, 1, n))
            /\ owed' = SubSeq(due, n + 1, Len(due))
            /\ unread' = unread + n /\ UNCHANGED inputClosed
  <2>1. /\ QueueOK(T!Flushed(q, n)) /\ T!Flushed(q, n).length = q.length - n
        /\ T!Pending(T!Flushed(q, n)) = SubSeq(T!Pending(q), n + 1, q.length)
    BY <1>5, <1>11, FlushedIs
  <2>2. Len(due) = q.length
    BY <1>5, PendingIs
  <2>3. QueueOK(queue') /\ T!Pending(queue') = owed' /\ queue'.length = q.length - n
    BY <1>5, <1>15, <2>1, <2>2
  <2>4. inOrder'
    BY <1>5, <1>15 DEF InputOK
  <2>5. wantOut' <=> queue'.length > 0
    BY <1>6, <1>8, <1>11, <2>3
  <2>6. exited' \/ inputClosed' => queue'.length = 0
    BY <1>7, <1>8, <1>10, <1>11, <1>15, <2>3
  <2> QED
    BY <1>3, <1>11, <1>12, <1>15, <2>3, <2>4, <2>5, <2>6 DEF InputOK
<1>16. CASE queue' = q /\ owed' = due /\ UNCHANGED <<inOrder, unread, inputClosed>>
  <2>1. wantOut' <=> queue'.length > 0
    BY <1>6, <1>8, <1>16
  <2>2. exited' \/ inputClosed' => queue'.length = 0
    BY <1>7, <1>8, <1>10, <1>16
  <2> QED
    BY <1>2, <1>3, <1>5, <1>12, <1>16, <2>1, <2>2 DEF InputOK
<1> QED
  BY <1>9, <1>13, <1>14, <1>15, <1>16

(* A failure stops between the same steps: some of the output is taken,    *)
(* some of its replies are put behind what waits, some of that is written. *)
LEMMA EventFailsKeeps ==
  ASSUME InputOK, T!EventFails, UNCHANGED inputs PROVE InputOK'
<1>0. T!ToRead \in Nat /\ T!ToRead <= Len(out)
  BY RepliesTyped
<1> DEFINE Queued(r) == IF r = 0 THEN queue ELSE T!Appended(queue, [i \in 1..r |-> T!Reply])
           Owed(r)   == IF r = 0 THEN owed ELSE owed \o [i \in 1..r |-> T!Reply]
           Fails(k, r) ==
             /\ r > 0 => ~T!Deaf /\ T!Fits(queue, r)
             /\ out' = SubSeq(out, k + 1, Len(out))
             /\ wantOut' = (wantOut \/ r > 0)
             /\ \/ queue' = Queued(r) /\ owed' = Owed(r) /\ UNCHANGED <<inOrder, unread>>
                \/ \E n \in 1..PtyRoom - unread :
                     /\ "out" \in revents /\ ~inputClosed /\ k = T!ToRead
                     /\ n < Queued(r).length
                     /\ queue' = T!Flushed(Queued(r), n)
                     /\ inOrder' = (inOrder
                          /\ SubSeq(T!Pending(Queued(r)), 1, n) = SubSeq(Owed(r), 1, n))
                     /\ owed' = SubSeq(Owed(r), n + 1, Len(Owed(r)))
                     /\ unread' = unread + n
<1>1. PICK k \in 0..T!ToRead :
        \E r \in 0..T!Cardinality({i \in 1..k : out[i] = "query"}) : Fails(k, r)
  BY DEF T!EventFails
<1>2. PICK r \in 0..T!Cardinality({i \in 1..k : out[i] = "query"}) : Fails(k, r)
  BY <1>1
<1> DEFINE replies == [i \in 1..r |-> T!Reply]
           q   == Queued(r)
           due == Owed(r)
<1>3. UNCHANGED <<exited, inputClosed, inputs>>
  BY DEF T!EventFails
<1>4. r \in Nat
  <2>1. k \in Nat /\ IsFiniteSet(1..k) /\ {i \in 1..k : out[i] = "query"} \in SUBSET (1..k)
    BY <1>0, FS_Interval
  <2>2. Cardinality({i \in 1..k : out[i] = "query"}) \in Nat
    BY <2>1, FS_Subset, FS_CardinalityType
  <2> QED
    BY <2>2, CardinalitiesAgree
<1>5. replies \in Seq(Nat) /\ Len(replies) = r
  BY <1>4 DEF T!Reply
<1>6. PtyRoom \in Nat /\ unread \in 0..PtyRoom /\ queue.length \in Nat
  BY PluginsAssumption DEF InputOK, QueueOK, T!ConstAssumption
<1>7. out' \in Seq({"text", "query"})
  <2>1. k \in Nat
    BY <1>0
  <2> QED
    BY <1>2, <2>1, RestOfOutput
<1>8. /\ QueueOK(q) /\ T!Pending(q) = due
      /\ q.length = queue.length + r
  <2> HIDE DEF replies
  <2>1. CASE r = 0
    BY <1>6, <2>1 DEF InputOK
  <2>2. CASE r # 0
    <3>1. r > 0 /\ T!Fits(queue, Len(replies))
      BY <1>2, <1>4, <1>5, <2>2
    <3>2. q = T!Appended(queue, replies) /\ due = T!Pending(queue) \o replies
      BY <2>2 DEF replies, InputOK
    <3> HIDE DEF q, due
    <3> QED
      BY <1>5, <3>1, <3>2, AppendedIs DEF InputOK
  <2> QED
    BY <2>1, <2>2
<1>9. r > 0 => ~T!Deaf
  BY <1>2
<1>10. wantOut' <=> wantOut \/ r > 0
  BY <1>2
<1>11. \/ queue' = q /\ owed' = due /\ UNCHANGED <<inOrder, unread>>
       \/ \E n \in 1..PtyRoom - unread :
            /\ n < q.length
            /\ queue' = T!Flushed(q, n)
            /\ inOrder' = (inOrder /\ SubSeq(T!Pending(q), 1, n) = SubSeq(due, 1, n))
            /\ owed' = SubSeq(due, n + 1, Len(due))
            /\ unread' = unread + n
  BY <1>2
<1> HIDE DEF Queued, Owed, Fails, q, due, replies
<1>12. wantOut' <=> q.length > 0
  BY <1>4, <1>6, <1>8, <1>10 DEF InputOK
<1>13. exited \/ inputClosed => q.length = 0
  BY <1>4, <1>6, <1>8, <1>9 DEF InputOK, T!Deaf
<1>14. T!Pending(queue)' = T!Pending(queue') /\ QueueOK(queue)' = QueueOK(queue')
  BY DEF T!Pending, QueueOK
<1>15. CASE queue' = q /\ owed' = due /\ UNCHANGED <<inOrder, unread>>
  BY <1>3, <1>7, <1>8, <1>12, <1>13, <1>14, <1>15 DEF InputOK
<1>16. ASSUME NEW n \in 1..PtyRoom - unread, n < q.length,
              queue' = T!Flushed(q, n),
              inOrder' = (inOrder /\ SubSeq(T!Pending(q), 1, n) = SubSeq(due, 1, n)),
              owed' = SubSeq(due, n + 1, Len(due)),
              unread' = unread + n
       PROVE  InputOK'
  <2>1. q.length \in Nat /\ n \in 0..q.length /\ unread' \in 0..PtyRoom
    BY <1>4, <1>6, <1>8, <1>16
  <2>2. /\ QueueOK(T!Flushed(q, n)) /\ T!Flushed(q, n).length = q.length - n
        /\ T!Pending(T!Flushed(q, n)) = SubSeq(T!Pending(q), n + 1, q.length)
    BY <1>8, <2>1, FlushedIs
  <2>3. Len(due) = q.length
    BY <1>8, PendingIs
  <2>4. QueueOK(queue') /\ T!Pending(queue') = owed' /\ queue'.length = q.length - n
    BY <1>8, <1>16, <2>2, <2>3
  <2>5. inOrder'
    BY <1>8, <1>16 DEF InputOK
  <2>6. wantOut' <=> queue'.length > 0
    BY <1>12, <1>16, <2>1, <2>4
  <2>7. exited' \/ inputClosed' => queue'.length = 0
    BY <1>3, <1>13, <1>16, <2>1
  <2> QED
    BY <1>3, <1>7, <1>14, <2>1, <2>4, <2>5, <2>6, <2>7 DEF InputOK
<1> QED
  BY <1>11, <1>15, <1>16

(* and through every step.                                                 *)
LEMMA TermNext == TermInv /\ [T!Next]_termVars => TermInv'
<1> SUFFICES ASSUME TermInv, [T!Next]_termVars PROVE TermInv'
  OBVIOUS
<1>0. ProcessOK /\ InputOK
  BY DEF TermInv
<1> SUFFICES ProcessOK' /\ InputOK'
  BY DEF TermInv
<1> USE DEF T!polled, T!flags, T!input, T!pty, T!command, T!cleaning, T!bounds
<1>1. CASE T!Poll \/ T!EventSkipped \/ T!WorkDone \/ T!Click \/ UNCHANGED termVars
  <2>1. UntouchedInput /\ UntouchedProcess
    BY <1>1 DEF T!Poll, T!EventSkipped, T!WorkDone, T!Click, termVars, UntouchedInput,
      UntouchedProcess
  <2> QED
    BY <1>0, <2>1, InputStays, ProcessStays
<1>2. CASE T!Event
  <2>1. UntouchedProcess /\ UNCHANGED inputs
    BY <1>2 DEF T!Event, UntouchedProcess
  <2>2. CASE T!EventFails
    BY <1>0, <2>1, <2>2, EventFailsKeeps, ProcessStays
  <2>3. CASE T!EventReads
    BY <1>0, <2>1, <2>3, EventReadsKeeps, ProcessStays
  <2> QED
    BY <1>2, <2>2, <2>3 DEF T!Event
<1>3. CASE T!ChildEvent
  <2>1. UntouchedProcess /\ UNCHANGED <<inputs, out, unread>>
    BY <1>3 DEF T!ChildEvent, UntouchedProcess
  <2>2. CASE T!Exit
    BY <1>0, <2>1, <2>2, ClearingKeeps, ProcessStays DEF T!Exit, InputOK
  <2>3. CASE T!WaitFails \/ UNCHANGED <<T!flags, T!input>>
    BY <1>0, <2>1, <2>3, InputStays, ProcessStays DEF T!WaitFails, UntouchedInput
  <2> QED
    BY <1>3, <2>2, <2>3 DEF T!ChildEvent
<1>4. CASE T!Create
  <2>1. UntouchedInput
    BY <1>4 DEF T!Create, UntouchedInput
  <2>2. proc = "none" /\ proc' = "running" /\ cleanup = "none" /\ ~stray
    BY <1>0, <1>4 DEF T!Create, T!Spawn, ProcessOK
  <2>3. ASSUME life' = "open" /\ UNCHANGED <<stray, cleanup>> PROVE ProcessOK'
    BY <2>2, <2>3 DEF ProcessOK
  <2>4. ASSUME T!EndCommand("running") PROVE ProcessOK'
    BY <2>2, <2>4 DEF ProcessOK, T!EndCommand, T!Kill
  <2> QED
    BY <1>0, <1>4, <2>1, <2>3, <2>4, InputStays DEF T!Create
<1>5. CASE T!Delete
  <2>1. ProcessOK'
    BY <1>0, <1>5 DEF T!Delete, T!EndCommand, T!Kill, T!Open, ProcessOK
  <2>2. PtyRoom \in Nat
    BY PluginsAssumption DEF T!ConstAssumption
  <2>3. /\ queue' = T!Cleared /\ owed' = <<>> /\ (wantOut' <=> FALSE)
        /\ unread' \in 0..PtyRoom /\ out' \in Seq({"text", "query"}) /\ UNCHANGED <<inputs, inOrder>>
    BY <1>5, <2>2 DEF T!Delete
  <2> QED
    BY <1>0, <2>1, <2>3, ClearingKeeps
<1>6. CASE \E n \in 1..2 : T!QueueInput(n)
  <2>1. UntouchedProcess
    BY <1>6 DEF T!QueueInput, UntouchedProcess
  <2> QED
    BY <1>0, <1>6, <2>1, QueueInputKeeps, ProcessStays
<1>7. CASE T!CommandRun
  <2>1. CASE \E b \in {"text", "query"} : T!CommandWrites(b)
    <3>1. PICK b \in {"text", "query"} : T!CommandWrites(b)
      BY <2>1
    <3>2. out' \in Seq({"text", "query"})
      BY <1>0, <3>1 DEF T!CommandWrites, InputOK
    <3>3. UNCHANGED <<queue, inputs, unread, inOrder, owed, wantOut, exited, inputClosed>>
          /\ UntouchedProcess
      BY <3>1 DEF T!CommandWrites, UntouchedProcess
    <3> QED
      BY <1>0, <3>2, <3>3, ProcessStays DEF InputOK, QueueOK, T!Pending
  <2>2. CASE T!CommandReads
    <3>1. unread' \in 0..PtyRoom
      BY <1>0, <2>2, PluginsAssumption DEF T!CommandReads, InputOK, T!ConstAssumption
    <3>2. UNCHANGED <<queue, inputs, out, inOrder, owed, wantOut, exited, inputClosed>>
          /\ UntouchedProcess
      BY <2>2 DEF T!CommandReads, UntouchedProcess
    <3> QED
      BY <1>0, <3>1, <3>2, ProcessStays DEF InputOK, QueueOK, T!Pending
  <2>3. CASE T!HolderStarts \/ T!HolderEnds
    <3>1. UntouchedInput /\ UntouchedProcess
      BY <2>3 DEF T!HolderStarts, T!HolderEnds, UntouchedInput, UntouchedProcess
    <3> QED
      BY <1>0, <3>1, InputStays, ProcessStays
  <2>4. CASE T!Exits
    <3>1. UntouchedInput
      BY <2>4 DEF T!Exits, UntouchedInput
    <3>2. ProcessOK'
      BY <1>0, <2>4 DEF T!Exits, ProcessOK
    <3> QED
      BY <1>0, <3>1, <3>2, InputStays
  <2> QED
    BY <1>7, <2>1, <2>2, <2>3, <2>4 DEF T!CommandRun
<1>8. CASE T!Cleanup
  <2>1. UntouchedInput
    BY <1>8 DEF T!Cleanup, UntouchedInput
  <2>2. ProcessOK'
    <3>1. CASE T!Looks
      BY <1>0, <1>8, <3>1 DEF T!Cleanup, T!Looks, ProcessOK
    <3>2. CASE T!Kills
      BY <1>0, <1>8, <3>2 DEF T!Cleanup, T!Kills, T!Kill, ProcessOK
    <3>3. CASE T!Reaps
      BY <1>0, <1>8, <3>3 DEF T!Cleanup, T!Reaps, ProcessOK
    <3>4. CASE T!Collect
      BY <1>0, <1>8, <3>4 DEF T!Cleanup, T!Collect, ProcessOK
    <3> QED
      BY <1>8, <3>1, <3>2, <3>3, <3>4 DEF T!Cleanup
  <2> QED
    BY <1>0, <2>1, <2>2, InputStays
<1> QED
  BY <1>1, <1>2, <1>3, <1>4, <1>5, <1>6, <1>7, <1>8
  DEF T!Next, T!LoopRun, T!PollReturns, T!Work

-----------------------------------------------------------------------------
(* The three together, as a behaviour of MCPlugins is of one of them.      *)
PluginsInv == LoopInv /\ TermInv /\ ComposeInv

(* All of it holds in every state, whichever part runs.                    *)
THEOREM PluginsInvariant == AllSpec => []PluginsInv
<1>1. AllInit => PluginsInv
  BY LoopInit, TermInit, ComposeInit DEF AllInit, PluginsInv
<1>2. PluginsInv /\ [AllNext]_allvars => PluginsInv'
  <2> SUFFICES ASSUME PluginsInv, [AllNext]_allvars PROVE PluginsInv'
    OBVIOUS
  <2>1. [P!Next]_loopVars /\ [T!Next]_termVars /\ [C!Next]_composeVars
    BY DEF AllNext, TreeStep, LoopStep, TermStep, ComposeStep, allvars
  <2> QED
    BY <2>1, LoopNext, TermNext, ComposeNext DEF PluginsInv
<1> QED
  BY <1>1, <1>2, PTL DEF AllSpec

(* The main loop dispatches a poll snapshot only to dialogs that are there *)
(* and are those it was taken of, though requests make and delete dialogs  *)
(* at the same addresses in between (main of plainmouthd.c).               *)
THEOREM OwnersAreAlive == AllSpec => []OwnersAlive
<1>1. PluginsInv => OwnersAlive
  BY DEF PluginsInv, LoopInv, Known, OwnersAlive, P!OwnersAlive
<1> QED
  BY <1>1, PluginsInvariant, PTL

(* Input to a terminal dialog reaches its PTY in the order it was          *)
(* accepted, whatever keys, set-values, replies of the screen and short    *)
(* writes come between; the array stays within its limit (termbox-main.c). *)
THEOREM InputArrivesInOrder == AllSpec => []InputInOrder
<1>1. PluginsInv => InputInOrder
  BY DEF PluginsInv, TermInv, InputOK, QueueOK, InputInOrder, T!InputInOrder
<1> QED
  BY <1>1, PluginsInvariant, PTL

(* Neither the dialog nor its cleanup thread sends a signal to a process   *)
(* that is not its command any more (cleanup_child).                       *)
THEOREM NoSignalStrays == AllSpec => []NoStraySignal
<1>1. PluginsInv => NoStraySignal
  BY DEF PluginsInv, TermInv, ProcessOK, NoStraySignal, T!NoStraySignal
<1> QED
  BY <1>1, PluginsInvariant, PTL

(* The timer of a composed dialog runs exactly while it is visible, not    *)
(* over and has a spinner turning, though updates start and stop spinners  *)
(* and the timer may fail to be armed (compose-main.c).                    *)
THEOREM TimerFollows == AllSpec => []TimerFollowsSpinners
<1>1. PluginsInv => TimerFollowsSpinners
  BY DEF PluginsInv, ComposeInv, TimerFollowsSpinners
<1> QED
  BY <1>1, PluginsInvariant, PTL

(* Each click of a button that does not close is reported once, and only a *)
(* button that closes or a failed timer ends the dialog.                   *)
THEOREM ClicksAreReported == AllSpec => []ClicksReported
<1>1. PluginsInv => ClicksReported
  BY DEF PluginsInv, ComposeInv, ClicksReported, C!ClicksReported
<1> QED
  BY <1>1, PluginsInvariant, PTL

(* A request that is refused is one of a few steps, and changes nothing.   *)
LEMMA RefusedLeavesAll == C!Next => C!LeavesAll
<1> SUFFICES ASSUME C!Next, refused' PROVE UNCHANGED <<shown, C!timer, C!nodes, reported>>
  BY DEF C!LeavesAll
<1> USE DEF C!timer, C!nodes, C!history
<1>1. CASE C!Create
  BY <1>1 DEF C!Create
<1>2. CASE C!SetValue
  <2>1. CASE \E b \in Buttons, v \in BOOLEAN : C!SetButton(b, v)
    BY <2>1 DEF C!SetButton
  <2>2. CASE \E s \in Spinners, v \in BOOLEAN : C!SetSpinner(s, v)
    BY <2>2 DEF C!SetSpinner, C!SpinnerRestored
  <2>3. CASE \E o \in 0..MaxOptions + 1 : C!SetSelect(o)
    BY <2>3 DEF C!SetSelect
  <2>4. CASE \E width \in 0..Room + 1 : C!SetLabel(width)
    BY <2>4 DEF C!SetLabel
  <2> QED
    BY <1>2, <2>1, <2>2, <2>3, <2>4 DEF C!SetValue
<1>3. CASE C!Updates
  <2>1. \E n, values, options, ok : C!Update(n, values, options, ok)
    BY <1>3 DEF C!Updates
  <2>2. PICK n, values, options, ok : C!Update(n, values, options, ok)
    BY <2>1
  <2>3. ~ok
    BY <2>2 DEF C!Update
  <2>4. menu' = menu /\ attrs' = attrs
    BY <2>2, <2>3 DEF C!Update, C!AttrsAfter
  <2> QED
    BY <2>2, <2>3, <2>4 DEF C!Update
<1>4. CASE C!Refuse
  BY <1>4 DEF C!Refuse
<1>5. CASE C!Delete \/ C!Keys \/ C!Visibility \/ C!Tick
  BY <1>5 DEF C!Delete, C!Keys, C!KeyOnSelect, C!KeyOnButton, C!Visibility, C!Tick
<1> QED
  BY <1>1, <1>2, <1>3, <1>4, <1>5 DEF C!Next

(* A request that is refused has changed nothing, however far it had come  *)
(* before it was found to be wrong.                                        *)
THEOREM RefusalLeavesAll == AllSpec => RefusalChangesNothing
<1>1. [AllNext]_allvars => [C!LeavesAll]_allvars
  <2> SUFFICES ASSUME AllNext PROVE C!LeavesAll
    BY DEF allvars
  <2>1. [C!Next]_composeVars
    BY DEF AllNext, TreeStep, LoopStep, TermStep, ComposeStep
  <2>2. UNCHANGED composeVars => C!LeavesAll
    BY DEF composeVars, C!LeavesAll, C!timer, C!nodes
  <2> QED
    BY <2>1, <2>2, RefusedLeavesAll
<1> QED
  BY <1>1, PTL DEF AllSpec, RefusalChangesNothing
=============================================================================
