------------------------------ MODULE Compose ------------------------------
(***************************************************************************)
(* A composed dialog after it is built (src/src/plugins/compose-main.c):   *)
(* buttons that close it or are reported one by one, spinners turned by a  *)
(* timer that must run exactly while one can be seen turning, and nodes    *)
(* that requests read and write.  Every call to the kernel's timer may     *)
(* fail.  How a dialog is built is module ComposeTree.                     *)
(***************************************************************************)
EXTENDS Integers, FiniteSets

CONSTANTS
  Buttons, Closing,  \* its buttons, and those with close=true
  Spinners,
  Attrs,             \* attributes an update may set: ATTR_DISABLED, ATTR_READONLY
  MaxOptions,        \* bound: options of its select
  Room,              \* cells of its label
  MaxClicks          \* bound: clicks of a button that does not close

VARIABLES
  stage,                      \* none, open, gone
  shown,                      \* FLAG_VISIBLE of the root
  ticking, ended, broken,     \* struct compose_state: running, finished, failed
  eventsOff,                  \* instance: events_disabled
  turning, pressed,           \* PROP_SPINNER_ACTIVE, PROP_BUTTON_STATE
  attrs,                      \* attributes of buttons and the select
  menu, label,                \* options and cursor of the select; width of the label's text
  reported,                   \* events queued for each button
  clicks, closeClicked,       \* history: clicks of a button; one that closes was clicked
  refused                     \* the last step was a request, and was refused

timer   == <<ticking, ended, broken, eventsOff>>
nodes   == <<turning, pressed, attrs, menu, label>>
history == <<reported, clicks, closeClicked>>
vars    == <<stage, shown, timer, nodes, history, refused>>

ConstAssumption ==
  /\ Closing \subseteq Buttons
  /\ {MaxOptions, Room} \subseteq Nat \ {0} /\ MaxClicks \in Nat

Select  == "select"
Options == 0..MaxOptions

Init ==
  /\ stage = "none" /\ shown = TRUE
  /\ ticking = FALSE /\ ended = FALSE /\ broken = FALSE /\ eventsOff = FALSE
  /\ turning \in [Spinners -> BOOLEAN] /\ pressed = [b \in Buttons |-> FALSE]
  /\ attrs = [n \in Buttons \cup {Select} |-> {}]
  /\ menu = [options |-> MaxOptions, cursor |-> 1] /\ label = Room
  /\ reported = [b \in Buttons |-> 0] /\ clicks = [b \in Buttons |-> 0]
  /\ closeClicked = FALSE /\ refused = FALSE

-----------------------------------------------------------------------------
(* compose_sync_timer: the timer after it, given what it is asked to show; *)
(* a call that fails leaves it as it was.                                  *)
Wanted(spin, end, vis) == ~end /\ vis /\ \E s \in Spinners : spin[s]

Synced(spin, end, vis, run) ==
  LET want == Wanted(spin, end, vis) IN
  {[ok |-> TRUE, run |-> want]} \cup
    IF want = run THEN {} ELSE {[ok |-> FALSE, run |-> run]}

UnsyncedEnd(vis, run) == {[ok |-> TRUE, run |-> run]}  \* faulty: the end leaves the timer alone
SyncedEnd(vis, run) == Synced(turning, TRUE, vis, run)

(* daemon_instance_check_finished: clicks of the other buttons are taken,  *)
(* and put out, before any button that is still pressed ends the dialog.   *)
ReportedKeepsPressed(p) == p  \* faulty: a reported button stays pressed
AfterReports(p) == [b \in Buttons |-> p[b] /\ b \in Closing]

CheckFinished(p, run, fail) ==
  LET left == AfterReports(p)
      ends == fail \/ \E b \in Buttons : left[b]
  IN
  IF ended
  THEN /\ pressed' = p /\ ticking' = run /\ broken' = fail
       /\ UNCHANGED <<ended, reported>>
  ELSE /\ pressed' = left
       /\ reported' = [b \in Buttons |->
                        IF p[b] /\ b \notin Closing THEN reported[b] + 1 ELSE reported[b]]
       /\ ended' = ends
       /\ \E s \in IF ends THEN SyncedEnd(shown', run) ELSE {[ok |-> TRUE, run |-> run]} :
            ticking' = s.run /\ broken' = (fail \/ ~s.ok)

-----------------------------------------------------------------------------
(* compose_create starts the timer last; if it cannot, all is freed.       *)
Create ==
  /\ stage = "none"
  /\ \E s \in Synced(turning, ended, shown, ticking) :
       \/ s.ok /\ stage' = "open" /\ ticking' = s.run /\ refused' = FALSE
       \/ ~s.ok /\ stage' = "gone" /\ refused' = TRUE /\ UNCHANGED ticking
  /\ UNCHANGED <<shown, ended, broken, eventsOff, nodes, history>>

Delete ==
  /\ stage = "open" /\ stage' = "gone" /\ refused' = FALSE
  /\ ticking' = FALSE
  /\ UNCHANGED <<shown, ended, broken, eventsOff, nodes, history>>

(* A button is clicked: by a key, which toggles it, or by set-value.       *)
Press(b, value) ==
  LET counts == value /\ b \notin Closing /\ ~ended IN
  /\ counts => clicks[b] < MaxClicks
  /\ clicks' = IF counts THEN [clicks EXCEPT ![b] = @ + 1] ELSE clicks
  /\ closeClicked' = (closeClicked \/ (value /\ b \in Closing /\ ~ended))
  /\ CheckFinished([pressed EXCEPT ![b] = value], ticking, broken)
  /\ UNCHANGED <<stage, shown, eventsOff, turning, attrs, menu, label>>

Interactive(n) == stage = "open" /\ shown /\ attrs[n] = {}

KeyOnButton(b) == Interactive(b) /\ Press(b, ~pressed[b]) /\ refused' = FALSE

KeyOnSelect ==
  /\ Interactive(Select) /\ menu.options > 0
  /\ \E c \in 1..menu.options : menu' = [menu EXCEPT !.cursor = c]
  /\ refused' = FALSE
  /\ UNCHANGED <<stage, shown, timer, turning, pressed, attrs, label, history>>

(* compose_set_value, for each type of node. *)
SetButton(b, value) == stage = "open" /\ Press(b, value) /\ refused' = FALSE

SpinnerKept(s, value) == [turning EXCEPT ![s] = value]  \* faulty: no way back
SpinnerRestored(s, value) == turning

SetSpinner(s, value) ==
  /\ stage = "open"
  /\ LET spin == [turning EXCEPT ![s] = value] IN
     \E sync \in Synced(spin, ended, shown, ticking) :
       \/ /\ sync.ok /\ refused' = FALSE
          /\ turning' = spin /\ CheckFinished(pressed, sync.run, broken)
       \/ /\ ~sync.ok /\ refused' = TRUE
          /\ turning' = SpinnerRestored(s, value)
          /\ UNCHANGED <<ticking, ended, broken, pressed, reported>>
  /\ UNCHANGED <<stage, shown, eventsOff, attrs, menu, label, clicks, closeClicked>>

SetSelect(option) ==
  /\ stage = "open"
  /\ \/ /\ option \in 1..menu.options
        /\ menu' = [menu EXCEPT !.cursor = option] /\ refused' = FALSE
     \/ option \notin 1..menu.options /\ refused' = TRUE /\ UNCHANGED menu
  /\ UNCHANGED <<stage, shown, timer, turning, pressed, attrs, label, history>>

(* The text of a label must fit what was laid out for it. *)
Fits(width) == width <= Room

SetLabel(width) ==
  /\ stage = "open"
  /\ \/ Fits(width) /\ label' = width /\ refused' = FALSE
     \/ ~Fits(width) /\ refused' = TRUE /\ UNCHANGED label
  /\ UNCHANGED <<stage, shown, timer, turning, pressed, attrs, menu, history>>

(* compose_update: attributes set or cleared (values, for those given) and *)
(* options replaced, with the cursor on one that was given.                *)
Changed(n, values) ==
  [attrs EXCEPT ![n] = {a \in Attrs : IF a \in DOMAIN values THEN values[a] ELSE a \in @}]

AttrsBeforeOptions(n, values, ok) == Changed(n, values)  \* faulty: set before options are checked
AttrsAfter(n, values, ok) == IF ok THEN Changed(n, values) ELSE attrs

(* options is what the request gives for them; they may not fit, or the    *)
(* cursor may not be on one.                                               *)
None == [options |-> 0, cursor |-> -1]     \* no option, and no clear
Given == {[options |-> 0, cursor |-> 0]} \cup   \* clear
         {m \in [options : 1..MaxOptions, cursor : 1..MaxOptions] : m.cursor <= m.options}

Update(n, values, options, ok) ==
  /\ stage = "open"
  /\ menu' = IF ok /\ options # None THEN options ELSE menu
  /\ attrs' = AttrsAfter(n, values, ok)
  /\ \/ ok /\ refused' = FALSE /\ CheckFinished(pressed, ticking, broken)
     \/ ~ok /\ refused' = TRUE /\ UNCHANGED <<ticking, ended, broken, pressed, reported>>
  /\ UNCHANGED <<stage, shown, eventsOff, turning, label, clicks, closeClicked>>

Refuse ==  \* parameters that are wrong, a node that is not there
  /\ stage = "open" /\ refused' = TRUE
  /\ UNCHANGED <<stage, shown, timer, nodes, history>>

-----------------------------------------------------------------------------
(* The terminal becomes too small for the dialog, or large enough again.   *)
Visibility ==
  /\ stage = "open" /\ shown' = ~shown /\ refused' = FALSE
  /\ \E sync \in Synced(turning, ended, shown', ticking) :
       \/ sync.ok /\ ticking' = sync.run /\ UNCHANGED <<ended, broken, eventsOff, pressed, reported>>
       \/ ~sync.ok /\ eventsOff' = TRUE /\ CheckFinished(pressed, ticking, TRUE)
  /\ UNCHANGED <<stage, turning, attrs, menu, label, clicks, closeClicked>>

(* compose_event: the timer has ticked, or cannot be read. *)
Tick ==
  /\ stage = "open" /\ ticking /\ ~ended /\ ~eventsOff /\ refused' = FALSE
  /\ \/ CheckFinished(pressed, ticking, broken) /\ UNCHANGED eventsOff
     \/ CheckFinished(pressed, ticking, TRUE) /\ eventsOff' = TRUE
  /\ UNCHANGED <<stage, shown, turning, attrs, menu, label, clicks, closeClicked>>

Keys == KeyOnSelect \/ \E b \in Buttons : KeyOnButton(b)

SetValue ==
  \/ \E b \in Buttons, v \in BOOLEAN : SetButton(b, v)
  \/ \E s \in Spinners, v \in BOOLEAN : SetSpinner(s, v)
  \/ \E o \in 0..MaxOptions + 1 : SetSelect(o)
  \/ \E width \in 0..Room + 1 : SetLabel(width)

Partial == UNION {[A -> BOOLEAN] : A \in SUBSET Attrs}
Updates ==
  \/ \E n \in Buttons \cup {Select}, values \in Partial :
       DOMAIN values # {} /\ Update(n, values, None, TRUE)
  \/ \E values \in Partial, options \in Given, ok \in BOOLEAN :
       Update(Select, values, options, ok)

Next == Create \/ Delete \/ Keys \/ SetValue \/ Updates \/ Refuse \/ Visibility \/ Tick

Spec == Init /\ [][Next]_vars

-----------------------------------------------------------------------------
(* The timer runs exactly while the dialog is visible, is not over and has *)
(* a spinner turning, whatever failed on the way, but for the failure that *)
(* ends the dialog (Documentation/compose.md on spinners).                 *)
TimerFollowsSpinners ==
  stage = "open" /\ ~broken => (ticking <=> Wanted(turning, ended, shown))

(* Each click of a button that does not close is reported once and does    *)
(* not end the dialog; what ends it is a button that closes, or a timer    *)
(* that failed, and then nobody waits for events that never come.          *)
ClicksReported ==
  /\ ended <=> closeClicked \/ broken
  /\ eventsOff => ended
  /\ ~ended => \A b \in Buttons \ Closing : ~pressed[b] /\ reported[b] = clicks[b]

(* A request that is refused has changed nothing: not the spinner whose    *)
(* timer could not be started, not the attributes given with options that  *)
(* do not fit.                                                             *)
LeavesAll == refused' => UNCHANGED <<shown, timer, nodes, reported>>
RefusalChangesNothing == [][LeavesAll]_vars
=============================================================================
