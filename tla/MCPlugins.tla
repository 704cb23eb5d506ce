----------------------------- MODULE MCPlugins -----------------------------
(***************************************************************************)
(* The plugins' side of the daemon, one part at a time: which says whether *)
(* a behaviour is one of the main loop's iterations (PollEvents), of a     *)
(* terminal dialog (Termbox), of a composed dialog (Compose) or of the     *)
(* building of one (ComposeTree).  They share no state; the parts a        *)
(* behaviour is not of stay as they began.                                 *)
(***************************************************************************)
EXTENDS ComposeTree

CONSTANTS Slots, MaxMade
CONSTANTS Limit, ReadLimit, PtyRoom, Rounds, MaxInput, MaxOutput
CONSTANTS Buttons, Closing, Spinners, Attrs, MaxOptions, Room, MaxClicks

VARIABLES which
VARIABLES
  list, gen, finished, disabled, redraw, ready, exits, childSignal, wake,
  phase, turn, owners, base
VARIABLES
  life, loop, revents, childPending, exited, failed, outputClosed, inputClosed,
  clicked, queue, wantOut, inputs, owed, inOrder, out, outputs, unread, proc,
  signals, holder, sigchld, cleanup, waited, stray
VARIABLES
  stage, shown, ticking, ended, broken, eventsOff, turning, pressed, attrs,
  menu, label, reported, clicks, closeClicked, refused

P == INSTANCE PollEvents
T == INSTANCE Termbox
C == INSTANCE Compose

MCToken(type, name) == [type |-> type, name |-> name]
MCTokens ==
  {MCToken("vbox", ""), MCToken("framed", "a"), MCToken("scroll", ""), MCToken("button", ""),
   MCToken("button", "a"), MCToken("bad", ""), MCToken("end", "")}

(* What Filter is: the prover knows nothing of SelectSeq.                  *)
ASSUME FilterIsSelectSeq ==
  \A n \in 0..3 : \A s \in [1..n -> Slots], K \in SUBSET Slots :
    P!Filter(s, K) = SelectSeq(s, LAMBDA x : x \in K)

ASSUME PluginsAssumption ==
  ConstAssumption /\ P!ConstAssumption /\ T!ConstAssumption /\ C!ConstAssumption

loopVars ==
  <<list, gen, finished, disabled, redraw, ready, exits, childSignal, wake,
    phase, turn, owners, base>>
termVars ==
  <<life, loop, revents, childPending, exited, failed, outputClosed, inputClosed,
    clicked, queue, wantOut, inputs, owed, inOrder, out, outputs, unread, proc,
    signals, holder, sigchld, cleanup, waited, stray>>
composeVars ==
  <<stage, shown, ticking, ended, broken, eventsOff, turning, pressed, attrs,
    menu, label, reported, clicks, closeClicked, refused>>
allvars == <<which, vars, loopVars, termVars, composeVars>>

AllInit ==
  /\ which \in {"tree", "loop", "term", "compose"}
  /\ Init /\ P!Init /\ T!Init /\ C!Init
  /\ which # "compose" => turning = [s \in Spinners |-> FALSE]

TreeStep(A)    == which = "tree" /\ A /\ UNCHANGED <<which, loopVars, termVars, composeVars>>
LoopStep(A)    == which = "loop" /\ A /\ UNCHANGED <<which, vars, termVars, composeVars>>
TermStep(A)    == which = "term" /\ A /\ UNCHANGED <<which, vars, loopVars, composeVars>>
ComposeStep(A) == which = "compose" /\ A /\ UNCHANGED <<which, vars, loopVars, termVars>>

AllNext ==
  TreeStep(Next) \/ LoopStep(P!Next) \/ TermStep(T!Next) \/ ComposeStep(C!Next)

(* Of each part the fairness its own specification states.                 *)
AllSpec ==
  /\ AllInit /\ [][AllNext]_allvars
  /\ WF_allvars(LoopStep(P!LoopRun))
  /\ WF_allvars(TermStep(T!LoopRun)) /\ WF_allvars(TermStep(T!Cleanup))
  /\ WF_allvars(TermStep(T!Killed))

(* The dialogs a poll snapshot names are there: module PollEvents.         *)
OwnersAlive == P!OwnersAlive

(* No dialog's events are lost or starved: module PollEvents.  Nothing     *)
(* tells one address from another, so that what holds of one holds of all. *)
EventsServed == LET s == CHOOSE s \in Slots : TRUE IN P!Served(s)

(* A terminal's input arrives as it was accepted: module Termbox.          *)
InputInOrder == T!InputInOrder

(* No signal reaches a stranger: module Termbox.                           *)
NoStraySignal == T!NoStraySignal

(* A command's output and exit are noticed, and it is reaped: Termbox.     *)
CommandFollowed == T!CommandFollowed

(* The timer runs while a spinner can be seen turning: module Compose.     *)
TimerFollowsSpinners == C!TimerFollowsSpinners

(* Every click is reported or ends the dialog: module Compose.             *)
ClicksReported == C!ClicksReported

(* A refused request has changed nothing: module Compose.                  *)
RefusalChangesNothing == [][C!LeavesAll]_allvars
=============================================================================
