----------------------------- MODULE FocusRing -----------------------------
(***************************************************************************)
(* Keyboard focus over all dialogs: the list "focusable" and the pointer   *)
(* "focused" of src/src/daemon_instance.c, the highlight of the focused    *)
(* widget, and the stack of panels it must be on top of.  Everything runs  *)
(* on the UI thread, one handler at a time; what is hard is the sequences  *)
(* of client requests, resizes and keys, each of which moves only some of  *)
(* the five.                                                               *)
(***************************************************************************)
EXTENDS Integers, Sequences, FiniteSets, SeqFilter
LOCAL INSTANCE SequencesExt

CONSTANTS
  Ids,          \* names of dialogs
  Nodes, Root,  \* the widgets of a dialog, and its root window
  Children,     \* Children[n]: the widgets inside n, in order
  CanFocus,     \* CanFocus[id]: the nodes of that dialog with ATTR_CAN_FOCUS
  Large,        \* the dialogs a small terminal has no room for
  MaxEvents,    \* bound: requests, resizes and Shift-Tabs in one run
  None

ASSUME TreeAssumption ==
  /\ Root \in Nodes /\ Children \in [Nodes -> Seq(Nodes)]
  /\ CanFocus \in [Ids -> SUBSET Nodes] /\ Large \subseteq Ids
  /\ MaxEvents \in Nat /\ None \notin Ids \X Nodes

VARIABLES
  instances,  \* the list of dialogs, oldest first
  ring,       \* the list "focusable"
  focused,
  inFocus,    \* widgets with FLAG_INFOCUS
  blocked,    \* widgets disabled or read-only by themselves
  visible,    \* dialogs whose root has FLAG_VISIBLE
  panels,     \* the panels not hidden, bottom to top
  events

vars == <<instances, ring, focused, inFocus, blocked, visible, panels, events>>

Widgets    == Ids \X Nodes
Elements(s) == {s[i] : i \in DOMAIN s}
Alive      == Elements(instances)
Parts(id)  == {id} \X Nodes

(* A widget before its children, these in their order. *)
Preorder[n \in Nodes] ==
  <<n>> \o FlattenSeq([i \in DOMAIN Children[n] |-> Preorder[Children[n][i]]])

(* A widget is inside one other only, so the walk comes by it once.        *)
ASSUME PreorderAssumption ==
  LET walk == Preorder[Root]
  IN  walk \in Seq(Nodes) /\ \A i, j \in DOMAIN walk : walk[i] = walk[j] => i = j

(* Above[n]: the parents of n up to the root, and n itself. *)
Above == [n \in Nodes |-> {m \in Nodes : n \in Elements(Preorder[m])}]

(* use_instance_widgets inserts at the head, last child first. *)
Focusable(id) ==
  LET nodes == Filter(Preorder[Root], CanFocus[id])
  IN  [i \in DOMAIN nodes |-> <<id, nodes[i]>>]

(* widget_is_interactive: no part of the tree above the widget is blocked. *)
Interactive(w, off) == \A n \in Above[w[2]] : <<w[1], n>> \notin off

Raise(stack, id) == Append(Filter(stack, Ids \ {id}), id)

Init ==
  /\ instances = <<>> /\ ring = <<>>
  /\ focused = None /\ inFocus = {}
  /\ blocked = {} /\ visible = {} /\ panels = <<>>
  /\ events = 0

Event == events < MaxEvents /\ events' = events + 1

(***************************************************************************)
(* Moving the focus.                                                       *)
(***************************************************************************)
IndexOf(r, w) == CHOOSE i \in DOMAIN r : r[i] = w

(* The places find_focus tries from w on, in its order: each of the ring   *)
(* once, w itself last; from nowhere it begins at the end it comes from.   *)
Steps(r, w, reverse) ==
  LET n == Len(r)
  IN  IF reverse
      THEN LET i == IF w = None THEN 1 ELSE IndexOf(r, w)
           IN  [k \in 1..n |-> r[((i - 1 - k) % n) + 1]]
      ELSE LET i == IF w = None THEN 0 ELSE IndexOf(r, w)
           IN  [k \in 1..n |-> r[((i - 1 + k) % n) + 1]]

(* Faulty variants are named after the slip they contain; a mutation run   *)
(* puts one in the place of the definition it precedes.                    *)
FindWithoutWrap(r, w, reverse, off) ==
  LET i == IF w = None THEN 0 ELSE IndexOf(r, w)
      found == {k \in DOMAIN r : (IF reverse THEN k < i ELSE k > i) /\ Interactive(r[k], off)}
  IN  IF found = {} THEN None
      ELSE r[CHOOSE k \in found : \A j \in found : IF reverse THEN k >= j ELSE k <= j]
FindFromStart(r, w, reverse, off) ==
  LET found == {k \in DOMAIN r : r[k] # w /\ Interactive(r[k], off)}
  IN  IF found # {} THEN r[CHOOSE k \in found : \A j \in found : k <= j]
      ELSE IF w # None /\ Interactive(w, off) THEN w ELSE None

(* find_focus: the first interactive one, or none at all. *)
FindFocus(r, w, reverse, off) ==
  LET tried == Steps(r, w, reverse)
      found == {k \in DOMAIN tried : Interactive(tried[k], off)}
  IN  IF found = {} THEN None ELSE tried[CHOOSE k \in found : \A j \in found : k <= j]

FocusWithoutUnmark(w, stack) ==
  /\ focused' = w
  /\ inFocus' = inFocus \union ({w} \ {None})
  /\ panels'  = IF w = None THEN stack ELSE Raise(stack, w[1])

(* ui_focused(false), the assignment, ui_focused(true): the mark goes from *)
(* one widget to the other, and the panel of the new one to the top.       *)
(* ncurses implements top_panel as show_panel, also for a hidden panel.    *)
FocusOn(w, stack) ==
  /\ focused' = w
  /\ inFocus' = (inFocus \ {focused}) \union ({w} \ {None})
  /\ panels'  = IF w = None THEN stack ELSE Raise(stack, w[1])

(***************************************************************************)
(* Requests of clients.                                                    *)
(***************************************************************************)
CreateBelow(id) ==
  /\ Event /\ id \notin Alive
  /\ instances' = Append(instances, id)
  /\ ring' = Focusable(id) \o ring
  /\ \E off \in SUBSET Parts(id) : blocked' = blocked \union off
  /\ visible' = visible \union {id}
  /\ IF focused # None THEN panels' = Append(panels, id) /\ UNCHANGED <<focused, inFocus>>
     ELSE FocusOn(FindFocus(ring', None, FALSE, blocked'), Append(panels, id))

CreateStealing(id) ==
  /\ Event /\ id \notin Alive
  /\ instances' = Append(instances, id)
  /\ ring' = Focusable(id) \o ring
  /\ \E off \in SUBSET Parts(id) : blocked' = blocked \union off
  /\ visible' = visible \union {id}
  /\ FocusOn(FindFocus(ring', None, FALSE, blocked'), Append(panels, id))

(* daemon_instance_create: a new dialog takes the focus only when nobody   *)
(* has it; otherwise the panel of whoever has it is raised again.          *)
Create(id) ==
  /\ Event /\ id \notin Alive
  /\ instances' = Append(instances, id)
  /\ ring' = Focusable(id) \o ring
  /\ \E off \in SUBSET Parts(id) : blocked' = blocked \union off
  /\ visible' = visible \union {id}
  /\ FocusOn(IF focused # None THEN focused ELSE FindFocus(ring', None, FALSE, blocked'),
             Append(panels, id))

DeleteKeepingRing(id) ==
  /\ Event /\ id \in Alive
  /\ instances' = Filter(instances, Ids \ {id})
  /\ focused' = IF focused \in Parts(id) THEN None ELSE focused
  /\ inFocus' = inFocus \ Parts(id)
  /\ blocked' = blocked \ Parts(id)
  /\ visible' = visible \ {id}
  /\ panels'  = Filter(panels, Ids \ {id})
  /\ UNCHANGED ring

(* release_instance: its focus is cleared and goes to nobody else. *)
Delete(id) ==
  /\ Event /\ id \in Alive
  /\ instances' = Filter(instances, Ids \ {id})
  /\ ring'    = Filter(ring, Widgets \ Parts(id))
  /\ focused' = IF focused \in Parts(id) THEN None ELSE focused
  /\ inFocus' = inFocus \ Parts(id)
  /\ blocked' = blocked \ Parts(id)
  /\ visible' = visible \ {id}
  /\ panels'  = Filter(panels, Ids \ {id})

(* daemon_focus_validate *)
ValidateBeforeBlock(off) ==
  IF focused = None \/ ~Interactive(focused, blocked)
  THEN FocusOn(FindFocus(ring, focused, FALSE, off), panels)
  ELSE UNCHANGED <<focused, inFocus, panels>>

(* daemon_focus_validate, once the widgets in "off" are the blocked ones. *)
Validate(off) ==
  IF focused = None \/ ~Interactive(focused, off)
  THEN FocusOn(FindFocus(ring, focused, FALSE, off), panels)
  ELSE UNCHANGED <<focused, inFocus, panels>>

(* ui_process_task_update: "disabled" or "readonly" of one node changes, or *)
(* neither.                                                                *)
Update(id) ==
  /\ Event /\ id \in Alive
  /\ \E w \in Parts(id) : blocked' \in {blocked, blocked \union {w}, blocked \ {w}}
  /\ Validate(blocked')
  /\ UNCHANGED <<instances, ring, visible>>

(* daemon_instance_focus: the first interactive widget of the dialog, or   *)
(* the requested one provided it can be seen.                              *)
Request(id, target) ==
  /\ Event /\ id \in Alive
  /\ LET found == {k \in DOMAIN ring :
                     /\ ring[k][1] = id /\ Interactive(ring[k], blocked)
                     /\ target # None => ring[k][2] = target /\ id \in visible}
     IN  IF found = {} THEN UNCHANGED <<focused, inFocus, panels>>
         ELSE FocusOn(ring[CHOOSE k \in found : \A j \in found : k <= j], panels)
  /\ UNCHANGED <<instances, ring, blocked, visible>>

(***************************************************************************)
(* The terminal and the keyboard.                                          *)
(***************************************************************************)
(* daemon_instances_resize: too large a dialog is hidden, any other gets a *)
(* new window, unless that fails, and is shown again if it was hidden; the *)
(* focused one goes to the top.                                            *)
Resize(hidden) ==
  /\ Event
  /\ \E failed \in SUBSET (Alive \ hidden) :
       LET restored == Alive \ (hidden \union failed)
           stack == Filter(panels, Ids \ hidden) \o Filter(instances, restored \ Elements(panels))
       IN  /\ visible' = (visible \ hidden) \union restored
           /\ panels' = IF focused # None /\ focused[1] \in visible'
                        THEN Raise(stack, focused[1]) ELSE stack
  /\ UNCHANGED <<instances, ring, focused, inFocus, blocked>>

FocusHidden == focused # None /\ focused[1] \notin visible

(* Tab and Shift-Tab outside a paste: keys for a hidden dialog are dropped *)
(* before they are looked at.                                              *)
Tab(reverse) ==
  /\ IF FocusHidden THEN UNCHANGED <<focused, inFocus, panels>>
     ELSE FocusOn(FindFocus(ring, focused, reverse, blocked), panels)
  /\ UNCHANGED <<instances, ring, blocked, visible>>

TabNext == Tab(FALSE) /\ UNCHANGED events
TabPrev == Tab(TRUE) /\ Event

Next ==
  \/ \E id \in Ids : \/ Create(id) \/ Delete(id) \/ Update(id)
                     \/ \E target \in Nodes \union {None} : Request(id, target)
  \/ Resize({}) \/ Resize(Large)
  \/ TabNext \/ TabPrev

Spec == Init /\ [][Next]_vars

(* A user who keeps pressing Tab. *)
TabbingSpec == Spec /\ WF_vars(TabNext)

-----------------------------------------------------------------------------
(***************************************************************************)
(* Properties.                                                             *)
(***************************************************************************)
(* Types.  Every pointer in the ring is to a widget of a living dialog,    *)
(* and to each there is one.                                               *)
TypeOK ==
  /\ instances \in Seq(Ids) /\ ring \in Seq(Alive \X Nodes)
  /\ \A i, j \in DOMAIN ring : ring[i] = ring[j] => i = j
  /\ focused \in Elements(ring) \union {None}
  /\ inFocus \subseteq Widgets /\ blocked \subseteq Alive \X Nodes
  /\ visible \subseteq Alive /\ Elements(panels) \subseteq Alive
  /\ events \in 0..MaxEvents

(* Whatever is deleted, blocked by itself or by an ancestor, requested or  *)
(* tabbed to, the ring and the focus are of living dialogs (TypeOK), and   *)
(* the focused widget takes input.  What the user sees as having the focus *)
(* has it: the one widget drawn as focused is the one that gets the keys,  *)
(* and its dialog is not covered by another, whichever was created or      *)
(* restored last, as long as the terminal has room for it.                 *)
FocusInteractive == focused # None => Interactive(focused, blocked)
OneInFocus == inFocus = {focused} \ {None}
OnTop == panels # <<>> /\ panels[Len(panels)] = focused[1]
FocusSound ==
  TypeOK /\ FocusInteractive /\ OneInFocus /\ (focused # None /\ ~FocusHidden => OnTop)

(* The focus is only ever given up with its dialog, or when no widget of   *)
(* any dialog could take it.  And nothing but a Tab or a focus request     *)
(* moves it to another widget while it can stay: a dialog that appears, is *)
(* deleted, hidden or shown, or a part that is blocked or unblocked takes  *)
(* it from nobody else.                                                    *)
GivenUpForCause ==
  focused # None /\ focused' = None =>
    focused[1] \notin Alive' \/ \A w \in Elements(ring') : ~Interactive(w, blocked')
NotStolen ==
  focused # None /\ focused' # focused /\ ~UNCHANGED <<instances, ring, blocked, visible>> =>
    focused[1] \notin Alive' \/ ~Interactive(focused, blocked')
FocusKept == [][GivenUpForCause /\ NotStolen]_vars

(* A user who keeps pressing Tab comes by every widget that takes input,   *)
(* but for one thing: keys typed into a dialog hidden by a small terminal  *)
(* are dropped, Tab included, so there the focus stays.                    *)
TabReachesAll ==
  \A w \in Widgets :
    []<>(focused = w \/ w \notin Elements(ring) \/ ~Interactive(w, blocked) \/ FocusHidden)

(* A dialog hidden for want of room is hidden as a panel too               *)
(* (daemon_resize_test.c asserts both together).                           *)
HiddenStaysHidden == Elements(panels) = visible
=============================================================================
