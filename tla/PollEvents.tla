---------------------------- MODULE PollEvents ----------------------------
(***************************************************************************)
(* The main loop (plainmouthd.c, main) and the descriptors the plugins     *)
(* hand it (src/src/daemon_event.c).  One iteration collects descriptors   *)
(* of all dialogs with the dialog each belongs to, polls, dispatches what  *)
(* was seen, asks every dialog about its child, follows the size of the    *)
(* terminal, redraws, and only then handles keys and requests, which make  *)
(* and delete dialogs.                                                     *)
(***************************************************************************)
EXTENDS Integers, Sequences, FiniteSetsExt, SeqFilter

CONSTANTS
  Slots,   \* addresses a struct instance can have
  MaxMade  \* bound: dialogs made

VARIABLES
  list,                             \* instances: addresses, in order
  gen,                              \* dialogs made at an address so far
  finished, disabled, redraw,       \* instance: finished, events_disabled, redraw_pending
  ready, exits,                     \* a descriptor of it is ready; its child has exited
  childSignal, wake,                \* signalfds; a key, connection or task waits
  phase, turn, owners, base         \* the iteration: its step, the dialog asked, what is left
                                    \* of the snapshot, revents of the loop's own descriptors

dialogs == <<finished, disabled, redraw>>
sources == <<ready, exits>>
sigs    == <<childSignal, wake>>
vars    == <<list, gen, dialogs, sources, sigs, phase, turn, owners, base>>

ConstAssumption == MaxMade \in Nat

Live(s) == \E k \in 1..Len(list) : list[k] = s

Init ==
  /\ list = <<>> /\ gen = [s \in Slots |-> 0]
  /\ finished = [s \in Slots |-> FALSE] /\ disabled = [s \in Slots |-> FALSE]
  /\ redraw = [s \in Slots |-> FALSE]
  /\ ready = [s \in Slots |-> FALSE] /\ exits = [s \in Slots |-> FALSE]
  /\ childSignal = FALSE /\ wake = FALSE
  /\ phase = "collect" /\ turn = 1 /\ owners = <<>> /\ base = {}

-----------------------------------------------------------------------------
(* What comes from outside, at any time. *)
DescriptorReady(s) ==
  /\ Live(s) /\ ~ready[s] /\ ready' = [ready EXCEPT ![s] = TRUE]
  /\ UNCHANGED <<list, gen, dialogs, exits, sigs, phase, turn, owners, base>>

ChildExits(s) ==
  /\ Live(s) /\ ~exits[s] /\ exits' = [exits EXCEPT ![s] = TRUE] /\ childSignal' = TRUE
  /\ UNCHANGED <<list, gen, dialogs, ready, wake, phase, turn, owners, base>>

WorkArrives ==
  /\ ~wake /\ wake' = TRUE
  /\ UNCHANGED <<list, gen, dialogs, sources, childSignal, phase, turn, owners, base>>

-----------------------------------------------------------------------------
AfterWorkFirst ==  \* faulty: requests are handled before what was polled is dispatched
  [collect |-> "poll", poll |-> "work", work |-> "dispatch", dispatch |-> "children",
   children |-> "redraw", redraw |-> "collect"]
After ==
  [collect |-> "poll", poll |-> "dispatch", dispatch |-> "children",
   children |-> "redraw", redraw |-> "work", work |-> "collect"]

Advance == phase' = After[phase] /\ turn' = 1

(* daemon_events_collect: not of dialogs that are over or have failed. *)
Collects(s) == ~finished[s] /\ ~disabled[s]
Collect ==
  /\ phase = "collect" /\ Advance
  /\ owners' = LET own == Filter(list, {s \in Slots : Collects(s)}) IN
       [k \in 1..Len(own) |-> [slot |-> own[k], gen |-> gen[own[k]], revents |-> FALSE]]
  /\ base' = {}
  /\ UNCHANGED <<list, gen, dialogs, sources, sigs>>

(* No memory for the snapshot, or poll fails: the loop is left. *)
Stops ==
  /\ phase \in {"collect", "poll"} /\ phase' = "stopped"
  /\ UNCHANGED <<list, gen, dialogs, sources, sigs, turn, owners, base>>

Seen(size) ==
  /\ owners' = [k \in 1..Len(owners) |->
                 [owners[k] EXCEPT !.revents = ready[owners[k].slot]]]
  /\ base' = size \cup {e \in {"child", "work"} :
                          \/ e = "child" /\ childSignal
                          \/ e = "work" /\ wake}
Nothing == base' = {} /\ \A k \in 1..Len(owners) : ~owners'[k].revents

Poll ==
  /\ phase = "poll" /\ Seen({}) /\ ~Nothing /\ Advance
  /\ UNCHANGED <<list, gen, dialogs, sources, sigs>>

(* The terminal may have changed its size at any time.                     *)
PollSized ==
  /\ phase = "poll" /\ Seen({"size"}) /\ Advance
  /\ UNCHANGED <<list, gen, dialogs, sources, sigs>>

(* A timeout, or EINTR, and only if nothing was ready. *)
PollElapses ==
  /\ phase = "poll" /\ Seen({}) /\ Nothing
  /\ phase' = "collect" /\ turn' = 1
  /\ UNCHANGED <<list, gen, dialogs, sources, sigs>>

(* plugin_event_result: a handler that fails is not called again, and any  *)
(* outcome may be the end of the dialog.                                   *)
EventResult(s, result) ==
  /\ disabled' = [disabled EXCEPT ![s] = @ \/ result = "error"]
  /\ redraw' = [redraw EXCEPT ![s] = @ \/ result = "redraw"]
  /\ \E over \in BOOLEAN : finished' = [finished EXCEPT ![s] = @ \/ over]

Skipped(o) == ~o.revents \/ finished[o.slot] \/ disabled[o.slot]

DispatchedOne ==  \* faulty: a handled event ends the round
  owners' = <<>>
Dispatched == owners' = Tail(owners)

DispatchSkips ==
  /\ phase = "dispatch" /\ owners # <<>> /\ Skipped(Head(owners))
  /\ owners' = Tail(owners)
  /\ UNCHANGED <<list, gen, dialogs, sources, sigs, phase, turn, base>>

HandleEvent ==
  /\ phase = "dispatch" /\ owners # <<>> /\ ~Skipped(Head(owners))
  /\ LET s == Head(owners).slot IN
       \E result \in {"idle", "redraw", "error"} :
         /\ EventResult(s, result)
         /\ ready' = [ready EXCEPT ![s] = @ /\ result = "error"]
  /\ Dispatched
  /\ UNCHANGED <<list, gen, exits, sigs, phase, turn, base>>

(* handle_children empties the signalfd, which may hold one notice for     *)
(* several children, and asks every dialog.                                *)
ReadChildren ==
  /\ phase = "children" /\ "child" \in base
  /\ childSignal' = FALSE /\ base' = (base \ {"child"}) \cup {"asking"}
  /\ UNCHANGED <<list, gen, dialogs, sources, wake, phase, turn, owners>>

AskedUntilExit(s) ==  \* faulty: the first child that is found ends the search
  turn' = IF exits[s] THEN Len(list) + 1 ELSE turn + 1
Asked(s) == turn' = turn + 1

AskChild ==
  /\ phase = "children" /\ "asking" \in base /\ turn <= Len(list)
  /\ LET s == list[turn] IN
       /\ \/ /\ ~finished[s] /\ ~disabled[s]
             /\ \E result \in {"idle", "redraw", "error"} :
                  /\ EventResult(s, result)
                  /\ exits' = [exits EXCEPT ![s] = @ /\ result = "error"]
          \/ (finished[s] \/ disabled[s]) /\ UNCHANGED <<dialogs, exits>>
       /\ Asked(s)
  /\ UNCHANGED <<list, gen, ready, sigs, phase, owners, base>>

(* daemon_instances_resize.  A dialog that is hidden or shown again may    *)
(* fail in that (instance_set_visible): it gets no more events, and the    *)
(* failure may be its end.                                                 *)
Resized ==
  \E failing \in SUBSET {s \in Slots : Live(s)} : \E over \in SUBSET failing :
    /\ disabled' = [s \in Slots |-> disabled[s] \/ s \in failing]
    /\ finished' = [s \in Slots |-> finished[s] \/ s \in over]

HandleResize ==
  IF "size" \in base THEN Resized ELSE UNCHANGED <<finished, disabled>>

(* A change of the size is followed, then what is to be drawn is drawn;    *)
(* one thread does both, and nothing reads the state in between.           *)
Redraw ==
  /\ phase = "redraw" /\ Advance
  /\ HandleResize
  /\ base' = base \ {"size"}
  /\ redraw' = [s \in Slots |-> FALSE]
  /\ UNCHANGED <<list, gen, sources, sigs, owners>>

(* handle_input and handle_tasks: one key, and the tasks queued by then.  *)
Take ==
  /\ phase = "work" /\ "work" \in base
  /\ wake' = FALSE /\ base' = (base \ {"work"}) \cup {"working"}
  /\ UNCHANGED <<list, gen, dialogs, sources, childSignal, phase, turn, owners>>

Working == phase = "work" /\ "working" \in base

Make(s) ==
  /\ Working /\ ~Live(s) /\ MapThenSumSet(LAMBDA t : gen[t], Slots) < MaxMade
  /\ list' = Append(list, s) /\ gen' = [gen EXCEPT ![s] = @ + 1]
  /\ UNCHANGED <<dialogs, sources, sigs, phase, turn, owners, base>>

Delete(s) ==
  /\ Working /\ Live(s)
  /\ list' = Filter(list, Slots \ {s})
  /\ ready' = [ready EXCEPT ![s] = FALSE] /\ exits' = [exits EXCEPT ![s] = FALSE]
  /\ finished' = [finished EXCEPT ![s] = FALSE] /\ disabled' = [disabled EXCEPT ![s] = FALSE]
  /\ redraw' = [redraw EXCEPT ![s] = FALSE]
  /\ UNCHANGED <<gen, sigs, phase, turn, owners, base>>

Finish(s) ==
  /\ Working /\ Live(s) /\ ~finished[s]
  /\ finished' = [finished EXCEPT ![s] = TRUE]
  /\ UNCHANGED <<list, gen, disabled, redraw, sources, sigs, phase, turn, owners, base>>

(* The key curses makes of a new size.                                     *)
ResizeKey ==
  /\ Working /\ Resized
  /\ UNCHANGED <<list, gen, redraw, sources, sigs, phase, turn, owners, base>>

(* The step of the loop is over. *)
StepDone ==
  /\ \/ phase = "dispatch" /\ owners = <<>>
     \/ phase = "children" /\ "child" \notin base /\ ("asking" \in base => turn > Len(list))
     \/ phase = "work" /\ "work" \notin base
  /\ Advance
  /\ UNCHANGED <<list, gen, dialogs, sources, sigs, owners>>
  /\ base' = base \ {"asking"}

LoopRun ==
  \/ Collect \/ Poll \/ DispatchSkips \/ HandleEvent \/ ReadChildren \/ AskChild
  \/ Redraw \/ Take \/ StepDone

Requests == ResizeKey \/ \E s \in Slots : Make(s) \/ Delete(s) \/ Finish(s)

Outside ==
  /\ phase # "stopped"
  /\ WorkArrives \/ \E s \in Slots : DescriptorReady(s) \/ ChildExits(s)

Next == LoopRun \/ PollSized \/ PollElapses \/ Stops \/ Requests \/ Outside

(* The loop runs on: it is one thread, and no handler blocks. *)
Spec == Init /\ [][Next]_vars /\ WF_vars(LoopRun)

-----------------------------------------------------------------------------
(* The snapshot names dialogs by address: every dialog it still has to be  *)
(* dispatched to is there, and is the one it was taken of (main's comment, *)
(* "Dispatch the snapshot before input/tasks can delete its owners").      *)
OwnersAlive ==
  phase = "dispatch" =>
    \A k \in 1..Len(owners) :
      Live(owners[k].slot) /\ gen[owners[k].slot] = owners[k].gen

(* A ready descriptor is handled, an exited child noticed and a change     *)
(* drawn, whatever the other dialogs do, unless the dialog is over or its  *)
(* handler has failed.                                                     *)
Off(s) == finished[s] \/ disabled[s] \/ ~Live(s) \/ phase = "stopped"
Served(s) ==
  /\ ready[s] ~> (~ready[s] \/ Off(s))
  /\ exits[s] ~> (~exits[s] \/ Off(s))
  /\ redraw[s] ~> (~redraw[s] \/ ~Live(s) \/ phase = "stopped")
EventsServed == \A s \in Slots : Served(s)
=============================================================================
