----------------------------- MODULE Instances -----------------------------
(***************************************************************************)
(* Dialog instances as the waiting clients see them:                       *)
(* src/src/daemon_instance.c.  The UI thread creates, deletes and feeds    *)
(* instances; a worker serving wait-result or wait-event looks its         *)
(* instance up by name under instances_mutex, takes an event, gives up, or *)
(* sleeps on the one condition variable all waiters share.  Every action   *)
(* below is one critical section of that mutex, or UI work between two.    *)
(***************************************************************************)
EXTENDS Naturals, Sequences, SeqFilter

CONSTANTS
  Ids, Nodes,      \* names of dialogs, and of widgets in a dialog
  Plugins,
  EventPlugins,    \* those with p_take_button_event or p_change_token
  AlwaysFinished,  \* those without p_finished
  Workers,
  MaxEvents,       \* INSTANCE_MAX_EVENTS
  MaxGenerations,  \* bound: instances created in one run of the daemon
  MaxInputs,       \* bound: user inputs in one run of the daemon
  None

ASSUME ConstAssumption ==
  /\ EventPlugins \subseteq Plugins /\ AlwaysFinished \subseteq Plugins
  /\ MaxEvents \in Nat \ {0}
  /\ MaxGenerations \in Nat /\ MaxInputs \in Nat

VARIABLES
  inst,           \* inst[id]: the instance of that name, or None
  nextGeneration,
  agenda, target, \* what the UI thread has still to do, to which instance
  inputs,
  waiter,         \* waiter[w]: the wait w is serving
  reply,          \* how the last wait that ended did
  stopping,
  raw             \* history: raw[id], all events queued since the last one consumed

vars == <<inst, nextGeneration, agenda, target, inputs, waiter, reply, stopping, raw>>

Events == [kind : {"change", "button"}, node : Nodes]
Finish == [kind |-> "finish", node |-> None]

(* struct instance, as far as waits see it. *)
Instance == [plugin : Plugins, gen : 1..MaxGenerations, finished : BOOLEAN,
             pending : Seq(Events), count : 0..MaxEvents, free : 0..MaxEvents,
             overflow : BOOLEAN]

ASSUME NoneAssumption == None \notin Ids \union Instance

NoWait == [pc |-> "idle", kind |-> None, id |-> None, gen |-> 0]

(* pthread_cond_broadcast(&instance_cond) over a table of waiters. *)
Woken(table) ==
  [w \in Workers |-> IF table[w].pc = "asleep" THEN [table[w] EXCEPT !.pc = "awake"]
                     ELSE table[w]]

Init ==
  /\ inst = [id \in Ids |-> None]
  /\ nextGeneration = 0 /\ inputs = 0
  /\ agenda = <<>> /\ target = None
  /\ waiter = [w \in Workers |-> NoWait]
  /\ reply = None
  /\ stopping = FALSE
  /\ raw = [id \in Ids |-> <<>>]

UiIdle == agenda = <<>> /\ ~stopping

(***************************************************************************)
(* The UI thread.                                                          *)
(***************************************************************************)
(* A name in use is refused; an unknown plugin or style, or no memory,     *)
(* leaves nothing behind.                                                  *)
Create(id, p) ==
  /\ UiIdle /\ inst[id] = None /\ nextGeneration < MaxGenerations
  /\ nextGeneration' = nextGeneration + 1
  /\ inst' = [inst EXCEPT ![id] =
       [plugin |-> p, gen |-> nextGeneration + 1, finished |-> p \in AlwaysFinished,
        pending |-> <<>>, count |-> 0, free |-> MaxEvents, overflow |-> FALSE]]
  /\ raw' = [raw EXCEPT ![id] = <<>>]
  /\ UNCHANGED <<agenda, target, inputs, waiter, reply, stopping>>

(* Faulty variants are named after the slip they contain; a mutation run   *)
(* puts one in the place of the definition it precedes.                    *)
DeleteSilently(id) ==
  /\ UiIdle /\ inst[id] # None
  /\ inst' = [inst EXCEPT ![id] = None]
  /\ UNCHANGED <<nextGeneration, agenda, target, inputs, waiter, reply, stopping, raw>>

Delete(id) ==
  /\ UiIdle /\ inst[id] # None
  /\ inst' = [inst EXCEPT ![id] = None]
  /\ waiter' = Woken(waiter)
  /\ UNCHANGED <<nextGeneration, agenda, target, inputs, reply, stopping, raw>>

FinishBeforeEvent(id) ==
  /\ UiIdle /\ inst[id] # None /\ ~inst[id].finished /\ inputs < MaxInputs
  /\ \/ agenda' = <<Finish>>
     \/ /\ inst[id].plugin \in EventPlugins
        /\ \E e \in Events : agenda' \in {<<e>>, <<Finish, e>>}
  /\ target' = id
  /\ inputs' = inputs + 1
  /\ UNCHANGED <<inst, nextGeneration, waiter, reply, stopping, raw>>

(* An input, a set-value or a plugin event reaches a dialog not finished    *)
(* yet: the change or the button click it caused is queued, then the dialog *)
(* is marked as finished when the plugin says so.  One that causes several  *)
(* events is as many inputs with nothing in between.  A finished dialog     *)
(* queues nothing and stays finished.                                       *)
Input(id) ==
  /\ UiIdle /\ inst[id] # None /\ ~inst[id].finished /\ inputs < MaxInputs
  /\ \/ agenda' = <<Finish>>
     \/ /\ inst[id].plugin \in EventPlugins
        /\ \E e \in Events : agenda' \in {<<e>>, <<e, Finish>>}
  /\ target' = id
  /\ inputs' = inputs + 1
  /\ UNCHANGED <<inst, nextGeneration, waiter, reply, stopping, raw>>

CoalescibleAcrossButtons(q, e) ==
  IF \E i \in DOMAIN q : q[i] = e THEN CHOOSE i \in DOMAIN q : q[i] = e ELSE 0

(* The pending change of that node after the last button, or 0. *)
Coalescible(q, e) ==
  IF \E i \in DOMAIN q : q[i] = e /\ \A j \in i..Len(q) : q[j].kind = "change"
  THEN CHOOSE i \in DOMAIN q : q[i] = e /\ \A j \in i..Len(q) : q[j].kind = "change"
  ELSE 0

Without(q, i) == SubSeq(q, 1, i - 1) \o SubSeq(q, i + 1, Len(q))

QueuedUnchecked(x, e) ==
  LET i == IF e.kind = "change" THEN Coalescible(x.pending, e) ELSE 0 IN
  IF i # 0 THEN [x EXCEPT !.pending = Append(Without(@, i), e)]
  ELSE [x EXCEPT !.pending = Append(@, e), !.free = @ - 1, !.count = @ + 1]
QueuedCountedTwice(x, e) ==
  LET i == IF e.kind = "change" THEN Coalescible(x.pending, e) ELSE 0 IN
  IF i # 0 THEN [x EXCEPT !.pending = Append(Without(@, i), e), !.count = @ + 1]
  ELSE IF x.free > 0
  THEN [x EXCEPT !.pending = Append(@, e), !.free = @ - 1, !.count = @ + 1]
  ELSE [x EXCEPT !.overflow = TRUE]

(* queue_event on an instance: reuse the entry of a pending change, or take *)
(* one from the pool, or record the overflow.                               *)
Queued(x, e) ==
  LET i == IF e.kind = "change" THEN Coalescible(x.pending, e) ELSE 0 IN
  IF i # 0 THEN [x EXCEPT !.pending = Append(Without(@, i), e)]
  ELSE IF x.free > 0
  THEN [x EXCEPT !.pending = Append(@, e), !.free = @ - 1, !.count = @ + 1]
  ELSE [x EXCEPT !.overflow = TRUE]

QueueEvent ==
  /\ agenda # <<>> /\ Head(agenda) # Finish
  /\ inst' = [inst EXCEPT ![target] = Queued(@, Head(agenda))]
  /\ raw' = [raw EXCEPT ![target] = Append(@, Head(agenda))]
  /\ waiter' = Woken(waiter)
  /\ agenda' = Tail(agenda)
  /\ UNCHANGED <<nextGeneration, target, inputs, reply, stopping>>

SetFinished ==
  /\ agenda # <<>> /\ Head(agenda) = Finish
  /\ inst' = [inst EXCEPT ![target].finished = TRUE]
  /\ waiter' = Woken(waiter)
  /\ agenda' = Tail(agenda)
  /\ UNCHANGED <<nextGeneration, target, inputs, reply, stopping, raw>>

StopSilently ==
  /\ UiIdle
  /\ stopping' = TRUE
  /\ UNCHANGED <<inst, nextGeneration, agenda, target, inputs, waiter, reply, raw>>

(* daemon_instances_stop, at shutdown. *)
Stop ==
  /\ UiIdle
  /\ stopping' = TRUE
  /\ waiter' = Woken(waiter)
  /\ UNCHANGED <<inst, nextGeneration, agenda, target, inputs, reply, raw>>

(***************************************************************************)
(* The workers.  Each pass of a wait loop runs under the mutex, from its   *)
(* acquisition to pthread_cond_wait or to the reply.                       *)
(***************************************************************************)
Sleep(w, wait) ==
  /\ waiter' = [waiter EXCEPT ![w] = [wait EXCEPT !.pc = "asleep"]]
  /\ UNCHANGED <<inst, raw, reply>>

Answer(w, r) == reply' = r /\ waiter' = [waiter EXCEPT ![w] = NoWait]
Error == [how |-> "error"]

(* daemon_instance_wait: one pass of the loop. *)
ResultPass(w, wait) ==
  LET x == inst[wait.id] IN
  \/ /\ stopping \/ x = None
     /\ Answer(w, Error)
     /\ UNCHANGED <<inst, raw>>
  \/ /\ ~stopping /\ x # None /\ x.finished
     /\ waiter' = [waiter EXCEPT ![w] = [wait EXCEPT !.pc = "fetch"]]
     /\ UNCHANGED <<inst, raw, reply>>
  \/ ~stopping /\ x # None /\ ~x.finished /\ Sleep(w, wait)

EventsOkAnyGeneration(wait) ==
  /\ ~stopping
  /\ inst[wait.id] # None
  /\ inst[wait.id].plugin \in EventPlugins
  /\ ~inst[wait.id].overflow

(* What a wait-event demands before it looks at the queue. *)
EventsOk(wait) ==
  /\ ~stopping
  /\ inst[wait.id] # None
  /\ inst[wait.id].gen = wait.gen
  /\ inst[wait.id].plugin \in EventPlugins
  /\ ~inst[wait.id].overflow

(* History: the events queued after the one now consumed.  Those before it *)
(* were superseded by a later pending change, or consumed already.         *)
Superseded(s, i) ==
  /\ s[i].kind = "change"
  /\ \E j \in i+1..Len(s) : s[j] = s[i] /\ \A k \in i..j : s[k].kind = "change"
Kept(s) == {i \in DOMAIN s : ~Superseded(s, i)}
AfterFirstKept(s) ==
  LET first == CHOOSE i \in Kept(s) : \A j \in Kept(s) : i <= j
  IN  SubSeq(s, first + 1, Len(s))

(* The oldest event consumed, its entry back in the pool. *)
Taken(x) == [x EXCEPT !.pending = Tail(@), !.free = @ + 1, !.count = @ - 1]

(* daemon_instance_wait_event: one pass of the loop.  The entry goes back  *)
(* to the pool before the event is sent.                                   *)
EventPass(w, wait) ==
  LET x == inst[wait.id] IN
  \/ /\ ~EventsOk(wait)
     /\ Answer(w, Error)
     /\ UNCHANGED <<inst, raw>>
  \/ /\ EventsOk(wait) /\ x.count > 0
     /\ Answer(w, [how |-> "event", gen |-> wait.gen, from |-> x.gen])
     /\ inst' = [inst EXCEPT ![wait.id] = Taken(@)]
     /\ raw' = [raw EXCEPT ![wait.id] = AfterFirstKept(@)]
  \/ /\ EventsOk(wait) /\ x.count = 0 /\ x.finished
     /\ Answer(w, [how |-> "finished", id |-> wait.id, gen |-> wait.gen])
     /\ UNCHANGED <<inst, raw>>
  \/ EventsOk(wait) /\ x.count = 0 /\ ~x.finished /\ Sleep(w, wait)

Pass(w, wait) ==
  /\ \/ wait.kind = "result" /\ ResultPass(w, wait)
     \/ wait.kind = "event" /\ EventPass(w, wait)
  /\ UNCHANGED <<nextGeneration, agenda, target, inputs, stopping>>

(* A wait begins.  wait-event remembers the generation it found; for       *)
(* wait-result the generation is history only.                             *)
Wait(w, kind, id) ==
  /\ waiter[w].pc = "idle"
  /\ Pass(w, [pc |-> "awake", kind |-> kind, id |-> id,
              gen |-> IF inst[id] = None THEN 0 ELSE inst[id].gen])

(* pthread_cond_wait has returned. *)
Resume(w) == waiter[w].pc = "awake" /\ Pass(w, waiter[w])

(* The result task that follows a successful daemon_instance_wait runs on  *)
(* the UI thread, which looks the name up once more; after shutdown has    *)
(* begun the task queue turns it away.                                     *)
FetchResult(w) ==
  /\ waiter[w].pc = "fetch" /\ agenda = <<>>
  /\ LET x == inst[waiter[w].id] IN
     IF stopping \/ x = None THEN Answer(w, Error)
     ELSE Answer(w, [how |-> "result", final |-> x.finished])
  /\ UNCHANGED <<inst, nextGeneration, agenda, target, inputs, stopping, raw>>

WorkerRun(w) == Resume(w) \/ FetchResult(w)
Requests(w)  == \E kind \in {"result", "event"}, id \in Ids : Wait(w, kind, id)

UiRun == QueueEvent \/ SetFinished
UiMay ==
  \/ \E id \in Ids, p \in Plugins : Create(id, p)
  \/ \E id \in Ids : Delete(id) \/ Input(id)
  \/ Stop

Next == UiRun \/ UiMay \/ \E w \in Workers : WorkerRun(w) \/ Requests(w)

(* The UI thread finishes what an input started, and a worker that may run *)
(* runs; requests, inputs and shutdown come or do not come.                *)
Fairness == WF_vars(UiRun) /\ \A w \in Workers : WF_vars(WorkerRun(w))

Spec     == Init /\ [][Next]_vars
FairSpec == Spec /\ Fairness

-----------------------------------------------------------------------------
(***************************************************************************)
(* Properties.                                                             *)
(***************************************************************************)
WaitRec  == [pc : {"idle", "asleep", "awake", "fetch"}, kind : {"result", "event", None},
             id : Ids \union {None}, gen : 0..MaxGenerations]

TypeOK ==
  /\ inst \in [Ids -> Instance \union {None}]
  /\ nextGeneration \in 0..MaxGenerations /\ inputs \in 0..MaxInputs
  /\ agenda \in Seq(Events \union {Finish}) /\ target \in Ids \union {None}
  /\ waiter \in [Workers -> WaitRec]
  /\ stopping \in BOOLEAN

(* The fixed pool of event entries: each is pending or free, the counter   *)
(* wait-event trusts before it takes the head equals what is there, and    *)
(* nothing is lost or added however queueing, coalescing and consuming mix.*)
PoolConserved ==
  \A id \in Ids : inst[id] # None =>
    /\ inst[id].count = Len(inst[id].pending)
    /\ inst[id].count + inst[id].free = MaxEvents

(* What is pending is what was queued, less what a later change of the     *)
(* same node with no button in between superseded, in the order of the     *)
(* survivors; an event is lost only with the overflow recorded.            *)
Latest ==
  \A id \in Ids : inst[id] # None /\ ~inst[id].overflow =>
    inst[id].pending = Picked(raw[id], Kept(raw[id]))

(* All of that holds in well-typed states, whatever the order of inputs,   *)
(* waits, deletions and reuses of a name.                                  *)
PendingIsLatest == TypeOK /\ PoolConserved /\ Latest

(* No missed wakeup: whoever sleeps has reason to.  A sleeping wait-event  *)
(* is on a live instance of its own generation with nothing to report, a   *)
(* sleeping wait-result on one that is not finished.                       *)
SleepersHaveCause ==
  \A w \in Workers : waiter[w].pc = "asleep" =>
    LET x == inst[waiter[w].id] IN
    /\ ~stopping /\ x # None /\ ~x.finished
    /\ waiter[w].kind = "event" => EventsOk(waiter[w]) /\ x.count = 0

(* A wait-event only ever receives events of the instance it found when it *)
(* began, though the dialog is deleted and its name reused while it sleeps.*)
EventsOfOwnGeneration ==
  reply # None /\ reply.how = "event" => reply.from = reply.gen

(* A client told that the instance has finished has missed nothing: no     *)
(* event of that instance is pending or will be queued any more.           *)
FinishedIsFinal ==
  reply # None /\ reply.how = "finished" =>
    LET x == inst[reply.id] IN
    x # None /\ x.gen = reply.gen =>
      x.count = 0 /\ (target = reply.id => agenda = <<>>)

(* What a client is told is true of the dialog it asked about: both of the *)
(* above.                                                                  *)
RepliesAreTrue == EventsOfOwnGeneration /\ FinishedIsFinal

(* A wait-event whose instance has finished, has overflowed, was deleted   *)
(* or replaced, and every wait once the daemon stops, comes back.          *)
Over(w) ==
  \/ stopping
  \/ /\ waiter[w].kind = "event"
     /\ ~EventsOk(waiter[w]) \/ inst[waiter[w].id].finished
WaitsEnd ==
  \A w \in Workers : waiter[w].pc # "idle" /\ Over(w) ~> waiter[w].pc = "idle"

(* "wait-result: Blocks until the plugin receives a result event"          *)
(* (plainmouthd-commands.md): the result it brings is of a finished dialog.*)
ResultIsFinal == reply # None /\ reply.how = "result" => reply.final
=============================================================================
