# Plainmouth in TLA+

plainmouth puts text dialogs on one terminal for any number of clients. A
daemon, `plainmouthd`, owns the terminal; clients connect to its Unix socket,
send requests as lines of text, and get lines back. The daemon is one UI thread
and one thread per connection. This directory models the parts where that goes
wrong quietly: the hand-over of work between the threads, the waits of clients
on dialogs, the shutdown, both ends of the protocol, the keyboard focus, the
life of terminal and composed dialogs, and the arithmetic of widgets. Paths are relative to the
repository's `src/` and, unless they begin with another directory, to its `src/`.

## 1. The system

| Component (files) | State | Operations | Talks to |
| --- | --- | --- | --- |
| UI task queue (`daemon_task.c`) | list of tasks, mutex, condition, eventfd, `stopping`; per task `rc`, `done` | create, submit and wait, wakeup, dispatch, stop, free | connection threads submit, the UI thread dispatches |
| Connection workers (`daemon_worker.c`) | list of workers: context, duplicate descriptor, `done` | start, connection loop, reap, stop | `ipc.c` runs inside; the eventfd tells the UI thread of an end |
| Main loop, request dispatch, shutdown (`plainmouthd.c`) | `do_quit`, thread-local `quit_requested`, poll descriptors, paste and terminal mode, table of UI commands | poll, accept, input, resize, tasks; quit; the shutdown sequence | everything |
| Dialog instances (`daemon_instance.c`) | list of instances: plugin, widget tree, generation, `finished`, pool and queue of 256 events, `overflow`; mutex, one condition | create, delete, input, check finished, wait for a result, wait for an event, stop | UI thread changes, connection threads wait |
| Focus (`daemon_instance.c`, `plainmouthd.c`) | ring of focusable widgets, `focused`, highlight flag, visibility, panel stack | next, previous, validate, request, resize | keyboard, client requests, ncurses panels |
| Poll events (`daemon_event.c`) | snapshot of plugin descriptors, `events_disabled` | collect, dispatch, children, redraw | plugins with descriptors |
| IPC (`ipc.c`, `request.c`, `plainmouth.c`) | per connection: receive buffer, messages under construction by id | server loop; HELLO/TAKE, PAIR, DONE, RESPDATA, RESPONSE, PING/PONG; the client exchange | the socket |
| Styles, colour pairs (`daemon_style.c`, `widget.c`) | named sources, overrides, a finite pool of pairs | set-style, allocate a pair, release with the widget | drawing |
| Widget tree (`widget.c`) | tree, flags, geometry, flex and shrink weights | measure, distribute, layout, dispatch input, free | all widgets |
| Input, select, spinbox, scroll and other widgets (`widget_*.c`) | text, cursor, offset; options, cursor, selection, search prefix | keys, set-value | their dialog |
| Terminal dialog (`plugins/termbox-*.c`) | PTY, child, deadlines, bounded input queue, screen | start, child exit, output, input, cleanup | `daemon_event.c` |
| Compose (`plugins/compose-main.c`) | nodes, buttons clicked, change tokens, timer | create, update, set/get value, events, result | instances, focus |
| Other dialogs (`plugins/*-main.c`) | a widget tree each | create, result, some update | instances |
| Help, animation (`daemon_help.c`, `daemon_animation.c`) | a panel, a clock | keys, timeout | main loop |
| Clients (`plainmouth.c`, `plaindialog.c`) | none kept | one exchange per run | IPC |

What is hard, and what must hold there:

* **Threads.** A task lives in its submitter's heap and borrows its request; the
  submitter frees it the instant it is done. No use after free, no lost wakeup,
  every call comes back whatever moment of a dispatch or a stop it meets.
* **One condition for all waits.** A client may sleep on a dialog that is
  finished, overflows, is deleted, is replaced under the same name, or outlives
  the daemon. It must wake in each case, must not be handed events of another
  dialog, and must not miss any of its own before it hears "finished".
* **Shutdown.** Threads may be reading, blocked in a send, in a UI call, or in a
  wait. The daemon must end all the same, answer the quit first, and free
  nothing a thread still uses.
* **Sequences of small updates.** Focus, highlight, visibility and panel order
  are changed by a dozen handlers, each of them in part.
* **A stream, not messages.** The socket cuts lines anywhere, either end may hang
  up between any two, and a signal may close the client's descriptor under it.
* **Calls to the kernel that fail half way.** Timers, PTYs, children that exit
  with output still unread, a PID that may be another process's by now.
* **Limits.** The event pool, the colour pairs, the input queue of a terminal;
  cursors and offsets at the edges of a text, a list or a screen; what integer
  shares of space round off.

`PROJECT.json` lists each hazard at its line with the properties that watch it.

## 2. Modules

```
TaskCalls                     abstract: a FIFO server of synchronous calls
   ^ implemented by               ^ used by
UiTask --- UiTaskProofs        Daemon --- DaemonProofs     loop, connections, shutdown
Instances --- InstancesProofs events and waits of dialogs

Exchange                      abstract: one request, one answer, or failure
   ^ implemented by
IpcProtocol  Plaindialog  GaugeStream          --- MCClients --- ClientsProofs
PollEvents   Termbox   Compose   ComposeTree   --- MCPlugins --- PluginsProofs

LineEdit                      abstract: a line of text and a cursor
   ^ implemented by
WidgetInput  WidgetSelect  WidgetSpinbox
FlexAxis <- ScrollArea    Styles    FocusRing (--- MCFocusRing) --- MCWidgets --- WidgetsProofs
                                       |
                                 FocusRingProofs

SeqFilter                     what is left of a sequence, by positions (used by Instances,
                              PollEvents, FocusRing) --- SequenceLemmas
```

Every module is parameterised by constants. Actions have the names of the
functions or steps they translate, and the `map` of `PROJECT.json` gives their
lines. Operators with a name such as `CompleteAndRetry` or `DeleteSilently`,
next to the action they resemble, are *faulty variants*: plausible slips that
each property is tried against (`mutants` in `PROJECT.json`). No specification uses them.

`MCClients`, `MCPlugins` and `MCWidgets` put components that share no state into
one run. A variable (`which`, `part`) is chosen at the start and says whose
behaviour this is; the other components stay as they began. The state space is
the sum of the parts, not their product, and each part has its own properties.

### UiTask (`daemon_task.c`)

One action per step between two points where another thread can get in. A task
is named `<<w, n>>`, the n-th of worker w; it is allocated exactly while w is
inside that call, so "freed" is `~Live`. The list is `queue`; what a dispatch
has detached is `snapshot`. The mutex is a variable only across the eventfd
write, the one critical section that can fail half way (`SubmitInsert`, then
`SubmitWakeup` or `SubmitWakeupFails`). The counter of the eventfd matters only
as zero or not. `pthread_cond_wait` may return without a reason.

### TaskCalls

What the callers can count on: each call is served at most once, in the order of
submission, and returns the code of that service, or is refused and returns -1.
UiTask implements it with `pending` = the callers of `snapshot \o queue`, less a
task whose eventfd write has not succeeded yet.

### Instances (`daemon_instance.c`, 118-214, 369-628 and its callers)

Every action is one critical section of `instances_mutex`, or UI work between
two. An input leaves an `agenda` (events, then the end), which the UI thread
works off in several critical sections, so waiters get in between. A dialog is a
record with its generation; the free list is its length. `raw` is a history
variable: every event queued since the last one consumed, before coalescing.

### SeqFilter

The loops of the C code that drop list entries, as an operator: `Filter(s, K)` is what
`SelectSeq` would return, but said by where the elements that stay are instead of by
recursion. `MCPlugins` assumes their equality for short sequences (`FilterIsSelectSeq`),
which TLC evaluates.

### Daemon (`plainmouthd.c`, `daemon_worker.c`, the loop of `ipc.c`)

Clients connect, send, and hang up as they like, and do not wait for answers. A
request is what its thread does with it: quit, a UI call, a wait. The UI calls
go through TaskCalls instead of UiTask; a wait is a state that a dialog or the
shutdown ends, as Instances has it. `Deaf` clients may leave no room for what a
UI handler sends them. The UI thread is a program counter over the main loop
(`top` ... `reap`) and the shutdown (`stopTasks` ... `exited`).

### IpcProtocol, Exchange (`ipc.c`, `request.c`, `plainmouth.c`, `handle_message`)

Both ends of one connection. A line is two cells, its body and its NUL, and every
`recv` takes any prefix of what is in the socket, so lines arrive in pieces and
several at a time. The server's messages under construction are `msgs`, ids count
from 0 as in the code. The client is `ipc_send_message_common` with its loops on
lines: it skips what is not for it. Between exchanges it may send *stray* bursts:
lines for ids it was never given, an unknown command, a PONG. Two strays are left
out because the code is known to take them for the real thing: the answer to a
second HELLO, and an error for id 0, both of which look like the answer to the
first request. `Exchange` is what callers may count on: the daemon carries a
request out at most once, and the call returns the answer to that very request or
fails.

### Plaindialog (`plaindialog.c`), GaugeStream

One run of the client: create, wait or feed the gauge, print, delete over a second
connection. A signal may come between any two steps and shuts the socket under
it; the daemon is a thread per connection and one UI thread that serves calls in
the order they are queued; other clients delete and create the same name. The
gauge's input is a separate module: lines, and blocks between two XXX, up to a
bound on the text's buffer.

### PollEvents (`daemon_event.c`, main loop)

One iteration of the main loop around the snapshot of plugin descriptors. A
dialog is an address (`Slots`), so a deletion and a creation may reuse one, and
`gen` tells the two apart. A handler may have any outcome. A change of the terminal's
size, noticed by poll or read as a key, hides dialogs and shows them again, which may
fail for any of them and be its end; the rest of a resize is FocusRing's and ScrollArea's.
Deletion happens only in the last part of an iteration, which is the argument
`OwnersAlive` makes.

### Termbox (`plugins/termbox-main.c`, `-input.c`, `-output.c`)

One command in a PTY. What poll saw is kept while the command runs on. Input is
bytes owed to the command, in a bounded queue with short writes; output is bytes
read `ReadLimit` at a time. The cleanup thread asks, waits `Rounds` times, kills
and reaps; between the reaping and the next signal the PID may be someone else's
(`stray`). Other processes may hold the PTY open. The event handler may fail at any of
its calls: before it reads, after some of the output, with some of the replies queued,
or after a part of a write; and so may the question for the child. What libvterm makes of the bytes
is left out, but for its replies, which are input.

### ComposeTree, Compose (`plugins/compose-main.c`)

ComposeTree reads a declaration, token by token, with the bounded stack and the
bounded list of the code. Compose is the dialog afterwards: buttons that close or
are reported, spinners and the kernel timer whose calls may each fail, updates
that are refused half way. Values are abstracted to whether they are accepted.

### FocusRing (`daemon_instance.c`, 44-98, 216-367, 466-537; keys in `plainmouthd.c`)

The ring is a sequence of widgets `<<dialog, node>>`. The tree is a constant,
`Children`, and registration walks it as the code does. "Disabled" and
"read-only" are one set, `blocked`, since `widget_is_interactive` reads both
alike, on the widget or on anything above it. `panels` is the stack of ncurses
panels; `top_panel` of a hidden panel shows it, which is how ncurses implements
that call. Not here: keys during a paste, and the help overlay, which may take a
key before the focus sees it.

### WidgetInput, LineEdit (`widget_input.c`)

The buffer is an array from 0 that grows by one, edited by memory moves as the
code does, with a viewport of a few columns and characters of width 0, 1 and 2.
LineEdit is a line cut in two by a cursor; WidgetInput implements it.

### WidgetSelect (`widget_select.c`, `widget_list_vbox.c`)

Options with a text and a height, boxes, cursor, the incremental search, and the
viewport: a flag per option and the option shown first. Every handler includes the
render that follows it. Rows are at least one: the layout gives a select its least
height of one, and a hidden dialog is not rendered. One effect is visible in the
model and kept out of the property by the history variable `squeezed`: an option
of two rows that a resize leaves one row loses FLAG_VISIBLE
(`widget_list_vbox.c:95`), and nothing in the list gives it back.

### WidgetSpinbox (`widget_spinbox.c`)

Value, edit buffer, sign. `number` is a history variable: what was typed without
the cut at INT_MAX.

### FlexAxis, ScrollArea (`widget.c`, `widget_*box.c`, `widget_pad_box.c`, `widget_scroll_vbox.c`)

FlexAxis is the pure function that deals out space along one axis. ScrollArea is a
dialog body with a scroll area between other children, as formbox, compose and the
text dialogs make it: measure, the passes of the layout that decide on scroll bars,
resize, moving to a field, scrolling by keys, the text set anew, and the redraw that
only a plugin with descriptors gets, compose among these.
A field counts as in view only right after the move: with both bars, the redraw of
a spinner's tick clamps the scroll in its first pass against the whole area, so the
last row or column may leave the view again (`brought` goes back to 0).

### Styles (`daemon_style.c`, `widget.c`)

Global roles, themes, overrides of dialogs, the pool of colour pairs with its cursor
`next`, and the cells of terminals. `painted` is what is on screen, `content` what
ncurses shows for a pair. Setting up a pair may fail for one that is new to
ncurses, which grows its table for it. Monochrome terminals are not modelled. One
role stands for all, since a role's records are never read for another.

## 3. Runs

| Run | Instance | Distinct states | Shows |
| --- | --- | --- | --- |
| `ui_task` | 2 workers, 2 calls each | 15,247 | safety of memory and wakeups, bounded dispatches, every call returns, refinement of TaskCalls |
| `instances` | 1 name, 2 generations, 2 nodes, 2 kinds of plugin, 2 waiters, pool of 2, 3 inputs | 231,013 | pool, coalescing, both waits, generations, end of every wait |
| `wait_result_stale` | as above, smaller | violation | the result of a dialog that has not finished |
| `daemon` | 2 connections, 2 requests in all | 156,758 | shutdown completes, quit answered, nothing used after it is freed, threads joined |
| `daemon_deaf_client` | one of the two is deaf | violation | a client that does not read holds the shutdown |
| `clients` | 2 exchanges and a stray burst; plaindialog with 2 signals; gauge inputs of 6 lines | 205,143 | the exchange, the client's own clean-up, the gauge |
| `ipc_bad_pair` | one exchange with one malformed PAIR | violation | an error for a request that is carried out |
| `dialog_orphan` | one signal | violation | a dialog made after its client has gone |
| `plugins` | 2 dialogs in the main loop; a terminal with 3 bytes in, 2 out; a composed dialog; declarations of 9 tokens | 305,860 | snapshot, command, timer, clicks, construction |
| `widgets` | 2 dialogs, 4 nodes, 6 focus events, Tab without bound; each widget by itself | 48,998 | focus, text, list, number, space, colours |
| `focus_hidden` | the ring with 4 events | violation | a hidden dialog's panel comes back |
| `form_visible` | as `widgets` | violation | a form grows beyond its `visible` |

### Properties

*ui_task.* `NoUseAfterFree`: what the UI thread can reach is allocated and not
done. `NoLostWakeup`: a published task has its signal pending between
dispatches. `BoundedDispatch`: a dispatch runs at most one handler for each
connection thread, however fast a thread that has been answered submits again;
`turns` counts them from the detach on. `CallsReturn`: liveness of every call.
`FifoCalls`: refinement of TaskCalls.

*instances.* `PendingIsLatest` relates the queue to the history of events,
including overflow, with the pool conserved. `SleepersHaveCause` is the absence of
missed wakeups as an invariant, `WaitsEnd` as a liveness property. `RepliesAreTrue`
is what a waiter may conclude from its answer.

*daemon.* `BorrowedRequestAlive`: as long as the UI thread can reach a task, its
thread is in the call. `QuitAnsweredFirst`, `NothingAfterFree` and
`WorkersReaped` are orders that a change of the loop could break.
`ShutdownCompletes` is the promise of `Documentation/architecture.md:527-531`.

*clients.* `AtMostOnce`: IpcProtocol implements Exchange. `MessagesAccounted`:
between exchanges the server keeps no message but one a stray burst made. `ClientsEnd`: an
exchange ends with an answer or a failure, and a signalled run of plaindialog ends.
`CleanExit`: after a run the exit status is what the user did, the dialog is deleted
as far as the program can know of it, and another client's of that name is not. `GaugeFollowsInput`:
the updates sent are those a reader of the whole input would make.

*plugins.* `OwnersAlive`: a snapshot entry's dialog is the one that was there.
`EventsServed`: a ready descriptor is served, a child's exit noticed and a change
drawn, or the dialog is over, disabled or gone. `CommandFollowed`: the dialog learns of the command's end, and a
deleted one is reaped. `NoStraySignal`, `InputInOrder`. `TimerFollowsSpinners`: the
timer runs exactly while a spinner can be seen turning, or the dialog is broken.
`ClicksReported`: every click of a button that does not close is reported once, before
the dialog is asked whether it is over. `RefusalChangesNothing`,
`BuildsWhatIsDeclared`: a declaration is accepted exactly when it has a meaning, and the tree is that meaning.

*widgets.* `FocusSound`: focus on an interactive widget of the ring, one highlight,
its panel on top. `FocusKept`: the focus is lost only with its dialog or when
nobody can take it; and while its widget is there and takes input, no create, delete,
resize or update moves it to another. `TabReachesAll`: a user who keeps pressing Tab comes by every
widget that takes input. It excepts a dialog hidden by a small terminal: keys for
it are dropped before Tab is looked at (`plainmouthd.c:629-633`), so its focus
stays until a client moves it, its dialog is deleted or the terminal grows: no property
covers that, for no document promises more. `EditsAsALine`: WidgetInput
implements LineEdit. `CursorOnScreen`, `BroughtIntoView`, `FieldsInView`: what the
user moves is shown. `ChoiceSound`: selection, its maximum, cursor and search prefix
agree. `ValueAsTyped`. `SpaceUsedUp`: children add up to the space, within their minima
and maxima as far as it goes, and there is a bar exactly where what the bars leave is
smaller than the contents. `StylesShown`: visible dialogs look as their own, their theme's and the
global settings say, cells have the colours they were written with, and no pair is lost.

### Why the bounds are enough

Two workers are what it takes to have one task in the list while another's is in
the snapshot, and two calls each make a state be freed and allocated again in the
middle of a dispatch. Two generations are a deletion and a reuse of the name
under a sleeping waiter; a pool of two with three inputs overflows, coalesces in
front of and behind a button, and drains. In `daemon` one connection quits while
the other is in any state of a request, and pipelining needs two requests on one
socket. Six focus events are two creations and any four others.

Two exchanges are the least that can mix, and a stray burst comes before, between
or after them. Two signals are a second one during the clean-up of the first. Six
lines are a block of four, complete, and two lines behind it, or a text that
overflows. Two addresses and two dialogs reuse an address while another dialog is
in the snapshot. A queue of two bytes with room for one in the PTY fills, drains
in part, and refuses. Nine tokens fill a list of four nodes and a stack of three
and go beyond either. `EventsServed` is stated of one address: the two are
interchangeable in PollEvents. Texts of three characters put a wide and a
combining one on every side of the cursor and of an edge of the screen; lists of
three options with one of two rows exceed every height tried. INT_MAX is 15, with
fields on both sides of it. Two pairs for two dialogs, a theme and a terminal run
out, and change hands.

### Fairness

A thread that can run is scheduled: weak fairness of `UiRun` and of each
worker's `WorkerRun`. A mutex that is held is released by the next step of its
holder, and the number of calls is bounded, so weak fairness suffices. Nothing is
assumed of users, clients and the environment: that a request comes, that a
dialog finishes, that a client makes room for its response (`Respond`) or hangs
up, that an eventfd write fails. Both ends of IpcProtocol are fair, as processes
are; so is plaindialog, the daemon's threads behind it, and the main loop of
PollEvents and Termbox with its cleanup thread. The command in a terminal may do
nothing at all, but a killed process dies. Of the ring `AllSpec` assumes only a user
who presses Tab.

`CHECK_DEADLOCK FALSE` stands where the system really may stop: Daemon after it has
exited, clients after their last exchange, a terminal whose command waits for
nothing. In `ui_task`, `instances` and `widgets` deadlock is checked.

## 4. Where the code and its documents disagree

* `wait_result_stale`. `wait-result` "blocks until the plugin receives a result
  event" (`Documentation/plainmouthd-commands.md:250`). The thread does, under
  the mutex, then asks the UI thread for the result by name only
  (`plainmouthd.c:507-531`, 322-335). If the dialog is deleted and its name
  reused in between, the client gets the result of one that has not finished.
  `wait-event` compares generations; `wait-result` does not.
* `daemon_deaf_client`. The shutdown "shuts down client sockets to interrupt
  blocked reads and writes" (`Documentation/architecture.md:529`). UI handlers
  send RESPDATA from the UI thread on blocking sockets; when a client does not
  read and its socket is full, the UI thread is itself the blocked writer and
  never gets to the shutdown.
* `focus_hidden`. `tests/daemon/daemon_resize_test.c:79-80` asserts that a dialog
  without room has both its panel hidden and `FLAG_VISIBLE` cleared. Any later
  `ui_focused(true)` on it calls `top_panel` (`daemon_instance.c:316`), which
  shows the panel again and leaves the flag cleared.
* `ipc_bad_pair`. "RESPONSE ... ERROR marks failed completion"
  (`Documentation/ipc-protocol.md:76`). A PAIR without "=" is answered with an
  error at once (`ipc.c:396`), but its message stays, and the DONE behind it runs
  the handler and sends a second response.
* `dialog_orphan`. "Created instances are deleted after completion and on SIGINT,
  SIGTERM or SIGHUP" (`Documentation/plaindialog.md:145`). The delete goes over a
  second connection without waiting for the create sent over the first
  (`plaindialog.c:875`), and different threads serve the two: the delete may be
  queued first.
* `form_visible`. `visible=N` "limits its maximum height"
  (`Documentation/plainmouthd-commands.md:730`). The plugin sets the preferred
  height after measuring; the daemon measures again when the terminal is resized, the
  scroll area takes its contents' height (`widget_scroll_vbox.c:53`), and when
  space is short the maximum is not looked at.

## 5. Proofs

| Module | Theorem (property) | For every |
| --- | --- | --- |
| `UiTaskProofs` | `Inductive`, `TypeCorrect`, `TasksAlive` (`NoUseAfterFree`), `NoTaskUnsignalled` (`NoLostWakeup`), `DispatchIsBounded` (`BoundedDispatch`), `Implements` (`FifoCalls`) | set of workers, bound on calls |
| `DaemonProofs` | `RequestsAreAlive` (`BorrowedRequestAlive`), `QuitIsAnswered` (`QuitAnsweredFirst`), `NothingIsUsedAfterFree` (`NothingAfterFree`) | set of connections, deaf or not, bound on requests |
| `InstancesProofs` | `NoMissedWakeup` (`SleepersHaveCause`), `RepliesHold` (`RepliesAreTrue`), `LatestIsPending` (`PendingIsLatest`), `PoolIsConserved` | names, widgets, plugins, waiters, pool size, bounds on generations and inputs |
| `PluginsProofs` | `OwnersAreAlive` (`OwnersAlive`), `InputArrivesInOrder` (`InputInOrder`), `NoSignalStrays` (`NoStraySignal`), `TimerFollows` (`TimerFollowsSpinners`), `ClicksAreReported` (`ClicksReported`), `RefusalLeavesAll` (`RefusalChangesNothing`), all from `PluginsInvariant` | dialogs, bytes typed, queue limits, rounds of the cleanup, spinners, buttons |
| `FocusRingProofs` | `FocusIsSound` (`FocusSound`), `FocusIsKept` (`FocusKept`) | dialogs, trees of widgets, sets that take input, bound on events |
| `WidgetsProofs` | `FieldHasWhatWasTyped` (`ValueAsTyped`) | INT_MAX, fields, digits, values set |
| | `ChoiceIsSound` (`ChoiceSound`), `OptionIsInView` (`BroughtIntoView`) | lists of options, their heights, maxima, heights of the list |
| | `CursorIsOnScreen` (`CursorOnScreen`), `FieldIsALine` (`EditsAsALine`) | characters and their widths, texts, limits, widths of the field |
| `ClientsProofs` | `ExitIsClean` (`CleanExit`) | number of signals, kinds of dialog |
| | `RequestsAtMostOnce` (`AtMostOnce`), `MessagesAreAccounted` (`MessagesAccounted`) | commands, exchanges, stray lines and bursts of them; requests without malformed pairs |

The assumptions are those the modules name: bounds are natural numbers, a pool has
an entry, `None` is neither a worker, a dialog nor a widget, a field has a range within
int, a list has a height, the terminator is not a character of a text. Of the order in
which a tree of widgets is walked, `PreorderAssumption` says that it is a sequence of
widgets without repetition; TLC evaluates it for the trees of the runs. Of the lines a
client sends outside any exchange, `StraysAssumption` says that none of them can be taken
for, or answered like, a part of the next exchange: after a `HELLO` come only lines that
name no id and are not answered with id 0. No client of the repository sends any; the
assumption leaves out the one way in which a peer that does can mislead itself, not
others, since a message list belongs to one connection. `Mistakes = 0` is a hypothesis of
the two theorems about IpcProtocol: with a malformed pair both are false, which is what
`ipc_bad_pair` shows. `SequenceLemmas` has the facts about sequences that several
modules need.

**UiTask.** `NoUseAfterFree` says nothing of a worker that is about
to free its task, so it is not inductive. `IInv` adds: the UI thread walks
exactly while it has a snapshot (`WalkInv`); between allocation and sleep a task
is neither run nor done, and the worker that holds the mutex owns the last task
of the list, which is why removing the last is removing its own (`WorkerInv`);
what is in the list or the snapshot is its worker's current task, not done, at
most one per worker over both (`QueueInv`, `SnapshotInv`). The last clause is
what makes a completion harmless: the worker it releases has no other task the UI
thread could reach. `Signalled` is the strengthening for wakeups: past the drain
of a dispatch, anything published has been signalled after that drain. `TurnsInv` is
`BoundedDispatch` with what makes it last: the tasks left of the detached list are of
workers the dispatch has not served yet, which needs "at most one per worker over both"
of `IInv`, so that what an answered worker submits next cannot be in that list.

**Simulation.** `RInv` adds `StopInv` (nothing is dispatched or inserted once
stopped) and `PendingInv` (a worker waiting for an answer has its task with the UI
thread). Under it each action of UiTask is one of TaskCalls, or leaves what
callers see unchanged: `SubmitWakeup` is `Submit`, the two refusals are `Refuse`,
`Complete` is `Serve`, `Stop` is `Close`, the rest is unseen.

**Daemon.** A caller is pending at most once, and its phase is pending (`CallInv`):
without it a `Return` could leave the call under the UI thread. A quit that is not
answered is the one at the head of its thread's buffer while it responds
(`QuitInv`). Outside its serve the UI thread has nothing left to serve, outside its
reap nobody to visit (`UiInv`), so the shutdown begins with neither. `ExitInv`, no
worker after the exit, is what empties every thread's actions.

**Instances.** `AgendaInv` says what an input still has to do: an event, the end, or
both in that order, to a dialog that has not finished. So the end is the last thing,
and `FinalInv`, that a generation reported as finished stays so with nothing pending,
is inductive: a new dialog of that name has a generation nobody knows yet
(`WaiterInv`), and queueing to a finished one does not happen. A sleeper's cause is
taken away only by steps that wake everybody.

`RawInv` is `PendingIsLatest` said by positions: `pending` lists the events of the
history at the positions `Kept`, those no later event supersedes, each place of the
one being one position of the other, in order (`IsListOf`). Three lemmas say what the
steps do to such a list: it gains a last place (`ListsAppend`), loses one that was
superseded (`ListsRemove`), loses its first (`ListsTail`); what `Kept` becomes when the
history grows or its head is consumed is a matter of positions too. A list is the
sequence of its positions (`ListsThePicked`), which is what the property says.

**Plugins.** `LoopInv`: from the poll to the end of the dispatch every dialog of the
snapshot is there and of the generation it was taken of, because the only deletions
are behind it. `TermInv`: what waits in the queue behind its offset is what was typed
and not written yet (`InputOK`), which a short write and a queue that is moved or grows
keep; only the cleanup thread reaps, as the last thing it does, and it has not begun
while the dialog is there to send signals (`ProcessOK`). `ComposeInv`: an
update leaves turning spinners and the timer as they belong together, or nothing
changed, or the dialog broken; until the dialog is over no press is left unhandled,
which makes the counts of clicks and reports equal when it closes.

**Focus.** `FocusSound` is inductive with the type of the panel stack. Registering and
removing are concatenations and filters of the ring, known by their elements; a handler
that ends with the search for the next widget to take input ends with one that does, or
with none in the ring, and takes the highlight from the widget that had it.

**Number field.** Cutting the typed number at INT_MAX early, digit by digit, or late
comes to the same (`DigitCutsOff`), and beyond the limits of int there is nothing a
range could hold (`CutOffClampsAlike`).

**List.** `SelectInv` adds that a menu has no boxes and that a list not made yet is
empty. The count is the cardinality of the boxes through every way they are set and
cleared (`BoxesSound`); a key leaves the cursor and the prefix on one option, found or
kept (`SelectKeys`); replaced options bring a cursor in range (`ListSound`).

**Viewport.** `ViewInv` says that the flags are those of a range of options that fits,
with the scroll offset of its first; the property speaks of the least and greatest
option shown, which says nothing of a set until it is known to be a range. Whatever
scrolls goes through one of two: it begins with an option and takes as many as fit, or
ends with one (`AnchoredFirst`, `AnchoredLast`). A range that fits is rendered as it is
(`RenderedAsLaid`): the rows `list_vbox_render` has used up before an option are the
rows of the options shown before it. This is why `squeezed` is needed, and all that is
needed: once an option was higher than the list, what a render hid may stay hidden;
replacing the options shows all again and restores the invariant (`ViewReplaced`).

**Input field.** `LineInv` is the array: `len` characters, the only terminator behind
them, inside the allocation. `Grown` makes room for one more cell than the text
(`RoomMade`), each memory move is given cell by cell (`Inserted`, `MovedDown`), and a
render from any start shows the cursor (`StartFits`): the first start from which the
columns fit exists because the cursor's own position is one, and going on past
characters of no columns changes no sum. The sums are a recursive function; that it
exists, with its values, is proved by `Reached`. For the refinement, the string a
reader finds is the array up to `len` (`StoredIs`), halves of a sequence put together
are the sequence (`HalvesMakeIt`), and each action makes the halves LineEdit wants:
one element more or less where the line is cut (`OneMore`, `OneLess`). The token needs
that a text set anew is the old one exactly if every cell, terminator included, is the
same (`SameText`).

**Clients.** Plaindialog's `DialogInv` ties the program counter to what is under way on
each connection (`ExchangeInv`), because a request the client no longer waits for may
still be carried out. `CreatedInv`: what the client knows to have created is gone by
the time the delete has returned. `ForeignInv`: a name that was taken is refused and so
never deleted. `AnswerInv`: the status is what the reply said, which is what the user did.

**IpcProtocol.** The sockets and buffers are cells, and a recv may cut anywhere; so the
proof begins with what a connection *carries*. `Carries` says that buffer and socket
together are whole lines; a send puts lines behind them (`LineSent`), a recv moves cells
and no line (`LinesMoved`), a reader takes the first (`LineRead`). After that there are
only `UpLines` and `DownLines`, and one lemma per action says what it does to them.
`Ground` is what has a type. `IpcInv` adds, for each place the client can be at, what the
lines are:

* `Before` (no exchange, or `HELLO` sent): behind a `HELLO` under way to the server are
  only lines that touch no message; what is under way to the client
  is what a client waiting for its answer passes over (`Late`) from a `TAKE` on, and the id
  of a `TAKE` is that of a message nothing has been added to.
* `Pairs`: the lines sent and not read are the last of the request (`Scripted`), perhaps
  behind some that leave it alone, and the first message with the id has just the pairs
  that were read (`Underway`, `FirstIn`). That the *first* one counts
  matters: the server searches from the head, where new messages go.
* `Reply`: either the request is still under way, or it has been handled and what the
  client has of the data and what is on its way to it are the handler's answer, in order
  (`Told`), with one final line at the end and none before it (`Final`). So what the
  client returns is what was answered (`Returns`), and nothing is left over for the next.

For the refinement, `Phase` and `Reported` say what the caller sees by the client's place
(`SeenIs`), and each action is a step of Exchange or unseen. For `MessagesAccounted`,
`CountInv` counts what has not happened yet: the messages there are, and the lines under
way that may still add one (`Coming`), are at most one for each burst and one for the
exchange under way (`Own`). A burst may end with the pair whose message the next line
would have found again, so `Coming` looks at the ids known and at the line before.

**Induction.** The library's induction theorems take an operator and cannot be cited.
For sets they can be done without: the naturals are well-founded under `<`, so a
nonempty set of them has a least element (`FirstIsThere`), and what holds of 0 and goes
from each number to the next holds of all (`Reached`), for a *set* given as
`{k \in Nat : ...}`. This is how `PendingIsLatest`, the sums of the input field and the
rows of a list are reached.

**Only model-checked.** Liveness (`CallsReturn`, `WaitsEnd`, `ShutdownCompletes`,
`WorkersReaped`, `ClientsEnd`, `EventsServed`, `CommandFollowed`, `TabReachesAll`): the
proof system has no rule for fairness and ENABLED within reach here. What is defined by
folds or by operators that recurse over data: `BuildsWhatIsDeclared` and
`GaugeFollowsInput` (a parse of any input against its meaning), `SpaceUsedUp`,
`FieldsInView` and `StylesShown`.

## 6. Plan

1. *Done:* all modules above, their runs, and the proofs of section 5.
2. Proofs still to be had: `StylesShown` without pairs running out; `SpaceUsedUp` for
   the columns, where nothing is divided.
3. Paste and terminal mode, the help overlay in front of the focus, the text layout
   of labels.

## 7. Not modelled

Drawing, layout of text, key tables and wording; argument parsing of the clients and
the text of what they send and print, but for whether it succeeds; `dlopen` of
plugins and their stateless helpers; start-up failures, after which no state is left
to check; out-of-memory paths that only print; the splash and the terminal's mode. The
help overlay lists the keys of the focused widget, mostly layout, and the animation
clock chooses the least deadline: the timer that has state is compose's, which is
modelled. Scroll areas nested in one another and borders; tooltips; what libvterm
makes of bytes. Dialog plugins other than compose, termbox, formbox, checklistbox and
menubox build a tree and read it back; tailbox follows a file. Of `daemon_instance.c`,
the plugin callbacks are inputs of the model.
