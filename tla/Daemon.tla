------------------------------- MODULE Daemon -------------------------------
(***************************************************************************)
(* The life of the daemon and of its connections: the main loop and the    *)
(* shutdown of src/src/plainmouthd.c, the connection threads of            *)
(* src/src/daemon_worker.c running ipc_event_loop (src/src/ipc.c).  The UI *)
(* task queue between them is the abstract one, TaskCalls, which UiTask    *)
(* implements; the waits of wait-result and wait-event are a state a       *)
(* dialog or the shutdown ends (module Instances).                         *)
(***************************************************************************)
EXTENDS Integers, Sequences

CONSTANTS
  Conns,        \* client connections
  Deaf,         \* those that may never make room for what a UI handler sends them
  MaxMessages   \* bound: requests sent in one run of the daemon

ASSUME ConstAssumption == Deaf \subseteq Conns /\ MaxMessages \in Nat

VARIABLES
  phase, answer, pending, closed,  \* TaskCalls
  pc,           \* pc[c]: where the connection, then its thread, stands
  inbox,        \* inbox[c]: requests in the socket
  buf,          \* buf[c]: requests read by the thread and not handled yet
  sends,        \* requests sent by all clients
  hungUp,       \* hungUp[c]: the client has closed its end of an open socket
  shut,         \* the daemon has called shutdown() on every socket still open
  quitRequested,\* thread-local in the source
  quitAnswered, \* history: the response to a quit was sent, or its socket was broken
  done,         \* done[c]: worker->done, published under the workers' mutex
  doQuit, retcode, eventfd,
  waitStop,     \* daemon_instances_stop has run
  ui, revents,  \* the UI thread, and what its last poll() reported
  left,         \* tasks of the dispatched snapshot not handled yet
  walk          \* workers the current reap has still to look at

calls   == <<phase, answer, pending, closed>>
sockets == <<inbox, sends, hungUp>>
thread  == <<buf, quitRequested, quitAnswered, done>>
quit    == <<doQuit, retcode>>
uiVars  == <<ui, revents, left, walk, waitStop, shut>>
vars    == <<calls, pc, sockets, thread, quit, eventfd, uiVars>>

(* What a handler returns only picks OK or ERROR for the RESPONSE. *)
T == INSTANCE TaskCalls WITH Workers <- Conns, Codes <- {-1}

(* A request, by what its thread does with it: end the daemon, call the UI *)
(* thread, or wait for a dialog.  One the thread answers by itself passes  *)
(* through the states of a call that cannot be submitted.                  *)
Requests == {"quit", "task", "wait"}
Outside  == {"absent", "backlog", "gone"}  \* no thread runs
Workers  == {c \in Conns : pc[c] \notin Outside}       \* the list "workers"

Goto(c, where) == pc' = [pc EXCEPT ![c] = where]

Init ==
  /\ T!Init
  /\ pc    = [c \in Conns |-> "absent"]
  /\ inbox = [c \in Conns |-> <<>>] /\ buf = [c \in Conns |-> <<>>]
  /\ sends = 0 /\ shut = FALSE
  /\ hungUp = [c \in Conns |-> FALSE]
  /\ quitRequested = [c \in Conns |-> FALSE]
  /\ quitAnswered = FALSE
  /\ done = [c \in Conns |-> FALSE]
  /\ doQuit = FALSE /\ retcode = 0 /\ eventfd = FALSE /\ waitStop = FALSE
  /\ ui = "top" /\ revents = {} /\ left = 0 /\ walk = {}

(***************************************************************************)
(* Clients.  They connect, send requests without waiting for answers, and  *)
(* hang up, whenever they like.                                            *)
(***************************************************************************)
Connected(c) == pc[c] \notin {"absent", "gone", "published", "ended"}

Connect(c) ==
  /\ pc[c] = "absent" /\ ui # "exited"
  /\ Goto(c, "backlog")
  /\ UNCHANGED <<calls, sockets, thread, quit, eventfd, uiVars>>

Send(c) ==
  /\ Connected(c) /\ ~hungUp[c] /\ sends < MaxMessages
  /\ \E m \in Requests : inbox' = [inbox EXCEPT ![c] = Append(@, m)]
  /\ sends' = sends + 1
  /\ UNCHANGED <<calls, pc, thread, hungUp, quit, eventfd, uiVars>>

HangUp(c) ==
  /\ Connected(c) /\ ~hungUp[c]
  /\ hungUp' = [hungUp EXCEPT ![c] = TRUE]
  /\ UNCHANGED <<calls, pc, thread, inbox, sends, quit, eventfd, uiVars>>

(***************************************************************************)
(* A connection thread: ipc_event_loop and connection_loop.                *)
(***************************************************************************)
Broken(c) == hungUp[c] \/ shut

(* event_loop_iter: the quit connection stops the daemon only here, after  *)
(* the response to its request.                                            *)
Iterate(c) ==
  /\ pc[c] = "iter"
  /\ IF quitRequested[c] THEN doQuit' = TRUE /\ Goto(c, "wakeup")
     ELSE doQuit' = doQuit /\ Goto(c, IF doQuit THEN "exit" ELSE "poll")
  /\ UNCHANGED <<calls, sockets, thread, retcode, eventfd, uiVars>>

QuitWakeup(c) ==
  /\ pc[c] = "wakeup"
  /\ eventfd' = TRUE
  /\ Goto(c, "exit")
  /\ UNCHANGED <<calls, sockets, thread, quit, uiVars>>

(* poll() on the socket.  A hangup ends the connection at once, even with  *)
(* requests still unread.                                                  *)
PollHangup(c) ==
  /\ pc[c] = "poll" /\ Broken(c)
  /\ Goto(c, "exit")
  /\ UNCHANGED <<calls, sockets, thread, quit, eventfd, uiVars>>

(* One recv takes some of what has arrived. *)
PollReadable(c) ==
  /\ pc[c] = "poll" /\ ~Broken(c) /\ inbox[c] # <<>>
  /\ \E n \in 1..Len(inbox[c]) :
       /\ buf'   = [buf EXCEPT ![c] = SubSeq(inbox[c], 1, n)]
       /\ inbox' = [inbox EXCEPT ![c] = SubSeq(@, n + 1, Len(@))]
  /\ Goto(c, "handle")
  /\ UNCHANGED <<calls, sends, hungUp, quitRequested, quitAnswered, done, quit,
                 eventfd, uiVars>>

PollTimeout(c) ==
  /\ pc[c] = "poll" /\ ~Broken(c) /\ inbox[c] = <<>>
  /\ Goto(c, "iter")
  /\ UNCHANGED <<calls, sockets, thread, quit, eventfd, uiVars>>

(* Faulty variants are named after the slip they contain; a mutation run   *)
(* puts one in the place of the action it precedes.                        *)
HandleQuitsAtOnce(c) ==
  /\ pc[c] = "handle"
  /\ Goto(c, IF buf[c] = <<>> THEN "iter"
             ELSE CASE Head(buf[c]) = "quit" -> "respond"
                    [] Head(buf[c]) = "task" -> "submit"
                    [] Head(buf[c]) = "wait" -> "wait")
  /\ doQuit' = (doQuit \/ (buf[c] # <<>> /\ Head(buf[c]) = "quit"))
  /\ UNCHANGED <<calls, sockets, thread, retcode, eventfd, uiVars>>

(* handle_message, for every request in the buffer before the loop iterates. *)
Handle(c) ==
  /\ pc[c] = "handle"
  /\ Goto(c, IF buf[c] = <<>> THEN "iter"
             ELSE CASE Head(buf[c]) = "quit" -> "respond"
                    [] Head(buf[c]) = "task" -> "submit"
                    [] Head(buf[c]) = "wait" -> "wait")
  /\ quitRequested' =
       [quitRequested EXCEPT ![c] = @ \/ (buf[c] # <<>> /\ Head(buf[c]) = "quit")]
  /\ UNCHANGED <<calls, sockets, buf, quitAnswered, done, quit, eventfd, uiVars>>

(* wait-result and wait-event: the dialog finishes or has an event to      *)
(* report, or the shutdown is noticed.                                     *)
WaitFinishes(c) ==
  /\ pc[c] = "wait" /\ ~waitStop
  /\ \E where \in {"submit", "respond"} : Goto(c, where)
  /\ UNCHANGED <<calls, sockets, thread, quit, eventfd, uiVars>>
WaitStopped(c) ==
  /\ pc[c] = "wait" /\ waitStop
  /\ Goto(c, "respond")
  /\ UNCHANGED <<calls, sockets, thread, quit, eventfd, uiVars>>

(* daemon_task_submit_and_wait: queued with its wakeup, or refused. *)
Submit(c) ==
  /\ pc[c] = "submit"
  /\ T!Submit(c)
  /\ eventfd' = TRUE
  /\ Goto(c, "call")
  /\ UNCHANGED <<sockets, thread, quit, uiVars>>
SubmitRefused(c) ==
  /\ pc[c] = "submit" /\ closed
  /\ T!Refuse(c)
  /\ Goto(c, "respond")
  /\ UNCHANGED <<sockets, thread, quit, eventfd, uiVars>>
(* No memory for the task, or its wakeup fails. *)
SubmitFails(c) ==
  /\ pc[c] = "submit" /\ ~closed
  /\ T!Refuse(c)
  /\ Goto(c, "respond")
  /\ UNCHANGED <<sockets, thread, quit, eventfd, uiVars>>
CallInterrupted(c) ==
  /\ pc[c] = "call"
  /\ T!Return(c) \/ (Broken(c) /\ UNCHANGED calls)
  /\ Goto(c, "respond")
  /\ UNCHANGED <<sockets, thread, quit, eventfd, uiVars>>

CallReturns(c) ==
  /\ pc[c] = "call"
  /\ T!Return(c)
  /\ Goto(c, "respond")
  /\ UNCHANGED <<sockets, thread, quit, eventfd, uiVars>>

(* The RESPONSE: sent, or failing on a socket that is shut.  On an open    *)
(* socket it lasts as long as the client leaves no room for it.            *)
Responded(c) ==
  /\ buf' = [buf EXCEPT ![c] = Tail(@)]
  /\ quitAnswered' = (quitAnswered \/ Head(buf[c]) = "quit")
  /\ Goto(c, "handle")
  /\ UNCHANGED <<calls, sockets, quitRequested, done, quit, eventfd, uiVars>>
Respond(c)       == pc[c] = "respond" /\ ~Broken(c) /\ Responded(c)
RespondBroken(c) == pc[c] = "respond" /\ Broken(c) /\ Responded(c)

(* ipc_free and close, with what was not read; the end is published in the *)
(* critical section of the close.  Then the wakeup that has it reaped.     *)
Publish(c) ==
  /\ pc[c] = "exit"
  /\ inbox' = [inbox EXCEPT ![c] = <<>>]
  /\ buf'   = [buf EXCEPT ![c] = <<>>]
  /\ hungUp' = [hungUp EXCEPT ![c] = FALSE]
  /\ done'  = [done EXCEPT ![c] = TRUE]
  /\ Goto(c, "published")
  /\ UNCHANGED <<calls, sends, quitRequested, quitAnswered, quit, eventfd, uiVars>>
EndWakeup(c) ==
  /\ pc[c] = "published"
  /\ eventfd' = TRUE
  /\ quitRequested' = [quitRequested EXCEPT ![c] = FALSE]
  /\ Goto(c, "ended")
  /\ UNCHANGED <<calls, sockets, buf, quitAnswered, done, quit, uiVars>>

(***************************************************************************)
(* The UI thread: the main loop.                                           *)
(***************************************************************************)
Ui(from, to) == ui = from /\ ui' = to

LoopTop ==
  /\ Ui("top", IF doQuit THEN "stopTasks" ELSE "poll")
  /\ UNCHANGED <<calls, pc, sockets, thread, quit, eventfd, revents, left, walk,
                 waitStop, shut>>

Backlog == {c \in Conns : pc[c] = "backlog"}

(* poll() reports what is ready now; what comes later waits for the next.  *)
(* Its other descriptors (terminal, signals, plugins) change nothing here. *)
Poll ==
  /\ Backlog # {} \/ eventfd
  /\ revents' = (IF Backlog # {} THEN {"accept"} ELSE {})
                \union (IF eventfd THEN {"tasks"} ELSE {})
  /\ Ui("poll", "accept")
  /\ UNCHANGED <<calls, pc, sockets, thread, quit, eventfd, left, walk, waitStop, shut>>

(* A poll error, or no memory for its descriptors, also ends the loop. *)
PollFails ==
  /\ Ui("poll", "stopTasks")
  /\ doQuit' = TRUE
  /\ retcode' = 1
  /\ UNCHANGED <<calls, pc, sockets, thread, eventfd, revents, left, walk, waitStop, shut>>

(* ipc_accept and daemon_worker_start, which drops the client on failure;  *)
(* accept() may also fail and leave it in the backlog.                     *)
Accept ==
  /\ ui = "accept"
  /\ IF "accept" \in revents
     THEN \E c \in Backlog, where \in {"iter", "gone", "backlog"} : Goto(c, where)
     ELSE UNCHANGED pc
  /\ ui' = IF "tasks" \in revents THEN "dispatch" ELSE "top"
  /\ revents' = {}
  /\ UNCHANGED <<calls, sockets, thread, quit, eventfd, left, walk, waitStop, shut>>

(* daemon_task_dispatch: drain the eventfd and detach the queue ... *)
Dispatch ==
  /\ Ui("dispatch", "serve")
  /\ eventfd' = FALSE
  /\ left' = Len(pending)
  /\ UNCHANGED <<calls, pc, sockets, thread, quit, revents, walk, waitStop, shut>>

(* ... then run one handler after the other.  A handler sends its answer on *)
(* the blocking socket of the connection it serves, from this thread:      *)
Serve ==
  /\ ui = "serve" /\ left > 0
  /\ T!Serve
  /\ left' = left - 1
  /\ UNCHANGED <<pc, sockets, thread, quit, eventfd, ui, revents, walk, waitStop, shut>>

(* it comes back for sure where the client makes room or has hung up. *)
ServeReturns ==
  /\ left > 0 /\ (Head(pending) \in Deaf => hungUp[Head(pending)])
  /\ Serve

(* pthread_join, which waits for the thread's end; the worker is freed. *)
JoinWorker(c) ==
  /\ pc[c] = "ended"
  /\ Goto(c, "gone")
  /\ done' = [done EXCEPT ![c] = FALSE]

(* Then reap: of the workers in the list now, those found done are joined.  *)
ReapBegin ==
  /\ left = 0 /\ Ui("serve", "reap")
  /\ walk' = Workers
  /\ UNCHANGED <<calls, pc, sockets, thread, quit, eventfd, revents, left, waitStop, shut>>
ReapStaysOnJoined(c) ==
  /\ ui = "reap" /\ c \in walk
  /\ IF done[c] THEN JoinWorker(c) /\ UNCHANGED walk
     ELSE walk' = walk \ {c} /\ UNCHANGED <<pc, done>>
  /\ UNCHANGED <<calls, sockets, buf, quitRequested, quitAnswered, quit, eventfd, ui,
                 revents, left, waitStop, shut>>
ReapVisit(c) ==
  /\ ui = "reap" /\ c \in walk
  /\ IF done[c] THEN JoinWorker(c) ELSE UNCHANGED <<pc, done>>
  /\ walk' = walk \ {c}
  /\ UNCHANGED <<calls, sockets, buf, quitRequested, quitAnswered, quit, eventfd, ui,
                 revents, left, waitStop, shut>>
ReapThenDrain ==
  /\ walk = {} /\ Ui("reap", "top")
  /\ eventfd' = FALSE
  /\ UNCHANGED <<calls, pc, sockets, thread, quit, revents, left, walk, waitStop, shut>>
ReapEnd ==
  /\ walk = {} /\ Ui("reap", "top")
  /\ UNCHANGED <<calls, pc, sockets, thread, quit, eventfd, revents, left, walk, waitStop,
                 shut>>

(***************************************************************************)
(* The UI thread: shutdown.                                                *)
(***************************************************************************)
StopTasks ==
  /\ Ui("stopTasks", "stopInstances")
  /\ T!Close
  /\ UNCHANGED <<pc, sockets, thread, quit, eventfd, revents, left, walk, waitStop, shut>>
KeepWaits ==
  /\ Ui("stopInstances", "shutdown")
  /\ UNCHANGED <<calls, pc, sockets, thread, quit, eventfd, revents, left, walk, waitStop,
                 shut>>
StopInstances ==
  /\ Ui("stopInstances", "shutdown")
  /\ waitStop' = TRUE
  /\ UNCHANGED <<calls, pc, sockets, thread, quit, eventfd, revents, left, walk, shut>>

(* daemon_workers_stop: under the workers' mutex, shutdown() on every      *)
(* descriptor not closed yet; then pthread_join, one after the other.      *)
ShutdownSockets ==
  /\ Ui("shutdown", "join")
  /\ shut' = TRUE
  /\ UNCHANGED <<calls, pc, sockets, thread, quit, eventfd, revents, left, walk, waitStop>>
Join(c) ==
  /\ ui = "join" /\ JoinWorker(c)
  /\ UNCHANGED <<calls, sockets, buf, quitRequested, quitAnswered, quit, eventfd, uiVars>>

FreeUnjoined ==
  /\ (\A c \in Workers : done[c]) /\ Ui("join", "exited")
  /\ UNCHANGED <<calls, pc, sockets, thread, quit, eventfd, revents, left, walk, waitStop,
                 shut>>

(* Dialogs, plugins, styles, the listening socket and the task queue with  *)
(* its eventfd and mutex are gone.                                         *)
Free ==
  /\ Workers = {} /\ Ui("join", "exited")
  /\ UNCHANGED <<calls, pc, sockets, thread, quit, eventfd, revents, left, walk, waitStop,
                 shut>>

WorkerRun(c) ==
  \/ Iterate(c) \/ QuitWakeup(c)
  \/ PollHangup(c) \/ PollReadable(c) \/ PollTimeout(c)
  \/ Handle(c) \/ WaitStopped(c)
  \/ Submit(c) \/ SubmitRefused(c) \/ CallReturns(c)
  \/ RespondBroken(c) \/ Publish(c) \/ EndWakeup(c)
WorkerMay(c) == WaitFinishes(c) \/ SubmitFails(c) \/ Respond(c)
Client(c)    == Connect(c) \/ Send(c) \/ HangUp(c)

UiRun ==
  \/ LoopTop \/ Poll \/ Accept \/ Dispatch \/ ServeReturns
  \/ ReapBegin \/ (\E c \in Conns : ReapVisit(c)) \/ ReapEnd
  \/ StopTasks \/ StopInstances \/ ShutdownSockets
  \/ (\E c \in Conns : Join(c)) \/ Free

Next == UiRun \/ PollFails \/ Serve \/ \E c \in Conns : WorkerRun(c) \/ WorkerMay(c) \/ Client(c)

(* Threads are scheduled.  That a dialog finishes, that a client makes room *)
(* for its response, and a deaf one for an answer, is left to the user and *)
(* the client.                                                             *)
Fairness == WF_vars(UiRun) /\ \A c \in Conns : WF_vars(WorkerRun(c))

Spec     == Init /\ [][Next]_vars
FairSpec == Spec /\ Fairness

-----------------------------------------------------------------------------
(***************************************************************************)
(* Properties.                                                             *)
(***************************************************************************)
Pcs == Outside \union {"iter", "wakeup", "poll", "handle", "submit", "call", "wait",
                       "respond", "exit", "published", "ended"}
UiPcs == {"top", "poll", "accept", "dispatch", "serve", "reap", "stopTasks",
          "stopInstances", "shutdown", "join", "exited"}

TypeOK ==
  /\ pc \in [Conns -> Pcs] /\ ui \in UiPcs
  /\ inbox \in [Conns -> Seq(Requests)] /\ buf \in [Conns -> Seq(Requests)]
  /\ sends \in 0..MaxMessages /\ retcode \in {0, 1}
  /\ revents \in SUBSET {"accept", "tasks"}
  /\ left \in 0..Len(pending) /\ walk \subseteq Workers

(* A task borrows its request from the thread that submitted it: as long   *)
(* as the UI thread can reach a task, that thread is inside the call, its  *)
(* connection and message alive, whatever the client does meanwhile; and   *)
(* the snapshot being served is part of what is pending (TypeOK).          *)
BorrowedRequestAlive ==
  /\ TypeOK
  /\ \A i \in DOMAIN pending : pc[pending[i]] = "call"

(* The daemon stops on request only after the response to the request.     *)
QuitAnsweredFirst == doQuit => quitAnswered \/ retcode # 0

(* After the UI resources and the task queue are freed no thread writes    *)
(* the eventfd, uses the queue or publishes anything.                      *)
NothingAfterFree == [][ui = "exited" => UNCHANGED <<calls, thread, eventfd, quit>>]_vars

(* "It shuts down client sockets to interrupt blocked reads and writes,    *)
(* joins workers, and finally frees UI resources" (architecture.md): after *)
(* a quit request, or an error of the main loop, the daemon exits whatever *)
(* its connections are doing -- reading, blocked in a send, in a UI call,  *)
(* in a wait no dialog will end.  It holds as long as no client is deaf.   *)
ShutdownCompletes ==
  doQuit \/ (\E c \in Conns : pc[c] = "iter" /\ quitRequested[c]) ~> ui = "exited"

(* The thread of a finished connection is joined, not left for shutdown:   *)
(* its wakeup cannot be consumed before its end is published.              *)
WorkersReaped == \A c \in Conns : pc[c] = "ended" ~> pc[c] = "gone"
=============================================================================
