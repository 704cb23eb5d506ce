------------------------------- MODULE UiTask -------------------------------
(***************************************************************************)
(* The queue that carries UI work from the connection threads ("workers")  *)
(* to the UI thread: src/src/daemon_task.c.  A worker allocates a task,    *)
(* inserts it under the mutex, writes the eventfd and sleeps on the        *)
(* condition variable until the task is done; the UI thread drains the     *)
(* eventfd, detaches the whole list, runs the handler on each task without *)
(* the mutex and completes it under the mutex.  The completed state is     *)
(* freed by its worker, so a task is named by its worker and the number of *)
(* the call: <<w, n>> is allocated exactly while w is inside call n.       *)
(***************************************************************************)
EXTENDS Integers, Sequences

CONSTANTS
  Workers,     \* connection threads
  MaxCalls,    \* bound: submissions one worker makes
  None         \* "no thread": the mutex is free

ASSUME ConstAssumption == MaxCalls \in Nat /\ None \notin Workers

VARIABLES
  calls,       \* calls[w]: tasks w has allocated so far
  pc,          \* pc[w]: where w stands in create / submit_and_wait
  done, rc,    \* the fields of the state w has allocated
  runs,        \* history: how often the handler ran on that state
  result,      \* result[w]: what submit_and_wait last returned to w
  queue,       \* the list "tasks"
  snapshot,    \* the list the UI thread has detached, head in hand
  ui, uiRc,    \* where the UI thread stands, and the handler's rc it holds
  turns,       \* history: tasks of w handled since the last list was detached
  mutex,       \* the worker that holds the mutex across the eventfd write
  eventfd,     \* the eventfd counter is not zero
  stopping

memory == <<calls, done, rc, runs, result>>
uiVars == <<snapshot, ui, uiRc, turns>>
vars   == <<memory, pc, queue, uiVars, mutex, eventfd, stopping>>

Task(w)   == <<w, calls[w]>>
Live(t)   == pc[t[1]] # "idle" /\ t[2] = calls[t[1]]
Codes     == {0, -1}
WorkerPcs == {"idle", "created", "inserted", "waiting", "awake"}
UiPcs     == {"poll", "drained", "walk", "handled", "stopped"}

(* pthread_cond_broadcast: every sleeping worker now competes for the mutex. *)
Broadcast == [w \in Workers |-> IF pc[w] = "waiting" THEN "awake" ELSE pc[w]]

Init ==
  /\ calls  = [w \in Workers |-> 0]
  /\ pc     = [w \in Workers |-> "idle"]
  /\ done   = [w \in Workers |-> FALSE]
  /\ rc     = [w \in Workers |-> 0]
  /\ runs   = [w \in Workers |-> 0]
  /\ result = [w \in Workers |-> -1]
  /\ queue = <<>> /\ snapshot = <<>>
  /\ ui = "poll" /\ uiRc = 0 /\ turns = [w \in Workers |-> 0]
  /\ mutex = None /\ eventfd = FALSE /\ stopping = FALSE

(***************************************************************************)
(* Workers.                                                                *)
(***************************************************************************)
(* calloc of the task state; when it fails nothing changes. *)
Create(w) ==
  /\ pc[w] = "idle" /\ calls[w] < MaxCalls
  /\ calls' = [calls EXCEPT ![w] = @ + 1]
  /\ done'  = [done EXCEPT ![w] = FALSE]
  /\ rc'    = [rc EXCEPT ![w] = 0]
  /\ runs'  = [runs EXCEPT ![w] = 0]
  /\ pc'    = [pc EXCEPT ![w] = "created"]
  /\ UNCHANGED <<result, queue, uiVars, mutex, eventfd, stopping>>

(* submit_and_wait gives up with -1 and frees the state. *)
Refused(w) ==
  /\ result' = [result EXCEPT ![w] = -1]
  /\ pc'     = [pc EXCEPT ![w] = "idle"]
  /\ UNCHANGED <<calls, done, rc, runs>>

SubmitRefused(w) ==
  /\ pc[w] = "created" /\ mutex = None /\ stopping
  /\ Refused(w)
  /\ UNCHANGED <<queue, uiVars, mutex, eventfd, stopping>>

(* Faulty variants are named after the slip they contain; a mutation run   *)
(* puts one in the place of the action it precedes.                        *)
InsertIgnoringStop(w) ==
  /\ pc[w] = "created" /\ mutex = None
  /\ queue' = Append(queue, Task(w))
  /\ mutex' = w
  /\ pc'    = [pc EXCEPT ![w] = "inserted"]
  /\ UNCHANGED <<memory, uiVars, eventfd, stopping>>
InsertAtHead(w) ==
  /\ pc[w] = "created" /\ mutex = None /\ ~stopping
  /\ queue' = <<Task(w)>> \o queue
  /\ mutex' = w
  /\ pc'    = [pc EXCEPT ![w] = "inserted"]
  /\ UNCHANGED <<memory, uiVars, eventfd, stopping>>

(* The insertion; the mutex stays held while the eventfd is written. *)
SubmitInsert(w) ==
  /\ pc[w] = "created" /\ mutex = None /\ ~stopping
  /\ queue' = Append(queue, Task(w))
  /\ mutex' = w
  /\ pc'    = [pc EXCEPT ![w] = "inserted"]
  /\ UNCHANGED <<memory, uiVars, eventfd, stopping>>

(* The write, or EAGAIN on a full counter; then pthread_cond_wait. *)
SubmitWakeup(w) ==
  /\ pc[w] = "inserted" /\ mutex = w
  /\ eventfd' = TRUE
  /\ mutex'   = None
  /\ pc'      = [pc EXCEPT ![w] = "waiting"]
  /\ UNCHANGED <<memory, queue, uiVars, stopping>>

FailWithoutRemove(w) ==
  /\ pc[w] = "inserted" /\ mutex = w
  /\ mutex' = None
  /\ Refused(w)
  /\ UNCHANGED <<queue, uiVars, eventfd, stopping>>

(* Any other error of the write: the task, still the last one, is removed. *)
SubmitWakeupFails(w) ==
  /\ pc[w] = "inserted" /\ mutex = w
  /\ queue' = SubSeq(queue, 1, Len(queue) - 1)
  /\ mutex' = None
  /\ Refused(w)
  /\ UNCHANGED <<uiVars, eventfd, stopping>>

(* POSIX lets pthread_cond_wait return without a broadcast. *)
SpuriousWakeup(w) ==
  /\ pc[w] = "waiting"
  /\ pc' = [pc EXCEPT ![w] = "awake"]
  /\ UNCHANGED <<memory, queue, uiVars, mutex, eventfd, stopping>>

(* The mutex is back: test "done" again. *)
SleepAgain(w) ==
  /\ pc[w] = "awake" /\ mutex = None /\ ~done[w]
  /\ pc' = [pc EXCEPT ![w] = "waiting"]
  /\ UNCHANGED <<memory, queue, uiVars, mutex, eventfd, stopping>>

Return(w) ==
  /\ pc[w] = "awake" /\ mutex = None /\ done[w]
  /\ result' = [result EXCEPT ![w] = rc[w]]
  /\ pc'     = [pc EXCEPT ![w] = "idle"]
  /\ UNCHANGED <<calls, done, rc, runs, queue, uiVars, mutex, eventfd, stopping>>

(* daemon_task_wakeup: a quit request, or a connection that has ended. *)
Wakeup(w) ==
  /\ pc[w] = "idle"
  /\ eventfd' = TRUE
  /\ UNCHANGED <<memory, pc, queue, uiVars, mutex, stopping>>

(***************************************************************************)
(* The UI thread.                                                          *)
(***************************************************************************)
(* poll() reported the eventfd: daemon_task_dispatch reads it until EAGAIN, *)
(* before it takes the mutex.                                              *)
Drain ==
  /\ ui = "poll" /\ eventfd
  /\ eventfd' = FALSE
  /\ ui' = "drained"
  /\ UNCHANGED <<memory, pc, queue, snapshot, uiRc, turns, mutex, stopping>>

Detach ==
  /\ ui = "drained" /\ mutex = None
  /\ snapshot' = queue
  /\ queue' = <<>>
  /\ ui' = IF queue = <<>> THEN "poll" ELSE "walk"
  /\ turns' = [w \in Workers |-> 0]
  /\ UNCHANGED <<memory, pc, uiRc, mutex, eventfd, stopping>>

(* The handler of the head task, outside the mutex. *)
Handle ==
  /\ ui = "walk"
  /\ \E code \in Codes : uiRc' = code
  /\ runs'  = [runs EXCEPT ![Head(snapshot)[1]] = @ + 1]
  /\ turns' = [turns EXCEPT ![Head(snapshot)[1]] = @ + 1]
  /\ ui' = "handled"
  /\ UNCHANGED <<calls, done, rc, result, pc, queue, snapshot, mutex, eventfd,
                 stopping>>

CompleteAndRetry ==
  /\ ui = "handled" /\ mutex = None
  /\ LET w == Head(snapshot)[1] IN
       /\ rc'   = [rc EXCEPT ![w] = uiRc]
       /\ done' = [done EXCEPT ![w] = uiRc = 0]
  /\ pc' = Broadcast
  /\ snapshot' = IF uiRc = 0 THEN Tail(snapshot) ELSE snapshot
  /\ ui' = IF snapshot' = <<>> THEN "poll" ELSE "walk"
  /\ UNCHANGED <<calls, runs, result, queue, uiRc, turns, mutex, eventfd, stopping>>
CompleteThenDrain ==
  /\ ui = "handled" /\ mutex = None
  /\ LET w == Head(snapshot)[1] IN
       /\ rc'   = [rc EXCEPT ![w] = uiRc]
       /\ done' = [done EXCEPT ![w] = TRUE]
  /\ pc' = Broadcast
  /\ snapshot' = Tail(snapshot)
  /\ ui' = IF Tail(snapshot) = <<>> THEN "poll" ELSE "walk"
  /\ eventfd' = (eventfd /\ Tail(snapshot) # <<>>)
  /\ UNCHANGED <<calls, runs, result, queue, uiRc, turns, mutex, stopping>>
CompleteAndRefill ==
  /\ ui = "handled" /\ mutex = None
  /\ LET w == Head(snapshot)[1] IN
       /\ rc'   = [rc EXCEPT ![w] = uiRc]
       /\ done' = [done EXCEPT ![w] = TRUE]
  /\ pc' = Broadcast
  /\ snapshot' = Tail(snapshot) \o queue
  /\ queue' = <<>>
  /\ ui' = IF snapshot' = <<>> THEN "poll" ELSE "walk"
  /\ UNCHANGED <<calls, runs, result, uiRc, turns, mutex, eventfd, stopping>>

(* Completion.  The next pointer was read before it, so the state the      *)
(* worker is now free to release has left the list the thread walks.       *)
Complete ==
  /\ ui = "handled" /\ mutex = None
  /\ LET w == Head(snapshot)[1] IN
       /\ rc'   = [rc EXCEPT ![w] = uiRc]
       /\ done' = [done EXCEPT ![w] = TRUE]
  /\ pc' = Broadcast
  /\ snapshot' = Tail(snapshot)
  /\ ui' = IF Tail(snapshot) = <<>> THEN "poll" ELSE "walk"
  /\ UNCHANGED <<calls, runs, result, queue, uiRc, turns, mutex, eventfd, stopping>>

(* daemon_task_stop, after the main loop: nothing is dispatched any more. *)
Stop ==
  /\ ui = "poll" /\ mutex = None
  /\ stopping' = TRUE
  /\ LET InQueue(w) == \E i \in DOMAIN queue : queue[i][1] = w IN
       /\ rc'   = [w \in Workers |-> IF InQueue(w) THEN -1 ELSE rc[w]]
       /\ done' = [w \in Workers |-> InQueue(w) \/ done[w]]
  /\ queue' = <<>>
  /\ pc' = Broadcast
  /\ ui' = "stopped"
  /\ UNCHANGED <<calls, runs, result, snapshot, uiRc, turns, mutex, eventfd>>

(* What a running worker does next, and what it may do. *)
WorkerRun(w) ==
  \/ SubmitRefused(w) \/ SubmitInsert(w)
  \/ SubmitWakeup(w) \/ SubmitWakeupFails(w)
  \/ SleepAgain(w) \/ Return(w)
WorkerMay(w) == Create(w) \/ SpuriousWakeup(w) \/ Wakeup(w)

UiRun == Drain \/ Detach \/ Handle \/ Complete

Next == UiRun \/ Stop \/ \E w \in Workers : WorkerRun(w) \/ WorkerMay(w)

(* Threads are scheduled: one that can take a step takes one eventually.   *)
(* Nothing obliges a worker to start a call or a wakeup to be spurious, or *)
(* the daemon to stop.  The mutex is held across one step only, so weak    *)
(* fairness is enough for the finitely many calls of the bound.            *)
Fairness == WF_vars(UiRun) /\ \A w \in Workers : WF_vars(WorkerRun(w))

Spec     == Init /\ [][Next]_vars
FairSpec == Spec /\ Fairness

-----------------------------------------------------------------------------
(***************************************************************************)
(* Properties.                                                             *)
(***************************************************************************)
Tasks == Workers \X (1..MaxCalls)

(* Types.  The handler runs at most once on one allocated state. *)
TypeOK ==
  /\ calls  \in [Workers -> 0..MaxCalls]
  /\ pc     \in [Workers -> WorkerPcs]
  /\ done   \in [Workers -> BOOLEAN]
  /\ rc     \in [Workers -> Codes]
  /\ runs   \in [Workers -> 0..1]
  /\ result \in [Workers -> Codes]
  /\ queue  \in Seq(Tasks) /\ snapshot \in Seq(Tasks)
  /\ ui \in UiPcs /\ uiRc \in Codes /\ turns \in [Workers -> Nat]
  /\ mutex \in Workers \union {None}
  /\ eventfd \in BOOLEAN /\ stopping \in BOOLEAN

(* No use after free: whatever the UI thread can still reach, in the list  *)
(* or in its detached snapshot, belongs to a call whose worker has not     *)
(* freed it, and that worker is not done, so it is not about to.           *)
NoUseAfterFree ==
  \A s \in {queue, snapshot} : \A i \in DOMAIN s :
    Live(s[i]) /\ ~done[s[i][1]] /\ pc[s[i][1]] # "created"

(* No lost wakeup: between dispatches, a published task has its eventfd    *)
(* signal pending, whatever moment of the previous dispatch it came in at. *)
NoLostWakeup == ui = "poll" /\ queue # <<>> /\ mutex = None => eventfd

(* A dispatch is bounded: before the UI thread polls again it handles at   *)
(* most one task of each worker.  A worker that is answered while the      *)
(* thread still walks may submit its next call at once, and again; those   *)
(* wait for a later dispatch, so busy clients cannot hold the terminal and *)
(* the child processes off for ever.                                       *)
BoundedDispatch == \A w \in Workers : turns[w] <= 1

(* Every submitted call comes back, served or refused, at any moment of a  *)
(* dispatch and of the shutdown.                                           *)
CallsReturn == \A w \in Workers : pc[w] # "idle" ~> pc[w] = "idle"

(* Refinement.  A call is pending from its eventfd write until completion. *)
Phase == [w \in Workers |->
  IF pc[w] \notin {"waiting", "awake"} THEN "idle"
  ELSE IF done[w] THEN "answered" ELSE "pending"]
Outcome == [w \in Workers |-> IF Phase[w] = "answered" THEN rc[w] ELSE result[w]]
Published == snapshot \o (IF mutex = None THEN queue
                          ELSE SubSeq(queue, 1, Len(queue) - 1))
Callers(s) == [i \in DOMAIN s |-> s[i][1]]

Calls == INSTANCE TaskCalls WITH
  phase <- Phase, answer <- Outcome, pending <- Callers(Published), closed <- stopping
FifoCalls == Calls!Spec
=============================================================================
