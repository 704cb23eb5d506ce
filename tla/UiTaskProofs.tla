---------------------------- MODULE UiTaskProofs ----------------------------
(***************************************************************************)
(* Proofs about UiTask, for any set of workers and any number of calls.    *)
(***************************************************************************)
EXTENDS UiTask, TLAPS

(* The UI thread walks a snapshot exactly while there is one. *)
WalkInv == (ui \in {"walk", "handled"}) <=> (snapshot # <<>>)

(* A worker inside a call has allocated a task; before it sleeps the task  *)
(* is neither run nor done, and it holds the mutex exactly when inserted.  *)
WorkerInv ==
  \A w \in Workers :
    /\ pc[w] # "idle" => calls[w] >= 1
    /\ pc[w] \in {"created", "inserted"} => ~done[w] /\ runs[w] = 0
    /\ pc[w] = "inserted" <=> mutex = w
    /\ mutex = w => queue # <<>> /\ queue[Len(queue)][1] = w

(* A task in the list is the current one of a worker inside its call, not  *)
(* run and not done, and a worker has one task at most in it.              *)
QueueInv ==
  /\ \A i \in DOMAIN queue : LET w == queue[i][1] IN
       /\ queue[i] = Task(w)
       /\ pc[w] \in {"inserted", "waiting", "awake"}
       /\ ~done[w] /\ runs[w] = 0
  /\ \A i, j \in DOMAIN queue : queue[i][1] = queue[j][1] => i = j

(* So is a task in the snapshot, but for the handler that ran on its head; *)
(* its worker sleeps or is waking up, and has no task in the list.         *)
SnapshotInv ==
  /\ \A i \in DOMAIN snapshot : LET w == snapshot[i][1] IN
       /\ snapshot[i] = Task(w)
       /\ pc[w] \in {"waiting", "awake"}
       /\ ~done[w]
       /\ runs[w] = IF i = 1 /\ ui = "handled" THEN 1 ELSE 0
  /\ \A i, j \in DOMAIN snapshot : snapshot[i][1] = snapshot[j][1] => i = j
  /\ \A i \in DOMAIN snapshot, j \in DOMAIN queue : snapshot[i][1] # queue[j][1]

IInv == TypeOK /\ WalkInv /\ WorkerInv /\ QueueInv /\ SnapshotInv

(* Past the drain of a dispatch, a list with more in it than the task whose *)
(* eventfd write is under way has been signalled.                          *)
Signalled ==
  ui # "drained" /\ Len(queue) > (IF mutex = None THEN 0 ELSE 1) => eventfd

-----------------------------------------------------------------------------
USE DEF Task, Tasks, Codes, WorkerPcs, UiPcs

(* The initial state satisfies the inductive invariant. *)
LEMMA InitIInv == Init => IInv
<1> SUFFICES ASSUME Init PROVE IInv
  OBVIOUS
<1> USE ConstAssumption DEF Init
<1>1. TypeOK
  <2>1. /\ calls \in [Workers -> 0..MaxCalls] /\ runs \in [Workers -> 0..1]
        /\ pc \in [Workers -> WorkerPcs] /\ done \in [Workers -> BOOLEAN]
    OBVIOUS
  <2>2. /\ rc \in [Workers -> Codes] /\ result \in [Workers -> Codes]
        /\ turns \in [Workers -> Nat]
    OBVIOUS
  <2>3. queue \in Seq(Tasks) /\ snapshot \in Seq(Tasks)
    OBVIOUS
  <2> QED
    BY <2>1, <2>2, <2>3 DEF TypeOK
<1>2. WalkInv
  BY DEF WalkInv
<1>3. WorkerInv
  BY DEF WorkerInv
<1>4. QueueInv /\ SnapshotInv
  BY DEF QueueInv, SnapshotInv
<1> QED
  BY <1>1, <1>2, <1>3, <1>4 DEF IInv

(* Types are preserved, given what the other parts say of runs and calls. *)
LEMMA StepType == IInv /\ [Next]_vars => TypeOK'
<1> SUFFICES ASSUME IInv, [Next]_vars PROVE TypeOK'
  OBVIOUS
<1> USE ConstAssumption DEF IInv, TypeOK, memory, uiVars
<1>1. ASSUME NEW w \in Workers, Create(w) PROVE TypeOK'
  BY <1>1 DEF Create
<1>2. ASSUME NEW w \in Workers, SubmitRefused(w) PROVE TypeOK'
  BY <1>2 DEF SubmitRefused, Refused
<1>3. ASSUME NEW w \in Workers, SubmitInsert(w) PROVE TypeOK'
  <2>1. <<w, calls[w]>> \in Workers \X (1..MaxCalls)
    BY <1>3 DEF SubmitInsert, WorkerInv
  <2> QED
    BY <1>3, <2>1 DEF SubmitInsert
<1>4. ASSUME NEW w \in Workers, SubmitWakeup(w) PROVE TypeOK'
  BY <1>4 DEF SubmitWakeup
<1>5. ASSUME NEW w \in Workers, SubmitWakeupFails(w) PROVE TypeOK'
  <2>1. SubSeq(queue, 1, Len(queue) - 1) \in Seq(Workers \X (1..MaxCalls))
    BY <1>5 DEF SubmitWakeupFails, WorkerInv
  <2> QED
    BY <1>5, <2>1 DEF SubmitWakeupFails, Refused
<1>6. ASSUME NEW w \in Workers, SpuriousWakeup(w) PROVE TypeOK'
  BY <1>6 DEF SpuriousWakeup
<1>7. ASSUME NEW w \in Workers, SleepAgain(w) PROVE TypeOK'
  BY <1>7 DEF SleepAgain
<1>8. ASSUME NEW w \in Workers, Return(w) PROVE TypeOK'
  BY <1>8 DEF Return
<1>9. ASSUME NEW w \in Workers, Wakeup(w) PROVE TypeOK'
  BY <1>9 DEF Wakeup
<1>10. CASE Drain
  BY <1>10 DEF Drain
<1>11. CASE Detach
  BY <1>11 DEF Detach
<1>12. CASE Handle
  <2>1. /\ Head(snapshot)[1] \in Workers
        /\ runs[Head(snapshot)[1]] = 0
    BY <1>12 DEF Handle, WalkInv, SnapshotInv
  <2> QED
    BY <1>12, <2>1 DEF Handle
<1>13. CASE Complete
  <2>1. snapshot # <<>>
    BY <1>13 DEF Complete, WalkInv
  <2>2. Head(snapshot)[1] \in Workers
    BY <2>1
  <2>3. Tail(snapshot) \in Seq(Workers \X (1..MaxCalls))
    BY <2>1
  <2> QED
    BY <1>13, <2>2, <2>3 DEF Complete, Broadcast
<1>14. CASE Stop
  BY <1>14 DEF Stop, Broadcast
<1>15. CASE UNCHANGED vars
  BY <1>15 DEF vars
<1> QED
  BY <1>1, <1>2, <1>3, <1>4, <1>5, <1>6, <1>7, <1>8, <1>9, <1>10, <1>11, <1>12, <1>13,
     <1>14, <1>15 DEF Next, UiRun, WorkerRun, WorkerMay

(* The UI thread walks exactly while a snapshot is left. *)
LEMMA StepWalk == IInv /\ [Next]_vars => WalkInv'
<1> SUFFICES ASSUME IInv, [Next]_vars PROVE WalkInv'
  OBVIOUS
<1> USE ConstAssumption DEF IInv, TypeOK, WalkInv, memory, uiVars
<1>1. ASSUME NEW w \in Workers, Create(w) PROVE WalkInv'
  BY <1>1 DEF Create
<1>2. ASSUME NEW w \in Workers, SubmitRefused(w) PROVE WalkInv'
  BY <1>2 DEF SubmitRefused, Refused
<1>3. ASSUME NEW w \in Workers, SubmitInsert(w) PROVE WalkInv'
  BY <1>3 DEF SubmitInsert
<1>4. ASSUME NEW w \in Workers, SubmitWakeup(w) PROVE WalkInv'
  BY <1>4 DEF SubmitWakeup
<1>5. ASSUME NEW w \in Workers, SubmitWakeupFails(w) PROVE WalkInv'
  BY <1>5 DEF SubmitWakeupFails, Refused
<1>6. ASSUME NEW w \in Workers, SpuriousWakeup(w) PROVE WalkInv'
  BY <1>6 DEF SpuriousWakeup
<1>7. ASSUME NEW w \in Workers, SleepAgain(w) PROVE WalkInv'
  BY <1>7 DEF SleepAgain
<1>8. ASSUME NEW w \in Workers, Return(w) PROVE WalkInv'
  BY <1>8 DEF Return
<1>9. ASSUME NEW w \in Workers, Wakeup(w) PROVE WalkInv'
  BY <1>9 DEF Wakeup
<1>10. CASE Drain
  BY <1>10 DEF Drain
<1>11. CASE Detach
  BY <1>11 DEF Detach
<1>12. CASE Handle
  BY <1>12 DEF Handle
<1>13. CASE Complete
  BY <1>13 DEF Complete, Broadcast
<1>14. CASE Stop
  BY <1>14 DEF Stop, Broadcast
<1>15. CASE UNCHANGED vars
  BY <1>15 DEF vars
<1> QED
  BY <1>1, <1>2, <1>3, <1>4, <1>5, <1>6, <1>7, <1>8, <1>9, <1>10, <1>11, <1>12, <1>13,
     <1>14, <1>15 DEF Next, UiRun, WorkerRun, WorkerMay

(* What the last insertion taken back leaves of the list.                  *)
LEMMA ButLast ==
  ASSUME NEW S, NEW s \in Seq(S), s # <<>>
  PROVE  /\ Len(s) \in DOMAIN s
         /\ DOMAIN SubSeq(s, 1, Len(s) - 1) = 1..Len(s) - 1
         /\ DOMAIN SubSeq(s, 1, Len(s) - 1) = DOMAIN s \ {Len(s)}
         /\ \A i \in 1..Len(s) - 1 : SubSeq(s, 1, Len(s) - 1)[i] = s[i]
OBVIOUS

(* While the UI thread handles a task, its worker waits and is not in the  *)
(* list.                                                                   *)
LEMMA HeadWaits ==
  ASSUME IInv, ui \in {"walk", "handled"}
  PROVE  /\ snapshot # <<>>
         /\ Head(snapshot)[1] \in Workers
         /\ pc[Head(snapshot)[1]] \in {"waiting", "awake"}
         /\ \A j \in DOMAIN queue : queue[j][1] # Head(snapshot)[1]
<1>1. snapshot # <<>> /\ snapshot \in Seq(Tasks)
  BY DEF IInv, TypeOK, WalkInv
<1>2. 1 \in DOMAIN snapshot /\ Head(snapshot) = snapshot[1] /\ snapshot[1] \in Tasks
  BY <1>1
<1> QED
  BY <1>1, <1>2 DEF IInv, SnapshotInv, Tasks

(* What holds of every worker is preserved. *)
LEMMA StepWorker == IInv /\ [Next]_vars => WorkerInv'
<1> SUFFICES ASSUME IInv, [Next]_vars PROVE WorkerInv'
  OBVIOUS
<1> USE ConstAssumption DEF IInv, TypeOK, WorkerInv, memory, uiVars
<1>1. ASSUME NEW w \in Workers, Create(w) PROVE WorkerInv'
  BY <1>1 DEF Create
<1>2. ASSUME NEW w \in Workers, SubmitRefused(w) PROVE WorkerInv'
  BY <1>2 DEF SubmitRefused, Refused
<1>3. ASSUME NEW w \in Workers, SubmitInsert(w) PROVE WorkerInv'
  <2>1. /\ queue' # <<>>
        /\ queue'[Len(queue')][1] = w
    <3>1. queue' = Append(queue, <<w, calls[w]>>) /\ queue \in Seq(Tasks)
      BY <1>3 DEF SubmitInsert
    <3> QED
      BY ONLY <3>1
  <2>2. /\ pc[w] = "created" /\ mutex = None /\ mutex' = w
        /\ pc' = [pc EXCEPT ![w] = "inserted"] /\ UNCHANGED <<calls, done, runs>>
    BY <1>3 DEF SubmitInsert
  <2> QED
    BY <2>1, <2>2
<1>4. ASSUME NEW w \in Workers, SubmitWakeup(w) PROVE WorkerInv'
  BY <1>4 DEF SubmitWakeup
<1>5. ASSUME NEW w \in Workers, SubmitWakeupFails(w) PROVE WorkerInv'
  BY <1>5 DEF SubmitWakeupFails, Refused
<1>6. ASSUME NEW w \in Workers, SpuriousWakeup(w) PROVE WorkerInv'
  BY <1>6 DEF SpuriousWakeup
<1>7. ASSUME NEW w \in Workers, SleepAgain(w) PROVE WorkerInv'
  BY <1>7 DEF SleepAgain
<1>8. ASSUME NEW w \in Workers, Return(w) PROVE WorkerInv'
  BY <1>8 DEF Return
<1>9. ASSUME NEW w \in Workers, Wakeup(w) PROVE WorkerInv'
  BY <1>9 DEF Wakeup
<1>10. CASE Drain
  BY <1>10 DEF Drain
<1>11. CASE Detach
  BY <1>11 DEF Detach
<1>12. CASE Handle
  <2>1. Head(snapshot)[1] \in Workers /\ pc[Head(snapshot)[1]] \in {"waiting", "awake"}
    BY <1>12, HeadWaits DEF Handle
  <2> QED
    BY <1>12, <2>1 DEF Handle
<1>13. CASE Complete
  <2>1. Head(snapshot)[1] \in Workers /\ pc[Head(snapshot)[1]] \in {"waiting", "awake"}
    BY <1>13, HeadWaits DEF Complete
  <2> QED
    BY <1>13, <2>1 DEF Complete, Broadcast
<1>14. CASE Stop
  <2>1. \A w \in Workers : pc[w] = "created" => \A i \in DOMAIN queue : queue[i][1] # w
    BY DEF QueueInv
  <2>2. \A w \in Workers : pc[w] # "inserted"
    BY <1>14 DEF Stop
  <2> QED
    BY <1>14, <2>1, <2>2 DEF Stop, Broadcast
<1>15. CASE UNCHANGED vars
  BY <1>15 DEF vars
<1> QED
  BY <1>1, <1>2, <1>3, <1>4, <1>5, <1>6, <1>7, <1>8, <1>9, <1>10, <1>11, <1>12, <1>13,
     <1>14, <1>15 DEF Next, UiRun, WorkerRun, WorkerMay

(* What holds of the list is preserved. *)
LEMMA StepQueue == IInv /\ [Next]_vars => QueueInv'
<1> SUFFICES ASSUME IInv, [Next]_vars PROVE QueueInv'
  OBVIOUS
<1> USE ConstAssumption DEF IInv, TypeOK, QueueInv, memory, uiVars
<1>1. ASSUME NEW w \in Workers, Create(w) PROVE QueueInv'
  <2>0. \A i \in DOMAIN queue : queue[i] \in Tasks
    OBVIOUS
  <2>1. queue' = queue /\ \A i \in DOMAIN queue : queue[i][1] # w /\ queue[i][1] \in Workers
    <3>1. queue' = queue /\ pc[w] = "idle"
      BY <1>1 DEF Create
    <3>2. \A i \in DOMAIN queue : queue[i][1] \in Workers
      BY <2>0 DEF Tasks
    <3>3. \A i \in DOMAIN queue : pc[queue[i][1]] \in {"inserted", "waiting", "awake"}
      BY DEF QueueInv
    <3> QED
      BY <3>1, <3>2, <3>3
  <2>2. \A v \in Workers : v # w => pc'[v] = pc[v] /\ done'[v] = done[v] /\ runs'[v] = runs[v]
                                     /\ calls'[v] = calls[v]
    BY <1>1 DEF Create
  <2>3. \A v \in Workers : v # w => Task(v)' = Task(v)
    BY <2>2 DEF Task
  <2>4. QueueInv
    OBVIOUS
  <2> HIDE DEF IInv, TypeOK
  <2> QED
    BY <2>1, <2>2, <2>3, <2>4
<1>2. ASSUME NEW w \in Workers, SubmitRefused(w) PROVE QueueInv'
  BY <1>2 DEF SubmitRefused, Refused
<1>3. ASSUME NEW w \in Workers, SubmitInsert(w) PROVE QueueInv'
  <2>1. /\ DOMAIN queue = 1..Len(queue) /\ DOMAIN queue' = 1..(Len(queue) + 1)
        /\ \A i \in DOMAIN queue : queue'[i] = queue[i]
        /\ queue'[Len(queue) + 1] = <<w, calls[w]>>
    <3>1. queue \in Seq(Tasks) /\ queue' = Append(queue, <<w, calls[w]>>)
      BY <1>3 DEF SubmitInsert
    <3> QED
      BY ONLY <3>1
  <2>2. \A i \in DOMAIN queue : queue[i][1] # w
    BY <1>3 DEF SubmitInsert
  <2>3. pc[w] = "created" /\ ~done[w] /\ runs[w] = 0
    BY <1>3 DEF SubmitInsert, WorkerInv
  <2>4. ASSUME NEW i \in DOMAIN queue'
        PROVE  /\ queue'[i] = <<queue'[i][1], calls[queue'[i][1]]>>
               /\ pc'[queue'[i][1]] \in {"inserted", "waiting", "awake"}
               /\ ~done[queue'[i][1]] /\ runs[queue'[i][1]] = 0
    <3>1. CASE i \in DOMAIN queue
      BY <1>3, <2>1, <2>2, <3>1 DEF SubmitInsert
    <3>2. CASE i = Len(queue) + 1
      BY <1>3, <2>1, <2>3, <3>2 DEF SubmitInsert
    <3>3. i \in DOMAIN queue \/ i = Len(queue) + 1
      <4>1. i \in 1..(Len(queue) + 1) /\ DOMAIN queue = 1..Len(queue) /\ Len(queue) \in Nat
        BY <2>1
      <4> QED
        BY ONLY <4>1
    <3> QED
      BY ONLY <3>1, <3>2, <3>3
  <2>5. ASSUME NEW i \in DOMAIN queue', NEW j \in DOMAIN queue',
               queue'[i][1] = queue'[j][1]
        PROVE  i = j
    <3>1. CASE i \in DOMAIN queue /\ j \in DOMAIN queue
      BY <2>1, <2>5, <3>1
    <3>2. CASE i = Len(queue) + 1 /\ j \in DOMAIN queue
      BY <2>1, <2>2, <2>5, <3>2
    <3>3. CASE i \in DOMAIN queue /\ j = Len(queue) + 1
      BY <2>1, <2>2, <2>5, <3>3
    <3>4. i = Len(queue) + 1 /\ j = Len(queue) + 1 => i = j
      OBVIOUS
    <3>5. \A n \in Nat : \A k \in 1..(n + 1) : k \in 1..n \/ k = n + 1
      OBVIOUS
    <3>6. Len(queue) \in Nat
      OBVIOUS
    <3> QED
      BY <2>1, <3>1, <3>2, <3>3, <3>4, <3>5, <3>6
  <2>6. UNCHANGED <<calls, done, runs>>
    BY <1>3 DEF SubmitInsert
  <2> QED
    BY <2>4, <2>5, <2>6
<1>4. ASSUME NEW w \in Workers, SubmitWakeup(w) PROVE QueueInv'
  BY <1>4 DEF SubmitWakeup
<1>5. ASSUME NEW w \in Workers, SubmitWakeupFails(w) PROVE QueueInv'
  <2>1. /\ queue # <<>> /\ Len(queue) \in DOMAIN queue
        /\ queue[Len(queue)][1] = w
    BY <1>5 DEF SubmitWakeupFails, WorkerInv
  <2>2. /\ DOMAIN queue' \subseteq DOMAIN queue \ {Len(queue)}
        /\ \A i \in DOMAIN queue' : queue'[i] = queue[i]
    <3>1. queue' = SubSeq(queue, 1, Len(queue) - 1) /\ queue \in Seq(Tasks)
      BY <1>5 DEF SubmitWakeupFails
    <3>2. queue # <<>>
      BY <2>1
    <3> QED
      BY ONLY <3>1, <3>2, ButLast
  <2>3. \A i \in DOMAIN queue' : queue'[i][1] # w
    BY <2>1, <2>2
  <2>4. \A i, j \in DOMAIN queue' : queue'[i][1] = queue'[j][1] => i = j
    BY <2>2
  <2>5. UNCHANGED <<calls, done, runs>>
    BY <1>5 DEF SubmitWakeupFails, Refused
  <2>6. \A v \in Workers : v # w => pc'[v] = pc[v]
    BY <1>5 DEF SubmitWakeupFails, Refused
  <2>7. QueueInv /\ \A i \in DOMAIN queue : queue[i][1] \in Workers
    OBVIOUS
  <2> HIDE DEF IInv, TypeOK
  <2> QED
    BY <2>2, <2>3, <2>4, <2>5, <2>6, <2>7
<1>6. ASSUME NEW w \in Workers, SpuriousWakeup(w) PROVE QueueInv'
  BY <1>6 DEF SpuriousWakeup
<1>7. ASSUME NEW w \in Workers, SleepAgain(w) PROVE QueueInv'
  BY <1>7 DEF SleepAgain
<1>8. ASSUME NEW w \in Workers, Return(w) PROVE QueueInv'
  BY <1>8 DEF Return
<1>9. ASSUME NEW w \in Workers, Wakeup(w) PROVE QueueInv'
  BY <1>9 DEF Wakeup
<1>10. CASE Drain
  BY <1>10 DEF Drain
<1>11. CASE Detach
  BY <1>11 DEF Detach
<1>12. CASE Handle
  <2>1. \A j \in DOMAIN queue : queue[j][1] # Head(snapshot)[1]
    BY <1>12, HeadWaits DEF Handle
  <2> QED
    BY <1>12, <2>1 DEF Handle
<1>13. CASE Complete
  <2>1. \A j \in DOMAIN queue : queue[j][1] # Head(snapshot)[1]
    BY <1>13, HeadWaits DEF Complete
  <2> QED
    BY <1>13, <2>1 DEF Complete, Broadcast
<1>14. CASE Stop
  BY <1>14 DEF Stop, Broadcast
<1>15. CASE UNCHANGED vars
  BY <1>15 DEF vars
<1> QED
  BY <1>1, <1>2, <1>3, <1>4, <1>5, <1>6, <1>7, <1>8, <1>9, <1>10, <1>11, <1>12, <1>13,
     <1>14, <1>15 DEF Next, UiRun, WorkerRun, WorkerMay

(* What holds of the snapshot is preserved. *)
LEMMA StepSnapshot == IInv /\ [Next]_vars => SnapshotInv'
<1> SUFFICES ASSUME IInv, [Next]_vars PROVE SnapshotInv'
  OBVIOUS
<1> USE ConstAssumption DEF IInv, TypeOK, SnapshotInv, memory, uiVars
<1>1. ASSUME NEW w \in Workers, Create(w) PROVE SnapshotInv'
  <2>1. SnapshotInv /\ \A i \in DOMAIN snapshot : snapshot[i] \in Tasks
    OBVIOUS
  <2>2. \A i \in DOMAIN snapshot : snapshot[i][1] \in Workers /\ snapshot[i][1] # w
    BY <1>1, <2>1 DEF Create
  <2>3. /\ UNCHANGED <<queue, snapshot, ui>>
        /\ \A v \in Workers : v # w => /\ calls'[v] = calls[v] /\ pc'[v] = pc[v]
                                       /\ done'[v] = done[v] /\ runs'[v] = runs[v]
    BY <1>1 DEF Create
  <2> HIDE DEF IInv, TypeOK
  <2> QED
    BY <2>1, <2>2, <2>3
<1>2. ASSUME NEW w \in Workers, SubmitRefused(w) PROVE SnapshotInv'
  BY <1>2 DEF SubmitRefused, Refused
<1>3. ASSUME NEW w \in Workers, SubmitInsert(w) PROVE SnapshotInv'
  <2>1. \A i \in DOMAIN queue' :
          \/ i \in DOMAIN queue /\ queue'[i] = queue[i]
          \/ queue'[i] = <<w, calls[w]>>
    <3>1. queue \in Seq(Tasks) /\ queue' = Append(queue, <<w, calls[w]>>)
      BY <1>3 DEF SubmitInsert
    <3> QED
      BY ONLY <3>1
  <2>2. \A i \in DOMAIN snapshot : snapshot[i][1] # w
    BY <1>3 DEF SubmitInsert
  <2>3. \A i \in DOMAIN snapshot, j \in DOMAIN queue' : snapshot[i][1] # queue'[j][1]
    <3>1. \A i \in DOMAIN snapshot, j \in DOMAIN queue : snapshot[i][1] # queue[j][1]
      OBVIOUS
    <3> QED
      BY ONLY <2>1, <2>2, <3>1
  <2>4. /\ UNCHANGED <<calls, done, runs, snapshot, ui>>
        /\ pc' = [pc EXCEPT ![w] = "inserted"]
    BY <1>3 DEF SubmitInsert
  <2>5. \A i \in DOMAIN snapshot : pc'[snapshot[i][1]] = pc[snapshot[i][1]]
    BY <2>2, <2>4
  <2>6. SnapshotInv
    OBVIOUS
  <2> HIDE DEF IInv, TypeOK
  <2> QED
    BY <2>3, <2>4, <2>5, <2>6
<1>4. ASSUME NEW w \in Workers, SubmitWakeup(w) PROVE SnapshotInv'
  BY <1>4 DEF SubmitWakeup
<1>5. ASSUME NEW w \in Workers, SubmitWakeupFails(w) PROVE SnapshotInv'
  <2>1. queue # <<>>
    BY <1>5 DEF SubmitWakeupFails, WorkerInv
  <2>2. \A j \in DOMAIN queue' : j \in DOMAIN queue /\ queue'[j] = queue[j]
    <3>1. queue' = SubSeq(queue, 1, Len(queue) - 1)
      BY <1>5 DEF SubmitWakeupFails
    <3> QED
      BY <2>1, <3>1, ButLast
  <2>3. \A i \in DOMAIN snapshot : snapshot[i][1] # w
    BY <1>5 DEF SubmitWakeupFails
  <2>4. \A i \in DOMAIN snapshot, j \in DOMAIN queue' : snapshot[i][1] # queue'[j][1]
    BY <2>2
  <2>5. /\ UNCHANGED <<calls, done, runs, snapshot, ui>>
        /\ \A v \in Workers : v # w => pc'[v] = pc[v]
    BY <1>5 DEF SubmitWakeupFails, Refused
  <2>6. SnapshotInv /\ \A i \in DOMAIN snapshot : snapshot[i] \in Tasks
    OBVIOUS
  <2>7. \A i \in DOMAIN snapshot : snapshot[i][1] \in Workers
    BY <2>6
  <2> HIDE DEF IInv, TypeOK
  <2> QED
    BY <2>3, <2>4, <2>5, <2>6, <2>7
<1>6. ASSUME NEW w \in Workers, SpuriousWakeup(w) PROVE SnapshotInv'
  BY <1>6 DEF SpuriousWakeup
<1>7. ASSUME NEW w \in Workers, SleepAgain(w) PROVE SnapshotInv'
  BY <1>7 DEF SleepAgain
<1>8. ASSUME NEW w \in Workers, Return(w) PROVE SnapshotInv'
  BY <1>8 DEF Return
<1>9. ASSUME NEW w \in Workers, Wakeup(w) PROVE SnapshotInv'
  BY <1>9 DEF Wakeup
<1>10. CASE Drain
  BY <1>10 DEF Drain
<1>11. CASE Detach
  <2>1. \A w \in Workers : pc[w] # "inserted"
    BY <1>11 DEF Detach, WorkerInv
  <2> QED
    BY <1>11, <2>1 DEF Detach, QueueInv
<1>12. CASE Handle
  BY <1>12 DEF Handle
<1>13. CASE Complete
  <2>1. snapshot # <<>>
    BY <1>13, HeadWaits DEF Complete
  <2>2. /\ DOMAIN snapshot' = 1..(Len(snapshot) - 1)
        /\ DOMAIN snapshot = 1..Len(snapshot) /\ Len(snapshot) \in Nat
        /\ \A i \in DOMAIN snapshot' : snapshot'[i] = snapshot[i + 1]
    BY <1>13, <2>1 DEF Complete
  <2>3. \A i \in DOMAIN snapshot' : i \in Nat /\ i + 1 # 1 /\ i + 1 \in DOMAIN snapshot
    <3>1. \A n \in Nat : \A i \in 1..(n - 1) : i \in Nat /\ i + 1 # 1 /\ i + 1 \in 1..n
      OBVIOUS
    <3> QED
      BY <2>2, <3>1
  <2>4. \A i \in DOMAIN snapshot' : snapshot'[i][1] # Head(snapshot)[1]
    <3>1. 1 \in DOMAIN snapshot /\ Head(snapshot) = snapshot[1]
      BY <2>1
    <3> QED
      BY <2>2, <2>3, <3>1
  <2>5. ASSUME NEW i \in DOMAIN snapshot'
        PROVE  LET w == snapshot'[i][1] IN
               /\ snapshot'[i] = <<w, calls[w]>>
               /\ pc'[w] \in {"waiting", "awake"}
               /\ ~done'[w] /\ runs'[w] = 0
    <3> DEFINE w == snapshot[i + 1][1]
    <3>1. /\ w \in Workers /\ w # Head(snapshot)[1]
          /\ snapshot[i + 1] = <<w, calls[w]>>
          /\ pc[w] \in {"waiting", "awake"} /\ ~done[w] /\ runs[w] = 0
      <4>1. i + 1 \in DOMAIN snapshot /\ i + 1 # 1 /\ snapshot'[i] = snapshot[i + 1]
        BY <2>2, <2>3
      <4>2. w # Head(snapshot)[1]
        BY <2>4, <4>1
      <4>3. snapshot[i + 1] \in Tasks
        BY <4>1
      <4>4. w \in Workers
        BY <4>3
      <4>5. SnapshotInv
        OBVIOUS
      <4> HIDE DEF IInv, TypeOK
      <4> QED
        BY <4>1, <4>2, <4>4, <4>5
    <3>2. snapshot'[i] = snapshot[i + 1]
      BY <2>2
    <3> QED
      BY <1>13, <3>1, <3>2 DEF Complete, Broadcast
  <2>6. ASSUME NEW i \in DOMAIN snapshot', NEW j \in DOMAIN snapshot',
               snapshot'[i][1] = snapshot'[j][1]
        PROVE  i = j
    <3>1. i + 1 = j + 1
      BY <2>2, <2>3, <2>6
    <3> QED
      BY <2>3, <3>1
  <2>7. \A i \in DOMAIN snapshot', j \in DOMAIN queue' : snapshot'[i][1] # queue'[j][1]
    <3>1. queue' = queue
      BY <1>13 DEF Complete
    <3> QED
      BY <2>2, <2>3, <3>1
  <2>8. ui' # "handled" /\ calls' = calls
    BY <1>13 DEF Complete
  <2> QED
    BY <2>5, <2>6, <2>7, <2>8
<1>14. CASE Stop
  BY <1>14 DEF Stop, Broadcast
<1>15. CASE UNCHANGED vars
  BY <1>15 DEF vars
<1> QED
  BY <1>1, <1>2, <1>3, <1>4, <1>5, <1>6, <1>7, <1>8, <1>9, <1>10, <1>11, <1>12, <1>13,
     <1>14, <1>15 DEF Next, UiRun, WorkerRun, WorkerMay

LEMMA StepIInv == IInv /\ [Next]_vars => IInv'
  BY StepType, StepWalk, StepWorker, StepQueue, StepSnapshot DEF IInv

(* The inductive invariant of daemon_task.c's queue. *)
THEOREM Inductive == Spec => []IInv
<1>1. Init => IInv
  BY InitIInv
<1>2. IInv /\ [Next]_vars => IInv'
  BY StepIInv
<1> QED
  BY <1>1, <1>2, PTL DEF Spec

(* The state of the queue is well-typed; a handler runs at most once on a  *)
(* task (daemon_task_dispatch).                                            *)
THEOREM TypeCorrect == Spec => []TypeOK
<1>1. IInv => TypeOK
  BY DEF IInv
<1> QED
  BY <1>1, Inductive, PTL

(* The UI thread reaches no task that its worker has freed or is about to  *)
(* free (daemon_task_submit_and_wait, daemon_task_dispatch).               *)
THEOREM TasksAlive == Spec => []NoUseAfterFree
<1>1. IInv => NoUseAfterFree
  <2> SUFFICES ASSUME IInv, NEW s \in {queue, snapshot}, NEW i \in DOMAIN s
               PROVE  Live(s[i]) /\ ~done[s[i][1]] /\ pc[s[i][1]] # "created"
    BY DEF NoUseAfterFree
  <2>1. CASE s = queue
    <3> DEFINE w == queue[i][1]
    <3>1. queue[i] = <<w, calls[w]>> /\ pc[w] \notin {"idle", "created"} /\ ~done[w]
      BY <2>1 DEF IInv, TypeOK, QueueInv
    <3>2. queue[i][2] = calls[w]
      BY <3>1
    <3> QED
      BY <2>1, <3>1, <3>2 DEF Live
  <2>2. CASE s = snapshot
    <3> DEFINE w == snapshot[i][1]
    <3>1. snapshot[i] = <<w, calls[w]>> /\ pc[w] \notin {"idle", "created"} /\ ~done[w]
      BY <2>2 DEF IInv, TypeOK, SnapshotInv
    <3>2. snapshot[i][2] = calls[w]
      BY <3>1
    <3> QED
      BY <2>2, <3>1, <3>2 DEF Live
  <2> QED
    BY <2>1, <2>2
<1> QED
  BY <1>1, Inductive, PTL

(* The signal of a published task outlives every dispatch that began       *)
(* before it (the drain before the detach in daemon_task_dispatch).        *)
LEMMA StepSignalled == IInv /\ Signalled /\ [Next]_vars => Signalled'
<1> SUFFICES ASSUME IInv, Signalled, [Next]_vars PROVE Signalled'
  OBVIOUS
<1> USE ConstAssumption DEF IInv, TypeOK, Signalled, memory, uiVars
<1>1. ASSUME NEW w \in Workers, Create(w) PROVE Signalled'
  BY <1>1 DEF Create
<1>2. ASSUME NEW w \in Workers, SubmitRefused(w) PROVE Signalled'
  BY <1>2 DEF SubmitRefused, Refused
<1>3. ASSUME NEW w \in Workers, SubmitInsert(w) PROVE Signalled'
  BY <1>3 DEF SubmitInsert
<1>4. ASSUME NEW w \in Workers, SubmitWakeup(w) PROVE Signalled'
  BY <1>4 DEF SubmitWakeup
<1>5. ASSUME NEW w \in Workers, SubmitWakeupFails(w) PROVE Signalled'
  <2>1. /\ mutex = w /\ mutex' = None /\ UNCHANGED <<ui, eventfd>>
        /\ queue \in Seq(Tasks) /\ queue' = SubSeq(queue, 1, Len(queue) - 1)
    BY <1>5 DEF SubmitWakeupFails
  <2>2. Len(queue') > 0 => Len(queue) > 1
    BY ONLY <2>1
  <2> QED
    BY <2>1, <2>2
<1>6. ASSUME NEW w \in Workers, SpuriousWakeup(w) PROVE Signalled'
  BY <1>6 DEF SpuriousWakeup
<1>7. ASSUME NEW w \in Workers, SleepAgain(w) PROVE Signalled'
  BY <1>7 DEF SleepAgain
<1>8. ASSUME NEW w \in Workers, Return(w) PROVE Signalled'
  BY <1>8 DEF Return
<1>9. ASSUME NEW w \in Workers, Wakeup(w) PROVE Signalled'
  BY <1>9 DEF Wakeup
<1>10. CASE Drain
  BY <1>10 DEF Drain
<1>11. CASE Detach
  BY <1>11 DEF Detach
<1>12. CASE Handle
  BY <1>12 DEF Handle
<1>13. CASE Complete
  BY <1>13 DEF Complete, Broadcast
<1>14. CASE Stop
  BY <1>14 DEF Stop, Broadcast
<1>15. CASE UNCHANGED vars
  BY <1>15 DEF vars
<1> QED
  BY <1>1, <1>2, <1>3, <1>4, <1>5, <1>6, <1>7, <1>8, <1>9, <1>10, <1>11, <1>12, <1>13,
     <1>14, <1>15 DEF Next, UiRun, WorkerRun, WorkerMay

THEOREM NoTaskUnsignalled == Spec => []NoLostWakeup
<1>1. Init => Signalled
  BY DEF Init, Signalled
<1>2. IInv /\ Signalled /\ [Next]_vars => Signalled'
  BY StepSignalled
<1>3. IInv /\ Signalled => NoLostWakeup
  BY DEF IInv, TypeOK, Signalled, NoLostWakeup
<1> QED
  BY <1>1, <1>2, <1>3, Inductive, PTL DEF Spec

(* The tasks that are left of the detached list are of workers the dispatch *)
(* has not served, but for the head whose handler has just run.  What a     *)
(* worker submits after its answer is not in that list, and stays out.      *)
TurnsInv ==
  /\ BoundedDispatch
  /\ \A i \in DOMAIN snapshot :
       turns[snapshot[i][1]] = IF i = 1 /\ ui = "handled" THEN 1 ELSE 0

LEMMA StepTurns == IInv /\ TurnsInv /\ [Next]_vars => TurnsInv'
<1> SUFFICES ASSUME IInv, TurnsInv, [Next]_vars PROVE TurnsInv'
  OBVIOUS
<1> USE ConstAssumption DEF IInv, TypeOK, TurnsInv, BoundedDispatch, memory, uiVars
<1>1. ASSUME NEW w \in Workers, Create(w) PROVE TurnsInv'
  BY <1>1 DEF Create
<1>2. ASSUME NEW w \in Workers, SubmitRefused(w) PROVE TurnsInv'
  BY <1>2 DEF SubmitRefused, Refused
<1>3. ASSUME NEW w \in Workers, SubmitInsert(w) PROVE TurnsInv'
  BY <1>3 DEF SubmitInsert
<1>4. ASSUME NEW w \in Workers, SubmitWakeup(w) PROVE TurnsInv'
  BY <1>4 DEF SubmitWakeup
<1>5. ASSUME NEW w \in Workers, SubmitWakeupFails(w) PROVE TurnsInv'
  BY <1>5 DEF SubmitWakeupFails, Refused
<1>6. ASSUME NEW w \in Workers, SpuriousWakeup(w) PROVE TurnsInv'
  BY <1>6 DEF SpuriousWakeup
<1>7. ASSUME NEW w \in Workers, SleepAgain(w) PROVE TurnsInv'
  BY <1>7 DEF SleepAgain
<1>8. ASSUME NEW w \in Workers, Return(w) PROVE TurnsInv'
  BY <1>8 DEF Return
<1>9. ASSUME NEW w \in Workers, Wakeup(w) PROVE TurnsInv'
  BY <1>9 DEF Wakeup
<1>10. CASE Drain
  BY <1>10 DEF Drain
<1>11. CASE Detach
  <2>1. snapshot' \in Seq(Tasks) /\ \A w \in Workers : turns'[w] = 0
    BY <1>11 DEF Detach
  <2>2. \A i \in DOMAIN snapshot' : snapshot'[i][1] \in Workers
    BY <2>1
  <2> QED
    BY <1>11, <2>1, <2>2 DEF Detach
<1>12. CASE Handle
  <2> DEFINE h == Head(snapshot)[1]
  <2>1. /\ snapshot # <<>> /\ h \in Workers /\ 1 \in DOMAIN snapshot
        /\ h = snapshot[1][1]
    BY <1>12, HeadWaits DEF Handle
  <2>2. turns[h] = 0 /\ turns' = [turns EXCEPT ![h] = 1]
    <3>1. ui = "walk" /\ turns' = [turns EXCEPT ![h] = @ + 1]
      BY <1>12 DEF Handle
    <3>2. turns[h] = 0
      BY <2>1, <3>1
    <3> QED
      BY <3>1, <3>2
  <2>3. \A i \in DOMAIN snapshot : snapshot[i][1] \in Workers
                                   /\ (i # 1 => snapshot[i][1] # h)
    BY <2>1 DEF SnapshotInv
  <2>4. ui = "walk" /\ ui' = "handled" /\ snapshot' = snapshot
    BY <1>12 DEF Handle
  <2> QED
    BY <2>1, <2>2, <2>3, <2>4
<1>13. CASE Complete
  <2>1. snapshot # <<>> /\ snapshot' = Tail(snapshot) /\ turns' = turns
        /\ ui' # "handled"
    BY <1>13, HeadWaits DEF Complete
  <2>2. \A i \in DOMAIN snapshot' :
          i + 1 \in DOMAIN snapshot /\ i + 1 # 1 /\ snapshot'[i] = snapshot[i + 1]
    <3>1. snapshot \in Seq(Tasks)
      OBVIOUS
    <3> QED
      BY ONLY <2>1, <3>1
  <2> QED
    BY <2>1, <2>2
<1>14. CASE Stop
  BY <1>14 DEF Stop
<1>15. CASE UNCHANGED vars
  BY <1>15 DEF vars
<1> QED
  BY <1>1, <1>2, <1>3, <1>4, <1>5, <1>6, <1>7, <1>8, <1>9, <1>10, <1>11, <1>12, <1>13,
     <1>14, <1>15 DEF Next, UiRun, WorkerRun, WorkerMay

(* However fast its clients submit, one daemon_task_dispatch runs at most  *)
(* one handler for each connection thread before the UI thread polls again. *)
THEOREM DispatchIsBounded == Spec => []BoundedDispatch
<1>1. Init => TurnsInv
  BY DEF Init, TurnsInv, BoundedDispatch
<1>2. IInv /\ TurnsInv /\ [Next]_vars => TurnsInv'
  BY StepTurns
<1>3. TurnsInv => BoundedDispatch
  BY DEF TurnsInv
<1> QED
  BY <1>1, <1>2, <1>3, Inductive, PTL DEF Spec
-----------------------------------------------------------------------------
(***************************************************************************)
(* The queue of daemon_task.c implements the FIFO server of synchronous    *)
(* calls: every step of UiTask is a step of TaskCalls or changes nothing   *)
(* its callers can see.                                                    *)
(***************************************************************************)
HIDE DEF Task, Tasks, Codes, WorkerPcs, UiPcs

(* Nothing is inserted once the queue is stopped, and the UI thread then   *)
(* dispatches no more.                                                     *)
StopInv ==
  /\ stopping <=> ui = "stopped"
  /\ mutex # None => ~stopping

(* A worker that waits for an answer has its task with the UI thread.      *)
Held(s, w) == \E i \in DOMAIN s : s[i][1] = w
PendingInv ==
  \A w \in Workers :
    pc[w] \in {"waiting", "awake"} /\ ~done[w] => Held(queue, w) \/ Held(snapshot, w)

RInv == IInv /\ StopInv /\ PendingInv

-----------------------------------------------------------------------------
(* Sequences of tasks and the sequences of their callers.                  *)
LEMMA CallersAppend ==
  ASSUME NEW s \in Seq(Tasks), NEW t \in Tasks
  PROVE  Callers(Append(s, t)) = Append(Callers(s), t[1])
  BY DEF Callers

LEMMA CallersTail ==
  ASSUME NEW s \in Seq(Tasks), s # <<>>
  PROVE  /\ Callers(s) # <<>>
         /\ Head(Callers(s)) = Head(s)[1]
         /\ Callers(Tail(s)) = Tail(Callers(s))
  BY DEF Callers

LEMMA TailOfConcat ==
  ASSUME NEW s \in Seq(Tasks), NEW t \in Seq(Tasks), s # <<>>
  PROVE  /\ s \o t \in Seq(Tasks) /\ s \o t # <<>>
         /\ Head(s \o t) = Head(s) /\ Tail(s \o t) = Tail(s) \o t
  OBVIOUS

LEMMA FrontOfAppend ==
  ASSUME NEW s \in Seq(Tasks), NEW t \in Tasks
  PROVE  SubSeq(Append(s, t), 1, Len(Append(s, t)) - 1) = s
  OBVIOUS

LEMMA AppendToFront ==
  ASSUME NEW s \in Seq(Tasks), s # <<>>
  PROVE  /\ SubSeq(s, 1, Len(s) - 1) \in Seq(Tasks)
         /\ s = Append(SubSeq(s, 1, Len(s) - 1), s[Len(s)])
  OBVIOUS

LEMMA AppendToConcat ==
  ASSUME NEW s \in Seq(Tasks), NEW t \in Seq(Tasks), NEW e \in Tasks
  PROVE  s \o Append(t, e) = Append(s \o t, e)
  OBVIOUS

-----------------------------------------------------------------------------
(* The strengthened invariant.                                             *)
LEMMA StepStop == RInv /\ [Next]_vars => StopInv'
<1> SUFFICES ASSUME RInv, [Next]_vars PROVE StopInv'
  OBVIOUS
<1> USE ConstAssumption DEF RInv, IInv, TypeOK, StopInv, memory, uiVars
<1>1. ASSUME NEW w \in Workers, Create(w) PROVE StopInv'
  BY <1>1 DEF Create
<1>2. ASSUME NEW w \in Workers, SubmitRefused(w) PROVE StopInv'
  BY <1>2 DEF SubmitRefused, Refused
<1>3. ASSUME NEW w \in Workers, SubmitInsert(w) PROVE StopInv'
  BY <1>3 DEF SubmitInsert
<1>4. ASSUME NEW w \in Workers, SubmitWakeup(w) PROVE StopInv'
  BY <1>4 DEF SubmitWakeup
<1>5. ASSUME NEW w \in Workers, SubmitWakeupFails(w) PROVE StopInv'
  BY <1>5 DEF SubmitWakeupFails, Refused
<1>6. ASSUME NEW w \in Workers, SpuriousWakeup(w) PROVE StopInv'
  BY <1>6 DEF SpuriousWakeup
<1>7. ASSUME NEW w \in Workers, SleepAgain(w) PROVE StopInv'
  BY <1>7 DEF SleepAgain
<1>8. ASSUME NEW w \in Workers, Return(w) PROVE StopInv'
  BY <1>8 DEF Return
<1>9. ASSUME NEW w \in Workers, Wakeup(w) PROVE StopInv'
  BY <1>9 DEF Wakeup
<1>10. CASE Drain
  BY <1>10 DEF Drain
<1>11. CASE Detach
  BY <1>11 DEF Detach
<1>12. CASE Handle
  BY <1>12 DEF Handle
<1>13. CASE Complete
  BY <1>13 DEF Complete, Broadcast
<1>14. CASE Stop
  BY <1>14 DEF Stop, Broadcast
<1>15. CASE UNCHANGED vars
  BY <1>15 DEF vars
<1> QED
  BY <1>1, <1>2, <1>3, <1>4, <1>5, <1>6, <1>7, <1>8, <1>9, <1>10, <1>11, <1>12, <1>13,
     <1>14, <1>15 DEF Next, UiRun, WorkerRun, WorkerMay

LEMMA StepPending == RInv /\ [Next]_vars => PendingInv'
<1> SUFFICES ASSUME RInv, [Next]_vars PROVE PendingInv'
  OBVIOUS
<1> USE ConstAssumption DEF RInv, IInv, TypeOK, PendingInv, Held, memory, uiVars
<1>1. ASSUME NEW w \in Workers, Create(w) PROVE PendingInv'
  BY <1>1 DEF Create
<1>2. ASSUME NEW w \in Workers, SubmitRefused(w) PROVE PendingInv'
  BY <1>2 DEF SubmitRefused, Refused
<1>3. ASSUME NEW w \in Workers, SubmitInsert(w) PROVE PendingInv'
  <2>1. \A i \in DOMAIN queue : i \in DOMAIN queue' /\ queue'[i] = queue[i]
    BY <1>3 DEF SubmitInsert
  <2>2. \A v \in Workers : Held(queue, v) => Held(queue, v)'
    BY <2>1
  <2>3. pc' = [pc EXCEPT ![w] = "inserted"] /\ done' = done /\ snapshot' = snapshot
    BY <1>3 DEF SubmitInsert
  <2>4. ASSUME NEW v \in Workers, pc'[v] \in {"waiting", "awake"}
        PROVE  pc[v] \in {"waiting", "awake"}
    BY <2>3, <2>4
  <2> QED
    BY <2>2, <2>3, <2>4
<1>4. ASSUME NEW w \in Workers, SubmitWakeup(w) PROVE PendingInv'
  <2>1. queue # <<>> /\ queue[Len(queue)][1] = w
    BY <1>4 DEF SubmitWakeup, WorkerInv
  <2>2. Held(queue, w)
    BY <2>1
  <2> QED
    BY <1>4, <2>2 DEF SubmitWakeup
<1>5. ASSUME NEW w \in Workers, SubmitWakeupFails(w) PROVE PendingInv'
  <2>1. /\ queue # <<>> /\ queue[Len(queue)][1] = w
        /\ queue' = SubSeq(queue, 1, Len(queue) - 1)
    BY <1>5 DEF SubmitWakeupFails, WorkerInv
  <2>2. \A i \in DOMAIN queue : i # Len(queue) => i \in DOMAIN queue' /\ queue'[i] = queue[i]
    BY <2>1
  <2>3. \A v \in Workers : v # w /\ Held(queue, v) => Held(queue, v)'
    BY <2>1, <2>2
  <2>4. /\ pc' = [pc EXCEPT ![w] = "idle"]
        /\ done' = done /\ snapshot' = snapshot
    BY <1>5 DEF SubmitWakeupFails, Refused
  <2>5. ASSUME NEW v \in Workers, pc'[v] \in {"waiting", "awake"}
        PROVE  v # w /\ pc[v] \in {"waiting", "awake"}
    BY <2>4, <2>5
  <2> QED
    BY <2>3, <2>4, <2>5
<1>6. ASSUME NEW w \in Workers, SpuriousWakeup(w) PROVE PendingInv'
  BY <1>6 DEF SpuriousWakeup
<1>7. ASSUME NEW w \in Workers, SleepAgain(w) PROVE PendingInv'
  BY <1>7 DEF SleepAgain
<1>8. ASSUME NEW w \in Workers, Return(w) PROVE PendingInv'
  BY <1>8 DEF Return
<1>9. ASSUME NEW w \in Workers, Wakeup(w) PROVE PendingInv'
  BY <1>9 DEF Wakeup
<1>10. CASE Drain
  BY <1>10 DEF Drain
<1>11. CASE Detach
  <2>1. snapshot = <<>>
    BY <1>11 DEF Detach, WalkInv
  <2> QED
    BY <1>11, <2>1 DEF Detach
<1>12. CASE Handle
  BY <1>12 DEF Handle
<1>13. CASE Complete
  <2>1. snapshot # <<>> /\ Head(snapshot)[1] \in Workers
    BY <1>13, HeadWaits DEF Complete
  <2>2. /\ snapshot' = Tail(snapshot) /\ queue' = queue
        /\ done' = [done EXCEPT ![Head(snapshot)[1]] = TRUE]
    BY <1>13 DEF Complete
  <2>3. \A i \in DOMAIN snapshot :
          i # 1 => i - 1 \in DOMAIN snapshot' /\ snapshot'[i - 1] = snapshot[i]
    BY <2>1, <2>2
  <2>4. \A v \in Workers : v # Head(snapshot)[1] /\ Held(snapshot, v) => Held(snapshot, v)'
    <3> SUFFICES ASSUME NEW i \in DOMAIN snapshot, snapshot[i][1] # Head(snapshot)[1]
                 PROVE  \E j \in DOMAIN snapshot' : snapshot'[j][1] = snapshot[i][1]
      OBVIOUS
    <3>1. i # 1
      BY <2>1
    <3> QED
      BY <2>3, <3>1
  <2>5. \A v \in Workers : pc'[v] \in {"waiting", "awake"} => pc[v] \in {"waiting", "awake"}
    BY <1>13 DEF Complete, Broadcast
  <2> QED
    BY <2>1, <2>2, <2>4, <2>5
<1>14. CASE Stop
  BY <1>14 DEF Stop, Broadcast
<1>15. CASE UNCHANGED vars
  BY <1>15 DEF vars
<1> QED
  BY <1>1, <1>2, <1>3, <1>4, <1>5, <1>6, <1>7, <1>8, <1>9, <1>10, <1>11, <1>12, <1>13,
     <1>14, <1>15 DEF Next, UiRun, WorkerRun, WorkerMay

LEMMA Strengthened == Spec => []RInv
<1>1. Init => RInv
  <2>1. Init => StopInv /\ PendingInv
    BY ConstAssumption DEF Init, StopInv, PendingInv
  <2> QED
    BY <2>1, InitIInv DEF RInv
<1>2. RInv /\ [Next]_vars => RInv'
  BY StepIInv, StepStop, StepPending DEF RInv
<1> QED
  BY <1>1, <1>2, PTL DEF Spec

-----------------------------------------------------------------------------
(* The simulation.                                                         *)
LEMMA InitRefines == Init => Calls!Init
  BY DEF Init, Calls!Init, Phase, Outcome, Published, Callers

(* A step the callers cannot see. *)
Unseen == Phase' = Phase /\ Outcome' = Outcome /\ Published' = Published
          /\ stopping' = stopping

LEMMA StepRefines ==
  ASSUME RInv, [Next]_vars
  PROVE  [Calls!Next]_(Calls!vars)
<1> USE ConstAssumption DEF RInv, IInv, TypeOK, memory, uiVars
<1>0. Unseen => UNCHANGED Calls!vars
  BY DEF Unseen, Calls!vars
<1>1. ASSUME NEW w \in Workers, Create(w) PROVE Unseen
  BY <1>1 DEF Create, Unseen, Phase, Outcome, Published
<1>2. ASSUME NEW w \in Workers, SubmitRefused(w) PROVE Calls!Refuse(w)
  BY <1>2 DEF SubmitRefused, Refused, Calls!Refuse, Phase, Outcome, Published
<1>3. ASSUME NEW w \in Workers, SubmitInsert(w) PROVE Unseen
  <2>1. Published' = Published
    BY <1>3, FrontOfAppend DEF SubmitInsert, Published, WorkerInv
  <2> QED
    BY <1>3, <2>1 DEF SubmitInsert, Unseen, Phase, Outcome
<1>4. ASSUME NEW w \in Workers, SubmitWakeup(w) PROVE Calls!Submit(w)
  <2>1. /\ queue # <<>> /\ queue[Len(queue)][1] = w
        /\ queue[Len(queue)] \in Tasks /\ ~stopping /\ ~done[w]
    BY <1>4 DEF SubmitWakeup, WorkerInv, StopInv
  <2> DEFINE front == SubSeq(queue, 1, Len(queue) - 1)
  <2>a. front \in Seq(Tasks) /\ queue = Append(front, queue[Len(queue)])
    BY <2>1, AppendToFront
  <2>b. Published = snapshot \o front
    BY <1>4 DEF SubmitWakeup, Published
  <2>c. Published' = snapshot \o queue
    BY <1>4 DEF SubmitWakeup, Published
  <2>2. Published' = Append(Published, queue[Len(queue)])
    <3> HIDE DEF front
    <3>1. snapshot \o Append(front, queue[Len(queue)])
            = Append(snapshot \o front, queue[Len(queue)])
      BY <2>1, <2>a, AppendToConcat
    <3> QED
      BY <2>a, <2>b, <2>c, <3>1
  <2>3. Published \in Seq(Tasks)
    <3> HIDE DEF front
    <3> QED
      BY <2>a, <2>b
  <2>4. Callers(Published)' = Append(Callers(Published), w)
    BY <2>1, <2>2, <2>3, CallersAppend DEF Callers
  <2>5. Phase[w] = "idle" /\ Phase' = [Phase EXCEPT ![w] = "pending"]
    BY <1>4, <2>1 DEF SubmitWakeup, Phase
  <2>6. Outcome' = Outcome /\ stopping' = stopping
    BY <1>4, <2>1 DEF SubmitWakeup, Outcome, Phase
  <2> QED
    BY <2>1, <2>4, <2>5, <2>6 DEF Calls!Submit
<1>5. ASSUME NEW w \in Workers, SubmitWakeupFails(w) PROVE Calls!Refuse(w)
  <2>1. Published' = Published
    BY <1>5 DEF SubmitWakeupFails, Published
  <2> QED
    BY <1>5, <2>1 DEF SubmitWakeupFails, Refused, Calls!Refuse, Phase, Outcome, Callers
<1>6. ASSUME NEW w \in Workers, SpuriousWakeup(w) PROVE Unseen
  BY <1>6 DEF SpuriousWakeup, Unseen, Phase, Outcome, Published
<1>7. ASSUME NEW w \in Workers, SleepAgain(w) PROVE Unseen
  BY <1>7 DEF SleepAgain, Unseen, Phase, Outcome, Published
<1>8. ASSUME NEW w \in Workers, Return(w) PROVE Calls!Return(w)
  BY <1>8 DEF Return, Calls!Return, Phase, Outcome, Published
<1>9. ASSUME NEW w \in Workers, Wakeup(w) PROVE Unseen
  BY <1>9 DEF Wakeup, Unseen, Phase, Outcome, Published
<1>10. ASSUME Drain PROVE Unseen
  BY <1>10 DEF Drain, Unseen, Phase, Outcome, Published
<1>11. ASSUME Detach PROVE Unseen
  <2>1. snapshot = <<>>
    BY <1>11 DEF Detach, WalkInv
  <2>2. Published' = Published
    BY <1>11, <2>1 DEF Detach, Published
  <2> QED
    BY <1>11, <2>2 DEF Detach, Unseen, Phase, Outcome
<1>12. ASSUME Handle PROVE Unseen
  BY <1>12 DEF Handle, Unseen, Phase, Outcome, Published
<1>13. ASSUME Complete PROVE Calls!Serve
  <2> DEFINE h == Head(snapshot)[1]
  <2>1. /\ snapshot # <<>> /\ h \in Workers /\ pc[h] \in {"waiting", "awake"}
        /\ ~stopping /\ mutex = None
    BY <1>13, HeadWaits DEF Complete, StopInv
  <2>2. /\ Published \in Seq(Tasks) /\ Published # <<>>
        /\ Head(Published) = Head(snapshot) /\ Tail(Published) = Tail(snapshot) \o queue
    BY <2>1, TailOfConcat DEF Published
  <2>3. Published' = Tail(Published)
    BY <1>13, <2>1, <2>2 DEF Complete, Published
  <2>4. /\ Callers(Published) # <<>> /\ Head(Callers(Published)) = h
        /\ Callers(Published)' = Tail(Callers(Published))
    <3>1. /\ Callers(Published) # <<>> /\ Head(Callers(Published)) = Head(Published)[1]
          /\ Callers(Tail(Published)) = Tail(Callers(Published))
      BY <2>2, CallersTail
    <3>2. Callers(Published)' = Callers(Tail(Published))
      BY <2>3 DEF Callers
    <3> QED
      BY <2>2, <3>1, <3>2
  <2>5. Phase' = [Phase EXCEPT ![h] = "answered"]
    BY <1>13, <2>1 DEF Complete, Broadcast, Phase
  <2>6. Outcome' = [Outcome EXCEPT ![h] = uiRc] /\ uiRc \in Codes /\ stopping' = stopping
    BY <1>13, <2>1 DEF Complete, Broadcast, Outcome, Phase
  <2> QED
    BY <2>1, <2>4, <2>5, <2>6 DEF Calls!Serve
<1>14. ASSUME Stop PROVE Calls!Close
  <2>1. snapshot = <<>> /\ ~stopping /\ queue' = <<>> /\ snapshot' = snapshot
    BY <1>14 DEF Stop, WalkInv, StopInv
  <2>2. Callers(Published)' = <<>>
    BY <1>14, <2>1 DEF Stop, Published, Callers
  <2>3. \A w \in Workers : Held(queue, w) <=> Phase[w] = "pending"
    BY <1>14, <2>1 DEF Stop, WorkerInv, QueueInv, PendingInv, Held, Phase
  <2>4. Phase' = [w \in Workers |-> IF Phase[w] = "pending" THEN "answered" ELSE Phase[w]]
    BY <1>14, <2>3 DEF Stop, Broadcast, Phase, Held
  <2>5. Outcome' = [w \in Workers |-> IF Phase[w] = "pending" THEN -1 ELSE Outcome[w]]
    <3>1. /\ rc' = [w \in Workers |-> IF Held(queue, w) THEN -1 ELSE rc[w]]
          /\ result' = result
      BY <1>14 DEF Stop, Held
    <3>2. ASSUME NEW w \in Workers
          PROVE  Outcome'[w] = IF Phase[w] = "pending" THEN -1 ELSE Outcome[w]
      <4>1. Outcome'[w] = IF Phase'[w] = "answered" THEN rc'[w] ELSE result'[w]
        BY DEF Outcome
      <4>2. Phase'[w] = IF Phase[w] = "pending" THEN "answered" ELSE Phase[w]
        BY <2>4
      <4>3. Outcome[w] = IF Phase[w] = "answered" THEN rc[w] ELSE result[w]
        BY DEF Outcome
      <4>4. rc'[w] = IF Phase[w] = "pending" THEN -1 ELSE rc[w]
        BY <2>3, <3>1
      <4> HIDE DEF Phase, Outcome
      <4> QED
        BY <3>1, <4>1, <4>2, <4>3, <4>4
    <3> QED
      BY <3>2 DEF Outcome
  <2> QED
    BY <1>14, <2>1, <2>2, <2>4, <2>5 DEF Stop, Calls!Close
<1>15. ASSUME UNCHANGED vars PROVE Unseen
  BY <1>15 DEF vars, Unseen, Phase, Outcome, Published
<1> QED
  BY <1>0, <1>1, <1>2, <1>3, <1>4, <1>5, <1>6, <1>7, <1>8, <1>9, <1>10, <1>11, <1>12,
     <1>13, <1>14, <1>15 DEF Next, UiRun, WorkerRun, WorkerMay, Calls!Next

(* The queue of daemon_task.c implements the abstract server: the calls    *)
(* are answered in the order of submission, each by one run of its handler *)
(* or by a refusal, and with the code of that run.                         *)
THEOREM Implements == Spec => FifoCalls
<1>1. Init => Calls!Init
  BY InitRefines
<1>2. RInv /\ [Next]_vars => [Calls!Next]_(Calls!vars)
  BY StepRefines
<1> QED
  BY <1>1, <1>2, Strengthened, PTL DEF Spec, FifoCalls, Calls!Spec
=============================================================================
