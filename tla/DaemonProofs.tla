---------------------------- MODULE DaemonProofs ----------------------------
(***************************************************************************)
(* Proofs about Daemon, for any set of connections and any number of       *)
(* requests.                                                               *)
(***************************************************************************)
EXTENDS Daemon, TLAPS

(* Types of what TypeOK leaves open. *)
MoreTypes ==
  /\ phase \in [Conns -> {"idle", "pending", "answered"}]
  /\ pending \in Seq(Conns)
  /\ quitRequested \in [Conns -> BOOLEAN] /\ done \in [Conns -> BOOLEAN]
  /\ quitAnswered \in BOOLEAN /\ doQuit \in BOOLEAN

(* A thread that serves a request has it at the head of its buffer.        *)
ServingInv ==
  \A c \in Conns : pc[c] \in {"submit", "call", "wait", "respond"} => buf[c] # <<>>

(* Only the main loop's reap walks workers, and only its serve has a       *)
(* snapshot left: nothing of either is there when the shutdown begins.     *)
UiInv == (ui # "reap" => walk = {}) /\ (ui # "serve" => left = 0)

(* Whoever is pending is a caller waiting for the answer, and is so once.  *)
CallInv ==
  /\ \A i \in DOMAIN pending : pc[pending[i]] = "call" /\ phase[pending[i]] = "pending"
  /\ \A i, j \in DOMAIN pending : pending[i] = pending[j] => i = j

(* A quit request not answered yet is the one its thread is answering.     *)
QuitInv ==
  /\ QuitAnsweredFirst
  /\ \A c \in Conns : quitRequested[c] =>
       quitAnswered \/ (pc[c] = "respond" /\ Head(buf[c]) = "quit")

(* Nothing is freed before the last thread is joined.                      *)
ExitInv == ui = "exited" => Workers = {}

IInv == TypeOK /\ MoreTypes /\ ServingInv /\ UiInv /\ CallInv /\ QuitInv /\ ExitInv

-----------------------------------------------------------------------------
(* Accepting changes at most where one connection of the backlog stands.   *)
LEMMA AcceptMoves ==
  ASSUME TypeOK, Accept
  PROVE  /\ \/ pc' = pc
            \/ \E c \in Conns, where \in {"iter", "gone", "backlog"} :
                 pc[c] = "backlog" /\ pc' = [pc EXCEPT ![c] = where]
         /\ ui = "accept" /\ ui' \in {"dispatch", "top"} /\ revents' = {}
         /\ UNCHANGED <<calls, sockets, thread, quit, eventfd, left, walk, waitStop, shut>>
<1>1. CASE "accept" \in revents
  BY <1>1 DEF Accept, Backlog, Goto
<1>2. CASE "accept" \notin revents
  BY <1>2 DEF Accept
<1> QED
  BY <1>1, <1>2

USE DEF Goto, Ui, Pcs, UiPcs, Requests, Outside, Workers, calls, sockets, thread, quit, uiVars

(* Types. *)
LEMMA NextType == IInv /\ [Next]_vars => TypeOK'
<1> SUFFICES ASSUME IInv, [Next]_vars PROVE TypeOK'
  OBVIOUS
<1> USE ConstAssumption DEF IInv, TypeOK, MoreTypes, ServingInv, UiInv
<1>1. ASSUME NEW c \in Conns, Iterate(c) PROVE TypeOK'
  BY <1>1 DEF Iterate
<1>2. ASSUME NEW c \in Conns, QuitWakeup(c) PROVE TypeOK'
  BY <1>2 DEF QuitWakeup
<1>3. ASSUME NEW c \in Conns, PollHangup(c) PROVE TypeOK'
  BY <1>3 DEF PollHangup
<1>4. ASSUME NEW c \in Conns, PollReadable(c) PROVE TypeOK'
  BY <1>4 DEF PollReadable
<1>5. ASSUME NEW c \in Conns, PollTimeout(c) PROVE TypeOK'
  BY <1>5 DEF PollTimeout
<1>6. ASSUME NEW c \in Conns, Handle(c) PROVE TypeOK'
  BY <1>6 DEF Handle
<1>7. ASSUME NEW c \in Conns, WaitFinishes(c) PROVE TypeOK'
  BY <1>7 DEF WaitFinishes
<1>8. ASSUME NEW c \in Conns, WaitStopped(c) PROVE TypeOK'
  BY <1>8 DEF WaitStopped
<1>9. ASSUME NEW c \in Conns, Submit(c) PROVE TypeOK'
  BY <1>9 DEF Submit, T!Submit
<1>10. ASSUME NEW c \in Conns, SubmitRefused(c) PROVE TypeOK'
  BY <1>10 DEF SubmitRefused, T!Refuse
<1>11. ASSUME NEW c \in Conns, SubmitFails(c) PROVE TypeOK'
  BY <1>11 DEF SubmitFails, T!Refuse
<1>12. ASSUME NEW c \in Conns, CallReturns(c) PROVE TypeOK'
  BY <1>12 DEF CallReturns, T!Return
<1>13. ASSUME NEW c \in Conns, Respond(c) PROVE TypeOK'
  BY <1>13 DEF Respond, Responded
<1>14. ASSUME NEW c \in Conns, RespondBroken(c) PROVE TypeOK'
  BY <1>14 DEF RespondBroken, Responded
<1>15. ASSUME NEW c \in Conns, Publish(c) PROVE TypeOK'
  BY <1>15 DEF Publish
<1>16. ASSUME NEW c \in Conns, EndWakeup(c) PROVE TypeOK'
  BY <1>16 DEF EndWakeup
<1>17. ASSUME NEW c \in Conns, Connect(c) PROVE TypeOK'
  BY <1>17 DEF Connect
<1>18. ASSUME NEW c \in Conns, Send(c) PROVE TypeOK'
  BY <1>18 DEF Send
<1>19. ASSUME NEW c \in Conns, HangUp(c) PROVE TypeOK'
  BY <1>19 DEF HangUp
<1>20. CASE LoopTop
  BY <1>20 DEF LoopTop
<1>21. CASE Poll
  BY <1>21 DEF Poll
<1>22. CASE PollFails
  BY <1>22 DEF PollFails
<1>23. CASE Accept
  BY <1>23, AcceptMoves
<1>24. CASE Dispatch
  BY <1>24 DEF Dispatch
<1>25. CASE Serve
  BY <1>25 DEF Serve, T!Serve
<1>26. CASE ReapBegin
  BY <1>26 DEF ReapBegin
<1>27. ASSUME NEW c \in Conns, ReapVisit(c) PROVE TypeOK'
  BY <1>27 DEF ReapVisit, JoinWorker
<1>28. CASE ReapEnd
  BY <1>28 DEF ReapEnd
<1>29. CASE StopTasks
  BY <1>29 DEF StopTasks, T!Close
<1>30. CASE StopInstances
  BY <1>30 DEF StopInstances
<1>31. CASE ShutdownSockets
  BY <1>31 DEF ShutdownSockets
<1>32. ASSUME NEW c \in Conns, Join(c) PROVE TypeOK'
  BY <1>32 DEF Join, JoinWorker
<1>33. CASE Free
  BY <1>33 DEF Free
<1>34. CASE UNCHANGED vars
  BY <1>34 DEF vars
<1> QED
  BY <1>1, <1>2, <1>3, <1>4, <1>5, <1>6, <1>7, <1>8, <1>9, <1>10, <1>11,
     <1>12, <1>13, <1>14, <1>15, <1>16, <1>17, <1>18, <1>19, <1>20, <1>21,
     <1>22, <1>23, <1>24, <1>25, <1>26, <1>27, <1>28, <1>29, <1>30, <1>31,
     <1>32, <1>33, <1>34
     DEF Next, UiRun, WorkerRun, WorkerMay, Client, ServeReturns

(* More types. *)
LEMMA NextMoreTypes == IInv /\ [Next]_vars => MoreTypes'
<1> SUFFICES ASSUME IInv, [Next]_vars PROVE MoreTypes'
  OBVIOUS
<1> USE ConstAssumption DEF IInv, TypeOK, MoreTypes, ServingInv
<1>1. ASSUME NEW c \in Conns, Iterate(c) PROVE MoreTypes'
  BY <1>1 DEF Iterate
<1>2. ASSUME NEW c \in Conns, QuitWakeup(c) PROVE MoreTypes'
  BY <1>2 DEF QuitWakeup
<1>3. ASSUME NEW c \in Conns, PollHangup(c) PROVE MoreTypes'
  BY <1>3 DEF PollHangup
<1>4. ASSUME NEW c \in Conns, PollReadable(c) PROVE MoreTypes'
  BY <1>4 DEF PollReadable
<1>5. ASSUME NEW c \in Conns, PollTimeout(c) PROVE MoreTypes'
  BY <1>5 DEF PollTimeout
<1>6. ASSUME NEW c \in Conns, Handle(c) PROVE MoreTypes'
  BY <1>6 DEF Handle
<1>7. ASSUME NEW c \in Conns, WaitFinishes(c) PROVE MoreTypes'
  BY <1>7 DEF WaitFinishes
<1>8. ASSUME NEW c \in Conns, WaitStopped(c) PROVE MoreTypes'
  BY <1>8 DEF WaitStopped
<1>9. ASSUME NEW c \in Conns, Submit(c) PROVE MoreTypes'
  BY <1>9 DEF Submit, T!Submit
<1>10. ASSUME NEW c \in Conns, SubmitRefused(c) PROVE MoreTypes'
  BY <1>10 DEF SubmitRefused, T!Refuse
<1>11. ASSUME NEW c \in Conns, SubmitFails(c) PROVE MoreTypes'
  BY <1>11 DEF SubmitFails, T!Refuse
<1>12. ASSUME NEW c \in Conns, CallReturns(c) PROVE MoreTypes'
  BY <1>12 DEF CallReturns, T!Return
<1>13. ASSUME NEW c \in Conns, Respond(c) PROVE MoreTypes'
  BY <1>13 DEF Respond, Responded
<1>14. ASSUME NEW c \in Conns, RespondBroken(c) PROVE MoreTypes'
  BY <1>14 DEF RespondBroken, Responded
<1>15. ASSUME NEW c \in Conns, Publish(c) PROVE MoreTypes'
  BY <1>15 DEF Publish
<1>16. ASSUME NEW c \in Conns, EndWakeup(c) PROVE MoreTypes'
  BY <1>16 DEF EndWakeup
<1>17. ASSUME NEW c \in Conns, Connect(c) PROVE MoreTypes'
  BY <1>17 DEF Connect
<1>18. ASSUME NEW c \in Conns, Send(c) PROVE MoreTypes'
  BY <1>18 DEF Send
<1>19. ASSUME NEW c \in Conns, HangUp(c) PROVE MoreTypes'
  BY <1>19 DEF HangUp
<1>20. CASE LoopTop
  BY <1>20 DEF LoopTop
<1>21. CASE Poll
  BY <1>21 DEF Poll
<1>22. CASE PollFails
  BY <1>22 DEF PollFails
<1>23. CASE Accept
  BY <1>23, AcceptMoves
<1>24. CASE Dispatch
  BY <1>24 DEF Dispatch
<1>25. CASE Serve
  BY <1>25 DEF Serve, T!Serve
<1>26. CASE ReapBegin
  BY <1>26 DEF ReapBegin
<1>27. ASSUME NEW c \in Conns, ReapVisit(c) PROVE MoreTypes'
  BY <1>27 DEF ReapVisit, JoinWorker
<1>28. CASE ReapEnd
  BY <1>28 DEF ReapEnd
<1>29. CASE StopTasks
  BY <1>29 DEF StopTasks, T!Close
<1>30. CASE StopInstances
  BY <1>30 DEF StopInstances
<1>31. CASE ShutdownSockets
  BY <1>31 DEF ShutdownSockets
<1>32. ASSUME NEW c \in Conns, Join(c) PROVE MoreTypes'
  BY <1>32 DEF Join, JoinWorker
<1>33. CASE Free
  BY <1>33 DEF Free
<1>34. CASE UNCHANGED vars
  BY <1>34 DEF vars
<1> QED
  BY <1>1, <1>2, <1>3, <1>4, <1>5, <1>6, <1>7, <1>8, <1>9, <1>10, <1>11,
     <1>12, <1>13, <1>14, <1>15, <1>16, <1>17, <1>18, <1>19, <1>20, <1>21,
     <1>22, <1>23, <1>24, <1>25, <1>26, <1>27, <1>28, <1>29, <1>30, <1>31,
     <1>32, <1>33, <1>34
     DEF Next, UiRun, WorkerRun, WorkerMay, Client, ServeReturns

(* A request is in the buffer until it is answered. *)
LEMMA NextServing == IInv /\ [Next]_vars => ServingInv'
<1> SUFFICES ASSUME IInv, [Next]_vars PROVE ServingInv'
  OBVIOUS
<1> USE DEF IInv, TypeOK, MoreTypes, ServingInv
<1>1. ASSUME NEW c \in Conns, Iterate(c) PROVE ServingInv'
  BY <1>1 DEF Iterate
<1>2. ASSUME NEW c \in Conns, QuitWakeup(c) PROVE ServingInv'
  BY <1>2 DEF QuitWakeup
<1>3. ASSUME NEW c \in Conns, PollHangup(c) PROVE ServingInv'
  BY <1>3 DEF PollHangup
<1>4. ASSUME NEW c \in Conns, PollReadable(c) PROVE ServingInv'
  BY <1>4 DEF PollReadable
<1>5. ASSUME NEW c \in Conns, PollTimeout(c) PROVE ServingInv'
  BY <1>5 DEF PollTimeout
<1>6. ASSUME NEW c \in Conns, Handle(c) PROVE ServingInv'
  BY <1>6 DEF Handle
<1>7. ASSUME NEW c \in Conns, WaitFinishes(c) PROVE ServingInv'
  BY <1>7 DEF WaitFinishes
<1>8. ASSUME NEW c \in Conns, WaitStopped(c) PROVE ServingInv'
  BY <1>8 DEF WaitStopped
<1>9. ASSUME NEW c \in Conns, Submit(c) PROVE ServingInv'
  BY <1>9 DEF Submit, T!Submit
<1>10. ASSUME NEW c \in Conns, SubmitRefused(c) PROVE ServingInv'
  BY <1>10 DEF SubmitRefused, T!Refuse
<1>11. ASSUME NEW c \in Conns, SubmitFails(c) PROVE ServingInv'
  BY <1>11 DEF SubmitFails, T!Refuse
<1>12. ASSUME NEW c \in Conns, CallReturns(c) PROVE ServingInv'
  BY <1>12 DEF CallReturns, T!Return
<1>13. ASSUME NEW c \in Conns, Respond(c) PROVE ServingInv'
  BY <1>13 DEF Respond, Responded
<1>14. ASSUME NEW c \in Conns, RespondBroken(c) PROVE ServingInv'
  BY <1>14 DEF RespondBroken, Responded
<1>15. ASSUME NEW c \in Conns, Publish(c) PROVE ServingInv'
  BY <1>15 DEF Publish
<1>16. ASSUME NEW c \in Conns, EndWakeup(c) PROVE ServingInv'
  BY <1>16 DEF EndWakeup
<1>17. ASSUME NEW c \in Conns, Connect(c) PROVE ServingInv'
  BY <1>17 DEF Connect
<1>18. ASSUME NEW c \in Conns, Send(c) PROVE ServingInv'
  BY <1>18 DEF Send
<1>19. ASSUME NEW c \in Conns, HangUp(c) PROVE ServingInv'
  BY <1>19 DEF HangUp
<1>20. CASE LoopTop
  BY <1>20 DEF LoopTop
<1>21. CASE Poll
  BY <1>21 DEF Poll
<1>22. CASE PollFails
  BY <1>22 DEF PollFails
<1>23. CASE Accept
  BY <1>23, AcceptMoves
<1>24. CASE Dispatch
  BY <1>24 DEF Dispatch
<1>25. CASE Serve
  BY <1>25 DEF Serve, T!Serve
<1>26. CASE ReapBegin
  BY <1>26 DEF ReapBegin
<1>27. ASSUME NEW c \in Conns, ReapVisit(c) PROVE ServingInv'
  BY <1>27 DEF ReapVisit, JoinWorker
<1>28. CASE ReapEnd
  BY <1>28 DEF ReapEnd
<1>29. CASE StopTasks
  BY <1>29 DEF StopTasks, T!Close
<1>30. CASE StopInstances
  BY <1>30 DEF StopInstances
<1>31. CASE ShutdownSockets
  BY <1>31 DEF ShutdownSockets
<1>32. ASSUME NEW c \in Conns, Join(c) PROVE ServingInv'
  BY <1>32 DEF Join, JoinWorker
<1>33. CASE Free
  BY <1>33 DEF Free
<1>34. CASE UNCHANGED vars
  BY <1>34 DEF vars
<1> QED
  BY <1>1, <1>2, <1>3, <1>4, <1>5, <1>6, <1>7, <1>8, <1>9, <1>10, <1>11,
     <1>12, <1>13, <1>14, <1>15, <1>16, <1>17, <1>18, <1>19, <1>20, <1>21,
     <1>22, <1>23, <1>24, <1>25, <1>26, <1>27, <1>28, <1>29, <1>30, <1>31,
     <1>32, <1>33, <1>34
     DEF Next, UiRun, WorkerRun, WorkerMay, Client, ServeReturns

(* What the UI thread walks and serves. *)
LEMMA NextUi == IInv /\ [Next]_vars => UiInv'
<1> SUFFICES ASSUME IInv, [Next]_vars PROVE UiInv'
  OBVIOUS
<1> USE DEF IInv, TypeOK, MoreTypes, UiInv
<1>1. ASSUME NEW c \in Conns, Iterate(c) PROVE UiInv'
  BY <1>1 DEF Iterate
<1>2. ASSUME NEW c \in Conns, QuitWakeup(c) PROVE UiInv'
  BY <1>2 DEF QuitWakeup
<1>3. ASSUME NEW c \in Conns, PollHangup(c) PROVE UiInv'
  BY <1>3 DEF PollHangup
<1>4. ASSUME NEW c \in Conns, PollReadable(c) PROVE UiInv'
  BY <1>4 DEF PollReadable
<1>5. ASSUME NEW c \in Conns, PollTimeout(c) PROVE UiInv'
  BY <1>5 DEF PollTimeout
<1>6. ASSUME NEW c \in Conns, Handle(c) PROVE UiInv'
  BY <1>6 DEF Handle
<1>7. ASSUME NEW c \in Conns, WaitFinishes(c) PROVE UiInv'
  BY <1>7 DEF WaitFinishes
<1>8. ASSUME NEW c \in Conns, WaitStopped(c) PROVE UiInv'
  BY <1>8 DEF WaitStopped
<1>9. ASSUME NEW c \in Conns, Submit(c) PROVE UiInv'
  BY <1>9 DEF Submit, T!Submit
<1>10. ASSUME NEW c \in Conns, SubmitRefused(c) PROVE UiInv'
  BY <1>10 DEF SubmitRefused, T!Refuse
<1>11. ASSUME NEW c \in Conns, SubmitFails(c) PROVE UiInv'
  BY <1>11 DEF SubmitFails, T!Refuse
<1>12. ASSUME NEW c \in Conns, CallReturns(c) PROVE UiInv'
  BY <1>12 DEF CallReturns, T!Return
<1>13. ASSUME NEW c \in Conns, Respond(c) PROVE UiInv'
  BY <1>13 DEF Respond, Responded
<1>14. ASSUME NEW c \in Conns, RespondBroken(c) PROVE UiInv'
  BY <1>14 DEF RespondBroken, Responded
<1>15. ASSUME NEW c \in Conns, Publish(c) PROVE UiInv'
  BY <1>15 DEF Publish
<1>16. ASSUME NEW c \in Conns, EndWakeup(c) PROVE UiInv'
  BY <1>16 DEF EndWakeup
<1>17. ASSUME NEW c \in Conns, Connect(c) PROVE UiInv'
  BY <1>17 DEF Connect
<1>18. ASSUME NEW c \in Conns, Send(c) PROVE UiInv'
  BY <1>18 DEF Send
<1>19. ASSUME NEW c \in Conns, HangUp(c) PROVE UiInv'
  BY <1>19 DEF HangUp
<1>20. CASE LoopTop
  BY <1>20 DEF LoopTop
<1>21. CASE Poll
  BY <1>21 DEF Poll
<1>22. CASE PollFails
  BY <1>22 DEF PollFails
<1>23. CASE Accept
  BY <1>23, AcceptMoves
<1>24. CASE Dispatch
  BY <1>24 DEF Dispatch
<1>25. CASE Serve
  BY <1>25 DEF Serve, T!Serve
<1>26. CASE ReapBegin
  BY <1>26 DEF ReapBegin
<1>27. ASSUME NEW c \in Conns, ReapVisit(c) PROVE UiInv'
  BY <1>27 DEF ReapVisit, JoinWorker
<1>28. CASE ReapEnd
  BY <1>28 DEF ReapEnd
<1>29. CASE StopTasks
  BY <1>29 DEF StopTasks, T!Close
<1>30. CASE StopInstances
  BY <1>30 DEF StopInstances
<1>31. CASE ShutdownSockets
  BY <1>31 DEF ShutdownSockets
<1>32. ASSUME NEW c \in Conns, Join(c) PROVE UiInv'
  BY <1>32 DEF Join, JoinWorker
<1>33. CASE Free
  BY <1>33 DEF Free
<1>34. CASE UNCHANGED vars
  BY <1>34 DEF vars
<1> QED
  BY <1>1, <1>2, <1>3, <1>4, <1>5, <1>6, <1>7, <1>8, <1>9, <1>10, <1>11,
     <1>12, <1>13, <1>14, <1>15, <1>16, <1>17, <1>18, <1>19, <1>20, <1>21,
     <1>22, <1>23, <1>24, <1>25, <1>26, <1>27, <1>28, <1>29, <1>30, <1>31,
     <1>32, <1>33, <1>34
     DEF Next, UiRun, WorkerRun, WorkerMay, Client, ServeReturns

(* A pending caller stays in its call. *)
LEMMA NextCall == IInv /\ [Next]_vars => CallInv'
<1> SUFFICES ASSUME IInv, [Next]_vars PROVE CallInv'
  OBVIOUS
<1> USE DEF IInv, TypeOK, MoreTypes, CallInv
<1>1. ASSUME NEW c \in Conns, Iterate(c) PROVE CallInv'
  BY <1>1 DEF Iterate
<1>2. ASSUME NEW c \in Conns, QuitWakeup(c) PROVE CallInv'
  BY <1>2 DEF QuitWakeup
<1>3. ASSUME NEW c \in Conns, PollHangup(c) PROVE CallInv'
  BY <1>3 DEF PollHangup
<1>4. ASSUME NEW c \in Conns, PollReadable(c) PROVE CallInv'
  BY <1>4 DEF PollReadable
<1>5. ASSUME NEW c \in Conns, PollTimeout(c) PROVE CallInv'
  BY <1>5 DEF PollTimeout
<1>6. ASSUME NEW c \in Conns, Handle(c) PROVE CallInv'
  BY <1>6 DEF Handle
<1>7. ASSUME NEW c \in Conns, WaitFinishes(c) PROVE CallInv'
  BY <1>7 DEF WaitFinishes
<1>8. ASSUME NEW c \in Conns, WaitStopped(c) PROVE CallInv'
  BY <1>8 DEF WaitStopped
<1>9. ASSUME NEW c \in Conns, Submit(c) PROVE CallInv'
  <2>1. /\ pc[c] = "submit" /\ pc' = [pc EXCEPT ![c] = "call"]
        /\ phase' = [phase EXCEPT ![c] = "pending"] /\ pending' = Append(pending, c)
    BY <1>9 DEF Submit, T!Submit
  <2>2. \A i \in DOMAIN pending : pending[i] # c
    BY <2>1
  <2>3. ASSUME NEW i \in DOMAIN pending'
        PROVE  \/ i \in DOMAIN pending /\ pending'[i] = pending[i]
               \/ i = Len(pending) + 1 /\ pending'[i] = c
    BY <2>1, <2>3
  <2>4. ASSUME NEW i \in DOMAIN pending'
        PROVE  pc'[pending'[i]] = "call" /\ phase'[pending'[i]] = "pending"
    <3>1. CASE i \in DOMAIN pending /\ pending'[i] = pending[i]
      BY <2>1, <2>2, <3>1
    <3>2. CASE i = Len(pending) + 1 /\ pending'[i] = c
      BY <2>1, <3>2
    <3> QED
      BY <2>3, <3>1, <3>2
  <2>5. ASSUME NEW i \in DOMAIN pending', NEW j \in DOMAIN pending', pending'[i] = pending'[j]
        PROVE  i = j
    BY <2>2, <2>3, <2>5
  <2> QED
    BY <2>4, <2>5
<1>10. ASSUME NEW c \in Conns, SubmitRefused(c) PROVE CallInv'
  BY <1>10 DEF SubmitRefused, T!Refuse
<1>11. ASSUME NEW c \in Conns, SubmitFails(c) PROVE CallInv'
  BY <1>11 DEF SubmitFails, T!Refuse
<1>12. ASSUME NEW c \in Conns, CallReturns(c) PROVE CallInv'
  BY <1>12 DEF CallReturns, T!Return
<1>13. ASSUME NEW c \in Conns, Respond(c) PROVE CallInv'
  BY <1>13 DEF Respond, Responded
<1>14. ASSUME NEW c \in Conns, RespondBroken(c) PROVE CallInv'
  BY <1>14 DEF RespondBroken, Responded
<1>15. ASSUME NEW c \in Conns, Publish(c) PROVE CallInv'
  BY <1>15 DEF Publish
<1>16. ASSUME NEW c \in Conns, EndWakeup(c) PROVE CallInv'
  BY <1>16 DEF EndWakeup
<1>17. ASSUME NEW c \in Conns, Connect(c) PROVE CallInv'
  BY <1>17 DEF Connect
<1>18. ASSUME NEW c \in Conns, Send(c) PROVE CallInv'
  BY <1>18 DEF Send
<1>19. ASSUME NEW c \in Conns, HangUp(c) PROVE CallInv'
  BY <1>19 DEF HangUp
<1>20. CASE LoopTop
  BY <1>20 DEF LoopTop
<1>21. CASE Poll
  BY <1>21 DEF Poll
<1>22. CASE PollFails
  BY <1>22 DEF PollFails
<1>23. CASE Accept
  <2>1. UNCHANGED calls
    BY <1>23, AcceptMoves
  <2>2. \A c \in Conns : pc[c] = "call" => pc'[c] = "call"
    BY <1>23, AcceptMoves
  <2> QED
    BY <2>1, <2>2 DEF calls
<1>24. CASE Dispatch
  BY <1>24 DEF Dispatch
<1>25. CASE Serve
  <2>1. /\ pending # <<>> /\ pending' = Tail(pending) /\ pc' = pc
        /\ phase' = [phase EXCEPT ![Head(pending)] = "answered"]
    BY <1>25 DEF Serve, T!Serve
  <2>2. ASSUME NEW i \in DOMAIN pending'
        PROVE  /\ i + 1 \in DOMAIN pending /\ pending'[i] = pending[i + 1]
               /\ pending[i + 1] # Head(pending)
    <3>1. /\ Len(pending) \in Nat /\ Len(Tail(pending)) = Len(pending) - 1
          /\ \A k \in 1..Len(Tail(pending)) : Tail(pending)[k] = pending[k + 1]
          /\ Head(pending) = pending[1] /\ 1 \in DOMAIN pending
      BY <2>1
    <3>2. i \in 1..Len(Tail(pending)) /\ i + 1 \in DOMAIN pending /\ i + 1 # 1
      BY <2>1, <2>2, <3>1
    <3> QED
      BY <2>1, <3>1, <3>2
  <2>3. ASSUME NEW i \in DOMAIN pending'
        PROVE  pc'[pending'[i]] = "call" /\ phase'[pending'[i]] = "pending"
    BY <2>1, <2>2
  <2> QED
    BY <2>1, <2>2, <2>3
<1>26. CASE ReapBegin
  BY <1>26 DEF ReapBegin
<1>27. ASSUME NEW c \in Conns, ReapVisit(c) PROVE CallInv'
  BY <1>27 DEF ReapVisit, JoinWorker
<1>28. CASE ReapEnd
  BY <1>28 DEF ReapEnd
<1>29. CASE StopTasks
  BY <1>29 DEF StopTasks, T!Close
<1>30. CASE StopInstances
  BY <1>30 DEF StopInstances
<1>31. CASE ShutdownSockets
  BY <1>31 DEF ShutdownSockets
<1>32. ASSUME NEW c \in Conns, Join(c) PROVE CallInv'
  BY <1>32 DEF Join, JoinWorker
<1>33. CASE Free
  BY <1>33 DEF Free
<1>34. CASE UNCHANGED vars
  BY <1>34 DEF vars
<1> QED
  BY <1>1, <1>2, <1>3, <1>4, <1>5, <1>6, <1>7, <1>8, <1>9, <1>10, <1>11,
     <1>12, <1>13, <1>14, <1>15, <1>16, <1>17, <1>18, <1>19, <1>20, <1>21,
     <1>22, <1>23, <1>24, <1>25, <1>26, <1>27, <1>28, <1>29, <1>30, <1>31,
     <1>32, <1>33, <1>34
     DEF Next, UiRun, WorkerRun, WorkerMay, Client, ServeReturns

(* A quit is answered before it takes effect. *)
LEMMA NextQuit == IInv /\ [Next]_vars => QuitInv'
<1> SUFFICES ASSUME IInv, [Next]_vars PROVE QuitInv'
  OBVIOUS
<1> USE DEF IInv, TypeOK, MoreTypes, ServingInv, QuitInv, QuitAnsweredFirst
<1>1. ASSUME NEW c \in Conns, Iterate(c) PROVE QuitInv'
  BY <1>1 DEF Iterate
<1>2. ASSUME NEW c \in Conns, QuitWakeup(c) PROVE QuitInv'
  BY <1>2 DEF QuitWakeup
<1>3. ASSUME NEW c \in Conns, PollHangup(c) PROVE QuitInv'
  BY <1>3 DEF PollHangup
<1>4. ASSUME NEW c \in Conns, PollReadable(c) PROVE QuitInv'
  BY <1>4 DEF PollReadable
<1>5. ASSUME NEW c \in Conns, PollTimeout(c) PROVE QuitInv'
  BY <1>5 DEF PollTimeout
<1>6. ASSUME NEW c \in Conns, Handle(c) PROVE QuitInv'
  BY <1>6 DEF Handle
<1>7. ASSUME NEW c \in Conns, WaitFinishes(c) PROVE QuitInv'
  BY <1>7 DEF WaitFinishes
<1>8. ASSUME NEW c \in Conns, WaitStopped(c) PROVE QuitInv'
  BY <1>8 DEF WaitStopped
<1>9. ASSUME NEW c \in Conns, Submit(c) PROVE QuitInv'
  BY <1>9 DEF Submit, T!Submit
<1>10. ASSUME NEW c \in Conns, SubmitRefused(c) PROVE QuitInv'
  BY <1>10 DEF SubmitRefused, T!Refuse
<1>11. ASSUME NEW c \in Conns, SubmitFails(c) PROVE QuitInv'
  BY <1>11 DEF SubmitFails, T!Refuse
<1>12. ASSUME NEW c \in Conns, CallReturns(c) PROVE QuitInv'
  BY <1>12 DEF CallReturns, T!Return
<1>13. ASSUME NEW c \in Conns, Respond(c) PROVE QuitInv'
  BY <1>13 DEF Respond, Responded
<1>14. ASSUME NEW c \in Conns, RespondBroken(c) PROVE QuitInv'
  BY <1>14 DEF RespondBroken, Responded
<1>15. ASSUME NEW c \in Conns, Publish(c) PROVE QuitInv'
  BY <1>15 DEF Publish
<1>16. ASSUME NEW c \in Conns, EndWakeup(c) PROVE QuitInv'
  BY <1>16 DEF EndWakeup
<1>17. ASSUME NEW c \in Conns, Connect(c) PROVE QuitInv'
  BY <1>17 DEF Connect
<1>18. ASSUME NEW c \in Conns, Send(c) PROVE QuitInv'
  BY <1>18 DEF Send
<1>19. ASSUME NEW c \in Conns, HangUp(c) PROVE QuitInv'
  BY <1>19 DEF HangUp
<1>20. CASE LoopTop
  BY <1>20 DEF LoopTop
<1>21. CASE Poll
  BY <1>21 DEF Poll
<1>22. CASE PollFails
  BY <1>22 DEF PollFails
<1>23. CASE Accept
  BY <1>23, AcceptMoves
<1>24. CASE Dispatch
  BY <1>24 DEF Dispatch
<1>25. CASE Serve
  BY <1>25 DEF Serve, T!Serve
<1>26. CASE ReapBegin
  BY <1>26 DEF ReapBegin
<1>27. ASSUME NEW c \in Conns, ReapVisit(c) PROVE QuitInv'
  BY <1>27 DEF ReapVisit, JoinWorker
<1>28. CASE ReapEnd
  BY <1>28 DEF ReapEnd
<1>29. CASE StopTasks
  BY <1>29 DEF StopTasks, T!Close
<1>30. CASE StopInstances
  BY <1>30 DEF StopInstances
<1>31. CASE ShutdownSockets
  BY <1>31 DEF ShutdownSockets
<1>32. ASSUME NEW c \in Conns, Join(c) PROVE QuitInv'
  BY <1>32 DEF Join, JoinWorker
<1>33. CASE Free
  BY <1>33 DEF Free
<1>34. CASE UNCHANGED vars
  BY <1>34 DEF vars
<1> QED
  BY <1>1, <1>2, <1>3, <1>4, <1>5, <1>6, <1>7, <1>8, <1>9, <1>10, <1>11,
     <1>12, <1>13, <1>14, <1>15, <1>16, <1>17, <1>18, <1>19, <1>20, <1>21,
     <1>22, <1>23, <1>24, <1>25, <1>26, <1>27, <1>28, <1>29, <1>30, <1>31,
     <1>32, <1>33, <1>34
     DEF Next, UiRun, WorkerRun, WorkerMay, Client, ServeReturns

(* After the exit no thread is left. *)
LEMMA NextExit == IInv /\ [Next]_vars => ExitInv'
<1> SUFFICES ASSUME IInv, [Next]_vars PROVE ExitInv'
  OBVIOUS
<1> USE DEF IInv, TypeOK, MoreTypes, ExitInv
<1>1. ASSUME NEW c \in Conns, Iterate(c) PROVE ExitInv'
  BY <1>1 DEF Iterate
<1>2. ASSUME NEW c \in Conns, QuitWakeup(c) PROVE ExitInv'
  BY <1>2 DEF QuitWakeup
<1>3. ASSUME NEW c \in Conns, PollHangup(c) PROVE ExitInv'
  BY <1>3 DEF PollHangup
<1>4. ASSUME NEW c \in Conns, PollReadable(c) PROVE ExitInv'
  BY <1>4 DEF PollReadable
<1>5. ASSUME NEW c \in Conns, PollTimeout(c) PROVE ExitInv'
  BY <1>5 DEF PollTimeout
<1>6. ASSUME NEW c \in Conns, Handle(c) PROVE ExitInv'
  BY <1>6 DEF Handle
<1>7. ASSUME NEW c \in Conns, WaitFinishes(c) PROVE ExitInv'
  BY <1>7 DEF WaitFinishes
<1>8. ASSUME NEW c \in Conns, WaitStopped(c) PROVE ExitInv'
  BY <1>8 DEF WaitStopped
<1>9. ASSUME NEW c \in Conns, Submit(c) PROVE ExitInv'
  BY <1>9 DEF Submit, T!Submit
<1>10. ASSUME NEW c \in Conns, SubmitRefused(c) PROVE ExitInv'
  BY <1>10 DEF SubmitRefused, T!Refuse
<1>11. ASSUME NEW c \in Conns, SubmitFails(c) PROVE ExitInv'
  BY <1>11 DEF SubmitFails, T!Refuse
<1>12. ASSUME NEW c \in Conns, CallReturns(c) PROVE ExitInv'
  BY <1>12 DEF CallReturns, T!Return
<1>13. ASSUME NEW c \in Conns, Respond(c) PROVE ExitInv'
  BY <1>13 DEF Respond, Responded
<1>14. ASSUME NEW c \in Conns, RespondBroken(c) PROVE ExitInv'
  BY <1>14 DEF RespondBroken, Responded
<1>15. ASSUME NEW c \in Conns, Publish(c) PROVE ExitInv'
  BY <1>15 DEF Publish
<1>16. ASSUME NEW c \in Conns, EndWakeup(c) PROVE ExitInv'
  BY <1>16 DEF EndWakeup
<1>17. ASSUME NEW c \in Conns, Connect(c) PROVE ExitInv'
  BY <1>17 DEF Connect
<1>18. ASSUME NEW c \in Conns, Send(c) PROVE ExitInv'
  BY <1>18 DEF Send
<1>19. ASSUME NEW c \in Conns, HangUp(c) PROVE ExitInv'
  BY <1>19 DEF HangUp
<1>20. CASE LoopTop
  BY <1>20 DEF LoopTop
<1>21. CASE Poll
  BY <1>21 DEF Poll
<1>22. CASE PollFails
  BY <1>22 DEF PollFails
<1>23. CASE Accept
  BY <1>23, AcceptMoves
<1>24. CASE Dispatch
  BY <1>24 DEF Dispatch
<1>25. CASE Serve
  BY <1>25 DEF Serve, T!Serve
<1>26. CASE ReapBegin
  BY <1>26 DEF ReapBegin
<1>27. ASSUME NEW c \in Conns, ReapVisit(c) PROVE ExitInv'
  BY <1>27 DEF ReapVisit, JoinWorker
<1>28. CASE ReapEnd
  BY <1>28 DEF ReapEnd
<1>29. CASE StopTasks
  BY <1>29 DEF StopTasks, T!Close
<1>30. CASE StopInstances
  BY <1>30 DEF StopInstances
<1>31. CASE ShutdownSockets
  BY <1>31 DEF ShutdownSockets
<1>32. ASSUME NEW c \in Conns, Join(c) PROVE ExitInv'
  BY <1>32 DEF Join, JoinWorker
<1>33. CASE Free
  BY <1>33 DEF Free
<1>34. CASE UNCHANGED vars
  BY <1>34 DEF vars
<1> QED
  BY <1>1, <1>2, <1>3, <1>4, <1>5, <1>6, <1>7, <1>8, <1>9, <1>10, <1>11,
     <1>12, <1>13, <1>14, <1>15, <1>16, <1>17, <1>18, <1>19, <1>20, <1>21,
     <1>22, <1>23, <1>24, <1>25, <1>26, <1>27, <1>28, <1>29, <1>30, <1>31,
     <1>32, <1>33, <1>34
     DEF Next, UiRun, WorkerRun, WorkerMay, Client, ServeReturns

-----------------------------------------------------------------------------
(* The inductive invariant holds at the start and through every step.      *)
LEMMA InitIInv == Init => IInv
<1> SUFFICES ASSUME Init PROVE IInv
  OBVIOUS
<1> USE ConstAssumption DEF Init, T!Init
<1>1. TypeOK
  <2>1. /\ inbox \in [Conns -> Seq(Requests)] /\ buf \in [Conns -> Seq(Requests)]
        /\ pc \in [Conns -> Pcs]
    OBVIOUS
  <2>2. left \in 0..Len(pending) /\ walk \subseteq Workers
    OBVIOUS
  <2> QED
    BY <2>1, <2>2 DEF TypeOK
<1>4. MoreTypes
  <2>1. pending \in Seq(Conns)
    OBVIOUS
  <2>2. phase \in [Conns -> {"idle", "pending", "answered"}]
    OBVIOUS
  <2> QED
    BY <2>1, <2>2 DEF MoreTypes
<1>2. ServingInv /\ UiInv /\ CallInv /\ ExitInv
  BY DEF ServingInv, UiInv, CallInv, ExitInv
<1>3. QuitInv
  BY DEF QuitInv, QuitAnsweredFirst
<1> QED
  BY <1>1, <1>2, <1>3, <1>4 DEF IInv

LEMMA NextIInv == IInv /\ [Next]_vars => IInv'
BY NextType, NextMoreTypes, NextServing, NextUi, NextCall, NextQuit, NextExit DEF IInv

LEMMA Inductive == Spec => []IInv
BY InitIInv, NextIInv, PTL DEF Spec

(* Whatever a client does, the thread whose request the UI thread can      *)
(* reach stays inside its call, so that request, message and connection    *)
(* are there.                                                              *)
THEOREM RequestsAreAlive == Spec => []BorrowedRequestAlive
<1>1. IInv => BorrowedRequestAlive
  BY DEF IInv, CallInv, BorrowedRequestAlive
<1> QED
  BY <1>1, Inductive, PTL

(* The daemon stops on request only after it has answered the request.     *)
THEOREM QuitIsAnswered == Spec => []QuitAnsweredFirst
<1>1. IInv => QuitAnsweredFirst
  BY DEF IInv, QuitInv
<1> QED
  BY <1>1, Inductive, PTL

(* Once exited, a step changes nothing of the queue, the threads' own      *)
(* state, the eventfd and the quit flags: clients at most come and go.     *)
LEMMA ExitedIsQuiet ==
  IInv /\ [Next]_vars => [ui = "exited" => UNCHANGED <<calls, thread, eventfd, quit>>]_vars
<1> SUFFICES ASSUME IInv, [Next]_vars, ui = "exited"
             PROVE  UNCHANGED <<calls, thread, eventfd, quit>>
  OBVIOUS
<1>1. \A c \in Conns : pc[c] \in {"absent", "backlog", "gone"}
  BY DEF IInv, ExitInv
<1>2. ASSUME NEW c \in Conns, WorkerRun(c) \/ WorkerMay(c) PROVE FALSE
  BY <1>1, <1>2 DEF WorkerRun, WorkerMay, Iterate, QuitWakeup, PollHangup, PollReadable,
     PollTimeout, Handle, WaitFinishes, WaitStopped, Submit, SubmitRefused, SubmitFails,
     CallReturns, Respond, RespondBroken, Publish, EndWakeup
<1>3. ASSUME NEW c \in Conns, Client(c) PROVE UNCHANGED <<calls, thread, eventfd, quit>>
  BY <1>3 DEF Client, Connect, Send, HangUp
<1>4. UiRun \/ PollFails \/ Serve => FALSE
  BY DEF UiRun, PollFails, Serve, LoopTop, Poll, Accept, Dispatch, ServeReturns, ReapBegin,
     ReapVisit, ReapEnd, StopTasks, StopInstances, ShutdownSockets, Join, Free
<1>5. CASE UNCHANGED vars
  BY <1>5 DEF vars
<1> QED
  BY <1>2, <1>3, <1>4, <1>5 DEF Next

(* After the UI resources and the task queue are freed no thread is left   *)
(* that could use them.                                                    *)
THEOREM NothingIsUsedAfterFree == Spec => NothingAfterFree
BY Inductive, ExitedIsQuiet, PTL DEF Spec, NothingAfterFree
=============================================================================
