---------------------------- MODULE Plaindialog ----------------------------
(***************************************************************************)
(* One run of the client of src/src/plaindialog.c, from the connect on: it *)
(* creates a dialog, waits for its result or feeds a gauge, prints, and    *)
(* deletes the dialog over a second connection, while signals close the    *)
(* first one under it.  The daemon is what it shows to clients: a thread   *)
(* per connection, one UI thread that serves them in order, the dialog.    *)
(* An exchange is one request and one reply, as module Exchange has it.    *)
(***************************************************************************)
EXTENDS Integers, Sequences

CONSTANTS
  MaxSignals,   \* bound: signals delivered to the client
  Kinds         \* kinds of dialog: "gauge", "plain" (without a Cancel button), "choice"

ConstAssumption == MaxSignals \in Nat /\ Kinds \subseteq {"gauge", "plain", "choice"}

VARIABLES
  pc, kind,      \* the client
  signals, interrupted, activeFd,
  createSent, created, err, status,
  wire, act, reply, closed,  \* per connection: where its exchange stands
  uiq,           \* connections whose call the UI thread has yet to serve
  running,       \* the daemon runs
  dialog,        \* the dialog of this name: absent, foreign, mine
  finished,      \* no, accepted, cancelled: what the user has done with mine
  answered,      \* history: how mine was finished
  foreign        \* history: the name was taken from the start

client == <<pc, kind, createSent, created, err, status>>
sig    == <<signals, interrupted, activeFd>>
conns  == <<wire, act, reply, closed>>
daemon == <<uiq, running, dialog, finished, answered, foreign>>
vars   == <<client, sig, conns, daemon>>

Work == 1
Cleanup == 2
Conns == {Work, Cleanup}
EXIT_ERROR == 255

Init ==
  /\ pc = "connect" /\ kind \in Kinds
  /\ signals = 0 /\ interrupted = FALSE /\ activeFd = FALSE
  /\ createSent = FALSE /\ created = FALSE /\ err = FALSE /\ status = EXIT_ERROR
  /\ wire = [k \in Conns |-> "none"] /\ act = [k \in Conns |-> "none"]
  /\ reply = [k \in Conns |-> "none"] /\ closed = [k \in Conns |-> FALSE]
  /\ uiq = <<>> /\ running = TRUE
  /\ foreign \in BOOLEAN /\ dialog = IF foreign THEN "foreign" ELSE "absent"
  /\ finished = "no" /\ answered = "no"

Goto(where) == pc' = where

-----------------------------------------------------------------------------
(* Signals.  The handler closes the descriptor the client works on, so     *)
(* that a blocked recv, tried again, fails.                                *)
SignalFlags ==  \* faulty: only the flag is set, a recv under way goes on
  /\ signals < MaxSignals /\ pc # "exited"
  /\ signals' = signals + 1
  /\ interrupted' = TRUE
  /\ UNCHANGED <<client, activeFd, conns, daemon>>

Signal ==
  /\ signals < MaxSignals /\ pc # "exited"
  /\ signals' = signals + 1
  /\ interrupted' = TRUE
  /\ activeFd' = FALSE
  /\ closed' = [closed EXCEPT ![Work] = @ \/ activeFd]
  /\ UNCHANGED <<client, wire, act, reply, daemon>>

-----------------------------------------------------------------------------
(* The client, statement by statement where a signal makes a difference.   *)
Connected(k) == wire' = [wire EXCEPT ![k] = "idle"]

Connect ==
  /\ pc = "connect"
  /\ \/ running /\ Connected(Work) /\ Goto("register")
     \/ ~running /\ UNCHANGED wire /\ Goto("out")
  /\ UNCHANGED <<kind, createSent, created, err, status, sig, act, reply, closed, daemon>>

Register ==
  /\ pc = "register"
  /\ activeFd' = TRUE
  /\ Goto("build")
  /\ UNCHANGED <<kind, createSent, created, err, status, signals, interrupted, conns, daemon>>

(* The request is put together; a wrong on/off argument stops it. *)
Build ==
  /\ pc = "build"
  /\ \/ interrupted /\ Goto("out") /\ UNCHANGED createSent
     \/ ~interrupted /\ Goto("out") /\ UNCHANGED createSent
     \/ ~interrupted /\ Goto("create") /\ createSent' = TRUE
  /\ UNCHANGED <<kind, created, err, status, sig, conns, daemon>>

Exchanges == {"create", "focus", "wait-result", "update"}
Over(k)   == IF k = Work THEN pc \in Exchanges ELSE pc = "delete"

Send(k) ==
  /\ Over(k) /\ wire[k] = "idle" /\ ~closed[k] /\ running
  /\ wire' = [wire EXCEPT ![k] = "request"]
  /\ act'  = [act EXCEPT ![k] = pc]
  /\ UNCHANGED <<client, sig, reply, closed, daemon>>

Dead(k) == wire[k] = "dead" \/ (wire[k] = "idle" /\ ~running)

(* A closed descriptor or a daemon that has gone fails the exchange; an    *)
(* ERR that came before may have been read.                                *)
Fail ==
  /\ pc \in Exchanges /\ (closed[Work] \/ Dead(Work))
  /\ err' \in {err, pc = "create" /\ wire[Work] = "replied" /\ reply[Work] = "err"}
  /\ Goto("out")
  /\ UNCHANGED <<kind, createSent, created, status, sig, conns, daemon>>

Received(k) ==
  /\ wire[k] = "replied" /\ ~closed[k]
  /\ wire' = [wire EXCEPT ![k] = "idle"]
  /\ UNCHANGED <<act, reply, closed, sig, daemon, kind, createSent>>

Ok(k) == reply[k] # "err"

CreateReturns ==
  /\ pc = "create" /\ Received(Work)
  /\ created' = Ok(Work) /\ err' = ~Ok(Work)
  /\ Goto(IF ~Ok(Work) THEN "out" ELSE IF kind = "gauge" THEN "gauge" ELSE "toFocus")
  /\ UNCHANGED status

(* gauge_stream: updates until the end of the input or a bad line. *)
Gauge ==
  /\ pc = "gauge"
  /\ \/ Goto("out") /\ UNCHANGED status
     \/ ~interrupted /\ Goto("update") /\ UNCHANGED status
     \/ ~interrupted /\ Goto("out") /\ status' = 0
  /\ UNCHANGED <<kind, createSent, created, err, sig, conns, daemon>>

UpdateReturns ==
  /\ pc = "update" /\ Received(Work)
  /\ Goto(IF Ok(Work) THEN "gauge" ELSE "out")
  /\ UNCHANGED <<created, err, status>>

ToFocus ==
  /\ pc = "toFocus"
  /\ Goto(IF interrupted THEN "out" ELSE "focus")
  /\ UNCHANGED <<kind, createSent, created, err, status, sig, conns, daemon>>

FocusReturns ==
  /\ pc = "focus" /\ Received(Work)
  /\ Goto(IF Ok(Work) THEN "wait-result" ELSE "out")
  /\ UNCHANGED <<created, err, status>>

WaitReturns ==
  /\ pc = "wait-result" /\ Received(Work)
  /\ err' = ~Ok(Work)
  /\ Goto(IF Ok(Work) /\ ~interrupted THEN "print" ELSE "out")
  /\ UNCHANGED <<created, status>>

(* BUTTON_2 is Cancel or No.  Output happens only for the other button,    *)
(* and may fail, or the result may not be what the dialog asked for.       *)
Report ==
  /\ pc = "print"
  /\ \/ reply[Work] = "cancelled" /\ status' = 1
     \/ reply[Work] # "cancelled" /\ status' \in {0, EXIT_ERROR}
  /\ Goto("out")
  /\ UNCHANGED <<kind, createSent, created, err, sig, conns, daemon>>

(* out: the descriptor is taken from the handler, then freed. *)
Out ==
  /\ pc = "out"
  /\ activeFd' = FALSE
  /\ Goto("free")
  /\ UNCHANGED <<kind, createSent, created, err, status, signals, interrupted, conns, daemon>>

MustDeleteUnlessErr == createSent /\ ~err  \* faulty: an ERR of wait-result spares the dialog
MustDelete == created \/ (createSent /\ ~err)

Free ==
  /\ pc = "free"
  /\ closed' = [closed EXCEPT ![Work] = TRUE]
  /\ \/ MustDelete /\ running /\ Connected(Cleanup) /\ Goto("delete") /\ UNCHANGED status
     \/ MustDelete /\ ~running /\ UNCHANGED wire /\ Goto("return") /\ status' = EXIT_ERROR
     \/ ~MustDelete /\ UNCHANGED <<wire, status>> /\ Goto("return")
  /\ UNCHANGED <<kind, createSent, created, err, sig, act, reply, daemon>>

DeleteReturns ==
  /\ pc = "delete"
  /\ \/ Received(Cleanup) /\ status' = IF Ok(Cleanup) THEN status ELSE EXIT_ERROR
     \/ /\ Dead(Cleanup) /\ status' = EXIT_ERROR
        /\ UNCHANGED <<conns, sig, daemon, kind, createSent>>
  /\ Goto("return")
  /\ UNCHANGED <<created, err>>

ReturnStatus ==  \* faulty: a signal after the answer is forgotten
  /\ pc = "return"
  /\ closed' = [k \in Conns |-> TRUE]
  /\ Goto("exited")
  /\ UNCHANGED <<kind, createSent, created, err, status, sig, wire, act, reply, daemon>>

Return ==
  /\ pc = "return"
  /\ status' = IF interrupted THEN EXIT_ERROR ELSE status
  /\ closed' = [k \in Conns |-> TRUE]
  /\ Goto("exited")
  /\ UNCHANGED <<kind, createSent, created, err, sig, wire, act, reply, daemon>>

-----------------------------------------------------------------------------
(* The daemon. *)
Step(k, from, to) == wire[k] = from /\ wire' = [wire EXCEPT ![k] = to]
DaemonOnly == UNCHANGED <<client, sig, act, closed>>

(* A connection whose client has gone is not read any more. *)
Read(k) ==
  /\ ~closed[k] /\ Step(k, "request", "read")
  /\ DaemonOnly /\ UNCHANGED <<reply, daemon>>

Discard(k) ==
  /\ closed[k] /\ wire[k] \in {"idle", "request", "replied"}
  /\ wire' = [wire EXCEPT ![k] = "ended"]
  /\ DaemonOnly /\ UNCHANGED <<reply, daemon>>

(* A request that has been read is carried out whether or not the client   *)
(* is still there.                                                         *)
Submit(k) ==
  /\ \/ wire[k] = "read" /\ act[k] # "wait-result"
     \/ wire[k] = "wait" /\ dialog = "mine" /\ finished # "no"
  /\ wire' = [wire EXCEPT ![k] = "queued"]
  /\ uiq' = Append(uiq, k)
  /\ DaemonOnly /\ UNCHANGED <<reply, running, dialog, finished, answered, foreign>>

BeginWait(k) ==
  /\ act[k] = "wait-result" /\ Step(k, "read", "wait")
  /\ DaemonOnly /\ UNCHANGED <<reply, daemon>>

(* No dialog to wait for, or no memory for the task that asks its result.  *)
(* For other calls the lack of memory is not modelled: a create or focus   *)
(* is refused as Serve may, a delete fails and shows in the status.        *)
WaitFails(k) ==
  /\ dialog # "mine" \/ finished # "no"
  /\ Step(k, "wait", "replied")
  /\ reply' = [reply EXCEPT ![k] = "err"]
  /\ DaemonOnly /\ UNCHANGED daemon

Served(k, r) ==
  /\ wire' = [wire EXCEPT ![k] = "replied"]
  /\ reply' = [reply EXCEPT ![k] = r]

Serve ==
  /\ uiq # <<>> /\ uiq' = Tail(uiq)
  /\ LET k == Head(uiq) IN
       \/ /\ act[k] = "create" /\ dialog = "absent"
          /\ \/ Served(k, "ok") /\ dialog' = "mine"
             \/ Served(k, "err") /\ UNCHANGED dialog
       \/ act[k] = "create" /\ dialog # "absent" /\ Served(k, "err") /\ UNCHANGED dialog
       \/ act[k] = "delete" /\ dialog # "absent" /\ Served(k, "ok") /\ dialog' = "absent"
       \/ /\ act[k] \in {"focus", "update"} /\ dialog # "absent"
          /\ (Served(k, "ok") \/ Served(k, "err"))
          /\ UNCHANGED dialog
       \/ act[k] = "wait-result" /\ dialog # "absent" /\ Served(k, finished) /\ UNCHANGED dialog
       \/ act[k] # "create" /\ dialog = "absent" /\ Served(k, "err") /\ UNCHANGED dialog
  /\ DaemonOnly /\ UNCHANGED <<running, finished, answered, foreign>>

(* The user, another client, and the end of the daemon. *)
Finish ==
  /\ dialog = "mine" /\ finished = "no" /\ kind # "gauge"
  /\ finished' \in IF kind = "choice" THEN {"accepted", "cancelled"} ELSE {"accepted"}
  /\ answered' = finished'
  /\ UNCHANGED <<client, sig, conns, uiq, running, dialog, foreign>>

OtherDeletes ==
  /\ dialog = "mine"
  /\ dialog' = "absent"
  /\ UNCHANGED <<client, sig, conns, uiq, running, finished, answered, foreign>>

DaemonExits ==
  /\ running
  /\ running' = FALSE /\ dialog' = "absent" /\ uiq' = <<>>
  /\ wire' = [k \in Conns |-> IF wire[k] \in {"none", "idle", "replied"} THEN wire[k] ELSE "dead"]
  /\ DaemonOnly /\ UNCHANGED <<reply, finished, answered, foreign>>

ClientRun ==
  \/ Connect \/ Register \/ Build \/ Fail
  \/ \E k \in Conns : Send(k)
  \/ CreateReturns \/ Gauge \/ UpdateReturns \/ ToFocus \/ FocusReturns
  \/ WaitReturns \/ Report \/ Out \/ Free \/ DeleteReturns \/ Return

ThreadRun(k) == Read(k) \/ Discard(k) \/ Submit(k) \/ BeginWait(k) \/ WaitFails(k)

Next ==
  \/ ClientRun \/ Signal
  \/ \E k \in Conns : ThreadRun(k)
  \/ Serve \/ Finish \/ OtherDeletes \/ DaemonExits

(* The client, the threads of the daemon and its UI thread are scheduled.  *)
Spec ==
  /\ Init /\ [][Next]_vars
  /\ WF_vars(ClientRun) /\ WF_vars(Serve)
  /\ \A k \in Conns : WF_vars(ThreadRun(k))

-----------------------------------------------------------------------------
TypeOK ==
  /\ kind \in Kinds /\ signals \in 0..MaxSignals
  /\ wire \in [Conns -> {"none", "idle", "request", "read", "wait", "queued", "replied",
                         "ended", "dead"}]
  /\ reply \in [Conns -> {"none", "ok", "err", "no", "accepted", "cancelled"}]
  /\ uiq \in Seq(Conns) /\ Len(uiq) <= 2
  /\ dialog \in {"absent", "foreign", "mine"} /\ finished \in {"no", "accepted", "cancelled"}
  /\ status \in {0, 1, EXIT_ERROR}

Exited == pc = "exited"

(* Documentation/plaindialog.md:145: when the program ends, the dialog it  *)
(* knows to have created is gone, after a result, an error or a signal     *)
(* alike; and a dialog of the same name that was there before is left      *)
(* alone, unless a signal hid from the client that it was refused.         *)
CleansUp ==
  /\ Exited /\ created => dialog # "mine"
  /\ foreign /\ running /\ ~interrupted => dialog = "foreign"

(* The exit status is what the user did: success only for a dialog         *)
(* accepted, 1 only for one cancelled, and neither after a signal.         *)
StatusIsAnswer ==
  Exited =>
    /\ status = 0 => ~interrupted /\ (kind = "gauge" \/ answered = "accepted")
    /\ status = 1 => ~interrupted /\ answered = "cancelled"

(* What is left of a program that has ended: both, in a well-typed state.  *)
CleanExit == TypeOK /\ CleansUp /\ StatusIsAnswer

(* A signal ends the program, whatever it waits for: the user, the daemon, *)
(* or its own cleanup.                                                     *)
SignalEnds == interrupted ~> Exited

(* The same line of the documentation says that the dialog is deleted on a *)
(* signal.  When the create has been read by its thread but not reached    *)
(* the UI thread, the delete can get there first.                          *)
NoneIsLeft == Exited /\ uiq = <<>> /\ (\A k \in Conns : wire[k] # "read") => dialog # "mine"
=============================================================================
