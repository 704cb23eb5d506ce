----------------------------- MODULE TaskCalls -----------------------------
(***************************************************************************)
(* What the UI task queue promises to the connection threads: a FIFO       *)
(* server of synchronous calls.  A call is served at most once, in the     *)
(* order of submission, and returns the code of that one service; or it is *)
(* refused, returns -1 and has never been served.  Once closed, the server *)
(* serves nothing and refuses everything.  UiTask implements this module.  *)
(***************************************************************************)
EXTENDS Integers, Sequences

CONSTANTS
  Workers,  \* callers
  Codes     \* what a service may return

VARIABLES
  phase,    \* phase[w]: "idle", "pending" or "answered"
  answer,   \* answer[w]: the code of w's last answered call
  pending,  \* callers not answered yet, in the order of submission
  closed

vars == <<phase, answer, pending, closed>>

Init ==
  /\ phase  = [w \in Workers |-> "idle"]
  /\ answer = [w \in Workers |-> -1]
  /\ pending = <<>>
  /\ closed = FALSE

Submit(w) ==
  /\ phase[w] = "idle" /\ ~closed
  /\ phase'   = [phase EXCEPT ![w] = "pending"]
  /\ pending' = Append(pending, w)
  /\ UNCHANGED <<answer, closed>>

(* A call that is turned away at once: closed, or no means to wake the server. *)
Refuse(w) ==
  /\ phase[w] = "idle"
  /\ answer' = [answer EXCEPT ![w] = -1]
  /\ UNCHANGED <<phase, pending, closed>>

Serve ==
  /\ pending # <<>> /\ ~closed
  /\ \E code \in Codes : answer' = [answer EXCEPT ![Head(pending)] = code]
  /\ phase'   = [phase EXCEPT ![Head(pending)] = "answered"]
  /\ pending' = Tail(pending)
  /\ UNCHANGED closed

(* Closing refuses every pending call. *)
Close ==
  /\ ~closed
  /\ closed'  = TRUE
  /\ pending' = <<>>
  /\ phase'   = [w \in Workers |-> IF phase[w] = "pending" THEN "answered" ELSE phase[w]]
  /\ answer'  = [w \in Workers |-> IF phase[w] = "pending" THEN -1 ELSE answer[w]]

Return(w) ==
  /\ phase[w] = "answered"
  /\ phase' = [phase EXCEPT ![w] = "idle"]
  /\ UNCHANGED <<answer, pending, closed>>

Next ==
  \/ Serve \/ Close
  \/ \E w \in Workers : Submit(w) \/ Refuse(w) \/ Return(w)

Spec == Init /\ [][Next]_vars
=============================================================================
