------------------------------ MODULE Exchange ------------------------------
(***************************************************************************)
(* What a client may count on when it calls ipc_send_message or            *)
(* ipc_send_message2 (src/src/ipc.c): the daemon carries the request out   *)
(* at most once, and the call returns the answer to that request, or fails *)
(* and leaves open whether it was carried out.  After a failure the        *)
(* connection is of no more use.                                           *)
(***************************************************************************)
CONSTANTS Requests, Answers, NoAnswer

VARIABLES phase, request, answer

vars == <<phase, request, answer>>

Init ==
  /\ phase = "idle"
  /\ request \in Requests
  /\ answer = NoAnswer

Ask ==
  /\ phase = "idle"
  /\ phase' = "asked"
  /\ request' \in Requests
  /\ answer' = NoAnswer

(* The daemon handles the very request that was asked. *)
Serve ==
  /\ phase = "asked"
  /\ phase' = "served"
  /\ \E a \in Answers : a.of = request /\ answer' = a
  /\ UNCHANGED request

Return ==
  /\ phase = "served"
  /\ phase' = "idle"
  /\ UNCHANGED <<request, answer>>

Fail ==
  /\ phase # "broken"
  /\ phase' = "broken"
  /\ UNCHANGED request
  /\ answer' = NoAnswer

Next == Ask \/ Serve \/ Return \/ Fail

Spec == Init /\ [][Next]_vars
=============================================================================
