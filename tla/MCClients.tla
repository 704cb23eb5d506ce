----------------------------- MODULE MCClients -----------------------------
(***************************************************************************)
(* The client side, one part at a time: which says whether a behaviour is  *)
(* one of the exchange (IpcProtocol), of a run of plaindialog, or of the   *)
(* gauge it feeds.  They share no state; the parts a behaviour is not of   *)
(* stay as they began.                                                     *)
(***************************************************************************)
EXTENDS MCIpcProtocol

CONSTANTS MaxSignals, Kinds, MaxLines, TextSize, Numbers, Words

VARIABLES which
VARIABLES
  pc, kind, signals, interrupted, activeFd, createSent, created, err, status,
  wire, act, reply, closed, uiq, running, dialog, finished, answered, foreign
VARIABLES input, at, gauge, value, text, updates, outcome

D == INSTANCE Plaindialog
G == INSTANCE GaugeStream

ASSUME ClientsAssumption == D!ConstAssumption /\ G!ConstAssumption

dialogVars ==
  <<pc, kind, signals, interrupted, activeFd, createSent, created, err, status,
    wire, act, reply, closed, uiq, running, dialog, finished, answered, foreign>>
gaugeVars == <<input, at, gauge, value, text, updates, outcome>>
allvars   == <<which, vars, dialogVars, gaugeVars>>

AnyDialog == CHOOSE k \in Kinds : TRUE
NoInput   == at = 0 /\ input = <<>>

AllInit ==
  /\ which \in {"exchange", "dialog", "gauge"}
  /\ Init /\ D!Init /\ G!Init
  /\ which # "dialog" => kind = AnyDialog /\ ~foreign
  /\ which # "gauge"  => NoInput

ExchangeStep(A) == which = "exchange" /\ A /\ UNCHANGED <<which, dialogVars, gaugeVars>>
DialogStep(A)   == which = "dialog" /\ A /\ UNCHANGED <<which, vars, gaugeVars>>
GaugeStep(A)    == which = "gauge" /\ A /\ UNCHANGED <<which, vars, dialogVars>>

AllNext == ExchangeStep(Next) \/ DialogStep(D!Next) \/ GaugeStep(G!Next)

(* Of each part the fairness its own specification states.  Its properties *)
(* need no condition on which: a part that does not run stays where they   *)
(* hold.                                                                   *)
AllSpec ==
  /\ AllInit /\ [][AllNext]_allvars
  /\ WF_allvars(ExchangeStep(ClientRun)) /\ WF_allvars(ExchangeStep(ServerRun))
  /\ WF_allvars(DialogStep(D!ClientRun)) /\ WF_allvars(DialogStep(D!Serve))
  /\ \A k \in D!Conns : WF_allvars(DialogStep(D!ThreadRun(k)))

(* What a run of plaindialog leaves behind: module Plaindialog.            *)
CleanExit == D!CleanExit

(* Every exchange comes to an end (module IpcProtocol), and so does a run  *)
(* of plaindialog that gets a signal (module Plaindialog).                 *)
ClientsEnd == ExchangeEnds /\ D!SignalEnds

(* The gauge shows its input, in order: module GaugeStream.                *)
GaugeFollowsInput == G!GaugeFollowsInput
=============================================================================
