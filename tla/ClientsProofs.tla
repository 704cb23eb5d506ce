---------------------------- MODULE ClientsProofs ----------------------------
(***************************************************************************)
(* Proofs about the clients: of a run of plaindialog, for any number of    *)
(* signals and any kinds of dialog, and of a connection of ipc.c, for any  *)
(* requests, any number of exchanges and any stray lines between them, as  *)
(* StraysAssumption says.                                                  *)
(***************************************************************************)
EXTENDS MCClients, SequenceLemmas, TLAPS

-----------------------------------------------------------------------------
(* A run of plaindialog: what is true at every moment, so that in the end  *)
(* what it leaves behind is right.                                         *)
Places == {"connect", "register", "build", "create", "gauge", "update", "toFocus", "focus",
           "wait-result", "print", "out", "free", "delete", "return", "exited"}
Calls  == {"none", "create", "focus", "wait-result", "update", "delete"}

(* How far the client can be, and what else has a type. *)
DialogTypes ==
  /\ D!TypeOK
  /\ pc \in Places /\ act \in [D!Conns -> Calls]
  /\ closed \in [D!Conns -> BOOLEAN]
  /\ running \in BOOLEAN /\ interrupted \in BOOLEAN /\ activeFd \in BOOLEAN
  /\ createSent \in BOOLEAN /\ created \in BOOLEAN /\ err \in BOOLEAN /\ foreign \in BOOLEAN

(* Who is queued is in the queue, once; a daemon that has gone has nothing *)
(* under way, and only then is an exchange dead.                           *)
QueueInv ==
  /\ uiq \in {<<>>, <<1>>, <<2>>, <<1, 2>>, <<2, 1>>}
  /\ \A k \in D!Conns : wire[k] = "queued" <=> \E i \in DOMAIN uiq : uiq[i] = k
  /\ running => \A k \in D!Conns : wire[k] # "dead"
  /\ ~running =>
       /\ uiq = <<>> /\ dialog = "absent"
       /\ \A k \in D!Conns : wire[k] \in {"none", "idle", "replied", "dead", "ended"}

Busy == {"request", "read", "wait", "queued", "replied"}

(* What is under way on a connection is what the client is at; the second  *)
(* one is there only for the delete, and the first is closed early only by *)
(* a signal.                                                               *)
ExchangeInv ==
  /\ act[1] # "delete" /\ act[2] \in {"none", "delete"}
  /\ wire[1] = "wait" => act[1] = "wait-result"
  /\ wire[2] # "wait" /\ (wire[2] \in Busy => act[2] = "delete")
  /\ pc \notin {"delete", "return", "exited"} => wire[2] = "none"
  /\ pc = "connect" => wire[1] = "none"
  /\ pc \in {"register", "build", "gauge", "toFocus", "print"} =>
       wire[1] \in {"idle", "ended", "dead"}
  /\ pc \in D!Exchanges /\ wire[1] \in Busy => act[1] = pc
  /\ closed[1] /\ pc \notin {"delete", "return", "exited"} => interrupted
  /\ pc \in {"gauge", "update"} => kind = "gauge"

(* The dialog is created at most once, before the client knows; what it    *)
(* knows to have created is gone when the delete has returned.             *)
CreatedInv ==
  /\ pc \in {"connect", "register", "build", "create"} => ~created
  /\ act[1] = "create" /\ wire[1] \in {"request", "read", "queued"} => ~created
  /\ created /\ (pc \in {"return", "exited"} \/ (pc = "delete" /\ wire[2] = "replied")) =>
       dialog # "mine"

(* A name that was taken is refused, and then not deleted.                 *)
ForeignInv ==
  foreign /\ running /\ ~interrupted =>
    /\ dialog = "foreign" /\ ~created
    /\ pc \in {"connect", "register", "build", "create", "out", "free", "return", "exited"}
    /\ wire[2] = "none"
    /\ createSent /\ pc # "create" => err
    /\ act[1] = "create" /\ wire[1] = "replied" => reply[1] = "err"
    /\ wire[1] \in Busy => act[1] = "create"

(* A result is what the user has done, and the status what the result is.  *)
AnswerInv ==
  /\ answered = finished
  /\ act[1] = "wait-result" /\ wire[1] = "queued" => finished # "no"
  /\ act[1] = "wait-result" /\ wire[1] = "replied" /\ reply[1] # "err" =>
       finished # "no" /\ reply[1] = finished
  /\ pc = "print" => finished # "no" /\ reply[1] = finished
  /\ status = 0 => kind = "gauge" \/ answered = "accepted"
  /\ status = 1 => answered = "cancelled"
  /\ pc = "exited" /\ interrupted => status = 255

DialogInv ==
  DialogTypes /\ QueueInv /\ ExchangeInv /\ CreatedInv /\ ForeignInv /\ AnswerInv
-----------------------------------------------------------------------------
(* What a sequence is with an element more, and one with just one more.    *)
LEMMA ElementsAfterAppend ==
  ASSUME NEW S, NEW s \in Seq(S), NEW b \in S
  PROVE  /\ Append(s, b) \in Seq(S) /\ Len(Append(s, b)) = Len(s) + 1
         /\ Append(s, b)[Len(s) + 1] = b
         /\ \A i \in 1..Len(s) : Append(s, b)[i] = s[i]
OBVIOUS

LEMMA AppendToOne == ASSUME NEW S, NEW a \in S, NEW b \in S PROVE Append(<<a>>, b) = <<a, b>>
<1> DEFINE s == <<a>>
           t == Append(s, b)
<1>1. s \in Seq(S) /\ Len(s) = 1 /\ s[1] = a
  OBVIOUS
<1> HIDE DEF s
<1>2. /\ t \in Seq(S) /\ Len(t) = Len(s) + 1 /\ t[Len(s) + 1] = b
      /\ \A i \in 1..Len(s) : t[i] = s[i]
  <2>1. s \in Seq(S)
    BY <1>1
  <2> QED
    BY ONLY <2>1, ElementsAfterAppend
<1> HIDE DEF t
<1>3. t = <<a, b>>
  BY <1>1, <1>2
<1> QED
  BY <1>3 DEF t, s

(* Who is in a queue of two.                                               *)
LEMMA PairHolds == \A a, b : /\ \E i \in DOMAIN <<a, b>> : <<a, b>>[i] = a
                            /\ \E i \in DOMAIN <<a, b>> : <<a, b>>[i] = b
OBVIOUS

USE DEF Places, Calls, D!Conns, D!Work, D!Cleanup, D!EXIT_ERROR, D!Exchanges, Busy,
        D!client, D!sig, D!conns, D!daemon

(* What the client does, or a signal does to it, keeps all of this.        *)
LEMMA ClientKeeps ==
  ASSUME D!ConstAssumption, DialogInv, D!ClientRun \/ D!Signal
  PROVE  DialogInv'
<1> USE DEF DialogInv, DialogTypes, D!TypeOK, QueueInv, ExchangeInv, CreatedInv, ForeignInv,
            AnswerInv
<1>1. CASE D!Signal
  <2>1. DialogTypes'
    <3>1. D!TypeOK'
      <4>1. signals' \in 0..MaxSignals
        BY <1>1 DEF D!Signal, D!ConstAssumption
      <4> QED
        BY <1>1, <4>1 DEF D!Signal
    <3>2. pc' \in Places /\ act' \in [D!Conns -> Calls] /\ closed' \in [D!Conns -> BOOLEAN]
      BY <1>1 DEF D!Signal
    <3>3. /\ running' \in BOOLEAN /\ interrupted' \in BOOLEAN /\ activeFd' \in BOOLEAN
          /\ createSent' \in BOOLEAN /\ created' \in BOOLEAN /\ err' \in BOOLEAN
          /\ foreign' \in BOOLEAN
      BY <1>1 DEF D!Signal
    <3> HIDE DEF D!TypeOK
    <3> QED
      BY <3>1, <3>2, <3>3
  <2>2. QueueInv'
    BY <1>1 DEF D!Signal
  <2>3. ExchangeInv'
    BY <1>1 DEF D!Signal
  <2>4. CreatedInv'
    BY <1>1 DEF D!Signal
  <2>5. ForeignInv'
    BY <1>1 DEF D!Signal
  <2>6. AnswerInv'
    BY <1>1 DEF D!Signal
  <2> QED
    BY <2>1, <2>2, <2>3, <2>4, <2>5, <2>6, Zenon
<1>2. CASE D!Connect
  <2>1. DialogTypes'
    BY <1>2 DEF D!Connect, D!Connected, D!Goto
  <2>2. QueueInv'
    BY <1>2 DEF D!Connect, D!Connected, D!Goto
  <2>3. ExchangeInv'
    BY <1>2 DEF D!Connect, D!Connected, D!Goto
  <2>4. CreatedInv'
    BY <1>2 DEF D!Connect, D!Connected, D!Goto
  <2>5. ForeignInv'
    BY <1>2 DEF D!Connect, D!Connected, D!Goto
  <2>6. AnswerInv'
    BY <1>2 DEF D!Connect, D!Connected, D!Goto
  <2> QED
    BY <2>1, <2>2, <2>3, <2>4, <2>5, <2>6, Zenon
<1>3. CASE D!Register
  <2>1. DialogTypes'
    BY <1>3 DEF D!Register, D!Goto
  <2>2. QueueInv'
    BY <1>3 DEF D!Register, D!Goto
  <2>3. ExchangeInv'
    BY <1>3 DEF D!Register, D!Goto
  <2>4. CreatedInv'
    BY <1>3 DEF D!Register, D!Goto
  <2>5. ForeignInv'
    BY <1>3 DEF D!Register, D!Goto
  <2>6. AnswerInv'
    BY <1>3 DEF D!Register, D!Goto
  <2> QED
    BY <2>1, <2>2, <2>3, <2>4, <2>5, <2>6, Zenon
<1>4. CASE D!Build
  <2>1. DialogTypes'
    <3>1. D!TypeOK'
      BY <1>4 DEF D!Build, D!Goto
    <3>2. pc' \in Places /\ act' \in [D!Conns -> Calls] /\ closed' \in [D!Conns -> BOOLEAN]
      BY <1>4 DEF D!Build, D!Goto
    <3>3. /\ running' \in BOOLEAN /\ interrupted' \in BOOLEAN /\ activeFd' \in BOOLEAN
          /\ createSent' \in BOOLEAN /\ created' \in BOOLEAN /\ err' \in BOOLEAN
          /\ foreign' \in BOOLEAN
      BY <1>4 DEF D!Build, D!Goto
    <3> HIDE DEF D!TypeOK
    <3> QED
      BY <3>1, <3>2, <3>3
  <2>2. QueueInv'
    BY <1>4 DEF D!Build, D!Goto
  <2>3. ExchangeInv'
    BY <1>4 DEF D!Build, D!Goto
  <2>4. CreatedInv'
    BY <1>4 DEF D!Build, D!Goto
  <2>5. ForeignInv'
    BY <1>4 DEF D!Build, D!Goto
  <2>6. AnswerInv'
    BY <1>4 DEF D!Build, D!Goto
  <2> QED
    BY <2>1, <2>2, <2>3, <2>4, <2>5, <2>6, Zenon
<1>5. CASE \E k \in D!Conns : D!Send(k)
  <2>1. DialogTypes'
    BY <1>5 DEF D!Send, D!Over
  <2>2. QueueInv'
    BY <1>5 DEF D!Send, D!Over
  <2>3. ExchangeInv'
    BY <1>5 DEF D!Send, D!Over
  <2>4. CreatedInv'
    BY <1>5 DEF D!Send, D!Over
  <2>5. ForeignInv'
    BY <1>5 DEF D!Send, D!Over
  <2>6. AnswerInv'
    BY <1>5 DEF D!Send, D!Over
  <2> QED
    BY <2>1, <2>2, <2>3, <2>4, <2>5, <2>6, Zenon
<1>6. CASE D!Fail
  <2>1. DialogTypes'
    <3>1. D!TypeOK'
      BY <1>6 DEF D!Fail, D!Dead, D!Goto
    <3>2. pc' \in Places /\ act' \in [D!Conns -> Calls] /\ closed' \in [D!Conns -> BOOLEAN]
      BY <1>6 DEF D!Fail, D!Dead, D!Goto
    <3>3. /\ running' \in BOOLEAN /\ interrupted' \in BOOLEAN /\ activeFd' \in BOOLEAN
          /\ createSent' \in BOOLEAN /\ created' \in BOOLEAN /\ err' \in BOOLEAN
          /\ foreign' \in BOOLEAN
      <4>1. err' \in BOOLEAN
        BY <1>6, Zenon DEF D!Fail
      <4> QED
        BY <1>6, <4>1 DEF D!Fail
    <3> HIDE DEF D!TypeOK
    <3> QED
      BY <3>1, <3>2, <3>3
  <2>2. QueueInv'
    BY <1>6 DEF D!Fail, D!Dead, D!Goto
  <2>3. ExchangeInv'
    BY <1>6 DEF D!Fail, D!Dead, D!Goto
  <2>4. CreatedInv'
    BY <1>6 DEF D!Fail, D!Dead, D!Goto
  <2>5. ForeignInv'
    BY <1>6 DEF D!Fail, D!Dead, D!Goto
  <2>6. AnswerInv'
    BY <1>6 DEF D!Fail, D!Dead, D!Goto
  <2> QED
    BY <2>1, <2>2, <2>3, <2>4, <2>5, <2>6, Zenon
<1>7. CASE D!CreateReturns
  <2>1. DialogTypes'
    BY <1>7 DEF D!CreateReturns, D!Received, D!Ok, D!Goto
  <2>2. QueueInv'
    BY <1>7 DEF D!CreateReturns, D!Received, D!Ok, D!Goto
  <2>3. ExchangeInv'
    BY <1>7 DEF D!CreateReturns, D!Received, D!Ok, D!Goto
  <2>4. CreatedInv'
    BY <1>7 DEF D!CreateReturns, D!Received, D!Ok, D!Goto
  <2>5. ForeignInv'
    BY <1>7 DEF D!CreateReturns, D!Received, D!Ok, D!Goto
  <2>6. AnswerInv'
    BY <1>7 DEF D!CreateReturns, D!Received, D!Ok, D!Goto
  <2> QED
    BY <2>1, <2>2, <2>3, <2>4, <2>5, <2>6, Zenon
<1>8. CASE D!Gauge
  <2>1. DialogTypes'
    BY <1>8 DEF D!Gauge, D!Goto
  <2>2. QueueInv'
    BY <1>8 DEF D!Gauge, D!Goto
  <2>3. ExchangeInv'
    BY <1>8 DEF D!Gauge, D!Goto
  <2>4. CreatedInv'
    BY <1>8 DEF D!Gauge, D!Goto
  <2>5. ForeignInv'
    BY <1>8 DEF D!Gauge, D!Goto
  <2>6. AnswerInv'
    BY <1>8 DEF D!Gauge, D!Goto
  <2> QED
    BY <2>1, <2>2, <2>3, <2>4, <2>5, <2>6, Zenon
<1>9. CASE D!UpdateReturns
  <2>1. DialogTypes'
    BY <1>9 DEF D!UpdateReturns, D!Received, D!Ok, D!Goto
  <2>2. QueueInv'
    BY <1>9 DEF D!UpdateReturns, D!Received, D!Ok, D!Goto
  <2>3. ExchangeInv'
    BY <1>9 DEF D!UpdateReturns, D!Received, D!Ok, D!Goto
  <2>4. CreatedInv'
    BY <1>9 DEF D!UpdateReturns, D!Received, D!Ok, D!Goto
  <2>5. ForeignInv'
    BY <1>9 DEF D!UpdateReturns, D!Received, D!Ok, D!Goto
  <2>6. AnswerInv'
    BY <1>9 DEF D!UpdateReturns, D!Received, D!Ok, D!Goto
  <2> QED
    BY <2>1, <2>2, <2>3, <2>4, <2>5, <2>6, Zenon
<1>10. CASE D!ToFocus
  <2>1. DialogTypes'
    BY <1>10 DEF D!ToFocus, D!Goto
  <2>2. QueueInv'
    BY <1>10 DEF D!ToFocus, D!Goto
  <2>3. ExchangeInv'
    BY <1>10 DEF D!ToFocus, D!Goto
  <2>4. CreatedInv'
    BY <1>10 DEF D!ToFocus, D!Goto
  <2>5. ForeignInv'
    BY <1>10 DEF D!ToFocus, D!Goto
  <2>6. AnswerInv'
    BY <1>10 DEF D!ToFocus, D!Goto
  <2> QED
    BY <2>1, <2>2, <2>3, <2>4, <2>5, <2>6, Zenon
<1>11. CASE D!FocusReturns
  <2>1. DialogTypes'
    BY <1>11 DEF D!FocusReturns, D!Received, D!Ok, D!Goto
  <2>2. QueueInv'
    BY <1>11 DEF D!FocusReturns, D!Received, D!Ok, D!Goto
  <2>3. ExchangeInv'
    BY <1>11 DEF D!FocusReturns, D!Received, D!Ok, D!Goto
  <2>4. CreatedInv'
    BY <1>11 DEF D!FocusReturns, D!Received, D!Ok, D!Goto
  <2>5. ForeignInv'
    BY <1>11 DEF D!FocusReturns, D!Received, D!Ok, D!Goto
  <2>6. AnswerInv'
    BY <1>11 DEF D!FocusReturns, D!Received, D!Ok, D!Goto
  <2> QED
    BY <2>1, <2>2, <2>3, <2>4, <2>5, <2>6, Zenon
<1>12. CASE D!WaitReturns
  <2>1. DialogTypes'
    BY <1>12 DEF D!WaitReturns, D!Received, D!Ok, D!Goto
  <2>2. QueueInv'
    BY <1>12 DEF D!WaitReturns, D!Received, D!Ok, D!Goto
  <2>3. ExchangeInv'
    BY <1>12 DEF D!WaitReturns, D!Received, D!Ok, D!Goto
  <2>4. CreatedInv'
    BY <1>12 DEF D!WaitReturns, D!Received, D!Ok, D!Goto
  <2>5. ForeignInv'
    BY <1>12 DEF D!WaitReturns, D!Received, D!Ok, D!Goto
  <2>6. AnswerInv'
    BY <1>12 DEF D!WaitReturns, D!Received, D!Ok, D!Goto
  <2> QED
    BY <2>1, <2>2, <2>3, <2>4, <2>5, <2>6, Zenon
<1>13. CASE D!Report
  <2>1. DialogTypes'
    BY <1>13 DEF D!Report, D!Goto
  <2>2. QueueInv'
    BY <1>13 DEF D!Report, D!Goto
  <2>3. ExchangeInv'
    BY <1>13 DEF D!Report, D!Goto
  <2>4. CreatedInv'
    BY <1>13 DEF D!Report, D!Goto
  <2>5. ForeignInv'
    BY <1>13 DEF D!Report, D!Goto
  <2>6. AnswerInv'
    BY <1>13 DEF D!Report, D!Goto
  <2> QED
    BY <2>1, <2>2, <2>3, <2>4, <2>5, <2>6, Zenon
<1>14. CASE D!Out
  <2>1. DialogTypes'
    <3>1. D!TypeOK'
      BY <1>14 DEF D!Out, D!Goto
    <3>2. pc' \in Places /\ act' \in [D!Conns -> Calls] /\ closed' \in [D!Conns -> BOOLEAN]
      BY <1>14 DEF D!Out, D!Goto
    <3>3. /\ running' \in BOOLEAN /\ interrupted' \in BOOLEAN /\ activeFd' \in BOOLEAN
          /\ createSent' \in BOOLEAN /\ created' \in BOOLEAN /\ err' \in BOOLEAN
          /\ foreign' \in BOOLEAN
      BY <1>14 DEF D!Out, D!Goto
    <3> HIDE DEF D!TypeOK
    <3> QED
      BY <3>1, <3>2, <3>3
  <2>2. QueueInv'
    BY <1>14 DEF D!Out, D!Goto
  <2>3. ExchangeInv'
    BY <1>14 DEF D!Out, D!Goto
  <2>4. CreatedInv'
    BY <1>14 DEF D!Out, D!Goto
  <2>5. ForeignInv'
    BY <1>14 DEF D!Out, D!Goto
  <2>6. AnswerInv'
    BY <1>14 DEF D!Out, D!Goto
  <2> QED
    BY <2>1, <2>2, <2>3, <2>4, <2>5, <2>6, Zenon
<1>15. CASE D!Free
  <2>1. DialogTypes'
    BY <1>15 DEF D!Free, D!MustDelete, D!Connected, D!Goto
  <2>2. QueueInv'
    BY <1>15 DEF D!Free, D!MustDelete, D!Connected, D!Goto
  <2>3. ExchangeInv'
    BY <1>15 DEF D!Free, D!MustDelete, D!Connected, D!Goto
  <2>4. CreatedInv'
    BY <1>15 DEF D!Free, D!MustDelete, D!Connected, D!Goto
  <2>5. ForeignInv'
    BY <1>15 DEF D!Free, D!MustDelete, D!Connected, D!Goto
  <2>6. AnswerInv'
    BY <1>15 DEF D!Free, D!MustDelete, D!Connected, D!Goto
  <2> QED
    BY <2>1, <2>2, <2>3, <2>4, <2>5, <2>6, Zenon
<1>16. CASE D!DeleteReturns
  <2>1. DialogTypes'
    BY <1>16 DEF D!DeleteReturns, D!Received, D!Dead, D!Ok, D!Goto
  <2>2. QueueInv'
    BY <1>16 DEF D!DeleteReturns, D!Received, D!Dead, D!Ok, D!Goto
  <2>3. ExchangeInv'
    BY <1>16 DEF D!DeleteReturns, D!Received, D!Dead, D!Ok, D!Goto
  <2>4. CreatedInv'
    BY <1>16 DEF D!DeleteReturns, D!Received, D!Dead, D!Ok, D!Goto
  <2>5. ForeignInv'
    BY <1>16 DEF D!DeleteReturns, D!Received, D!Dead, D!Ok, D!Goto
  <2>6. AnswerInv'
    BY <1>16 DEF D!DeleteReturns, D!Received, D!Dead, D!Ok, D!Goto
  <2> QED
    BY <2>1, <2>2, <2>3, <2>4, <2>5, <2>6, Zenon
<1>17. CASE D!Return
  <2>1. DialogTypes'
    BY <1>17 DEF D!Return, D!Goto
  <2>2. QueueInv'
    BY <1>17 DEF D!Return, D!Goto
  <2>3. ExchangeInv'
    BY <1>17 DEF D!Return, D!Goto
  <2>4. CreatedInv'
    BY <1>17 DEF D!Return, D!Goto
  <2>5. ForeignInv'
    BY <1>17 DEF D!Return, D!Goto
  <2>6. AnswerInv'
    BY <1>17 DEF D!Return, D!Goto
  <2> QED
    BY <2>1, <2>2, <2>3, <2>4, <2>5, <2>6, Zenon
<1> QED
  BY <1>1, <1>2, <1>3, <1>4, <1>5, <1>6, <1>7, <1>8, <1>9, <1>10, <1>11, <1>12, <1>13,
     <1>14, <1>15, <1>16, <1>17 DEF D!ClientRun

(* So does what the thread of a connection does,                           *)
LEMMA ThreadKeeps ==
  ASSUME D!ConstAssumption, DialogInv, \E k \in D!Conns : D!ThreadRun(k)
  PROVE  DialogInv'
<1> USE DEF DialogInv, DialogTypes, D!TypeOK, QueueInv, ExchangeInv, CreatedInv, ForeignInv,
            AnswerInv
<1>1. CASE \E k \in D!Conns : D!Read(k)
  <2>1. DialogTypes'
    BY <1>1 DEF D!Read, D!Step, D!DaemonOnly
  <2>2. QueueInv'
    BY <1>1 DEF D!Read, D!Step, D!DaemonOnly
  <2>3. ExchangeInv'
    BY <1>1 DEF D!Read, D!Step, D!DaemonOnly
  <2>4. CreatedInv'
    BY <1>1 DEF D!Read, D!Step, D!DaemonOnly
  <2>5. ForeignInv'
    BY <1>1 DEF D!Read, D!Step, D!DaemonOnly
  <2>6. AnswerInv'
    BY <1>1 DEF D!Read, D!Step, D!DaemonOnly
  <2> QED
    BY <2>1, <2>2, <2>3, <2>4, <2>5, <2>6, Zenon
<1>2. CASE \E k \in D!Conns : D!Discard(k)
  <2>1. DialogTypes'
    BY <1>2 DEF D!Discard, D!DaemonOnly
  <2>2. QueueInv'
    BY <1>2 DEF D!Discard, D!DaemonOnly
  <2>3. ExchangeInv'
    BY <1>2 DEF D!Discard, D!DaemonOnly
  <2>4. CreatedInv'
    BY <1>2 DEF D!Discard, D!DaemonOnly
  <2>5. ForeignInv'
    BY <1>2 DEF D!Discard, D!DaemonOnly
  <2>6. AnswerInv'
    BY <1>2 DEF D!Discard, D!DaemonOnly
  <2> QED
    BY <2>1, <2>2, <2>3, <2>4, <2>5, <2>6, Zenon
<1>3. CASE \E k \in D!Conns : D!Submit(k)
  <2>1. DialogTypes'
    BY <1>3 DEF D!Submit, D!DaemonOnly
  <2>2. QueueInv'
    <3>1. PICK k \in {1, 2} : D!Submit(k)
      BY <1>3
    <3>2. /\ wire[k] \in {"read", "wait"} /\ running /\ running' = running
          /\ wire' = [wire EXCEPT ![k] = "queued"] /\ uiq' = Append(uiq, k)
      BY <3>1 DEF D!Submit, D!DaemonOnly
    <3>3. CASE uiq = <<>>
      <4>1. uiq' = <<k>>
        BY <3>2, <3>3
      <4> QED
        BY <3>2, <3>3, <4>1
    <3>4. CASE uiq = <<1>> /\ k = 2
      <4>1. uiq' = <<1, 2>>
        BY <3>2, <3>4, AppendToOne, 1 \in Nat, 2 \in Nat
      <4>2. wire[1] = "queued" /\ wire' = [wire EXCEPT ![2] = "queued"]
        BY <3>2, <3>4
      <4> QED
        BY <3>2, <4>1, <4>2, PairHolds
    <3>5. CASE uiq = <<2>> /\ k = 1
      <4>1. uiq' = <<2, 1>>
        BY <3>2, <3>5, AppendToOne, 1 \in Nat, 2 \in Nat
      <4>2. wire[2] = "queued" /\ wire' = [wire EXCEPT ![1] = "queued"]
        BY <3>2, <3>5
      <4> QED
        BY <3>2, <4>1, <4>2, PairHolds
    <3>6. uiq = <<>> \/ (uiq = <<1>> /\ k = 2) \/ (uiq = <<2>> /\ k = 1)
      <4>1. \A i \in DOMAIN uiq : uiq[i] # k
        BY <3>2
      <4> QED
        BY <4>1
    <3> QED
      BY <3>3, <3>4, <3>5, <3>6
  <2>3. ExchangeInv'
    BY <1>3 DEF D!Submit, D!DaemonOnly
  <2>4. CreatedInv'
    BY <1>3 DEF D!Submit, D!DaemonOnly
  <2>5. ForeignInv'
    BY <1>3 DEF D!Submit, D!DaemonOnly
  <2>6. AnswerInv'
    BY <1>3 DEF D!Submit, D!DaemonOnly
  <2> QED
    BY <2>1, <2>2, <2>3, <2>4, <2>5, <2>6, Zenon
<1>4. CASE \E k \in D!Conns : D!BeginWait(k)
  <2>1. DialogTypes'
    BY <1>4 DEF D!BeginWait, D!Step, D!DaemonOnly
  <2>2. QueueInv'
    BY <1>4 DEF D!BeginWait, D!Step, D!DaemonOnly
  <2>3. ExchangeInv'
    BY <1>4 DEF D!BeginWait, D!Step, D!DaemonOnly
  <2>4. CreatedInv'
    BY <1>4 DEF D!BeginWait, D!Step, D!DaemonOnly
  <2>5. ForeignInv'
    BY <1>4 DEF D!BeginWait, D!Step, D!DaemonOnly
  <2>6. AnswerInv'
    BY <1>4 DEF D!BeginWait, D!Step, D!DaemonOnly
  <2> QED
    BY <2>1, <2>2, <2>3, <2>4, <2>5, <2>6, Zenon
<1>5. CASE \E k \in D!Conns : D!WaitFails(k)
  <2>1. DialogTypes'
    BY <1>5 DEF D!WaitFails, D!Step, D!DaemonOnly
  <2>2. QueueInv'
    BY <1>5 DEF D!WaitFails, D!Step, D!DaemonOnly
  <2>3. ExchangeInv'
    BY <1>5 DEF D!WaitFails, D!Step, D!DaemonOnly
  <2>4. CreatedInv'
    BY <1>5 DEF D!WaitFails, D!Step, D!DaemonOnly
  <2>5. ForeignInv'
    BY <1>5 DEF D!WaitFails, D!Step, D!DaemonOnly
  <2>6. AnswerInv'
    BY <1>5 DEF D!WaitFails, D!Step, D!DaemonOnly
  <2> QED
    BY <2>1, <2>2, <2>3, <2>4, <2>5, <2>6, Zenon
<1> QED
  BY <1>1, <1>2, <1>3, <1>4, <1>5 DEF D!ThreadRun

(* and what its UI thread, the user, another client or its end does.       *)
LEMMA DaemonKeeps ==
  ASSUME D!ConstAssumption, DialogInv,
         D!Serve \/ D!Finish \/ D!OtherDeletes \/ D!DaemonExits
  PROVE  DialogInv'
<1> USE DEF DialogInv, DialogTypes, D!TypeOK, QueueInv, ExchangeInv, CreatedInv, ForeignInv,
            AnswerInv
<1>1. CASE D!Serve
  <2>1. DialogTypes'
    BY <1>1 DEF D!Serve, D!Served, D!DaemonOnly
  <2>2. QueueInv'
    <3>1. PICK k \in {1, 2} : /\ k = Head(uiq) /\ uiq' = Tail(uiq)
                             /\ wire' = [wire EXCEPT ![k] = "replied"] /\ running' = running
                             /\ running
      BY <1>1 DEF D!Serve, D!Served, D!DaemonOnly
    <3>2. CASE uiq = <<k>>
      <4>1. uiq' = <<>>
        BY <3>1, <3>2
      <4> QED
        BY <3>1, <3>2, <4>1
    <3>3. CASE uiq = <<k, 3 - k>>
      <4>1. uiq' = <<3 - k>>
        BY <3>1, <3>3
      <4> QED
        BY <3>1, <3>3, <4>1
    <3>4. uiq = <<k>> \/ uiq = <<k, 3 - k>>
      BY <1>1, <3>1 DEF D!Serve
    <3> QED
      BY <3>2, <3>3, <3>4
  <2>3. ExchangeInv'
    BY <1>1 DEF D!Serve, D!Served, D!DaemonOnly
  <2>4. CreatedInv'
    BY <1>1 DEF D!Serve, D!Served, D!DaemonOnly
  <2>5. ForeignInv'
    BY <1>1 DEF D!Serve, D!Served, D!DaemonOnly
  <2>6. AnswerInv'
    BY <1>1 DEF D!Serve, D!Served, D!DaemonOnly
  <2> QED
    BY <2>1, <2>2, <2>3, <2>4, <2>5, <2>6, Zenon
<1>2. CASE D!Finish
  <2>1. DialogTypes'
    BY <1>2 DEF D!Finish
  <2>2. QueueInv'
    BY <1>2 DEF D!Finish
  <2>3. ExchangeInv'
    BY <1>2 DEF D!Finish
  <2>4. CreatedInv'
    BY <1>2 DEF D!Finish
  <2>5. ForeignInv'
    BY <1>2 DEF D!Finish
  <2>6. AnswerInv'
    BY <1>2 DEF D!Finish
  <2> QED
    BY <2>1, <2>2, <2>3, <2>4, <2>5, <2>6, Zenon
<1>3. CASE D!OtherDeletes
  <2>1. DialogTypes'
    BY <1>3 DEF D!OtherDeletes
  <2>2. QueueInv'
    BY <1>3 DEF D!OtherDeletes
  <2>3. ExchangeInv'
    BY <1>3 DEF D!OtherDeletes
  <2>4. CreatedInv'
    BY <1>3 DEF D!OtherDeletes
  <2>5. ForeignInv'
    BY <1>3 DEF D!OtherDeletes
  <2>6. AnswerInv'
    BY <1>3 DEF D!OtherDeletes
  <2> QED
    BY <2>1, <2>2, <2>3, <2>4, <2>5, <2>6, Zenon
<1>4. CASE D!DaemonExits
  <2>1. DialogTypes'
    <3>1. D!TypeOK'
      BY <1>4 DEF D!DaemonExits, D!DaemonOnly
    <3>2. pc' \in Places /\ act' \in [D!Conns -> Calls] /\ closed' \in [D!Conns -> BOOLEAN]
      BY <1>4 DEF D!DaemonExits, D!DaemonOnly
    <3>3. /\ running' \in BOOLEAN /\ interrupted' \in BOOLEAN /\ activeFd' \in BOOLEAN
          /\ createSent' \in BOOLEAN /\ created' \in BOOLEAN /\ err' \in BOOLEAN
          /\ foreign' \in BOOLEAN
      BY <1>4 DEF D!DaemonExits, D!DaemonOnly
    <3> HIDE DEF D!TypeOK
    <3> QED
      BY <3>1, <3>2, <3>3
  <2>2. QueueInv'
    BY <1>4 DEF D!DaemonExits, D!DaemonOnly
  <2>3. ExchangeInv'
    BY <1>4 DEF D!DaemonExits, D!DaemonOnly
  <2>4. CreatedInv'
    BY <1>4 DEF D!DaemonExits, D!DaemonOnly
  <2>5. ForeignInv'
    BY <1>4 DEF D!DaemonExits, D!DaemonOnly
  <2>6. AnswerInv'
    BY <1>4 DEF D!DaemonExits, D!DaemonOnly
  <2> QED
    BY <2>1, <2>2, <2>3, <2>4, <2>5, <2>6, Zenon
<1> QED
  BY <1>1, <1>2, <1>3, <1>4

(* Every step of the run is one of these,                                  *)
LEMMA DialogNext == ASSUME D!ConstAssumption, DialogInv, [D!Next]_D!vars PROVE DialogInv'
<1>1. CASE UNCHANGED D!vars
  <2>1. D!TypeOK'
    BY <1>1 DEF D!vars, DialogInv, DialogTypes, D!TypeOK
  <2>2. DialogTypes'
    BY <1>1, <2>1 DEF D!vars, DialogInv, DialogTypes
  <2> QED
    BY <1>1, <2>2
    DEF D!vars, DialogInv, QueueInv, ExchangeInv, CreatedInv, ForeignInv, AnswerInv
<1>2. CASE D!Next
  BY <1>2, ClientKeeps, ThreadKeeps, DaemonKeeps, Zenon DEF D!Next
<1> QED
  BY <1>1, <1>2

(* and it begins well.                                                     *)
LEMMA DialogInit == ASSUME D!ConstAssumption, D!Init PROVE DialogInv
<1> USE DEF D!Init
<1>1. D!TypeOK
  BY DEF D!TypeOK, D!ConstAssumption
<1>2. DialogTypes
  BY <1>1 DEF DialogTypes, Places, Calls
<1>3. QueueInv /\ ExchangeInv /\ CreatedInv
  BY DEF QueueInv, ExchangeInv, CreatedInv
<1>4. ForeignInv /\ AnswerInv
  BY DEF ForeignInv, AnswerInv
<1> QED
  BY <1>2, <1>3, <1>4 DEF DialogInv

-----------------------------------------------------------------------------
(* A behaviour makes steps of the part it is of, and no others.            *)
LEMMA DialogSteps == ASSUME [AllNext]_allvars PROVE [D!Next]_D!vars
BY DEF AllNext, allvars, ExchangeStep, DialogStep, GaugeStep, dialogVars, D!vars

(* When plaindialog has ended, the dialog it knows to have created is gone *)
(* and one of the same name that was there before is left alone; its exit  *)
(* status is what the user answered, and neither success nor refusal after *)
(* a signal - however signals, threads of the daemon, its UI thread, other *)
(* clients and the end of the daemon come between its steps.               *)
THEOREM ExitIsClean == AllSpec => []CleanExit
<1>1. AllInit => DialogInv
  BY DialogInit, ClientsAssumption DEF AllInit
<1>2. DialogInv /\ [AllNext]_allvars => DialogInv'
  BY DialogSteps, DialogNext, ClientsAssumption
<1>3. DialogInv => CleanExit
  <2> SUFFICES ASSUME DialogInv PROVE CleanExit
    OBVIOUS
  <2> USE DEF DialogInv, DialogTypes
  <2>1. D!CleansUp
    BY DEF D!CleansUp, D!Exited, CreatedInv, ForeignInv
  <2>2. D!StatusIsAnswer
    BY DEF D!StatusIsAnswer, D!Exited, AnswerInv
  <2> QED
    BY <2>1, <2>2, Zenon DEF CleanExit, D!CleanExit
<1> QED
  BY <1>1, <1>2, <1>3, PTL DEF AllSpec

-----------------------------------------------------------------------------
(***************************************************************************)
(* A connection: lines in a stream.                                        *)
(***************************************************************************)
CellsOf(L)     == [of : L, end : BOOLEAN]
LinesOf(cells) == [j \in 1..Len(cells) \div 2 |-> cells[2 * j].of]

(* What a reader has and what is still to come are the lines LinesOf says, *)
(* of L, and no part of another.                                           *)
Carries(buf, rest, L) ==
  /\ buf \in Seq(CellsOf(L)) /\ rest \in Seq(CellsOf(L))
  /\ LinesOf(buf \o rest) \in Seq(L)
  /\ buf \o rest = Cells(LinesOf(buf \o rest))

(* A line is two cells, and a cell is half a line: the arithmetic of it.   *)
LEMMA HalfOf ==
  ASSUME NEW j \in Int PROVE (2 * j) \div 2 = j /\ (2 * j + 1) \div 2 = j
OBVIOUS

(* The cells of some lines are what one writes, and the lines of those     *)
(* cells are the lines.                                                    *)
LEMMA CellsAre ==
  ASSUME NEW L, NEW lines \in Seq(L)
  PROVE  /\ Cells(lines) \in Seq(CellsOf(L)) /\ Len(Cells(lines)) = 2 * Len(lines)
         /\ \A i \in 1..2 * Len(lines) :
              Cells(lines)[i] = [of |-> lines[(i + 1) \div 2], end |-> i % 2 = 0]
         /\ LinesOf(Cells(lines)) = lines
<1> DEFINE n == Len(lines)
           c == Cells(lines)
<1>1. n \in Nat /\ 2 * n \in Nat
  OBVIOUS
<1>2. c = [i \in 1..2 * n |-> [of |-> lines[(i + 1) \div 2], end |-> i % 2 = 0]]
  BY DEF Cells
<1>3. ASSUME NEW i \in 1..2 * n
      PROVE  [of |-> lines[(i + 1) \div 2], end |-> i % 2 = 0] \in CellsOf(L)
  <2>1. (i + 1) \div 2 \in 1..n
    BY <1>1
  <2>2. lines[(i + 1) \div 2] \in L
    BY <2>1
  <2> QED
    BY <2>2 DEF CellsOf
<1>4. c \in Seq(CellsOf(L)) /\ Len(c) = 2 * n
  <2> HIDE DEF n, c
  <2>1. c \in [1..2 * n -> CellsOf(L)]
    BY <1>2, <1>3
  <2> QED
    BY <1>1, <2>1
<1>5. \A i \in 1..2 * n : c[i] = [of |-> lines[(i + 1) \div 2], end |-> i % 2 = 0]
  BY <1>2
<1>6. LinesOf(c) = [j \in 1..n |-> c[2 * j].of]
  <2>1. Len(c) \div 2 = n
    BY <1>1, <1>4, HalfOf
  <2> QED
    BY <2>1 DEF LinesOf
<1>7. ASSUME NEW j \in 1..n PROVE c[2 * j].of = lines[j]
  <2> DEFINE k == 2 * j
  <2>1. k \in 1..2 * n /\ (k + 1) \div 2 = j
    BY <1>1, HalfOf
  <2> HIDE DEF n, c, k
  <2>2. c[k] = [of |-> lines[j], end |-> k % 2 = 0]
    BY <1>5, <2>1
  <2>3. c[k].of = lines[j]
    BY <2>2
  <2> QED
    BY <2>3 DEF k
<1>8. LinesOf(c) = [j \in 1..n |-> lines[j]]
  <2> HIDE DEF n, c
  <2> QED
    BY <1>6, <1>7
<1>9. lines = [j \in 1..n |-> lines[j]]
  OBVIOUS
<1> QED
  BY <1>4, <1>5, <1>8, <1>9

(* Two sends one after the other are one send of both.                     *)
LEMMA CellsJoin ==
  ASSUME NEW L, NEW a \in Seq(L), NEW b \in Seq(L)
  PROVE  Cells(a) \o Cells(b) = Cells(a \o b)
<1> DEFINE m  == Len(a)
           n  == Len(b)
           ab == a \o b
           ca == Cells(a)
           cb == Cells(b)
           cc == Cells(ab)
<1>1. m \in Nat /\ n \in Nat
  OBVIOUS
<1>2. /\ ab \in Seq(L) /\ Len(ab) = m + n
      /\ \A i \in 1..m + n : ab[i] = IF i <= m THEN a[i] ELSE b[i - m]
  BY ConcatProperties
<1>3. /\ ca \in Seq(CellsOf(L)) /\ Len(ca) = 2 * m
      /\ \A i \in 1..2 * m : ca[i] = [of |-> a[(i + 1) \div 2], end |-> i % 2 = 0]
  BY CellsAre
<1>4. /\ cb \in Seq(CellsOf(L)) /\ Len(cb) = 2 * n
      /\ \A i \in 1..2 * n : cb[i] = [of |-> b[(i + 1) \div 2], end |-> i % 2 = 0]
  BY CellsAre
<1>5. /\ cc \in Seq(CellsOf(L)) /\ Len(cc) = 2 * (m + n)
      /\ \A i \in 1..2 * (m + n) : cc[i] = [of |-> ab[(i + 1) \div 2], end |-> i % 2 = 0]
  <2> HIDE DEF ab, m, n
  <2>1. /\ cc \in Seq(CellsOf(L)) /\ Len(cc) = 2 * Len(ab)
        /\ \A i \in 1..2 * Len(ab) : cc[i] = [of |-> ab[(i + 1) \div 2], end |-> i % 2 = 0]
    BY <1>2, CellsAre
  <2> QED
    BY <1>2, <2>1
<1> HIDE DEF m, n, ab, ca, cb, cc
<1>6. /\ ca \o cb \in Seq(CellsOf(L)) /\ Len(ca \o cb) = 2 * (m + n)
      /\ \A i \in 1..2 * (m + n) :
           (ca \o cb)[i] = IF i <= 2 * m THEN ca[i] ELSE cb[i - 2 * m]
  <2>1. /\ ca \o cb \in Seq(CellsOf(L)) /\ Len(ca \o cb) = Len(ca) + Len(cb)
        /\ \A i \in 1..Len(ca) + Len(cb) :
             (ca \o cb)[i] = IF i <= Len(ca) THEN ca[i] ELSE cb[i - Len(ca)]
    BY <1>3, <1>4, ConcatProperties
  <2>2. Len(ca) + Len(cb) = 2 * (m + n)
    BY <1>1, <1>3, <1>4
  <2> QED
    BY <1>3, <2>1, <2>2
<1>7. ASSUME NEW i \in 1..2 * (m + n) PROVE (ca \o cb)[i] = cc[i]
  <2> DEFINE h == (i + 1) \div 2
  <2>1. h \in 1..m + n /\ i \in Int
    BY <1>1
  <2>2. cc[i] = [of |-> ab[h], end |-> i % 2 = 0]
    BY <1>5
  <2>3. CASE i <= 2 * m
    <3>1. i \in 1..2 * m /\ h <= m
      BY <1>1, <2>3
    <3>2. ca[i] = [of |-> a[h], end |-> i % 2 = 0] /\ ab[h] = a[h]
      BY <1>2, <1>3, <2>1, <3>1
    <3> QED
      BY <1>6, <2>2, <2>3, <3>2
  <2>4. CASE i > 2 * m
    <3> DEFINE k == i - 2 * m
    <3>1. k \in 1..2 * n /\ ~(h <= m) /\ ~(i <= 2 * m)
      BY <1>1, <2>4
    <3>2. (k + 1) \div 2 = h - m /\ (k % 2 = 0 <=> i % 2 = 0)
      BY <1>1, <2>1
    <3>3. ab[h] = b[h - m]
      BY <1>2, <2>1, <3>1
    <3>4. cb[k] = [of |-> b[(k + 1) \div 2], end |-> k % 2 = 0]
      BY <1>4, <3>1
    <3>5. (ca \o cb)[i] = cb[k]
      BY <1>6, <3>1
    <3>6. (k % 2 = 0) = (i % 2 = 0)
      BY <3>2
    <3> HIDE DEF k, h
    <3> QED
      BY <2>2, <3>2, <3>3, <3>4, <3>5, <3>6
  <2>5. i <= 2 * m \/ i > 2 * m
    BY <1>1, <2>1
  <2> HIDE DEF h
  <2> QED
    BY <2>3, <2>4, <2>5
<1>8. ca \o cb = cc
  BY <1>5, <1>6, <1>7, SeqEqual
<1> QED
  BY <1>8 DEF ca, cb, cc, ab

(* Lines that are sent come behind those that are under way, whatever      *)
(* the reader has of them;                                                 *)
LEMMA LineSent ==
  ASSUME NEW L, NEW buf, NEW rest, Carries(buf, rest, L), NEW lines \in Seq(L)
  PROVE  /\ Carries(buf, rest \o Cells(lines), L)
         /\ LinesOf(buf \o (rest \o Cells(lines))) = LinesOf(buf \o rest) \o lines
<1> DEFINE l == LinesOf(buf \o rest)
           c == Cells(lines)
<1>1. /\ buf \in Seq(CellsOf(L)) /\ rest \in Seq(CellsOf(L)) /\ l \in Seq(L)
      /\ buf \o rest = Cells(l)
  BY DEF Carries
<1>2. c \in Seq(CellsOf(L)) /\ rest \o c \in Seq(CellsOf(L))
  <2>1. c \in Seq(CellsOf(L))
    BY CellsAre
  <2> HIDE DEF c
  <2> QED
    BY <1>1, <2>1, ConcatProperties
<1> HIDE DEF l, c
<1>3. buf \o (rest \o c) = (buf \o rest) \o c
  <2> DEFINE C == CellsOf(L)
  <2>1. buf \in Seq(C) /\ rest \in Seq(C) /\ c \in Seq(C)
    BY <1>1, <1>2
  <2> HIDE DEF C
  <2> QED
    BY <1>2, <2>1, ConcatAssociative
<1>4. l \o lines \in Seq(L)
  BY <1>1, ConcatProperties
<1>5. buf \o (rest \o c) = Cells(l \o lines)
  BY <1>1, <1>3, CellsJoin DEF c
<1>6. LinesOf(buf \o (rest \o c)) = l \o lines
  BY <1>4, <1>5, CellsAre
<1> QED
  BY <1>1, <1>2, <1>4, <1>5, <1>6 DEF Carries, l, c

(* a recv, of whatever length, moves none of them;                         *)
LEMMA LinesMoved ==
  ASSUME NEW L, NEW buf, NEW rest, Carries(buf, rest, L), NEW n \in 1..Len(rest)
  PROVE  /\ Carries(buf \o SubSeq(rest, 1, n), SubSeq(rest, n + 1, Len(rest)), L)
         /\ LinesOf((buf \o SubSeq(rest, 1, n)) \o SubSeq(rest, n + 1, Len(rest)))
              = LinesOf(buf \o rest)
<1> DEFINE b == SubSeq(rest, 1, n)
           a == SubSeq(rest, n + 1, Len(rest))
<1>1. buf \in Seq(CellsOf(L)) /\ rest \in Seq(CellsOf(L))
  BY DEF Carries
<1>2. b \in Seq(CellsOf(L)) /\ a \in Seq(CellsOf(L)) /\ b \o a = rest
  <2>1. n \in 0..Len(rest)
    BY <1>1
  <2> QED
    BY <1>1, <2>1, Halves, HalvesMakeIt
<1> HIDE DEF a, b
<1>3. (buf \o b) \o a = buf \o rest
  <2> DEFINE C == CellsOf(L)
  <2>1. buf \in Seq(C) /\ b \in Seq(C) /\ a \in Seq(C)
    BY <1>1, <1>2
  <2> HIDE DEF C
  <2>2. (buf \o b) \o a = buf \o (b \o a)
    BY ONLY <2>1, ConcatAssociative
  <2> QED
    BY <1>2, <2>2
<1>4. buf \o b \in Seq(CellsOf(L))
  BY <1>1, <1>2, ConcatProperties
<1> QED
  BY <1>2, <1>3, <1>4 DEF Carries, a, b

(* and a whole line in the buffer is the first of them.                    *)
LEMMA LineRead ==
  ASSUME NEW L, NEW buf, NEW rest, Carries(buf, rest, L), HasLine(buf)
  PROVE  /\ LinesOf(buf \o rest) # <<>>
         /\ NextLine(buf) = Head(LinesOf(buf \o rest))
         /\ Carries(Rest(buf), rest, L)
         /\ LinesOf(Rest(buf) \o rest) = Tail(LinesOf(buf \o rest))
<1> DEFINE c == buf \o rest
           l == LinesOf(c)
<1>1. /\ buf \in Seq(CellsOf(L)) /\ rest \in Seq(CellsOf(L)) /\ l \in Seq(L)
      /\ c = Cells(l)
  BY DEF Carries
<1>2. /\ Len(c) = 2 * Len(l) /\ Len(l) \in Nat
      /\ \A i \in 1..2 * Len(l) : c[i] = [of |-> l[(i + 1) \div 2], end |-> i % 2 = 0]
  <2> HIDE DEF l, c
  <2> USE <1>1
  <2>1. l \in Seq(L)
    OBVIOUS
  <2>2. Len(Cells(l)) = 2 * Len(l)
    BY ONLY <2>1, CellsAre
  <2>3. \A i \in 1..2 * Len(l) :
          Cells(l)[i] = [of |-> l[(i + 1) \div 2], end |-> i % 2 = 0]
    BY ONLY <2>1, CellsAre
  <2> QED
    BY <2>1, <2>2, <2>3
<1>3. /\ Len(buf) \in Nat /\ Len(rest) \in Nat /\ Len(c) = Len(buf) + Len(rest)
      /\ c \in Seq(CellsOf(L))
      /\ \A i \in 1..Len(buf) + Len(rest) :
           c[i] = IF i <= Len(buf) THEN buf[i] ELSE rest[i - Len(buf)]
  BY <1>1, ConcatProperties
<1> HIDE DEF l, c
<1>4. ASSUME NEW i \in DOMAIN buf
      PROVE  i \in 1..2 * Len(l) /\ buf[i].of = l[(i + 1) \div 2] /\ (buf[i].end <=> i % 2 = 0)
  <2>1. i \in 1..Len(buf) + Len(rest) /\ i \in 1..2 * Len(l) /\ i <= Len(buf)
    BY <1>1, <1>2, <1>3
  <2>2. buf[i] = c[i]
    BY <1>3, <2>1
  <2>3. buf[i] = [of |-> l[(i + 1) \div 2], end |-> i % 2 = 0]
    BY <1>2, <2>1, <2>2
  <2>4. buf[i].of = l[(i + 1) \div 2] /\ buf[i].end = (i % 2 = 0)
    BY <2>3
  <2> QED
    BY <2>1, <2>4
<1>5. 2 \in DOMAIN buf /\ Len(buf) >= 2 /\ Len(l) >= 1
  <2>1. PICK i \in DOMAIN buf : buf[i].end
    BY DEF HasLine
  <2>2. i % 2 = 0 /\ i \in 1..Len(buf) /\ i \in 1..2 * Len(l)
    BY <1>1, <1>4, <2>1
  <2>3. i >= 2
    BY <2>2
  <2> QED
    BY <1>1, <1>2, <2>2, <2>3
<1>6. LineEnd(buf) = 2
  <2> DEFINE T == {i \in DOMAIN buf : buf[i].end}
  <2>1. 2 \in T
    BY <1>4, <1>5
  <2>2. \A i \in T : i \in Int /\ 2 <= i
    <3> TAKE i \in T
    <3>1. i \in 1..Len(buf) /\ i % 2 = 0
      BY <1>1, <1>4
    <3> QED
      BY <3>1
  <2> HIDE DEF T
  <2>3. Min(T) = 2
    BY <2>1, <2>2 DEF Min
  <2> QED
    BY <2>3 DEF LineEnd, T
<1>7. l # <<>> /\ NextLine(buf) = Head(l)
  <2>1. l # <<>> /\ Head(l) = l[1]
    BY <1>1, <1>5
  <2>2. buf[2].of = l[1]
    <3>1. buf[2].of = l[(2 + 1) \div 2]
      BY <1>4, <1>5
    <3>2. (2 + 1) \div 2 = 1
      OBVIOUS
    <3> QED
      BY <3>1, <3>2
  <2> QED
    BY <1>6, <2>1, <2>2 DEF NextLine
<1> DEFINE r == Rest(buf)
           t == Tail(l)
<1>8. /\ r \in Seq(CellsOf(L)) /\ Len(r) = Len(buf) - 2
      /\ \A k \in 1..Len(buf) - 2 : r[k] = buf[2 + k]
  <2> DEFINE i == 2
             C == CellsOf(L)
  <2>1. i \in 0..Len(buf) /\ buf \in Seq(C)
    BY <1>1, <1>3, <1>5
  <2>2. r = SubSeq(buf, i + 1, Len(buf))
    BY <1>6 DEF Rest
  <2> HIDE DEF r, i, C
  <2>3. /\ SubSeq(buf, i + 1, Len(buf)) \in Seq(C)
        /\ Len(SubSeq(buf, i + 1, Len(buf))) = Len(buf) - i
        /\ \A k \in 1..Len(buf) - i : SubSeq(buf, i + 1, Len(buf))[k] = buf[i + k]
    BY <2>1, Halves
  <2> QED
    BY <2>2, <2>3 DEF i, C
<1>9. t \in Seq(L) /\ Len(t) = Len(l) - 1 /\ \A k \in 1..Len(l) - 1 : t[k] = l[k + 1]
  BY <1>1, <1>7
<1>10. /\ Cells(t) \in Seq(CellsOf(L)) /\ Len(Cells(t)) = 2 * (Len(l) - 1)
       /\ \A i \in 1..2 * (Len(l) - 1) : Cells(t)[i] = [of |-> t[(i + 1) \div 2], end |-> i % 2 = 0]
       /\ LinesOf(Cells(t)) = t
  <2> HIDE DEF t
  <2>1. /\ Cells(t) \in Seq(CellsOf(L)) /\ Len(Cells(t)) = 2 * Len(t)
        /\ \A i \in 1..2 * Len(t) : Cells(t)[i] = [of |-> t[(i + 1) \div 2], end |-> i % 2 = 0]
        /\ LinesOf(Cells(t)) = t
    BY <1>9, CellsAre
  <2> QED
    BY <1>9, <2>1
<1> HIDE DEF r, t
<1>11. /\ r \o rest \in Seq(CellsOf(L)) /\ Len(r \o rest) = Len(buf) - 2 + Len(rest)
       /\ \A k \in 1..Len(buf) - 2 + Len(rest) :
            (r \o rest)[k] = IF k <= Len(buf) - 2 THEN r[k] ELSE rest[k - (Len(buf) - 2)]
  <2>1. /\ r \o rest \in Seq(CellsOf(L)) /\ Len(r \o rest) = Len(r) + Len(rest)
        /\ \A k \in 1..Len(r) + Len(rest) :
             (r \o rest)[k] = IF k <= Len(r) THEN r[k] ELSE rest[k - Len(r)]
    BY <1>1, <1>8, ConcatProperties
  <2> QED
    BY <1>8, <2>1
<1>12. ASSUME NEW k \in 1..Len(buf) - 2 + Len(rest)
       PROVE  (r \o rest)[k] = Cells(t)[k]
  <2> DEFINE j == k + 2
  <2>1. /\ k \in Int /\ j \in 1..Len(buf) + Len(rest) /\ j \in 1..2 * Len(l)
        /\ k \in 1..2 * (Len(l) - 1)
    BY <1>2, <1>3, <1>5
  <2>2. (r \o rest)[k] = c[j]
    <3>1. CASE k <= Len(buf) - 2
      <4>1. j <= Len(buf) /\ k \in 1..Len(buf) - 2 /\ 2 + k = j
        BY <1>3, <2>1, <3>1
      <4> HIDE DEF j
      <4>2. (r \o rest)[k] = r[k] /\ r[k] = buf[j] /\ c[j] = buf[j]
        BY <1>3, <1>8, <1>11, <2>1, <3>1, <4>1
      <4> QED
        BY <4>2
    <3>2. CASE ~(k <= Len(buf) - 2)
      <4>1. ~(j <= Len(buf)) /\ k - (Len(buf) - 2) = j - Len(buf)
        BY <1>3, <2>1, <3>2
      <4> HIDE DEF j
      <4>2. (r \o rest)[k] = rest[j - Len(buf)] /\ c[j] = rest[j - Len(buf)]
        BY <1>3, <1>11, <2>1, <3>2, <4>1
      <4> QED
        BY <4>2
    <3> QED
      BY <3>1, <3>2
  <2>3. /\ (j + 1) \div 2 = (k + 1) \div 2 + 1
        /\ (j % 2 = 0) = (k % 2 = 0)
        /\ (k + 1) \div 2 \in 1..Len(l) - 1
    BY <1>2, <2>1
  <2>4. l[(j + 1) \div 2] = t[(k + 1) \div 2]
    <3> DEFINE q  == (k + 1) \div 2
               q1 == (j + 1) \div 2
    <3>1. q \in 1..Len(l) - 1 /\ q1 = q + 1
      BY <2>3
    <3> HIDE DEF q, q1
    <3>2. t[q] = l[q + 1]
      BY <1>9, <3>1
    <3>3. l[q1] = t[q]
      BY <3>1, <3>2
    <3> QED
      BY <3>3 DEF q, q1
  <2>5. c[j] = [of |-> l[(j + 1) \div 2], end |-> j % 2 = 0]
    BY <1>2, <2>1
  <2>6. Cells(t)[k] = [of |-> t[(k + 1) \div 2], end |-> k % 2 = 0]
    BY <1>10, <2>1
  <2> HIDE DEF j
  <2> QED
    BY <2>2, <2>3, <2>4, <2>5, <2>6
<1>13. r \o rest = Cells(t)
  <2>1. Len(r \o rest) = Len(Cells(t))
    <3>1. Len(buf) + Len(rest) = 2 * Len(l)
      BY <1>2, <1>3
    <3>2. Len(buf) - 2 + Len(rest) = 2 * (Len(l) - 1)
      BY <1>2, <1>3, <3>1
    <3> QED
      BY <1>10, <1>11, <3>2
  <2>2. \A k \in 1..Len(r \o rest) : (r \o rest)[k] = Cells(t)[k]
    BY <1>11, <1>12
  <2> QED
    BY <1>10, <1>11, <2>1, <2>2, SeqEqual
<1> QED
  BY <1>1, <1>7, <1>8, <1>9, <1>10, <1>13 DEF Carries, r, t, l, c

-----------------------------------------------------------------------------
(* The lines the client has sent and the server has not read, and the      *)
(* other way around.                                                       *)
UpLines   == LinesOf(srvBuf \o up)
DownLines == LinesOf(cliBuf \o down)
Reading   == thread # "gone"

StrayPairs == {line \in StrayLines : GoodPair(line)}
Keys     == {"action", "id"} \cup {line.key : line \in StrayPairs}
Vals     == Commands \cup {"w"} \cup {line.val : line \in StrayPairs}
LineUp   == StrayLines \cup [cmd : {"HELLO", "DONE"}, id : Int]
            \cup [cmd : {"PAIR"}, id : Nat, key : {"action", "id"}, val : Commands \cup {"w"}]
DataKeys == {"KEY", "ERR", "PONG", "ISTTY"}
Data     == [key : DataKeys, val : 0..2]
LineDown == [cmd : {"TAKE"}, id : Nat] \cup [cmd : {"RESPONSE"}, id : Int, status : {"OK", "ERROR"}]
            \cup [cmd : {"RESPDATA"}, id : Int, key : DataKeys, val : 0..2]
Message  == [id : Nat, pairs : Seq([key : Keys, val : Vals])]

UpStream   == Carries(srvBuf, up, LineUp)
DownStream == Carries(cliBuf, down, LineDown)

R == RequestPairs(request.cmd)

(* What has a type; that the thread handles a message it has; that one     *)
(* that has gone keeps nothing; and how much of a request is not yet sent. *)
ThreadInv ==
  /\ thread \in {"handle", "answer"} => current.id \in Nat /\ Known(current.id)
  /\ ~Reading => msgs = <<>> /\ (shut \/ ~Open)
AskedInv ==
  /\ resp \in Seq(Data) 
  /\ request \in [cmd : Commands \cup {"none"}, left : Seq({"pair"})]
  /\ InExchange => request.cmd \in Commands
  /\ cli = "take" => Len(request.left) = Len(R)
  /\ cli = "pairs" => Len(request.left) <= Len(R)
  /\ cli \in {"take", "pairs"} => served = None /\ resp = <<>>
  /\ cli \in {"pairs", "reply"} => myId \in Nat
Ground ==
  /\ TypeOK /\ msgs \in Seq(Message) /\ ThreadInv /\ AskedInv
  /\ DownStream /\ (Reading => UpStream)

(* A request has one or two pairs, and an outcome has data and a           *)
(* verdict.                                                                *)
LEMMA RequestIs ==
  ASSUME NEW c
  PROVE  /\ RequestPairs(c) \in Seq([key : {"action", "id"}, val : {c, "w"}])
         /\ Len(RequestPairs(c)) \in 1..2
<1>1. CASE c = "none"
  BY <1>1 DEF RequestPairs
<1>2. CASE c = "call"
  BY <1>2 DEF RequestPairs
<1>3. CASE c # "none" /\ c # "call"
  BY <1>3 DEF RequestPairs
<1> QED
  BY <1>1, <1>2, <1>3

LEMMA OutcomesAre ==
  ASSUME NEW pairs, NEW o \in Outcomes(pairs)
  PROVE  o.data \in Seq(Data) /\ o.ok \in BOOLEAN
<1> DEFINE a == IF HasVal(pairs, "action") THEN GetVal(pairs, "action") ELSE "none"
           all == [data : {<<>>, <<Datum("KEY", 1)>>, <<Datum("KEY", 1), Datum("KEY", 2)>>},
                   ok : {TRUE}]
                  \cup [data : {<<>>, Err}, ok : {FALSE}]
<1>1. Outcomes(pairs) =
        CASE a = "quit" -> {[data |-> <<>>, ok |-> TRUE]}
          [] a = "ping" -> {[data |-> <<Datum("PONG", 1)>>, ok |-> TRUE]}
          [] a = "has-active-vt" -> {[data |-> <<Datum("ISTTY", v)>>, ok |-> TRUE] : v \in {0, 1}}
          [] a = "call" -> all
          [] OTHER      -> {[data |-> Err, ok |-> FALSE]}
  BY DEF Outcomes
<1> HIDE DEF a
<1>7. /\ Datum("KEY", 1) \in Data /\ Datum("KEY", 2) \in Data /\ Datum("PONG", 1) \in Data
      /\ Datum("ERR", 0) \in Data /\ \A v \in {0, 1} : Datum("ISTTY", v) \in Data
  BY DEF Datum, Data, DataKeys
<1>8. \A x \in Data : <<x>> \in Seq(Data)
  OBVIOUS
<1>9. \A x, y \in Data : <<x, y>> \in Seq(Data)
  OBVIOUS
<1>10. <<>> \in Seq(Data) /\ Err \in Seq(Data)
  BY <1>7, <1>8 DEF Err
<1>2. CASE a = "quit"
  <2>1. o = [data |-> <<>>, ok |-> TRUE]
    BY <1>1, <1>2
  <2> QED
    BY <2>1, <1>10
<1>3. CASE a = "ping"
  <2>1. o = [data |-> <<Datum("PONG", 1)>>, ok |-> TRUE]
    BY <1>1, <1>3
  <2> QED
    BY <2>1, <1>7, <1>8
<1>4. CASE a = "has-active-vt"
  <2>1. PICK v \in {0, 1} : o = [data |-> <<Datum("ISTTY", v)>>, ok |-> TRUE]
    BY <1>1, <1>4
  <2>2. <<Datum("ISTTY", v)>> \in Seq(Data)
    BY <1>7, <1>8
  <2> QED
    BY <2>1, <2>2
<1>5. CASE a = "call"
  <2>1. o \in all
    BY <1>1, <1>5
  <2>2. <<Datum("KEY", 1)>> \in Seq(Data) /\ <<Datum("KEY", 1), Datum("KEY", 2)>> \in Seq(Data)
    BY <1>7, <1>8, <1>9
  <2> HIDE DEF Data
  <2> QED
    BY <2>1, <2>2, <1>10
<1>6. CASE a \notin {"quit", "ping", "has-active-vt", "call"}
  <2>1. o = [data |-> Err, ok |-> FALSE]
    BY <1>1, <1>6
  <2> QED
    BY <2>1, <1>10
<1> QED
  BY <1>2, <1>3, <1>4, <1>5, <1>6

(* Who sends adds to the lines, and who reads takes the first of them.     *)
LEMMA MoreDown ==
  ASSUME DownStream, NEW lines \in Seq(LineDown)
  PROVE  /\ Carries(cliBuf, down \o Cells(lines), LineDown)
         /\ LinesOf(cliBuf \o (down \o Cells(lines))) = LinesOf(cliBuf \o down) \o lines
<1>1. Carries(cliBuf, down, LineDown)
  BY DEF DownStream
<1> QED
  BY <1>1, LineSent

LEMMA MoreUp ==
  ASSUME UpStream, NEW lines \in Seq(LineUp)
  PROVE  /\ Carries(srvBuf, up \o Cells(lines), LineUp)
         /\ LinesOf(srvBuf \o (up \o Cells(lines))) = LinesOf(srvBuf \o up) \o lines
<1>1. Carries(srvBuf, up, LineUp)
  BY DEF UpStream
<1> QED
  BY <1>1, LineSent

(* For the two streams of a connection: what a send does, what a reader    *)
(* takes, what a recv moves.                                               *)
LEMMA ClientTold ==
  ASSUME DownStream, NEW lines \in Seq(LineDown), ToClient(lines), cliBuf' = cliBuf
  PROVE  /\ DownStream'
         /\ DownLines' = IF shut \/ ~Open THEN DownLines ELSE DownLines \o lines
<1>1. CASE shut \/ ~Open
  BY <1>1 DEF ToClient, DownStream, DownLines
<1>2. CASE ~(shut \/ ~Open)
  <2>1. down' = down \o Cells(lines)
    BY <1>2 DEF ToClient
  <2>2. /\ Carries(cliBuf, down \o Cells(lines), LineDown)
        /\ LinesOf(cliBuf \o (down \o Cells(lines))) = LinesOf(cliBuf \o down) \o lines
    BY MoreDown
  <2> QED
    BY <1>2, <2>1, <2>2 DEF DownStream, DownLines
<1> QED
  BY <1>1, <1>2

LEMMA ServerTold ==
  ASSUME UpStream, NEW lines \in Seq(LineUp), up' = up \o Cells(lines), srvBuf' = srvBuf
  PROVE  UpStream' /\ UpLines' = UpLines \o lines
<1>1. /\ Carries(srvBuf, up \o Cells(lines), LineUp)
      /\ LinesOf(srvBuf \o (up \o Cells(lines))) = LinesOf(srvBuf \o up) \o lines
  BY MoreUp
<1> QED
  BY <1>1 DEF UpStream, UpLines

LEMMA ClientReads ==
  ASSUME DownStream, HasLine(cliBuf), cliBuf' = Rest(cliBuf), down' = down
  PROVE  /\ DownStream' /\ DownLines # <<>> /\ NextLine(cliBuf) = Head(DownLines)
         /\ DownLines' = Tail(DownLines)
<1>1. /\ LinesOf(cliBuf \o down) # <<>>
      /\ NextLine(cliBuf) = Head(LinesOf(cliBuf \o down))
      /\ Carries(Rest(cliBuf), down, LineDown)
      /\ LinesOf(Rest(cliBuf) \o down) = Tail(LinesOf(cliBuf \o down))
  BY LineRead DEF DownStream
<1> QED
  BY <1>1 DEF DownStream, DownLines

LEMMA ServerReads ==
  ASSUME UpStream, HasLine(srvBuf), srvBuf' = Rest(srvBuf), up' = up
  PROVE  /\ UpStream' /\ UpLines # <<>> /\ NextLine(srvBuf) = Head(UpLines)
         /\ UpLines' = Tail(UpLines)
<1>1. /\ LinesOf(srvBuf \o up) # <<>>
      /\ NextLine(srvBuf) = Head(LinesOf(srvBuf \o up))
      /\ Carries(Rest(srvBuf), up, LineUp)
      /\ LinesOf(Rest(srvBuf) \o up) = Tail(LinesOf(srvBuf \o up))
  BY LineRead DEF UpStream
<1> QED
  BY <1>1 DEF UpStream, UpLines

LEMMA ServerMoves ==
  ASSUME UpStream, ServerRecv PROVE UpStream' /\ UpLines' = UpLines
<1>1. PICK n \in 1..Len(up) : /\ srvBuf' = srvBuf \o SubSeq(up, 1, n)
                              /\ up' = SubSeq(up, n + 1, Len(up))
  BY DEF ServerRecv
<1>2. /\ Carries(srvBuf \o SubSeq(up, 1, n), SubSeq(up, n + 1, Len(up)), LineUp)
      /\ LinesOf((srvBuf \o SubSeq(up, 1, n)) \o SubSeq(up, n + 1, Len(up)))
           = LinesOf(srvBuf \o up)
  BY LinesMoved DEF UpStream
<1> QED
  BY <1>1, <1>2 DEF UpStream, UpLines

LEMMA ClientMoves ==
  ASSUME DownStream, ClientRecv PROVE DownStream' /\ DownLines' = DownLines
<1>1. CASE UNCHANGED <<down, cliBuf>>
  BY <1>1 DEF DownStream, DownLines
<1>2. CASE \E n \in 1..Len(down) : /\ cliBuf' = cliBuf \o SubSeq(down, 1, n)
                                    /\ down' = SubSeq(down, n + 1, Len(down))
  <2>1. PICK n \in 1..Len(down) : /\ cliBuf' = cliBuf \o SubSeq(down, 1, n)
                                  /\ down' = SubSeq(down, n + 1, Len(down))
    BY <1>2
  <2>2. /\ Carries(cliBuf \o SubSeq(down, 1, n), SubSeq(down, n + 1, Len(down)), LineDown)
        /\ LinesOf((cliBuf \o SubSeq(down, 1, n)) \o SubSeq(down, n + 1, Len(down)))
             = LinesOf(cliBuf \o down)
    BY LinesMoved DEF DownStream
  <2> QED
    BY <2>1, <2>2 DEF DownStream, DownLines
<1> QED
  BY <1>1, <1>2 DEF ClientRecv

(* What the lines are made of.                                             *)
LEMMA LineUpIs ==
  ASSUME NEW line \in LineUp
  PROVE  /\ line.id \in Int /\ (line.cmd \in {"TAKE", "PAIR"} => line.id \in Nat)
         /\ GoodPair(line) => [key |-> line.key, val |-> line.val] \in [key : Keys, val : Vals]
<1>1. CASE line \in StrayLines
  <2>1. line.id \in Int /\ (line.cmd \in {"TAKE", "PAIR"} => line.id \in Nat)
    BY <1>1, StraysAssumption
  <2>2. GoodPair(line) => line.key \in Keys /\ line.val \in Vals
    BY <1>1 DEF StrayPairs, Keys, Vals
  <2> QED
    BY <2>1, <2>2
<1>2. CASE line \in [cmd : {"HELLO", "DONE"}, id : Int]
  BY <1>2 DEF GoodPair
<1>3. CASE line \in [cmd : {"PAIR"}, id : Nat, key : {"action", "id"}, val : Commands \cup {"w"}]
  BY <1>3 DEF Keys, Vals
<1> QED
  BY <1>1, <1>2, <1>3 DEF LineUp

(* What the client sends are lines,                                        *)
LEMMA OwnLines ==
  ASSUME Ground
  PROVE  /\ <<Line("HELLO", NotANumber)>> \in Seq(LineUp)
         /\ <<Line("DONE", myId)>> \in Seq(LineUp)
         /\ \A lines \in Strays : lines \in Seq(LineUp)
<1>1. Line("HELLO", NotANumber) \in LineUp /\ Line("DONE", myId) \in LineUp
  <2>1. myId \in Int
    BY DEF Ground, TypeOK, NotANumber
  <2> QED
    BY <2>1 DEF Line, LineUp, NotANumber
<1>2. ASSUME NEW lines \in Strays PROVE lines \in Seq(LineUp)
  <2>1. lines \in Seq(StrayLines) /\ StrayLines \subseteq LineUp
    BY StraysAssumption DEF LineUp
  <2> HIDE DEF StrayLines, LineUp
  <2> QED
    BY <2>1
<1> QED
  BY <1>1, <1>2

(* and the pair it sends next is the one at its place in the request.      *)
LEMMA NextPairIs ==
  ASSUME Ground, cli = "pairs", request.left # <<>>
  PROVE  /\ Head(request.left) = "pair" /\ Tail(request.left) \in Seq({"pair"})
         /\ Len(Tail(request.left)) = Len(request.left) - 1
         /\ Len(request.left) \in 1..Len(R)
         /\ Len(R) + 1 - Len(request.left) \in 1..Len(R)
         /\ NextPair = Pair("PAIR", myId, R[Len(R) + 1 - Len(request.left)].key,
                                          R[Len(R) + 1 - Len(request.left)].val)
         /\ <<NextPair>> \in Seq(LineUp)
<1> DEFINE left == request.left
<1>1. left \in Seq({"pair"}) /\ Len(left) <= Len(R) /\ left # <<>> /\ myId \in Nat
  <2>1. request.left \in Seq({"pair"})
    BY DEF Ground, AskedInv
  <2> QED
    BY <2>1 DEF Ground, AskedInv
<1>2. request.cmd \in Commands
  BY DEF Ground, AskedInv, InExchange
<1>3. R \in Seq([key : {"action", "id"}, val : {request.cmd, "w"}]) /\ Len(R) \in 1..2
  BY RequestIs DEF R
<1>4. Head(left) = "pair" /\ Tail(left) \in Seq({"pair"}) /\ Len(Tail(left)) = Len(left) - 1
  BY <1>1
<1>5. Len(left) \in 1..Len(R) /\ Len(R) + 1 - Len(left) \in 1..Len(R)
  BY <1>1, <1>3
<1> DEFINE n == Len(R) + 1 - Len(left)
<1>6. NextPair = Pair("PAIR", myId, R[n].key, R[n].val)
  BY <1>4 DEF NextPair, R
<1>7. R[n].key \in {"action", "id"} /\ R[n].val \in Commands \cup {"w"}
  <2>1. n \in 1..Len(R)
    BY <1>5
  <2> DEFINE S == [key : {"action", "id"}, val : {request.cmd, "w"}]
  <2>2. R[n] \in S
    <3>1. R \in Seq(S)
      BY <1>3
    <3> HIDE DEF n, S
    <3> QED
      BY <2>1, <3>1
  <2> HIDE DEF n
  <2> QED
    BY <1>2, <2>2
<1>8. NextPair \in LineUp
  <2> HIDE DEF n
  <2> QED
    BY <1>1, <1>6, <1>7 DEF Pair, LineUp
<1>9. <<NextPair>> \in Seq(LineUp)
  <2> HIDE DEF n, LineUp, NextPair
  <2> QED
    BY <1>8
<1> QED
  BY <1>4, <1>5, <1>6, <1>9

(* The list of messages: one more, one of an id, one less.                 *)
LEMMA MsgAdded ==
  ASSUME msgs \in Seq(Message), NEW id \in Nat, NEW pairs \in Seq([key : Keys, val : Vals])
  PROVE  /\ AddMsg(id, pairs) \in Seq(Message) /\ Len(AddMsg(id, pairs)) = Len(msgs) + 1
         /\ AddMsg(id, pairs)[1] = [id |-> id, pairs |-> pairs]
         /\ \A i \in 1..Len(msgs) : AddMsg(id, pairs)[i + 1] = msgs[i]
<1> DEFINE m == [id |-> id, pairs |-> pairs]
<1>1. m \in Message
  BY DEF Message
<1>2. AddMsg(id, pairs) = <<m>> \o msgs
  BY DEF AddMsg
<1> HIDE DEF m
<1>3. <<m>> \in Seq(Message) /\ Len(<<m>>) = 1 /\ <<m>>[1] = m
  BY <1>1
<1>4. /\ <<m>> \o msgs \in Seq(Message) /\ Len(<<m>> \o msgs) = 1 + Len(msgs)
      /\ \A i \in 1..1 + Len(msgs) : (<<m>> \o msgs)[i] = IF i <= 1 THEN <<m>>[i] ELSE msgs[i - 1]
  BY <1>3, ConcatProperties
<1>5. Len(msgs) \in Nat
  OBVIOUS
<1>6. (<<m>> \o msgs)[1] = m
  BY <1>3, <1>4, <1>5
<1>7. ASSUME NEW i \in 1..Len(msgs) PROVE (<<m>> \o msgs)[i + 1] = msgs[i]
  <2> DEFINE k == i + 1
  <2>1. k \in 1..1 + Len(msgs) /\ ~(k <= 1) /\ k - 1 = i
    BY <1>5
  <2> HIDE DEF k
  <2>2. (<<m>> \o msgs)[k] = msgs[i]
    BY <1>4, <2>1
  <2> QED
    BY <2>2 DEF k
<1> QED
  BY <1>2, <1>4, <1>5, <1>6, <1>7 DEF m

(* The message the server finds for an id is one of its messages, the      *)
(* first of that id; one removed leaves the others.                        *)
LEMMA MsgFound ==
  ASSUME msgs \in Seq(Message), NEW id, Known(id)
  PROVE  /\ FindMsg(id) \in 1..Len(msgs) /\ msgs[FindMsg(id)] \in Message
         /\ msgs[FindMsg(id)].id = id
         /\ \A j \in 1..Len(msgs) : j < FindMsg(id) => msgs[j].id # id
<1> DEFINE T == {i \in DOMAIN msgs : msgs[i].id = id}
<1>1. T \subseteq Nat /\ T # {}
  BY DEF Known
<1>2. \E k \in T : \A j \in T : k <= j
  <2> HIDE DEF T
  <2> QED
    BY <1>1, FirstIsThere
<1>3. Min(T) \in T /\ \A j \in T : Min(T) <= j
  <2> HIDE DEF T
  <2> QED
    BY <1>2 DEF Min
<1>4. FindMsg(id) = Min(T)
  BY DEF FindMsg
<1>5. \A j \in 1..Len(msgs) : msgs[j].id = id => FindMsg(id) <= j
  <2> HIDE DEF FindMsg
  <2> QED
    BY <1>3, <1>4
<1>6. FindMsg(id) \in 1..Len(msgs) /\ msgs[FindMsg(id)].id = id
  BY <1>3, <1>4
<1> HIDE DEF FindMsg, T
<1>7. msgs[FindMsg(id)] \in Message
  BY <1>6
<1> QED
  BY <1>5, <1>6, <1>7

LEMMA MsgRemoved ==
  ASSUME msgs \in Seq(Message), NEW i \in 1..Len(msgs)
  PROVE  RemoveAt(msgs, i) \in Seq(Message) /\ Len(RemoveAt(msgs, i)) = Len(msgs) - 1
<1> DEFINE n == Len(msgs)
           h == i - 1
           b == SubSeq(msgs, 1, h)
           a == SubSeq(msgs, i + 1, n)
<1>1. n \in Nat /\ i \in 0..n /\ h \in 0..n
  OBVIOUS
<1>2. b \in Seq(Message) /\ Len(b) = h
  <2> HIDE DEF h
  <2> QED
    BY <1>1, Halves
<1>3. a \in Seq(Message) /\ Len(a) = n - i
  BY <1>1, Halves
<1>4. RemoveAt(msgs, i) = b \o a
  BY DEF RemoveAt
<1> HIDE DEF a, b
<1>5. b \o a \in Seq(Message) /\ Len(b \o a) = Len(b) + Len(a)
  BY <1>2, <1>3, ConcatProperties
<1> QED
  BY <1>1, <1>2, <1>3, <1>4, <1>5

(* No answer is None.                                                      *)
LEMMA NotNone ==
  /\ \A x : [id |-> x] # None
  /\ \A x, y : [id |-> x, ok |-> y] # None
  /\ \A x, y, z : [pairs |-> x, ok |-> y, data |-> z] # None
<1>1. \A x : [id |-> x] # None
  BY DEF None
<1>2. \A x, y : [id |-> x, ok |-> y] # None
  BY DEF None
<1>3. \A x, y, z : [pairs |-> x, ok |-> y, data |-> z] # None
  BY DEF None
<1> QED
  BY <1>1, <1>2, <1>3

(* A stream that is not touched stays the same.                            *)
LEMMA SameUp ==
  ASSUME UNCHANGED <<srvBuf, up>> PROVE UpLines' = UpLines /\ (UpStream => UpStream')
BY DEF UpLines, UpStream

LEMMA SameDown ==
  ASSUME UNCHANGED <<cliBuf, down>> PROVE DownLines' = DownLines /\ (DownStream => DownStream')
BY DEF DownLines, DownStream

(* What each step does to the lines, and that the ground stays firm.       *)
LEMMA AskDoes ==
  ASSUME Ground, Mistakes = 0, NEW c \in Commands, NEW n \in 0..Mistakes, Ask(c, n)
  PROVE  /\ Ground' /\ DownLines' = DownLines
         /\ cli' # "closed" => UpLines' = UpLines \o <<Line("HELLO", NotANumber)>>
<1>1. n = 0 /\ exchanges \in Nat /\ exchanges + 1 \in 0..MaxExchanges
  BY ConstAssumption DEF Ground, TypeOK, Ask
<1>2. TypeOK'
  BY <1>1 DEF Ask, ClientIdle, server, Ground, TypeOK, Known
<1>3. msgs' \in Seq(Message) /\ ThreadInv'
  BY DEF Ground, ThreadInv, Ask, ClientIdle, server, Known, Reading, Open
<1>4. DownLines' = DownLines /\ DownStream'
  BY SameDown DEF Ask, ClientIdle, Ground
<1>5. CASE shut
  <2>1. cli' = "closed" /\ UNCHANGED <<srvBuf, up, request, thread, myId>> /\ resp' = <<>>
    BY <1>5 DEF Ask, ClientIdle, server
  <2>2. Reading' => UpStream'
    BY <2>1, SameUp DEF Ground, Reading
  <2>3. AskedInv'
    BY <2>1 DEF Ground, AskedInv, InExchange
  <2> QED
    BY <1>2, <1>3, <1>4, <2>1, <2>2, <2>3 DEF Ground
<1>6. CASE ~shut
  <2>1. /\ cli' = "take" /\ UNCHANGED <<srvBuf, thread, myId>> /\ resp' = <<>> /\ served' = None
        /\ up' = up \o Cells(<<Line("HELLO", NotANumber)>>)
        /\ request' = [cmd |-> c, left |-> [i \in 1..n |-> "bad"]
                                           \o [i \in DOMAIN RequestPairs(c) |-> "pair"]]
    BY <1>6 DEF Ask, ClientIdle, server, ToServer
  <2>2. UpStream
    BY <1>6 DEF Ground, ThreadInv, Ask, ClientIdle, Open
  <2>3. UpStream' /\ UpLines' = UpLines \o <<Line("HELLO", NotANumber)>>
    BY <2>1, <2>2, OwnLines, ServerTold
  <2>4. request'.left \in Seq({"pair"}) /\ Len(request'.left) = Len(RequestPairs(c))
    <3> DEFINE bad  == [i \in 1..n |-> "bad"]
               good == [i \in DOMAIN RequestPairs(c) |-> "pair"]
    <3>1. bad = <<>>
      BY <1>1
    <3>2. good \in Seq({"pair"}) /\ Len(good) = Len(RequestPairs(c))
      <4>1. DOMAIN RequestPairs(c) = 1..Len(RequestPairs(c)) /\ Len(RequestPairs(c)) \in Nat
        BY RequestIs
      <4> QED
        BY <4>1
    <3> HIDE DEF bad, good
    <3>3. bad \o good = good
      BY <3>1, <3>2
    <3>4. request'.left = bad \o good
      BY <2>1 DEF bad, good
    <3> QED
      BY <3>2, <3>3, <3>4
  <2>5. request'.cmd = c
    BY <2>1
  <2>6. AskedInv'
    <3>1. resp' \in Seq(Data)
      BY <2>1
    <3>2. R' = RequestPairs(c)
      BY <2>5 DEF R
    <3> QED
      BY <2>1, <2>4, <2>5, <3>1, <3>2 DEF AskedInv
  <2> QED
    BY <1>2, <1>3, <1>4, <2>3, <2>6 DEF Ground
<1> QED
  BY <1>5, <1>6

(* What every step of the client does to the lines, and that it leaves     *)
(* Ground as it is.                                                        *)
LEMMA StrayDoes ==
  ASSUME Ground, NEW lines \in Strays, Stray(lines)
  PROVE  /\ Ground' /\ DownLines' = DownLines /\ UpLines' = UpLines \o lines
<1>1. strays \in Nat /\ strays + 1 \in 0..MaxStrays
  BY ConstAssumption DEF Ground, TypeOK, Stray
<1>2. TypeOK'
  BY <1>1 DEF Stray, ClientIdle, server, Ground, TypeOK, Known
<1>3. msgs' \in Seq(Message) /\ ThreadInv' /\ AskedInv'
  BY DEF Ground, ThreadInv, AskedInv, Stray, ClientIdle, server, Known, Reading, Open, InExchange, R
<1>4. DownLines' = DownLines /\ DownStream'
  BY SameDown DEF Stray, ClientIdle, Ground
<1>5. UpStream
  BY DEF Ground, ThreadInv, Stray, ClientIdle, Open
<1>6. UpStream' /\ UpLines' = UpLines \o lines
  BY <1>5, OwnLines, ServerTold DEF Stray, ClientIdle, server
<1> QED
  BY <1>2, <1>3, <1>4, <1>6 DEF Ground

LEMMA CloseDoes == ASSUME Ground, CloseConnection PROVE Ground' /\ cli' = "closed"
<1>1. TypeOK'
  BY DEF CloseConnection, ClientIdle, server, Ground, TypeOK
<1>2. msgs' \in Seq(Message) /\ ThreadInv' /\ AskedInv'
  BY DEF Ground, ThreadInv, AskedInv, CloseConnection, ClientIdle, server, Known, Reading, Open,
         InExchange, R
<1>3. DownStream' /\ (Reading' => UpStream')
  BY SameDown, SameUp DEF CloseConnection, ClientIdle, server, Ground, Reading
<1> QED
  BY <1>1, <1>2, <1>3 DEF Ground, CloseConnection

LEMMA ShutdownDoes ==
  ASSUME Ground, Shutdown PROVE Ground' /\ DownLines' = DownLines /\ UpLines' = UpLines
<1>1. TypeOK'
  BY DEF Shutdown, client, server, Ground, TypeOK
<1>2. msgs' \in Seq(Message) /\ ThreadInv' /\ AskedInv'
  BY DEF Ground, ThreadInv, AskedInv, Shutdown, client, server, Known, Reading, Open, InExchange, R
<1>3. /\ DownStream' /\ (Reading' => UpStream') /\ DownLines' = DownLines
      /\ UpLines' = UpLines
  BY SameDown, SameUp DEF Shutdown, client, server, Ground, Reading
<1> QED
  BY <1>1, <1>2, <1>3 DEF Ground

(* The client sends the next pair, or the DONE, or gives up.               *)
LEMMA SendDoes ==
  ASSUME Ground, SendPairs
  PROVE  /\ Ground' /\ DownLines' = DownLines
         /\ \/ cli' = "closed"
            \/ /\ request.left # <<>> /\ cli' = "pairs" /\ ~shut
               /\ UpLines' = UpLines \o <<NextPair>>
               /\ request' = [request EXCEPT !.left = Tail(@)]
            \/ /\ request.left = <<>> /\ cli' = "reply" /\ ~shut
               /\ UpLines' = UpLines \o <<Line("DONE", myId)>>
               /\ request' = request
<1>1. TypeOK'
  BY DEF SendPairs, GiveUp, server, Ground, TypeOK
<1>2. msgs' \in Seq(Message) /\ ThreadInv'
  BY DEF Ground, ThreadInv, SendPairs, GiveUp, server, Known, Reading, Open
<1>3. DownLines' = DownLines /\ DownStream'
  BY SameDown DEF SendPairs, Ground
<1>4. CASE shut
  <2>1. cli' = "closed" /\ UNCHANGED <<up, request, srvBuf, resp, thread>>
    BY <1>4 DEF SendPairs, GiveUp, server
  <2>2. Reading' => UpStream'
    BY <2>1, SameUp DEF Ground, Reading
  <2>3. AskedInv'
    BY <2>1 DEF Ground, AskedInv, InExchange
  <2> QED
    BY <1>1, <1>2, <1>3, <2>1, <2>2, <2>3 DEF Ground
<1>5. CASE ~shut /\ request.left # <<>>
  <2>1. /\ cli = "pairs" /\ UNCHANGED <<cli, srvBuf, resp, thread, served, myId>>
        /\ up' = up \o Cells(<<NextPair>>)
        /\ request' = [request EXCEPT !.left = Tail(@)]
    BY <1>5 DEF SendPairs, GiveUp, server, ToServer
  <2>2. UpStream
    BY <1>5, <2>1 DEF Ground, ThreadInv, Open
  <2>3. <<NextPair>> \in Seq(LineUp)
    BY <1>5, <2>1, NextPairIs
  <2>4. UpStream' /\ UpLines' = UpLines \o <<NextPair>>
    BY <2>1, <2>2, <2>3, ServerTold
  <2>5. /\ request' \in [cmd : Commands \cup {"none"}, left : Seq({"pair"})]
        /\ request'.cmd = request.cmd /\ request'.left = Tail(request.left)
    <3>1. Tail(request.left) \in Seq({"pair"})
      BY <1>5, <2>1, NextPairIs
    <3>2. request \in [cmd : Commands \cup {"none"}, left : Seq({"pair"})]
      BY DEF Ground, AskedInv
    <3> QED
      BY <2>1, <3>1, <3>2
  <2>6. Len(request'.left) <= Len(R)
    <3>1. Len(Tail(request.left)) = Len(request.left) - 1 /\ Len(request.left) \in 1..Len(R)
      BY <1>5, <2>1, NextPairIs
    <3> QED
      BY <2>5, <3>1
  <2>7. AskedInv'
    <3>1. R' = R
      BY <2>5 DEF R
    <3>2. InExchange => request.cmd \in Commands
      BY DEF Ground, AskedInv
    <3>3. served = None /\ resp = <<>> /\ resp \in Seq(Data) /\ myId \in Nat
      BY <2>1 DEF Ground, AskedInv
    <3> QED
      BY <2>1, <2>5, <2>6, <3>1, <3>2, <3>3 DEF AskedInv, InExchange
  <2> QED
    BY <1>1, <1>2, <1>3, <1>5, <2>1, <2>4, <2>7 DEF Ground
<1>6. CASE ~shut /\ request.left = <<>>
  <2>1. /\ cli = "pairs" /\ cli' = "reply"
        /\ UNCHANGED <<srvBuf, resp, thread, served, myId, request>>
        /\ up' = up \o Cells(<<Line("DONE", myId)>>)
    BY <1>6 DEF SendPairs, GiveUp, server, ToServer
  <2>2. UpStream
    BY <1>6, <2>1 DEF Ground, ThreadInv, Open
  <2>3. UpStream' /\ UpLines' = UpLines \o <<Line("DONE", myId)>>
    BY <2>1, <2>2, OwnLines, ServerTold
  <2>4. AskedInv'
    BY <2>1 DEF Ground, AskedInv, InExchange
  <2> QED
    BY <1>1, <1>2, <1>3, <1>6, <2>1, <2>3, <2>4 DEF Ground
<1> QED
  BY <1>4, <1>5, <1>6

LEMMA RecvDoes ==
  ASSUME Ground, ClientRecv
  PROVE  /\ Ground' /\ DownLines' = DownLines /\ UpLines' = UpLines
         /\ cli' \in {cli, "closed"}
<1>1. TypeOK'
  BY DEF ClientRecv, GiveUp, server, Ground, TypeOK
<1>2. msgs' \in Seq(Message) /\ ThreadInv'
  BY DEF Ground, ThreadInv, ClientRecv, GiveUp, server, Known, Reading, Open
<1>3. DownLines' = DownLines /\ DownStream'
  BY ClientMoves DEF Ground
<1>4. UpLines' = UpLines /\ (Reading' => UpStream')
  BY SameUp DEF ClientRecv, server, Ground, Reading
<1>5. cli' \in {cli, "closed"}
  BY DEF ClientRecv, GiveUp
<1>6. AskedInv'
  BY <1>5 DEF Ground, AskedInv, InExchange, ClientRecv, R
<1> QED
  BY <1>1, <1>2, <1>3, <1>4, <1>5, <1>6 DEF Ground

(* What a line to the client is, and which one it reads.                   *)
LEMMA LineDownIs ==
  ASSUME NEW line \in LineDown
  PROVE  /\ line.cmd \in {"TAKE", "RESPONSE", "RESPDATA"}
         /\ line.cmd = "TAKE" => line.id \in Nat
         /\ line.cmd = "RESPDATA" => Datum(line.key, line.val) \in Data
<1>1. CASE line \in [cmd : {"TAKE"}, id : Nat]
  BY <1>1
<1>2. CASE line \in [cmd : {"RESPONSE"}, id : Int, status : {"OK", "ERROR"}]
  BY <1>2
<1>3. CASE line \in [cmd : {"RESPDATA"}, id : Int, key : DataKeys, val : 0..2]
  BY <1>3 DEF Datum, Data
<1> QED
  BY <1>1, <1>2, <1>3 DEF LineDown

LEMMA FirstDown ==
  ASSUME Ground, HasLine(cliBuf), cliBuf' = Rest(cliBuf), down' = down
  PROVE  /\ DownStream' /\ DownLines # <<>> /\ NextLine(cliBuf) = DownLines[1]
         /\ DownLines \in Seq(LineDown) /\ DownLines[1] \in LineDown
         /\ DownLines' = Tail(DownLines)
<1>1. /\ DownStream' /\ DownLines # <<>> /\ NextLine(cliBuf) = Head(DownLines)
      /\ DownLines' = Tail(DownLines)
  BY ClientReads DEF Ground
<1>2. DownLines \in Seq(LineDown)
  BY DEF Ground, DownStream, DownLines, Carries
<1>3. Head(DownLines) = DownLines[1] /\ DownLines[1] \in LineDown
  BY <1>1, <1>2
<1> QED
  BY <1>1, <1>2, <1>3

(* The client reads a line.                                                *)
LEMMA TakeDoes ==
  ASSUME Ground, ClientTake
  PROVE  /\ Ground' /\ DownLines # <<>> /\ DownLines' = Tail(DownLines) /\ UpLines' = UpLines
         /\ \/ cli' = "closed"
            \/ DownLines[1].cmd = "TAKE" /\ myId' = DownLines[1].id /\ cli' = "pairs"
<1> DEFINE line == DownLines[1]
<1>1. /\ DownStream' /\ DownLines # <<>> /\ NextLine(cliBuf) = line
      /\ DownLines' = Tail(DownLines) /\ line \in LineDown
  BY FirstDown DEF ClientTake
<1>2. \/ line.cmd = "TAKE" /\ myId' = line.id /\ cli' = "pairs"
      \/ cli' = "closed" /\ myId' = myId
  BY <1>1 DEF ClientTake, GiveUp
<1>3. line.cmd = "TAKE" => line.id \in Nat
  BY <1>1, LineDownIs
<1>4. UpLines' = UpLines /\ (Reading' => UpStream')
  BY SameUp DEF ClientTake, server, Ground, Reading
<1> HIDE DEF line
<1>5. TypeOK'
  BY <1>2, <1>3 DEF ClientTake, server, Ground, TypeOK
<1>6. msgs' \in Seq(Message) /\ ThreadInv'
  BY <1>2 DEF Ground, ThreadInv, ClientTake, server, Known, Reading, Open
<1>7. AskedInv'
  <2>1. R' = R
    BY DEF ClientTake, R
  <2>2. Len(R) <= Len(R)
    BY RequestIs DEF R
  <2> QED
    BY <1>2, <1>3, <2>1, <2>2 DEF Ground, AskedInv, InExchange, ClientTake
<1> QED
  BY <1>1, <1>2, <1>4, <1>5, <1>6, <1>7 DEF Ground, line

(* A client that waits reads one line, and returns, goes on or gives up    *)
(* by its kind.                                                            *)
LEMMA ReplyDoes ==
  ASSUME Ground, ClientReply
  PROVE  /\ Ground' /\ DownLines # <<>> /\ DownLines' = Tail(DownLines) /\ UpLines' = UpLines
         /\ LET line == DownLines[1] IN
              \/ cli' = "closed"
              \/ /\ line.cmd = "TAKE" /\ cli' = "reply" /\ resp' = resp
              \/ /\ line.cmd = "RESPDATA" /\ cli' = "reply"
                 /\ resp' = Append(resp, Datum(line.key, line.val))
              \/ /\ line.cmd = "RESPONSE" /\ line.id \in {myId, 0}
                 /\ cli' = "idle" /\ resp' = resp /\ result' = Returned(line.status = "OK")
<1> DEFINE line == DownLines[1]
<1>1. /\ DownStream' /\ DownLines # <<>> /\ NextLine(cliBuf) = line
      /\ DownLines' = Tail(DownLines) /\ line \in LineDown
  BY FirstDown DEF ClientReply
<1>2. \/ cli' = "closed" /\ resp' = resp
      \/ /\ line.cmd \notin {"RESPDATA", "RESPONSE"} /\ cli' = "reply" /\ resp' = resp
      \/ /\ line.cmd = "RESPDATA" /\ cli' = "reply"
         /\ resp' = Append(resp, Datum(line.key, line.val))
      \/ /\ line.cmd = "RESPONSE" /\ line.id \in {myId, 0}
         /\ cli' = "idle" /\ resp' = resp /\ result' = Returned(line.status = "OK")
  BY <1>1 DEF ClientReply, GiveUp
<1>3. /\ line.cmd \in {"TAKE", "RESPONSE", "RESPDATA"}
      /\ line.cmd = "RESPDATA" => Datum(line.key, line.val) \in Data
  BY <1>1, LineDownIs
<1>4. UpLines' = UpLines /\ (Reading' => UpStream')
  BY SameUp DEF ClientReply, server, Ground, Reading
<1> HIDE DEF line
<1>5. cli = "reply" /\ cli' \in {"closed", "reply", "idle"}
  BY <1>2 DEF ClientReply
<1>6. TypeOK'
  BY <1>5 DEF ClientReply, server, Ground, TypeOK
<1>7. msgs' \in Seq(Message) /\ ThreadInv'
  BY <1>5 DEF Ground, ThreadInv, ClientReply, server, Known, Reading, Open
<1>8. resp' \in Seq(Data)
  <2>1. resp \in Seq(Data)
    BY DEF Ground, AskedInv
  <2> QED
    BY <1>2, <1>3, <2>1
<1>9. AskedInv'
  BY <1>5, <1>8 DEF Ground, AskedInv, InExchange, ClientReply
<1>10. \/ cli' = "closed"
       \/ line.cmd = "TAKE" /\ cli' = "reply" /\ resp' = resp
       \/ /\ line.cmd = "RESPDATA" /\ cli' = "reply"
          /\ resp' = Append(resp, Datum(line.key, line.val))
       \/ /\ line.cmd = "RESPONSE" /\ line.id \in {myId, 0}
          /\ cli' = "idle" /\ resp' = resp /\ result' = Returned(line.status = "OK")
  BY <1>2, <1>3
<1>11. Ground'
  BY <1>1, <1>4, <1>6, <1>7, <1>9 DEF Ground
<1> QED
  BY <1>1, <1>4, <1>10, <1>11 DEF line

(* The server takes in what has come, or finds that nobody is there.       *)
LEMMA ServerRecvDoes ==
  ASSUME Ground, ServerRecv
  PROVE  Ground' /\ DownLines' = DownLines /\ UpLines' = UpLines
<1>1. TypeOK'
  BY DEF ServerRecv, ServerOnly, Ground, TypeOK
<1>2. msgs' \in Seq(Message) /\ ThreadInv' /\ AskedInv'
  BY DEF Ground, ThreadInv, AskedInv, ServerRecv, ServerOnly, Known, Reading, Open, InExchange, R
<1>3. DownLines' = DownLines /\ DownStream'
  BY SameDown DEF ServerRecv, ServerOnly, Ground
<1>4. UpLines' = UpLines /\ UpStream'
  <2>1. UpStream
    BY DEF ServerRecv, Ground, Reading
  <2> QED
    BY <2>1, ServerMoves
<1> QED
  BY <1>1, <1>2, <1>3, <1>4 DEF Ground

LEMMA HangupDoes == ASSUME Ground, ServerHangup PROVE Ground' /\ DownLines' = DownLines
<1>1. TypeOK'
  BY DEF ServerHangup, ServerOnly, Ground, TypeOK
<1>2. msgs' \in Seq(Message) /\ ThreadInv' /\ AskedInv' /\ ~Reading'
  BY DEF Ground, ThreadInv, AskedInv, ServerHangup, ServerOnly, Known, Reading, Open, InExchange, R
<1>3. DownLines' = DownLines /\ DownStream'
  BY SameDown DEF ServerHangup, ServerOnly, Ground
<1> QED
  BY <1>1, <1>2, <1>3 DEF Ground

(* The lines of the burst are done.                                        *)
LEMMA DrainDoes ==
  ASSUME Ground, DrainEnds PROVE Ground' /\ DownLines' = DownLines /\ UpLines' = UpLines
<1>1. TypeOK'
  BY DEF DrainEnds, ServerOnly, Ground, TypeOK
<1>2. msgs' \in Seq(Message) /\ ThreadInv' /\ AskedInv'
  BY DEF Ground, ThreadInv, AskedInv, DrainEnds, ServerOnly, Known, Reading, Open, InExchange, R
<1>3. DownLines' = DownLines /\ DownStream' /\ UpLines' = UpLines /\ (Reading' => UpStream')
  BY SameDown, SameUp DEF DrainEnds, ServerOnly, Ground, Reading
<1> QED
  BY <1>1, <1>2, <1>3 DEF Ground

(* The server handles the first of the lines that are under way.           *)
LEMMA FirstUp ==
  ASSUME Ground, HandleLine
  PROVE  /\ thread = "drain" /\ UpLines # <<>> /\ NextLine(srvBuf) = UpLines[1]
         /\ UpLines \in Seq(LineUp) /\ UpLines[1] \in LineUp
         /\ UpLines' = Tail(UpLines) /\ UpStream'
<1>1. UpStream /\ thread = "drain"
  BY DEF HandleLine, Ground, Reading
<1>2. /\ UpStream' /\ UpLines # <<>> /\ NextLine(srvBuf) = Head(UpLines)
      /\ UpLines' = Tail(UpLines)
  BY <1>1, ServerReads DEF HandleLine
<1>3. UpLines \in Seq(LineUp)
  BY <1>1 DEF UpStream, UpLines, Carries
<1>4. Head(UpLines) = UpLines[1] /\ UpLines[1] \in LineUp
  BY <1>2, <1>3
<1> QED
  BY <1>1, <1>2, <1>3, <1>4

LEMMA MsgsAre ==
  ASSUME NEW list \in Seq(Message), NEW i \in DOMAIN list
  PROVE  /\ list[i].id \in Nat /\ list[i].pairs \in Seq([key : Keys, val : Vals])
         /\ list[i] = [id |-> list[i].id, pairs |-> list[i].pairs]
<1>1. list[i] \in Message
  OBVIOUS
<1> DEFINE P == Seq([key : Keys, val : Vals])
<1>2. list[i] \in [id : Nat, pairs : P]
  BY <1>1 DEF Message
<1> HIDE DEF P
<1>3. list[i].id \in Nat /\ list[i].pairs \in P
  BY <1>2
<1>4. list[i] = [id |-> list[i].id, pairs |-> list[i].pairs]
  BY <1>2
<1> QED
  BY <1>3, <1>4 DEF P

(* A pair added to one message leaves the others as they were.             *)
LEMMA MsgGrown ==
  ASSUME msgs \in Seq(Message), NEW i \in 1..Len(msgs), NEW p \in [key : Keys, val : Vals]
  PROVE  LET after == [msgs EXCEPT ![i].pairs = Append(@, p)] IN
           /\ after \in Seq(Message) /\ Len(after) = Len(msgs)
           /\ after[i] = [id |-> msgs[i].id, pairs |-> Append(msgs[i].pairs, p)]
           /\ \A j \in 1..Len(msgs) : j # i => after[j] = msgs[j]
           /\ \A j \in 1..Len(msgs) : after[j].id = msgs[j].id
<1> DEFINE after == [msgs EXCEPT ![i].pairs = Append(@, p)]
           P     == [key : Keys, val : Vals]
           m     == [id |-> msgs[i].id, pairs |-> Append(msgs[i].pairs, p)]
<1>1. /\ msgs[i].id \in Nat /\ msgs[i].pairs \in Seq(P)
      /\ msgs[i] = [id |-> msgs[i].id, pairs |-> msgs[i].pairs]
  <2>1. i \in DOMAIN msgs
    OBVIOUS
  <2> QED
    BY <2>1, MsgsAre
<1>2. [msgs[i] EXCEPT !.pairs = Append(msgs[i].pairs, p)] = m /\ m \in Message
  <2>1. Append(msgs[i].pairs, p) \in Seq(P)
    <3>1. msgs[i].pairs \in Seq(P) /\ p \in P
      BY <1>1
    <3> HIDE DEF P
    <3> QED
      BY <3>1
  <2>2. m \in Message
    BY <1>1, <2>1 DEF Message
  <2>3. [msgs[i] EXCEPT !.pairs = Append(msgs[i].pairs, p)] = m
    <3> HIDE DEF P
    <3> DEFINE a == msgs[i].id
               b == msgs[i].pairs
               c == Append(b, p)
    <3>1. msgs[i] = [id |-> a, pairs |-> b]
      BY <1>1
    <3>2. m = [id |-> a, pairs |-> c]
      OBVIOUS
    <3> HIDE DEF a, c, m
    <3>3. [msgs[i] EXCEPT !.pairs = c] = m
      BY <3>1, <3>2
    <3> QED
      BY <3>3 DEF c
  <2> QED
    BY <2>2, <2>3
<1>3. after = [msgs EXCEPT ![i] = m]
  BY <1>2
<1> HIDE DEF after, m
<1>4. after \in Seq(Message) /\ Len(after) = Len(msgs)
  BY <1>2, <1>3
<1>5. after[i] = m /\ \A j \in 1..Len(msgs) : j # i => after[j] = msgs[j]
  BY <1>3
<1>6. m.id = msgs[i].id
  BY DEF m
<1>7. \A j \in 1..Len(msgs) : after[j].id = msgs[j].id
  BY <1>5, <1>6
<1> QED
  BY <1>4, <1>5, <1>7 DEF after, m

Tells(lines) == DownLines' = IF shut \/ ~Open THEN DownLines ELSE DownLines \o lines

(* It handles a line: the first, in one of these ways.                     *)
LineSteps(line) ==
  \/ line.cmd = "HELLO" /\ HandleHello /\ Tells(<<Line("TAKE", nextId)>>)
  \/ line.cmd = "TAKE" /\ HandleTake(line) /\ DownLines' = DownLines
  \/ GoodPair(line) /\ HandlePair(line) /\ DownLines' = DownLines
  \/ /\ line.cmd = "PAIR" /\ line.key = "bad" /\ HandlePair(line)
     /\ Tells(<<Response(line.id, "ERROR")>>)
  \/ line.cmd = "DONE" /\ Known(line.id) /\ HandleDone(line) /\ DownLines' = DownLines
  \/ line.cmd = "DONE" /\ ~Known(line.id) /\ HandleDone(line) /\ Tells(<<Response(0, "ERROR")>>)
  \/ line.cmd \in {"RESPDATA", "RESPONSE"} /\ HandleDummy /\ DownLines' = DownLines
  \/ /\ line.cmd = "malformed" /\ HandleMalformed(line)
     /\ Tells(<<Response(line.id, "ERROR")>>)
  \/ /\ line.cmd \in {"PING", "PONG"} /\ HandleUnknown
     /\ Tells(<<Response(NotANumber, "ERROR")>>)

(* What the server answers with are lines.                                 *)
LEMMA Replies ==
  /\ \A id \in Nat : <<Line("TAKE", id)>> \in Seq(LineDown)
  /\ \A id \in Int, ok \in {"OK", "ERROR"} : <<Response(id, ok)>> \in Seq(LineDown)
<1>1. \A id \in Nat : Line("TAKE", id) \in LineDown
  BY DEF Line, LineDown
<1>2. \A id \in Int, ok \in {"OK", "ERROR"} : Response(id, ok) \in LineDown
  BY DEF Response, LineDown
<1> HIDE DEF Line, Response, LineDown
<1>3. \A x \in LineDown : <<x>> \in Seq(LineDown)
  OBVIOUS
<1> QED
  BY <1>1, <1>2, <1>3

(* What handling a line does, by its kind, is what LineSteps says.         *)
LEMMA LineStepsIs == ASSUME Ground, HandleLine PROVE LineSteps(UpLines[1]) /\ DownStream'
<1> DEFINE line == UpLines[1]
<1>1. NextLine(srvBuf) = line /\ line \in LineUp /\ line.id \in Int
  BY FirstUp, LineUpIs
<1>2. DownStream /\ cliBuf' = cliBuf /\ nextId \in Nat
  BY DEF Ground, TypeOK, HandleLine, ServerOnly
<1>3. ASSUME UNCHANGED down PROVE DownStream' /\ DownLines' = DownLines
  BY <1>2, <1>3, SameDown
<1>4. ASSUME NEW lines \in Seq(LineDown), ToClient(lines) PROVE DownStream' /\ Tells(lines)
  BY <1>2, <1>4, ClientTold DEF Tells
<1>5. \/ line.cmd = "HELLO" /\ HandleHello
      \/ line.cmd = "TAKE" /\ HandleTake(line)
      \/ line.cmd = "PAIR" /\ HandlePair(line)
      \/ line.cmd = "DONE" /\ HandleDone(line)
      \/ line.cmd \in {"RESPDATA", "RESPONSE"} /\ HandleDummy
      \/ line.cmd = "malformed" /\ HandleMalformed(line)
      \/ line.cmd \in {"PING", "PONG"} /\ HandleUnknown
  BY <1>1 DEF HandleLine
<1> HIDE DEF line
<1>6. CASE line.cmd = "HELLO" /\ HandleHello
  <2>1. ToClient(<<Line("TAKE", nextId)>>) /\ <<Line("TAKE", nextId)>> \in Seq(LineDown)
    BY <1>2, <1>6, Replies DEF HandleHello
  <2> QED
    BY <1>4, <1>6, <2>1 DEF LineSteps, line
<1>7. CASE line.cmd = "TAKE" /\ HandleTake(line)
  BY <1>3, <1>7 DEF LineSteps, HandleTake, line
<1>8. CASE line.cmd = "PAIR" /\ HandlePair(line)
  <2>1. CASE line.key = "bad"
    <3>1. /\ ToClient(<<Response(line.id, "ERROR")>>)
          /\ <<Response(line.id, "ERROR")>> \in Seq(LineDown)
      BY <1>1, <1>8, <2>1, Replies DEF HandlePair
    <3> QED
      BY <1>4, <1>8, <2>1, <3>1 DEF LineSteps, line
  <2>2. CASE line.key # "bad"
    <3>1. UNCHANGED down
      BY <1>8, <2>2 DEF HandlePair
    <3> QED
      BY <1>3, <1>8, <2>2, <3>1 DEF LineSteps, GoodPair, line
  <2> QED
    BY <2>1, <2>2
<1>9. CASE line.cmd = "DONE" /\ HandleDone(line)
  <2>1. CASE Known(line.id)
    <3>1. UNCHANGED down
      BY <1>9, <2>1 DEF HandleDone
    <3> QED
      BY <1>3, <1>9, <2>1, <3>1 DEF LineSteps, line
  <2>2. CASE ~Known(line.id)
    <3>1. ToClient(<<Response(0, "ERROR")>>) /\ <<Response(0, "ERROR")>> \in Seq(LineDown)
      BY <1>9, <2>2, Replies DEF HandleDone
    <3> QED
      BY <1>4, <1>9, <2>2, <3>1 DEF LineSteps, line
  <2> QED
    BY <2>1, <2>2
<1>10. CASE line.cmd \in {"RESPDATA", "RESPONSE"} /\ HandleDummy
  BY <1>3, <1>10 DEF LineSteps, HandleDummy, line
<1>11. CASE line.cmd = "malformed" /\ HandleMalformed(line)
  <2>1. ToClient(<<Response(line.id, "ERROR")>>) /\ <<Response(line.id, "ERROR")>> \in Seq(LineDown)
    BY <1>1, <1>11, Replies DEF HandleMalformed
  <2> QED
    BY <1>4, <1>11, <2>1 DEF LineSteps, line
<1>12. CASE line.cmd \in {"PING", "PONG"} /\ HandleUnknown
  <2>1. /\ ToClient(<<Response(NotANumber, "ERROR")>>)
        /\ <<Response(NotANumber, "ERROR")>> \in Seq(LineDown)
    BY <1>12, Replies DEF HandleUnknown, NotANumber
  <2> QED
    BY <1>4, <1>12, <2>1 DEF LineSteps, line
<1> QED
  BY <1>5, <1>6, <1>7, <1>8, <1>9, <1>10, <1>11, <1>12

LEMMA HandleLineDoes ==
  ASSUME Ground, HandleLine
  PROVE  Ground' /\ UpLines' = Tail(UpLines) /\ LineSteps(UpLines[1])
<1> DEFINE line == UpLines[1]
<1>1. thread = "drain" /\ UpLines' = Tail(UpLines) /\ UpStream' /\ line \in LineUp
  BY FirstUp
<1>2. LineSteps(line) /\ DownStream'
  BY LineStepsIs
<1>3. UNCHANGED <<up, shut, served, cliBuf, cli, request, myId, resp, result, exchanges, strays>>
  BY DEF HandleLine, ServerOnly
<1>4. /\ line.id \in Int /\ (line.cmd \in {"TAKE", "PAIR"} => line.id \in Nat)
      /\ GoodPair(line) => [key |-> line.key, val |-> line.val] \in [key : Keys, val : Vals]
  BY <1>1, LineUpIs
<1>5. /\ nextId \in Nat /\ msgs \in Seq(Message) /\ current = None
      /\ <<>> \in Seq([key : Keys, val : Vals])
  BY <1>1 DEF Ground, TypeOK
<1> HIDE DEF line
<1>6. /\ msgs' \in Seq(Message) /\ nextId' \in Nat
      /\ \/ thread' = "drain" /\ current' = None
         \/ thread' = "handle" /\ current' = [id |-> line.id] /\ Known(line.id) /\ msgs' = msgs
  <2>1. CASE line.cmd = "HELLO" /\ HandleHello
    <3>1. CASE shut \/ ~Open
      BY <1>1, <1>5, <2>1, <3>1 DEF HandleHello
    <3>2. CASE ~(shut \/ ~Open)
      <4>1. msgs' = AddMsg(nextId, <<>>) /\ nextId' = nextId + 1 /\ UNCHANGED <<thread, current>>
        BY <2>1, <3>2 DEF HandleHello
      <4>2. AddMsg(nextId, <<>>) \in Seq(Message)
        BY <1>5, MsgAdded
      <4> QED
        BY <1>1, <1>5, <4>1, <4>2
    <3> QED
      BY <3>1, <3>2
  <2>2. CASE line.cmd = "TAKE" /\ HandleTake(line)
    <3>1. AddMsg(line.id, <<>>) \in Seq(Message)
      BY <1>4, <1>5, <2>2, MsgAdded
    <3> QED
      BY <1>1, <1>5, <2>2, <3>1 DEF HandleTake
  <2>3. CASE GoodPair(line) /\ HandlePair(line)
    <3> DEFINE p == [key |-> line.key, val |-> line.val]
    <3>1. p \in [key : Keys, val : Vals] /\ line.id \in Nat /\ line.key # "bad"
      BY <1>4, <2>3 DEF GoodPair
    <3>2. /\ msgs' = IF Known(line.id)
                     THEN [msgs EXCEPT ![FindMsg(line.id)].pairs = Append(@, p)]
                     ELSE AddMsg(line.id, <<p>>)
          /\ UNCHANGED <<nextId, thread, current>>
      BY <2>3, <3>1 DEF HandlePair
    <3> HIDE DEF p
    <3>3. CASE Known(line.id)
      <4>1. FindMsg(line.id) \in 1..Len(msgs)
        BY <1>5, <3>3, MsgFound
      <4>2. [msgs EXCEPT ![FindMsg(line.id)].pairs = Append(@, p)] \in Seq(Message)
        BY <1>5, <3>1, <4>1, MsgGrown
      <4> QED
        BY <1>1, <1>5, <3>2, <3>3, <4>2
    <3>4. CASE ~Known(line.id)
      <4>1. <<p>> \in Seq([key : Keys, val : Vals])
        <5> DEFINE P == [key : Keys, val : Vals]
        <5>1. p \in P
          BY <3>1
        <5> HIDE DEF P
        <5>2. <<p>> \in Seq(P)
          BY <5>1
        <5> QED
          BY <5>2 DEF P
      <4>2. AddMsg(line.id, <<p>>) \in Seq(Message)
        BY <1>5, <3>1, <4>1, MsgAdded
      <4> QED
        BY <1>1, <1>5, <3>2, <3>4, <4>2
    <3> QED
      BY <3>3, <3>4
  <2>4. CASE line.cmd = "PAIR" /\ line.key = "bad" /\ HandlePair(line)
    BY <1>1, <1>5, <2>4 DEF HandlePair
  <2>5. CASE line.cmd = "DONE" /\ HandleDone(line)
    BY <1>1, <1>5, <2>5 DEF HandleDone
  <2>6. CASE HandleDummy \/ HandleMalformed(line) \/ HandleUnknown
    BY <1>1, <1>5, <2>6 DEF HandleDummy, HandleMalformed, HandleUnknown
  <2> QED
    BY <1>2, <2>1, <2>2, <2>3, <2>4, <2>5, <2>6 DEF LineSteps
<1>7. TypeOK'
  <2>1. \A i \in DOMAIN msgs' : msgs'[i].id \in Nat
    BY <1>6, MsgsAre
  <2>2. thread' \in {"handle", "answer"} <=> current' # None
    BY <1>6, NotNone
  <2> QED
    BY <1>3, <1>6, <2>1, <2>2 DEF Ground, TypeOK
<1>8. ThreadInv'
  <2>1. thread' = "handle" => current'.id \in Nat /\ Known(current.id)'
    <3> SUFFICES ASSUME thread' = "handle" PROVE current'.id \in Nat /\ Known(current.id)'
      OBVIOUS
    <3>1. current'.id = line.id /\ Known(line.id) /\ msgs' = msgs
      BY <1>6
    <3>2. line.id \in Nat
      BY <1>5, <3>1, MsgsAre DEF Known
    <3> QED
      BY <3>1, <3>2 DEF Known
  <2> QED
    BY <1>3, <1>6, <2>1 DEF ThreadInv, Reading, Open
<1>9. AskedInv'
  BY <1>3 DEF Ground, AskedInv, InExchange, R
<1> QED
  BY <1>1, <1>2, <1>6, <1>7, <1>8, <1>9 DEF Ground, line

(* It handles the message, and the answer goes out.                        *)
DataLines(o, m) == [i \in DOMAIN o.data |-> Pair("RESPDATA", m.id, o.data[i].key, o.data[i].val)]
Handled(o, m) ==
  /\ m = msgs[FindMsg(current.id)] /\ o \in Outcomes(m.pairs)
  /\ Tells(DataLines(o, m)) /\ DataLines(o, m) \in Seq(LineDown)
  /\ current' = [id |-> m.id, ok |-> o.ok]
  /\ served' = IF cli \in {"reply", "idle"} /\ m.id = myId /\ served = None
               THEN [pairs |-> m.pairs, ok |-> o.ok, data |-> o.data] ELSE served

(* The handler leaves the lines to be read as they are,                    *)
LEMMA HandleDoes ==
  ASSUME Ground, Handle
  PROVE  /\ Ground' /\ UpLines' = UpLines
         /\ msgs[FindMsg(current.id)].id = current.id
         /\ \E o : Handled(o, msgs[FindMsg(current.id)])
<1> DEFINE m == msgs[FindMsg(current.id)]
<1>1. thread = "handle" /\ current.id \in Nat /\ Known(current.id) /\ msgs \in Seq(Message)
  BY DEF Ground, ThreadInv, Handle
<1>2. m \in Message /\ m.id = current.id
  BY <1>1, MsgFound
<1>3. PICK o \in Outcomes(m.pairs) :
        /\ ToClient([i \in DOMAIN o.data |-> Pair("RESPDATA", m.id, o.data[i].key, o.data[i].val)])
        /\ current' = [id |-> m.id, ok |-> o.ok]
        /\ served' = IF cli \in {"reply", "idle"} /\ m.id = myId /\ served = None
                     THEN [pairs |-> m.pairs, ok |-> o.ok, data |-> o.data] ELSE served
  BY DEF Handle
<1> HIDE DEF m
<1> DEFINE lines == [i \in DOMAIN o.data |-> Pair("RESPDATA", m.id, o.data[i].key, o.data[i].val)]
<1>4. o.data \in Seq(Data) /\ o.ok \in BOOLEAN
  BY OutcomesAre
<1>5. lines \in Seq(LineDown)
  <2>1. ASSUME NEW i \in DOMAIN o.data
        PROVE  Pair("RESPDATA", m.id, o.data[i].key, o.data[i].val) \in LineDown
    <3>1. o.data[i] \in Data
      BY <1>4
    <3>2. o.data[i].key \in DataKeys /\ o.data[i].val \in 0..2
      BY <3>1 DEF Data
    <3> QED
      BY <1>1, <1>2, <3>2 DEF Pair, LineDown
  <2>2. DOMAIN o.data = 1..Len(o.data) /\ Len(o.data) \in Nat
    BY <1>4
  <2>3. lines \in [1..Len(o.data) -> LineDown]
    BY <2>1, <2>2
  <2> HIDE DEF lines
  <2> QED
    BY <2>2, <2>3
<1>6. /\ thread' = "answer"
      /\ UNCHANGED <<up, srvBuf, msgs, nextId, shut, cliBuf, cli, request, myId, resp, result,
                     exchanges, strays>>
  BY DEF Handle, ServerOnly
<1>7. DownStream' /\ Tells(lines)
  <2>1. DownStream /\ ToClient(lines)
    BY <1>3 DEF Ground
  <2> HIDE DEF lines
  <2> QED
    BY <1>5, <1>6, <2>1, ClientTold DEF Tells
<1>8. UpLines' = UpLines /\ UpStream'
  BY <1>1, <1>6, SameUp DEF Ground, Reading
<1>9. TypeOK'
  <2>1. current' # None
    BY <1>3, NotNone
  <2> QED
    BY <1>6, <2>1 DEF Ground, TypeOK
<1>10. ThreadInv'
  BY <1>1, <1>2, <1>3, <1>6 DEF ThreadInv, Reading, Known
<1>11. AskedInv'
  <2>1. cli \in {"take", "pairs"} => served' = served
    BY <1>3
  <2> QED
    BY <1>6, <2>1 DEF Ground, AskedInv, InExchange, R
<1>12. Ground'
  BY <1>6, <1>7, <1>8, <1>9, <1>10, <1>11 DEF Ground
<1>13. Handled(o, m)
  BY <1>3, <1>5, <1>7 DEF Handled, DataLines, m
<1> QED
  BY <1>2, <1>8, <1>12, <1>13 DEF m

Verdict == Response(current.id, IF current.ok THEN "OK" ELSE "ERROR")

(* and the answer is one line more, and one message less.                  *)
LEMMA AnswerDoes ==
  ASSUME Ground, Answer
  PROVE  /\ Ground' /\ UpLines' = UpLines /\ Len(msgs') = Len(msgs) - 1
         /\ Tells(<<Verdict>>) /\ <<Verdict>> \in Seq(LineDown)
<1> DEFINE lines == <<Verdict>>
<1> USE DEF Verdict
<1>1. thread = "answer" /\ current.id \in Nat /\ Known(current.id) /\ msgs \in Seq(Message)
  BY DEF Ground, ThreadInv, Answer
<1>2. /\ thread' = "drain" /\ current' = None /\ ToClient(lines)
      /\ msgs' = RemoveAt(msgs, FindMsg(current.id))
      /\ UNCHANGED <<up, srvBuf, nextId, shut, served, cliBuf, cli, request, myId, resp, result,
                     exchanges, strays>>
  BY DEF Answer, ServerOnly
<1>3. msgs' \in Seq(Message) /\ Len(msgs') = Len(msgs) - 1
  <2>1. FindMsg(current.id) \in 1..Len(msgs)
    BY <1>1, MsgFound
  <2> QED
    BY <1>1, <1>2, <2>1, MsgRemoved
<1>4. DownStream' /\ Tells(lines) /\ lines \in Seq(LineDown)
  <2>1. lines \in Seq(LineDown)
    <3>1. current.id \in Int /\ (IF current.ok THEN "OK" ELSE "ERROR") \in {"OK", "ERROR"}
      BY <1>1
    <3> QED
      BY <3>1, Replies
  <2>2. DownStream
    BY DEF Ground
  <2> HIDE DEF lines
  <2> QED
    BY <1>2, <2>1, <2>2, ClientTold DEF Tells
<1>5. UpLines' = UpLines /\ UpStream'
  BY <1>1, <1>2, SameUp DEF Ground, Reading
<1>6. TypeOK'
  <2>1. \A i \in DOMAIN msgs' : msgs'[i].id \in Nat
    BY <1>3, MsgsAre
  <2> QED
    BY <1>2, <2>1 DEF Ground, TypeOK
<1>7. ThreadInv' /\ AskedInv'
  BY <1>2 DEF Ground, ThreadInv, Reading, AskedInv, InExchange, R
<1> QED
  BY <1>3, <1>4, <1>5, <1>6, <1>7 DEF Ground

-----------------------------------------------------------------------------
(* The first message of an id in a list: the one the server finds.         *)
FirstIn(list, id, pairs) ==
  \E i \in DOMAIN list : /\ list[i] = [id |-> id, pairs |-> pairs]
                         /\ \A j \in 1..i - 1 : list[j].id # id

(* It is the one found; a new one is the first of its id, and hides none   *)
(* of another; a pair added to it is at its end.                           *)
LEMMA FirstFound ==
  ASSUME msgs \in Seq(Message), NEW id, NEW pairs, FirstIn(msgs, id, pairs)
  PROVE  Known(id) /\ msgs[FindMsg(id)] = [id |-> id, pairs |-> pairs]
<1>1. PICK i \in DOMAIN msgs : /\ msgs[i] = [id |-> id, pairs |-> pairs]
                               /\ \A j \in 1..i - 1 : msgs[j].id # id
  BY DEF FirstIn
<1>2. Known(id) /\ msgs[i].id = id
  BY <1>1 DEF Known
<1>3. /\ FindMsg(id) \in 1..Len(msgs) /\ msgs[FindMsg(id)].id = id
      /\ \A j \in 1..Len(msgs) : j < FindMsg(id) => msgs[j].id # id
  BY <1>2, MsgFound
<1>4. i \in 1..Len(msgs)
  OBVIOUS
<1>5. ~(i < FindMsg(id))
  BY <1>2, <1>3, <1>4
<1>6. ~(FindMsg(id) < i)
  <2> SUFFICES ASSUME FindMsg(id) < i PROVE FALSE
    OBVIOUS
  <2>1. FindMsg(id) \in 1..i - 1
    BY <1>3, <1>4
  <2> QED
    BY <1>1, <1>3, <2>1
<1>7. FindMsg(id) = i
  BY <1>3, <1>4, <1>5, <1>6
<1> QED
  BY <1>1, <1>2, <1>7

LEMMA FirstNew ==
  ASSUME msgs \in Seq(Message), NEW id \in Nat, NEW pairs \in Seq([key : Keys, val : Vals])
  PROVE  /\ FirstIn(AddMsg(id, pairs), id, pairs)
         /\ \A other, p : other # id /\ FirstIn(msgs, other, p) =>
                            FirstIn(AddMsg(id, pairs), other, p)
<1> DEFINE after == AddMsg(id, pairs)
<1>1. /\ after \in Seq(Message) /\ Len(after) = Len(msgs) + 1 /\ Len(msgs) \in Nat
      /\ after[1] = [id |-> id, pairs |-> pairs]
      /\ \A i \in 1..Len(msgs) : after[i + 1] = msgs[i]
  <2>1. Len(msgs) \in Nat
    OBVIOUS
  <2> HIDE DEF AddMsg
  <2> QED
    BY <2>1, MsgAdded
<1> HIDE DEF after
<1>2. FirstIn(after, id, pairs)
  <2>1. 1 \in DOMAIN after /\ \A j \in 1..1 - 1 : after[j].id # id
    BY <1>1
  <2> QED
    BY <1>1, <2>1 DEF FirstIn
<1>3. ASSUME NEW other, NEW p, other # id, FirstIn(msgs, other, p) PROVE FirstIn(after, other, p)
  <2>1. PICK i \in DOMAIN msgs : /\ msgs[i] = [id |-> other, pairs |-> p]
                                 /\ \A j \in 1..i - 1 : msgs[j].id # other
    BY <1>3 DEF FirstIn
  <2> DEFINE k == i + 1
  <2>2. i \in 1..Len(msgs) /\ k \in 1..Len(after)
    BY <1>1
  <2>3. after[k] = [id |-> other, pairs |-> p]
    BY <1>1, <2>1, <2>2
  <2>4. ASSUME NEW j \in 1..k - 1 PROVE after[j].id # other
    <3>1. CASE j = 1
      BY <1>1, <1>3, <3>1
    <3>2. CASE j # 1
      <4> DEFINE h == j - 1
      <4>1. h \in 1..i - 1 /\ h \in 1..Len(msgs) /\ h + 1 = j
        BY <2>2, <3>2
      <4> HIDE DEF h
      <4>2. after[j] = msgs[h]
        BY <1>1, <4>1
      <4> QED
        BY <2>1, <4>1, <4>2
    <3> QED
      BY <3>1, <3>2
  <2>5. k \in DOMAIN after
    BY <1>1, <2>2
  <2> HIDE DEF k
  <2> QED
    BY <2>3, <2>4, <2>5 DEF FirstIn
<1> QED
  BY <1>2, <1>3 DEF after

LEMMA FirstGrown ==
  ASSUME msgs \in Seq(Message), NEW id, NEW pairs, FirstIn(msgs, id, pairs),
         NEW p \in [key : Keys, val : Vals]
  PROVE  FirstIn([msgs EXCEPT ![FindMsg(id)].pairs = Append(@, p)], id, Append(pairs, p))
<1> DEFINE i     == FindMsg(id)
           after == [msgs EXCEPT ![i].pairs = Append(@, p)]
<1>1. Known(id) /\ msgs[i] = [id |-> id, pairs |-> pairs]
  BY FirstFound
<1>2. i \in 1..Len(msgs) /\ \A j \in 1..Len(msgs) : j < i => msgs[j].id # id
  BY <1>1, MsgFound
<1> HIDE DEF i
<1>3. /\ after \in Seq(Message) /\ Len(after) = Len(msgs)
      /\ after[i] = [id |-> msgs[i].id, pairs |-> Append(msgs[i].pairs, p)]
      /\ \A j \in 1..Len(msgs) : after[j].id = msgs[j].id
  BY <1>2, MsgGrown
<1>4. msgs[i].id = id /\ msgs[i].pairs = pairs
  BY <1>1
<1> HIDE DEF after
<1>5. i \in DOMAIN after /\ after[i] = [id |-> id, pairs |-> Append(pairs, p)]
  BY <1>2, <1>3, <1>4
<1>6. \A j \in 1..i - 1 : after[j].id # id
  <2> TAKE j \in 1..i - 1
  <2>1. j \in 1..Len(msgs) /\ j < i
    BY <1>2
  <2> QED
    BY <1>2, <1>3, <2>1
<1> QED
  BY <1>5, <1>6 DEF FirstIn, after, i

-----------------------------------------------------------------------------
(* Lines that come behind others, and lines without the first.             *)
LEMMA TailIs ==
  ASSUME NEW S, NEW s \in Seq(S), s # <<>>
  PROVE  /\ Tail(s) \in Seq(S) /\ Len(Tail(s)) = Len(s) - 1 /\ Len(s) \in Nat
         /\ 1 \in DOMAIN s
         /\ \A i \in DOMAIN Tail(s) : i \in Nat \ {0} /\ i + 1 \in DOMAIN s /\ Tail(s)[i] = s[i + 1]
OBVIOUS

(* The elements of two sequences joined, by their place.                   *)
LEMMA JoinIs ==
  ASSUME NEW S, NEW s \in Seq(S), NEW t \in Seq(S)
  PROVE  /\ s \o t \in Seq(S) /\ Len(s \o t) = Len(s) + Len(t) /\ Len(s) \in Nat
         /\ \A i \in DOMAIN s : i \in DOMAIN (s \o t) /\ (s \o t)[i] = s[i]
         /\ \A i \in DOMAIN (s \o t) :
              \/ i \in DOMAIN s /\ (s \o t)[i] = s[i]
              \/ /\ i \notin DOMAIN s /\ i \in Nat /\ i > Len(s) /\ i - Len(s) \in DOMAIN t
                 /\ (s \o t)[i] = t[i - Len(s)]
<1>1. /\ s \o t \in Seq(S) /\ Len(s \o t) = Len(s) + Len(t) /\ Len(s) \in Nat /\ Len(t) \in Nat
      /\ \A i \in 1..Len(s) + Len(t) : (s \o t)[i] = IF i <= Len(s) THEN s[i] ELSE t[i - Len(s)]
  BY ConcatProperties
<1> DEFINE st == s \o t
<1> HIDE DEF st
<1>2. DOMAIN st = 1..Len(s) + Len(t) /\ DOMAIN s = 1..Len(s) /\ DOMAIN t = 1..Len(t)
  BY <1>1 DEF st
<1>3. \A i \in DOMAIN s : i \in DOMAIN st /\ st[i] = s[i]
  BY <1>1, <1>2 DEF st
<1>4. ASSUME NEW i \in DOMAIN st
      PROVE  \/ i \in DOMAIN s /\ st[i] = s[i]
             \/ /\ i \notin DOMAIN s /\ i \in Nat /\ i > Len(s) /\ i - Len(s) \in DOMAIN t
                /\ st[i] = t[i - Len(s)]
  <2>1. i \in 1..Len(s) + Len(t) /\ st[i] = IF i <= Len(s) THEN s[i] ELSE t[i - Len(s)]
    BY <1>1, <1>2 DEF st
  <2> QED
    BY <1>1, <1>2, <2>1
<1> QED
  BY <1>1, <1>3, <1>4 DEF st

(* An answer that comes before the client's own; and what is so ordered    *)
(* that after a HELLO, or after a TAKE, only what does no harm comes.      *)
Late(line)  == line.cmd = "TAKE" \/ (line.cmd = "RESPONSE" /\ line.id = NotANumber)
AllGreet(u) == \A i \in DOMAIN u : Greeting(u[i])
AllLate(w)  == \A i \in DOMAIN w : Late(w[i])
HasTake(w)  == \E i \in DOMAIN w : w[i].cmd = "TAKE"
GreetEnds(u) == \A i, j \in DOMAIN u : u[i].cmd = "HELLO" /\ i < j => Greeting(u[j])
LateEnds(w)  == \A i, j \in DOMAIN w : w[i].cmd = "TAKE" /\ i < j => Late(w[j])

(* The first line goes, or some come behind: what remains true of the      *)
(* lines to the server,                                                    *)
LEMMA GreetTail ==
  ASSUME NEW u \in Seq(LineUp), u # <<>>
  PROVE  /\ AllGreet(u) => AllGreet(Tail(u))
         /\ GreetEnds(u) => GreetEnds(Tail(u))
         /\ GreetEnds(u) /\ u[1].cmd = "HELLO" => AllGreet(Tail(u))
         /\ Greets(Tail(u)) => Greets(u)
<1>1. /\ 1 \in DOMAIN u
      /\ \A i \in DOMAIN Tail(u) : i \in Nat \ {0} /\ i + 1 \in DOMAIN u /\ Tail(u)[i] = u[i + 1]
  BY TailIs
<1>2. AllGreet(u) => AllGreet(Tail(u))
  BY <1>1 DEF AllGreet
<1>3. GreetEnds(u) => GreetEnds(Tail(u))
  <2> SUFFICES ASSUME GreetEnds(u), NEW i \in DOMAIN Tail(u), NEW j \in DOMAIN Tail(u),
                      Tail(u)[i].cmd = "HELLO", i < j
               PROVE  Greeting(Tail(u)[j])
    BY DEF GreetEnds
  <2> DEFINE h == i + 1
             k == j + 1
  <2>1. h \in DOMAIN u /\ k \in DOMAIN u /\ h < k /\ Tail(u)[i] = u[h] /\ Tail(u)[j] = u[k]
    BY <1>1
  <2> HIDE DEF h, k
  <2> QED
    BY <2>1 DEF GreetEnds
<1>4. GreetEnds(u) /\ u[1].cmd = "HELLO" => AllGreet(Tail(u))
  <2> SUFFICES ASSUME GreetEnds(u), u[1].cmd = "HELLO", NEW i \in DOMAIN Tail(u)
               PROVE  Greeting(Tail(u)[i])
    BY DEF AllGreet
  <2> DEFINE h == i + 1
  <2>1. h \in DOMAIN u /\ 1 < h /\ Tail(u)[i] = u[h]
    BY <1>1
  <2> HIDE DEF h
  <2> QED
    BY <1>1, <2>1 DEF GreetEnds
<1>5. Greets(Tail(u)) => Greets(u)
  BY <1>1 DEF Greets
<1> QED
  BY <1>2, <1>3, <1>4, <1>5

LEMMA GreetJoin ==
  ASSUME NEW u \in Seq(LineUp), NEW v \in Seq(LineUp)
  PROVE  /\ AllGreet(u) /\ AllGreet(v) => AllGreet(u \o v)
         /\ GreetEnds(u) /\ GreetEnds(v) /\ (Greets(u) => AllGreet(v)) => GreetEnds(u \o v)
         /\ Greets(u \o v) => Greets(u) \/ Greets(v)
<1> DEFINE n  == Len(u)
           uv == u \o v
<1>1. /\ n \in Nat
      /\ \A i \in DOMAIN uv :
           \/ i \in DOMAIN u /\ uv[i] = u[i]
           \/ i \notin DOMAIN u /\ i \in Nat /\ i > n /\ i - n \in DOMAIN v /\ uv[i] = v[i - n]
  BY JoinIs
<1>2. DOMAIN u = 1..n
  OBVIOUS
<1> HIDE DEF n, uv
<1>3. AllGreet(u) /\ AllGreet(v) => AllGreet(uv)
  BY <1>1 DEF AllGreet
<1>4. GreetEnds(u) /\ GreetEnds(v) /\ (Greets(u) => AllGreet(v)) => GreetEnds(uv)
  <2> SUFFICES ASSUME GreetEnds(u), GreetEnds(v), Greets(u) => AllGreet(v),
                      NEW i \in DOMAIN uv, NEW j \in DOMAIN uv, uv[i].cmd = "HELLO", i < j
               PROVE  Greeting(uv[j])
    BY DEF GreetEnds
  <2>1. CASE j \in DOMAIN u
    <3>1. i \in DOMAIN u
      BY <1>1, <1>2, <2>1
    <3> QED
      BY <1>1, <2>1, <3>1 DEF GreetEnds
  <2>2. CASE i \in DOMAIN u /\ j \notin DOMAIN u
    BY <1>1, <2>2 DEF Greets, AllGreet
  <2>3. CASE i \notin DOMAIN u /\ j \notin DOMAIN u
    <3> DEFINE h == i - n
               k == j - n
    <3>1. h \in DOMAIN v /\ k \in DOMAIN v /\ h < k /\ uv[i] = v[h] /\ uv[j] = v[k]
      BY <1>1, <2>3
    <3> HIDE DEF h, k
    <3> QED
      BY <3>1 DEF GreetEnds
  <2> QED
    BY <2>1, <2>2, <2>3
<1>5. Greets(uv) => Greets(u) \/ Greets(v)
  BY <1>1 DEF Greets
<1> QED
  BY <1>3, <1>4, <1>5 DEF uv

(* and of those to the client.                                             *)
LEMMA LateTail ==
  ASSUME NEW w \in Seq(LineDown), w # <<>>
  PROVE  /\ AllLate(w) => AllLate(Tail(w))
         /\ LateEnds(w) /\ w[1].cmd = "TAKE" => AllLate(Tail(w))
<1>1. /\ 1 \in DOMAIN w
      /\ \A i \in DOMAIN Tail(w) : i \in Nat \ {0} /\ i + 1 \in DOMAIN w /\ Tail(w)[i] = w[i + 1]
  BY TailIs
<1>2. AllLate(w) => AllLate(Tail(w))
  BY <1>1 DEF AllLate
<1>3. LateEnds(w) /\ w[1].cmd = "TAKE" => AllLate(Tail(w))
  <2> SUFFICES ASSUME LateEnds(w), w[1].cmd = "TAKE", NEW i \in DOMAIN Tail(w)
               PROVE  Late(Tail(w)[i])
    BY DEF AllLate
  <2> DEFINE h == i + 1
  <2>1. h \in DOMAIN w /\ 1 < h /\ Tail(w)[i] = w[h]
    BY <1>1
  <2> HIDE DEF h
  <2> QED
    BY <1>1, <2>1 DEF LateEnds
<1> QED
  BY <1>2, <1>3

LEMMA LateJoin ==
  ASSUME NEW w \in Seq(LineDown), NEW v \in Seq(LineDown)
  PROVE  /\ AllLate(w) /\ AllLate(v) => AllLate(w \o v)
         /\ LateEnds(w) /\ AllLate(v) => LateEnds(w \o v)
         /\ HasTake(w \o v) => HasTake(w) \/ HasTake(v)
         /\ \A i \in DOMAIN (w \o v) :
              \/ i \in DOMAIN w /\ (w \o v)[i] = w[i]
              \/ \E j \in DOMAIN v : (w \o v)[i] = v[j]
<1> DEFINE n  == Len(w)
           wv == w \o v
<1>1. /\ n \in Nat
      /\ \A i \in DOMAIN wv :
           \/ i \in DOMAIN w /\ wv[i] = w[i]
           \/ i \notin DOMAIN w /\ i \in Nat /\ i > n /\ i - n \in DOMAIN v /\ wv[i] = v[i - n]
  BY JoinIs
<1>2. DOMAIN w = 1..n
  OBVIOUS
<1> HIDE DEF n, wv
<1>3. AllLate(w) /\ AllLate(v) => AllLate(wv)
  BY <1>1 DEF AllLate
<1>4. LateEnds(w) /\ AllLate(v) => LateEnds(wv)
  <2> SUFFICES ASSUME LateEnds(w), AllLate(v),
                      NEW i \in DOMAIN wv, NEW j \in DOMAIN wv, wv[i].cmd = "TAKE", i < j
               PROVE  Late(wv[j])
    BY DEF LateEnds
  <2>1. CASE j \in DOMAIN w
    <3>1. i \in DOMAIN w
      BY <1>1, <1>2, <2>1
    <3> QED
      BY <1>1, <2>1, <3>1 DEF LateEnds
  <2>2. CASE j \notin DOMAIN w
    BY <1>1, <2>2 DEF AllLate
  <2> QED
    BY <2>1, <2>2
<1>5. HasTake(wv) => HasTake(w) \/ HasTake(v)
  BY <1>1 DEF HasTake
<1> QED
  BY <1>1, <1>3, <1>4, <1>5 DEF wv

(* Before the client has its id: nothing that names an id, or is answered  *)
(* with 0, is left to be read behind a HELLO; and when there is a TAKE to  *)
(* be had, nothing else is under way that the client could mistake for an  *)
(* answer, and the id is of a message nothing has been added to.           *)
Before ==
  /\ Reading => GreetEnds(UpLines)
  /\ LateEnds(DownLines)
  /\ \A j \in DOMAIN DownLines : DownLines[j].cmd = "TAKE" =>
       /\ DownLines[j].id < nextId
       /\ Reading => FirstIn(msgs, DownLines[j].id, <<>>)
  /\ HasTake(DownLines) /\ Reading => AllGreet(UpLines) /\ thread \in {"poll", "drain"}
  /\ cli = "idle" /\ Reading /\ (Greets(UpLines) \/ HasTake(DownLines)) =>
       strays > 0 /\ \E lines \in Strays : Greets(lines)

LEMMA LinesAre ==
  ASSUME Ground PROVE DownLines \in Seq(LineDown) /\ (Reading => UpLines \in Seq(LineUp))
BY DEF Ground, DownStream, UpStream, DownLines, UpLines, Carries

(* Before is kept by a step after which no TAKE is under way;              *)
LEMMA BeforeQuiet ==
  ASSUME Before, ~HasTake(DownLines'), cli' = cli, strays' = strays,
         Reading' => /\ Reading /\ GreetEnds(UpLines')
                     /\ Greets(UpLines') => Greets(UpLines)
  PROVE  Before'
<1>1. \A j \in DOMAIN DownLines' : DownLines'[j].cmd # "TAKE"
  BY DEF HasTake
<1>2. LateEnds(DownLines')
  BY <1>1 DEF LateEnds
<1> QED
  BY <1>1, <1>2 DEF Before

(* What stays as it is: the lines, and the messages while there are any.   *)
LEMMA BeforeStays ==
  ASSUME Before, Ground, cli' = cli, strays' = strays, nextId' = nextId, DownLines' = DownLines,
         Reading' => /\ Reading /\ UpLines' = UpLines /\ msgs' = msgs
                     /\ thread \in {"poll", "drain"} => thread' \in {"poll", "drain"}
  PROVE  Before'
BY DEF Before

(* by the server's step with a HELLO, which makes the TAKE;                *)
LEMMA BeforeHello ==
  ASSUME Ground, Before, Open, HandleLine, UpLines[1].cmd = "HELLO", LineSteps(UpLines[1]),
         Ground', UpLines' = Tail(UpLines)
  PROVE  Before'
<1>1. /\ thread = "drain" /\ UpLines # <<>> /\ UpLines \in Seq(LineUp) /\ Reading
      /\ GreetEnds(UpLines)
  BY FirstUp DEF Before, Reading
<1>2. /\ AllGreet(UpLines') /\ GreetEnds(UpLines') /\ (Greets(UpLines') => Greets(UpLines))
      /\ Greets(UpLines)
  <2>1. Greets(UpLines)
    BY <1>1, TailIs DEF Greets
  <2> QED
    BY <1>1, <2>1, GreetTail
<1>3. HandleHello /\ Tells(<<Line("TAKE", nextId)>>)
  BY DEF LineSteps, GoodPair
<1>4. UNCHANGED <<cli, strays, thread>>
  BY <1>3 DEF HandleLine, ServerOnly, HandleHello
<1>5. CASE shut
  <2>1. UNCHANGED <<msgs, nextId>> /\ DownLines' = DownLines
    BY <1>3, <1>5 DEF HandleHello, Tells
  <2> QED
    BY <1>1, <1>2, <1>4, <2>1 DEF Before, Reading
<1>6. CASE ~shut
  <2> DEFINE new == <<Line("TAKE", nextId)>>
  <2>1. msgs' = AddMsg(nextId, <<>>) /\ nextId' = nextId + 1 /\ DownLines' = DownLines \o new
    BY <1>3, <1>6 DEF HandleHello, Tells
  <2>2. /\ nextId \in Nat /\ msgs \in Seq(Message)
        /\ DownLines \in Seq(LineDown) /\ new \in Seq(LineDown)
    BY Replies, LinesAre DEF Ground, TypeOK
  <2>3. AllLate(new) /\ \A j \in DOMAIN new : new[j].id = nextId
    BY DEF AllLate, Late, Line
  <2> HIDE DEF new
  <2>4. LateEnds(DownLines')
    BY <2>1, <2>2, <2>3, LateJoin DEF Before
  <2>5. \A i \in DOMAIN DownLines' : \/ i \in DOMAIN DownLines /\ DownLines'[i] = DownLines[i]
                                     \/ DownLines'[i].id = nextId
    BY <2>1, <2>2, <2>3, LateJoin
  <2>6. /\ FirstIn(msgs', nextId, <<>>)
        /\ \A other, p : other # nextId /\ FirstIn(msgs, other, p) => FirstIn(msgs', other, p)
    <3>1. <<>> \in Seq([key : Keys, val : Vals])
      OBVIOUS
    <3> QED
      BY <2>1, <2>2, <3>1, FirstNew
  <2>7. ASSUME NEW j \in DOMAIN DownLines', DownLines'[j].cmd = "TAKE"
        PROVE  DownLines'[j].id < nextId' /\ FirstIn(msgs', DownLines'[j].id, <<>>)
    <3>1. CASE DownLines'[j].id = nextId
      BY <2>1, <2>2, <2>6, <3>1
    <3>2. CASE j \in DOMAIN DownLines /\ DownLines'[j] = DownLines[j]
      <4>1. DownLines[j] \in LineDown
        BY <2>2, <3>2
      <4>2. DownLines[j].id \in Nat
        BY <2>7, <3>2, <4>1, LineDownIs
      <4>3. DownLines[j].id < nextId /\ FirstIn(msgs, DownLines[j].id, <<>>)
        BY <1>1, <2>7, <3>2 DEF Before
      <4>4. DownLines[j].id # nextId /\ DownLines[j].id < nextId + 1
        BY <2>2, <4>2, <4>3
      <4> QED
        BY <2>1, <2>6, <3>2, <4>3, <4>4
    <3> QED
      BY <2>5, <3>1, <3>2
  <2>8. cli = "idle" => strays > 0 /\ \E lines \in Strays : Greets(lines)
    BY <1>1, <1>2 DEF Before
  <2> QED
    BY <1>1, <1>2, <1>4, <2>4, <2>7, <2>8 DEF Before, Reading
<1> QED
  BY <1>5, <1>6

(* by that with any line,                                                  *)
LEMMA BeforeLine ==
  ASSUME Ground, Before, Open, HandleLine PROVE Before'
<1> DEFINE line == UpLines[1]
<1>1. /\ thread = "drain" /\ UpLines # <<>> /\ UpLines \in Seq(LineUp) /\ Reading
      /\ GreetEnds(UpLines)
  BY FirstUp DEF Before, Reading
<1>2. Ground' /\ UpLines' = Tail(UpLines) /\ LineSteps(line)
  BY HandleLineDoes
<1>3. /\ GreetEnds(UpLines') /\ (Greets(UpLines') => Greets(UpLines))
      /\ AllGreet(UpLines) => AllGreet(UpLines')
  BY <1>1, <1>2, GreetTail
<1>4. /\ UNCHANGED <<cli, strays, shut>> /\ DownLines \in Seq(LineDown)
  BY LinesAre DEF HandleLine, ServerOnly
<1> HIDE DEF line
<1>5. CASE line.cmd = "HELLO"
  BY <1>2, <1>5, BeforeHello DEF line
<1>6. CASE line.cmd # "HELLO" /\ Greeting(line)
  <2>1. /\ UNCHANGED <<msgs, nextId, thread>>
        /\ DownLines' = DownLines \/ DownLines' = DownLines \o <<Response(NotANumber, "ERROR")>>
    BY <1>2, <1>6 DEF LineSteps, Greeting, GoodPair, HandleDummy, HandleUnknown, Tells
  <2>2. CASE DownLines' = DownLines
    BY <1>1, <1>3, <1>4, <2>1, <2>2 DEF Before, Reading
  <2>3. CASE DownLines' = DownLines \o <<Response(NotANumber, "ERROR")>>
    <3> DEFINE new == <<Response(NotANumber, "ERROR")>>
    <3>1. new \in Seq(LineDown) /\ AllLate(new) /\ ~HasTake(new)
      <4>1. new \in Seq(LineDown)
        BY Replies DEF NotANumber
      <4>2. DOMAIN new = {1} /\ new[1].cmd = "RESPONSE" /\ new[1].id = NotANumber
        BY DEF Response
      <4> HIDE DEF new
      <4> QED
        BY <4>1, <4>2 DEF AllLate, Late, HasTake
    <3>6. \A j \in DOMAIN new : new[j].cmd # "TAKE"
      BY <3>1 DEF HasTake
    <3> HIDE DEF new
    <3>2. DownLines' = DownLines \o new
      BY <2>3 DEF new
    <3>3. /\ LateEnds(DownLines') /\ (HasTake(DownLines') => HasTake(DownLines))
          /\ \A i \in DOMAIN DownLines' : \/ i \in DOMAIN DownLines /\ DownLines'[i] = DownLines[i]
                                          \/ \E j \in DOMAIN new : DownLines'[i] = new[j]
      BY <1>4, <3>1, <3>2, LateJoin DEF Before
    <3>4. ASSUME NEW j \in DOMAIN DownLines', DownLines'[j].cmd = "TAKE"
          PROVE  DownLines'[j].id < nextId' /\ FirstIn(msgs', DownLines'[j].id, <<>>)
      <4>1. j \in DOMAIN DownLines /\ DownLines'[j] = DownLines[j]
        BY <3>3, <3>4, <3>6
      <4> QED
        BY <1>1, <2>1, <3>4, <4>1 DEF Before
    <3>5. /\ HasTake(DownLines') => AllGreet(UpLines') /\ thread' \in {"poll", "drain"}
          /\ cli' = "idle" /\ (Greets(UpLines') \/ HasTake(DownLines')) =>
               strays' > 0 /\ \E lines \in Strays : Greets(lines)
      BY <1>1, <1>3, <1>4, <2>1, <3>3 DEF Before
    <3> QED
      BY <1>3, <3>3, <3>4, <3>5 DEF Before
  <2> QED
    BY <2>1, <2>2, <2>3
<1>7. CASE ~Greeting(line)
  <2>1. ~HasTake(DownLines)
    <3>1. ~AllGreet(UpLines)
      BY <1>1, <1>7, TailIs DEF AllGreet, line
    <3> QED
      BY <1>1, <3>1 DEF Before
  <2>2. \/ DownLines' = DownLines
        \/ \E id : DownLines' = DownLines \o <<Response(id, "ERROR")>>
                   /\ <<Response(id, "ERROR")>> \in Seq(LineDown)
    <3>1. line.id \in Int
      BY <1>1, FirstUp, LineUpIs DEF line
    <3>2. \A id \in Int : <<Response(id, "ERROR")>> \in Seq(LineDown)
      BY Replies
    <3>3. \/ DownLines' = DownLines
          \/ \E id \in Int : DownLines' = DownLines \o <<Response(id, "ERROR")>>
      BY <1>2, <1>7, <3>1 DEF LineSteps, Greeting, Tells
    <3> QED
      BY <3>2, <3>3
  <2>3. ~HasTake(DownLines')
    <3>1. CASE DownLines' = DownLines
      BY <2>1, <3>1
    <3>2. ASSUME NEW id, DownLines' = DownLines \o <<Response(id, "ERROR")>>,
                 <<Response(id, "ERROR")>> \in Seq(LineDown)
          PROVE  ~HasTake(DownLines')
      <4>1. ~HasTake(<<Response(id, "ERROR")>>)
        BY DEF HasTake, Response
      <4> QED
        BY <1>4, <2>1, <3>2, <4>1, LateJoin
    <3> QED
      BY <2>2, <3>1, <3>2
  <2> QED
    BY <1>1, <1>3, <1>4, <2>3, BeforeQuiet
<1> QED
  BY <1>5, <1>6, <1>7

(* by the handler and the answer,                                          *)
LEMMA BeforeHandle ==
  ASSUME Ground, Before, Open, Handle \/ Answer PROVE Before'
<1>1. thread \in {"handle", "answer"} /\ Reading /\ ~HasTake(DownLines)
  BY DEF Handle, Answer, Before, Reading
<1>2. UpLines' = UpLines /\ UNCHANGED <<cli, strays>>
  BY HandleDoes, AnswerDoes DEF Handle, Answer, ServerOnly
<1>3. DownLines \in Seq(LineDown)
  BY LinesAre
<1>4. ~HasTake(DownLines')
  <2>1. CASE Handle
    <3>1. PICK o : Handled(o, msgs[FindMsg(current.id)])
      BY <2>1, HandleDoes
    <3> DEFINE new == DataLines(o, msgs[FindMsg(current.id)])
    <3>2. /\ DownLines' = DownLines \/ DownLines' = DownLines \o new
          /\ new \in Seq(LineDown)
      BY <3>1 DEF Handled, Tells
    <3>3. ~HasTake(new)
      BY DEF HasTake, Pair, DataLines
    <3> HIDE DEF new
    <3> QED
      BY <1>1, <1>3, <3>2, <3>3, LateJoin
  <2>2. CASE Answer
    <3> DEFINE new == <<Verdict>>
    <3>1. /\ DownLines' = DownLines \/ DownLines' = DownLines \o new
          /\ new \in Seq(LineDown)
      BY <2>2, AnswerDoes DEF Tells
    <3>2. ~HasTake(new)
      BY DEF HasTake, Verdict, Response
    <3> HIDE DEF new
    <3> QED
      BY <1>1, <1>3, <3>1, <3>2, LateJoin
  <2> QED
    BY <2>1, <2>2
<1> QED
  BY <1>1, <1>2, <1>4, BeforeQuiet DEF Before

(* by the client that asks,                                                *)
LEMMA BeforeAsk ==
  ASSUME Ground, Before, Mistakes = 0, NEW c \in Commands, NEW n \in 0..Mistakes, Ask(c, n),
         cli' # "closed"
  PROVE  Before'
<1> DEFINE new == <<Line("HELLO", NotANumber)>>
<1>1. DownLines' = DownLines /\ UpLines' = UpLines \o new
  BY AskDoes
<1>2. cli' = "take" /\ UNCHANGED <<thread, msgs, nextId, strays>> /\ ~shut /\ cli = "idle"
  BY DEF Ask, ClientIdle, server
<1>3. Reading
  BY <1>2 DEF Ground, ThreadInv, Open
<1>4. UpLines \in Seq(LineUp) /\ new \in Seq(LineUp)
  BY <1>3, LinesAre, OwnLines
<1>5. AllGreet(new) /\ GreetEnds(new)
  <2>1. DOMAIN new = {1} /\ new[1].cmd = "HELLO"
    BY DEF Line
  <2> HIDE DEF new
  <2> QED
    BY <2>1 DEF AllGreet, GreetEnds, Greeting
<1> HIDE DEF new
<1>6. GreetEnds(UpLines') /\ (AllGreet(UpLines) => AllGreet(UpLines'))
  BY <1>1, <1>3, <1>4, <1>5, GreetJoin DEF Before
<1> QED
  BY <1>1, <1>2, <1>3, <1>6 DEF Before, Reading

(* and by one that sends stray lines.                                      *)
LEMMA BeforeStray ==
  ASSUME Ground, Before, NEW lines \in Strays, Stray(lines) PROVE Before'
<1>1. DownLines' = DownLines /\ UpLines' = UpLines \o lines
  BY StrayDoes
<1>2. /\ UNCHANGED <<thread, msgs, nextId, cli>> /\ ~shut /\ cli = "idle"
      /\ strays \in Nat /\ strays' = strays + 1 /\ strays < MaxStrays /\ MaxStrays \in Nat
  BY ConstAssumption DEF Stray, ClientIdle, server, Ground, TypeOK
<1>3. Reading
  BY <1>2 DEF Ground, ThreadInv, Open
<1>4. UpLines \in Seq(LineUp) /\ lines \in Seq(LineUp)
  BY <1>3, LinesAre, OwnLines
<1>5. GreetEnds(lines)
  BY StraysAssumption DEF GreetEnds
<1>6. ASSUME Greets(UpLines) \/ HasTake(DownLines) PROVE AllGreet(lines)
  <2>1. strays > 0 /\ \E b \in Strays : Greets(b)
    BY <1>2, <1>3, <1>6 DEF Before
  <2>2. MaxStrays > 1
    BY <1>2, <2>1
  <2>3. \A line \in StrayLines : Greeting(line)
    BY <2>1, <2>2, StraysAssumption
  <2>4. \A i \in DOMAIN lines : lines[i] \in StrayLines
    BY DEF StrayLines
  <2> QED
    BY <2>3, <2>4 DEF AllGreet
<1>7. /\ GreetEnds(UpLines') /\ (AllGreet(UpLines) /\ AllGreet(lines) => AllGreet(UpLines'))
      /\ Greets(UpLines') => Greets(UpLines) \/ Greets(lines)
  BY <1>1, <1>3, <1>4, <1>5, <1>6, GreetJoin DEF Before
<1>8. strays' > 0
  BY <1>2
<1>9. Greets(UpLines') \/ HasTake(DownLines') => \E b \in Strays : Greets(b)
  BY <1>1, <1>2, <1>3, <1>7 DEF Before
<1> QED
  BY <1>1, <1>2, <1>3, <1>6, <1>7, <1>8, <1>9 DEF Before, Reading

-----------------------------------------------------------------------------
(* The request on its way: the k lines of it that are sent, less the p     *)
(* that have been added to the message, are the last of the lines.         *)
Script(r, id, q) ==
  IF q <= Len(r) THEN Pair("PAIR", id, r[q].key, r[q].val) ELSE Line("DONE", id)
Scripted(r, id, u, p, k) ==
  /\ k - p <= Len(u)
  /\ \A i \in DOMAIN u : IF k - Len(u) + i <= p THEN Greeting(u[i])
                                               ELSE u[i] = Script(r, id, k - Len(u) + i)
Underway(r, id, u, list, k) ==
  \E p \in 0..Len(r) : /\ p <= k /\ Scripted(r, id, u, p, k)
                       /\ FirstIn(list, id, SubSeq(r, 1, p))

(* The request is under way line by line: one more is sent,                *)
LEMMA ScriptedMore ==
  ASSUME NEW r, NEW id, NEW u \in Seq(LineUp), NEW p \in Nat, NEW k \in Nat,
         Scripted(r, id, u, p, k), p <= k,
         <<Script(r, id, k + 1)>> \in Seq(LineUp)
  PROVE  Scripted(r, id, u \o <<Script(r, id, k + 1)>>, p, k + 1)
<1> DEFINE x == Script(r, id, k + 1)
           t == <<x>>
<1>1. t \in Seq(LineUp) /\ Len(t) = 1 /\ DOMAIN t = {1} /\ t[1] = x
  OBVIOUS
<1> HIDE DEF t, x
<1> DEFINE v == u \o t
           n == Len(u)
<1>2. /\ Len(v) = n + 1 /\ n \in Nat
      /\ \A i \in DOMAIN v :
           \/ i \in DOMAIN u /\ v[i] = u[i]
           \/ i \notin DOMAIN u /\ i \in Nat /\ i > n /\ i - n \in DOMAIN t /\ v[i] = t[i - n]
  <2>1. /\ Len(u \o t) = Len(u) + Len(t) /\ Len(u) \in Nat
        /\ \A i \in DOMAIN (u \o t) :
             \/ i \in DOMAIN u /\ (u \o t)[i] = u[i]
             \/ /\ i \notin DOMAIN u /\ i \in Nat /\ i > Len(u) /\ i - Len(u) \in DOMAIN t
                /\ (u \o t)[i] = t[i - Len(u)]
    BY <1>1, JoinIs
  <2> QED
    BY <1>1, <2>1
<1>3. DOMAIN u = 1..n
  OBVIOUS
<1> HIDE DEF v, n
<1>4. k + 1 - p <= Len(v) /\ k - p <= n
  BY <1>2 DEF Scripted, n
<1>5. ASSUME NEW i \in DOMAIN v
      PROVE  IF k + 1 - Len(v) + i <= p THEN Greeting(v[i])
             ELSE v[i] = Script(r, id, k + 1 - Len(v) + i)
  <2>1. CASE i \in DOMAIN u /\ v[i] = u[i]
    <3>1. k + 1 - Len(v) + i = k - n + i
      BY <1>2, <1>3, <2>1
    <3>2. IF k - n + i <= p THEN Greeting(u[i]) ELSE u[i] = Script(r, id, k - n + i)
      BY <2>1 DEF Scripted, n
    <3> QED
      BY <2>1, <3>1, <3>2
  <2>2. CASE i > n /\ i \in Nat /\ i - n \in DOMAIN t /\ v[i] = t[i - n]
    <3>1. i = n + 1 /\ v[i] = x
      BY <1>1, <1>2, <2>2
    <3>2. k + 1 - Len(v) + i = k + 1 /\ ~(k + 1 <= p)
      BY <1>2, <3>1
    <3> QED
      BY <3>1, <3>2 DEF x
  <2> QED
    BY <1>2, <2>1, <2>2
<1>6. Scripted(r, id, v, p, k + 1)
  BY <1>4, <1>5 DEF Scripted
<1> QED
  BY <1>6 DEF v, t, x

(* and one is read, which is the next of it or a line that leaves it       *)
(* alone.                                                                  *)
LEMMA ScriptedLess ==
  ASSUME NEW r, NEW id, NEW u \in Seq(LineUp), u # <<>>, NEW p \in Nat, NEW k \in Nat,
         Scripted(r, id, u, p, k), p <= k
  PROVE  \/ Greeting(u[1]) /\ Scripted(r, id, Tail(u), p, k)
         \/ /\ k - Len(u) + 1 = p + 1 /\ p + 1 <= k /\ u[1] = Script(r, id, p + 1)
            /\ Scripted(r, id, Tail(u), p + 1, k)
<1> DEFINE t == Tail(u)
           n == Len(u)
<1>1. /\ Len(t) = n - 1 /\ n \in Nat /\ 1 \in DOMAIN u /\ n >= 1
      /\ \A i \in DOMAIN t : i \in Nat \ {0} /\ i + 1 \in DOMAIN u /\ t[i] = u[i + 1]
  BY TailIs
<1> HIDE DEF t, n
<1>2. k - p <= n /\ \A i \in DOMAIN u : IF k - n + i <= p THEN Greeting(u[i])
                                                          ELSE u[i] = Script(r, id, k - n + i)
  BY DEF Scripted, n
<1>3. ASSUME NEW i \in DOMAIN t
      PROVE  /\ k - Len(t) + i = k - n + (i + 1)
             /\ IF k - Len(t) + i <= p THEN Greeting(t[i]) ELSE t[i] = Script(r, id, k - Len(t) + i)
  <2> DEFINE h == i + 1
  <2>1. h \in DOMAIN u /\ t[i] = u[h] /\ k - Len(t) + i = k - n + h
    BY <1>1
  <2> HIDE DEF h
  <2>2. IF k - Len(t) + i <= p THEN Greeting(t[i]) ELSE t[i] = Script(r, id, k - Len(t) + i)
    BY <1>2, <2>1
  <2> QED
    BY <2>1, <2>2 DEF h
<1>4. CASE k - n + 1 <= p
  <2>1. Greeting(u[1]) /\ k - p <= Len(t)
    BY <1>1, <1>2, <1>4
  <2>2. Scripted(r, id, t, p, k)
    BY <1>3, <2>1 DEF Scripted
  <2> QED
    BY <2>1, <2>2 DEF t
<1>5. CASE k - n + 1 > p
  <2>1. k - n + 1 = p + 1 /\ k - n = p
    BY <1>1, <1>2, <1>5
  <2>2. u[1] = Script(r, id, p + 1)
    <3>1. ~(k - n + 1 <= p)
      BY <1>1, <1>5
    <3> QED
      BY <1>1, <1>2, <2>1, <3>1
  <2>3. k - (p + 1) <= Len(t) /\ p + 1 <= k
    BY <1>1, <2>1
  <2>4. ASSUME NEW i \in DOMAIN t
        PROVE  IF k - Len(t) + i <= p + 1 THEN Greeting(t[i])
               ELSE t[i] = Script(r, id, k - Len(t) + i)
    <3>1. k - Len(t) + i > p + 1
      <4>1. i \in Nat \ {0} /\ k - Len(t) + i = k - n + (i + 1)
        BY <1>1, <1>3
      <4> QED
        BY <2>1, <4>1
    <3>2. ~(k - Len(t) + i <= p) /\ ~(k - Len(t) + i <= p + 1)
      <4>1. k - Len(t) + i \in Int
        BY <1>1
      <4> QED
        BY <3>1, <4>1
    <3> QED
      BY <1>3, <3>2
  <2>5. Scripted(r, id, t, p + 1, k)
    BY <2>3, <2>4 DEF Scripted
  <2> QED
    BY <2>1, <2>2, <2>3, <2>5 DEF t, n
<1> QED
  BY <1>1, <1>4, <1>5

(* A line that does not name the request is handled and leaves it alone.   *)
LEMMA GreetingLine ==
  ASSUME Ground, Open, HandleLine, Greeting(UpLines[1]), myId \in Nat, myId < nextId
  PROVE  /\ thread' = "drain" /\ myId < nextId'
         /\ AllLate(DownLines) => AllLate(DownLines')
         /\ \A p : FirstIn(msgs, myId, p) => FirstIn(msgs', myId, p)
<1> DEFINE line == UpLines[1]
<1>1. /\ thread = "drain" /\ nextId \in Nat /\ msgs \in Seq(Message)
      /\ DownLines \in Seq(LineDown) /\ LineSteps(line)
  BY FirstUp, LinesAre, HandleLineDoes DEF Ground, TypeOK
<1> HIDE DEF line
<1>2. CASE line.cmd = "HELLO"
  <2> DEFINE new == <<Line("TAKE", nextId)>>
  <2>1. HandleHello /\ Tells(new)
    BY <1>1, <1>2 DEF LineSteps, GoodPair
  <2>2. new \in Seq(LineDown) /\ AllLate(new)
    <3>1. new \in Seq(LineDown)
      BY <1>1, Replies
    <3>2. DOMAIN new = {1} /\ new[1].cmd = "TAKE"
      BY DEF Line
    <3> HIDE DEF new
    <3> QED
      BY <3>1, <3>2 DEF AllLate, Late
  <2> HIDE DEF new
  <2>3. AllLate(DownLines) => AllLate(DownLines')
    BY <1>1, <2>1, <2>2, LateJoin DEF Tells
  <2>4. CASE shut \/ ~Open
    BY <1>1, <2>1, <2>3, <2>4 DEF HandleHello
  <2>5. CASE ~(shut \/ ~Open)
    <3>1. msgs' = AddMsg(nextId, <<>>) /\ nextId' = nextId + 1 /\ thread' = thread
      BY <2>1, <2>5 DEF HandleHello
    <3>2. \A p : FirstIn(msgs, myId, p) => FirstIn(AddMsg(nextId, <<>>), myId, p)
      <4>1. <<>> \in Seq([key : Keys, val : Vals]) /\ myId # nextId
        BY <1>1
      <4> QED
        BY <1>1, <4>1, FirstNew
    <3> QED
      BY <1>1, <2>3, <3>1, <3>2
  <2> QED
    BY <2>4, <2>5
<1>3. CASE line.cmd # "HELLO"
  <2>1. /\ UNCHANGED <<msgs, nextId, thread>>
        /\ DownLines' = DownLines \/ DownLines' = DownLines \o <<Response(NotANumber, "ERROR")>>
    <3>1. Greeting(line)
      BY DEF line
    <3> QED
      BY <1>1, <1>3, <3>1 DEF LineSteps, Greeting, GoodPair, HandleDummy, HandleUnknown, Tells
  <2> DEFINE new == <<Response(NotANumber, "ERROR")>>
  <2>2. new \in Seq(LineDown) /\ AllLate(new)
    <3>1. new \in Seq(LineDown)
      BY Replies DEF NotANumber
    <3>2. DOMAIN new = {1} /\ new[1].cmd = "RESPONSE" /\ new[1].id = NotANumber
      BY DEF Response
    <3> HIDE DEF new
    <3> QED
      BY <3>1, <3>2 DEF AllLate, Late
  <2>3. DownLines' = DownLines \/ DownLines' = DownLines \o new
    BY <2>1
  <2> HIDE DEF new
  <2>4. AllLate(DownLines) => AllLate(DownLines')
    BY <1>1, <2>2, <2>3, LateJoin
  <2> QED
    BY <1>1, <2>1, <2>4
<1> QED
  BY <1>2, <1>3

(* The next pair of the request is added to its message.                   *)
LEMMA OwnPair ==
  ASSUME Ground, Open, HandleLine, myId \in Nat, NEW p \in 0..Len(R) - 1,
         UpLines[1] = Script(R, myId, p + 1), FirstIn(msgs, myId, SubSeq(R, 1, p))
  PROVE  /\ thread' = "drain" /\ nextId' = nextId /\ DownLines' = DownLines
         /\ FirstIn(msgs', myId, SubSeq(R, 1, p + 1))
<1> DEFINE line == UpLines[1]
           h == p + 1
           pr == [key |-> R[h].key, val |-> R[h].val]
<1>1. /\ thread = "drain" /\ msgs \in Seq(Message) /\ LineSteps(line) /\ line \in LineUp
  BY FirstUp, HandleLineDoes DEF Ground
<1>2. /\ h \in 1..Len(R) /\ Len(R) \in Nat
      /\ R \in Seq([key : {"action", "id"}, val : {request.cmd, "w"}])
  BY RequestIs DEF R
<1>3. R[h] \in [key : {"action", "id"}, val : {request.cmd, "w"}] /\ pr = R[h]
  <2> DEFINE P == [key : {"action", "id"}, val : {request.cmd, "w"}]
  <2>1. R \in Seq(P) /\ h \in 1..Len(R)
    BY <1>2
  <2> HIDE DEF P, h
  <2>2. R[h] \in P
    BY <2>1
  <2> QED
    BY <2>2 DEF P, h
<1>4. line = Pair("PAIR", myId, R[h].key, R[h].val)
  BY <1>2 DEF Script
<1> HIDE DEF line
<1>5. /\ line.cmd = "PAIR" /\ line.id = myId /\ [key |-> line.key, val |-> line.val] = pr
      /\ GoodPair(line) /\ line.key # "bad"
  BY <1>3, <1>4 DEF Pair, GoodPair
<1>6. pr \in [key : Keys, val : Vals]
  BY <1>1, <1>5, LineUpIs
<1>7. HandlePair(line) /\ DownLines' = DownLines
  BY <1>1, <1>5 DEF LineSteps
<1>8. Known(myId)
  BY <1>1, FirstFound
<1> HIDE DEF pr
<1>9. /\ UNCHANGED <<nextId, thread>>
      /\ msgs' = [msgs EXCEPT ![FindMsg(myId)].pairs = Append(@, pr)]
  BY <1>5, <1>7, <1>8 DEF HandlePair
<1>10. FirstIn(msgs', myId, Append(SubSeq(R, 1, p), pr))
  BY <1>1, <1>6, <1>9, FirstGrown
<1>11. Append(SubSeq(R, 1, p), pr) = SubSeq(R, 1, h)
  <2> DEFINE P == [key : {"action", "id"}, val : {request.cmd, "w"}]
  <2>1. R \in Seq(P) /\ R[h] = pr /\ p \in 0..Len(R) - 1
    BY <1>2, <1>3
  <2> HIDE DEF P
  <2>2. p \in 0..Len(R) /\ pr \in P /\ h \in 0..Len(R) /\ p \in Nat /\ h = p + 1
    BY <1>2, <2>1
  <2> HIDE DEF h
  <2> DEFINE b == SubSeq(R, 1, p)
             c == SubSeq(R, 1, h)
  <2>3. b \in Seq(P) /\ Len(b) = p /\ \A k \in 1..p : b[k] = R[k]
    BY <2>1, <2>2, Halves
  <2>4. c \in Seq(P) /\ Len(c) = h /\ \A k \in 1..h : c[k] = R[k]
    BY <2>1, <2>2, Halves
  <2> HIDE DEF b, c
  <2>5. /\ Append(b, pr) \in Seq(P) /\ Len(Append(b, pr)) = h /\ Append(b, pr)[h] = pr
        /\ \A k \in 1..p : Append(b, pr)[k] = b[k]
    BY <2>2, <2>3
  <2>6. \A k \in 1..h : Append(b, pr)[k] = c[k]
    <3> TAKE k \in 1..h
    <3>1. k \in 1..p \/ k = h
      BY <2>2
    <3> QED
      BY <2>1, <2>3, <2>4, <2>5, <3>1
  <2> DEFINE a == Append(b, pr)
  <2>7. a \in Seq(P) /\ Len(a) = h /\ \A k \in 1..h : a[k] = c[k]
    BY <2>5, <2>6
  <2> HIDE DEF a
  <2>8. a = c
    BY <2>4, <2>7
  <2> QED
    BY <2>8 DEF a, b, c
<1> QED
  BY <1>1, <1>7, <1>9, <1>10, <1>11

(* And its DONE has it handled.                                            *)
LEMMA OwnDone ==
  ASSUME Ground, Open, HandleLine, myId \in Nat, UpLines[1] = Script(R, myId, Len(R) + 1),
         FirstIn(msgs, myId, R)
  PROVE  /\ thread' = "handle" /\ current' = [id |-> myId] /\ nextId' = nextId
         /\ DownLines' = DownLines /\ FirstIn(msgs', myId, R)
<1> DEFINE line == UpLines[1]
<1>1. msgs \in Seq(Message) /\ LineSteps(line)
  BY HandleLineDoes DEF Ground
<1>2. Len(R) \in Nat /\ ~(Len(R) + 1 <= Len(R))
  BY RequestIs DEF R
<1>3. line = Line("DONE", myId)
  BY <1>2 DEF Script
<1> HIDE DEF line
<1>4. line.cmd = "DONE" /\ line.id = myId
  BY <1>3 DEF Line
<1>5. Known(myId)
  BY <1>1, FirstFound
<1>6. HandleDone(line) /\ DownLines' = DownLines
  BY <1>1, <1>4, <1>5 DEF LineSteps, GoodPair
<1> QED
  BY <1>4, <1>5, <1>6 DEF HandleDone

(* While a request is under way, the server goes on with it line by line.  *)
LEMMA UnderwayLine ==
  ASSUME Ground, Open, HandleLine, myId \in Nat, myId < nextId, AllLate(DownLines)
  PROVE  \A k \in 0..Len(R) + 1 : Underway(R, myId, UpLines, msgs, k) =>
           /\ AllLate(DownLines') /\ myId < nextId'
           /\ \/ thread' = "drain" /\ Underway(R, myId, UpLines', msgs', k)
              \/ /\ k = Len(R) + 1 /\ thread' = "handle" /\ current' = [id |-> myId]
                 /\ UpLines' = <<>> /\ FirstIn(msgs', myId, R)
<1>1. /\ UpLines # <<>> /\ UpLines \in Seq(LineUp) /\ UpLines' = Tail(UpLines)
      /\ LineSteps(UpLines[1])
  BY FirstUp, HandleLineDoes
<1>2. Len(R) \in Nat /\ SubSeq(R, 1, Len(R)) = R
  <2>1. R \in Seq([key : {"action", "id"}, val : {request.cmd, "w"}]) /\ Len(R) \in Nat
    BY RequestIs DEF R
  <2> QED
    BY <2>1, WholeAndRest
<1>3. ASSUME NEW k \in 0..Len(R) + 1, Underway(R, myId, UpLines, msgs, k)
      PROVE  /\ AllLate(DownLines') /\ myId < nextId'
             /\ \/ thread' = "drain" /\ Underway(R, myId, UpLines', msgs', k)
                \/ /\ k = Len(R) + 1 /\ thread' = "handle" /\ current' = [id |-> myId]
                   /\ UpLines' = <<>> /\ FirstIn(msgs', myId, R)
  <2>1. PICK p \in 0..Len(R) : /\ p <= k /\ Scripted(R, myId, UpLines, p, k)
                               /\ FirstIn(msgs, myId, SubSeq(R, 1, p))
    BY <1>3 DEF Underway
  <2>2. p \in Nat /\ k \in Nat
    BY <1>2
  <2>3. CASE Greeting(UpLines[1]) /\ Scripted(R, myId, Tail(UpLines), p, k)
    <3>1. Scripted(R, myId, UpLines', p, k)
      BY <1>1, <2>3
    <3>2. /\ thread' = "drain" /\ myId < nextId' /\ AllLate(DownLines')
          /\ FirstIn(msgs', myId, SubSeq(R, 1, p))
      BY <2>1, <2>3, GreetingLine
    <3> QED
      BY <2>1, <3>1, <3>2 DEF Underway
  <2>4. CASE /\ k - Len(UpLines) + 1 = p + 1 /\ p + 1 <= k /\ UpLines[1] = Script(R, myId, p + 1)
             /\ Scripted(R, myId, Tail(UpLines), p + 1, k)
    <3>1. CASE p \in 0..Len(R) - 1
      <4>1. /\ thread' = "drain" /\ nextId' = nextId /\ DownLines' = DownLines
            /\ FirstIn(msgs', myId, SubSeq(R, 1, p + 1))
        BY <2>1, <2>4, <3>1, OwnPair
      <4> DEFINE h == p + 1
      <4>2. /\ h \in 0..Len(R) /\ h <= k /\ Scripted(R, myId, UpLines', h, k)
            /\ FirstIn(msgs', myId, SubSeq(R, 1, h))
        BY <1>1, <1>2, <2>4, <3>1, <4>1
      <4> HIDE DEF h
      <4>3. Underway(R, myId, UpLines', msgs', k)
        BY <4>2 DEF Underway
      <4> QED
        BY <4>1, <4>3
    <3>2. CASE p = Len(R)
      <4>1. UpLines[1] = Script(R, myId, Len(R) + 1) /\ FirstIn(msgs, myId, R)
        BY <1>2, <2>1, <2>4, <3>2
      <4>2. /\ thread' = "handle" /\ current' = [id |-> myId] /\ nextId' = nextId
            /\ DownLines' = DownLines /\ FirstIn(msgs', myId, R)
        BY <4>1, OwnDone
      <4>3. k = Len(R) + 1 /\ Len(UpLines) = 1
        <5>1. Len(UpLines) \in Nat /\ k \in Nat /\ k <= Len(R) + 1
          BY <1>1, <1>2, <1>3
        <5>2. Len(R) + 1 <= k /\ k - Len(UpLines) + 1 = Len(R) + 1
          BY <2>4, <3>2
        <5> DEFINE n == Len(UpLines)
                   r == Len(R)
        <5>3. n \in Nat /\ k \in Nat /\ r \in Nat /\ k <= r + 1 /\ r + 1 <= k /\ k - n + 1 = r + 1
          BY <1>2, <5>1, <5>2
        <5> HIDE DEF n, r
        <5>4. k = r + 1 /\ n = 1
          BY <5>3
        <5> QED
          BY <5>4 DEF n, r
      <4>4. UpLines' = <<>>
        BY <1>1, <4>3
      <4> QED
        BY <4>2, <4>3, <4>4
    <3>3. p \in 0..Len(R) - 1 \/ p = Len(R)
      <4> DEFINE r == Len(R)
      <4>1. r \in Nat /\ p \in 0..r
        BY <1>2
      <4> HIDE DEF r
      <4>2. p \in 0..r - 1 \/ p = r
        BY <4>1
      <4> QED
        BY <4>2 DEF r
    <3> QED
      BY <3>1, <3>2, <3>3
  <2> QED
    BY <1>1, <2>1, <2>2, <2>3, <2>4, ScriptedLess
<1> QED
  BY <1>3

-----------------------------------------------------------------------------
(* The answer on its way: what the client has of the data, and what is     *)
(* still to come, behind what came before it.                              *)
Told(id, w, got, data) ==
  /\ Len(got) <= Len(data) /\ Len(data) - Len(got) <= Len(w)
  /\ \A q \in DOMAIN got : got[q] = data[q]
  /\ \A j \in DOMAIN w :
       IF Len(data) - Len(w) + j <= Len(got) THEN Late(w[j])
       ELSE w[j] = Pair("RESPDATA", id, data[Len(data) - Len(w) + j].key,
                                          data[Len(data) - Len(w) + j].val)

(* All of the answer is under way when the server has sent it,             *)
LEMMA ToldStart ==
  ASSUME NEW id, NEW w \in Seq(LineDown), AllLate(w), NEW data \in Seq(Data),
         NEW dl \in Seq(LineDown), Len(dl) = Len(data),
         \A i \in DOMAIN dl : dl[i] = Pair("RESPDATA", id, data[i].key, data[i].val)
  PROVE  Told(id, w \o dl, <<>>, data)
<1> DEFINE n == Len(w)
           k == Len(data)
<1>1. /\ Len(w \o dl) = n + k /\ n \in Nat
      /\ \A i \in DOMAIN (w \o dl) :
           \/ i \in DOMAIN w /\ (w \o dl)[i] = w[i]
           \/ /\ i \notin DOMAIN w /\ i \in Nat /\ i > n /\ i - n \in DOMAIN dl
              /\ (w \o dl)[i] = dl[i - n]
  <2>1. w \in Seq(LineDown) /\ dl \in Seq(LineDown)
    OBVIOUS
  <2>2. /\ Len(w \o dl) = Len(w) + Len(dl) /\ Len(w) \in Nat
        /\ \A i \in DOMAIN (w \o dl) :
             \/ i \in DOMAIN w /\ (w \o dl)[i] = w[i]
             \/ /\ i \notin DOMAIN w /\ i \in Nat /\ i > Len(w) /\ i - Len(w) \in DOMAIN dl
                /\ (w \o dl)[i] = dl[i - Len(w)]
    BY ONLY <2>1, JoinIs
  <2> QED
    BY <2>2
<1>2. k \in Nat /\ DOMAIN w = 1..n
  OBVIOUS
<1> DEFINE v == w \o dl
<1>3. /\ Len(v) = n + k
      /\ \A i \in DOMAIN v :
           \/ i \in DOMAIN w /\ v[i] = w[i]
           \/ i \notin DOMAIN w /\ i \in Nat /\ i > n /\ i - n \in DOMAIN dl /\ v[i] = dl[i - n]
  BY <1>1
<1> HIDE DEF v, n
<1>4. ASSUME NEW j \in DOMAIN v
      PROVE  IF k - Len(v) + j <= 0 THEN Late(v[j])
             ELSE v[j] = Pair("RESPDATA", id, data[k - Len(v) + j].key, data[k - Len(v) + j].val)
  <2>1. CASE j \in DOMAIN w /\ v[j] = w[j]
    <3>1. k - Len(v) + j <= 0
      BY <1>1, <1>2, <1>3, <2>1
    <3> QED
      BY <2>1, <3>1 DEF AllLate
  <2>2. CASE j \in Nat /\ j > n /\ j - n \in DOMAIN dl /\ v[j] = dl[j - n]
    <3> DEFINE h == j - n
    <3>1. k - Len(v) + j = h /\ ~(h <= 0)
      BY <1>1, <1>2, <1>3, <2>2
    <3>2. v[j] = dl[h] /\ h \in DOMAIN dl
      BY <2>2
    <3> HIDE DEF h
    <3>3. v[j] = Pair("RESPDATA", id, data[h].key, data[h].val)
      BY <3>2
    <3> QED
      BY <3>1, <3>3
  <2> QED
    BY <1>3, <2>1, <2>2
<1>5. Len(<<>>) = 0 /\ DOMAIN <<>> = {} /\ 0 <= k /\ k - 0 <= Len(v)
  BY <1>1, <1>2, <1>3
<1>6. Told(id, v, <<>>, data)
  BY <1>4, <1>5 DEF Told
<1> QED
  BY <1>6 DEF v

(* and the client reads the next of it, or a line it does not count.       *)
LEMMA ToldTail ==
  ASSUME NEW id, NEW w \in Seq(LineDown), w # <<>>, NEW got \in Seq(Data), NEW data \in Seq(Data),
         Told(id, w, got, data)
  PROVE  \/ Late(w[1]) /\ Told(id, Tail(w), got, data)
         \/ /\ w[1].cmd = "RESPDATA"
            /\ Told(id, Tail(w), Append(got, Datum(w[1].key, w[1].val)), data)
<1> DEFINE t == Tail(w)
           n == Len(w)
           k == Len(data)
           p == Len(got)
<1>1. /\ Len(t) = n - 1 /\ n \in Nat /\ 1 \in DOMAIN w /\ n >= 1
      /\ \A i \in DOMAIN t : i \in Nat \ {0} /\ i + 1 \in DOMAIN w /\ t[i] = w[i + 1]
  BY TailIs
<1>2. k \in Nat /\ p \in Nat /\ DOMAIN got = 1..p /\ DOMAIN data = 1..k
  OBVIOUS
<1>3. /\ p <= k /\ k - p <= n /\ \A q \in DOMAIN got : got[q] = data[q]
      /\ \A j \in DOMAIN w : IF k - n + j <= p THEN Late(w[j])
           ELSE w[j] = Pair("RESPDATA", id, data[k - n + j].key, data[k - n + j].val)
  BY DEF Told
<1> HIDE DEF t, n, k, p
<1>4. ASSUME NEW i \in DOMAIN t
      PROVE  /\ k - Len(t) + i = k - n + (i + 1) /\ i \in Nat \ {0}
             /\ IF k - Len(t) + i <= p THEN Late(t[i])
                ELSE t[i] = Pair("RESPDATA", id, data[k - Len(t) + i].key, data[k - Len(t) + i].val)
  <2> DEFINE h == i + 1
             q == k - n + h
  <2>1. h \in DOMAIN w /\ t[i] = w[h] /\ k - Len(t) + i = q
    BY <1>1, <1>2
  <2>2. IF q <= p THEN Late(w[h])
        ELSE w[h] = Pair("RESPDATA", id, data[q].key, data[q].val)
    BY <1>3, <2>1
  <2> HIDE DEF h, q
  <2>3. IF k - Len(t) + i <= p THEN Late(t[i])
        ELSE t[i] = Pair("RESPDATA", id, data[k - Len(t) + i].key, data[k - Len(t) + i].val)
    BY <2>1, <2>2
  <2> QED
    BY <1>1, <2>1, <2>3 DEF h, q
<1>5. CASE k - n + 1 <= p
  <2>1. Late(w[1]) /\ k - p <= Len(t)
    BY <1>1, <1>2, <1>3, <1>5
  <2>2. Told(id, t, got, data)
    BY <1>3, <1>4, <2>1 DEF Told, k, p
  <2> QED
    BY <2>1, <2>2 DEF t
<1>6. CASE ~(k - n + 1 <= p)
  <2> DEFINE h == p + 1
             d == data[h]
             more == Append(got, d)
  <2>1. k - n + 1 = h /\ k - n = p /\ h <= k /\ k - h <= Len(t) /\ h \in 1..k
    BY <1>1, <1>2, <1>3, <1>6
  <2>2. w[1] = Pair("RESPDATA", id, data[h].key, data[h].val)
    <3>1. w[1] = Pair("RESPDATA", id, data[k - n + 1].key, data[k - n + 1].val)
      BY <1>1, <1>3, <1>6
    <3> QED
      BY <2>1, <3>1
  <2> HIDE DEF h
  <2>3. d \in Data
    BY <1>2, <2>1
  <2>4. w[1].cmd = "RESPDATA" /\ Datum(w[1].key, w[1].val) = d
    <3>1. d = [key |-> d.key, val |-> d.val]
      BY <2>3 DEF Data
    <3> QED
      BY <2>2, <3>1 DEF Pair, Datum
  <2>5. /\ Len(more) = h /\ DOMAIN more = 1..h /\ more[h] = d
        /\ \A q \in 1..p : more[q] = got[q]
    BY <1>2, <2>3 DEF p, h
  <2> HIDE DEF d, more
  <2>6. \A q \in DOMAIN more : more[q] = data[q]
    <3> TAKE q \in DOMAIN more
    <3>1. q \in 1..p \/ q = h
      BY <1>2, <2>5 DEF h
    <3> QED
      BY <1>2, <1>3, <2>5, <3>1 DEF d
  <2>7. ASSUME NEW i \in DOMAIN t
        PROVE  IF k - Len(t) + i <= h THEN Late(t[i])
               ELSE t[i] = Pair("RESPDATA", id, data[k - Len(t) + i].key, data[k - Len(t) + i].val)
    <3>1. i \in Nat \ {0} /\ k - Len(t) + i = k - n + (i + 1)
      BY <1>4
    <3>2. ~(k - Len(t) + i <= h) /\ ~(k - Len(t) + i <= p)
      <4>1. k - n + (i + 1) > p + 1
        BY <1>1, <1>2, <2>1, <3>1
      <4> QED
        BY <1>1, <1>2, <3>1, <4>1 DEF h
    <3> QED
      BY <1>4, <3>2
  <2>8. Told(id, t, more, data)
    BY <2>1, <2>5, <2>6, <2>7 DEF Told, k
  <2> QED
    BY <2>4, <2>8 DEF t, more
<1> QED
  BY <1>5, <1>6

-----------------------------------------------------------------------------
(* The client sends its request; it has sent it, and waits for the answer  *)
(* or has it on its way.                                                   *)
Pairs ==
  /\ myId < nextId /\ AllLate(DownLines) /\ thread \in {"poll", "drain", "gone"}
  /\ Reading => Underway(R, myId, UpLines, msgs, Len(R) - Len(request.left))

Waiting ==
  /\ served = None /\ resp = <<>> /\ AllLate(DownLines)
  /\ \/ thread \in {"poll", "drain"} /\ Underway(R, myId, UpLines, msgs, Len(R) + 1)
     \/ thread = "handle" /\ current.id = myId /\ UpLines = <<>> /\ FirstIn(msgs, myId, R)
     \/ thread = "gone"

IsFinal(line) == line.cmd = "RESPONSE" /\ line.id \in {myId, 0}
NoFinal == \A j \in DOMAIN DownLines : ~IsFinal(DownLines[j])
Final   == Response(myId, IF served.ok THEN "OK" ELSE "ERROR")
Arrives == \E w \in Seq(LineDown) : DownLines = w \o <<Final>> /\ Told(myId, w, resp, served.data)
Served ==
  /\ \E o \in Outcomes(R) : served = [pairs |-> R, ok |-> o.ok, data |-> o.data]
  /\ Reading => UpLines = <<>>
  /\ \/ /\ thread = "answer" /\ current = [id |-> myId, ok |-> served.ok]
        /\ NoFinal /\ (~shut => Told(myId, DownLines, resp, served.data))
     \/ /\ thread \in {"poll", "drain", "gone"}
        /\ Arrives \/ (shut /\ NoFinal)

Reply == myId < nextId /\ (Waiting \/ Served)

IpcInv ==
  /\ Ground
  /\ cli \in {"idle", "take"} => Before
  /\ cli = "pairs" => Pairs
  /\ cli = "reply" => Reply

-----------------------------------------------------------------------------
(* Every step keeps the invariant: those of an idle client,                *)
LEMMA BrokenKeeps == ASSUME Ground', cli' = "closed" PROVE IpcInv'
BY DEF IpcInv

LEMMA StartsKeep == ASSUME IpcInv, Mistakes = 0, ClientStarts PROVE IpcInv'
<1>1. ASSUME NEW c \in Commands, NEW n \in 0..Mistakes, Ask(c, n) PROVE IpcInv'
  <2>1. cli = "idle" /\ cli' \in {"take", "closed"} /\ Before /\ Ground
    BY <1>1 DEF Ask, ClientIdle, IpcInv
  <2>2. Ground'
    BY <1>1, <2>1, AskDoes
  <2>3. cli' = "take" => Before'
    BY <1>1, <2>1, BeforeAsk
  <2> QED
    BY <2>1, <2>2, <2>3 DEF IpcInv
<1>2. ASSUME NEW lines \in Strays, Stray(lines) PROVE IpcInv'
  <2>1. cli = "idle" /\ cli' = "idle" /\ Before /\ Ground
    BY <1>2 DEF Stray, ClientIdle, IpcInv
  <2>2. Ground' /\ Before'
    BY <1>2, <2>1, StrayDoes, BeforeStray
  <2> QED
    BY <2>1, <2>2 DEF IpcInv
<1>3. CASE CloseConnection
  BY <1>3, CloseDoes, BrokenKeeps DEF IpcInv
<1> QED
  BY <1>1, <1>2, <1>3 DEF ClientStarts

(* of one that sends its request,                                          *)
LEMMA SendKeeps == ASSUME IpcInv, SendPairs PROVE IpcInv'
<1> DEFINE k == Len(R) - Len(request.left)
<1>1. cli = "pairs" /\ Pairs /\ Ground /\ served = None /\ resp = <<>> /\ myId \in Nat
  BY DEF SendPairs, IpcInv, Ground, AskedInv
<1>2. /\ Ground' /\ DownLines' = DownLines
      /\ \/ cli' = "closed"
         \/ /\ request.left # <<>> /\ cli' = "pairs" /\ ~shut
            /\ UpLines' = UpLines \o <<NextPair>>
            /\ request' = [request EXCEPT !.left = Tail(@)]
         \/ /\ request.left = <<>> /\ cli' = "reply" /\ ~shut
            /\ UpLines' = UpLines \o <<Line("DONE", myId)>>
            /\ request' = request
  BY <1>1, SendDoes
<1>3. /\ UNCHANGED <<srvBuf, msgs, nextId, thread, current, myId, resp, served>>
      /\ request \in [cmd : Commands \cup {"none"}, left : Seq({"pair"})]
      /\ Len(request.left) \in Nat /\ Len(R) \in Nat
  <2>1. Len(R) \in Nat
    BY RequestIs DEF R
  <2>2. request.left \in Seq({"pair"})
    BY <1>1 DEF Ground, AskedInv
  <2> QED
    BY <1>1, <2>1, <2>2 DEF SendPairs, server, Ground, AskedInv
<1>4. Reading => UpLines \in Seq(LineUp) /\ Underway(R, myId, UpLines, msgs, k)
  BY <1>1, LinesAre DEF Pairs
<1>5. R' = R
  BY <1>2, <1>3, <1>1 DEF R, SendPairs, GiveUp
<1>6. ASSUME Reading, k \in Nat, NEW x, x = Script(R, myId, k + 1), UpLines' = UpLines \o <<x>>,
             <<x>> \in Seq(LineUp)
      PROVE  Underway(R, myId, UpLines', msgs, k + 1)
  <2>1. PICK p \in 0..Len(R) : /\ p <= k /\ Scripted(R, myId, UpLines, p, k)
                               /\ FirstIn(msgs, myId, SubSeq(R, 1, p))
    BY <1>4, <1>6 DEF Underway
  <2> HIDE DEF k
  <2>2. Scripted(R, myId, UpLines \o <<x>>, p, k + 1)
    <3>1. p \in Nat
      BY <1>3
    <3> QED
      BY <1>4, <1>6, <2>1, <3>1, ScriptedMore
  <2>3. p <= k + 1
    BY <1>3, <1>6, <2>1
  <2> QED
    BY <1>6, <2>1, <2>2, <2>3 DEF Underway
<1>7. CASE cli' = "closed"
  BY <1>2, <1>7, BrokenKeeps
<1>8. CASE /\ request.left # <<>> /\ cli' = "pairs" /\ UpLines' = UpLines \o <<NextPair>>
           /\ request' = [request EXCEPT !.left = Tail(@)]
  <2>1. /\ Len(Tail(request.left)) = Len(request.left) - 1
        /\ Len(request.left) \in 1..Len(R)
        /\ Len(R) + 1 - Len(request.left) \in 1..Len(R)
        /\ NextPair = Pair("PAIR", myId, R[Len(R) + 1 - Len(request.left)].key,
                                         R[Len(R) + 1 - Len(request.left)].val)
        /\ <<NextPair>> \in Seq(LineUp)
    BY <1>1, <1>8, NextPairIs
  <2>2. k \in Nat /\ k + 1 = Len(R) + 1 - Len(request.left)
        /\ Len(R') - Len(request'.left) = k + 1
    <3>1. request'.left = Tail(request.left)
      BY <1>3, <1>8
    <3>2. Len(R') = Len(R) /\ Len(request'.left) = Len(request.left) - 1
      BY <1>5, <2>1, <3>1
    <3> DEFINE n == Len(request.left)
               r == Len(R)
               r1 == Len(R')
               n1 == Len(request'.left)
    <3>3. n \in Nat /\ r \in Nat /\ n \in 1..r /\ r1 = r /\ n1 = n - 1
      BY <1>3, <2>1, <3>2
    <3> HIDE DEF n, r, n1, r1
    <3>4. r - n \in Nat /\ (r - n) + 1 = r + 1 - n /\ r1 - n1 = (r - n) + 1
      BY <3>3
    <3> QED
      BY <3>4 DEF n, r, n1, r1
  <2> DEFINE q == Len(R) + 1 - Len(request.left)
  <2>6. q \in 1..Len(R) /\ NextPair = Pair("PAIR", myId, R[q].key, R[q].val) /\ k + 1 = q
    BY <2>1, <2>2
  <2> HIDE DEF k, q
  <2>3. NextPair = Script(R, myId, k + 1)
    BY <1>3, <2>6 DEF Script
  <2>4. Reading => Underway(R, myId, UpLines', msgs, k + 1)
    BY <1>6, <1>8, <2>1, <2>2, <2>3
  <2>5. Pairs'
    BY <1>1, <1>2, <1>3, <1>5, <2>2, <2>4 DEF Pairs, Reading
  <2> QED
    BY <1>2, <1>8, <2>5 DEF IpcInv
<1>9. CASE /\ request.left = <<>> /\ cli' = "reply"
           /\ UpLines' = UpLines \o <<Line("DONE", myId)>> /\ request' = request
  <2>1. k = Len(R)
    <3>1. Len(request.left) = 0
      BY <1>9
    <3> QED
      BY <1>3, <3>1
  <2>2. Line("DONE", myId) = Script(R, myId, k + 1) /\ <<Line("DONE", myId)>> \in Seq(LineUp)
    BY <1>1, <1>3, <2>1, OwnLines DEF Script
  <2> HIDE DEF k
  <2>3. Reading => Underway(R, myId, UpLines', msgs, Len(R) + 1)
    BY <1>3, <1>6, <1>9, <2>1, <2>2
  <2>4. Reply'
    BY <1>1, <1>2, <1>3, <1>5, <2>3 DEF Reply, Waiting, Pairs, Reading
  <2> QED
    BY <1>2, <1>9, <2>4 DEF IpcInv
<1> QED
  BY <1>2, <1>7, <1>8, <1>9

(* of one that gets its id,                                                *)
LEMMA TakeKeeps == ASSUME IpcInv, ClientTake PROVE IpcInv'
<1>1. cli = "take" /\ Before /\ Ground
  BY DEF ClientTake, IpcInv
<1>2. /\ Ground' /\ DownLines # <<>> /\ DownLines' = Tail(DownLines) /\ UpLines' = UpLines
      /\ \/ cli' = "closed"
         \/ DownLines[1].cmd = "TAKE" /\ myId' = DownLines[1].id /\ cli' = "pairs"
  BY <1>1, TakeDoes
<1>3. UNCHANGED <<srvBuf, msgs, nextId, thread, request, shut>>
  BY DEF ClientTake, server
<1>4. CASE cli' = "closed"
  BY <1>2, <1>4, BrokenKeeps
<1>5. CASE DownLines[1].cmd = "TAKE" /\ myId' = DownLines[1].id /\ cli' = "pairs"
  <2>1. /\ DownLines \in Seq(LineDown) /\ 1 \in DOMAIN DownLines
        /\ Reading => UpLines \in Seq(LineUp)
    BY <1>1, <1>2, LinesAre
  <2>2. /\ HasTake(DownLines) /\ LateEnds(DownLines) /\ myId' < nextId
        /\ Reading => /\ AllGreet(UpLines) /\ thread \in {"poll", "drain"}
                      /\ FirstIn(msgs, myId', <<>>)
    BY <1>1, <1>5, <2>1 DEF Before, HasTake
  <2>3. AllLate(DownLines')
    BY <1>2, <1>5, <2>1, <2>2, LateTail
  <2>4. thread \in {"poll", "drain", "gone"}
    BY <2>2 DEF Reading
  <2>5. Len(R') - Len(request'.left) = 0 /\ R' = R /\ Len(R) \in Nat
    <3>1. R' = R /\ Len(R) \in Nat
      BY <1>3, RequestIs DEF R
    <3>2. Len(request.left) = Len(R)
      BY <1>1 DEF Ground, AskedInv
    <3> QED
      BY <1>3, <3>1, <3>2
  <2>6. Reading => Underway(R, myId', UpLines, msgs, 0)
    <3> SUFFICES ASSUME Reading PROVE Underway(R, myId', UpLines, msgs, 0)
      OBVIOUS
    <3>1. Scripted(R, myId', UpLines, 0, 0)
      <4>1. \A i \in DOMAIN UpLines : 0 - Len(UpLines) + i <= 0
        BY <2>1
      <4> QED
        BY <2>1, <2>2, <4>1 DEF Scripted, AllGreet
    <3>2. SubSeq(R, 1, 0) = <<>>
      OBVIOUS
    <3>3. FirstIn(msgs, myId', SubSeq(R, 1, 0))
      BY <2>2, <3>2
    <3> QED
      BY <2>5, <3>1, <3>3 DEF Underway
  <2>7. Pairs'
    BY <1>2, <1>3, <2>2, <2>3, <2>4, <2>5, <2>6 DEF Pairs, Reading
  <2> QED
    BY <1>2, <1>5, <2>7 DEF IpcInv
<1> QED
  BY <1>2, <1>4, <1>5

(* those that move the lines along and leave them what they are,           *)
LEMMA StillKeeps ==
  ASSUME IpcInv, Ground', DownLines' = DownLines, shut => shut',
         UNCHANGED <<cli, nextId, request, myId, resp, served, strays, current>>,
         Reading' => Reading /\ UpLines' = UpLines /\ msgs' = msgs,
         \/ thread' = thread
         \/ thread \in {"poll", "drain"} /\ thread' \in {"poll", "drain", "gone"}
  PROVE  IpcInv'
<1>1. R' = R
  BY DEF R
<1>2. CASE cli \in {"idle", "take"}
  <2>1. Before'
    BY <1>2, BeforeStays DEF IpcInv, Reading
  <2> QED
    BY <1>2, <2>1 DEF IpcInv
<1>3. CASE cli = "pairs"
  <2>1. Pairs'
    BY <1>1, <1>3 DEF IpcInv, Pairs, Reading
  <2> QED
    BY <1>3, <2>1 DEF IpcInv
<1>4. CASE cli = "reply"
  <2>1. CASE Waiting
    <3>1. Waiting'
      BY <1>1, <2>1 DEF Waiting, Reading
    <3>2. myId' < nextId'
      BY <1>4 DEF IpcInv, Reply
    <3> QED
      BY <1>4, <3>1, <3>2 DEF IpcInv, Reply
  <2>2. CASE Served
    <3>1. NoFinal => NoFinal'
      BY DEF NoFinal, IsFinal
    <3>2. Arrives => Arrives'
      BY DEF Arrives, Final
    <3>3. /\ \E o \in Outcomes(R') : served' = [pairs |-> R', ok |-> o.ok, data |-> o.data]
          /\ Reading' => UpLines' = <<>>
      BY <1>1, <2>2 DEF Served
    <3>4. CASE thread = "answer"
      BY <2>2, <3>1, <3>3, <3>4, <1>4 DEF Served, IpcInv, Reply
    <3>5. CASE thread \in {"poll", "drain", "gone"}
      BY <2>2, <3>1, <3>2, <3>3, <3>5, <1>4 DEF Served, IpcInv, Reply
    <3> QED
      BY <2>2, <3>4, <3>5 DEF Served
  <2> QED
    BY <1>4, <2>1, <2>2 DEF IpcInv, Reply
<1>5. CASE cli = "closed"
  BY <1>5, BrokenKeeps
<1> QED
  BY <1>2, <1>3, <1>4, <1>5 DEF IpcInv, Ground, TypeOK

LEMMA MovesKeep ==
  ASSUME IpcInv, ServerRecv \/ ServerHangup \/ DrainEnds \/ Shutdown \/ ClientRecv
  PROVE  IpcInv'
<1>1. Ground
  BY DEF IpcInv
<1>2. CASE ServerRecv
  <2>1. Ground' /\ DownLines' = DownLines /\ UpLines' = UpLines
    BY <1>1, <1>2, ServerRecvDoes
  <2> QED
    BY <1>2, <2>1, StillKeeps DEF ServerRecv, ServerOnly, Reading
<1>3. CASE ServerHangup
  <2>1. Ground' /\ DownLines' = DownLines
    BY <1>1, <1>3, HangupDoes
  <2> QED
    BY <1>3, <2>1, StillKeeps DEF ServerHangup, ServerOnly, Reading
<1>4. CASE DrainEnds
  <2>1. Ground' /\ DownLines' = DownLines /\ UpLines' = UpLines
    BY <1>1, <1>4, DrainDoes
  <2> QED
    BY <1>4, <2>1, StillKeeps DEF DrainEnds, ServerOnly, Reading
<1>5. CASE Shutdown
  <2>1. Ground' /\ DownLines' = DownLines /\ UpLines' = UpLines
    BY <1>1, <1>5, ShutdownDoes
  <2> QED
    BY <1>5, <2>1, StillKeeps DEF Shutdown, server, client, Reading
<1>6. CASE ClientRecv
  <2>1. Ground' /\ DownLines' = DownLines /\ UpLines' = UpLines /\ cli' \in {cli, "closed"}
    BY <1>1, <1>6, RecvDoes
  <2>2. CASE cli' = "closed"
    BY <2>1, <2>2, BrokenKeeps
  <2>3. CASE cli' = cli
    BY <1>6, <2>1, <2>3, StillKeeps DEF ClientRecv, server, Reading
  <2> QED
    BY <2>1, <2>2, <2>3
<1> QED
  BY <1>2, <1>3, <1>4, <1>5, <1>6

(* those of the server with a line, with the message, with the answer,     *)
LEMMA LineKeeps == ASSUME IpcInv, HandleLine PROVE IpcInv'
<1>1. Ground /\ Ground' /\ thread = "drain" /\ UpLines # <<>> /\ Reading
  BY HandleLineDoes, FirstUp DEF IpcInv, Reading
<1>2. UNCHANGED <<cliBuf, cli, request, myId, resp, served, shut, strays>> /\ R' = R
  BY DEF HandleLine, ServerOnly, R
<1>3. CASE cli = "closed"
  BY <1>1, <1>2, <1>3, BrokenKeeps
<1>4. CASE cli \in {"idle", "take"}
  <2>1. Before'
    BY <1>1, <1>4, BeforeLine DEF IpcInv, Open
  <2> QED
    BY <1>1, <1>2, <1>4, <2>1 DEF IpcInv
<1>5. Len(R) \in Nat /\ (cli \in {"pairs", "reply"} => myId \in Nat)
  BY <1>1, RequestIs DEF R, Ground, AskedInv
<1>6. CASE cli = "pairs"
  <2> DEFINE k == Len(R) - Len(request.left)
  <2>1. Pairs /\ k \in 0..Len(R) + 1 /\ k # Len(R) + 1
    <3>1. request.left \in Seq({"pair"}) /\ Len(request.left) <= Len(R)
      BY <1>1, <1>6 DEF Ground, AskedInv
    <3> DEFINE n == Len(request.left)
               r == Len(R)
    <3>2. n \in Nat /\ r \in Nat /\ n <= r
      BY <1>5, <3>1
    <3> HIDE DEF n, r
    <3>3. r - n \in 0..r + 1 /\ r - n # r + 1
      BY <3>2
    <3> QED
      BY <1>6, <3>3 DEF IpcInv, n, r
  <2> HIDE DEF k
  <2>2. Underway(R, myId, UpLines, msgs, k)
    BY <1>1, <2>1 DEF Pairs, k
  <2>3. /\ AllLate(DownLines') /\ myId < nextId' /\ thread' = "drain"
        /\ Underway(R, myId, UpLines', msgs', k)
    BY <1>1, <1>5, <1>6, <2>1, <2>2, UnderwayLine DEF Open, Pairs
  <2>4. Pairs'
    BY <1>2, <2>3 DEF Pairs, k
  <2> QED
    BY <1>1, <1>2, <1>6, <2>4 DEF IpcInv
<1>7. CASE cli = "reply"
  <2>1. Waiting /\ myId < nextId /\ Underway(R, myId, UpLines, msgs, Len(R) + 1)
    BY <1>1, <1>7 DEF IpcInv, Reply, Served, Waiting
  <2> DEFINE k == Len(R) + 1
  <2>2. k \in 0..Len(R) + 1 /\ Underway(R, myId, UpLines, msgs, k)
    BY <1>5, <2>1
  <2> HIDE DEF k
  <2>3. /\ AllLate(DownLines') /\ myId < nextId'
        /\ \/ thread' = "drain" /\ Underway(R, myId, UpLines', msgs', k)
           \/ /\ thread' = "handle" /\ current' = [id |-> myId]
              /\ UpLines' = <<>> /\ FirstIn(msgs', myId, R)
    BY <1>1, <1>5, <1>7, <2>1, <2>2, UnderwayLine DEF Open, Waiting
  <2>4. Waiting'
    <3>1. CASE thread' = "drain" /\ Underway(R, myId, UpLines', msgs', k)
      BY <1>2, <2>1, <2>3, <3>1 DEF Waiting, k
    <3>2. CASE /\ thread' = "handle" /\ current' = [id |-> myId]
               /\ UpLines' = <<>> /\ FirstIn(msgs', myId, R)
      <4>1. current'.id = myId
        BY <3>2
      <4> QED
        BY <1>2, <2>1, <2>3, <3>2, <4>1 DEF Waiting
    <3> QED
      BY <2>3, <3>1, <3>2
  <2> QED
    BY <1>1, <1>2, <1>7, <2>3, <2>4 DEF IpcInv, Reply
<1> QED
  BY <1>1, <1>3, <1>4, <1>6, <1>7 DEF Ground, TypeOK

LEMMA HandleKeeps == ASSUME IpcInv, Handle PROVE IpcInv'
<1>1. Ground /\ Ground' /\ thread = "handle" /\ thread' = "answer" /\ UpLines' = UpLines
  BY HandleDoes DEF Handle, IpcInv
<1>2. UNCHANGED <<cli, request, myId, resp, shut, strays, nextId, msgs>> /\ R' = R
  BY DEF Handle, ServerOnly, R
<1>3. CASE cli = "closed"
  BY <1>1, <1>2, <1>3, BrokenKeeps
<1>4. CASE cli \in {"idle", "take"}
  <2>1. Before'
    BY <1>1, <1>4, BeforeHandle DEF IpcInv, Open
  <2> QED
    BY <1>1, <1>2, <1>4, <2>1 DEF IpcInv
<1>5. CASE cli = "reply"
  <2> DEFINE m == msgs[FindMsg(current.id)]
  <2>1. /\ Waiting /\ myId < nextId /\ current.id = myId /\ UpLines = <<>>
        /\ FirstIn(msgs, myId, R) /\ served = None /\ resp = <<>> /\ AllLate(DownLines)
    BY <1>1, <1>5 DEF IpcInv, Reply, Served, Waiting
  <2>2. m = [id |-> myId, pairs |-> R]
    BY <1>1, <2>1, FirstFound DEF Ground
  <2>3. PICK o : Handled(o, m)
    BY <1>1, HandleDoes
  <2> HIDE DEF m
  <2>4. /\ o \in Outcomes(R) /\ Tells(DataLines(o, m)) /\ DataLines(o, m) \in Seq(LineDown)
        /\ current' = [id |-> myId, ok |-> o.ok]
        /\ served' = [pairs |-> R, ok |-> o.ok, data |-> o.data]
    BY <1>5, <2>1, <2>2, <2>3 DEF Handled
  <2>5. o.data \in Seq(Data) /\ DownLines \in Seq(LineDown) /\ myId \in Nat
    BY <1>1, <1>5, <2>4, OutcomesAre, LinesAre DEF Ground, AskedInv
  <2> DEFINE dl == DataLines(o, m)
  <2>6. /\ DOMAIN dl = DOMAIN o.data
        /\ \A i \in DOMAIN dl : dl[i] = Pair("RESPDATA", myId, o.data[i].key, o.data[i].val)
    BY <2>2 DEF DataLines
  <2> HIDE DEF dl
  <2>7. Len(dl) = Len(o.data) /\ dl \in Seq(LineDown)
    BY <2>4, <2>5, <2>6 DEF dl
  <2>8. DownLines' = IF shut THEN DownLines ELSE DownLines \o dl
    BY <1>5, <2>4 DEF Tells, Open, dl
  <2>9. ~shut => Told(myId, DownLines', resp', served'.data)
    BY <1>2, <2>1, <2>4, <2>5, <2>6, <2>7, <2>8, ToldStart
  <2>10. NoFinal'
    <3>1. \A j \in DOMAIN DownLines : ~IsFinal(DownLines[j])
      BY <2>1, <2>5 DEF IsFinal, AllLate, Late, NotANumber
    <3>2. \A j \in DOMAIN dl : ~IsFinal(dl[j])
      <4> TAKE j \in DOMAIN dl
      <4> DEFINE k == o.data[j].key
                 v == o.data[j].val
      <4>2. dl[j] = Pair("RESPDATA", myId, k, v)
        BY <2>6
      <4> HIDE DEF k, v
      <4>1. dl[j].cmd = "RESPDATA"
        BY <4>2 DEF Pair
      <4> QED
        BY <4>1 DEF IsFinal
    <3>3. \A i \in DOMAIN DownLines' :
            \/ i \in DOMAIN DownLines /\ DownLines'[i] = DownLines[i]
            \/ \E j \in DOMAIN dl : DownLines'[i] = dl[j]
      <4>1. \A i \in DOMAIN (DownLines \o dl) :
              \/ i \in DOMAIN DownLines /\ (DownLines \o dl)[i] = DownLines[i]
              \/ \E j \in DOMAIN dl : (DownLines \o dl)[i] = dl[j]
        BY <2>5, <2>7, LateJoin
      <4> QED
        BY <2>8, <4>1
    <3>4. \A i \in DOMAIN DownLines' : ~IsFinal(DownLines'[i])
      BY <3>1, <3>2, <3>3
    <3> QED
      BY <1>2, <3>4 DEF NoFinal, IsFinal
  <2>11. Served'
    <3>1. current' = [id |-> myId', ok |-> served'.ok]
      BY <1>2, <2>4
    <3>2. \E p \in Outcomes(R') : served' = [pairs |-> R', ok |-> p.ok, data |-> p.data]
      BY <1>2, <2>4
    <3> QED
      BY <1>1, <1>2, <2>1, <2>9, <2>10, <3>1, <3>2 DEF Served
  <2> QED
    BY <1>1, <1>2, <1>5, <2>1, <2>11 DEF IpcInv, Reply
<1>6. CASE cli = "pairs"
  BY <1>1, <1>6 DEF IpcInv, Pairs
<1> QED
  BY <1>1, <1>3, <1>4, <1>5, <1>6 DEF Ground, TypeOK

LEMMA AnswerKeeps == ASSUME IpcInv, Answer PROVE IpcInv'
<1>1. /\ Ground /\ Ground' /\ thread = "answer" /\ thread' = "drain" /\ UpLines' = UpLines
      /\ Tells(<<Verdict>>) /\ <<Verdict>> \in Seq(LineDown)
  BY AnswerDoes DEF Answer, IpcInv
<1>2. UNCHANGED <<cli, request, myId, resp, shut, strays, nextId, served>> /\ R' = R
  BY DEF Answer, ServerOnly, R
<1>3. CASE cli = "closed"
  BY <1>1, <1>2, <1>3, BrokenKeeps
<1>4. CASE cli \in {"idle", "take"}
  <2>1. Before'
    BY <1>1, <1>4, BeforeHandle DEF IpcInv, Open
  <2> QED
    BY <1>1, <1>2, <1>4, <2>1 DEF IpcInv
<1>5. CASE cli = "reply"
  <2>1. /\ Served /\ myId < nextId /\ current = [id |-> myId, ok |-> served.ok]
        /\ NoFinal /\ (~shut => Told(myId, DownLines, resp, served.data)) /\ UpLines = <<>>
    BY <1>1, <1>5 DEF IpcInv, Reply, Served, Waiting, Reading
  <2>2. Verdict = Final
    BY <2>1 DEF Verdict, Final
  <2>3. DownLines \in Seq(LineDown)
    BY <1>1, LinesAre
  <2>4. Arrives' \/ (shut' /\ NoFinal')
    <3>1. CASE shut
      <4>1. DownLines' = DownLines
        BY <1>1, <3>1 DEF Tells
      <4> QED
        BY <1>2, <2>1, <3>1, <4>1 DEF NoFinal, IsFinal
    <3>2. CASE ~shut
      <4>1. DownLines' = DownLines \o <<Final>>
        BY <1>1, <1>5, <2>2, <3>2 DEF Tells, Open
      <4>2. Final' = Final
        BY <1>2 DEF Final
      <4>3. \E w \in Seq(LineDown) : DownLines' = w \o <<Final'>>
                                     /\ Told(myId', w, resp', served'.data)
        BY <1>2, <2>1, <2>3, <3>2, <4>1, <4>2
      <4> QED
        BY <4>3 DEF Arrives
    <3> QED
      BY <3>1, <3>2
  <2>5. Served'
    <3>1. \E p \in Outcomes(R') : served' = [pairs |-> R', ok |-> p.ok, data |-> p.data]
      BY <1>2, <2>1 DEF Served
    <3> QED
      BY <1>1, <2>1, <2>4, <3>1 DEF Served
  <2> QED
    BY <1>1, <1>2, <1>5, <2>1, <2>5 DEF IpcInv, Reply
<1>6. CASE cli = "pairs"
  BY <1>1, <1>6 DEF IpcInv, Pairs
<1> QED
  BY <1>1, <1>3, <1>4, <1>5, <1>6 DEF Ground, TypeOK

(* and those of a client that reads its answer.  That it returns is that   *)
(* the answer was all that was still to come.                              *)
LEMMA FinalFirst ==
  ASSUME NEW w \in Seq(LineDown), NEW line \in LineDown
  PROVE  /\ w = <<>> => (w \o <<line>>)[1] = line /\ Tail(w \o <<line>>) = <<>>
         /\ w # <<>> => (w \o <<line>>)[1] = w[1] /\ Tail(w \o <<line>>) = Tail(w) \o <<line>>
<1> DEFINE t == <<line>>
           v == w \o t
           n == Len(w)
<1>1. t \in Seq(LineDown) /\ Len(t) = 1 /\ DOMAIN t = {1} /\ t[1] = line
  OBVIOUS
<1> HIDE DEF t
<1>2. /\ v \in Seq(LineDown) /\ Len(v) = n + 1 /\ n \in Nat
      /\ \A i \in 1..n + 1 : v[i] = IF i <= n THEN w[i] ELSE t[i - n]
  <2>1. /\ w \o t \in Seq(LineDown) /\ Len(w \o t) = n + Len(t) /\ n \in Nat
        /\ \A i \in 1..n + Len(t) : (w \o t)[i] = IF i <= n THEN w[i] ELSE t[i - n]
    <3>0. w \in Seq(LineDown) /\ t \in Seq(LineDown)
      BY <1>1
    <3>1. /\ w \o t \in Seq(LineDown) /\ Len(w \o t) = Len(w) + Len(t)
          /\ \A i \in 1..Len(w) + Len(t) :
               (w \o t)[i] = IF i <= Len(w) THEN w[i] ELSE t[i - Len(w)]
      BY ONLY <3>0, ConcatProperties
    <3> HIDE DEF v
    <3>2. Len(w) \in Nat
      OBVIOUS
    <3> QED
      BY <3>1, <3>2
  <2> QED
    BY <1>1, <2>1
<1> HIDE DEF v
<1>3. CASE w = <<>>
  <2>1. n = 0
    BY <1>3
  <2> HIDE DEF n
  <2>2. v[1] = line /\ Len(v) = 1
    BY <1>1, <1>2, <2>1
  <2>3. Tail(v) = <<>>
    <3>1. v # <<>> /\ v \in Seq(LineDown)
      BY <1>2, <2>2
    <3>2. Tail(v) \in Seq(LineDown) /\ Len(Tail(v)) = 0
      BY <2>2, <3>1
    <3> DEFINE a == Tail(v)
    <3>3. a \in Seq(LineDown) /\ Len(a) = 0
      BY <3>2
    <3> HIDE DEF a
    <3>4. a = <<>>
      BY <3>3
    <3> QED
      BY <3>4 DEF a
  <2> QED
    BY <1>3, <2>2, <2>3 DEF v, t
<1>4. CASE w # <<>>
  <2>1. n >= 1
    BY <1>4
  <2> DEFINE a == Tail(v)
             b == Tail(w) \o t
             tw == Tail(w)
  <2>2. tw \in Seq(LineDown) /\ Len(tw) = n - 1 /\ \A i \in 1..n - 1 : tw[i] = w[i + 1]
    BY <1>4
  <2> HIDE DEF n, tw
  <2>3. v # <<>> /\ v[1] = w[1]
    BY <1>2, <2>1
  <2>4. a \in Seq(LineDown) /\ Len(a) = n /\ \A i \in 1..n : a[i] = v[i + 1]
    BY <1>2, <2>3
  <2>5. /\ tw \o t \in Seq(LineDown) /\ Len(tw \o t) = n
        /\ \A i \in 1..n : (tw \o t)[i] = IF i <= n - 1 THEN tw[i] ELSE t[i - (n - 1)]
    <3>1. /\ tw \o t \in Seq(LineDown) /\ Len(tw \o t) = Len(tw) + Len(t)
          /\ \A i \in 1..Len(tw) + Len(t) :
               (tw \o t)[i] = IF i <= Len(tw) THEN tw[i] ELSE t[i - Len(tw)]
      <4> HIDE DEF a, b
      <4>1. tw \in Seq(LineDown) /\ t \in Seq(LineDown)
        BY <1>1, <2>2
      <4> QED
        BY <4>1, ConcatProperties
    <3>2. Len(tw) + Len(t) = n
      BY <1>1, <1>2, <2>1, <2>2
    <3> QED
      BY <2>2, <3>1, <3>2
  <2>6. b = tw \o t
    BY DEF tw
  <2> HIDE DEF a, b
  <2>7. ASSUME NEW i \in 1..n PROVE a[i] = b[i]
    <3> DEFINE h == i + 1
    <3>1. a[i] = v[h] /\ h \in 1..n + 1
      BY <1>2, <2>4
    <3>2. v[h] = IF h <= n THEN w[h] ELSE t[h - n]
      BY <1>2, <3>1
    <3>3. b[i] = IF i <= n - 1 THEN tw[i] ELSE t[i - (n - 1)]
      BY <2>5, <2>6
    <3>4. CASE i <= n - 1
      <4>1. i \in 1..n - 1 /\ h <= n
        BY <1>2, <3>4
      <4>2. tw[i] = w[h]
        BY <2>2, <4>1
      <4> HIDE DEF h
      <4> QED
        BY <3>1, <3>2, <3>3, <3>4, <4>1, <4>2
    <3>5. CASE ~(i <= n - 1)
      <4>1. ~(h <= n) /\ h - n = i - (n - 1)
        BY <1>2, <3>5
      <4> HIDE DEF h
      <4> QED
        BY <3>1, <3>2, <3>3, <3>5, <4>1
    <3> QED
      BY <3>4, <3>5
  <2>8. a = b
    <3>1. b \in Seq(LineDown) /\ Len(b) = n
      BY <2>5, <2>6
    <3> QED
      BY <1>2, <2>4, <2>7, <3>1
  <2> QED
    BY <1>4, <2>3, <2>8 DEF a, b, v, t
<1> QED
  BY <1>3, <1>4

(* The client returns only what the daemon has answered.                   *)
LEMMA Returns ==
  ASSUME IpcInv, ClientReply, cli' = "idle"
  PROVE  /\ Served /\ thread \in {"poll", "drain", "gone"}
         /\ DownLines' = <<>> /\ UpLines' = UpLines
         /\ resp' = resp /\ resp = served.data
         /\ result' = Returned(served.ok)
<1> DEFINE line == DownLines[1]
<1>1. cli = "reply" /\ Reply /\ Ground /\ myId \in Nat /\ resp \in Seq(Data)
  BY DEF ClientReply, IpcInv, Ground, AskedInv
<1>2. /\ DownLines # <<>> /\ DownLines' = Tail(DownLines) /\ UpLines' = UpLines
      /\ line.cmd = "RESPONSE" /\ line.id \in {myId, 0} /\ resp' = resp
      /\ result' = Returned(line.status = "OK")
  BY <1>1, ReplyDoes
<1>3. DownLines \in Seq(LineDown) /\ 1 \in DOMAIN DownLines
  BY <1>1, <1>2, LinesAre
<1>4. IsFinal(line) /\ ~Late(line)
  BY <1>1, <1>2 DEF IsFinal, Late, NotANumber
<1>5. ~AllLate(DownLines) /\ ~NoFinal
  BY <1>3, <1>4 DEF AllLate, NoFinal
<1>6. Served /\ thread \in {"poll", "drain", "gone"} /\ Arrives
  BY <1>1, <1>5 DEF Reply, Waiting, Served
<1> HIDE DEF line
<1>7. PICK w \in Seq(LineDown) : DownLines = w \o <<Final>> /\ Told(myId, w, resp, served.data)
  BY <1>6 DEF Arrives
<1>8. PICK o \in Outcomes(R) : served = [pairs |-> R, ok |-> o.ok, data |-> o.data]
  BY <1>6 DEF Served
<1>9. served.data \in Seq(Data) /\ served.ok \in BOOLEAN
  BY <1>8, OutcomesAre
<1>10. Final \in LineDown
  BY <1>1 DEF Final, Response, LineDown
<1>11. w = <<>>
  <2> SUFFICES ASSUME w # <<>> PROVE FALSE
    OBVIOUS
  <2>1. line = w[1]
    BY <1>7, <1>10, FinalFirst DEF line
  <2>2. Late(w[1]) \/ w[1].cmd = "RESPDATA"
    BY <1>1, <1>7, <1>9, ToldTail
  <2> QED
    BY <1>2, <1>4, <2>1, <2>2
<1>12. line = Final /\ DownLines' = <<>>
  BY <1>2, <1>7, <1>10, <1>11, FinalFirst DEF line
<1>13. (line.status = "OK") = served.ok
  <2>1. line.status = IF served.ok THEN "OK" ELSE "ERROR"
    BY <1>12 DEF Final, Response
  <2> QED
    BY <1>9, <2>1
<1>14. resp = served.data
  <2> DEFINE d == served.data
  <2>1. /\ Len(resp) <= Len(d) /\ Len(d) - Len(resp) <= 0 /\ \A q \in DOMAIN resp : resp[q] = d[q]
    BY <1>7, <1>11 DEF Told
  <2>2. d \in Seq(Data) /\ resp \in Seq(Data)
    BY <1>1, <1>9
  <2> HIDE DEF d
  <2>3. Len(resp) = Len(d)
    BY <2>1, <2>2
  <2>4. resp = d
    BY <2>1, <2>2, <2>3
  <2> QED
    BY <2>4 DEF d
<1>15. result' = Returned(served.ok)
  BY <1>2, <1>13
<1> QED
  BY <1>2, <1>6, <1>12, <1>14, <1>15

LEMMA ReplyKeeps == ASSUME IpcInv, ClientReply PROVE IpcInv'
<1> DEFINE line == DownLines[1]
<1>1. cli = "reply" /\ Reply /\ Ground /\ myId \in Nat /\ resp \in Seq(Data)
  BY DEF ClientReply, IpcInv, Ground, AskedInv
<1>2. /\ Ground' /\ DownLines # <<>> /\ DownLines' = Tail(DownLines) /\ UpLines' = UpLines
      /\ \/ cli' = "closed"
         \/ line.cmd = "TAKE" /\ cli' = "reply" /\ resp' = resp
         \/ /\ line.cmd = "RESPDATA" /\ cli' = "reply"
            /\ resp' = Append(resp, Datum(line.key, line.val))
         \/ cli' = "idle"
  BY <1>1, ReplyDoes
<1>3. DownLines \in Seq(LineDown) /\ 1 \in DOMAIN DownLines
  BY <1>1, <1>2, LinesAre
<1>4. /\ UNCHANGED <<srvBuf, msgs, nextId, thread, current, shut, request, myId, served, strays>>
      /\ R' = R
  BY DEF ClientReply, server, R
<1>5. CASE cli' = "closed"
  BY <1>2, <1>5, BrokenKeeps
<1>6. CASE cli' = "idle"
  <2>1. Served /\ thread \in {"poll", "drain", "gone"} /\ DownLines' = <<>>
    BY <1>6, Returns
  <2>2. Reading => UpLines' = <<>>
    BY <1>2, <2>1 DEF Served
  <2>3. Before'
    BY <1>4, <2>1, <2>2 DEF Before, GreetEnds, LateEnds, HasTake, Greets, Reading
  <2> QED
    BY <1>2, <1>6, <2>3 DEF IpcInv
<1> HIDE DEF line
<1>7. CASE /\ cli' = "reply"
           /\ \/ line.cmd = "TAKE" /\ resp' = resp
              \/ line.cmd = "RESPDATA" /\ resp' = Append(resp, Datum(line.key, line.val))
  <2>1. CASE Waiting
    <3>1. Late(line) /\ AllLate(DownLines')
      <4>1. Late(line)
        BY <1>3, <2>1 DEF Waiting, AllLate, line
      <4> QED
        BY <1>2, <1>3, <2>1, <4>1, LateTail DEF Waiting
    <3>2. resp' = resp
      BY <1>7, <3>1 DEF Late
    <3>3. Waiting'
      BY <1>2, <1>4, <2>1, <3>1, <3>2 DEF Waiting
    <3> QED
      BY <1>1, <1>2, <1>4, <1>7, <3>3 DEF IpcInv, Reply
  <2>2. CASE Served
    <3>1. PICK o \in Outcomes(R) : served = [pairs |-> R, ok |-> o.ok, data |-> o.data]
      BY <2>2 DEF Served
    <3>2. served.data \in Seq(Data)
      BY <3>1, OutcomesAre
    <3>3. NoFinal => NoFinal'
      <4>1. \A i \in DOMAIN DownLines' :
              i + 1 \in DOMAIN DownLines /\ DownLines'[i] = DownLines[i + 1]
        BY <1>2, <1>3, TailIs
      <4> QED
        BY <1>4, <4>1 DEF NoFinal, IsFinal
    <3>4. ASSUME NEW w \in Seq(LineDown), w # <<>>, w[1] = line, Told(myId, w, resp, served.data)
          PROVE  Told(myId, Tail(w), resp', served.data)
      <4>1. \/ Late(line) /\ Told(myId, Tail(w), resp, served.data)
            \/ /\ line.cmd = "RESPDATA"
               /\ Told(myId, Tail(w), Append(resp, Datum(line.key, line.val)), served.data)
        BY <1>1, <3>2, <3>4, ToldTail
      <4> QED
        BY <1>7, <4>1 DEF Late
    <3>5. CASE thread = "answer"
      <4>1. ~shut => Told(myId, DownLines', resp', served.data)
        BY <1>2, <1>3, <2>2, <3>4, <3>5 DEF Served, line
      <4>2. Served'
        <5>1. \E p \in Outcomes(R') : served' = [pairs |-> R', ok |-> p.ok, data |-> p.data]
          BY <1>4, <3>1
        <5> QED
          BY <1>2, <1>4, <2>2, <3>3, <3>5, <4>1, <5>1 DEF Served, Reading
      <4> QED
        BY <1>1, <1>2, <1>4, <1>7, <4>2 DEF IpcInv, Reply
    <3>6. CASE thread \in {"poll", "drain", "gone"}
      <4>1. Arrives => Arrives'
        <5> SUFFICES ASSUME Arrives PROVE Arrives'
          OBVIOUS
        <5>1. PICK w \in Seq(LineDown) :
                DownLines = w \o <<Final>> /\ Told(myId, w, resp, served.data)
          BY DEF Arrives
        <5>2. Final \in LineDown /\ Final' = Final
          BY <1>1, <1>4 DEF Final, Response, LineDown
        <5>3. w # <<>>
          <6> SUFFICES ASSUME w = <<>> PROVE FALSE
            OBVIOUS
          <6>1. line = Final
            BY <5>1, <5>2, FinalFirst DEF line
          <6> QED
            BY <1>7, <6>1 DEF Final, Response
        <5>4. line = w[1] /\ DownLines' = Tail(w) \o <<Final>>
          BY <1>2, <5>1, <5>2, <5>3, FinalFirst DEF line
        <5>5. Told(myId, Tail(w), resp', served.data) /\ Tail(w) \in Seq(LineDown)
          BY <3>4, <5>1, <5>3, <5>4
        <5>6. \E v \in Seq(LineDown) : DownLines' = v \o <<Final'>>
                                       /\ Told(myId', v, resp', served'.data)
          BY <1>4, <5>2, <5>4, <5>5
        <5> QED
          BY <5>6 DEF Arrives
      <4>2. Served'
        <5>1. \E p \in Outcomes(R') : served' = [pairs |-> R', ok |-> p.ok, data |-> p.data]
          BY <1>4, <3>1
        <5> QED
          BY <1>2, <1>4, <2>2, <3>3, <3>6, <4>1, <5>1 DEF Served, Reading
      <4> QED
        BY <1>1, <1>2, <1>4, <1>7, <4>2 DEF IpcInv, Reply
    <3> QED
      BY <2>2, <3>5, <3>6 DEF Served
  <2> QED
    BY <1>1, <2>1, <2>2 DEF Reply
<1> QED
  BY <1>2, <1>5, <1>6, <1>7 DEF line

(* So it holds at every moment.                                            *)
LEMMA IpcInit == ASSUME Init PROVE IpcInv
<1> USE DEF Init
<1>1. \A L : Carries(<<>>, <<>>, L) /\ LinesOf(<<>> \o <<>>) = <<>>
  <2> TAKE L
  <2>1. <<>> \o <<>> = <<>> /\ <<>> \in Seq(CellsOf(L)) /\ <<>> \in Seq(L)
    OBVIOUS
  <2>2. LinesOf(<<>>) = <<>> /\ Cells(<<>>) = <<>>
    <3>1. Len(<<>>) \div 2 = 0 /\ 2 * Len(<<>>) = 0
      OBVIOUS
    <3> QED
      BY <3>1 DEF LinesOf, Cells
  <2> QED
    BY <2>1, <2>2 DEF Carries
<1>2. UpStream /\ DownStream /\ UpLines = <<>> /\ DownLines = <<>>
  BY <1>1 DEF UpStream, DownStream, UpLines, DownLines
<1>3. TypeOK /\ msgs \in Seq(Message)
  <2>1. 0 \in 0..MaxExchanges /\ 0 \in 0..MaxStrays
    BY ConstAssumption
  <2>2. msgs \in Seq(Message) /\ \A i \in DOMAIN msgs : msgs[i].id \in Nat
    OBVIOUS
  <2> QED
    BY <2>1, <2>2 DEF TypeOK, NotANumber
<1>4. ThreadInv /\ AskedInv
  BY DEF ThreadInv, AskedInv, Reading, InExchange
<1>5. Before
  BY <1>2 DEF Before, GreetEnds, LateEnds, HasTake, Greets
<1> QED
  BY <1>2, <1>3, <1>4, <1>5 DEF IpcInv, Ground

LEMMA IpcNext == ASSUME IpcInv, Mistakes = 0, [Next]_vars PROVE IpcInv'
<1>1. CASE UNCHANGED vars
  <2>1. UpLines' = UpLines /\ DownLines' = DownLines /\ (UpStream => UpStream')
        /\ (DownStream => DownStream')
    BY <1>1, SameUp, SameDown DEF vars, server, client
  <2>2. TypeOK' /\ ThreadInv' /\ AskedInv'
    BY <1>1
    DEF vars, server, client, IpcInv, Ground, TypeOK, ThreadInv, AskedInv, Known, Reading, Open,
        InExchange, R
  <2>3. Ground'
    BY <1>1, <2>1, <2>2 DEF vars, server, client, IpcInv, Ground, Reading
  <2> QED
    BY <1>1, <2>1, <2>3, StillKeeps DEF vars, server, client, Reading
<1>2. CASE Next
  BY <1>2, StartsKeep, SendKeeps, TakeKeeps, MovesKeep, LineKeeps, HandleKeeps, AnswerKeeps,
     ReplyKeeps
  DEF Next, ClientRun, ServerRun
<1> QED
  BY <1>1, <1>2

-----------------------------------------------------------------------------
(* The exit status says what the answer says: only a ping and a query for  *)
(* the active terminal have a value in the data that can be zero.          *)
LEMMA SuccessIs ==
  ASSUME NEW c, NEW o \in Outcomes(RequestPairs(c))
  PROVE  ExitSuccess(c, o.ok, o.data) <=> o.ok /\ \A i \in DOMAIN o.data : o.data[i].val # 0
<1> DEFINE pairs == RequestPairs(c)
           a == IF HasVal(pairs, "action") THEN GetVal(pairs, "action") ELSE "none"
           all == [data : {<<>>, <<Datum("KEY", 1)>>, <<Datum("KEY", 1), Datum("KEY", 2)>>},
                   ok : {TRUE}]
                  \cup [data : {<<>>, Err}, ok : {FALSE}]
           seen == {<<"ping", "PONG">>, <<"has-active-vt", "ISTTY">>}
<1>1. Outcomes(pairs) =
        CASE a = "quit" -> {[data |-> <<>>, ok |-> TRUE]}
          [] a = "ping" -> {[data |-> <<Datum("PONG", 1)>>, ok |-> TRUE]}
          [] a = "has-active-vt" -> {[data |-> <<Datum("ISTTY", v)>>, ok |-> TRUE] : v \in {0, 1}}
          [] a = "call" -> all
          [] OTHER      -> {[data |-> Err, ok |-> FALSE]}
  BY DEF Outcomes
<1>2. a = c
  <2>1. CASE c = "none"
    <3>1. pairs = <<[key |-> "id", val |-> "w"]>>
      BY <2>1 DEF RequestPairs
    <3> HIDE DEF pairs
    <3>2. DOMAIN pairs = {1} /\ pairs[1].key = "id"
      BY <3>1
    <3> QED
      BY <2>1, <3>2 DEF HasVal
  <2>2. CASE c # "none"
    <3>1. 1 \in DOMAIN pairs /\ pairs[1] = [key |-> "action", val |-> c]
          /\ \A i \in DOMAIN pairs : i # 1 => pairs[i].key # "action"
      <4>1. CASE c = "call"
        <5>1. pairs = <<[key |-> "action", val |-> c], [key |-> "id", val |-> "w"]>>
          BY <4>1 DEF RequestPairs
        <5> HIDE DEF pairs
        <5>2. /\ DOMAIN pairs = {1, 2} /\ pairs[2].key = "id"
              /\ pairs[1] = [key |-> "action", val |-> c]
          BY <5>1
        <5> QED
          BY <5>2
      <4>2. CASE c # "call"
        <5>1. pairs = <<[key |-> "action", val |-> c]>>
          BY <2>2, <4>2 DEF RequestPairs
        <5> HIDE DEF pairs
        <5>2. DOMAIN pairs = {1} /\ pairs[1] = [key |-> "action", val |-> c]
          BY <5>1
        <5> QED
          BY <5>2
      <4> QED
        BY <4>1, <4>2
    <3> HIDE DEF pairs
    <3> DEFINE T == {i \in DOMAIN pairs : pairs[i].key = "action"}
    <3>2. T = {1}
      <4>1. pairs[1].key = "action"
        BY <3>1
      <4> QED
        BY <3>1, <4>1
    <3> HIDE DEF T
    <3>3. Min(T) = 1
      BY <3>2 DEF Min
    <3>4. HasVal(pairs, "action") /\ GetVal(pairs, "action") = c
      BY <3>1, <3>3 DEF HasVal, GetVal, T
    <3> QED
      BY <3>4
  <2> QED
    BY <2>1, <2>2
<1> HIDE DEF a, pairs
<1>3. /\ ExitSuccess(c, o.ok, o.data) <=>
           o.ok /\ \A i \in DOMAIN o.data : <<c, o.data[i].key>> \notin seen \/ o.data[i].val # 0
  BY DEF ExitSuccess
<1>4. o \in Outcomes(pairs)
  BY DEF pairs
<1>5. CASE c = "quit"
  <2>1. o = [data |-> <<>>, ok |-> TRUE]
    BY <1>1, <1>2, <1>4, <1>5
  <2>2. DOMAIN o.data = {}
    BY <2>1
  <2> QED
    BY <1>3, <2>2
<1>6. CASE c = "ping"
  <2>1. o = [data |-> <<Datum("PONG", 1)>>, ok |-> TRUE]
    BY <1>1, <1>2, <1>4, <1>6
  <2>2. DOMAIN o.data = {1} /\ o.data[1].key = "PONG" /\ o.data[1].val = 1
    BY <2>1 DEF Datum
  <2> QED
    BY <1>3, <1>6, <2>2
<1>7. CASE c = "has-active-vt"
  <2>1. PICK v \in {0, 1} : o = [data |-> <<Datum("ISTTY", v)>>, ok |-> TRUE]
    BY <1>1, <1>2, <1>4, <1>7
  <2>2. DOMAIN o.data = {1} /\ o.data[1].key = "ISTTY"
    BY <2>1 DEF Datum
  <2>3. <<c, o.data[1].key>> \in seen
    BY <1>7, <2>2
  <2> QED
    BY <1>3, <2>2, <2>3
<1>8. CASE c = "call"
  <2>1. o \in all
    BY <1>1, <1>2, <1>4, <1>8
  <2>2. CASE o.ok = FALSE
    BY <1>3, <2>2
  <2>3. CASE o.data = <<>>
    <3>1. DOMAIN o.data = {}
      BY <2>3
    <3> QED
      BY <1>3, <3>1
  <2>4. CASE o.data = <<Datum("KEY", 1)>>
    <3>1. DOMAIN o.data = {1} /\ o.data[1].val = 1
      BY <2>4 DEF Datum
    <3> QED
      BY <1>3, <3>1
  <2>5. CASE o.data = <<Datum("KEY", 1), Datum("KEY", 2)>>
    <3>1. DOMAIN o.data = {1, 2} /\ o.data[1].val = 1 /\ o.data[2].val = 2
      BY <2>5 DEF Datum
    <3> QED
      BY <1>3, <3>1
  <2> QED
    BY <2>1, <2>2, <2>3, <2>4, <2>5
<1>9. CASE c \notin {"quit", "ping", "has-active-vt", "call"}
  <2>1. o = [data |-> Err, ok |-> FALSE]
    BY <1>1, <1>2, <1>4, <1>9
  <2> QED
    BY <1>3, <2>1
<1> QED
  BY <1>5, <1>6, <1>7, <1>8, <1>9

-----------------------------------------------------------------------------
(***************************************************************************)
(* The exchange is the abstract one: what the caller sees of it.           *)
(***************************************************************************)
Phase ==
  CASE cli = "closed" -> "broken"
    [] cli = "idle"   -> "idle"
    [] OTHER          -> IF served = None THEN "asked" ELSE "served"
Reported ==
  CASE cli = "closed" -> None
    [] cli = "idle" /\ result # None
         -> [of |-> RequestPairs(result.cmd), ok |-> result.ok,
             data |-> result.data, success |-> result.success]
    [] InExchange /\ served # None
         -> Answered(served.pairs, served)
    [] OTHER -> None
Seen     == <<Phase, R, Reported>>
Requests == {RequestPairs(c) : c \in Commands \cup {"none"}}
Answers  == {Answered(RequestPairs(c), o) :
             c \in Commands, o \in UNION {Outcomes(RequestPairs(d)) : d \in Commands}}

Asks     == Phase = "idle" /\ Phase' = "asked" /\ R' \in Requests /\ Reported' = None
Serves   == /\ Phase = "asked" /\ Phase' = "served" /\ R' = R
            /\ \E a \in Answers : a.of = R /\ Reported' = a
ReturnsIt == Phase = "served" /\ Phase' = "idle" /\ R' = R /\ Reported' = Reported
Fails    == Phase # "broken" /\ Phase' = "broken" /\ R' = R /\ Reported' = None
Same     == UNCHANGED Seen

SeenFacts ==
  /\ cli = "closed" => Phase = "broken" /\ Reported = None
  /\ cli = "idle" => /\ Phase = "idle"
                     /\ Reported = IF result = None THEN None ELSE
                          [of |-> RequestPairs(result.cmd), ok |-> result.ok,
                           data |-> result.data, success |-> result.success]
  /\ InExchange => /\ Phase = (IF served = None THEN "asked" ELSE "served")
                   /\ Reported = IF served = None THEN None ELSE Answered(served.pairs, served)
  /\ cli \notin {"closed", "idle"} => Phase # "broken"

(* What the caller sees, by what the client is at,                         *)
LEMMA SeenIs == SeenFacts
<1> USE DEF SeenFacts
<1>1. CASE cli = "closed"
  BY <1>1 DEF Phase, Reported, InExchange
<1>2. CASE cli = "idle"
  BY <1>2 DEF Phase, Reported, InExchange
<1>3. CASE cli \notin {"closed", "idle"}
  BY <1>3 DEF Phase, Reported, InExchange
<1> QED
  BY <1>1, <1>2, <1>3

(* now and after a step.                                                   *)
LEMMA SeenThen == SeenFacts'
BY SeenIs, PTL

(* A step of the connection is one of the abstract exchange, or changes    *)
(* nothing of what its caller sees.                                        *)
LEMMA StepIs == ASSUME Asks \/ Serves \/ ReturnsIt \/ Fails \/ Same PROVE [E!Next]_(E!vars)
<1>1. CASE Asks
  <2>1. E!Ask
    BY <1>1 DEF Asks, E!Ask, Phase, Reported, R, Requests
  <2> QED
    BY <2>1 DEF E!Next
<1>2. CASE Serves
  <2>1. E!Serve
    BY <1>2 DEF Serves, E!Serve, Phase, Reported, R, Answers
  <2> QED
    BY <2>1 DEF E!Next
<1>3. CASE ReturnsIt
  <2>1. E!Return
    BY <1>3 DEF ReturnsIt, E!Return, Phase, Reported, R
  <2> QED
    BY <2>1 DEF E!Next
<1>4. CASE Fails
  <2>1. E!Fail
    BY <1>4 DEF Fails, E!Fail, Phase, Reported, R
  <2> QED
    BY <2>1 DEF E!Next
<1>5. CASE Same
  BY <1>5 DEF Same, Seen, E!vars, Phase, Reported, R
<1> QED
  BY <1>1, <1>2, <1>3, <1>4, <1>5

LEMMA SameStep ==
  ASSUME UNCHANGED <<result, served, R>>,
         cli' = cli \/ (cli \in {"take", "pairs", "reply"} /\ cli' \in {"take", "pairs", "reply"})
  PROVE  Same
<1>1. CASE cli' = cli
  BY <1>1 DEF Same, Seen, Phase, Reported, InExchange
<1>2. CASE cli \in {"take", "pairs", "reply"} /\ cli' \in {"take", "pairs", "reply"}
  <2>1. InExchange /\ InExchange'
    BY <1>2 DEF InExchange
  <2>2. Phase' = (IF served' = None THEN "asked" ELSE "served")
        /\ Reported' = IF served' = None THEN None ELSE Answered(served'.pairs, served')
    BY <2>1, SeenThen DEF SeenFacts
  <2> QED
    BY <2>1, <2>2, SeenIs DEF SeenFacts, Same, Seen
<1> QED
  BY <1>1, <1>2

LEMMA FailStep == ASSUME cli # "closed", cli' = "closed", R' = R PROVE Fails
<1>1. Phase' = "broken" /\ Reported' = None
  BY SeenThen DEF SeenFacts
<1>2. Phase # "broken"
  BY SeenIs DEF SeenFacts
<1> QED
  BY <1>1, <1>2 DEF Fails

(* Each step of the connection is one of the exchange, or none.            *)
LEMMA ClientStartsIt == ASSUME IpcInv, ClientStarts PROVE [E!Next]_(E!vars)
<1>1. ASSUME NEW c \in Commands, NEW n \in 0..Mistakes, Ask(c, n) PROVE [E!Next]_(E!vars)
  <2>1. cli = "idle"
    BY <1>1 DEF Ask, ClientIdle
  <2>2. CASE shut
    <3>1. cli' = "closed" /\ R' = R
      BY <1>1, <2>2 DEF Ask, R
    <3> QED
      BY <2>1, <3>1, FailStep, StepIs
  <2>3. CASE ~shut
    <3>1. cli' = "take" /\ served' = None /\ request'.cmd = c
      <4>1. PICK left : cli' = "take" /\ served' = None /\ request' = [cmd |-> c, left |-> left]
        BY <1>1, <2>3 DEF Ask
      <4> QED
        BY <4>1
    <3>2. InExchange'
      BY <3>1 DEF InExchange
    <3>3. Phase' = "asked" /\ Reported' = None
      BY <3>1, <3>2, SeenThen DEF SeenFacts
    <3>4. Phase = "idle"
      BY <2>1, SeenIs DEF SeenFacts
    <3>5. R' \in Requests
      BY <3>1 DEF R, Requests
    <3> QED
      BY <3>3, <3>4, <3>5, StepIs DEF Asks
  <2> QED
    BY <2>2, <2>3
<1>2. ASSUME NEW lines \in Strays, Stray(lines) PROVE [E!Next]_(E!vars)
  BY <1>2, SameStep, StepIs DEF Stray, ClientIdle, R
<1>3. CASE CloseConnection
  BY <1>3, FailStep, StepIs DEF CloseConnection, ClientIdle, R
<1> QED
  BY <1>1, <1>2, <1>3 DEF ClientStarts

LEMMA ClientSends == ASSUME IpcInv, SendPairs \/ ClientRecv \/ ClientTake PROVE [E!Next]_(E!vars)
<1>1. cli \in {"take", "pairs", "reply"} /\ served' = served
  BY DEF SendPairs, ClientRecv, ClientTake
<1>2. R' = R
  <2>1. request \in [cmd : Commands \cup {"none"}, left : Seq({"pair"})]
    BY DEF IpcInv, Ground, AskedInv
  <2>2. request'.cmd = request.cmd
    BY <2>1 DEF SendPairs, ClientRecv, ClientTake
  <2> QED
    BY <2>2 DEF R
<1>3. cli' = "closed" \/ (cli' \in {"take", "pairs", "reply"} /\ result' = result)
  BY DEF SendPairs, ClientRecv, ClientTake, GiveUp
<1> QED
  BY <1>1, <1>2, <1>3, FailStep, SameStep, StepIs

LEMMA ClientReturns == ASSUME IpcInv, ClientReply PROVE [E!Next]_(E!vars)
<1>1. cli = "reply" /\ served' = served /\ R' = R
  BY DEF ClientReply, R
<1>2. CASE cli' = "closed"
  BY <1>1, <1>2, FailStep, StepIs
<1>3. CASE cli' = "reply"
  <2>1. result' = result
    BY <1>3 DEF ClientReply, GiveUp
  <2> QED
    BY <1>1, <1>3, <2>1, SameStep, StepIs
<1>4. CASE cli' = "idle"
  <2>1. Served /\ resp = served.data /\ result' = Returned(served.ok)
    BY <1>4, Returns
  <2>2. PICK o \in Outcomes(R) : served = [pairs |-> R, ok |-> o.ok, data |-> o.data]
    BY <2>1 DEF Served
  <2>3. served # None /\ InExchange
    BY <1>1, <2>2, NotNone DEF InExchange
  <2>4. Phase = "served" /\ Reported = Answered(R, o)
    <3>1. Phase = "served" /\ Reported = Answered(served.pairs, served)
      BY <2>3, SeenIs DEF SeenFacts
    <3>2. Answered(served.pairs, served) = Answered(R, o)
      BY <2>2 DEF Answered
    <3> QED
      BY <3>1, <3>2
  <2>5. result' = [cmd |-> request.cmd, ok |-> o.ok, data |-> o.data,
                   success |-> ExitSuccess(request.cmd, o.ok, o.data)]
    BY <2>1, <2>2 DEF Returned
  <2>6. ExitSuccess(request.cmd, o.ok, o.data)
          = (o.ok /\ \A i \in DOMAIN o.data : o.data[i].val # 0)
    <3> DEFINE good == o.ok /\ \A i \in DOMAIN o.data : o.data[i].val # 0
    <3>1. ExitSuccess(request.cmd, o.ok, o.data) <=> good
      BY SuccessIs DEF R
    <3>2. ExitSuccess(request.cmd, o.ok, o.data) \in BOOLEAN /\ good \in BOOLEAN
      BY <2>2, OutcomesAre DEF ExitSuccess
    <3> QED
      BY <3>1, <3>2
  <2>7. result' # None
    BY <2>5 DEF None
  <2>8. Phase' = "idle" /\ Reported' = [of |-> RequestPairs(result'.cmd), ok |-> result'.ok,
                                        data |-> result'.data, success |-> result'.success]
    BY <1>4, <2>7, SeenThen DEF SeenFacts
  <2>9. Reported' = Answered(R, o)
    BY <2>5, <2>6, <2>8 DEF Answered, R
  <2> QED
    BY <1>1, <2>4, <2>8, <2>9, StepIs DEF ReturnsIt
<1> QED
  BY <1>2, <1>3, <1>4 DEF ClientReply, GiveUp

LEMMA ServerHandlesIt == ASSUME IpcInv, Handle PROVE [E!Next]_(E!vars)
<1>1. UNCHANGED <<cli, result, R>> /\ Ground /\ thread = "handle"
  BY DEF Handle, ServerOnly, IpcInv, R
<1>2. PICK o : Handled(o, msgs[FindMsg(current.id)])
  BY <1>1, HandleDoes
<1>3. CASE served' = served
  BY <1>1, <1>3, SameStep, StepIs
<1>4. CASE cli = "idle"
  BY <1>1, <1>4, StepIs DEF Same, Seen, Phase, Reported, InExchange
<1>5. CASE cli = "reply" /\ served = None
  <2>1. current.id = myId /\ FirstIn(msgs, myId, R)
    BY <1>1, <1>5 DEF IpcInv, Reply, Served, Waiting
  <2>2. msgs[FindMsg(current.id)] = [id |-> myId, pairs |-> R]
    BY <1>1, <2>1, FirstFound DEF Ground
  <2>3. o \in Outcomes(R) /\ served' = [pairs |-> R, ok |-> o.ok, data |-> o.data]
    BY <1>2, <1>5, <2>2 DEF Handled
  <2>4. served' # None /\ InExchange' /\ InExchange /\ request.cmd \in Commands
    BY <1>1, <1>5, <2>3, NotNone DEF InExchange, Ground, AskedInv
  <2>5. Phase = "asked" /\ Phase' = "served" /\ Reported' = Answered(served'.pairs, served')
    BY <1>5, <2>4, SeenIs, SeenThen DEF SeenFacts
  <2>6. Answered(served'.pairs, served') = Answered(R, o) /\ Answered(R, o).of = R
    BY <2>3 DEF Answered
  <2>7. Answered(R, o) \in Answers
    BY <2>3, <2>4 DEF Answers, R
  <2> QED
    BY <1>1, <2>5, <2>6, <2>7, StepIs DEF Serves
<1> QED
  BY <1>2, <1>3, <1>4, <1>5 DEF Handled

LEMMA ExchangeNext == ASSUME IpcInv, [Next]_vars PROVE [E!Next]_(E!vars)
<1>1. CASE UNCHANGED vars
  BY <1>1, SameStep, StepIs DEF vars, client, R
<1>2. CASE ServerRecv \/ ServerHangup \/ DrainEnds \/ HandleLine \/ Answer \/ Shutdown
  BY <1>2, SameStep, StepIs
  DEF ServerRecv, ServerHangup, DrainEnds, HandleLine, Answer, Shutdown, ServerOnly, client, R
<1>3. CASE ClientStarts \/ ClientRun \/ Handle
  BY <1>3, ClientStartsIt, ClientSends, ClientReturns, ServerHandlesIt DEF ClientRun
<1> QED
  BY <1>1, <1>2, <1>3 DEF Next, ServerRun

LEMMA ExchangeInit == ASSUME Init PROVE E!Init
BY DEF Init, E!Init, InExchange

-----------------------------------------------------------------------------
(* A step of all the clients is a step of the connection, or none of       *)
(* its.                                                                    *)
LEMMA ConnectionSteps == ASSUME [AllNext]_allvars PROVE [Next]_vars
BY DEF AllNext, allvars, ExchangeStep, DialogStep, GaugeStep

(* ipc_send_message promises its caller that the daemon carries the        *)
(* request out at most once, with the very pairs of the client, and that   *)
(* the call returns the code and the data of that, or fails - however the  *)
(* stream is cut up, whatever stray lines and earlier exchanges have left  *)
(* in it, and whenever the daemon shuts down.                              *)
THEOREM RequestsAtMostOnce == Mistakes = 0 => (AllSpec => AtMostOnce)
<1> SUFFICES ASSUME Mistakes = 0 PROVE AllSpec => AtMostOnce
  OBVIOUS
<1>1. AllInit => IpcInv /\ E!Init
  BY IpcInit, ExchangeInit DEF AllInit
<1>2. IpcInv /\ [AllNext]_allvars => IpcInv' /\ [E!Next]_(E!vars)
  BY ConnectionSteps, IpcNext, ExchangeNext
<1> QED
  BY <1>1, <1>2, PTL DEF AllSpec, AtMostOnce, E!Spec

-----------------------------------------------------------------------------
(* The lines that may still add a message: of ids that are not mine, and   *)
(* for the first of them, of none the server knows.                        *)
Adds(lines, i, mine, known) ==
  \/ lines[i].cmd \in {"HELLO", "TAKE"}
  \/ /\ GoodPair(lines[i]) /\ lines[i].id \notin mine
     /\ i = 1 => lines[i].id \notin known
     /\ i > 1 => ~(GoodPair(lines[i - 1]) /\ lines[i - 1].id = lines[i].id)
Coming(lines, mine, known) == {i \in DOMAIN lines : Adds(lines, i, mine, known)}
Ids(list) == {list[i].id : i \in DOMAIN list}
Mine == IF cli \in {"pairs", "reply"} THEN {myId} ELSE {}

(* An exchange has one message of its own, from its HELLO to its answer.   *)
Own == IF InExchange /\ ~(cli = "reply" /\ served # None /\ thread # "answer") THEN 1 ELSE 0
CountInv ==
  Open /\ Reading => Len(msgs) + Cardinality(Coming(UpLines, Mine, Ids(msgs))) <= strays + Own

(* There are finitely many of them.                                        *)
LEMMA ComingIs ==
  ASSUME NEW u \in Seq(LineUp), NEW mine, NEW known
  PROVE  /\ Coming(u, mine, known) \subseteq 1..Len(u) /\ IsFiniteSet(Coming(u, mine, known))
         /\ Cardinality(Coming(u, mine, known)) \in Nat
<1>1. Coming(u, mine, known) \subseteq 1..Len(u) /\ Len(u) \in Nat
  BY DEF Coming
<1>2. IsFiniteSet(1..Len(u))
  BY <1>1, FS_Interval
<1>3. IsFiniteSet(Coming(u, mine, known))
  BY <1>1, <1>2, FS_Subset
<1> QED
  BY <1>1, <1>3, FS_CardinalityType

(* A set whose members are, all moved by as much, members of a finite      *)
(* one has no more than that.                                              *)
LEMMA Shifted ==
  ASSUME NEW A, IsFiniteSet(A), NEW h \in Int, NEW B, \A j \in B : j \in Int /\ j + h \in A
  PROVE  IsFiniteSet(B) /\ Cardinality(B) <= Cardinality(A)
<1> DEFINE f == [j \in B |-> j + h]
<1>1. f \in [B -> A]
  OBVIOUS
<1>2. \A a, b \in B : f[a] = f[b] => a = b
  <2> TAKE a, b \in B
  <2>1. f[a] = a + h /\ f[b] = b + h /\ a \in Int /\ b \in Int
    OBVIOUS
  <2> HIDE DEF f
  <2> QED
    BY <2>1
<1>3. DOMAIN f = B
  OBVIOUS
<1> HIDE DEF f
<1>4. f \in Injection(B, A)
  BY <1>1, <1>2, <1>3 DEF Injection, IsInjective
<1> QED
  BY <1>4, FS_Injection

(* One line is read: if it added a message, there is one less to come.     *)
LEMMA ComingTail ==
  ASSUME NEW u \in Seq(LineUp), u # <<>>, NEW mine, NEW known, NEW after,
         GoodPair(u[1]) => u[1].id \in after
  PROVE  Cardinality(Coming(Tail(u), mine, after))
           <= Cardinality(Coming(u, mine, known))
                - (IF 1 \in Coming(u, mine, known) THEN 1 ELSE 0)
<1> DEFINE C == Coming(u, mine, known)
           t == Tail(u)
           B == Coming(t, mine, after)
           A == C \ {1}
<1>1. /\ 1 \in DOMAIN u
      /\ \A i \in DOMAIN t : i \in Nat \ {0} /\ i + 1 \in DOMAIN u /\ t[i] = u[i + 1]
  BY TailIs
<1>2. \A i \in DOMAIN t : i > 1 => i - 1 \in DOMAIN t /\ t[i - 1] = u[i]
  <2> SUFFICES ASSUME NEW i \in DOMAIN t, i > 1 PROVE i - 1 \in DOMAIN t /\ t[i - 1] = u[i]
    OBVIOUS
  <2> DEFINE h == i - 1
  <2>1. h \in DOMAIN t /\ h + 1 = i
    <3>1. t \in Seq(LineUp)
      BY TailIs
    <3> HIDE DEF t
    <3> QED
      BY <1>1, <3>1
  <2> HIDE DEF h
  <2>2. t[h] = u[i]
    BY <1>1, <2>1
  <2> QED
    BY <2>1, <2>2 DEF h
<1> HIDE DEF t
<1>3. IsFiniteSet(C) /\ Cardinality(C) \in Nat
  BY ComingIs
<1>4. /\ IsFiniteSet(A)
      /\ Cardinality(A) = IF 1 \in C THEN Cardinality(C) - 1 ELSE Cardinality(C)
  BY <1>3, FS_RemoveElement
<1>5. ASSUME NEW j \in B PROVE j \in Int /\ j + 1 \in A
  <2>1. j \in DOMAIN t /\ Adds(t, j, mine, after)
    BY DEF Coming
  <2> DEFINE h == j + 1
  <2>2. j \in Nat \ {0} /\ h \in DOMAIN u /\ t[j] = u[h] /\ h > 1 /\ h # 1 /\ h - 1 = j
    BY <1>1, <2>1
  <2> HIDE DEF h
  <2>3. Adds(u, h, mine, known)
    <3>1. CASE u[h].cmd \in {"HELLO", "TAKE"}
      BY <3>1 DEF Adds
    <3>2. CASE u[h].cmd \notin {"HELLO", "TAKE"}
      <4>1. /\ GoodPair(u[h]) /\ u[h].id \notin mine /\ (j = 1 => u[h].id \notin after)
            /\ j > 1 => ~(GoodPair(t[j - 1]) /\ t[j - 1].id = u[h].id)
        BY <2>1, <2>2, <3>2 DEF Adds
      <4>2. ~(GoodPair(u[j]) /\ u[j].id = u[h].id)
        <5>1. CASE j = 1
          BY <4>1, <5>1
        <5>2. CASE j # 1
          <6>1. j > 1
            BY <2>2, <5>2
          <6>2. t[j - 1] = u[j]
            BY <1>2, <2>1, <6>1
          <6> QED
            BY <4>1, <6>1, <6>2
        <5> QED
          BY <5>1, <5>2
      <4> QED
        BY <2>2, <4>1, <4>2 DEF Adds
    <3> QED
      BY <3>1, <3>2
  <2>4. h \in A
    BY <2>2, <2>3 DEF Coming
  <2> QED
    BY <2>2, <2>4 DEF h
<1> HIDE DEF A, B, C
<1>6. Cardinality(B) <= Cardinality(A)
  BY <1>4, <1>5, Shifted
<1>7. IsFiniteSet(B)
  BY <1>4, <1>5, Shifted
<1>8. Cardinality(B) \in Nat /\ Cardinality(A) \in Nat
  BY <1>4, <1>7, FS_CardinalityType
<1>9. Cardinality(B) <= Cardinality(C) - (IF 1 \in C THEN 1 ELSE 0)
  BY <1>3, <1>4, <1>6, <1>8
<1> QED
  BY <1>9 DEF B, C, t

(* Lines sent add what they add by themselves.                             *)
LEMMA ComingJoin ==
  ASSUME NEW u \in Seq(LineUp), NEW v \in Seq(LineUp), NEW mine, NEW known
  PROVE  Cardinality(Coming(u \o v, mine, known))
           <= Cardinality(Coming(u, mine, known)) + Cardinality(Coming(v, mine, {}))
<1> DEFINE w == u \o v
           n == Len(u)
           C == Coming(w, mine, known)
           U == Coming(u, mine, known)
           V == Coming(v, mine, {})
           B == {i \in C : i > n}
           A == {i \in C : i <= n}
<1>1. /\ w \in Seq(LineUp) /\ n \in Nat /\ DOMAIN u = 1..n
      /\ \A i \in DOMAIN u : i \in DOMAIN w /\ w[i] = u[i]
      /\ \A i \in DOMAIN w :
           \/ i \in DOMAIN u /\ w[i] = u[i]
           \/ i \notin DOMAIN u /\ i \in Nat /\ i > n /\ i - n \in DOMAIN v /\ w[i] = v[i - n]
  BY JoinIs
<1> HIDE DEF w, n
<1>2. /\ IsFiniteSet(U) /\ Cardinality(U) \in Nat /\ IsFiniteSet(V) /\ Cardinality(V) \in Nat
      /\ IsFiniteSet(C) /\ Cardinality(C) \in Nat
  BY <1>1, ComingIs
<1>3. A \subseteq U
  <2> SUFFICES ASSUME NEW i \in A PROVE i \in U
    OBVIOUS
  <2>1. i \in DOMAIN w /\ Adds(w, i, mine, known) /\ i <= n
    BY DEF Coming
  <2>2. i \in DOMAIN u /\ w[i] = u[i] /\ i \in 1..n
    BY <1>1, <2>1
  <2>3. i > 1 => w[i - 1] = u[i - 1]
    BY <1>1, <2>2
  <2>4. Adds(u, i, mine, known)
    BY <2>1, <2>2, <2>3 DEF Adds
  <2> QED
    BY <2>2, <2>4 DEF Coming
<1>4. ASSUME NEW i \in B PROVE i \in Int /\ i + (0 - n) \in V
  <2>1. i \in DOMAIN w /\ Adds(w, i, mine, known) /\ i > n
    BY DEF Coming
  <2> DEFINE j == i - n
  <2>2. /\ i \in Nat /\ j \in DOMAIN v /\ w[i] = v[j] /\ i + (0 - n) = j /\ j \in Nat \ {0}
    BY <1>1, <2>1
  <2>3. j > 1 => w[i - 1] = v[j - 1]
    <3> SUFFICES ASSUME j > 1 PROVE w[i - 1] = v[j - 1]
      OBVIOUS
    <3> DEFINE h == i - 1
               g == j - 1
    <3>1. h > n /\ h - n = g /\ h \in 1..Len(w) /\ h \notin DOMAIN u
      BY <1>1, <2>1, <2>2
    <3>2. h \in DOMAIN w
      BY <1>1, <3>1
    <3> HIDE DEF h, g
    <3>3. w[h] = v[g]
      BY <1>1, <3>1, <3>2
    <3> QED
      BY <3>3 DEF h, g
  <2>4. j > 1 => i > 1
    BY <1>1, <2>1, <2>2
  <2> HIDE DEF j
  <2>5. Adds(v, j, mine, {})
    BY <2>1, <2>2, <2>3, <2>4 DEF Adds
  <2>6. j \in V
    BY <2>2, <2>5 DEF Coming
  <2> HIDE DEF V
  <2> QED
    BY <2>2, <2>6
<1>5. C = A \cup B
  <2>1. \A i \in C : i \in Nat
    BY <1>1 DEF Coming
  <2> HIDE DEF C
  <2> QED
    BY <1>1, <2>1
<1> HIDE DEF A, B, C, U, V
<1>6. IsFiniteSet(A) /\ Cardinality(A) <= Cardinality(U)
  BY <1>2, <1>3, FS_Subset
<1>7. IsFiniteSet(B) /\ Cardinality(B) <= Cardinality(V)
  <2>1. 0 - n \in Int
    BY <1>1
  <2> QED
    BY <1>2, <1>4, <2>1, Shifted
<1>8. /\ Cardinality(C) = Cardinality(A) + Cardinality(B) - Cardinality(A \cap B)
      /\ Cardinality(A) \in Nat /\ Cardinality(B) \in Nat /\ Cardinality(A \cap B) \in Nat
  <2>1. Cardinality(A \cup B) = Cardinality(A) + Cardinality(B) - Cardinality(A \cap B)
    BY <1>6, <1>7, FS_Union
  <2>2. IsFiniteSet(A \cap B)
    BY <1>6, FS_Subset
  <2> QED
    BY <1>5, <1>6, <1>7, <2>1, <2>2, FS_CardinalityType
<1>9. Cardinality(C) <= Cardinality(U) + Cardinality(V)
  BY <1>2, <1>6, <1>7, <1>8
<1> QED
  BY <1>9 DEF C, U, V, w

(* A message more that is known adds none; an id that becomes mine lets    *)
(* one line less count, save the first.                                    *)
LEMMA ComingLess ==
  ASSUME NEW u \in Seq(LineUp), NEW mine, NEW known, NEW more, NEW after, mine \subseteq more
  PROVE  /\ Cardinality(Coming(u, more, after)) <= Cardinality(Coming(u, mine, known)) + 1
         /\ known \subseteq after =>
              Cardinality(Coming(u, more, after)) <= Cardinality(Coming(u, mine, known))
<1> DEFINE C == Coming(u, mine, known)
           B == Coming(u, more, after)
<1>1. /\ IsFiniteSet(C) /\ Cardinality(C) \in Nat /\ IsFiniteSet(B) /\ Cardinality(B) \in Nat
  BY ComingIs
<1>2. B \subseteq C \cup {1}
  BY DEF Coming, Adds
<1>3. known \subseteq after => B \subseteq C
  BY DEF Coming, Adds
<1> HIDE DEF B, C
<1>4. /\ IsFiniteSet(C \cup {1})
      /\ Cardinality(C \cup {1}) = IF 1 \in C THEN Cardinality(C) ELSE Cardinality(C) + 1
  BY <1>1, FS_AddElement
<1>5. Cardinality(B) <= Cardinality(C \cup {1})
  BY <1>2, <1>4, FS_Subset
<1>6. Cardinality(B) <= Cardinality(C) + 1
  BY <1>1, <1>4, <1>5
<1>7. known \subseteq after => Cardinality(B) <= Cardinality(C)
  BY <1>1, <1>3, FS_Subset
<1> QED
  BY <1>6, <1>7 DEF B, C

(* What is counted are numbers.                                            *)
LEMMA CountIs ==
  ASSUME Ground
  PROVE  /\ Len(msgs) \in Nat /\ strays \in Nat /\ Own \in {0, 1}
         /\ Reading => /\ UpLines \in Seq(LineUp)
                       /\ Cardinality(Coming(UpLines, Mine, Ids(msgs))) \in Nat
<1>1. Len(msgs) \in Nat /\ strays \in Nat /\ Own \in {0, 1}
  BY DEF Ground, TypeOK, Own
<1> QED
  BY <1>1, LinesAre, ComingIs

LEMMA ComingNone ==
  ASSUME NEW mine, NEW known
  PROVE  Cardinality(Coming(<<>>, mine, known)) = 0
<1>1. Coming(<<>>, mine, known) = {}
  BY DEF Coming
<1> QED
  BY <1>1, FS_EmptySet

LEMMA ComingOne ==
  ASSUME NEW v \in Seq(LineUp), NEW mine, Len(v) = 1
  PROVE  /\ Cardinality(Coming(v, mine, {})) \in {0, 1}
         /\ v[1].cmd \notin {"HELLO", "TAKE"} /\ (GoodPair(v[1]) => v[1].id \in mine) =>
              Cardinality(Coming(v, mine, {})) = 0
<1> DEFINE V == Coming(v, mine, {})
<1>1. DOMAIN v = {1}
  OBVIOUS
<1>2. V \subseteq {1}
  BY <1>1 DEF Coming
<1>3. v[1].cmd \notin {"HELLO", "TAKE"} /\ (GoodPair(v[1]) => v[1].id \in mine) => V = {}
  BY <1>1 DEF Coming, Adds
<1> HIDE DEF V
<1>4. V = {} \/ V = {1}
  BY <1>2
<1>5. Cardinality({1}) = 1 /\ Cardinality({}) = 0
  BY FS_Singleton, FS_EmptySet
<1> QED
  BY <1>3, <1>4, <1>5 DEF V

(* Steps that add no line and no message,                                  *)
LEMMA CountStill ==
  ASSUME IpcInv, CountInv, msgs' = msgs, strays' = strays,
         Own' \in {0, 1},
         Open' /\ Reading' => /\ Open /\ Reading /\ UpLines' = UpLines /\ Own <= Own'
                              /\ Mine \subseteq Mine' \/ UpLines = <<>>
  PROVE  CountInv'
<1> SUFFICES ASSUME Open', Reading'
             PROVE  Len(msgs') + Cardinality(Coming(UpLines', Mine', Ids(msgs'))) <= strays' + Own'
  BY DEF CountInv
<1> DEFINE c == Cardinality(Coming(UpLines, Mine, Ids(msgs)))
           d == Cardinality(Coming(UpLines, Mine', Ids(msgs)))
<1>1. /\ Len(msgs) \in Nat /\ strays \in Nat /\ Own \in {0, 1} /\ UpLines \in Seq(LineUp)
      /\ c \in Nat /\ Len(msgs) + c <= strays + Own
  BY CountIs DEF IpcInv, CountInv
<1>2. d \in Nat
  BY <1>1, ComingIs
<1>3. d <= c
  <2>1. CASE Mine \subseteq Mine'
    BY <1>1, <2>1, ComingLess
  <2>2. CASE UpLines = <<>>
    <3>1. c = 0 /\ d = 0
      BY <2>2, ComingNone
    <3> QED
      BY <3>1
  <2> QED
    BY <2>1, <2>2
<1>4. Cardinality(Coming(UpLines', Mine', Ids(msgs'))) = d
  OBVIOUS
<1> HIDE DEF c, d
<1> QED
  BY <1>1, <1>2, <1>3, <1>4

LEMMA QuietCounts ==
  ASSUME IpcInv, CountInv,
         \/ CloseConnection \/ ServerHangup \/ ServerRecv \/ DrainEnds \/ Shutdown \/ Handle
         \/ ClientRecv \/ ClientTake \/ ClientReply \/ UNCHANGED vars
  PROVE  CountInv'
<1>1. Ground /\ Own \in {0, 1} /\ Own' \in {0, 1}
  BY DEF IpcInv, Own
<1>2. CASE CloseConnection \/ ServerHangup
  BY <1>2 DEF CloseConnection, ServerHangup, CountInv, Open, Reading
<1>3. CASE ServerRecv \/ DrainEnds \/ Shutdown \/ UNCHANGED vars
  <2>1. UpLines' = UpLines
    BY <1>1, <1>3, ServerRecvDoes, DrainDoes, ShutdownDoes, SameUp DEF vars, server
  <2>2. UNCHANGED <<msgs, strays, cli, served, myId>>
    BY <1>3 DEF ServerRecv, DrainEnds, Shutdown, ServerOnly, vars, server, client
  <2>3. (thread' = "answer" <=> thread = "answer") /\ (thread' = "gone" <=> thread = "gone")
    BY <1>3 DEF ServerRecv, DrainEnds, Shutdown, vars, server
  <2>4. Own' = Own /\ Mine' = Mine
    BY <2>2, <2>3 DEF Own, Mine, InExchange
  <2>5. (Open' <=> Open) /\ (Reading' <=> Reading) /\ Own <= Own'
    BY <1>1, <2>2, <2>3, <2>4 DEF Open, Reading
  <2> QED
    BY <1>1, <2>1, <2>2, <2>4, <2>5, CountStill
<1>4. CASE Handle
  <2>1. UpLines' = UpLines
    BY <1>1, <1>4, HandleDoes
  <2>2. UNCHANGED <<msgs, strays, cli, myId>> /\ thread = "handle" /\ thread' = "answer"
        /\ (cli # "reply" => Own' = Own) /\ (cli = "reply" => Own' = 1)
    BY <1>4 DEF Handle, ServerOnly, Own, InExchange
  <2>3. Mine' = Mine /\ Open' = Open /\ Reading /\ Own <= Own'
    BY <1>1, <2>2 DEF Mine, Open, Reading
  <2> QED
    BY <1>1, <2>1, <2>2, <2>3, CountStill
<1>5. CASE ClientRecv
  <2>1. UpLines' = UpLines /\ cli' \in {cli, "closed"}
    BY <1>1, <1>5, RecvDoes
  <2>2. UNCHANGED <<msgs, strays, myId, served, thread>>
    BY <1>5 DEF ClientRecv, server
  <2>3. cli' = cli => Own' = Own /\ Mine' = Mine
    BY <2>2 DEF Own, Mine, InExchange
  <2>4. Open' => cli' = cli /\ Open /\ Own <= Own'
    BY <1>1, <2>1, <2>3 DEF Open
  <2>5. Reading' => Reading
    BY <2>2 DEF Reading
  <2> QED
    BY <1>1, <2>1, <2>2, <2>3, <2>4, <2>5, CountStill
<1>6. CASE ClientTake
  <2>1. UpLines' = UpLines /\ cli = "take" /\ cli' \in {"pairs", "closed"}
    BY <1>1, <1>6, TakeDoes DEF ClientTake
  <2>2. UNCHANGED <<msgs, strays, served, thread>>
    BY <1>6 DEF ClientTake, server
  <2>3. Open' => Own' = 1
    BY <2>1 DEF Own, InExchange, Open
  <2>4. Mine = {} /\ Open /\ (Reading' => Reading)
    BY <2>1, <2>2 DEF Mine, Open, Reading
  <2>5. Mine \subseteq Mine' /\ (Open' => Own <= Own')
    BY <1>1, <2>3, <2>4
  <2> QED
    BY <1>1, <2>1, <2>2, <2>4, <2>5, CountStill
<1>7. CASE ClientReply
  <2>1. UpLines' = UpLines /\ cli = "reply" /\ cli' \in {"reply", "closed", "idle"}
    BY <1>1, <1>7, ReplyDoes DEF ClientReply
  <2>2. UNCHANGED <<msgs, strays, served, thread, myId>>
    BY <1>7 DEF ClientReply, server
  <2>3. Open /\ (Reading' => Reading)
    BY <2>1, <2>2 DEF Open, Reading
  <2>4. CASE cli' = "reply"
    <3>1. Own' = Own /\ Mine' = Mine
      BY <2>1, <2>2, <2>4 DEF Own, Mine, InExchange
    <3>2. Own <= Own'
      BY <1>1, <3>1
    <3> QED
      BY <1>1, <2>1, <2>2, <2>3, <3>1, <3>2, CountStill
  <2>5. CASE cli' = "idle"
    <3>1. Served /\ thread \in {"poll", "drain", "gone"}
      BY <1>7, <2>5, Returns
    <3>2. served # None
      BY <3>1, NotNone DEF Served
    <3>3. Own = 0
      BY <2>1, <3>1, <3>2 DEF Own
    <3>4. Reading => UpLines = <<>>
      BY <3>1 DEF Served
    <3>5. Own <= Own'
      BY <1>1, <3>3
    <3> QED
      BY <1>1, <2>1, <2>2, <2>3, <3>4, <3>5, CountStill
  <2>6. CASE cli' = "closed"
    BY <2>6 DEF CountInv, Open
  <2> QED
    BY <2>1, <2>4, <2>5, <2>6
<1> QED
  BY <1>2, <1>3, <1>4, <1>5, <1>6, <1>7

(* steps of the client that add lines,                                     *)
LEMMA CountJoin ==
  ASSUME IpcInv, CountInv, Open, Reading, NEW v \in Seq(LineUp), UpLines' = UpLines \o v,
         msgs' = msgs, Mine' = Mine, strays' \in Nat, Own' \in {0, 1},
         strays + Own + Cardinality(Coming(v, Mine, {})) <= strays' + Own'
  PROVE  CountInv'
<1> DEFINE c == Cardinality(Coming(UpLines, Mine, Ids(msgs)))
           e == Cardinality(Coming(v, Mine, {}))
           w == UpLines \o v
           d == Cardinality(Coming(w, Mine, Ids(msgs)))
<1>1. /\ Len(msgs) \in Nat /\ strays \in Nat /\ Own \in {0, 1} /\ UpLines \in Seq(LineUp)
      /\ c \in Nat /\ Len(msgs) + c <= strays + Own
  BY CountIs DEF IpcInv, CountInv
<1>2. w \in Seq(LineUp) /\ e \in Nat
  BY <1>1, ComingIs
<1>3. d \in Nat
  BY <1>2, ComingIs
<1>4. d <= c + e
  BY <1>1, ComingJoin
<1>5. Cardinality(Coming(UpLines', Mine', Ids(msgs'))) = d
  OBVIOUS
<1>6. Len(msgs') + d <= strays' + Own'
  <2> DEFINE m == Len(msgs)
             b == strays + Own
             b1 == strays' + Own'
  <2>a. b + e <= b1
    OBVIOUS
  <2> HIDE DEF c, d, e
  <2>b. m \in Nat /\ b \in Nat /\ m + c <= b
    BY <1>1
  <2>c. b1 \in Nat /\ Len(msgs') = m
    <3> DEFINE o == Own'
               t == strays'
    <3>1. o \in {0, 1} /\ t \in Nat /\ b1 = t + o
      OBVIOUS
    <3>2. Len(msgs') = m
      OBVIOUS
    <3> HIDE DEF m, b, b1, o, t
    <3>3. b1 \in Nat
      BY <3>1
    <3> QED
      BY <3>2, <3>3
  <2> HIDE DEF m, b, b1
  <2>1. m \in Nat /\ b \in Nat /\ b1 \in Nat /\ m + c <= b /\ b + e <= b1 /\ Len(msgs') = m
    BY <2>a, <2>b, <2>c
  <2>2. m + d <= b1
    BY <1>1, <1>2, <1>3, <1>4, <2>1
  <2> QED
    BY <2>1, <2>2 DEF b1
<1> QED
  BY <1>5, <1>6 DEF CountInv

LEMMA SendingCounts ==
  ASSUME IpcInv, CountInv, Mistakes = 0, SendPairs \/ ClientStarts
  PROVE  CountInv'
<1>1. Ground /\ strays \in Nat /\ Own \in {0, 1} /\ Own' \in {0, 1}
  BY CountIs DEF IpcInv, Own
<1>2. ~Open' \/ ~Reading' => CountInv'
  BY DEF CountInv
<1>3. ASSUME NEW c \in Commands, NEW n \in 0..Mistakes, Ask(c, n), Open', Reading' PROVE CountInv'
  <2> DEFINE v == <<Line("HELLO", NotANumber)>>
  <2>1. UpLines' = UpLines \o v
    BY <1>1, <1>3, AskDoes DEF Open
  <2>2. /\ UNCHANGED <<msgs, strays, thread>> /\ cli = "idle" /\ cli' \in {"take", "closed"}
    BY <1>3 DEF Ask, ClientIdle, server
  <2>3. Own = 0 /\ Own' = 1 /\ Mine' = Mine /\ Open /\ Reading
    BY <1>3, <2>2 DEF Own, Mine, InExchange, Open, Reading
  <2>4. v \in Seq(LineUp) /\ Len(v) = 1
    BY <1>1, OwnLines
  <2> HIDE DEF v
  <2>5. Cardinality(Coming(v, Mine, {})) \in {0, 1}
    BY <2>4, ComingOne
  <2>6. strays + Own + Cardinality(Coming(v, Mine, {})) <= strays' + Own'
    BY <1>1, <2>2, <2>3, <2>5
  <2>7. strays' \in Nat
    BY <1>1, <2>2
  <2> QED
    BY <1>1, <2>1, <2>2, <2>3, <2>4, <2>6, <2>7, CountJoin
<1>4. ASSUME NEW lines \in Strays, Stray(lines), Open', Reading' PROVE CountInv'
  <2>1. UpLines' = UpLines \o lines /\ lines \in Seq(LineUp)
    BY <1>1, <1>4, StrayDoes, OwnLines
  <2>2. /\ UNCHANGED <<msgs, thread, cli>> /\ cli = "idle" /\ strays' = strays + 1
    BY <1>4 DEF Stray, ClientIdle, server
  <2>3. Own = 0 /\ Own' = 0 /\ Mine' = Mine /\ Mine = {} /\ Open /\ Reading
    BY <1>4, <2>2 DEF Own, Mine, InExchange, Open, Reading
  <2>4. Coming(lines, {}, {}) = Makes(lines)
    <3>1. ASSUME NEW i \in DOMAIN lines
          PROVE  Adds(lines, i, {}, {}) <=>
                   \/ lines[i].cmd \in {"HELLO", "TAKE"}
                   \/ /\ GoodPair(lines[i])
                      /\ i > 1 => ~(GoodPair(lines[i - 1]) /\ lines[i - 1].id = lines[i].id)
      BY DEF Adds
    <3> QED
      BY <3>1 DEF Coming, Makes
  <2>5. Cardinality(Makes(lines)) <= 1
    BY StraysAssumption
  <2>6. Cardinality(Makes(lines)) \in Nat
    BY <2>1, <2>4, ComingIs
  <2>7. Cardinality(Coming(lines, Mine, {})) = Cardinality(Makes(lines))
    BY <2>3, <2>4
  <2>8. strays + Own + Cardinality(Coming(lines, Mine, {})) <= strays' + Own' /\ strays' \in Nat
    BY <1>1, <2>2, <2>3, <2>5, <2>6, <2>7
  <2> QED
    BY <1>1, <2>1, <2>2, <2>3, <2>8, CountJoin
<1>5. ASSUME SendPairs, Open', Reading' PROVE CountInv'
  <2>1. cli = "pairs" /\ served = None /\ UNCHANGED <<msgs, thread, strays, served, myId>>
    BY <1>5 DEF SendPairs, server, IpcInv, Ground, AskedInv
  <2>2. /\ cli' \in {"pairs", "reply"}
        /\ \E x : /\ UpLines' = UpLines \o <<x>> /\ <<x>> \in Seq(LineUp) /\ x.id = myId
                  /\ x.cmd \notin {"HELLO", "TAKE"}
    <3>1. /\ cli' # "closed" /\ myId \in Nat
      BY <1>5, <2>1 DEF Open, IpcInv, Ground, AskedInv
    <3>2. CASE request.left # <<>> /\ cli' = "pairs" /\ UpLines' = UpLines \o <<NextPair>>
      <4>1. /\ <<NextPair>> \in Seq(LineUp)
            /\ NextPair = Pair("PAIR", myId, R[Len(R) + 1 - Len(request.left)].key,
                                             R[Len(R) + 1 - Len(request.left)].val)
        BY <1>1, <2>1, <3>2, NextPairIs
      <4>2. NextPair.cmd = "PAIR" /\ NextPair.id = myId
        <5> DEFINE k == R[Len(R) + 1 - Len(request.left)].key
                   l == R[Len(R) + 1 - Len(request.left)].val
        <5>1. NextPair = Pair("PAIR", myId, k, l)
          BY <4>1
        <5> HIDE DEF k, l
        <5> QED
          BY <5>1 DEF Pair
      <4> QED
        BY <3>2, <4>1, <4>2
    <3>3. CASE cli' = "reply" /\ UpLines' = UpLines \o <<Line("DONE", myId)>>
      <4>1. <<Line("DONE", myId)>> \in Seq(LineUp)
        BY <1>1, OwnLines
      <4>2. Line("DONE", myId).id = myId /\ Line("DONE", myId).cmd = "DONE"
        BY DEF Line
      <4> QED
        BY <3>3, <4>1, <4>2
    <3> QED
      BY <1>1, <1>5, <3>1, <3>2, <3>3, SendDoes
  <2>3. PICK x : /\ UpLines' = UpLines \o <<x>> /\ <<x>> \in Seq(LineUp) /\ x.id = myId
                 /\ x.cmd \notin {"HELLO", "TAKE"}
    BY <2>2
  <2>4. Own = 1 /\ Own' = 1 /\ Mine' = Mine /\ Mine = {myId} /\ Open /\ Reading
    BY <1>5, <2>1, <2>2 DEF Own, Mine, InExchange, Open, Reading
  <2> DEFINE v == <<x>>
  <2>5. v \in Seq(LineUp) /\ Len(v) = 1 /\ v[1] = x /\ UpLines' = UpLines \o v
    BY <2>3
  <2> HIDE DEF v
  <2>6. Cardinality(Coming(v, Mine, {})) = 0
    BY <2>3, <2>4, <2>5, ComingOne
  <2>7. strays + Own + Cardinality(Coming(v, Mine, {})) <= strays' + Own' /\ strays' \in Nat
    BY <1>1, <2>1, <2>4, <2>6
  <2> QED
    BY <1>1, <2>1, <2>4, <2>5, <2>7, CountJoin
<1>6. CASE CloseConnection
  BY <1>6, QuietCounts
<1> QED
  BY <1>2, <1>3, <1>4, <1>5, <1>6 DEF ClientStarts

(* and steps of the server with a line, or with the answer.                *)
LEMMA LineCounts == ASSUME IpcInv, CountInv, HandleLine PROVE CountInv'
<1> DEFINE line == UpLines[1]
           C == Coming(UpLines, Mine, Ids(msgs))
<1>1. /\ Ground /\ thread = "drain" /\ UpLines # <<>> /\ UpLines \in Seq(LineUp)
      /\ line \in LineUp /\ UpLines' = Tail(UpLines) /\ LineSteps(line) /\ Reading
      /\ msgs \in Seq(Message)
  BY FirstUp, HandleLineDoes DEF IpcInv, Ground, Reading
<1>2. UNCHANGED <<cli, strays, served, myId, shut>>
  BY DEF HandleLine, ServerOnly
<1>3. /\ line.id \in Int /\ (line.cmd \in {"TAKE", "PAIR"} => line.id \in Nat)
      /\ GoodPair(line) => [key |-> line.key, val |-> line.val] \in [key : Keys, val : Vals]
  BY <1>1, LineUpIs
<1>4. 1 \in DOMAIN UpLines
  BY <1>1, TailIs
<1>5. line.cmd \in {"HELLO", "TAKE"} => 1 \in C
  BY <1>4 DEF Coming, Adds
<1>6. GoodPair(line) /\ ~Known(line.id) /\ Open => 1 \in C
  <2> SUFFICES ASSUME GoodPair(line), ~Known(line.id), Open PROVE 1 \in C
    OBVIOUS
  <2>1. line.id \notin Ids(msgs)
    BY DEF Ids, Known
  <2>2. line.id \notin Mine
    <3> SUFFICES ASSUME cli \in {"pairs", "reply"} PROVE Known(myId)
      BY DEF Mine
    <3>1. \E k : Underway(R, myId, UpLines, msgs, k)
      BY <1>1 DEF IpcInv, Pairs, Reply, Waiting, Served
    <3>2. \E p : FirstIn(msgs, myId, p)
      BY <3>1 DEF Underway
    <3> QED
      BY <1>1, <3>2, FirstFound
  <2> QED
    BY <1>4, <2>1, <2>2 DEF Coming, Adds
<1> HIDE DEF line, C
<1>7. /\ Open => Len(msgs') \in {Len(msgs), Len(msgs) + 1}
      /\ Open => (Len(msgs') = Len(msgs) + 1 => 1 \in C)
      /\ GoodPair(line) => line.id \in Ids(msgs')
      /\ thread' # "answer"
  <2>0. <<>> \in Seq([key : Keys, val : Vals]) /\ nextId \in Nat
    BY <1>1 DEF Ground, TypeOK
  <2>9. Len(msgs) \in Nat /\ Len(msgs) # Len(msgs) + 1
    BY <1>1
  <2>1. CASE line.cmd = "HELLO" /\ HandleHello
    <3>1. Len(AddMsg(nextId, <<>>)) = Len(msgs) + 1
      BY <1>1, <2>0, MsgAdded
    <3> QED
      BY <1>1, <1>5, <2>1, <2>9, <3>1 DEF HandleHello, GoodPair
  <2>2. CASE line.cmd = "TAKE" /\ HandleTake(line)
    <3>1. Len(AddMsg(line.id, <<>>)) = Len(msgs) + 1
      BY <1>1, <1>3, <2>0, <2>2, MsgAdded
    <3> QED
      BY <1>1, <1>5, <2>2, <2>9, <3>1 DEF HandleTake, GoodPair
  <2>3. CASE GoodPair(line) /\ HandlePair(line)
    <3> DEFINE p == [key |-> line.key, val |-> line.val]
               P == [key : Keys, val : Vals]
    <3>1. p \in P /\ line.id \in Nat /\ line.key # "bad"
      BY <1>3, <2>3 DEF GoodPair
    <3>2. /\ msgs' = IF Known(line.id)
                     THEN [msgs EXCEPT ![FindMsg(line.id)].pairs = Append(@, p)]
                     ELSE AddMsg(line.id, <<p>>)
          /\ thread' = thread
      BY <2>3, <3>1 DEF HandlePair
    <3> HIDE DEF p
    <3>3. CASE Known(line.id)
      <4> DEFINE i == FindMsg(line.id)
                 after == [msgs EXCEPT ![i].pairs = Append(@, p)]
      <4>1. i \in 1..Len(msgs) /\ msgs[i].id = line.id
        BY <1>1, <3>3, MsgFound
      <4> HIDE DEF i
      <4>2. after \in Seq(Message) /\ Len(after) = Len(msgs) /\ after[i].id = msgs[i].id
        <5>1. msgs \in Seq(Message) /\ p \in [key : Keys, val : Vals]
          BY <1>1, <3>1
        <5> HIDE DEF P
        <5> QED
          BY <4>1, <5>1, MsgGrown
      <4>3. msgs' = after
        BY <3>2, <3>3 DEF i
      <4> HIDE DEF after
      <4>4. i \in DOMAIN msgs' /\ msgs'[i].id = line.id
        BY <4>1, <4>2, <4>3
      <4>5. line.id \in Ids(msgs')
        BY <4>4 DEF Ids
      <4> QED
        BY <1>1, <2>9, <3>2, <4>2, <4>3, <4>5
    <3>4. CASE ~Known(line.id)
      <4> HIDE DEF P
      <4>1. <<p>> \in Seq(P)
        BY <3>1
      <4>2. /\ AddMsg(line.id, <<p>>) \in Seq(Message)
            /\ Len(AddMsg(line.id, <<p>>)) = Len(msgs) + 1
            /\ AddMsg(line.id, <<p>>)[1] = [id |-> line.id, pairs |-> <<p>>]
        BY <1>1, <3>1, <4>1, MsgAdded DEF P
      <4>3. msgs' = AddMsg(line.id, <<p>>)
        BY <3>2, <3>4
      <4>4. 1 \in DOMAIN msgs' /\ msgs'[1].id = line.id
        BY <2>9, <4>2, <4>3
      <4>5. line.id \in Ids(msgs')
        BY <4>4 DEF Ids
      <4> QED
        BY <1>1, <1>6, <2>3, <3>2, <3>4, <4>2, <4>3, <4>5
    <3> QED
      BY <3>3, <3>4
  <2>4. CASE line.cmd = "PAIR" /\ line.key = "bad" /\ HandlePair(line)
    BY <1>1, <2>4, <2>9 DEF HandlePair, GoodPair
  <2>5. CASE line.cmd = "DONE" /\ HandleDone(line)
    BY <1>1, <2>5, <2>9 DEF HandleDone, GoodPair
  <2>6. CASE line.cmd \in {"RESPDATA", "RESPONSE", "malformed", "PING", "PONG"}
             /\ (HandleDummy \/ HandleMalformed(line) \/ HandleUnknown)
    BY <1>1, <2>6, <2>9 DEF HandleDummy, HandleMalformed, HandleUnknown, GoodPair
  <2> QED
    BY <1>1, <2>1, <2>2, <2>3, <2>4, <2>5, <2>6 DEF LineSteps
<1>8. CASE ~Open
  BY <1>2, <1>8 DEF CountInv, Open
<1>9. CASE Open
  <2> DEFINE c == Cardinality(C)
             t == Tail(UpLines)
             d == Cardinality(Coming(t, Mine, Ids(msgs')))
  <2>1. /\ Len(msgs) \in Nat /\ strays \in Nat /\ Own \in {0, 1} /\ c \in Nat
        /\ Len(msgs) + c <= strays + Own
    BY <1>1, <1>9, CountIs DEF CountInv, C
  <2>2. d <= c - (IF 1 \in C THEN 1 ELSE 0)
    BY <1>1, <1>7, ComingTail DEF C, line
  <2>3. d \in Nat
    <3>1. t \in Seq(LineUp)
      BY <1>1, TailIs
    <3> HIDE DEF t
    <3> QED
      BY <3>1, ComingIs
  <2>4. Own' = Own /\ Mine' = Mine
    BY <1>1, <1>2, <1>7 DEF Own, Mine, InExchange
  <2>5. Cardinality(Coming(UpLines', Mine', Ids(msgs'))) = d
    BY <1>1, <2>4
  <2> HIDE DEF c, d
  <2>6. Len(msgs') + d <= strays' + Own'
    BY <1>2, <1>7, <1>9, <2>1, <2>2, <2>3, <2>4
  <2> QED
    BY <2>5, <2>6 DEF CountInv
<1> QED
  BY <1>8, <1>9

LEMMA AnswerCounts == ASSUME IpcInv, CountInv, Answer PROVE CountInv'
<1>1. /\ Ground /\ thread = "answer" /\ thread' = "drain" /\ UpLines' = UpLines /\ Reading
      /\ Len(msgs') = Len(msgs) - 1
  BY AnswerDoes DEF Answer, IpcInv, Reading
<1>2. UNCHANGED <<cli, strays, served, myId>>
  BY DEF Answer, ServerOnly
<1>3. Mine' = Mine /\ (Open' <=> Open) /\ Own' \in {0, 1}
  BY <1>2 DEF Mine, Open, Own
<1> DEFINE c == Cardinality(Coming(UpLines, Mine, Ids(msgs)))
           d == Cardinality(Coming(UpLines, Mine, Ids(msgs')))
<1>4. /\ Len(msgs) \in Nat /\ strays \in Nat /\ Own \in {0, 1} /\ c \in Nat /\ d \in Nat
      /\ Open => Len(msgs) + c <= strays + Own
  BY <1>1, CountIs, ComingIs DEF CountInv
<1>5. d <= c + 1
  BY <1>1, CountIs, ComingLess
<1>6. cli = "reply" => c = 0 /\ d = 0
  <2> SUFFICES ASSUME cli = "reply" PROVE c = 0 /\ d = 0
    OBVIOUS
  <2>1. UpLines = <<>>
    BY <1>1 DEF IpcInv, Reply, Waiting, Served
  <2> QED
    BY <2>1, ComingNone
<1>7. cli # "reply" => Own' = Own
  BY <1>2 DEF Own, InExchange
<1>8. Cardinality(Coming(UpLines', Mine', Ids(msgs'))) = d
  BY <1>1, <1>3
<1> HIDE DEF c, d
<1>9. Open => Len(msgs') + d <= strays' + Own'
  <2>1. CASE cli = "reply"
    BY <1>1, <1>2, <1>3, <1>4, <1>6, <2>1
  <2>2. CASE cli # "reply"
    BY <1>1, <1>2, <1>3, <1>4, <1>5, <1>7, <2>2
  <2> QED
    BY <2>1, <2>2
<1> QED
  BY <1>3, <1>8, <1>9 DEF CountInv

(* So the count is kept at every moment.                                   *)
LEMMA CountNext == ASSUME IpcInv, CountInv, Mistakes = 0, [Next]_vars PROVE CountInv'
BY QuietCounts, SendingCounts, LineCounts, AnswerCounts DEF Next, ClientRun, ServerRun, ClientStarts

LEMMA CountInit == ASSUME Init PROVE CountInv
<1>1. UpLines = <<>>
  BY DEF Init, UpLines, LinesOf
<1>2. Len(msgs) = 0 /\ strays = 0 /\ Own = 0
  BY DEF Init, Own, InExchange
<1>3. Cardinality(Coming(UpLines, Mine, Ids(msgs))) = 0
  BY <1>1, ComingNone
<1> QED
  BY <1>2, <1>3 DEF CountInv

(* The server's list of messages does not grow with the exchanges of a     *)
(* connection: what is on it between two exchanges are messages that stray *)
(* lines have made, at most one for each burst of them.                    *)
THEOREM MessagesAreAccounted == Mistakes = 0 => (AllSpec => []MessagesAccounted)
<1> SUFFICES ASSUME Mistakes = 0 PROVE AllSpec => []MessagesAccounted
  OBVIOUS
<1> DEFINE I == IpcInv /\ CountInv
<1>1. AllInit => I
  BY IpcInit, CountInit DEF AllInit
<1>2. I /\ [AllNext]_allvars => I'
  BY ConnectionSteps, IpcNext, CountNext
<1>3. I => MessagesAccounted
  <2> SUFFICES ASSUME I PROVE MessagesAccounted
    OBVIOUS
  <2>1. TypeOK /\ Ground
    BY DEF IpcInv, Ground
  <2>2. ASSUME cli = "idle" PROVE Len(msgs) <= strays
    <3>1. /\ Len(msgs) \in Nat /\ strays \in Nat /\ Own = 0 /\ Open
          /\ Reading => Cardinality(Coming(UpLines, Mine, Ids(msgs))) \in Nat
      BY <2>1, <2>2, CountIs DEF Own, InExchange, Open
    <3>2. CASE Reading
      BY <3>1, <3>2 DEF CountInv
    <3>3. CASE ~Reading
      <4>1. msgs = <<>>
        BY <2>1, <3>3 DEF Ground, ThreadInv
      <4> QED
        BY <3>1, <4>1
    <3> QED
      BY <3>2, <3>3
  <2> QED
    BY <2>1, <2>2 DEF MessagesAccounted
<1> QED
  BY <1>1, <1>2, <1>3, PTL DEF AllSpec
=============================================================================
