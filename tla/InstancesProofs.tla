--------------------------- MODULE InstancesProofs ---------------------------
(***************************************************************************)
(* Proofs about Instances, for any numbers of dialogs, widgets, plugins    *)
(* and waiters, any size of the pool, and any number of inputs.            *)
(***************************************************************************)
EXTENDS Instances, SequenceLemmas

(* A wait under way, in a pass of its loop. *)
Waits == {wait \in [pc : {"awake"}, kind : {"result", "event"}, id : Ids,
                    gen : 0..MaxGenerations] : wait.gen <= nextGeneration}

(* Who waits waits for something; nobody knows a generation not given yet. *)
WaiterInv ==
  /\ \A w \in Workers :
       /\ waiter[w].pc # "idle" => waiter[w].id \in Ids
       /\ waiter[w].kind \in {"result", "event"} \/ waiter[w].pc = "idle"
       /\ waiter[w].gen <= nextGeneration
  /\ \A id \in Ids : inst[id] # None => inst[id].gen <= nextGeneration

(* What an input still has to do is an event, the end, or one after the    *)
(* other, to a dialog that is there and not finished.                      *)
AgendaInv ==
  agenda # <<>> =>
    /\ target \in Ids /\ inst[target] # None /\ ~inst[target].finished
    /\ \/ agenda = <<Finish>>
       \/ \E e \in Events : agenda = <<e>> \/ agenda = <<e, Finish>>

(* A generation reported as finished is finished and has nothing pending.  *)
FinalInv ==
  reply # None /\ reply.how = "finished" =>
    /\ reply.id \in Ids /\ reply.gen \in 0..nextGeneration
    /\ inst[reply.id] # None /\ inst[reply.id].gen = reply.gen =>
         inst[reply.id].finished /\ inst[reply.id].count = 0

(* What is pending lists the events of the history that still count.       *)
RawInv ==
  /\ raw \in [Ids -> Seq(Events)]
  /\ \A id \in Ids : inst[id] # None /\ ~inst[id].overflow =>
       IsListOf(inst[id].pending, raw[id], Kept(raw[id]))

IInv == TypeOK /\ PoolConserved /\ WaiterInv /\ AgendaInv /\ FinalInv
          /\ SleepersHaveCause /\ EventsOfOwnGeneration /\ RawInv

-----------------------------------------------------------------------------
USE ConstAssumption, NoneAssumption DEF Instance, WaitRec, NoWait

(* Every step is one of these; a wait's pass is under way with a wait.     *)
LEMMA StepIsOne ==
  ASSUME TypeOK, WaiterInv, Next
  PROVE  \/ \E id \in Ids, p \in Plugins : Create(id, p)
         \/ \E id \in Ids : Delete(id) \/ Input(id)
         \/ QueueEvent \/ SetFinished \/ Stop
         \/ \E w \in Workers : FetchResult(w) \/ \E wait \in Waits : Pass(w, wait)
<1>1. ASSUME NEW w \in Workers, Resume(w)
      PROVE  \E wait \in Waits : Pass(w, wait)
  <2>1. waiter[w] \in Waits
    BY <1>1 DEF Resume, Waits, TypeOK, WaiterInv
  <2> QED
    BY <1>1, <2>1 DEF Resume
<1>2. ASSUME NEW w \in Workers, NEW kind \in {"result", "event"}, NEW id \in Ids,
             Wait(w, kind, id)
      PROVE  \E wait \in Waits : Pass(w, wait)
  <2> DEFINE wait == [pc |-> "awake", kind |-> kind, id |-> id,
                      gen |-> IF inst[id] = None THEN 0 ELSE inst[id].gen]
  <2>1. wait \in Waits
    BY DEF Waits, TypeOK, WaiterInv
  <2> QED
    BY <1>2, <2>1 DEF Wait
<1> QED
  BY <1>1, <1>2 DEF Next, UiRun, UiMay, WorkerRun, Requests

(* Taking one entry out leaves the others.                                 *)
LEMMA WithoutOne ==
  ASSUME NEW q \in Seq(Events), NEW i \in 1..Len(q)
  PROVE  Without(q, i) \in Seq(Events) /\ Len(Without(q, i)) = Len(q) - 1
<1>1. SubSeq(q, 1, i - 1) \in Seq(Events) /\ Len(SubSeq(q, 1, i - 1)) = i - 1
  OBVIOUS
<1>2. /\ SubSeq(q, i + 1, Len(q)) \in Seq(Events)
      /\ Len(SubSeq(q, i + 1, Len(q))) = Len(q) - i
  OBVIOUS
<1> DEFINE a == SubSeq(q, 1, i - 1)
           b == SubSeq(q, i + 1, Len(q))
<1>3. Without(q, i) = a \o b /\ Len(q) \in Nat
  BY DEF Without
<1> HIDE DEF a, b
<1>4. a \o b \in Seq(Events) /\ Len(a \o b) = Len(a) + Len(b)
  BY <1>1, <1>2 DEF a, b
<1>5. Len(a) = i - 1 /\ Len(b) = Len(q) - i
  BY <1>1, <1>2 DEF a, b
<1> QED
  BY <1>3, <1>4, <1>5

(* The entry of a pending change is one of the queue's. *)
LEMMA CoalescibleIsEntry ==
  ASSUME NEW q \in Seq(Events), NEW e \in Events
  PROVE  Coalescible(q, e) \in 0..Len(q)
BY DEF Coalescible

(* An instance as the pool has it: what is pending is counted, and the     *)
(* rest of the pool is free.                                               *)
Pooled(x) == x \in Instance /\ x.count = Len(x.pending) /\ x.count + x.free = MaxEvents

(* Queueing an event moves one entry from the free to the pending, or      *)
(* reuses one, or only records the overflow.                               *)
LEMMA QueuedIsPooled ==
  ASSUME NEW x, Pooled(x), NEW e \in Events
  PROVE  /\ Pooled(Queued(x, e))
         /\ Queued(x, e).gen = x.gen /\ Queued(x, e).finished = x.finished
<1> DEFINE i == IF e.kind = "change" THEN Coalescible(x.pending, e) ELSE 0
<1> USE DEF Pooled
<1>1. x.pending \in Seq(Events) /\ i \in 0..Len(x.pending)
  BY CoalescibleIsEntry
<1> HIDE DEF i
<1>2. CASE i # 0
  <2> DEFINE rest == Without(x.pending, i)
  <2>1. rest \in Seq(Events) /\ Len(rest) = Len(x.pending) - 1
    BY <1>1, <1>2, WithoutOne
  <2> HIDE DEF rest
  <2>2. Append(rest, e) \in Seq(Events) /\ Len(Append(rest, e)) = Len(x.pending)
    BY <1>1, <2>1
  <2>3. Queued(x, e) = [x EXCEPT !.pending = Append(rest, e)]
    BY <1>2 DEF Queued, i, rest
  <2> QED
    BY <2>2, <2>3
<1>3. CASE i = 0 /\ x.free > 0
  <2>2. /\ Append(x.pending, e) \in Seq(Events)
        /\ Len(Append(x.pending, e)) = Len(x.pending) + 1
    BY <1>1
  <2>1. Queued(x, e) = [x EXCEPT !.pending = Append(x.pending, e), !.free = x.free - 1,
                                 !.count = x.count + 1]
    BY <1>3 DEF Queued, i
  <2>3. x.free \in Nat /\ x.count \in Nat /\ x.count + 1 \in 0..MaxEvents
          /\ x.free - 1 \in 0..MaxEvents
    BY <1>3
  <2>4. Queued(x, e) \in Instance
    BY <2>1, <2>2, <2>3
  <2>5. /\ Queued(x, e).pending = Append(x.pending, e)
        /\ Queued(x, e).count = x.count + 1 /\ Queued(x, e).free = x.free - 1
        /\ Queued(x, e).gen = x.gen /\ Queued(x, e).finished = x.finished
    BY <2>1
  <2>6. x.count = Len(x.pending) /\ x.count + x.free = MaxEvents
    OBVIOUS
  <2>7. (x.count + 1) + (x.free - 1) = MaxEvents
    BY <2>3, <2>6, ConstAssumption
  <2> QED
    BY <2>2, <2>4, <2>5, <2>6, <2>7
<1>4. CASE i = 0 /\ ~(x.free > 0)
  <2>1. Queued(x, e) = [x EXCEPT !.overflow = TRUE]
    BY <1>4 DEF Queued, i
  <2> QED
    BY <2>1
<1> QED
  BY <1>1, <1>2, <1>3, <1>4

(* Consuming one gives its entry back.                                     *)
LEMMA TakenIsPooled ==
  ASSUME NEW x, Pooled(x), x.count > 0
  PROVE  /\ Pooled(Taken(x))
         /\ Taken(x).gen = x.gen /\ Taken(x).finished = x.finished
<1> USE DEF Pooled
<1>1. Tail(x.pending) \in Seq(Events) /\ Len(Tail(x.pending)) = Len(x.pending) - 1
  OBVIOUS
<1>2. x.free + 1 \in 0..MaxEvents /\ x.count - 1 \in 0..MaxEvents
  OBVIOUS
<1>3. Taken(x) = [x EXCEPT !.pending = Tail(x.pending), !.free = x.free + 1,
                           !.count = x.count - 1]
  BY DEF Taken
<1>4. Taken(x) \in Instance
  BY <1>1, <1>2, <1>3
<1> QED
  BY <1>1, <1>2, <1>3, <1>4

-----------------------------------------------------------------------------
(* A change counts until a later one of the same node takes its place: an  *)
(* event more replaces the last change of its kind with no button since,   *)
(* if there is one.                                                        *)
Ends(s, e) ==
  {i \in Kept(s) : s[i] = e /\ e.kind = "change" /\ \A k \in i..Len(s) : s[k].kind = "change"}

LEMMA KeptAfterAppend ==
  ASSUME NEW s \in Seq(Events), NEW e \in Events
  PROVE  /\ Kept(s) \subseteq 1..Len(s) /\ Ends(s, e) \subseteq Kept(s)
         /\ Kept(Append(s, e)) = (Kept(s) \ Ends(s, e)) \union {Len(s) + 1}
         /\ \A i, j \in Ends(s, e) : i = j
<1> DEFINE n == Len(s)
           t == Append(s, e)
<1>1. n \in Nat /\ Len(t) = n + 1 /\ t[n + 1] = e /\ \A k \in 1..n : t[k] = s[k]
  OBVIOUS
<1>2. DOMAIN s = 1..n /\ DOMAIN t = 1..n+1
  OBVIOUS
<1> HIDE DEF t, n
<1>3. ASSUME NEW i \in 1..n, Superseded(s, i) PROVE Superseded(t, i)
  <2>1. PICK j \in i+1..n : s[j] = s[i] /\ \A k \in i..j : s[k].kind = "change"
    BY <1>3 DEF Superseded, n
  <2>2. j \in i+1..n+1 /\ j \in 1..n /\ i..j \subseteq 1..n
    BY <1>1
  <2>3. t[j] = t[i] /\ t[i].kind = "change" /\ \A k \in i..j : t[k].kind = "change"
    BY <1>1, <1>3, <2>1, <2>2 DEF Superseded
  <2> QED
    BY <1>1, <2>2, <2>3 DEF Superseded
<1>4. ASSUME NEW i \in 1..n, s[i] = e, \A k \in i..n : s[k].kind = "change"
      PROVE  Superseded(t, i)
  <2>1. n + 1 \in i+1..n+1 /\ i \in i..n
    BY <1>1
  <2>2. ASSUME NEW k \in i..n+1 PROVE t[k].kind = "change"
    <3>1. k = n + 1 \/ (k \in i..n /\ k \in 1..n)
      BY <1>1
    <3>2. e.kind = "change"
      BY <1>4, <2>1
    <3> QED
      BY <1>1, <1>4, <3>1, <3>2
  <2>3. t[n + 1] = t[i] /\ t[i].kind = "change"
    BY <1>1, <1>4, <2>1
  <2> QED
    BY <1>1, <2>1, <2>2, <2>3 DEF Superseded
<1>5. ASSUME NEW i \in 1..n, Superseded(t, i), ~Superseded(s, i)
      PROVE  s[i] = e /\ e.kind = "change" /\ \A k \in i..n : s[k].kind = "change"
  <2>1. PICK j \in i+1..n+1 : t[j] = t[i] /\ \A k \in i..j : t[k].kind = "change"
    BY <1>1, <1>5 DEF Superseded
  <2>2. ASSUME j # n + 1 PROVE FALSE
    <3>1. j \in i+1..n /\ j \in 1..n /\ i..j \subseteq 1..n /\ i \in i..j
      BY <1>1, <2>2
    <3>2. s[j] = s[i] /\ s[i].kind = "change" /\ \A k \in i..j : s[k].kind = "change"
      BY <1>1, <2>1, <3>1
    <3>3. Superseded(s, i)
      BY <3>1, <3>2 DEF Superseded, n
    <3> QED
      BY <1>5, <3>3
  <2>3. i..n \subseteq i..n+1 /\ i..n \subseteq 1..n /\ i \in i..n
    BY <1>1
  <2> QED
    BY <1>1, <2>1, <2>2, <2>3
<1>6. ~Superseded(t, n + 1)
  <2>1. (n + 1) + 1..Len(t) = {}
    BY <1>1
  <2> QED
    BY <2>1 DEF Superseded
<1>7. Kept(s) \subseteq 1..n /\ Ends(s, e) \subseteq Kept(s)
  BY <1>2 DEF Kept, Ends
<1>8. ASSUME NEW i \in 1..n
      PROVE  i \in Kept(t) <=> i \in Kept(s) /\ i \notin Ends(s, e)
  <2>1. i \in 1..n+1
    BY <1>1
  <2>2. i \in Kept(t) <=> ~Superseded(t, i)
    BY <1>2, <2>1 DEF Kept
  <2>3. i \in Kept(s) <=> ~Superseded(s, i)
    BY <1>2 DEF Kept
  <2>4. i \in Ends(s, e) <=> /\ i \in Kept(s) /\ s[i] = e /\ e.kind = "change"
                             /\ \A k \in i..n : s[k].kind = "change"
    BY DEF Ends, n
  <2> QED
    BY <1>3, <1>4, <1>5, <2>2, <2>3, <2>4
<1>9. n + 1 \in Kept(t) /\ n + 1 \notin 1..n
  BY <1>1, <1>2, <1>6 DEF Kept
<1>10. \A i \in Kept(t) : i \in 1..n \/ i = n + 1
  BY <1>1, <1>2 DEF Kept
<1>11. Kept(t) = (Kept(s) \ Ends(s, e)) \union {n + 1}
  BY <1>7, <1>8, <1>9, <1>10
<1>12. ASSUME NEW i \in Ends(s, e), NEW j \in Ends(s, e), i < j PROVE FALSE
  <2>1. i \in 1..n /\ j \in 1..n /\ i \in Kept(s)
    BY <1>7
  <2>2. s[i] = e /\ s[j] = e /\ e.kind = "change" /\ \A k \in i..n : s[k].kind = "change"
    BY DEF Ends, n
  <2>3. j \in i+1..n /\ i..j \subseteq i..n
    BY <1>1, <1>12, <2>1
  <2>4. Superseded(s, i)
    BY <2>2, <2>3 DEF Superseded, n
  <2> QED
    BY <2>1, <2>4 DEF Kept
<1>13. ASSUME NEW i \in Ends(s, e), NEW j \in Ends(s, e) PROVE i = j
  <2>1. i \in Int /\ j \in Int
    BY <1>1, <1>7
  <2> QED
    BY <1>12, <2>1
<1> QED
  BY <1>7, <1>11, <1>13 DEF t, n

(* The pending change that is reused is the one that stops to count; if    *)
(* there is none to reuse, all still count.                                *)
LEMMA CoalescibleEnds ==
  ASSUME NEW s \in Seq(Events), NEW q \in Seq(Events), NEW f, IsListBy(q, s, Kept(s), f),
         NEW e \in Events, e.kind = "change"
  PROVE  /\ Coalescible(q, e) # 0 =>
              Coalescible(q, e) \in 1..Len(q) /\ f[Coalescible(q, e)] \in Ends(s, e)
         /\ Coalescible(q, e) = 0 => Ends(s, e) = {}
<1> DEFINE n == Len(q)
           m == Len(s)
           P(i) == q[i] = e /\ \A j \in i..n : q[j].kind = "change"
<1>1. n \in Nat /\ m \in Nat /\ DOMAIN q = 1..n /\ Kept(s) \subseteq 1..m
  BY KeptAfterAppend
<1>2. f \in [1..n -> Kept(s)]
  BY DEF IsListBy
<1>3. \A k \in 1..n : q[k] = s[f[k]] /\ f[k] \in Kept(s) /\ f[k] \in 1..m /\ f[k] \in Int
  <2>1. \A i \in Kept(s) : i \in 1..m /\ i \in Int
    BY <1>1
  <2> QED
    BY <1>2, <2>1 DEF IsListBy
<1>4. /\ \A j, k \in 1..n : j < k => f[j] < f[k]
      /\ \A i \in Kept(s) : \E k \in 1..n : f[k] = i
  BY DEF IsListBy
<1>5. /\ (\E i \in 1..n : P(i)) => Coalescible(q, e) \in 1..n /\ P(Coalescible(q, e))
      /\ ~(\E i \in 1..n : P(i)) => Coalescible(q, e) = 0
  BY <1>1, Zenon DEF Coalescible
<1>6. ASSUME NEW p \in 1..n, P(p) PROVE f[p] \in Ends(s, e)
  <2>1. ASSUME NEW k \in f[p]..m, s[k].kind # "change" PROVE FALSE
    <3>1. k \in 1..m /\ k \in Int /\ f[p] \in Int /\ f[p] <= k
      BY <1>1, <1>3
    <3>2. k \in Kept(s)
      BY <2>1, <3>1 DEF Kept, Superseded
    <3>3. PICK j \in 1..n : f[j] = k
      BY <1>4, <3>2
    <3>4. ~(j < p)
      <4>1. j < p => f[j] < f[p]
        BY <1>4
      <4> QED
        BY <3>1, <3>3, <4>1
    <3>5. j \in p..n
      BY <1>1, <3>4
    <3> QED
      BY <1>3, <1>6, <2>1, <3>3, <3>5
  <2> QED
    BY <1>3, <1>6, <2>1 DEF Ends
<1>7. ASSUME NEW i \in Ends(s, e) PROVE \E p \in 1..n : P(p)
  <2>1. i \in Kept(s) /\ s[i] = e /\ \A k \in i..m : s[k].kind = "change"
    BY DEF Ends
  <2>2. PICK p \in 1..n : f[p] = i
    BY <1>4, <2>1
  <2>3. ASSUME NEW j \in p..n PROVE q[j].kind = "change"
    <3>1. j \in 1..n /\ (j = p \/ p < j)
      BY <1>1
    <3>2. f[p] <= f[j]
      BY <1>3, <1>4, <3>1
    <3>3. f[j] \in i..m
      BY <1>1, <1>3, <2>2, <3>1, <3>2
    <3> QED
      BY <1>3, <2>1, <3>1, <3>3
  <2>4. q[p] = e
    BY <1>3, <2>1, <2>2
  <2> QED
    BY <2>3, <2>4
<1>8. Coalescible(q, e) # 0 =>
        Coalescible(q, e) \in 1..n /\ f[Coalescible(q, e)] \in Ends(s, e)
  <2> HIDE DEF P
  <2> QED
    BY <1>5, <1>6
<1>9. Coalescible(q, e) = 0 => Ends(s, e) = {}
  <2> HIDE DEF P
  <2> QED
    BY <1>1, <1>5, <1>7
<1> QED
  BY <1>8, <1>9

(* What counts of the history after the first event that counts is what    *)
(* counted before, less that one.                                          *)
LEMMA KeptAfterFirst ==
  ASSUME NEW s \in Seq(Events), NEW h \in 1..Len(s), h \in Kept(s),
         \A i \in Kept(s) : h <= i
  PROVE  /\ AfterFirstKept(s) = SubSeq(s, h + 1, Len(s))
         /\ Kept(SubSeq(s, h + 1, Len(s))) = Beyond(Kept(s), h)
<1> DEFINE m == Len(s)
           t == SubSeq(s, h + 1, m)
<1>1. m \in Nat /\ h \in Int /\ m - h \in Nat /\ Kept(s) \subseteq 1..m
  BY KeptAfterAppend
<1>2. Len(t) = m - h /\ DOMAIN t = 1..m-h
  OBVIOUS
<1>3. ASSUME NEW k \in 1..m-h PROVE t[k] = s[k + h]
  <2>1. h + 1 + k - 1 = k + h
    OBVIOUS
  <2>2. t[k] = s[h + 1 + k - 1]
    OBVIOUS
  <2> QED
    BY <2>1, <2>2
<1> HIDE DEF m, t
<1>4. ASSUME NEW i \in 1..m-h PROVE Superseded(t, i) <=> Superseded(s, i + h)
  <2>0. i \in Int /\ i + h \in 1..m /\ t[i] = s[i + h]
    BY <1>1, <1>3
  <2>1. ASSUME Superseded(t, i) PROVE Superseded(s, i + h)
    <3>1. PICK j \in i+1..m-h : t[j] = t[i] /\ \A k \in i..j : t[k].kind = "change"
      BY <1>2, <2>1 DEF Superseded
    <3>2. j \in 1..m-h /\ j + h \in (i+h)+1..m /\ j \in Int
      BY <1>1
    <3>3. ASSUME NEW k \in i+h..j+h PROVE s[k].kind = "change"
      <4>1. k - h \in i..j /\ k - h \in 1..m-h /\ k - h + h = k
        BY <1>1, <3>2
      <4> QED
        BY <1>3, <3>1, <4>1
    <3>4. s[j + h] = s[i + h] /\ s[i + h].kind = "change"
      BY <1>3, <2>0, <2>1, <3>1, <3>2 DEF Superseded
    <3> QED
      BY <3>2, <3>3, <3>4 DEF Superseded, m
  <2>2. ASSUME Superseded(s, i + h) PROVE Superseded(t, i)
    <3>1. PICK j \in (i+h)+1..m : s[j] = s[i + h] /\ \A k \in i+h..j : s[k].kind = "change"
      BY <2>2 DEF Superseded, m
    <3>2. j - h \in i+1..m-h /\ j - h \in 1..m-h /\ j - h + h = j /\ j \in Int
      BY <1>1
    <3>3. ASSUME NEW k \in i..j-h PROVE t[k].kind = "change"
      <4>1. k + h \in i+h..j /\ k \in 1..m-h
        BY <1>1, <3>2
      <4> QED
        BY <1>3, <3>1, <4>1
    <3>4. t[j - h] = t[i] /\ t[i].kind = "change"
      BY <1>3, <2>0, <2>2, <3>1, <3>2 DEF Superseded
    <3> QED
      BY <1>2, <3>2, <3>3, <3>4 DEF Superseded
  <2> QED
    BY <2>1, <2>2
<1>5. ASSUME NEW i \in Kept(t) PROVE i \in {k - h : k \in Kept(s) \ {h}}
  <2>1. i \in 1..m-h /\ ~Superseded(t, i)
    BY <1>2 DEF Kept
  <2>2. i + h \in 1..m /\ i + h # h /\ i + h - h = i
    BY <1>1, <2>1
  <2>3. i + h \in Kept(s)
    BY <1>4, <2>1, <2>2 DEF Kept, m
  <2> QED
    BY <2>2, <2>3
<1>6. ASSUME NEW k \in Kept(s) \ {h} PROVE k - h \in Kept(t)
  <2>1. k \in 1..m /\ h <= k /\ k # h /\ ~Superseded(s, k)
    BY <1>1 DEF Kept
  <2>2. k - h \in 1..m-h /\ k - h + h = k
    BY <1>1, <2>1
  <2> QED
    BY <1>2, <1>4, <2>1, <2>2 DEF Kept
<1>7. Kept(t) = Beyond(Kept(s), h)
  BY <1>5, <1>6 DEF Beyond
<1>8. (CHOOSE i \in Kept(s) : \A j \in Kept(s) : i <= j) = h
  <2>1. ASSUME NEW i \in Kept(s), \A j \in Kept(s) : i <= j PROVE i = h
    <3>1. i <= h /\ h <= i /\ i \in 1..m
      BY <1>1, <2>1
    <3> QED
      BY <1>1, <3>1
  <2> QED
    BY <2>1
<1> QED
  BY <1>7, <1>8 DEF AfterFirstKept, t, m

(* Queueing an event appends it to both, or drops from both the change it  *)
(* takes the place of, or records that it is lost.                         *)
LEMMA QueuedIsListed ==
  ASSUME NEW x, Pooled(x), NEW s \in Seq(Events), NEW e \in Events,
         ~x.overflow => IsListOf(x.pending, s, Kept(s)),
         ~Queued(x, e).overflow
  PROVE  IsListOf(Queued(x, e).pending, Append(s, e), Kept(Append(s, e)))
<1> DEFINE i == IF e.kind = "change" THEN Coalescible(x.pending, e) ELSE 0
           q == x.pending
<1> USE DEF Pooled
<1>1. q \in Seq(Events) /\ i \in 0..Len(q)
  BY CoalescibleIsEntry
<1>2. /\ Kept(s) \subseteq 1..Len(s) /\ Ends(s, e) \subseteq Kept(s)
      /\ Kept(Append(s, e)) = (Kept(s) \ Ends(s, e)) \union {Len(s) + 1}
      /\ \A a, b \in Ends(s, e) : a = b
  BY KeptAfterAppend
<1> HIDE DEF i
<1>3. CASE i # 0
  <2> DEFINE rest == Without(q, i)
  <2>1. rest \in Seq(Events)
    BY <1>1, <1>3, WithoutOne
  <2>2. Queued(x, e) = [x EXCEPT !.pending = Append(rest, e)]
    BY <1>3 DEF Queued, i
  <2>3. Queued(x, e).pending = Append(rest, e) /\ Queued(x, e).overflow = x.overflow
    BY <2>2
  <2>4. PICK f : IsListBy(q, s, Kept(s), f)
    BY <2>3 DEF IsListOf
  <2>5. e.kind = "change" /\ i = Coalescible(q, e)
    BY <1>3 DEF i
  <2>6. i \in 1..Len(q) /\ f[i] \in Ends(s, e)
    BY <1>1, <1>3, <2>4, <2>5, CoalescibleEnds
  <2>7. Ends(s, e) = {f[i]}
    BY <1>2, <2>6
  <2>8. IsListOf(rest, s, Kept(s) \ {f[i]})
    BY <1>1, <1>2, <2>4, <2>6, ListsRemove DEF Without
  <2> HIDE DEF rest
  <2>9. IsListOf(Append(rest, e), Append(s, e), (Kept(s) \ {f[i]}) \union {Len(s) + 1})
    <3>1. Kept(s) \ {f[i]} \in SUBSET (1..Len(s))
      BY <1>2
    <3> QED
      BY <2>1, <2>8, <3>1, ListsAppend
  <2> QED
    BY <1>2, <2>3, <2>7, <2>9
<1>4. CASE i = 0 /\ x.free > 0
  <2>1. Queued(x, e) = [x EXCEPT !.pending = Append(q, e), !.free = x.free - 1,
                                 !.count = x.count + 1]
    BY <1>4 DEF Queued, i
  <2>2. Queued(x, e).pending = Append(q, e) /\ Queued(x, e).overflow = x.overflow
    BY <2>1
  <2>3. IsListOf(q, s, Kept(s))
    BY <2>2
  <2>4. Ends(s, e) = {}
    <3>1. CASE e.kind = "change"
      <4>1. PICK f : IsListBy(q, s, Kept(s), f)
        BY <2>3 DEF IsListOf
      <4>2. Coalescible(q, e) = 0
        BY <1>4, <3>1 DEF i
      <4> QED
        BY <1>1, <3>1, <4>1, <4>2, CoalescibleEnds
    <3>2. CASE e.kind # "change"
      BY <3>2 DEF Ends
    <3> QED
      BY <3>1, <3>2
  <2>5. IsListOf(Append(q, e), Append(s, e), Kept(s) \union {Len(s) + 1})
    BY <1>1, <1>2, <2>3, ListsAppend
  <2>6. Kept(Append(s, e)) = Kept(s) \union {Len(s) + 1}
    BY <1>2, <2>4
  <2> QED
    BY <2>2, <2>5, <2>6
<1>5. CASE i = 0 /\ ~(x.free > 0)
  <2>1. Queued(x, e) = [x EXCEPT !.overflow = TRUE]
    BY <1>5 DEF Queued, i
  <2> QED
    BY <2>1
<1> QED
  BY <1>1, <1>3, <1>4, <1>5

(* Consuming the oldest event is consuming the first one that counts.      *)
LEMMA TakenIsListed ==
  ASSUME NEW x, Pooled(x), x.count > 0, NEW s \in Seq(Events),
         IsListOf(x.pending, s, Kept(s))
  PROVE  /\ AfterFirstKept(s) \in Seq(Events)
         /\ IsListOf(Taken(x).pending, AfterFirstKept(s), Kept(AfterFirstKept(s)))
<1> USE DEF Pooled
<1>1. x.pending \in Seq(Events) /\ x.pending # <<>>
  OBVIOUS
<1>2. PICK f : IsListBy(x.pending, s, Kept(s), f)
  BY DEF IsListOf
<1>3. Kept(s) \in SUBSET (1..Len(s))
  BY DEF Kept
<1>4. /\ f[1] \in Kept(s) /\ \A i \in Kept(s) : f[1] <= i
      /\ IsListOf(Tail(x.pending), SubSeq(s, f[1] + 1, Len(s)), Beyond(Kept(s), f[1]))
  <2> DEFINE q == x.pending
             A == Kept(s)
  <2>1. q \in Seq(Events) /\ q # <<>> /\ IsListBy(q, s, A, f) /\ A \in SUBSET (1..Len(s))
    BY <1>1, <1>2, <1>3
  <2> HIDE DEF q, A, Pooled
  <2>2. /\ f[1] \in A /\ \A i \in A : f[1] <= i
        /\ IsListOf(Tail(q), SubSeq(s, f[1] + 1, Len(s)), Beyond(A, f[1]))
    BY <2>1, ListsTail
  <2> QED
    BY <2>2 DEF q, A
<1>5. /\ AfterFirstKept(s) = SubSeq(s, f[1] + 1, Len(s))
      /\ Kept(SubSeq(s, f[1] + 1, Len(s))) = Beyond(Kept(s), f[1])
  <2>1. f[1] \in 1..Len(s)
    BY <1>3, <1>4
  <2> QED
    BY <1>4, <2>1, KeptAfterFirst
<1>6. Taken(x).pending = Tail(x.pending)
  BY DEF Taken
<1>7. SubSeq(s, f[1] + 1, Len(s)) \in Seq(Events)
  <2>1. f[1] \in 1..Len(s)
    BY <1>3, <1>4
  <2> QED
    BY <2>1
<1> QED
  BY <1>4, <1>5, <1>6, <1>7

(* What there is of an instance is as the pool has it.                     *)
LEMMA InstancesArePooled ==
  ASSUME TypeOK, PoolConserved, NEW id \in Ids, inst[id] # None
  PROVE  Pooled(inst[id])
BY DEF TypeOK, PoolConserved, Pooled

(* What the head of an agenda is, and what it leaves.                      *)
LEMMA AgendaSteps ==
  ASSUME AgendaInv, agenda # <<>>
  PROVE  /\ Head(agenda) \in Events \union {Finish}
         /\ Head(agenda) = Finish => Tail(agenda) = <<>>
         /\ Tail(agenda) \in {<<>>, <<Finish>>}
<1>1. CASE agenda = <<Finish>>
  BY <1>1
<1>2. ASSUME NEW e \in Events, agenda = <<e>> PROVE Head(agenda) = e /\ Tail(agenda) = <<>>
  BY <1>2
<1>3. ASSUME NEW e \in Events, agenda = <<e, Finish>>
      PROVE  Head(agenda) = e /\ Tail(agenda) = <<Finish>>
  BY <1>3
<1>4. Finish \notin Events
  BY DEF Finish, Events
<1> QED
  BY <1>1, <1>2, <1>3, <1>4 DEF AgendaInv

(* How a pass of a wait may come out: it sleeps with cause, has seen the   *)
(* end and goes for the result, takes an event, or answers without one.    *)
Sleeps(w, wait) ==
  /\ waiter' = [waiter EXCEPT ![w] = [wait EXCEPT !.pc = "asleep"]]
  /\ inst' = inst /\ raw' = raw /\ reply' = reply
  /\ ~stopping /\ inst[wait.id] # None /\ ~inst[wait.id].finished
  /\ wait.kind = "event" => EventsOk(wait) /\ inst[wait.id].count = 0
Fetches(w, wait) ==
  /\ waiter' = [waiter EXCEPT ![w] = [wait EXCEPT !.pc = "fetch"]]
  /\ inst' = inst /\ raw' = raw /\ reply' = reply
Takes(w, wait) ==
  /\ waiter' = [waiter EXCEPT ![w] = NoWait]
  /\ inst[wait.id] # None /\ inst[wait.id].gen = wait.gen /\ inst[wait.id].count > 0
  /\ ~inst[wait.id].overflow
  /\ raw' = [raw EXCEPT ![wait.id] = AfterFirstKept(raw[wait.id])]
  /\ inst' = [inst EXCEPT ![wait.id] = Taken(inst[wait.id])]
  /\ reply' = [how |-> "event", gen |-> wait.gen, from |-> inst[wait.id].gen]
Answers(w, wait) ==
  /\ waiter' = [waiter EXCEPT ![w] = NoWait]
  /\ inst' = inst /\ raw' = raw
  /\ \/ reply' = Error
     \/ /\ reply' = [how |-> "finished", id |-> wait.id, gen |-> wait.gen]
        /\ inst[wait.id] # None
        /\ inst[wait.id].finished /\ inst[wait.id].count = 0

LEMMA PassOutcomes ==
  ASSUME TypeOK, NEW w \in Workers, NEW wait \in Waits, Pass(w, wait)
  PROVE  /\ UNCHANGED <<nextGeneration, agenda, target, inputs, stopping>>
         /\ Sleeps(w, wait) \/ Fetches(w, wait) \/ Takes(w, wait) \/ Answers(w, wait)
<1>1. UNCHANGED <<nextGeneration, agenda, target, inputs, stopping>>
  BY DEF Pass
<1>2. CASE wait.kind = "result" /\ ResultPass(w, wait)
  BY <1>1, <1>2 DEF ResultPass, Sleep, Answer, Sleeps, Fetches, Answers
<1>3. CASE wait.kind = "event" /\ EventPass(w, wait)
  <2>1. inst[wait.id] # None => inst[wait.id].count \in Nat
    BY DEF TypeOK, Waits
  <2>2. CASE ~EventsOk(wait) /\ Answer(w, Error) /\ UNCHANGED <<inst, raw>>
    BY <1>1, <2>2 DEF Answer, Answers
  <2>3. CASE EventsOk(wait) /\ inst[wait.id].count > 0
    <3>1. /\ Answer(w, [how |-> "event", gen |-> wait.gen, from |-> inst[wait.id].gen])
          /\ inst' = [inst EXCEPT ![wait.id] = Taken(inst[wait.id])]
          /\ raw' = [raw EXCEPT ![wait.id] = AfterFirstKept(raw[wait.id])]
      <4>1. ~(inst[wait.id].count = 0)
        BY <2>1, <2>3 DEF EventsOk
      <4>2. /\ Answer(w, [how |-> "event", gen |-> wait.gen, from |-> inst[wait.id].gen])
            /\ inst' = [inst EXCEPT ![wait.id] = Taken(@)]
            /\ raw' = [raw EXCEPT ![wait.id] = AfterFirstKept(@)]
        BY <1>3, <2>3, <4>1, Zenon DEF EventPass
      <4> QED
        BY <4>2
    <3> QED
      BY <1>1, <2>3, <3>1 DEF Answer, EventsOk, Takes
  <2>5. CASE EventsOk(wait) /\ ~(inst[wait.id].count > 0)
    BY <1>1, <1>3, <2>1, <2>5 DEF EventPass, Sleep, Answer, EventsOk, Sleeps, Answers
  <2> QED
    BY <1>3, <2>2, <2>3, <2>5 DEF EventPass
<1> QED
  BY <1>1, <1>2, <1>3 DEF Pass

(* Who is woken up keeps what it waits for. *)
LEMMA WokenKeeps ==
  ASSUME TypeOK, WaiterInv, waiter' = Woken(waiter), NEW w \in Workers
  PROVE  /\ waiter'[w] \in WaitRec /\ waiter'[w].pc # "asleep"
         /\ waiter'[w].kind = waiter[w].kind /\ waiter'[w].id = waiter[w].id
         /\ waiter'[w].gen = waiter[w].gen
         /\ waiter'[w].pc = "idle" <=> waiter[w].pc = "idle"
BY DEF TypeOK, Woken

(* Waking up makes no other kind of wait.                                  *)
LEMMA WokenTyped ==
  ASSUME TypeOK, waiter' = Woken(waiter)
  PROVE  waiter' \in [Workers -> WaitRec]
<1> DEFINE Wakes(x) == IF x.pc = "asleep" THEN [x EXCEPT !.pc = "awake"] ELSE x
<1>1. ASSUME NEW x \in WaitRec PROVE Wakes(x) \in WaitRec
  OBVIOUS
<1>2. waiter' = [w \in Workers |-> Wakes(waiter[w])] /\ \A w \in Workers : waiter[w] \in WaitRec
  BY DEF Woken, TypeOK
<1> HIDE DEF Wakes, WaitRec
<1> QED
  BY <1>1, <1>2

(* Every step keeps the types. *)
LEMMA NextType == IInv /\ [Next]_vars => TypeOK'
<1> SUFFICES ASSUME IInv, [Next]_vars PROVE TypeOK'
  OBVIOUS
<1> USE DEF IInv, TypeOK, Waits
<1>1. ASSUME NEW id \in Ids, NEW p \in Plugins, Create(id, p) PROVE TypeOK'
  BY <1>1 DEF Create, UiIdle
<1>2. ASSUME NEW id \in Ids, Delete(id) PROVE TypeOK'
  BY <1>2 DEF Delete, Woken
<1>3. ASSUME NEW id \in Ids, Input(id) PROVE TypeOK'
  <2>1. agenda' \in Seq(Events \union {Finish})
    <3>1. CASE agenda' = <<Finish>>
      BY <3>1
    <3>2. ASSUME NEW e \in Events, agenda' \in {<<e>>, <<e, Finish>>}
          PROVE  agenda' \in Seq(Events \union {Finish})
      <4>1. {e, Finish} \subseteq Events \union {Finish}
        OBVIOUS
      <4>2. <<e>> \in Seq(Events \union {Finish})
        BY <4>1
      <4>3. <<e, Finish>> \in Seq(Events \union {Finish})
        BY <4>1
      <4> QED
        BY <3>2, <4>2, <4>3
    <3> QED
      BY <1>3, <3>1, <3>2 DEF Input
  <2> QED
    BY <1>3, <2>1 DEF Input
<1>4. CASE QueueEvent
  <2> DEFINE x == Queued(inst[target], Head(agenda))
  <2>1. Head(agenda) \in Events /\ Pooled(inst[target]) /\ target \in Ids
    BY <1>4, AgendaSteps, InstancesArePooled DEF AgendaInv, QueueEvent
  <2>2. Pooled(x) /\ x.gen = inst[target].gen /\ x.finished = inst[target].finished
    BY <2>1, QueuedIsPooled
  <2>3. inst' = [inst EXCEPT ![target] = x]
    BY <1>4 DEF QueueEvent
  <2> HIDE DEF x
  <2>4. agenda' \in Seq(Events \union {Finish})
    BY <1>4 DEF QueueEvent
  <2>5. inst' \in [Ids -> Instance \union {None}]
    BY <2>1, <2>2, <2>3 DEF Pooled
  <2>6. waiter' \in [Workers -> WaitRec]
    BY <1>4, WokenTyped DEF QueueEvent
  <2> QED
    BY <1>4, <2>4, <2>5, <2>6 DEF QueueEvent
<1>5. CASE SetFinished
  <2>1. target \in Ids /\ inst[target] \in Instance
    BY <1>5 DEF AgendaInv, SetFinished
  <2>2. agenda' \in Seq(Events \union {Finish})
    BY <1>5 DEF SetFinished
  <2>3. inst' \in [Ids -> Instance \union {None}]
    BY <1>5, <2>1 DEF SetFinished
  <2>4. waiter' \in [Workers -> WaitRec]
    BY <1>5, WokenTyped DEF SetFinished
  <2> QED
    BY <1>5, <2>2, <2>3, <2>4 DEF SetFinished
<1>6. CASE Stop
  BY <1>6 DEF Stop, Woken
<1>7. ASSUME NEW w \in Workers, FetchResult(w) PROVE TypeOK'
  <2>1. waiter' = [waiter EXCEPT ![w] = NoWait]
    BY <1>7 DEF FetchResult, Answer
  <2> QED
    BY <1>7, <2>1 DEF FetchResult
<1>8. ASSUME NEW w \in Workers, NEW wait \in Waits, Pass(w, wait) PROVE TypeOK'
  <2>7. UNCHANGED <<nextGeneration, agenda, target, inputs, stopping>>
    BY <1>8, PassOutcomes
  <2>1. Sleeps(w, wait) \/ Fetches(w, wait) \/ Takes(w, wait) \/ Answers(w, wait)
    BY <1>8, PassOutcomes
  <2>2. CASE Sleeps(w, wait)
    BY <2>7, <2>2 DEF Sleeps
  <2>3. CASE Fetches(w, wait)
    BY <2>7, <2>3 DEF Fetches
  <2>4. CASE Takes(w, wait)
    <3>1. Pooled(inst[wait.id])
      BY <2>4, InstancesArePooled DEF Takes
    <3>2. Pooled(Taken(inst[wait.id]))
      BY <2>4, <3>1, TakenIsPooled DEF Takes
    <3> QED
      BY <2>7, <2>4, <3>1, <3>2 DEF Takes, Pooled
  <2>5. CASE Answers(w, wait)
    BY <2>7, <2>5 DEF Answers, Error
  <2> QED
    BY <2>1, <2>2, <2>3, <2>4, <2>5
<1>9. CASE UNCHANGED vars
  BY <1>9 DEF vars
<1> QED
  BY <1>1, <1>2, <1>3, <1>4, <1>5, <1>6, <1>7, <1>8, <1>9, StepIsOne DEF IInv

(* Every step keeps the entries of each pool. *)
LEMMA NextPool == IInv /\ [Next]_vars => PoolConserved'
<1> SUFFICES ASSUME IInv, [Next]_vars PROVE PoolConserved'
  OBVIOUS
<1> USE DEF IInv, TypeOK, PoolConserved, Waits
<1>1. ASSUME NEW id \in Ids, NEW p \in Plugins, Create(id, p) PROVE PoolConserved'
  BY <1>1 DEF Create, UiIdle
<1>2. ASSUME NEW id \in Ids, Delete(id) PROVE PoolConserved'
  BY <1>2 DEF Delete, Woken
<1>3. ASSUME NEW id \in Ids, Input(id) PROVE PoolConserved'
  BY <1>3 DEF Input
<1>4. CASE QueueEvent
  <2> DEFINE x == Queued(inst[target], Head(agenda))
  <2>1. Head(agenda) \in Events /\ Pooled(inst[target]) /\ target \in Ids
    BY <1>4, AgendaSteps, InstancesArePooled DEF AgendaInv, QueueEvent
  <2>2. Pooled(x) /\ x.gen = inst[target].gen /\ x.finished = inst[target].finished
    BY <2>1, QueuedIsPooled
  <2>3. inst' = [inst EXCEPT ![target] = x]
    BY <1>4 DEF QueueEvent
  <2> HIDE DEF x
  <2> QED
    BY <2>1, <2>2, <2>3 DEF Pooled
<1>5. CASE SetFinished
  <2>1. target \in Ids /\ inst[target] \in Instance
    BY <1>5 DEF AgendaInv, SetFinished
  <2>2. \A id \in Ids : inst'[id] =
          IF id = target THEN [inst[id] EXCEPT !.finished = TRUE] ELSE inst[id]
    BY <1>5 DEF SetFinished
  <2>3. \A id \in Ids : inst'[id] # None =>
          /\ inst[id] # None
          /\ inst'[id].count = inst[id].count /\ inst'[id].free = inst[id].free
          /\ inst'[id].pending = inst[id].pending
    BY <2>1, <2>2
  <2> QED
    BY <2>3
<1>6. CASE Stop
  BY <1>6 DEF Stop
<1>7. ASSUME NEW w \in Workers, FetchResult(w) PROVE PoolConserved'
  BY <1>7 DEF FetchResult
<1>8. ASSUME NEW w \in Workers, NEW wait \in Waits, Pass(w, wait) PROVE PoolConserved'
  <2>7. UNCHANGED <<nextGeneration, agenda, target, inputs, stopping>>
    BY <1>8, PassOutcomes
  <2>1. Sleeps(w, wait) \/ Fetches(w, wait) \/ Takes(w, wait) \/ Answers(w, wait)
    BY <1>8, PassOutcomes
  <2>2. CASE Sleeps(w, wait)
    BY <2>7, <2>2 DEF Sleeps
  <2>3. CASE Fetches(w, wait)
    BY <2>7, <2>3 DEF Fetches
  <2>4. CASE Takes(w, wait)
    <3>1. Pooled(inst[wait.id])
      BY <2>4, InstancesArePooled DEF Takes
    <3>2. Pooled(Taken(inst[wait.id]))
      BY <2>4, <3>1, TakenIsPooled DEF Takes
    <3> QED
      BY <2>7, <2>4, <3>1, <3>2 DEF Takes, Pooled
  <2>5. CASE Answers(w, wait)
    BY <2>7, <2>5 DEF Answers, Error
  <2> QED
    BY <2>1, <2>2, <2>3, <2>4, <2>5
<1>9. CASE UNCHANGED vars
  BY <1>9 DEF vars
<1> QED
  BY <1>1, <1>2, <1>3, <1>4, <1>5, <1>6, <1>7, <1>8, <1>9, StepIsOne DEF IInv

(* A generation is known only once it has been given. *)
LEMMA NextWaiter == IInv /\ [Next]_vars => WaiterInv'
<1> SUFFICES ASSUME IInv, [Next]_vars PROVE WaiterInv'
  OBVIOUS
<1> USE DEF IInv, TypeOK, WaiterInv, Waits
<1>1. ASSUME NEW id \in Ids, NEW p \in Plugins, Create(id, p) PROVE WaiterInv'
  BY <1>1 DEF Create, UiIdle
<1>2. ASSUME NEW id \in Ids, Delete(id) PROVE WaiterInv'
  BY <1>2 DEF Delete, Woken
<1>3. ASSUME NEW id \in Ids, Input(id) PROVE WaiterInv'
  BY <1>3 DEF Input
<1>4. CASE QueueEvent
  <2> DEFINE x == Queued(inst[target], Head(agenda))
  <2>1. Head(agenda) \in Events /\ Pooled(inst[target]) /\ target \in Ids
    BY <1>4, AgendaSteps, InstancesArePooled DEF AgendaInv, QueueEvent
  <2>2. Pooled(x) /\ x.gen = inst[target].gen /\ x.finished = inst[target].finished
    BY <2>1, QueuedIsPooled
  <2>3. inst' = [inst EXCEPT ![target] = x]
    BY <1>4 DEF QueueEvent
  <2> HIDE DEF x
  <2>4. waiter' = Woken(waiter) /\ nextGeneration' = nextGeneration
    BY <1>4 DEF QueueEvent
  <2>5. \A id \in Ids : inst'[id] # None => inst[id] # None /\ inst'[id].gen = inst[id].gen
    BY <2>1, <2>2, <2>3 DEF Pooled
  <2> QED
    BY <2>4, <2>5, WokenKeeps
<1>5. CASE SetFinished
  <2>1. target \in Ids /\ inst[target] \in Instance
    BY <1>5 DEF AgendaInv, SetFinished
  <2>2. \A id \in Ids : inst'[id] # None => inst[id] # None /\ inst'[id].gen = inst[id].gen
    BY <1>5, <2>1 DEF SetFinished
  <2>3. waiter' = Woken(waiter) /\ nextGeneration' = nextGeneration
    BY <1>5 DEF SetFinished
  <2> QED
    BY <2>2, <2>3, WokenKeeps
<1>6. CASE Stop
  BY <1>6, WokenKeeps DEF Stop
<1>7. ASSUME NEW w \in Workers, FetchResult(w) PROVE WaiterInv'
  <2>1. /\ waiter' = [waiter EXCEPT ![w] = NoWait]
        /\ inst' = inst /\ nextGeneration' = nextGeneration
    BY <1>7 DEF FetchResult, Answer
  <2>2. NoWait.pc = "idle" /\ NoWait.gen <= nextGeneration
    OBVIOUS
  <2> HIDE DEF NoWait
  <2> QED
    BY <2>1, <2>2
<1>8. ASSUME NEW w \in Workers, NEW wait \in Waits, Pass(w, wait) PROVE WaiterInv'
  <2>7. UNCHANGED <<nextGeneration, agenda, target, inputs, stopping>>
    BY <1>8, PassOutcomes
  <2>1. Sleeps(w, wait) \/ Fetches(w, wait) \/ Takes(w, wait) \/ Answers(w, wait)
    BY <1>8, PassOutcomes
  <2>2. CASE Sleeps(w, wait)
    <3>1. ASSUME NEW v \in Workers
          PROVE  waiter'[v] = IF v = w THEN [wait EXCEPT !.pc = "asleep"] ELSE waiter[v]
      BY <2>2 DEF Sleeps
    <3>2. wait.id \in Ids /\ wait.kind \in {"result", "event"}
            /\ wait.gen <= nextGeneration
      OBVIOUS
    <3>3. inst' = inst /\ nextGeneration' = nextGeneration
      BY <2>7, <2>2 DEF Sleeps
    <3>4. [wait EXCEPT !.pc = "asleep"].id = wait.id /\ [wait EXCEPT !.pc = "asleep"].gen = wait.gen
            /\ [wait EXCEPT !.pc = "asleep"].kind = wait.kind
      OBVIOUS
    <3>5. ASSUME NEW v \in Workers
          PROVE  /\ waiter'[v].pc # "idle" => waiter'[v].id \in Ids
                 /\ waiter'[v].kind \in {"result", "event"} \/ waiter'[v].pc = "idle"
                 /\ waiter'[v].gen <= nextGeneration
      <4>1. CASE v = w
        BY <3>1, <3>2, <3>4, <4>1
      <4>2. CASE v # w
        BY <3>1, <4>2
      <4> QED
        BY <4>1, <4>2
    <3> QED
      BY <3>3, <3>5
  <2>3. CASE Fetches(w, wait)
    <3>1. ASSUME NEW v \in Workers
          PROVE  waiter'[v] = IF v = w THEN [wait EXCEPT !.pc = "fetch"] ELSE waiter[v]
      BY <2>3 DEF Fetches
    <3>2. wait.id \in Ids /\ wait.kind \in {"result", "event"}
            /\ wait.gen <= nextGeneration
      OBVIOUS
    <3>3. inst' = inst /\ nextGeneration' = nextGeneration
      BY <2>7, <2>3 DEF Fetches
    <3>4. [wait EXCEPT !.pc = "fetch"].id = wait.id /\ [wait EXCEPT !.pc = "fetch"].gen = wait.gen
            /\ [wait EXCEPT !.pc = "fetch"].kind = wait.kind
      OBVIOUS
    <3>5. ASSUME NEW v \in Workers
          PROVE  /\ waiter'[v].pc # "idle" => waiter'[v].id \in Ids
                 /\ waiter'[v].kind \in {"result", "event"} \/ waiter'[v].pc = "idle"
                 /\ waiter'[v].gen <= nextGeneration
      <4>1. CASE v = w
        BY <3>1, <3>2, <3>4, <4>1
      <4>2. CASE v # w
        BY <3>1, <4>2
      <4> QED
        BY <4>1, <4>2
    <3> QED
      BY <3>3, <3>5
  <2>4. CASE Takes(w, wait)
    <3>1. Pooled(inst[wait.id])
      BY <2>4, InstancesArePooled DEF Takes
    <3>2. /\ Pooled(Taken(inst[wait.id])) /\ Taken(inst[wait.id]).gen = inst[wait.id].gen
        /\ Taken(inst[wait.id]).finished = inst[wait.id].finished
      BY <2>4, <3>1, TakenIsPooled DEF Takes
    <3> QED
      BY <2>7, <2>4, <3>1, <3>2 DEF Takes, Pooled
  <2>5. CASE Answers(w, wait)
    BY <2>7, <2>5 DEF Answers, Error
  <2> QED
    BY <2>1, <2>2, <2>3, <2>4, <2>5
<1>9. CASE UNCHANGED vars
  BY <1>9 DEF vars
<1> QED
  BY <1>1, <1>2, <1>3, <1>4, <1>5, <1>6, <1>7, <1>8, <1>9, StepIsOne DEF IInv

(* An agenda ends with the end, of a dialog that has not finished before. *)
LEMMA NextAgenda == IInv /\ [Next]_vars => AgendaInv'
<1> SUFFICES ASSUME IInv, [Next]_vars PROVE AgendaInv'
  OBVIOUS
<1> USE DEF IInv, TypeOK, AgendaInv, Waits
<1>1. ASSUME NEW id \in Ids, NEW p \in Plugins, Create(id, p) PROVE AgendaInv'
  <2>1. agenda = <<>> /\ agenda' = agenda
    BY <1>1 DEF Create, UiIdle
  <2> QED
    BY <2>1
<1>2. ASSUME NEW id \in Ids, Delete(id) PROVE AgendaInv'
  <2>1. agenda = <<>> /\ agenda' = agenda
    BY <1>2 DEF Delete, UiIdle
  <2> QED
    BY <2>1
<1>3. ASSUME NEW id \in Ids, Input(id) PROVE AgendaInv'
  BY <1>3 DEF Input
<1>4. CASE QueueEvent
  <2> DEFINE x == Queued(inst[target], Head(agenda))
  <2>1. Head(agenda) \in Events /\ Pooled(inst[target]) /\ target \in Ids
    BY <1>4, AgendaSteps, InstancesArePooled DEF AgendaInv, QueueEvent
  <2>2. Pooled(x) /\ x.gen = inst[target].gen /\ x.finished = inst[target].finished
    BY <2>1, QueuedIsPooled
  <2>3. inst' = [inst EXCEPT ![target] = x]
    BY <1>4 DEF QueueEvent
  <2> HIDE DEF x
  <2>4. agenda' \in {<<>>, <<Finish>>} /\ target' = target
    BY <1>4, AgendaSteps DEF QueueEvent
  <2> QED
    BY <1>4, <2>1, <2>2, <2>3, <2>4 DEF QueueEvent, Pooled
<1>5. CASE SetFinished
  BY <1>5, AgendaSteps DEF SetFinished
<1>6. CASE Stop
  <2>1. agenda = <<>> /\ agenda' = agenda
    BY <1>6 DEF Stop, UiIdle
  <2> QED
    BY <2>1
<1>7. ASSUME NEW w \in Workers, FetchResult(w) PROVE AgendaInv'
  BY <1>7 DEF FetchResult
<1>8. ASSUME NEW w \in Workers, NEW wait \in Waits, Pass(w, wait) PROVE AgendaInv'
  <2>7. UNCHANGED <<nextGeneration, agenda, target, inputs, stopping>>
    BY <1>8, PassOutcomes
  <2>1. Sleeps(w, wait) \/ Fetches(w, wait) \/ Takes(w, wait) \/ Answers(w, wait)
    BY <1>8, PassOutcomes
  <2>2. CASE Sleeps(w, wait)
    BY <2>7, <2>2 DEF Sleeps
  <2>3. CASE Fetches(w, wait)
    BY <2>7, <2>3 DEF Fetches
  <2>4. CASE Takes(w, wait)
    <3>1. Pooled(inst[wait.id])
      BY <2>4, InstancesArePooled DEF Takes
    <3>2. /\ Pooled(Taken(inst[wait.id])) /\ Taken(inst[wait.id]).gen = inst[wait.id].gen
        /\ Taken(inst[wait.id]).finished = inst[wait.id].finished
      BY <2>4, <3>1, TakenIsPooled DEF Takes
    <3> QED
      BY <2>7, <2>4, <3>1, <3>2 DEF Takes, Pooled
  <2>5. CASE Answers(w, wait)
    BY <2>7, <2>5 DEF Answers, Error
  <2> QED
    BY <2>1, <2>2, <2>3, <2>4, <2>5
<1>9. CASE UNCHANGED vars
  BY <1>9 DEF vars
<1> QED
  BY <1>1, <1>2, <1>3, <1>4, <1>5, <1>6, <1>7, <1>8, <1>9, StepIsOne DEF IInv

(* What was reported as finished stays so: the name's next dialog is another
   generation. *)
LEMMA NextFinal == IInv /\ [Next]_vars => FinalInv'
<1> SUFFICES ASSUME IInv, [Next]_vars PROVE FinalInv'
  OBVIOUS
<1> USE DEF IInv, TypeOK, FinalInv, WaiterInv, Waits
<1>1. ASSUME NEW id \in Ids, NEW p \in Plugins, Create(id, p) PROVE FinalInv'
  BY <1>1 DEF Create, UiIdle
<1>2. ASSUME NEW id \in Ids, Delete(id) PROVE FinalInv'
  BY <1>2 DEF Delete, Woken
<1>3. ASSUME NEW id \in Ids, Input(id) PROVE FinalInv'
  BY <1>3 DEF Input
<1>4. CASE QueueEvent
  <2> DEFINE x == Queued(inst[target], Head(agenda))
  <2>1. Head(agenda) \in Events /\ Pooled(inst[target]) /\ target \in Ids
    BY <1>4, AgendaSteps, InstancesArePooled DEF AgendaInv, QueueEvent
  <2>2. Pooled(x) /\ x.gen = inst[target].gen /\ x.finished = inst[target].finished
    BY <2>1, QueuedIsPooled
  <2>3. inst' = [inst EXCEPT ![target] = x]
    BY <1>4 DEF QueueEvent
  <2> HIDE DEF x
  <2> QED
    BY <1>4, <2>1, <2>2, <2>3 DEF QueueEvent, AgendaInv
<1>5. CASE SetFinished
  BY <1>5 DEF SetFinished, AgendaInv
<1>6. CASE Stop
  BY <1>6 DEF Stop
<1>7. ASSUME NEW w \in Workers, FetchResult(w) PROVE FinalInv'
  BY <1>7 DEF FetchResult, Answer, Error
<1>8. ASSUME NEW w \in Workers, NEW wait \in Waits, Pass(w, wait) PROVE FinalInv'
  <2>7. UNCHANGED <<nextGeneration, agenda, target, inputs, stopping>>
    BY <1>8, PassOutcomes
  <2>1. Sleeps(w, wait) \/ Fetches(w, wait) \/ Takes(w, wait) \/ Answers(w, wait)
    BY <1>8, PassOutcomes
  <2>2. CASE Sleeps(w, wait)
    BY <2>7, <2>2 DEF Sleeps
  <2>3. CASE Fetches(w, wait)
    BY <2>7, <2>3 DEF Fetches
  <2>4. CASE Takes(w, wait)
    <3>1. Pooled(inst[wait.id])
      BY <2>4, InstancesArePooled DEF Takes
    <3>2. /\ Pooled(Taken(inst[wait.id])) /\ Taken(inst[wait.id]).gen = inst[wait.id].gen
        /\ Taken(inst[wait.id]).finished = inst[wait.id].finished
      BY <2>4, <3>1, TakenIsPooled DEF Takes
    <3> QED
      BY <2>7, <2>4, <3>1, <3>2 DEF Takes, Pooled
  <2>5. CASE Answers(w, wait)
    BY <2>7, <2>5 DEF Answers, Error
  <2> QED
    BY <2>1, <2>2, <2>3, <2>4, <2>5
<1>9. CASE UNCHANGED vars
  BY <1>9 DEF vars
<1> QED
  BY <1>1, <1>2, <1>3, <1>4, <1>5, <1>6, <1>7, <1>8, <1>9, StepIsOne DEF IInv

(* A step that takes a sleeper's cause away wakes it up. *)
LEMMA NextSleepers == IInv /\ [Next]_vars => SleepersHaveCause'
<1> SUFFICES ASSUME IInv, [Next]_vars PROVE SleepersHaveCause'
  OBVIOUS
<1> USE DEF IInv, TypeOK, WaiterInv, SleepersHaveCause, Waits
<1>1. ASSUME NEW id \in Ids, NEW p \in Plugins, Create(id, p) PROVE SleepersHaveCause'
  <2>1. ASSUME NEW v \in Workers, waiter'[v].pc = "asleep"
        PROVE  /\ waiter'[v] = waiter[v] /\ waiter[v].id \in Ids
               /\ inst'[waiter[v].id] = inst[waiter[v].id] /\ stopping' = stopping
    BY <1>1, <2>1 DEF Create
  <2> QED
    BY <2>1 DEF EventsOk
<1>2. ASSUME NEW id \in Ids, Delete(id) PROVE SleepersHaveCause'
  <2>1. \A w \in Workers : waiter'[w].pc # "asleep"
    BY <1>2, WokenKeeps DEF Delete
  <2> QED
    BY <2>1
<1>3. ASSUME NEW id \in Ids, Input(id) PROVE SleepersHaveCause'
  <2>1. ASSUME NEW v \in Workers, waiter'[v].pc = "asleep"
        PROVE  /\ waiter'[v] = waiter[v] /\ waiter[v].id \in Ids
               /\ inst'[waiter[v].id] = inst[waiter[v].id] /\ stopping' = stopping
    BY <1>3, <2>1 DEF Input
  <2> QED
    BY <2>1 DEF EventsOk
<1>4. CASE QueueEvent
  <2>1. \A w \in Workers : waiter'[w].pc # "asleep"
    BY <1>4, WokenKeeps DEF QueueEvent
  <2> QED
    BY <2>1
<1>5. CASE SetFinished
  <2>1. \A w \in Workers : waiter'[w].pc # "asleep"
    BY <1>5, WokenKeeps DEF SetFinished
  <2> QED
    BY <2>1
<1>6. CASE Stop
  <2>1. \A w \in Workers : waiter'[w].pc # "asleep"
    BY <1>6, WokenKeeps DEF Stop
  <2> QED
    BY <2>1
<1>7. ASSUME NEW w \in Workers, FetchResult(w) PROVE SleepersHaveCause'
  <2>1. ASSUME NEW v \in Workers, waiter'[v].pc = "asleep"
        PROVE  /\ waiter'[v] = waiter[v] /\ waiter[v].id \in Ids
               /\ inst'[waiter[v].id] = inst[waiter[v].id] /\ stopping' = stopping
    BY <1>7, <2>1 DEF FetchResult, Answer
  <2> QED
    BY <2>1 DEF EventsOk
<1>8. ASSUME NEW w \in Workers, NEW wait \in Waits, Pass(w, wait) PROVE SleepersHaveCause'
  <2>7. UNCHANGED <<nextGeneration, agenda, target, inputs, stopping>>
    BY <1>8, PassOutcomes
  <2>1. Sleeps(w, wait) \/ Fetches(w, wait) \/ Takes(w, wait) \/ Answers(w, wait)
    BY <1>8, PassOutcomes
  <2>2. stopping' = stopping
    BY <1>8, PassOutcomes
  <2>3. CASE Sleeps(w, wait)
    <3>1. ASSUME NEW v \in Workers, v # w PROVE waiter'[v] = waiter[v]
      BY <2>3, <3>1 DEF Sleeps
    <3>2. waiter'[w] = [wait EXCEPT !.pc = "asleep"] /\ inst' = inst
      BY <2>3 DEF Sleeps
    <3>3. waiter'[w].kind = wait.kind /\ waiter'[w].id = wait.id /\ waiter'[w].gen = wait.gen
      BY <3>2
    <3> QED
      BY <2>2, <2>3, <3>1, <3>2, <3>3 DEF Sleeps, EventsOk
  <2>4. CASE Fetches(w, wait)
    <3>1. ASSUME NEW v \in Workers, waiter'[v].pc = "asleep"
          PROVE  waiter'[v] = waiter[v] /\ inst' = inst
      BY <2>4, <3>1 DEF Fetches
    <3> QED
      BY <2>2, <3>1 DEF EventsOk
  <2>5. CASE Takes(w, wait)
    <3>1. ASSUME NEW v \in Workers, waiter'[v].pc = "asleep", waiter[v].id = wait.id
          PROVE  waiter'[v] = waiter[v] /\ waiter[v].kind = "result"
      BY <2>5, <3>1 DEF Takes
    <3>2. ASSUME NEW v \in Workers, waiter'[v].pc = "asleep", waiter[v].id # wait.id
          PROVE  waiter'[v] = waiter[v] /\ inst'[waiter[v].id] = inst[waiter[v].id]
      BY <2>5, <3>2 DEF Takes
    <3>3. Pooled(inst[wait.id]) /\ inst'[wait.id] = Taken(inst[wait.id])
      BY <2>5, InstancesArePooled DEF Takes
    <3>4. Pooled(inst'[wait.id]) /\ inst'[wait.id].finished = inst[wait.id].finished
      BY <2>5, <3>3, TakenIsPooled DEF Takes
    <3>5. inst'[wait.id] # None
      BY <3>4 DEF Pooled
    <3>6. ASSUME NEW v \in Workers, waiter'[v].pc = "asleep"
          PROVE  LET x == inst'[waiter'[v].id] IN
                 /\ ~stopping' /\ x # None /\ ~x.finished
                 /\ waiter'[v].kind = "event" => EventsOk(waiter[v])' /\ x.count = 0
      <4>1. CASE waiter[v].id = wait.id
        BY <2>2, <3>1, <3>4, <3>5, <3>6, <4>1
      <4>2. CASE waiter[v].id # wait.id
        BY <2>2, <3>2, <3>6, <4>2 DEF EventsOk
      <4> QED
        BY <4>1, <4>2
    <3> QED
      BY <3>6
  <2>6. CASE Answers(w, wait)
    <3>1. ASSUME NEW v \in Workers, waiter'[v].pc = "asleep"
          PROVE  waiter'[v] = waiter[v] /\ inst' = inst
      BY <2>6, <3>1 DEF Answers
    <3> QED
      BY <2>2, <3>1 DEF EventsOk
  <2> QED
    BY <2>1, <2>3, <2>4, <2>5, <2>6
<1>9. CASE UNCHANGED vars
  BY <1>9 DEF vars, EventsOk
<1> QED
  BY <1>1, <1>2, <1>3, <1>4, <1>5, <1>6, <1>7, <1>8, <1>9, StepIsOne DEF IInv

(* An event that is handed out is of the generation waited for. *)
LEMMA NextOwn == IInv /\ [Next]_vars => EventsOfOwnGeneration'
<1> SUFFICES ASSUME IInv, [Next]_vars PROVE EventsOfOwnGeneration'
  OBVIOUS
<1> USE DEF IInv, EventsOfOwnGeneration
<1>1. ASSUME NEW id \in Ids, NEW p \in Plugins, Create(id, p) PROVE EventsOfOwnGeneration'
  BY <1>1 DEF Create
<1>2. ASSUME NEW id \in Ids, Delete(id) PROVE EventsOfOwnGeneration'
  BY <1>2 DEF Delete
<1>3. ASSUME NEW id \in Ids, Input(id) PROVE EventsOfOwnGeneration'
  BY <1>3 DEF Input
<1>4. CASE QueueEvent
  BY <1>4 DEF QueueEvent
<1>5. CASE SetFinished
  BY <1>5 DEF SetFinished
<1>6. CASE Stop
  BY <1>6 DEF Stop
<1>7. ASSUME NEW w \in Workers, FetchResult(w) PROVE EventsOfOwnGeneration'
  BY <1>7 DEF FetchResult, Answer, Error
<1>8. ASSUME NEW w \in Workers, NEW wait \in Waits, Pass(w, wait) PROVE EventsOfOwnGeneration'
  <2>7. UNCHANGED <<nextGeneration, agenda, target, inputs, stopping>>
    BY <1>8, PassOutcomes
  <2>1. Sleeps(w, wait) \/ Fetches(w, wait) \/ Takes(w, wait) \/ Answers(w, wait)
    BY <1>8, PassOutcomes
  <2>2. CASE Sleeps(w, wait)
    BY <2>7, <2>2 DEF Sleeps
  <2>3. CASE Fetches(w, wait)
    BY <2>7, <2>3 DEF Fetches
  <2>4. CASE Takes(w, wait)
    BY <2>7, <2>4 DEF Takes
  <2>5. CASE Answers(w, wait)
    BY <2>7, <2>5 DEF Answers, Error
  <2> QED
    BY <2>1, <2>2, <2>3, <2>4, <2>5
<1>9. CASE UNCHANGED vars
  BY <1>9 DEF vars
<1> QED
  BY <1>1, <1>2, <1>3, <1>4, <1>5, <1>6, <1>7, <1>8, <1>9, StepIsOne DEF IInv

(* Every step keeps the pending events those of the history that count. *)
LEMMA NextRaw == IInv /\ [Next]_vars => RawInv'
<1> SUFFICES ASSUME IInv, [Next]_vars PROVE RawInv'
  OBVIOUS
<1>0. /\ TypeOK /\ PoolConserved /\ WaiterInv /\ AgendaInv
      /\ raw \in [Ids -> Seq(Events)]
      /\ \A id \in Ids : inst[id] # None /\ ~inst[id].overflow =>
           IsListOf(inst[id].pending, raw[id], Kept(raw[id]))
      /\ inst \in [Ids -> Instance \union {None}]
  BY DEF IInv, RawInv, TypeOK
<1>a. ASSUME NEW t \in Ids,
             raw' \in [Ids -> Seq(Events)],
             \A id \in Ids : id # t => inst'[id] = inst[id] /\ raw'[id] = raw[id],
             inst'[t] # None /\ ~inst'[t].overflow =>
               IsListOf(inst'[t].pending, raw'[t], Kept(raw'[t]))
      PROVE  RawInv'
  <2>1. ASSUME NEW id \in Ids, inst'[id] # None, ~inst'[id].overflow
        PROVE  IsListOf(inst'[id].pending, raw'[id], Kept(raw'[id]))
    <3>1. CASE id = t
      BY <1>a, <2>1, <3>1
    <3>2. CASE id # t
      <4>1. inst'[id] = inst[id] /\ raw'[id] = raw[id]
        BY <1>a, <3>2
      <4> QED
        BY <1>0, <2>1, <4>1
    <3> QED
      BY <3>1, <3>2
  <2> QED
    BY <1>a, <2>1 DEF RawInv
<1>b. ASSUME inst' = inst, raw' = raw PROVE RawInv'
  BY <1>0, <1>b DEF RawInv
<1>1. ASSUME NEW id \in Ids, NEW p \in Plugins, Create(id, p) PROVE RawInv'
  <2>1. /\ raw' = [raw EXCEPT ![id] = <<>>]
        /\ inst' = [inst EXCEPT ![id] =
             [plugin |-> p, gen |-> nextGeneration + 1, finished |-> p \in AlwaysFinished,
              pending |-> <<>>, count |-> 0, free |-> MaxEvents, overflow |-> FALSE]]
    BY <1>1 DEF Create
  <2>2. raw' \in [Ids -> Seq(Events)] /\ raw'[id] = <<>> /\ inst'[id].pending = <<>>
    BY <1>0, <2>1
  <2>3. \A i \in Ids : i # id => inst'[i] = inst[i] /\ raw'[i] = raw[i]
    BY <1>0, <2>1
  <2>4. Kept(<<>>) = {}
    BY DEF Kept
  <2>5. IsListBy(<<>>, <<>>, {}, <<>>)
    BY DEF IsListBy
  <2> QED
    BY <1>a, <2>2, <2>3, <2>4, <2>5 DEF IsListOf
<1>2. ASSUME NEW id \in Ids, Delete(id) PROVE RawInv'
  <2>1. raw' = raw /\ inst'[id] = None /\ \A i \in Ids : i # id => inst'[i] = inst[i]
    BY <1>0, <1>2 DEF Delete
  <2> QED
    BY <1>0, <1>a, <2>1
<1>3. ASSUME NEW id \in Ids, Input(id) PROVE RawInv'
  BY <1>3, <1>b DEF Input
<1>4. CASE QueueEvent
  <2> DEFINE x == Queued(inst[target], Head(agenda))
             e == Head(agenda)
  <2>1. e \in Events /\ Pooled(inst[target]) /\ target \in Ids /\ inst[target] # None
    BY <1>0, <1>4, AgendaSteps, InstancesArePooled DEF AgendaInv, QueueEvent
  <2>2. inst' = [inst EXCEPT ![target] = x] /\ raw' = [raw EXCEPT ![target] = Append(raw[target], e)]
    BY <1>4 DEF QueueEvent
  <2>3. ~x.overflow => IsListOf(x.pending, Append(raw[target], e), Kept(Append(raw[target], e)))
    BY <1>0, <2>1, QueuedIsListed
  <2> HIDE DEF x, e
  <2>4. Append(raw[target], e) \in Seq(Events)
    BY <1>0, <2>1
  <2>5. raw' \in [Ids -> Seq(Events)] /\ raw'[target] = Append(raw[target], e) /\ inst'[target] = x
    BY <1>0, <2>1, <2>2, <2>4
  <2>6. \A i \in Ids : i # target => inst'[i] = inst[i] /\ raw'[i] = raw[i]
    BY <1>0, <2>2
  <2> QED
    BY <1>a, <2>1, <2>3, <2>5, <2>6
<1>5. CASE SetFinished
  <2>1. raw' = raw /\ target \in Ids /\ inst[target] \in Instance /\ inst[target] # None
          /\ inst' = [inst EXCEPT ![target] = [inst[target] EXCEPT !.finished = TRUE]]
    BY <1>0, <1>5 DEF SetFinished, AgendaInv
  <2>2. /\ inst'[target].pending = inst[target].pending
        /\ inst'[target].overflow = inst[target].overflow
        /\ \A i \in Ids : i # target => inst'[i] = inst[i]
    BY <1>0, <2>1
  <2> QED
    BY <1>0, <1>a, <2>1, <2>2
<1>6. CASE Stop
  BY <1>6, <1>b DEF Stop
<1>7. ASSUME NEW w \in Workers, FetchResult(w) PROVE RawInv'
  BY <1>7, <1>b DEF FetchResult
<1>8. ASSUME NEW w \in Workers, NEW wait \in Waits, Pass(w, wait) PROVE RawInv'
  <2>1. Sleeps(w, wait) \/ Fetches(w, wait) \/ Takes(w, wait) \/ Answers(w, wait)
    BY <1>0, <1>8, PassOutcomes
  <2>2. CASE Takes(w, wait)
    <3>1. wait.id \in Ids
      BY DEF Waits
    <3>2. Pooled(inst[wait.id]) /\ inst[wait.id].count > 0 /\ ~inst[wait.id].overflow
            /\ inst[wait.id] # None
      BY <1>0, <2>2, <3>1, InstancesArePooled DEF Takes
    <3>3. /\ AfterFirstKept(raw[wait.id]) \in Seq(Events)
          /\ IsListOf(Taken(inst[wait.id]).pending, AfterFirstKept(raw[wait.id]),
                   Kept(AfterFirstKept(raw[wait.id])))
      BY <1>0, <3>1, <3>2, TakenIsListed
    <3>4. /\ raw' \in [Ids -> Seq(Events)] /\ raw'[wait.id] = AfterFirstKept(raw[wait.id])
          /\ inst'[wait.id] = Taken(inst[wait.id])
          /\ \A i \in Ids : i # wait.id => inst'[i] = inst[i] /\ raw'[i] = raw[i]
      BY <1>0, <2>2, <3>1, <3>3 DEF Takes
    <3> QED
      BY <1>a, <3>1, <3>3, <3>4
  <2>3. CASE Sleeps(w, wait) \/ Fetches(w, wait) \/ Answers(w, wait)
    BY <1>b, <2>3 DEF Sleeps, Fetches, Answers
  <2> QED
    BY <2>1, <2>2, <2>3
<1>9. CASE UNCHANGED vars
  BY <1>9, <1>b DEF vars
<1> QED
  BY <1>0, <1>1, <1>2, <1>3, <1>4, <1>5, <1>6, <1>7, <1>8, <1>9, StepIsOne

-----------------------------------------------------------------------------
(* The inductive invariant holds at the start and through every step.      *)
LEMMA InitIInv == Init => IInv
<1> SUFFICES ASSUME Init PROVE IInv
  OBVIOUS
<1> USE DEF Init
<1>1. TypeOK
  <2>1. agenda \in Seq(Events \union {Finish}) /\ target \in Ids \union {None}
    OBVIOUS
  <2>2. NoWait \in WaitRec
    BY DEF WaitRec, NoWait
  <2>3. waiter \in [Workers -> WaitRec]
    BY <2>2
  <2>4. inst \in [Ids -> Instance \union {None}]
    OBVIOUS
  <2>5. nextGeneration \in 0..MaxGenerations /\ inputs \in 0..MaxInputs
    OBVIOUS
  <2> QED
    BY <2>1, <2>3, <2>4, <2>5 DEF TypeOK
<1>2. PoolConserved /\ WaiterInv /\ AgendaInv
  BY DEF PoolConserved, WaiterInv, AgendaInv
<1>3. FinalInv /\ SleepersHaveCause /\ EventsOfOwnGeneration
  BY DEF FinalInv, SleepersHaveCause, EventsOfOwnGeneration
<1>4. RawInv
  BY DEF RawInv
<1> QED
  BY <1>1, <1>2, <1>3, <1>4 DEF IInv

LEMMA NextIInv == IInv /\ [Next]_vars => IInv'
BY NextType, NextPool, NextWaiter, NextAgenda, NextFinal, NextSleepers, NextOwn, NextRaw
   DEF IInv

LEMMA Inductive == Spec => []IInv
BY InitIInv, NextIInv, PTL DEF Spec

(* No wakeup is missed: whoever sleeps on the shared condition has reason  *)
(* to, however many dialogs come, change, finish and go while it sleeps.   *)
THEOREM NoMissedWakeup == Spec => []SleepersHaveCause
<1>1. IInv => SleepersHaveCause
  BY DEF IInv
<1> QED
  BY <1>1, Inductive, PTL

(* What a wait-event is told is true: an event is of the dialog it began   *)
(* to wait for, and none of it comes after "finished".                     *)
THEOREM RepliesHold == Spec => []RepliesAreTrue
<1>1. IInv => RepliesAreTrue
  <2> SUFFICES ASSUME IInv PROVE FinishedIsFinal
    BY DEF IInv, RepliesAreTrue
  <2> QED
    BY DEF IInv, FinalInv, AgendaInv, FinishedIsFinal
<1> QED
  BY <1>1, Inductive, PTL

(* Events neither leak from the pool nor are counted twice, whatever its   *)
(* size.                                                                   *)
THEOREM PoolIsConserved == Spec => []PoolConserved
<1>1. IInv => PoolConserved
  BY DEF IInv
<1> QED
  BY <1>1, Inductive, PTL

(* What is pending is the latest of each node's changes since the last     *)
(* button, and every button, in order, unless an overflow is on record: no *)
(* mix of coalescing, consuming and reusing a name loses or reorders one.  *)
THEOREM LatestIsPending == Spec => []PendingIsLatest
<1>1. IInv => PendingIsLatest
  <2> SUFFICES ASSUME IInv PROVE Latest
    BY DEF IInv, PendingIsLatest
  <2>1. ASSUME NEW id \in Ids, inst[id] # None, ~inst[id].overflow
        PROVE  inst[id].pending = Picked(raw[id], Kept(raw[id]))
    <3>1. inst[id].pending \in Seq(Events) /\ raw[id] \in Seq(Events)
      BY <2>1 DEF IInv, TypeOK, RawInv
    <3>2. Kept(raw[id]) \in SUBSET (1..Len(raw[id]))
      BY <3>1 DEF Kept
    <3>3. IsListOf(inst[id].pending, raw[id], Kept(raw[id]))
      BY <2>1 DEF IInv, RawInv
    <3> QED
      BY <3>1, <3>2, <3>3, ListsThePicked
  <2> QED
    BY <2>1 DEF Latest
<1> QED
  BY <1>1, Inductive, PTL
=============================================================================
