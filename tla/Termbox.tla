------------------------------ MODULE Termbox ------------------------------
(***************************************************************************)
(* One terminal dialog (src/src/plugins/termbox-main.c, termbox-input.c,   *)
(* termbox-output.c): a command in a PTY, its output fed to a screen, its  *)
(* input queued in a bounded buffer, its exit, and the cleanup thread that *)
(* ends it when the dialog is deleted.  The main loop of plainmouthd.c     *)
(* looks at the PTY, then handles what it saw while the command runs on.   *)
(***************************************************************************)
EXTENDS Integers, Sequences, FiniteSets

CONSTANTS
  Limit,       \* TERMBOX_INPUT_LIMIT
  ReadLimit,   \* bytes of output taken in one event
  PtyRoom,     \* bytes of input the PTY holds for the command
  Rounds,      \* rounds of 10 ms the cleanup thread waits before it kills
  MaxInput,    \* bound: bytes of input
  MaxOutput    \* bound: bytes of output

VARIABLES
  life, loop,             \* the dialog: none, open, deleted; the main loop
  revents, childPending,  \* what poll saw of the PTY and of the signalfd
  exited, failed, outputClosed, inputClosed, clicked,
  queue, wantOut,         \* st->input: data, offset, length; POLLOUT in st->master.events
  inputs, owed, inOrder,  \* bytes offered; history: accepted and not given to the PTY yet,
                          \* and every byte the PTY got was the next one owed
  out, outputs,           \* output in the PTY; bytes of output so far
  unread,                 \* bytes of input in the PTY
  proc, signals, holder,  \* the command; signals on their way to it; others hold the PTY
  sigchld,                \* SIGCHLD pending in the signalfd
  cleanup, waited, stray  \* cleanup thread; a signal went to a PID no longer ours

flags    == <<exited, failed, outputClosed, inputClosed, clicked>>
input    == <<queue, wantOut, owed, inOrder>>
pty      == <<out, unread>>
command  == <<proc, signals, holder, sigchld>>
cleaning == <<cleanup, waited, stray>>
polled   == <<revents, childPending>>
bounds   == <<inputs, outputs>>
vars == <<life, loop, polled, flags, input, pty, command, cleaning, bounds>>

ConstAssumption ==
  /\ {Limit, ReadLimit, PtyRoom} \subseteq Nat \ {0}
  /\ {Rounds, MaxInput, MaxOutput} \subseteq Nat

Reply == 0   \* a byte the screen answers a query of the command with

Init ==
  /\ life = "none" /\ loop = "poll" /\ revents = {} /\ childPending = FALSE
  /\ exited = FALSE /\ failed = FALSE /\ clicked = FALSE
  /\ outputClosed = FALSE /\ inputClosed = FALSE
  /\ queue = [data |-> <<>>, offset |-> 0, length |-> 0] /\ wantOut = FALSE
  /\ inputs = 0 /\ owed = <<>> /\ inOrder = TRUE
  /\ out = <<>> /\ outputs = 0 /\ unread = 0
  /\ proc = "none" /\ signals = {} /\ holder = FALSE /\ sigchld = FALSE
  /\ cleanup = "none" /\ waited = 0 /\ stray = FALSE

Open      == life = "open"
Finished  == failed \/ clicked    \* termbox_finished, hence instance->finished
SlaveOpen == proc = "running" \/ holder
Least(a, b) == IF a < b THEN a ELSE b

-----------------------------------------------------------------------------
(* The input queue: length bytes of data from offset on. *)
Pending(q)    == SubSeq(q.data, q.offset + 1, q.offset + q.length)
Fits(q, n)    == n <= Limit - q.length
Cleared       == [data |-> <<>>, offset |-> 0, length |-> 0]

AppendedUnmoved(q, chunk) ==  \* faulty: what has been written is not dropped first
  [data |-> q.data \o chunk, offset |-> q.offset, length |-> q.length + Len(chunk)]
Appended(q, chunk) ==
  [data |-> Pending(q) \o chunk, offset |-> 0, length |-> q.length + Len(chunk)]

Flushed(q, n) ==
  IF n = q.length THEN Cleared ELSE [q EXCEPT !.offset = @ + n, !.length = @ - n]

-----------------------------------------------------------------------------
(* The work of the main loop that is not the PTY's: requests and keys.     *)
Chunk(n) == [i \in 1..n |-> inputs + i]

(* A key or set-value.  A refusal leaves the queue as it is. *)
QueueInput(n) ==
  /\ Open /\ loop = "work" /\ inputs + n <= MaxInput
  /\ inputs' = inputs + n
  /\ \/ /\ ~exited /\ ~inputClosed /\ ~failed /\ Fits(queue, n)
        /\ queue' = Appended(queue, Chunk(n)) /\ wantOut' = TRUE
        /\ owed' = owed \o Chunk(n)
        /\ UNCHANGED inOrder
     \/ /\ exited \/ inputClosed \/ failed \/ ~Fits(queue, n)
        /\ UNCHANGED input
  /\ UNCHANGED <<life, loop, polled, flags, pty, command, cleaning, outputs>>

(* The Close button, by key or set-value. *)
Click ==
  /\ Open /\ loop = "work" /\ ~clicked
  /\ clicked' = TRUE
  /\ UNCHANGED <<life, loop, polled, exited, failed, outputClosed, inputClosed,
                 input, pty, command, cleaning, bounds>>

(* A signal sent to a PID that has been reaped may reach anyone. *)
Kill(p, sig) ==
  /\ stray' = (stray \/ p = "reaped")
  /\ signals' = IF p = "running" THEN signals \cup {sig} ELSE signals

(* The command is told to end, the rest left to a thread or, if there is   *)
(* none, done at once.                                                     *)
EndCommand(p) ==
  /\ life' = "deleted"
  /\ \/ Kill(p, "term") /\ cleanup' = "wait"
     \/ Kill(p, "kill") /\ cleanup' = "reap"

Spawn == proc = "none" /\ proc' = "running"

(* The command is started last; a failure after that ends like a delete.   *)
Create ==
  /\ life = "none" /\ loop = "work"
  /\ Spawn
  /\ \/ life' = "open" /\ UNCHANGED <<signals, cleaning>>
     \/ EndCommand("running") /\ UNCHANGED waited
  /\ UNCHANGED <<loop, polled, flags, input, pty, holder, sigchld, bounds>>

Delete ==
  /\ Open /\ loop = "work"
  /\ EndCommand(proc)
  /\ exited' = FALSE /\ failed' = FALSE /\ clicked' = FALSE
  /\ outputClosed' = FALSE /\ inputClosed' = FALSE
  /\ queue' = Cleared /\ wantOut' = FALSE /\ owed' = <<>> /\ out' = <<>> /\ unread' = 0
  /\ UNCHANGED <<loop, polled, inOrder, proc, holder, sigchld, waited, bounds>>

WorkDone ==
  /\ loop = "work" /\ loop' = "poll"
  /\ UNCHANGED <<life, polled, flags, input, pty, command, cleaning, bounds>>

-----------------------------------------------------------------------------
(* poll: the PTY is asked about unless the dialog is over or its output    *)
(* has ended; loop goes on when there is anything to do.                   *)
Watched == Open /\ ~Finished /\ ~outputClosed

Poll ==
  /\ loop = "poll" /\ loop' = "event"
  /\ revents' = IF ~Watched THEN {}
                ELSE {e \in {"in", "out", "hup"} :
                       CASE e = "in"  -> out # <<>>
                         [] e = "out" -> wantOut /\ unread < PtyRoom
                         [] e = "hup" -> ~SlaveOpen}
  /\ childPending' = sigchld
  /\ UNCHANGED <<life, flags, input, pty, command, cleaning, bounds>>

EventSkipped ==
  /\ loop = "event" /\ loop' = "child"
  /\ ~Open \/ Finished \/ revents = {}
  /\ UNCHANGED <<life, polled, flags, input, pty, command, cleaning, bounds>>

(* termbox_event: output first, with the replies it provokes, then input.  *)
ToRead  == IF revents \cap {"in", "hup"} = {} THEN 0 ELSE Least(Len(out), ReadLimit)
Replies == [i \in 1..Cardinality({k \in 1..ToRead : out[k] = "query"}) |-> Reply]
Deaf    == exited \/ inputClosed     \* termbox_reply drops what it is given

Eof ==  \* the read behind the last byte fails once nobody holds the slave
  revents \cap {"in", "hup"} # {} /\ ToRead < ReadLimit /\ ~SlaveOpen

(* Any failure ends the dialog where it stands: no descriptor, an error of  *)
(* a read after k bytes, a reply there is no room for after r of them, or   *)
(* an error of a write after n bytes.                                       *)
EventFails ==
  /\ failed' = TRUE
  /\ \E k \in 0..ToRead : \E r \in 0..Cardinality({i \in 1..k : out[i] = "query"}) :
       LET replies == [i \in 1..r |-> Reply]
           q   == IF r = 0 THEN queue ELSE Appended(queue, replies)
           due == IF r = 0 THEN owed ELSE owed \o replies
       IN
       /\ r > 0 => ~Deaf /\ Fits(queue, r)
       /\ out' = SubSeq(out, k + 1, Len(out))
       /\ wantOut' = (wantOut \/ r > 0)
       /\ \/ queue' = q /\ owed' = due /\ UNCHANGED <<inOrder, unread>>
          \/ \E n \in 1..PtyRoom - unread :
               /\ "out" \in revents /\ ~inputClosed /\ k = ToRead /\ n < q.length
               /\ queue' = Flushed(q, n)
               /\ inOrder' = (inOrder /\ SubSeq(Pending(q), 1, n) = SubSeq(due, 1, n))
               /\ owed' = SubSeq(due, n + 1, Len(due))
               /\ unread' = unread + n
  /\ UNCHANGED <<exited, outputClosed, inputClosed, clicked>>

EventReads ==
  LET q == IF Deaf \/ Replies = <<>> THEN queue ELSE Appended(queue, Replies)
      n == Least(q.length, PtyRoom - unread)
      due == IF Deaf THEN owed ELSE owed \o Replies
      closes == inputClosed \/ Eof
  IN
  /\ Deaf \/ Fits(queue, Len(Replies))
  /\ out' = SubSeq(out, ToRead + 1, Len(out))
  /\ outputClosed' = (outputClosed \/ Eof)
  /\ \/ /\ closes /\ queue' = IF Eof THEN Cleared ELSE q
        /\ inputClosed' = TRUE /\ owed' = <<>>
        /\ UNCHANGED <<inOrder, unread>>
     \/ /\ ~closes /\ "out" \in revents
        /\ queue' = Flushed(q, n)
        /\ inOrder' = (inOrder /\ SubSeq(Pending(q), 1, n) = SubSeq(due, 1, n))
        /\ owed' = SubSeq(due, n + 1, Len(due))
        /\ unread' = unread + n
        /\ UNCHANGED inputClosed
     \/ /\ ~closes /\ "out" \in revents /\ ~SlaveOpen /\ q.length > 0   \* EIO
        /\ queue' = Cleared /\ inputClosed' = TRUE /\ owed' = <<>>
        /\ UNCHANGED <<inOrder, unread>>
     \/ /\ ~closes /\ "out" \notin revents /\ queue' = q /\ owed' = due
        /\ UNCHANGED <<inOrder, unread, inputClosed>>
  /\ wantOut' = (queue'.length > 0 /\ (wantOut \/ Replies # <<>>))
  /\ UNCHANGED <<exited, failed, clicked>>

Event ==
  /\ loop = "event" /\ loop' = "child"
  /\ Open /\ ~Finished /\ revents # {}
  /\ EventFails \/ EventReads
  /\ UNCHANGED <<life, polled, command, cleaning, bounds>>

(* One SIGCHLD stands for any number: every dialog asks for its own child. *)
ExitClosesOutput ==  \* faulty: what is left in the PTY is not read any more
  /\ exited' = TRUE /\ outputClosed' = TRUE
  /\ queue' = Cleared /\ wantOut' = FALSE
  /\ owed' = <<>> /\ UNCHANGED <<failed, inputClosed, clicked, inOrder>>

Exit ==
  /\ exited' = TRUE
  /\ queue' = Cleared /\ wantOut' = FALSE
  /\ owed' = <<>> /\ UNCHANGED <<failed, outputClosed, inputClosed, clicked, inOrder>>

WaitFails ==
  /\ failed' = TRUE /\ UNCHANGED <<exited, outputClosed, inputClosed, clicked, input>>

Asked == childPending /\ Open /\ ~Finished /\ ~exited

ChildEvent ==
  /\ loop = "child" /\ loop' = "work"
  /\ sigchld' = (sigchld /\ ~childPending)
  /\ \/ Asked /\ proc = "zombie" /\ Exit
     \/ Asked /\ WaitFails
     \/ ~(Asked /\ proc = "zombie") /\ UNCHANGED <<flags, input>>
  /\ UNCHANGED <<life, polled, pty, proc, signals, holder, cleaning, bounds>>

-----------------------------------------------------------------------------
(* The command: it writes, reads, forks someone who keeps the PTY, heeds   *)
(* SIGTERM and SIGHUP or not, and exits.  A PTY that is closed takes and   *)
(* gives nothing.                                                          *)
CommandWrites(b) ==
  /\ SlaveOpen /\ Open /\ outputs < MaxOutput
  /\ out' = Append(out, b) /\ outputs' = outputs + 1
  /\ UNCHANGED <<life, loop, polled, flags, input, unread, command, cleaning, inputs>>

CommandReads ==
  /\ SlaveOpen /\ Open /\ unread > 0
  /\ unread' = unread - 1
  /\ UNCHANGED <<life, loop, polled, flags, input, out, command, cleaning, bounds>>

HolderStarts ==
  /\ proc = "running" /\ ~holder /\ holder' = TRUE
  /\ UNCHANGED <<life, loop, polled, flags, input, pty, proc, signals, sigchld, cleaning, bounds>>

HolderEnds ==
  /\ holder /\ holder' = FALSE
  /\ UNCHANGED <<life, loop, polled, flags, input, pty, proc, signals, sigchld, cleaning, bounds>>

Exits ==
  /\ proc = "running" /\ proc' = "zombie"
  /\ signals' = {} /\ sigchld' = TRUE
  /\ UNCHANGED <<life, loop, polled, flags, input, pty, holder, cleaning, bounds>>

Killed == "kill" \in signals /\ Exits

-----------------------------------------------------------------------------
(* cleanup_child: the command is looked at without being reaped, so that   *)
(* its PID stays its own until the last signal has been sent.              *)
LooksReaping ==  \* faulty: waitid without WNOWAIT
  /\ cleanup = "wait"
  /\ \/ proc = "zombie" /\ proc' = "reaped" /\ cleanup' = "kill" /\ UNCHANGED waited
     \/ /\ proc = "running" /\ UNCHANGED proc
        /\ \/ waited < Rounds /\ waited' = waited + 1 /\ UNCHANGED cleanup
           \/ waited = Rounds /\ cleanup' = "kill" /\ UNCHANGED waited
  /\ UNCHANGED <<signals, holder, sigchld, stray>>

Looks ==
  /\ cleanup = "wait"
  /\ \/ proc = "zombie" /\ cleanup' = "kill" /\ UNCHANGED waited
     \/ proc = "running" /\ waited < Rounds /\ waited' = waited + 1 /\ UNCHANGED cleanup
     \/ proc = "running" /\ waited = Rounds /\ cleanup' = "kill" /\ UNCHANGED waited
  /\ UNCHANGED <<command, stray>>

KillsNot ==  \* faulty: the command is trusted to have heeded SIGTERM
  /\ cleanup = "kill" /\ cleanup' = "reap"
  /\ UNCHANGED <<proc, signals, holder, sigchld, waited, stray>>

Kills ==
  /\ cleanup = "kill" /\ cleanup' = "reap"
  /\ Kill(proc, "kill")
  /\ UNCHANGED <<proc, holder, sigchld, waited>>

Reaps ==
  /\ cleanup = "reap" /\ proc \in {"zombie", "reaped"}
  /\ proc' = "reaped" /\ cleanup' = "done"
  /\ UNCHANGED <<signals, holder, sigchld, waited, stray>>

(* cleanup_jobs_collect, by the next create or delete or the unloading.    *)
Collect ==
  /\ cleanup = "done" /\ cleanup' = "joined"
  /\ UNCHANGED <<command, waited, stray>>

Cleanup ==
  /\ Looks \/ Kills \/ Reaps \/ Collect
  /\ UNCHANGED <<life, loop, polled, flags, input, pty, bounds>>

(* poll returns for the PTY or SIGCHLD by itself, else when it is woken.   *)
PollReturns == Poll /\ (revents' # {} \/ childPending')
LoopRun     == PollReturns \/ EventSkipped \/ Event \/ ChildEvent \/ WorkDone

Work == Create \/ Click \/ Delete \/ \E n \in 1..2 : QueueInput(n)

CommandRun ==
  \/ \E b \in {"text", "query"} : CommandWrites(b)
  \/ CommandReads \/ HolderStarts \/ HolderEnds \/ Exits

Next == LoopRun \/ Poll \/ Work \/ CommandRun \/ Cleanup

(* The main loop and the cleanup thread are scheduled, and SIGKILL works.  *)
Spec ==
  /\ Init /\ [][Next]_vars
  /\ WF_vars(LoopRun) /\ WF_vars(Cleanup) /\ WF_vars(Killed)

-----------------------------------------------------------------------------
(* Input reaches the PTY as it was accepted: in order, nothing twice, and  *)
(* nothing lost but by the end of the command; what waits is within the    *)
(* bounds of its array, and POLLOUT is asked for as long as any does.      *)
InputInOrder ==
  /\ queue.offset + queue.length <= Limit
  /\ inOrder
  /\ Open /\ ~failed => owed = Pending(queue) /\ (wantOut <=> queue.length > 0)

(* A signal is only ever sent to the command of this dialog, never to a    *)
(* process that has its PID after it was reaped (cleanup_child's comment). *)
NoStraySignal == ~stray

(* What the command wrote is read, after its exit too, and its exit is     *)
(* noticed, unless the dialog ends first (Documentation/architecture.md,   *)
(* "Output is drained independently of child exit"); and the command of a  *)
(* deleted dialog is reaped, even if it heeds no SIGTERM.                  *)
Over == life = "deleted" \/ Finished
CommandFollowed ==
  /\ (out # <<>>) ~> (out = <<>> \/ Over)
  /\ (Open /\ proc = "zombie") ~> (exited \/ Over)
  /\ life = "deleted" ~> proc = "reaped"
=============================================================================
