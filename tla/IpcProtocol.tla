---------------------------- MODULE IpcProtocol ----------------------------
(***************************************************************************)
(* One connection of src/src/ipc.c, both ends: the client's exchange       *)
(* (ipc_send_message_common, as plainmouth.c and plaindialog.c call it)    *)
(* and the server loop (ipc_event_loop) with handle_message of             *)
(* plainmouthd.c behind it.                                                *)
(*                                                                         *)
(* The socket is a stream: a line is two cells, its body and the NUL that  *)
(* ends it, and a recv takes any prefix of what has arrived.  Ids are      *)
(* numbers, as the server issues them; NotANumber is any other word.       *)
(***************************************************************************)
EXTENDS Integers, Sequences, SequencesExt, FiniteSetsExt

CONSTANTS
  Commands,      \* actions the client asks for, of those ActionsOf knows
  Mistakes,      \* bound: "PAIR" lines without "=" in a request
  Strays,        \* bursts of lines a client may send outside any exchange
  MaxExchanges,  \* bound: exchanges on the connection
  MaxStrays      \* bound: stray bursts on the connection

ASSUME ConstAssumption ==
  /\ Mistakes \in Nat /\ MaxExchanges \in Nat /\ MaxStrays \in Nat

(* Lines that cannot touch a message, and those that add to one.           *)
Greeting(line) == line.cmd \in {"HELLO", "PING", "PONG", "RESPDATA", "RESPONSE"}
GoodPair(line) == line.cmd = "PAIR" /\ line.key # "bad"

(* Where in some lines one may add a message to the server's list.         *)
Makes(lines) ==
  {i \in DOMAIN lines :
     \/ lines[i].cmd \in {"HELLO", "TAKE"}
     \/ /\ GoodPair(lines[i])
        /\ i > 1 => ~(GoodPair(lines[i - 1]) /\ lines[i - 1].id = lines[i].id)}

Greets(lines) == \E i \in DOMAIN lines : lines[i].cmd = "HELLO"
StrayLines    == UNION {{lines[i] : i \in DOMAIN lines} : lines \in Strays}

(* What the stray lines may be.  After a HELLO outside any exchange comes  *)
(* no line that names an id, which may be that of the next exchange, or    *)
(* whose error is answered with id 0, which the client would take for the  *)
(* answer to its request; where there are several bursts, that goes for    *)
(* all of them.  A burst adds at most one message.                         *)
ASSUME StraysAssumption ==
  /\ \A lines \in Strays :
       /\ lines \in Seq(StrayLines)
       /\ \A i, j \in DOMAIN lines :
            lines[i].cmd = "HELLO" /\ i < j => Greeting(lines[j])
       /\ Cardinality(Makes(lines)) <= 1
  /\ MaxStrays > 1 /\ (\E lines \in Strays : Greets(lines)) =>
       \A line \in StrayLines : Greeting(line)
  /\ \A line \in StrayLines :
       /\ line.cmd \in {"HELLO", "TAKE", "PAIR", "DONE", "PING", "PONG", "RESPDATA",
                        "RESPONSE", "malformed"}
       /\ line.id \in Int
       /\ line.cmd \in {"TAKE", "PAIR", "DONE"} => line.id \in Nat

VARIABLES
  up, down,      \* cells in the socket, client to server and back
  srvBuf, cliBuf,\* ctx->inbuf of each end
  msgs, nextId,  \* the server's list of messages, head first; ctx->next_msgid
  thread,        \* the connection thread: poll, drain, handle, answer, gone
  current,       \* the message it handles, and what the handler returned
  shut,          \* the daemon has shut the socket down
  cli,           \* the client: idle, take, pairs, reply, closed
  request,       \* the request it sends: command, lines left to send
  myId, resp,    \* response1.id; the pairs of the RESPDATA lines so far
  result,        \* what the last finished exchange returned
  served,        \* history: the answer the handler gave to this exchange
  exchanges, strays

server == <<srvBuf, msgs, nextId, thread, current>>
client == <<cliBuf, cli, request, myId, resp, result, exchanges, strays>>
vars   == <<up, down, server, shut, client, served>>

NotANumber == -1
None == [none |-> TRUE]

-----------------------------------------------------------------------------
(* Lines and the buffers they are put together in. *)
Cells(lines) ==
  [i \in 1..2 * Len(lines) |-> [of |-> lines[(i + 1) \div 2], end |-> i % 2 = 0]]

Line(cmd, id)       == [cmd |-> cmd, id |-> id]
Pair(cmd, id, k, v) == [cmd |-> cmd, id |-> id, key |-> k, val |-> v]
BadPair(id)         == [cmd |-> "PAIR", id |-> id, key |-> "bad"]
Response(id, st)    == [cmd |-> "RESPONSE", id |-> id, status |-> st]

HasLine(buf)  == \E i \in DOMAIN buf : buf[i].end
LineEnd(buf)  == Min({i \in DOMAIN buf : buf[i].end})
NextLine(buf) == buf[LineEnd(buf)].of
Rest(buf)     == SubSeq(buf, LineEnd(buf) + 1, Len(buf))

Open == cli # "closed"       \* the client has not closed its end
ToClient(lines) ==           \* a send fails once either end is closed
  down' = IF shut \/ ~Open THEN down ELSE down \o Cells(lines)

-----------------------------------------------------------------------------
(* Requests, and what handle_message answers them with. *)
RequestPairs(c) ==
  CASE c = "none" -> <<[key |-> "id", val |-> "w"]>>
    [] c = "call" -> <<[key |-> "action", val |-> c], [key |-> "id", val |-> "w"]>>
    [] OTHER      -> <<[key |-> "action", val |-> c]>>

(* req_get_val: the first pair with the key counts. *)
HasVal(pairs, k) == \E i \in DOMAIN pairs : pairs[i].key = k
GetVal(pairs, k) == pairs[Min({i \in DOMAIN pairs : pairs[i].key = k})].val

Datum(k, v) == [key |-> k, val |-> v]
Err         == <<Datum("ERR", 0)>>

(* RESPDATA lines and return code: the thread's own answers, and "call",   *)
(* whatever a UI command or a wait may say.                                *)
Outcomes(pairs) ==
  LET all == [data : {<<>>, <<Datum("KEY", 1)>>, <<Datum("KEY", 1), Datum("KEY", 2)>>}, ok : {TRUE}]
             \cup [data : {<<>>, Err}, ok : {FALSE}]
      a == IF HasVal(pairs, "action") THEN GetVal(pairs, "action") ELSE "none"
  IN CASE a = "quit" -> {[data |-> <<>>, ok |-> TRUE]}
       [] a = "ping" -> {[data |-> <<Datum("PONG", 1)>>, ok |-> TRUE]}
       [] a = "has-active-vt" -> {[data |-> <<Datum("ISTTY", v)>>, ok |-> TRUE] : v \in {0, 1}}
       [] a = "call" -> all
       [] OTHER      -> {[data |-> Err, ok |-> FALSE]}

(* EXIT_SUCCESS of plainmouth: the response was OK, and for two commands   *)
(* the value in the data is not zero.                                      *)
ExitSuccess(c, ok, data) ==
  /\ ok
  /\ \A i \in DOMAIN data :
       \/ <<c, data[i].key>> \notin {<<"ping", "PONG">>, <<"has-active-vt", "ISTTY">>}
       \/ data[i].val # 0

-----------------------------------------------------------------------------
Init ==
  /\ up = <<>> /\ down = <<>> /\ srvBuf = <<>> /\ cliBuf = <<>>
  /\ msgs = <<>> /\ nextId = 0
  /\ thread = "poll" /\ current = None /\ shut = FALSE
  /\ cli = "idle" /\ request = [cmd |-> "none", left |-> <<>>]
  /\ myId = NotANumber /\ resp = <<>> /\ result = None
  /\ served = None /\ exchanges = 0 /\ strays = 0

(***************************************************************************)
(* The client.                                                             *)
(***************************************************************************)
ToServer(line) == up' = up \o Cells(<<line>>)

Returned(ok) ==
  [cmd |-> request.cmd, ok |-> ok, data |-> resp, success |-> ExitSuccess(request.cmd, ok, resp)]

(* A failed exchange: every caller gives the connection up. *)
GiveUp ==
  /\ cli' = "closed"
  /\ result' = Returned(FALSE)

ClientIdle == cli = "idle" /\ UNCHANGED <<server, shut, down, cliBuf, myId>>

(* ipc_send_message_common, up to the HELLO.  Mistakes are pairs given to  *)
(* plainmouth on its command line, sent as they are.                       *)
Ask(c, mistakes) ==
  /\ ClientIdle /\ exchanges < MaxExchanges
  /\ exchanges' = exchanges + 1
  /\ resp' = <<>> /\ served' = None
  /\ \/ /\ shut
        /\ cli' = "closed" /\ result' = Returned(FALSE)
        /\ UNCHANGED <<up, request>>
     \/ /\ ~shut
        /\ request' = [cmd |-> c, left |-> [i \in 1..mistakes |-> "bad"]
                                           \o [i \in DOMAIN RequestPairs(c) |-> "pair"]]
        /\ cli' = "take" /\ ToServer(Line("HELLO", NotANumber))
        /\ UNCHANGED result
  /\ UNCHANGED strays

Stray(lines) ==
  /\ ClientIdle /\ strays < MaxStrays /\ ~shut
  /\ strays' = strays + 1
  /\ up' = up \o Cells(lines)
  /\ UNCHANGED <<cli, request, resp, result, served, exchanges>>

CloseConnection ==
  /\ ClientIdle
  /\ cli' = "closed"
  /\ UNCHANGED <<up, request, resp, result, served, exchanges, strays>>

(* send_pairs_raw, send_pairs_kv, then the DONE. *)
NextPair ==
  LET n == Len(RequestPairs(request.cmd)) + 1 - Len(request.left) IN
    IF Head(request.left) = "bad" THEN BadPair(myId)
    ELSE Pair("PAIR", myId, RequestPairs(request.cmd)[n].key, RequestPairs(request.cmd)[n].val)

SendPairs ==
  /\ cli = "pairs"
  /\ \/ /\ shut /\ GiveUp
        /\ UNCHANGED <<up, request>>
     \/ /\ ~shut /\ request.left # <<>>
        /\ ToServer(NextPair)
        /\ request' = [request EXCEPT !.left = Tail(@)]
        /\ UNCHANGED <<cli, result>>
     \/ /\ ~shut /\ request.left = <<>>
        /\ ToServer(Line("DONE", myId))
        /\ cli' = "reply"
        /\ UNCHANGED <<request, result>>
  /\ UNCHANGED <<server, shut, down, cliBuf, myId, resp, served, exchanges, strays>>

(* ipc_recv_token when no whole line is buffered. *)
ClientRecv ==
  /\ cli \in {"take", "reply"} /\ ~HasLine(cliBuf)
  /\ \/ /\ down = <<>> /\ shut /\ GiveUp
        /\ UNCHANGED <<down, cliBuf>>
     \/ /\ \E n \in 1..Len(down) :
             /\ cliBuf' = cliBuf \o SubSeq(down, 1, n)
             /\ down' = SubSeq(down, n + 1, Len(down))
        /\ UNCHANGED <<cli, result>>
  /\ UNCHANGED <<up, server, shut, request, myId, resp, served, exchanges, strays>>

(* The answer to HELLO must be TAKE. *)
ClientTake ==
  /\ cli = "take" /\ HasLine(cliBuf)
  /\ cliBuf' = Rest(cliBuf)
  /\ LET line == NextLine(cliBuf) IN
       IF line.cmd = "TAKE"
       THEN myId' = line.id /\ cli' = "pairs" /\ UNCHANGED result
       ELSE GiveUp /\ UNCHANGED myId
  /\ UNCHANGED <<up, down, server, shut, request, resp, served, exchanges, strays>>

(* The loop after DONE: data is collected whatever its id; a RESPONSE must *)
(* carry the id of the request, or 0; any other line is skipped.           *)
ClientReply ==
  /\ cli = "reply" /\ HasLine(cliBuf)
  /\ cliBuf' = Rest(cliBuf)
  /\ LET line == NextLine(cliBuf) IN
       \/ /\ line.cmd = "RESPDATA"
          /\ resp' = Append(resp, Datum(line.key, line.val))
          /\ UNCHANGED <<cli, result>>
       \/ /\ line.cmd = "RESPONSE" /\ line.id \notin {myId, 0}
          /\ GiveUp /\ UNCHANGED resp
       \/ /\ line.cmd = "RESPONSE" /\ line.id \in {myId, 0}
          /\ cli' = "idle"
          /\ result' = Returned(line.status = "OK")
          /\ UNCHANGED resp
       \/ /\ line.cmd \notin {"RESPDATA", "RESPONSE"}
          /\ UNCHANGED <<cli, result, resp>>
  /\ UNCHANGED <<up, down, server, shut, request, myId, served, exchanges, strays>>

(***************************************************************************)
(* The server: ipc_event_loop, one line a step.                            *)
(***************************************************************************)
ServerOnly == UNCHANGED <<cliBuf, cli, request, myId, resp, result, exchanges, strays>>

(* poll and recv.  A hangup is looked at before the data. *)
ServerRecv ==
  /\ thread = "poll" /\ Open /\ ~shut
  /\ \E n \in 1..Len(up) :
       /\ srvBuf' = srvBuf \o SubSeq(up, 1, n)
       /\ up' = SubSeq(up, n + 1, Len(up))
  /\ thread' = "drain"
  /\ ServerOnly /\ UNCHANGED <<down, msgs, nextId, current, shut, served>>

ServerHangup ==
  /\ thread = "poll" /\ (shut \/ ~Open)
  /\ thread' = "gone"
  /\ msgs' = <<>> /\ srvBuf' = <<>>
  /\ ServerOnly /\ UNCHANGED <<up, down, nextId, current, shut, served>>

DrainOnce ==  \* faulty: one line for each recv
  /\ thread = "drain"
  /\ thread' = "poll"
  /\ ServerOnly /\ UNCHANGED <<up, down, srvBuf, msgs, nextId, current, shut, served>>

DrainEnds ==
  /\ thread = "drain" /\ ~HasLine(srvBuf)
  /\ thread' = "poll"
  /\ ServerOnly /\ UNCHANGED <<up, down, srvBuf, msgs, nextId, current, shut, served>>

(* ipc_msg_find takes the first of an id, ipc_msg_add puts at the head. *)
Known(id)    == \E i \in DOMAIN msgs : msgs[i].id = id
FindMsg(id)  == Min({i \in DOMAIN msgs : msgs[i].id = id})
AddMsgLast(id, pairs) ==  \* faulty: behind one a stray line has made
  Append(msgs, [id |-> id, pairs |-> pairs])
AddMsg(id, pairs) == <<[id |-> id, pairs |-> pairs]>> \o msgs

HandleHello ==
  /\ ToClient(<<Line("TAKE", nextId)>>)
  /\ IF shut \/ ~Open THEN UNCHANGED <<msgs, nextId>>
     ELSE msgs' = AddMsg(nextId, <<>>) /\ nextId' = nextId + 1
  /\ UNCHANGED <<thread, current>>

HandleTake(line) ==
  /\ msgs' = AddMsg(line.id, <<>>)
  /\ UNCHANGED <<down, nextId, thread, current>>

(* A pair without "=" is answered at once and leaves the message alone. *)
HandlePair(line) ==
  /\ UNCHANGED <<nextId, thread, current>>
  /\ IF line.key = "bad"
     THEN ToClient(<<Response(line.id, "ERROR")>>) /\ UNCHANGED msgs
     ELSE /\ LET p == [key |-> line.key, val |-> line.val] IN
               msgs' = IF Known(line.id)
                       THEN [msgs EXCEPT ![FindMsg(line.id)].pairs = Append(@, p)]
                       ELSE AddMsg(line.id, <<p>>)
          /\ UNCHANGED down

HandleDone(line) ==
  /\ UNCHANGED <<msgs, nextId>>
  /\ IF Known(line.id)
     THEN thread' = "handle" /\ current' = [id |-> line.id] /\ UNCHANGED down
     ELSE ToClient(<<Response(0, "ERROR")>>) /\ UNCHANGED <<thread, current>>

(* ipc_parse_token refuses the rest.  The arguments of the answer to an    *)
(* unknown command are in the wrong order: its id is the command.          *)
HandleUnknown ==
  /\ ToClient(<<Response(NotANumber, "ERROR")>>)
  /\ UNCHANGED <<msgs, nextId, thread, current>>

(* A line without its id is answered with id 0. *)
HandleMalformed(line) ==
  /\ ToClient(<<Response(line.id, "ERROR")>>)
  /\ UNCHANGED <<msgs, nextId, thread, current>>

HandleDummy == UNCHANGED <<down, msgs, nextId, thread, current>>

HandleLine ==
  /\ thread = "drain" /\ HasLine(srvBuf)
  /\ srvBuf' = Rest(srvBuf)
  /\ LET line == NextLine(srvBuf) IN
       \/ line.cmd = "HELLO" /\ HandleHello
       \/ line.cmd = "TAKE" /\ HandleTake(line)
       \/ line.cmd = "PAIR" /\ HandlePair(line)
       \/ line.cmd = "DONE" /\ HandleDone(line)
       \/ line.cmd \in {"RESPDATA", "RESPONSE"} /\ HandleDummy
       \/ line.cmd = "malformed" /\ HandleMalformed(line)
       \/ line.cmd \in {"PING", "PONG"} /\ HandleUnknown
  /\ ServerOnly /\ UNCHANGED <<up, shut, served>>

(* handle_message, with the RESPDATA lines it sends, from this thread or   *)
(* from the UI thread this one waits for.                                  *)
Handle ==
  /\ thread = "handle"
  /\ LET m == msgs[FindMsg(current.id)] IN
       \E o \in Outcomes(m.pairs) :
         /\ ToClient([i \in DOMAIN o.data |-> Pair("RESPDATA", m.id, o.data[i].key, o.data[i].val)])
         /\ current' = [id |-> m.id, ok |-> o.ok]
         /\ served' = IF cli \in {"reply", "idle"} /\ m.id = myId /\ served = None
                      THEN [pairs |-> m.pairs, ok |-> o.ok, data |-> o.data] ELSE served
  /\ thread' = "answer"
  /\ ServerOnly /\ UNCHANGED <<up, srvBuf, msgs, nextId, shut>>

AnswerKeepsFailed ==  \* faulty: a failed handler leaves its message
  /\ thread = "answer"
  /\ msgs' = IF current.ok THEN RemoveAt(msgs, FindMsg(current.id)) ELSE msgs
  /\ ToClient(<<Response(current.id, IF current.ok THEN "OK" ELSE "ERROR")>>)
  /\ thread' = "drain" /\ current' = None
  /\ ServerOnly /\ UNCHANGED <<up, srvBuf, nextId, shut, served>>

AnswerKeepsCurrent ==  \* faulty: the pointer to the freed message stays
  /\ thread = "answer"
  /\ msgs' = RemoveAt(msgs, FindMsg(current.id))
  /\ ToClient(<<Response(current.id, IF current.ok THEN "OK" ELSE "ERROR")>>)
  /\ thread' = "drain"
  /\ ServerOnly /\ UNCHANGED <<up, srvBuf, nextId, shut, served, current>>

(* The rest of handle_done. *)
Answer ==
  /\ thread = "answer"
  /\ msgs' = RemoveAt(msgs, FindMsg(current.id))
  /\ ToClient(<<Response(current.id, IF current.ok THEN "OK" ELSE "ERROR")>>)
  /\ thread' = "drain" /\ current' = None
  /\ ServerOnly /\ UNCHANGED <<up, srvBuf, nextId, shut, served>>

(* The daemon shuts down, on behalf of another connection, at any time. *)
Shutdown ==
  /\ ~shut
  /\ shut' = TRUE
  /\ UNCHANGED <<up, down, server, client, served>>

ClientRun ==
  \/ SendPairs \/ ClientRecv \/ ClientTake \/ ClientReply

ClientStarts ==
  \/ \E c \in Commands, n \in 0..Mistakes : Ask(c, n)
  \/ \E lines \in Strays : Stray(lines)
  \/ CloseConnection

ServerRun ==
  ServerRecv \/ ServerHangup \/ DrainEnds \/ HandleLine \/ Handle \/ Answer

Next == ClientStarts \/ ClientRun \/ ServerRun \/ Shutdown

(* The client runs on inside an exchange, and the server thread is         *)
(* scheduled; that a handler returns is the subject of Instances.          *)
Spec == Init /\ [][Next]_vars /\ WF_vars(ClientRun) /\ WF_vars(ServerRun)

-----------------------------------------------------------------------------
InExchange == cli \in {"take", "pairs", "reply"}

TypeOK ==
  /\ thread \in {"poll", "drain", "handle", "answer", "gone"}
  /\ cli \in {"idle", "take", "pairs", "reply", "closed"}
  /\ nextId \in Nat /\ myId \in Nat \cup {NotANumber}
  /\ shut \in BOOLEAN /\ exchanges \in 0..MaxExchanges /\ strays \in 0..MaxStrays
  /\ \A i \in DOMAIN msgs : msgs[i].id \in Nat
  /\ thread \in {"handle", "answer"} <=> current # None

(* What an exchange promises its caller (ipc.c, ipc_send_message): the     *)
(* daemon carries out the request at most once, with the very pairs the    *)
(* client gave, and the caller gets the code and the data of that, and     *)
(* exits with success only if they say so, however the stream is cut up,   *)
(* whatever stray lines and earlier exchanges have left in it, and         *)
(* whenever the daemon shuts down.                                         *)
Answered(pairs, o) ==
  [of |-> pairs, ok |-> o.ok, data |-> o.data,
   success |-> o.ok /\ \A i \in DOMAIN o.data : o.data[i].val # 0]
E == INSTANCE Exchange WITH
  Requests <- {RequestPairs(c) : c \in Commands \cup {"none"}},
  Answers  <- {Answered(RequestPairs(c), o) :
               c \in Commands, o \in UNION {Outcomes(RequestPairs(d)) : d \in Commands}},
  NoAnswer <- None,
  phase    <- CASE cli = "closed" -> "broken"
                [] cli = "idle"   -> "idle"
                [] OTHER          -> IF served = None THEN "asked" ELSE "served",
  request  <- RequestPairs(request.cmd),
  answer   <- CASE cli = "closed" -> None
                [] cli = "idle" /\ result # None
                     -> [of |-> RequestPairs(result.cmd), ok |-> result.ok,
                         data |-> result.data, success |-> result.success]
                [] InExchange /\ served # None
                     -> Answered(served.pairs, served)
                [] OTHER -> None
AtMostOnce == E!Spec

(* The server keeps no message of an exchange that has been answered:      *)
(* handle_done takes it off the list before it answers.  What stays is     *)
(* one message a burst of stray lines may have created.                    *)
MessagesAccounted == TypeOK /\ (cli = "idle" => Len(msgs) <= strays)

(* An exchange ends, with an answer or a failure: no line is left in a     *)
(* buffer while its reader sleeps.                                         *)
ExchangeEnds == InExchange ~> ~InExchange

(* Documentation/ipc-protocol.md:76: "RESPONSE ... ERROR marks failed      *)
(* completion".  A request one of whose pairs lacks "=" is answered with   *)
(* an error when that pair is read, and carried out all the same.          *)
ErrorMeansFailed ==
  cli = "idle" /\ result # None /\ ~result.ok => served = None \/ ~served.ok
=============================================================================
