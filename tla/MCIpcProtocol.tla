--------------------------- MODULE MCIpcProtocol ---------------------------
(***************************************************************************)
(* An instance of IpcProtocol.  The stray lines are of every kind the      *)
(* server tells apart, with an id it has issued, is about to issue, or     *)
(* never does; what is not among them, StraysAssumption says.              *)
(***************************************************************************)
EXTENDS IpcProtocol

MCStrays ==
  {<<Line("HELLO", NotANumber)>>,
   <<Line("HELLO", NotANumber), Line("PING", NotANumber)>>,
   <<Line("TAKE", 1)>>,
   <<Line("TAKE", 1), Line("DONE", 1)>>,
   <<Pair("PAIR", 1, "action", "ping"), Pair("PAIR", 1, "action", "quit")>>,
   <<Pair("PAIR", 1, "action", "ping"), Line("DONE", 1)>>,
   <<Line("DONE", 1)>>, <<BadPair(0)>>, <<Line("malformed", 0)>>, <<Line("RESPDATA", 0)>>}
=============================================================================
