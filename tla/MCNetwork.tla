----------------------------- MODULE MCNetwork -----------------------------
(***************************************************************************)
(* The sockets and servers a program sees, and http on both sides.         *)
(* component says which one a behaviour is about.                          *)
(***************************************************************************)
EXTENDS Socket, SocketServer, HttpServer, HttpClient

VARIABLE component

SC(n, half, on) == [addresses |-> n, halfOpen |-> half, destroyOn |-> on]
MCSocketConfs ==
  {SC(1, FALSE, "never"), SC(2, TRUE, "connectionAttemptFailed"),
   SC(2, FALSE, "connectionAttemptTimeout"), SC(1, TRUE, "connect"), SC(1, TRUE, "end")}
MCServerConfs == {[tls |-> FALSE, max |-> 1], [tls |-> TRUE, max |-> 2]}
HB(n, m, c) == [requests |-> n, ops |-> m, calls |-> c]
MCHttpBudgets == {HB(1, 1, 4), HB(1, 3, 1), HB(2, 2, 1)}

\* A component that is not at work stays as it began.
NoSocket == k = NewSocket(SC(1, FALSE, "never")) /\ kcalls = [ops |-> 0, writes |-> 0]
NoServer == v = NewServer([tls |-> FALSE, max |-> 1]) /\ vcalls = 0
NoHttp ==
  hs = NewHttpServer /\ rq = <<>> /\ hticks = <<>> /\ hsend = NoSend /\ hcalls = HB(1, 1, 4)

Init ==
  \/ component = "socket" /\ SInit /\ NoServer /\ NoHttp /\ QInit
  \/ component = "server" /\ NoSocket /\ VInit /\ NoHttp /\ QInit
  \/ component = "httpServer" /\ NoSocket /\ NoServer /\ HInit /\ QInit
  \/ component = "httpClient" /\ NoSocket /\ NoServer /\ NoHttp /\ QInit
Next ==
  /\ UNCHANGED component
  /\ \/ component = "socket" /\ SNext /\ UNCHANGED <<vvars, hvars, qvars>>
     \/ component = "server" /\ VNext /\ UNCHANGED <<svars, hvars, qvars>>
     \/ component = "httpServer" /\ HNext /\ UNCHANGED <<svars, vvars, qvars>>
     \/ component = "httpClient" /\ QNext /\ UNCHANGED <<svars, vvars, hvars>>
vars == <<svars, vvars, hvars, qvars, component>>

\* The fairness of the component at work.
Resting ==
  CASE component = "socket" -> SocketIdle
    [] component = "server" -> ServerIdle
    [] component = "httpServer" -> HIdle
    [] component = "httpClient" -> QIdle
Working ==
  \/ component = "socket" /\ SocketWorks
  \/ component = "server" /\ ServerWorks
  \/ component = "httpServer" /\ HWorks
  \/ component = "httpClient" /\ QWorks
Spec == Init /\ [][Next]_vars /\ ([]<>Resting \/ []<><<Working>>_vars)

-----------------------------------------------------------------------------
\* Socket and SocketServer: no native handle is left behind, the connections
\* are counted and reported once.
SocketsKept ==
  /\ component = "socket" => NoHandleLeaks /\ SocketEvents
  /\ component = "server" => ServerCounts /\ ReportedOnce /\ NoListenerLeaks
\* Socket and HttpClient: writes go out in order, and an 'end' says that
\* everything was heard.
BytesInOrder ==
  /\ component = "socket" => WireInOrder /\ EndAfterData
  /\ component = "httpClient" => RequestEvents /\ RequestBodyInOrder /\ ResponseWhole
\* HttpServer: headers first, chunks in order, 'finish' and 'close' last,
\* and the loop held by a server that works.
HttpExchange ==
  component = "httpServer" => ResponseInOrder /\ RequestInOrder /\ CloseAfterFinish /\ HttpHeld
\* SocketServer: 'close' finds no connection.
DrainedAtClose == [][component = "server" => CloseIsDrained]_vars
\* Every component: what began comes to its end.
NetworkSettles ==
  []<>(CASE component = "socket" -> SocketSettled
         [] component = "server" -> ServerClosed
         [] component = "httpServer" -> HttpSettled
         [] component = "httpClient" -> RequestSettled)
=============================================================================
