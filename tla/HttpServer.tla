----------------------------- MODULE HttpServer -----------------------------
(***************************************************************************)
(* http_server.go: a server over Go's net/http.  Each request runs in a    *)
(* goroutine of its own that takes what the VM thread writes from a        *)
(* channel, while another reads its body; close() waits for the requests   *)
(* in a third.  Whatever reaches JavaScript is a tick.                     *)
(*                                                                         *)
(* net/http is external: a request runs until its handler returns, a       *)
(* Shutdown ends when no request of its server runs.  Chunks are numbered, *)
(* header fields and the parsing of listen()'s arguments are left out.     *)
(***************************************************************************)
EXTENDS Integers, Sequences, FiniteSets, SequencesExt

CONSTANTS
  BodyChunks,     \* chunks of a request's body
  WriteCap,       \* capacity of writeCh (64 in the source)
  HttpBudgets     \* bounds: how many requests arrive, how many calls there
                  \* are on the server, and on requests, responses and clients

ASSUME HttpServerAssumption ==
  /\ BodyChunks \in Nat /\ WriteCap \in Nat \ {0}
  /\ HttpBudgets \subseteq [requests: Nat, ops: Nat, calls: Nat]

VARIABLES
  hs,      \* httpServerState, with the http.Servers made so far
  rq,      \* the requests, in the order they arrived
  hticks,  \* the ticks
  hsend,   \* the send on a full channel that blocks the VM thread
  hcalls   \* what is left of the budget

hvars == <<hs, rq, hticks, hsend, hcalls>>

\* accepting, shutting and ending number the http.Servers, exited says that the
\* process is gone; heard and relisten (listen() while a server listened or
\* shut down) are the observer's.
NewHttpServer ==
  [unrefed |-> FALSE, opHeld |-> FALSE, listening |-> FALSE, goSrv |-> 0, accepting |-> {},
   shutting |-> {}, ending |-> {}, exited |-> FALSE, heard |-> <<>>, relisten |-> FALSE]

\* done: the handler returned.  wire is what went to the client, said what
\* JavaScript wrote, heard its events.
NewRequest(s) ==
  [srv |-> s, done |-> FALSE, cut |-> FALSE, stalled |-> FALSE, writeCh |-> <<>>, headersSent |-> FALSE,
   ended |-> FALSE, said |-> <<>>, wire |-> <<>>, left |-> BodyChunks, pumping |-> TRUE, complete |-> FALSE,
   chunks |-> 0, bodyEnded |-> FALSE, resumed |-> FALSE, listener |-> FALSE, heard |-> <<>>]

\* What an item brings: the headers, chunks counting from 1; and the end.
HeadItem == 0
Item(data, end) == [data |-> data, end |-> end]
HTick(op, r) == [op |-> op, r |-> r]
NoSend == [r |-> 0, item |-> Item(<<>>, FALSE)]
Free == hsend = NoSend
Hears(r, e) == [rq EXCEPT ![r].heard = Append(@, e)]

-----------------------------------------------------------------------------
(* The server *)

SetOp(s, want) == [s EXCEPT !.opHeld = want]

\* A call on the server, while nothing blocks the thread.
OnServer == Free /\ hcalls.ops > 0 /\ hcalls' = [hcalls EXCEPT !.ops = @ - 1]

\* doListen: the address is bound before listen() returns.
DoListen ==
  /\ OnServer /\ UNCHANGED <<rq, hsend>>
  /\ \/ hticks' = Append(hticks, HTick("error", 0)) /\ UNCHANGED hs
     \/ LET n == hs.goSrv + 1
        IN  /\ hs' = SetOp([hs EXCEPT !.goSrv = n, !.accepting = @ \cup {n}, !.listening = TRUE,
                              !.relisten = @ \/ hs.listening \/ hs.shutting # {}], ~hs.unrefed)
            /\ hticks' = Append(hticks, HTick("listening", 0))

\* doClose: a server that does not listen says 'close' at once.
DoClose ==
  /\ OnServer /\ UNCHANGED <<rq, hsend>>
  /\ hs' = [hs EXCEPT !.listening = FALSE,
                      !.shutting = IF hs.listening THEN @ \cup {hs.goSrv} ELSE @]
  /\ hticks' = IF hs.listening THEN hticks ELSE Append(hticks, HTick("close", 0))
HRef ==
  OnServer /\ hs' = SetOp([hs EXCEPT !.unrefed = FALSE], hs.listening) /\ UNCHANGED <<rq, hticks, hsend>>
HUnref ==
  OnServer /\ hs' = SetOp([hs EXCEPT !.unrefed = TRUE], FALSE) /\ UNCHANGED <<rq, hticks, hsend>>
\* closeAllConnections, and clients that go.
CloseConns ==
  OnServer /\ rq' = [r \in DOMAIN rq |-> [rq[r] EXCEPT !.cut = TRUE]] /\ UNCHANGED <<hs, hticks, hsend>>
ClientGoes(r) ==
  /\ ~rq[r].cut /\ ~rq[r].done /\ hcalls.calls > 0
  /\ rq' = [rq EXCEPT ![r].cut = TRUE]
  /\ hcalls' = [hcalls EXCEPT !.calls = @ - 1] /\ UNCHANGED <<hs, hticks, hsend>>
\* A client that does not read for a while: w.Write blocks.
ClientStalls(r) ==
  /\ ~rq[r].stalled /\ hcalls.calls > 0
  /\ rq' = [rq EXCEPT ![r].stalled = TRUE]
  /\ hcalls' = [hcalls EXCEPT !.calls = @ - 1] /\ UNCHANGED <<hs, hticks, hsend>>
ClientReads(r) ==
  rq[r].stalled /\ rq' = [rq EXCEPT ![r].stalled = FALSE] /\ UNCHANGED <<hs, hticks, hsend, hcalls>>

\* Shutdown stops listening first, and returns when the server's requests
\* did; close()'s goroutine gives up the hold on the loop, and then puts the
\* tick of 'close'.
StopListening(n) ==
  /\ n \in hs.shutting \cap hs.accepting
  /\ hs' = [hs EXCEPT !.accepting = @ \ {n}] /\ UNCHANGED <<rq, hticks, hsend, hcalls>>
ShutdownReturns(n) ==
  /\ n \in hs.shutting \ hs.accepting /\ \A r \in DOMAIN rq : rq[r].srv = n => rq[r].done
  /\ hs' = SetOp([hs EXCEPT !.shutting = @ \ {n}, !.ending = @ \cup {n}], FALSE)
  /\ UNCHANGED <<rq, hticks, hsend, hcalls>>
PutsClose(n) ==
  /\ n \in hs.ending
  /\ hs' = [hs EXCEPT !.ending = @ \ {n}]
  /\ hticks' = Append(hticks, HTick("closed", n))
  /\ UNCHANGED <<rq, hsend, hcalls>>
\* The process ends when its loop has nothing to wait for; something else in
\* the program may hold it.
ProcessEnds ==
  /\ Free /\ hticks = <<>> /\ ~hs.opHeld
  /\ hs' = [hs EXCEPT !.exited = TRUE] /\ UNCHANGED <<rq, hticks, hsend, hcalls>>

-----------------------------------------------------------------------------
(* A request *)

\* handleRequest, up to its loop.
HandleRequest(n) ==
  /\ n \in hs.accepting /\ Len(rq) < hcalls.requests
  /\ rq' = Append(rq, NewRequest(n))
  /\ hticks' = Append(hticks, HTick("request", Len(rq) + 1))
  /\ UNCHANGED <<hs, hsend, hcalls>>

\* The loop of handleRequest: headers, data, Flush; after the last item
\* 'finish'.
Drain(r) ==
  /\ ~rq[r].done /\ rq[r].writeCh # <<>> /\ (rq[r].stalled => rq[r].cut)
  /\ LET item == Head(rq[r].writeCh)
         went == IF rq[r].cut THEN <<>> ELSE item.data
     IN  /\ rq' = [rq EXCEPT ![r].writeCh = Tail(@), ![r].wire = @ \o went, ![r].done = item.end]
         /\ hticks' = IF item.end THEN Append(hticks, HTick("finish", r)) ELSE hticks
  /\ UNCHANGED <<hs, hsend, hcalls>>
\* The blocked send goes on when there is room.
Unblock ==
  /\ ~Free /\ Len(rq[hsend.r].writeCh) < WriteCap
  /\ rq' = [rq EXCEPT ![hsend.r].writeCh = Append(@, hsend.item)] /\ hsend' = NoSend
  /\ UNCHANGED <<hs, hticks, hcalls>>

\* A call on a request that was emitted.
OnRequest(r) ==
  /\ Free /\ Contains(rq[r].heard, "request") /\ hcalls.calls > 0
  /\ hcalls' = [hcalls EXCEPT !.calls = @ - 1] /\ UNCHANGED hs

\* Mutant: flushHeaders() does not remember that the headers went.
Enqueue_HeadAgain(r, said, end) ==
  LET head == IF rq[r].headersSent THEN <<>> ELSE <<HeadItem>>
      item == Item(head \o said, end)
      sent == [rq EXCEPT ![r].headersSent = @ \/ said # <<>>, ![r].ended = @ \/ end,
                         ![r].said = @ \o head \o said]
  IN  IF Len(rq[r].writeCh) < WriteCap
      THEN rq' = [sent EXCEPT ![r].writeCh = Append(@, item)] /\ UNCHANGED <<hsend, hticks>>
      ELSE rq' = sent /\ hsend' = [r |-> r, item |-> item] /\ UNCHANGED hticks
\* writeCh <- item, with the headers if they have not gone yet.
Enqueue(r, said, end) ==
  LET head == IF rq[r].headersSent THEN <<>> ELSE <<HeadItem>>
      item == Item(head \o said, end)
      sent == [rq EXCEPT ![r].headersSent = TRUE, ![r].ended = @ \/ end,
                         ![r].said = @ \o head \o said]
  IN  IF Len(rq[r].writeCh) < WriteCap
      THEN rq' = [sent EXCEPT ![r].writeCh = Append(@, item)] /\ UNCHANGED <<hsend, hticks>>
      ELSE rq' = sent /\ hsend' = [r |-> r, item |-> item] /\ UNCHANGED hticks
Chunks(r) == Cardinality({i \in DOMAIN rq[r].said : rq[r].said[i] # HeadItem})
NextChunk(r) == <<Chunks(r) + 1>>
WriteHead(r) == OnRequest(r) /\ ~rq[r].ended /\ ~rq[r].headersSent /\ Enqueue(r, <<>>, FALSE)
FlushHeaders(r) == OnRequest(r) /\ ~rq[r].ended /\ Enqueue(r, <<>>, FALSE)
ResWrite(r) == OnRequest(r) /\ ~rq[r].ended /\ Enqueue(r, NextChunk(r), FALSE)
ResEnd(r) ==
  /\ OnRequest(r) /\ ~rq[r].ended
  /\ \E said \in {<<>>, NextChunk(r)} : Enqueue(r, said, TRUE)

\* pumpServerRequestBody: the body's end, and its error, are 'end'.
Pump(r) ==
  /\ rq[r].pumping
  /\ IF rq[r].left > 0 /\ ~rq[r].cut /\ ~rq[r].done
     THEN /\ rq' = [rq EXCEPT ![r].left = @ - 1]
          /\ hticks' = Append(hticks, HTick("data", r))
     ELSE /\ rq' = [rq EXCEPT ![r].pumping = FALSE, ![r].complete = TRUE]
          /\ hticks' = Append(hticks, HTick("end", r))
  /\ UNCHANGED <<hs, hsend, hcalls>>

\* flushPendingStreamData: what is buffered goes to a reader, 'end' last.
Flush(x) ==
  IF ~(x.listener \/ x.resumed) THEN x
  ELSE [x EXCEPT !.chunks = 0, !.bodyEnded = FALSE,
                 !.heard = @ \o [i \in 1..x.chunks |-> "data"] \o (IF x.bodyEnded THEN <<"end">> ELSE <<>>)]
OnData(r) ==
  /\ OnRequest(r) /\ rq' = [rq EXCEPT ![r].listener = TRUE]
  /\ hticks' = Append(hticks, HTick("flush", r)) /\ UNCHANGED hsend
ReqResume(r) ==
  /\ OnRequest(r) /\ rq' = [rq EXCEPT ![r] = Flush([rq[r] EXCEPT !.resumed = TRUE])]
  /\ UNCHANGED <<hticks, hsend>>
ReqPause(r) ==
  /\ OnRequest(r) /\ rq' = [rq EXCEPT ![r].resumed = FALSE] /\ UNCHANGED <<hticks, hsend>>

HRunTick ==
  /\ Free /\ hticks # <<>> /\ hticks' = Tail(hticks)
  /\ LET t == Head(hticks)
     IN  IF t.r = 0 \/ t.op = "closed"
         THEN hs' = [hs EXCEPT !.heard = Append(@, t)] /\ UNCHANGED rq
         ELSE /\ UNCHANGED hs
              /\ rq' = CASE t.op \in {"request", "finish"} -> Hears(t.r, t.op)
                         [] t.op = "data" -> [rq EXCEPT ![t.r] = Flush([rq[t.r] EXCEPT !.chunks = @ + 1])]
                         [] t.op = "end" -> [rq EXCEPT ![t.r] = Flush([rq[t.r] EXCEPT !.bodyEnded = TRUE])]
                         [] t.op = "flush" -> [rq EXCEPT ![t.r] = Flush(rq[t.r])]
  /\ UNCHANGED <<hsend, hcalls>>

-----------------------------------------------------------------------------
HInit ==
  /\ hs = NewHttpServer /\ rq = <<>> /\ hticks = <<>> /\ hsend = NoSend
  /\ hcalls \in HttpBudgets
HWorks ==
  \/ HRunTick \/ Unblock
  \/ \E n \in 1..hs.goSrv : StopListening(n) \/ ShutdownReturns(n) \/ PutsClose(n)
  \/ \E r \in DOMAIN rq : Drain(r) \/ Pump(r) \/ ClientReads(r)
HNext ==
  /\ ~hs.exited
  /\ \/ HWorks \/ ProcessEnds \/ DoListen \/ DoClose \/ HRef \/ HUnref \/ CloseConns
     \/ \E n \in 1..hs.goSrv : HandleRequest(n)
     \/ \E r \in DOMAIN rq :
          \/ ClientGoes(r) \/ ClientStalls(r) \/ WriteHead(r) \/ FlushHeaders(r) \/ ResWrite(r)
          \/ ResEnd(r) \/ OnData(r) \/ ReqResume(r) \/ ReqPause(r)
HIdle ==
  \/ hs.exited
  \/ /\ Free /\ hticks = <<>> /\ hs.shutting \cap hs.accepting = {} /\ hs.ending = {}
     /\ \A r \in DOMAIN rq : rq[r].writeCh = <<>> /\ ~rq[r].pumping /\ ~rq[r].stalled
     /\ \A n \in hs.shutting : \E r \in DOMAIN rq : rq[r].srv = n /\ ~rq[r].done
HSpec == HInit /\ [][HNext]_hvars /\ ([]<>HIdle \/ []<><<HWorks>>_hvars)

-----------------------------------------------------------------------------
\* The client gets the headers once and first, then the chunks in the order
\* they were written; once 'finish' is heard it has them all, whatever call
\* was the first to send the headers and however full the channel was.
ResponseInOrder ==
  \A r \in DOMAIN rq :
    /\ IsPrefix(rq[r].wire, rq[r].said) \/ rq[r].cut
    /\ Cardinality({i \in DOMAIN rq[r].said : rq[r].said[i] = HeadItem}) <= 1
    /\ rq[r].said # <<>> => Head(rq[r].said) = HeadItem
    /\ Contains(rq[r].heard, "finish") => rq[r].ended /\ (rq[r].cut \/ rq[r].wire = rq[r].said)

\* A request's events: 'request' first, its chunks, then 'end' once, when no
\* chunk is left, although the reader came late, paused or left.
RequestInOrder ==
  \A r \in DOMAIN rq :
    LET x == rq[r]
        h == {i \in DOMAIN x.heard : x.heard[i] # "finish"}
    IN  /\ h # {} => Head(x.heard) = "request"
        /\ \A e \in h : x.heard[e] = "end" =>
             (\A i \in h : i <= e) /\ x.chunks = 0 /\ Cardinality(h) + x.left = BodyChunks + 2

\* 'close' of a server comes after the 'finish' of every request it took.
CloseAfterFinish ==
  \A i \in DOMAIN hs.heard :
    hs.heard[i].op = "closed" =>
      \A r \in DOMAIN rq : rq[r].srv = hs.heard[i].r => Contains(rq[r].heard, "finish")

\* The loop is held by a server that listens, and by one that shuts down
\* only: except that a server that listens again before close() is over
\* loses its hold to the old Shutdown.
HttpHeld ==
  /\ hs.opHeld => ~hs.unrefed /\ (hs.listening \/ hs.shutting # {})
  /\ hs.listening /\ ~hs.unrefed /\ ~hs.relisten => hs.opHeld
\* The same without the exception: what ref() and docs promise of a server
\* that listens.
ListeningHolds == hs.listening /\ ~hs.unrefed => hs.opHeld

\* write() never waits for the client: not what the code does once WriteCap
\* items wait.
NeverBlocks == Free

\* close() is answered before the process ends: not what the code does, which
\* gives up the hold before it puts the tick.
CloseIsSaid == hs.exited => hs.ending = {}

\* Every request is emitted, every response that was ended finishes, a body
\* someone reads ends, and close() is answered once the requests are over;
\* or the process ends first, which it does without the server's hold only.
HttpSettled ==
  \/ hs.exited /\ ~hs.opHeld
  \/ /\ Free
     /\ \A r \in DOMAIN rq :
          /\ Contains(rq[r].heard, "request")
          /\ rq[r].ended => Contains(rq[r].heard, "finish")
          /\ rq[r].listener => Contains(rq[r].heard, "end")
     /\ (\A r \in DOMAIN rq : rq[r].ended) => hs.shutting = {} /\ hs.ending = {}
=============================================================================
