------------------------------- MODULE Socket -------------------------------
(***************************************************************************)
(* net_shim.go's Socket as a client: the look-up, the attempts on one      *)
(* address after the other, writes and end() before the connection is      *)
(* there, reading, half close and destroy at any moment.                   *)
(*                                                                         *)
(* The native handles are what NetHandle shows of them, from JavaScript:   *)
(* requests are answered once and in order, a closed handle answers what   *)
(* is queued and its dial's callback is not called.  The Duplex keeps of   *)
(* Readable and Writable what Socket's own methods meet: one _write at a   *)
(* time, a buffer behind it, _final after the last, chunks as large as the *)
(* high water mark, several buffered writes counting as one _writev.  Idle *)
(* timeouts and socket options are left out.                               *)
(*                                                                         *)
(* k is the socket and its handles; the operators are the functions of the *)
(* source, with everything they call before they return.                   *)
(***************************************************************************)
EXTENDS Integers, Sequences, SequencesExt

CONSTANTS
  MaxWrites,      \* bound: calls of write()
  MaxIn,          \* bound: chunks the peer sends
  MaxSocketOps,   \* bound: calls of end, destroy and pause
  SocketConfs     \* how the socket is made and who destroys it: SocketConfType

\* destroyOn: the event whose listener calls destroy(); "never" is none.
SocketConfType ==
  [addresses: Nat, halfOpen: BOOLEAN,
   destroyOn: {"never", "connect", "end", "lookup", "connectionAttemptFailed",
               "connectionAttemptTimeout"}]
ASSUME SocketAssumption ==
  /\ MaxWrites \in Nat /\ MaxIn \in Nat /\ MaxSocketOps \in Nat
  /\ SocketConfs \subseteq SocketConfType

VARIABLES
  k,       \* the socket, its handles, macrotasks and ticks
  kcalls   \* how many calls of MaxSocketOps, and writes, are spent

svars == <<k, kcalls>>

Fin == 0  \* the request of shutdown(), among the writes' numbers
NewHandle == [st |-> "new", closed |-> FALSE, reading |-> FALSE, queue |-> <<>>,
              wire |-> <<>>, in |-> 0, over |-> FALSE]

\* connect() was called and the look-up is under way; got, settled, events
\* and again (a later attempt found end() called) are the observer's.
NewSocket(c) ==
  [conf |-> c, connecting |-> TRUE, destroyed |-> FALSE, errored |-> FALSE,
   handle |-> 1, handles |-> <<NewHandle>>, looking |-> TRUE, current |-> 0, attempt |-> FALSE,
   cur |-> 0, waits |-> FALSE, buffer |-> <<>>, ending |-> FALSE, final |-> "no",
   finalWaits |-> FALSE, finished |-> FALSE,
   flowing |-> TRUE, readWaits |-> FALSE, chunks |-> 0, ended |-> FALSE, endEmitted |-> FALSE,
   ticks |-> <<>>, macros |-> <<>>, events |-> <<>>, settled |-> <<>>, got |-> 0, again |-> FALSE]

STick(s, op) == [s EXCEPT !.ticks = Append(@, [op |-> op, id |-> 0])]
Post(s, m) == [s EXCEPT !.macros = Append(@, m)]
Settles(s, id, ok) == [s EXCEPT !.settled = Append(@, <<id, ok>>)]

-----------------------------------------------------------------------------
(* destroy *)

\* The handle's close(), whose callback emits the socket's 'close'.
CloseHandle(s, h, heard) ==
  LET c == [s EXCEPT !.handles[h].closed = TRUE]
  IN  IF heard THEN Post(c, [op |-> "closed", h |-> h, id |-> 0, ok |-> TRUE]) ELSE c

\* destroyStream and Socket._destroy.
SDestroy(s, err) ==
  LET failing == IF s.buffer # <<>> THEN STick(s, "errorBuffer") ELSE s
      marked == [failing EXCEPT !.destroyed = TRUE, !.errored = @ \/ err,
                                !.connecting = FALSE, !.attempt = FALSE]
      closed == IF s.handle # 0 THEN CloseHandle([marked EXCEPT !.handle = 0], s.handle, TRUE)
                ELSE marked
      told == IF err THEN STick(closed, "error") ELSE closed
  IN  CASE s.destroyed -> s
        [] ~s.destroyed /\ s.handle # 0 -> told
        [] OTHER -> STick(told, "close")

\* emit(e), whose listener may destroy the socket.
SEmit(s, e) ==
  LET emitted == [s EXCEPT !.events = Append(@, e)]
  IN  IF s.conf.destroyOn = e THEN SDestroy(emitted, FALSE) ELSE emitted

-----------------------------------------------------------------------------
(* write, end *)

\* What is buffered fails, unless a write is still running.
SErrorBuffer(s) ==
  IF s.cur # 0 THEN s
  ELSE [s EXCEPT !.buffer = <<>>,
                 !.settled = @ \o [i \in DOMAIN s.buffer |-> <<s.buffer[i], FALSE>>]]

Request(s, id) == [s EXCEPT !.handles[s.handle].queue = Append(@, id)]

\* _writeGeneric: a socket that is connecting keeps the write until 'connect'
\* or 'close'.
WriteGeneric(s, id) ==
  CASE s.connecting -> [s EXCEPT !.cur = id, !.waits = TRUE]
    [] ~s.connecting /\ s.handle = 0 ->
         [s EXCEPT !.errored = TRUE, !.ticks = Append(@, [op |-> "writeError", id |-> id])]
    [] OTHER -> Request([s EXCEPT !.cur = id, !.waits = FALSE], id)

SWrite(s, id) ==
  CASE s.ending \/ s.destroyed ->
         SDestroy([s EXCEPT !.ticks = Append(@, [op |-> "refuse", id |-> id])], TRUE)
    [] ~(s.ending \/ s.destroyed) /\ (s.cur # 0 \/ s.errored) ->
         [s EXCEPT !.buffer = Append(@, id)]
    [] OTHER -> WriteGeneric(s, id)

SNeedFinish(s) ==
  s.ending /\ ~s.destroyed /\ ~s.finished /\ s.cur = 0 /\ s.buffer = <<>> /\ ~s.errored

\* _final: shutdown() once the socket is connected.
Final(s) ==
  CASE s.handle = 0 \/ s.connecting -> [s EXCEPT !.finalWaits = TRUE]
    [] OTHER -> Request([s EXCEPT !.finalWaits = FALSE], Fin)
SFinishMaybe(s) ==
  IF SNeedFinish(s) /\ s.final = "no" THEN Final([s EXCEPT !.final = "called"]) ELSE s

\* The callback of a write, after _write returned.
WriteAnswered(s, id, ok) ==
  LET over == [s EXCEPT !.cur = 0, !.waits = FALSE]
      next == IF s.buffer # <<>> /\ ~s.destroyed
              THEN WriteGeneric([over EXCEPT !.buffer = Tail(@)], Head(s.buffer)) ELSE over
      done == Settles(next, id, TRUE)
      swept == IF s.destroyed THEN SErrorBuffer(done) ELSE done
  IN  IF ok THEN SFinishMaybe(swept)
      ELSE SDestroy(SErrorBuffer(Settles([over EXCEPT !.errored = TRUE], id, FALSE)), TRUE)

\* The callback of shutdown().
FinalAnswered(s, ok) ==
  CASE ~s.destroyed /\ (~ok \/ s.final = "done") -> SDestroy(s, TRUE)
    [] ok /\ SNeedFinish(s) /\ s.final = "called" -> STick([s EXCEPT !.final = "done"], "finish")
    [] OTHER -> s

\* Mutant: the write that waits for the connection does not listen to 'close'.
EmitClose_NoWaiter(s) == SEmit(s, "close")
\* 'close', on which a write that waited for the connection fails.
EmitClose(s) ==
  LET told == SEmit(s, "close")
  IN  IF told.waits THEN WriteAnswered(told, told.cur, FALSE) ELSE told

SEnd(s) == IF s.ending \/ s.errored THEN s ELSE SFinishMaybe([s EXCEPT !.ending = TRUE])

-----------------------------------------------------------------------------
(* connect *)

\* initSocketHandle undoes what the stream went through, end() included.
Undestroy(s) ==
  [s EXCEPT !.destroyed = FALSE, !.errored = FALSE, !.ending = FALSE, !.final = "no",
            !.finished = FALSE, !.ended = FALSE, !.endEmitted = FALSE,
            !.again = @ \/ s.ending]

\* Mutant: a later attempt goes on after destroy().
InternalConnect_Destroyed(s) ==
  IF s.current = s.conf.addresses THEN SDestroy(s, TRUE)
  ELSE LET made == IF s.handle # 0 THEN s
                   ELSE Undestroy([s EXCEPT !.handles = Append(@, NewHandle),
                                            !.handle = Len(s.handles) + 1])
       IN  [made EXCEPT !.current = @ + 1, !.attempt = TRUE,
                        !.handles[made.handle].st = "dialing"]
\* internalConnect and internalConnectMultiple: the next address.
InternalConnect(s) ==
  LET made == IF s.handle # 0 THEN s
              ELSE Undestroy([s EXCEPT !.handles = Append(@, NewHandle),
                                       !.handle = Len(s.handles) + 1])
  IN  CASE s.destroyed -> s
        [] ~s.destroyed /\ s.current = s.conf.addresses -> SDestroy(s, TRUE)
        [] OTHER -> [made EXCEPT !.current = @ + 1, !.attempt = TRUE,
                                 !.handles[made.handle].st = "dialing"]

\* The attempt on h is given up; the next one follows.
NextAttempt(s, h, event) ==
  LET told == SEmit([s EXCEPT !.attempt = FALSE], event)
  IN  InternalConnect([CloseHandle(told, h, FALSE) EXCEPT !.handle = 0])

Several(s) == s.conf.addresses > 1
ConnectFails(s, h) ==
  IF Several(s) THEN NextAttempt(s, h, "connectionAttemptFailed") ELSE SDestroy(s, TRUE)

ReadStart(s) == IF s.handle = 0 THEN s ELSE [s EXCEPT !.handles[s.handle].reading = TRUE]
\* _read, by read(0): readStart, once connected.
SRead(s) ==
  CASE s.connecting \/ s.handle = 0 -> [s EXCEPT !.readWaits = TRUE]
    [] OTHER -> ReadStart(s)

\* afterConnect: 'connect' with its listeners in the order they were added,
\* the user's, then the write's, the end's and the read's.
AfterConnect(s) ==
  LET told == SEmit([s EXCEPT !.connecting = FALSE, !.attempt = FALSE], "connect")
      wrote == CASE told.waits /\ told.handle = 0 -> WriteAnswered(told, told.cur, FALSE)
                 [] told.waits /\ told.handle # 0 -> WriteGeneric(told, told.cur)
                 [] OTHER -> told
      ends == IF wrote.finalWaits THEN Final(wrote) ELSE wrote
      reads == IF ends.readWaits THEN SRead([ends EXCEPT !.readWaits = FALSE]) ELSE ends
  IN  IF reads.flowing /\ ~reads.destroyed THEN SRead(reads) ELSE reads

-----------------------------------------------------------------------------
(* reading *)

\* onStreamRead: a chunk is emitted at once, or fills the buffer.
OnRead(s, h) ==
  CASE s.destroyed -> s
    [] ~s.destroyed /\ s.flowing /\ s.chunks = 0 -> [s EXCEPT !.got = @ + 1]
    [] OTHER -> [s EXCEPT !.chunks = @ + 1, !.handles[h].reading = FALSE]
OnEOF(s, h) ==
  LET e == [s EXCEPT !.handles[h].reading = FALSE, !.ended = TRUE]
  IN  CASE s.destroyed -> s
        [] ~s.destroyed /\ s.chunks = 0 /\ ~s.endEmitted -> STick(e, "endReadable")
        [] OTHER -> e
\* resume_ and flow.
SFlow(s) ==
  LET flown == [s EXCEPT !.got = @ + s.chunks, !.chunks = 0]
  IN  CASE ~s.flowing -> s
        [] s.flowing /\ s.ended /\ s.chunks > 0 -> STick(flown, "endReadable")
        [] OTHER -> IF s.ended \/ s.destroyed THEN flown ELSE SRead(flown)

\* endReadableNT, with the Duplex's autoDestroy and allowHalfOpen.
EndNT(s) ==
  LET e == SEmit([s EXCEPT !.endEmitted = TRUE], "end")
      writes == ~e.destroyed /\ ~e.errored /\ ~e.ending
  IN  CASE s.errored \/ s.endEmitted \/ s.chunks > 0 -> s
        [] ~(s.errored \/ s.endEmitted \/ s.chunks > 0) /\ writes /\ ~s.conf.halfOpen ->
             STick(e, "endWritable")
        [] OTHER -> IF e.finished THEN SDestroy(e, FALSE) ELSE e
\* Writable's finish.
SFinish(s) ==
  LET f == SEmit([s EXCEPT !.finished = TRUE], "finish")
  IN  IF f.endEmitted THEN SDestroy(f, FALSE) ELSE f

-----------------------------------------------------------------------------
(* The user *)

UsesSocket(s) == kcalls.ops < MaxSocketOps /\ kcalls' = [kcalls EXCEPT !.ops = @ + 1] /\ k' = s
SocketWrites ==
  /\ kcalls.writes < MaxWrites
  /\ kcalls' = [kcalls EXCEPT !.writes = @ + 1]
  /\ k' = SWrite(k, kcalls.writes + 1)
SocketEnds == UsesSocket(SEnd(k))
SocketDestroys == \E err \in BOOLEAN : UsesSocket(SDestroy(k, err))
SocketPauses == k.flowing /\ ~k.destroyed /\ UsesSocket([k EXCEPT !.flowing = FALSE])
SocketResumes ==
  /\ ~k.flowing
  /\ k' = IF k.destroyed THEN [k EXCEPT !.flowing = TRUE] ELSE STick([k EXCEPT !.flowing = TRUE], "resume")
  /\ UNCHANGED kcalls

\* The ticks of the socket's streams.
SocketTick ==
  /\ k.ticks # <<>>
  /\ LET t == Head(k.ticks)
         s == [k EXCEPT !.ticks = Tail(@)]
     IN  k' = CASE t.op = "errorBuffer" -> SErrorBuffer(s)
                [] t.op = "error" -> SEmit(s, "error")
                [] t.op = "close" -> EmitClose(s)
                [] t.op = "lookupFailed" -> SDestroy(s, TRUE)
                [] t.op = "refuse" -> Settles(s, t.id, FALSE)
                [] t.op = "writeError" -> WriteAnswered(s, t.id, FALSE)
                [] t.op = "finish" -> SFinish(s)
                [] t.op = "endReadable" -> EndNT(s)
                [] t.op = "endWritable" -> IF s.destroyed THEN s ELSE SEnd(s)
                [] t.op = "resume" -> SFlow(s)
  /\ UNCHANGED kcalls

\* lookupAndConnect's callback.
LooksUp ==
  /\ k.looking
  /\ \E ok \in BOOLEAN :
       LET told == SEmit([k EXCEPT !.looking = FALSE], "lookup")
       IN  k' = CASE ~told.connecting -> told
                  [] told.connecting /\ ok -> InternalConnect(told)
                  [] OTHER -> STick(told, "lookupFailed")
  /\ UNCHANGED kcalls

-----------------------------------------------------------------------------
(* The native handles *)

H(h) == k.handles[h]
Posts(h, m) ==
  k' = Post(k, [op |-> m.op, h |-> h, id |-> m.id, ok |-> m.ok]) /\ UNCHANGED kcalls
Dialed(h) ==
  /\ H(h).st = "dialing" /\ ~H(h).closed
  /\ \E ok \in BOOLEAN :
       k' = Post([k EXCEPT !.handles[h].st = IF ok THEN "up" ELSE "down"],
                 [op |-> "connected", h |-> h, id |-> 0, ok |-> ok])
  /\ UNCHANGED kcalls
AttemptTimesOut ==
  /\ k.attempt /\ Several(k) /\ k.current < k.conf.addresses /\ k.ticks = <<>>
  /\ k' = NextAttempt(k, k.handle, "connectionAttemptTimeout")
  /\ UNCHANGED kcalls
PeerData(h) ==
  /\ H(h).st = "up" /\ ~H(h).closed /\ H(h).reading /\ ~H(h).over /\ H(h).in < MaxIn
  /\ k' = Post([k EXCEPT !.handles[h].in = @ + 1], [op |-> "data", h |-> h, id |-> 0, ok |-> TRUE])
  /\ UNCHANGED kcalls
PeerEnds(h) ==
  /\ H(h).st = "up" /\ ~H(h).closed /\ H(h).reading /\ ~H(h).over
  /\ \E ok \in BOOLEAN :
       k' = Post([k EXCEPT !.handles[h].over = TRUE], [op |-> "eof", h |-> h, id |-> 0, ok |-> ok])
  /\ UNCHANGED kcalls
\* writeLoop: a request goes out, or fails; a closed handle's fail.
Requested(h) ==
  /\ H(h).queue # <<>>
  /\ \E ok \in IF H(h).closed THEN {FALSE} ELSE BOOLEAN :
       LET id == Head(H(h).queue)
           s == [k EXCEPT !.handles[h].queue = Tail(@),
                          !.handles[h].wire = IF ok THEN Append(@, id) ELSE @]
       IN  k' = Post(s, [op |-> "written", h |-> h, id |-> id, ok |-> ok])
  /\ UNCHANGED kcalls

\* A macrotask runs when the ticks are done.
SocketMacro ==
  /\ k.macros # <<>> /\ k.ticks = <<>>
  /\ LET m == Head(k.macros)
         s == [k EXCEPT !.macros = Tail(@)]
         closed == H(m.h).closed
     IN  k' = CASE m.op = "connected" /\ closed -> s
                [] m.op = "connected" /\ ~closed ->
                     IF m.ok THEN AfterConnect(s) ELSE ConnectFails(s, m.h)
                [] m.op = "data" -> OnRead(s, m.h)
                [] m.op = "eof" -> IF m.ok THEN OnEOF(s, m.h) ELSE SDestroy(s, TRUE)
                [] m.op = "written" /\ m.id = Fin -> FinalAnswered(s, m.ok)
                [] m.op = "written" /\ m.id # Fin -> WriteAnswered(s, m.id, m.ok \/ s.destroyed)
                [] m.op = "closed" -> EmitClose(s)
  /\ UNCHANGED kcalls

SInit == k \in {NewSocket(c) : c \in SocketConfs} /\ kcalls = [ops |-> 0, writes |-> 0]
NativeWorks ==
  \E h \in DOMAIN k.handles : Dialed(h) \/ Requested(h)
SocketWorks == SocketTick \/ SocketMacro \/ LooksUp \/ NativeWorks \/ SocketResumes
SNext ==
  \/ SocketWorks \/ AttemptTimesOut
  \/ \E h \in DOMAIN k.handles : PeerData(h) \/ PeerEnds(h)
  \/ SocketWrites \/ SocketEnds \/ SocketDestroys \/ SocketPauses

SocketIdle ==
  /\ k.ticks = <<>> /\ k.macros = <<>> /\ ~k.looking /\ k.flowing
  /\ \A h \in DOMAIN k.handles :
       H(h).queue = <<>> /\ ~(H(h).st = "dialing" /\ ~H(h).closed)
SSpec == SInit /\ [][SNext]_svars /\ ([]<>SocketIdle \/ []<><<SocketWorks>>_svars)

-----------------------------------------------------------------------------
Heard(e) == Contains(k.events, e)
AtMostOnce(e) == \A i, j \in DOMAIN k.events : k.events[i] = e /\ k.events[j] = e => i = j

\* Whatever attempts fail, time out or are given up by destroy(): a handle
\* that is not the socket's is closed, and a destroyed socket has none.
NoHandleLeaks ==
  /\ \A h \in DOMAIN k.handles : H(h).closed \/ h = k.handle
  /\ k.destroyed => k.handle = 0
  /\ k.handle # 0 => ~H(k.handle).closed

\* 'connect', 'error', 'end', 'finish' and 'close' are emitted once at the
\* most, and none of them after 'close' (a look-up may still report).
SocketEvents ==
  /\ \A e \in {"connect", "error", "end", "finish", "close"} : AtMostOnce(e)
  /\ \A i, j \in DOMAIN k.events :
       i < j /\ k.events[i] = "close" => k.events[j] = "lookup"

\* Every callback of write() is called once; the connection carries the
\* writes in their order, each once, and the FIN behind the last of them.
WireInOrder ==
  /\ \A i, j \in DOMAIN k.settled : k.settled[i][1] = k.settled[j][1] => i = j
  /\ \A h \in DOMAIN k.handles :
       \A i, j \in DOMAIN H(h).wire :
         i < j => \/ k.again
                  \/ H(h).wire[i] # Fin /\ (H(h).wire[j] = Fin \/ H(h).wire[i] < H(h).wire[j])
  /\ Heard("finish") => \E h \in DOMAIN k.handles : Contains(H(h).wire, Fin)

\* 'end' comes when everything the peer sent has been emitted.
EndAfterData == Heard("end") => k.chunks = 0 /\ \A h \in DOMAIN k.handles : H(h).in = k.got \/ H(h).closed

\* A socket that connects, or fails to, says so; one that is destroyed
\* emits 'close'; a write is called back although nothing was ever
\* connected.  end() is followed by 'finish' or 'close', except that a later
\* attempt forgets it.
SocketSettled ==
  /\ Heard("connect") \/ Heard("close")
  /\ k.destroyed => Heard("close")
  /\ \A id \in 1..kcalls.writes : \E i \in DOMAIN k.settled : k.settled[i][1] = id
  /\ k.ending /\ ~k.again => k.finished \/ Heard("close")
=============================================================================
