---------------------------- MODULE SocketServer ----------------------------
(***************************************************************************)
(* net_shim.go's Server and tls_shim.go's on top of it: listen, with or    *)
(* without a look-up, close, the connections the server counts, and for a  *)
(* tls server the handshake that ends in 'secureConnection' or in          *)
(* 'tlsClientError'.  The native listener is in Listener, a client's       *)
(* socket in Socket: here a connection is alive until something destroys   *)
(* it.  Handles are numbered as they are made.                             *)
(***************************************************************************)
EXTENDS Integers, Sequences, FiniteSets, SequencesExt

CONSTANTS
  MaxConns,       \* bound: connections that arrive
  MaxServerOps,   \* bound: calls of listen and close
  ServerConfs     \* [tls: BOOLEAN, max: maxConnections]

ASSUME ServerAssumption ==
  /\ MaxConns \in Nat /\ MaxServerOps \in Nat
  /\ ServerConfs \subseteq [tls: BOOLEAN, max: Nat]

VARIABLES
  v,       \* the server, its listeners and connections, macrotasks and ticks
  vcalls   \* how many of MaxServerOps are spent

vvars == <<v, vcalls>>

\* said, owed and twice are the observer's: what each connection was reported
\* as, whether 'close' is owed, and whether listen() was called during a look-up.
NewServer(c) ==
  [conf |-> c, handle |-> 0, open |-> {}, made |-> 0, looking |-> 0, connections |-> 0,
   conns |-> <<>>, ticks |-> <<>>, macros |-> <<>>, events |-> <<>>, owed |-> FALSE,
   twice |-> FALSE]

VTick(s, op) == [s EXCEPT !.ticks = Append(@, op)]
VEmit(s, e) == [s EXCEPT !.events = Append(@, e)]

-----------------------------------------------------------------------------
\* Mutant: only the listener counts, not the connections.
EmitCloseIfDrained_Early(s) == IF s.handle # 0 THEN s ELSE VTick(s, "close")
EmitCloseIfDrained(s) ==
  IF s.handle # 0 \/ s.connections # 0 THEN s ELSE VTick(s, "close")

\* _listen2, where binding.listen() succeeds or not.
Listen2(s, ok) ==
  IF ~ok THEN VTick(s, "error")
  ELSE VTick([s EXCEPT !.made = @ + 1, !.handle = s.made + 1, !.open = @ \cup {s.made + 1},
                       !.twice = @ \/ s.handle # 0], "listening")

ServerCalls(s) == vcalls < MaxServerOps /\ vcalls' = vcalls + 1 /\ v' = s
\* listen(): a server that has a handle throws.
ServerListens ==
  /\ v.handle = 0
  /\ \/ \E ok \in BOOLEAN : ServerCalls(Listen2(v, ok))
     \/ ServerCalls([v EXCEPT !.looking = @ + 1, !.twice = @ \/ v.looking > 0])
\* lookupAndListen's callback.
ServerLooksUp ==
  /\ v.looking > 0
  /\ \/ v' = VEmit([v EXCEPT !.looking = @ - 1], "error")
     \/ \E ok \in BOOLEAN : v' = Listen2([v EXCEPT !.looking = @ - 1], ok)
  /\ UNCHANGED vcalls
ServerCloses ==
  LET shut == [v EXCEPT !.open = @ \ {v.handle}, !.handle = 0, !.owed = TRUE]
  IN  ServerCalls(EmitCloseIfDrained(shut))

-----------------------------------------------------------------------------
(* connections *)

Live(s) == {c \in DOMAIN s.conns : s.conns[c].alive}

\* onconnection, and tlsConnectionListener, which starts the handshake and
\* its timer.
OnConnection ==
  /\ v.open # {} /\ v.ticks = <<>> /\ Len(v.conns) < MaxConns
  /\ v' = IF v.connections >= v.conf.max THEN VEmit([v EXCEPT !.conns = Append(@,
                 [alive |-> FALSE, shakes |-> FALSE, timer |-> FALSE, said |-> <<"drop">>])], "drop")
          ELSE VEmit([v EXCEPT !.connections = @ + 1, !.conns = Append(@,
                 [alive |-> TRUE, shakes |-> v.conf.tls, timer |-> v.conf.tls, said |-> <<>>])],
                 "connection")
  /\ UNCHANGED vcalls

\* Socket._destroy of a connection: the TLSSocket has taken over the server
\* of the socket it wraps.
Destroyed(s, c) ==
  IF ~s.conns[c].alive THEN s
  ELSE EmitCloseIfDrained([s EXCEPT !.conns[c].alive = FALSE, !.connections = @ - 1])
ConnectionGoes(c) ==
  /\ v.conns[c].alive /\ v' = Destroyed(v, c) /\ UNCHANGED vcalls

Says(s, c, what) == [s EXCEPT !.conns[c].said = Append(@, what)]
\* The handshake's goroutine answers; a destroyed socket's ends as well.
HandshakeEnds(c) ==
  /\ v.conns[c].shakes
  /\ \E ok \in IF v.conns[c].alive THEN BOOLEAN ELSE {FALSE} :
       v' = [v EXCEPT !.conns[c].shakes = FALSE, !.macros = Append(@, [c |-> c, ok |-> ok])]
  /\ UNCHANGED vcalls
\* The callback of startTLS: 'secure', with the client's certificate refused
\* or not, or the error.
OnHandshake(c, ok) ==
  LET s == [v EXCEPT !.macros = Tail(@), !.conns[c].timer = FALSE]
  IN  CASE ~s.conns[c].alive -> s
        [] s.conns[c].alive /\ ok -> Says(s, c, "secureConnection")
        [] OTHER -> Destroyed(Says(s, c, "tlsClientError"), c)
RunHandshake ==
  /\ v.macros # <<>> /\ v.ticks = <<>>
  /\ LET m == Head(v.macros)
     IN  \/ v' = OnHandshake(m.c, m.ok)
         \/ m.ok /\ v' = Destroyed([v EXCEPT !.macros = Tail(@), !.conns[m.c].timer = FALSE], m.c)
  /\ UNCHANGED vcalls
\* The handshake's timer does not look whether the socket is destroyed.
HandshakeLate(c) ==
  /\ v.conns[c].timer /\ v.ticks = <<>>
  /\ v' = Destroyed(Says([v EXCEPT !.conns[c].timer = FALSE], c, "tlsClientError"), c)
  /\ UNCHANGED vcalls

ServerTick ==
  /\ v.ticks # <<>>
  /\ LET t == Head(v.ticks)
         s == [v EXCEPT !.ticks = Tail(@)]
     IN  v' = CASE t = "listening" /\ s.handle = 0 -> s
                [] t = "close" -> VEmit([s EXCEPT !.owed = FALSE], "close")
                [] OTHER -> VEmit(s, t)
  /\ UNCHANGED vcalls

VInit == v \in {NewServer(c) : c \in ServerConfs} /\ vcalls = 0
ServerWorks ==
  \/ ServerTick \/ RunHandshake \/ ServerLooksUp
  \/ \E c \in DOMAIN v.conns : HandshakeEnds(c)
VNext ==
  \/ ServerWorks \/ ServerListens \/ ServerCloses \/ OnConnection
  \/ \E c \in DOMAIN v.conns : HandshakeLate(c) \/ ConnectionGoes(c)
\* Nothing makes a peer end a connection.
ServerIdle ==
  /\ v.ticks = <<>> /\ v.macros = <<>> /\ v.looking = 0
  /\ \A c \in DOMAIN v.conns : ~v.conns[c].shakes
VSpec == VInit /\ [][VNext]_vvars /\ ([]<>ServerIdle \/ []<><<ServerWorks>>_vvars)

-----------------------------------------------------------------------------
\* The server counts exactly the connections that are alive, over every path
\* that ends one, so that 'drop' comes at the limit and 'close' can come.
ServerCounts == v.connections = Cardinality(Live(v)) /\ v.connections <= v.conf.max

\* A connection is reported once: dropped, secure or failed, never secure
\* after its time-out.
ReportedOnce == \A c \in DOMAIN v.conns : Len(v.conns[c].said) <= 1

\* A listener that is open is the server's own, unless listen() was called
\* while a look-up of the same server was under way.
NoListenerLeaks == v.twice \/ v.open \subseteq {v.handle}

\* 'close' finds no connection: none was counted when it was put, and none
\* comes before it is emitted, although the server may listen again.
CloseIsDrained ==
  Len(v'.events) > Len(v.events) /\ Last(v'.events) = "close" => v.connections = 0

\* close() is followed by 'close' once the last connection is gone, whatever
\* ended it, unless the server listens again: []<>.
ServerClosed == v.owed => v.handle # 0 \/ Live(v) # {}
=============================================================================
