------------------------------- MODULE Signals -------------------------------
(***************************************************************************)
(* signals.go: the bridge between the operating system's signals and the   *)
(* 'SIGxxx' events of process.  A signal is intercepted while JavaScript   *)
(* listens for it; the subscription is recomputed, in two steps, whenever  *)
(* the set of bridged signals changes.  A goroutine takes signals from a   *)
(* channel of ChanCap places and queues a tick for each.                   *)
(***************************************************************************)
EXTENDS Integers, Sequences

CONSTANTS
  Sigs,        \* the signals that can be bridged
  ChanCap,     \* the capacity of the channel (8 in the code)
  MaxSignals,  \* bound: signals sent to the process
  MaxListens   \* bound: calls that add or remove listeners, or emit

ASSUME SignalsAssumption ==
  ChanCap \in Nat \ {0} /\ {MaxSignals, MaxListens} \subseteq Nat /\ "none" \notin Sigs

VARIABLES
  listeners,  \* per signal: how many listeners on() and once() have added
  active,     \* signalBridge.active
  notified,   \* what the operating system delivers to the channel
  resyncing,  \* resync is between Stop and Notify
  channel,    \* the signals in the channel
  relayed,    \* the signals whose tick is queued
  sent,       \* observer: how many were sent
  caught,     \* observer: how many were put into the channel
  emitted,    \* observer: how many were emitted
  killed,     \* the signal whose default action ended the process, or "none"
  overrun,    \* observer: a signal found the channel full
  stray,      \* observer: process.emit removed a once-listener
  listens     \* how many of MaxListens are spent

gvars == <<listeners, active, notified, resyncing, channel, relayed, sent, caught, emitted,
           killed, overrun, stray, listens>>

NoListeners == [on |-> 0, once |-> 0]
\* listenerCount() is not 0.
Heard(count) == count.on + count.once > 0

GInit ==
  /\ listeners = [g \in Sigs |-> NoListeners]
  /\ active = {} /\ notified = {} /\ resyncing = FALSE
  /\ channel = <<>> /\ relayed = <<>>
  /\ sent = 0 /\ caught = 0 /\ emitted = 0
  /\ killed = "none" /\ overrun = FALSE /\ stray = FALSE
  /\ listens = 0

\* The VM thread is between two of its steps, and the process is alive.
Free == ~resyncing /\ killed = "none"
Listens == Free /\ listens < MaxListens /\ listens' = listens + 1

\* activate, deactivate and deactivateAll: the set becomes bridged, and
\* resync begins with Stop if it changed.
Bridge(bridged) ==
  /\ active' = bridged
  /\ IF bridged = active THEN UNCHANGED <<notified, resyncing>>
     ELSE notified' = {} /\ resyncing' = TRUE
\* Notify: the end of resync.
Resync ==
  /\ resyncing /\ killed = "none"
  /\ resyncing' = FALSE /\ notified' = active
  /\ UNCHANGED <<listeners, active, channel, relayed, sent, caught, emitted, killed, overrun,
                 stray, listens>>

AddListener(g, kind) ==
  /\ Listens
  /\ listeners' = [listeners EXCEPT ![g][kind] = @ + 1]
  /\ Bridge(IF Heard(listeners[g]) THEN active ELSE active \cup {g})
  /\ UNCHANGED <<channel, relayed, sent, caught, emitted, killed, overrun, stray>>
\* off() and removeListener(), also of a function that does not listen.
RemoveListener(g) ==
  /\ Listens
  /\ \/ UNCHANGED listeners
     \/ \E kind \in {"on", "once"} :
          listeners[g][kind] > 0 /\ listeners' = [listeners EXCEPT ![g][kind] = @ - 1]
  /\ Bridge(IF Heard(listeners'[g]) THEN active ELSE active \ {g})
  /\ UNCHANGED <<channel, relayed, sent, caught, emitted, killed, overrun, stray>>
RemoveAll(gone) ==
  /\ Listens
  /\ listeners' = [g \in Sigs |-> IF g \in gone THEN NoListeners ELSE listeners[g]]
  /\ Bridge(active \ gone)
  /\ UNCHANGED <<channel, relayed, sent, caught, emitted, killed, overrun, stray>>

\* emit() calls the listeners; those of once() remove themselves, without
\* the overrides of off and removeListener.
Emitted(g) == [listeners EXCEPT ![g].once = 0]
EmitByHand(g) ==
  /\ Listens /\ Heard(listeners[g])
  /\ listeners' = Emitted(g)
  /\ stray' = (stray \/ ~Heard(Emitted(g)[g]))
  /\ UNCHANGED <<active, notified, resyncing, channel, relayed, sent, caught, emitted, killed,
                 overrun>>

\* A signal is sent to the process.
SignalArrives(g) ==
  /\ killed = "none" /\ sent < MaxSignals
  /\ sent' = sent + 1
  /\ LET fits == g \in notified /\ Len(channel) < ChanCap
     IN  /\ channel' = IF fits THEN Append(channel, g) ELSE channel
         /\ caught' = IF fits THEN caught + 1 ELSE caught
         /\ overrun' = (overrun \/ (g \in notified /\ ~fits))
  /\ killed' = IF g \in notified THEN "none" ELSE g
  /\ UNCHANGED <<listeners, active, notified, resyncing, relayed, emitted, stray, listens>>

\* Mutant: a signal nobody listens for any more is not relayed.
Relay_Drops ==
  /\ killed = "none" /\ channel # <<>>
  /\ channel' = Tail(channel)
  /\ relayed' = IF Head(channel) \in active THEN Append(relayed, Head(channel)) ELSE relayed
  /\ UNCHANGED <<listeners, active, notified, resyncing, sent, caught, emitted, killed, overrun,
                 stray, listens>>
Relay ==
  /\ killed = "none" /\ channel # <<>>
  /\ channel' = Tail(channel)
  /\ relayed' = Append(relayed, Head(channel))
  /\ UNCHANGED <<listeners, active, notified, resyncing, sent, caught, emitted, killed, overrun,
                 stray, listens>>

\* Mutant: the tick does not look at the listeners that are left.
SignalTick_Keeps ==
  /\ Free /\ relayed # <<>>
  /\ relayed' = Tail(relayed)
  /\ listeners' = Emitted(Head(relayed))
  /\ emitted' = emitted + 1
  /\ UNCHANGED <<active, notified, resyncing, channel, sent, caught, killed, overrun, stray,
                 listens>>
\* The tick: emit, and stop bridging a signal that has no listener left.
SignalTick ==
  /\ Free /\ relayed # <<>>
  /\ LET g == Head(relayed)
     IN  /\ relayed' = Tail(relayed)
         /\ listeners' = Emitted(g)
         /\ emitted' = emitted + 1
         /\ Bridge(IF Heard(Emitted(g)[g]) THEN active ELSE active \ {g})
  /\ UNCHANGED <<channel, sent, caught, killed, overrun, stray, listens>>

GWorks == Resync \/ Relay \/ SignalTick
GNext ==
  \/ GWorks
  \/ \E g \in Sigs : RemoveListener(g) \/ EmitByHand(g) \/ SignalArrives(g)
                     \/ \E kind \in {"on", "once"} : AddListener(g, kind)
  \/ \E gone \in {{g} : g \in Sigs} \cup {Sigs} : RemoveAll(gone)
GRests == killed # "none" \/ (~resyncing /\ channel = <<>> /\ relayed = <<>>)

-----------------------------------------------------------------------------
\* The operating system delivers exactly the signals someone listens for:
\* also after a once-listener, of which the overrides see nothing, has run.
\* (Only process.emit can leave a signal intercepted that nobody hears.)
BridgeExact ==
  Free => /\ notified = active
          /\ \A g \in Sigs : Heard(listeners[g]) => g \in active
          /\ ~stray => \A g \in active : Heard(listeners[g])

\* The default action ends the process only for a signal without a listener,
\* or while the subscription is recomputed.
KilledUnheard == killed # "none" /\ ~resyncing => ~Heard(listeners[killed])

\* Signals that were taken are all emitted, unless the process is killed: a
\* removal or a change of the other signals in between does not lose them.
TakenNotLost == caught = emitted + Len(relayed) + Len(channel)
AllHeard == emitted >= caught \/ killed # "none"

\* A signal that has had a listener all along does not end the process
\* (violated: resync stops all signals before it asks for the new set).
NeverKilledHeard == killed # "none" => ~Heard(listeners[killed])
=============================================================================
