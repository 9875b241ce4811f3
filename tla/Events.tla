------------------------------- MODULE Events -------------------------------
(***************************************************************************)
(* node:events (events.go): an EventEmitter with 'newListener' and         *)
(* 'removeListener', an 'error' that nobody hears, errorMonitor and        *)
(* captureRejections, and two helpers on it: events.once(), which makes a  *)
(* promise, and events.on(), which makes an async iterator.                *)
(*                                                                         *)
(* Everything runs on one thread, so what is still to be done is a stack   *)
(* of instructions, the next one first.  A listener of the user's is a     *)
(* "body": while it is the first instruction it may call the emitter,      *)
(* which puts instructions before it, return or throw.                     *)
(*                                                                         *)
(* An entry of a list is [fn, id, once]: two plain entries of a function   *)
(* are the same value to removeListener, two wrappers are not.  Left out:  *)
(* EventTarget and the limit of setMaxListeners.                           *)
(***************************************************************************)
EXTENDS Integers, Sequences, FiniteSets, SequencesExt

CONSTANTS
  EventConfs,  \* what the user does: [calls, adds, emits, capture, signal]
  MaxEventOps  \* bound: the user's calls

ASSUME EventsAssumption == MaxEventOps \in Nat

VARIABLES
  econf,      \* of EventConfs
  lists,      \* _events: the entries of an event, <<>> when it has none
  made,       \* the arrays made for an event so far
  fired,      \* the wrappers of once() that ran
  ran,        \* how often each wrapper's listener was run
  todo,       \* the instructions
  thrown,     \* an exception is on its way
  capture,    \* this[kCapture]
  rejected,   \* rejections of listeners on their way to 'error', or nobody's
  waiter,     \* the promise of events.once()
  iter,       \* the iterator of events.on()
  signal,     \* aborted, and who listens
  cut,        \* an exception passed through a helper
  eops        \* the user's calls so far; also the emissions' arguments

evars == <<econf, lists, made, fired, ran, todo, thrown, capture, rejected, waiter, iter, signal, cut, eops>>
board == <<lists, made>>
helpers == <<waiter, iter, signal>>

EventNames == {"x", "error", "monitor", "close", "newListener", "removeListener"}
Listening(f) == [fn |-> f, id |-> 0, once |-> FALSE]
OnceWrap(f, id) == [fn |-> f, id |-> id, once |-> TRUE]
NoIter == [on |-> FALSE, events |-> <<>>, promises |-> <<>>, error |-> FALSE, finished |-> FALSE,
           asked |-> 0, heard |-> <<>>, answers |-> <<>>]

EInit ==
  /\ econf \in EventConfs
  /\ lists = [e \in EventNames |-> <<>>] /\ made = [e \in EventNames |-> 0]
  /\ fired = {} /\ ran = <<>> /\ todo = <<>> /\ thrown = FALSE
  /\ capture = econf.capture /\ rejected = [due |-> 0, unhandled |-> 0]
  /\ waiter = [state |-> "none", by |-> "none"] /\ iter = NoIter
  /\ signal = [aborted |-> FALSE, listeners |-> <<>>] /\ cut = FALSE /\ eops = 0

-----------------------------------------------------------------------------
(* Instructions *)

Instr == [op |-> "none", ev |-> "", fn |-> "", arg |-> 0, entry |-> Listening(""), prepend |-> FALSE, at |-> 0]
Body(f) == [Instr EXCEPT !.op = "body", !.fn = f]
Raise == [Instr EXCEPT !.op = "raise"]
RemoveFn(e, f) == [Instr EXCEPT !.op = "remove", !.ev = e, !.entry = Listening(f)]
RemoveEntry(e, entry) == [Instr EXCEPT !.op = "remove", !.ev = e, !.entry = entry]
Do(op) == [Instr EXCEPT !.op = op]

\* emit: the listeners that are there now.  'error' without one throws.
EmitTo(e, arg) ==
  LET calls(ev) == [i \in DOMAIN lists[ev] |->
                     [Instr EXCEPT !.op = "call", !.ev = ev, !.arg = arg, !.entry = lists[ev][i]]]
  IN  CASE e # "error" -> calls(e)
        [] e = "error" /\ lists["error"] = <<>> -> calls("monitor") \o <<Raise>>
        [] OTHER -> calls("monitor") \o calls("error")
Notify(e) == IF lists[e] = <<>> THEN <<>> ELSE EmitTo(e, 0)

\* _addListener, in two parts: 'newListener', then the list.
Add(e, entry, prepend) ==
  [Instr EXCEPT !.op = "on", !.ev = e, !.entry = entry, !.prepend = prepend]
AddNow(i) ==
  /\ lists' = [lists EXCEPT ![i.ev] = IF i.prepend THEN <<i.entry>> \o @ ELSE Append(@, i.entry)]
  /\ made' = [made EXCEPT ![i.ev] = IF lists[i.ev] = <<>> THEN @ + 1 ELSE @]

\* removeListener takes the last entry that is the function, or wraps it.
Matches(x, entry) == IF entry.once THEN x = entry ELSE x.fn = entry.fn
LastMatch(list, test(_)) == SelectLastInSeq(list, test)
Without(e, i) == [lists EXCEPT ![e] = RemoveAt(@, i)]
Removed(e, i) ==
  IF i = 0 THEN <<>>
  ELSE IF Without(e, i)["removeListener"] = <<>> THEN <<>>
  ELSE [k \in DOMAIN Without(e, i)["removeListener"] |->
         [Instr EXCEPT !.op = "call", !.ev = "removeListener",
                       !.entry = Without(e, i)["removeListener"][k]]]
RemoveNow(e, i, rest) ==
  /\ lists' = IF i = 0 THEN lists ELSE Without(e, i)
  /\ todo' = Removed(e, i) \o rest /\ UNCHANGED made

\* removeAllListeners(event), from the end of the array it found; what it
\* reads past the end of that array is like every plain function's .listener.
Purge(e) == [Instr EXCEPT !.op = "purge", !.ev = e, !.at = Len(lists[e]), !.arg = made[e]]
PurgeOne(i, rest) ==
  LET known == made[i.ev] = i.arg /\ i.at <= Len(lists[i.ev])
      entry == lists[i.ev][i.at]
      at == IF known THEN LastMatch(lists[i.ev], LAMBDA x : Matches(x, entry))
            ELSE LastMatch(lists[i.ev], LAMBDA x : ~x.once)
  IN  IF i.at = 0 THEN todo' = rest /\ UNCHANGED board
      ELSE RemoveNow(i.ev, at, <<[i EXCEPT !.at = @ - 1]>> \o rest)

\* A call of a listener: a wrapper first removes itself.
\* Mutant: the wrapper does not look at fired.
Called_Again(i) ==
  (IF i.entry.once THEN <<RemoveEntry(i.ev, i.entry)>> ELSE <<>>) \o <<[i EXCEPT !.op = "run"]>>
Called(i) ==
  CASE i.entry.once /\ i.entry.id \in fired -> <<>>
    [] i.entry.once /\ i.entry.id \notin fired ->
         <<RemoveEntry(i.ev, i.entry), [i EXCEPT !.op = "run"]>>
    [] OTHER -> <<[i EXCEPT !.op = "run"]>>

-----------------------------------------------------------------------------
(* The helpers' functions, as instructions *)

\* removeAll and the end of closeHandler.
CloseHandler ==
  <<RemoveFn("x", "eventHandler"), RemoveFn("error", "errorHandler"),
    RemoveFn("close", "closeHandler"), Do("iterAbortOff"), Do("finished")>>
\* What an internal function does at once, and what it has yet to do.
Functions(f, arg) ==
  CASE f = "resolver" -> <<RemoveFn("error", "errorListener"), Do("waitAbortOff"), Do("resolve")>>
    [] f = "errorListener" -> <<RemoveFn("x", "resolver"), Do("waitAbortOff"), Do("reject")>>
    [] f = "abortWaiter" ->
         <<RemoveFn("x", "resolver"), RemoveFn("error", "errorListener"), Do("reject")>>
    [] f = "eventHandler" -> <<[Do("event") EXCEPT !.arg = arg]>>
    [] f \in {"errorHandler", "abortIter"} -> <<Do("failed")>> \o CloseHandler
    [] f = "closeHandler" -> CloseHandler
    [] OTHER -> <<Body(f)>>

Answer(it, what, arg) ==
  [it EXCEPT !.promises = Tail(@),
             !.answers = Append(@, [to |-> Head(it.promises), what |-> what, arg |-> arg])]
\* eventHandler.
IterEvent(it, arg) ==
  LET h == [it EXCEPT !.heard = Append(@, arg)]
  IN  IF it.promises # <<>> THEN Answer(h, "event", arg) ELSE [h EXCEPT !.events = Append(@, arg)]
\* errorHandler before it closes.
IterFailed(it) == IF it.promises = <<>> THEN [it EXCEPT !.error = TRUE] ELSE Answer(it, "error", 0)
IterFinished(it) ==
  [it EXCEPT !.finished = TRUE, !.promises = <<>>,
             !.answers = @ \o [i \in DOMAIN it.promises |-> [to |-> it.promises[i], what |-> "done", arg |-> 0]]]
\* next(), but for the closeHandler it calls once finished.
IterNext(it) ==
  LET n == [it EXCEPT !.asked = @ + 1, !.promises = Append(@, it.asked + 1)]
      now(t, what, arg) ==
        [t EXCEPT !.promises = it.promises,
                  !.answers = Append(@, [to |-> it.asked + 1, what |-> what, arg |-> arg])]
  IN  CASE it.events # <<>> -> now([n EXCEPT !.events = Tail(@)], "event", Head(it.events))
        [] it.events = <<>> /\ it.error -> now([n EXCEPT !.error = FALSE], "error", 0)
        [] it.events = <<>> /\ ~it.error /\ it.finished -> now(n, "done", 0)
        [] OTHER -> n

SignalOff(f) == [signal EXCEPT !.listeners = SelectSeq(@, LAMBDA x : x # f)]
Settle(state, by) == IF waiter.state = "pending" THEN [state |-> state, by |-> by] ELSE waiter

-----------------------------------------------------------------------------
(* The next instruction *)

Step(op) == todo # <<>> /\ ~thrown /\ Head(todo).op = op /\ UNCHANGED <<econf, thrown, eops>>
I == Head(todo)
Then(instrs) == todo' = instrs \o Tail(todo)

Calls ==
  /\ Step("call") /\ Then(Called(I))
  /\ fired' = IF I.entry.once THEN fired \cup {I.entry.id} ELSE fired
  /\ UNCHANGED <<lists, made, ran, capture, rejected, helpers, cut>>
Runs ==
  /\ Step("run") /\ Then(Functions(I.entry.fn, I.arg))
  /\ ran' = IF I.entry.once THEN Append(ran, I.entry.id) ELSE ran
  /\ UNCHANGED <<lists, made, fired, capture, rejected, helpers, cut>>
Lists ==
  /\ \/ Step("on") /\ Then(Notify("newListener") \o <<[I EXCEPT !.op = "add"]>>) /\ UNCHANGED board
     \/ Step("add") /\ Then(<<>>) /\ AddNow(I)
     \/ Step("remove") /\ RemoveNow(I.ev, LastMatch(lists[I.ev], LAMBDA x : Matches(x, I.entry)), Tail(todo))
     \/ Step("purge") /\ PurgeOne(I, Tail(todo)) /\ UNCHANGED made
     \/ Step("beginPurge") /\ Then(<<Purge(I.ev)>>) /\ UNCHANGED board
     \/ Step("drop") /\ Then(<<>>) /\ lists' = [e \in EventNames |-> <<>>] /\ UNCHANGED made
  /\ UNCHANGED <<fired, ran, capture, rejected, helpers, cut>>
Helps ==
  /\ \/ Step("resolve") /\ waiter' = Settle("resolved", "x") /\ UNCHANGED <<iter, signal>>
     \/ Step("reject") /\ waiter' = Settle("rejected", "error") /\ UNCHANGED <<iter, signal>>
     \/ Step("setup") /\ UNCHANGED helpers
     \/ Step("waitAbortOff") /\ signal' = SignalOff("abortWaiter") /\ UNCHANGED <<waiter, iter>>
     \/ Step("iterAbortOff") /\ signal' = SignalOff("abortIter") /\ UNCHANGED <<waiter, iter>>
     \/ Step("listenAbort") /\ signal' = [signal EXCEPT !.listeners = Append(@, I.fn)]
          /\ UNCHANGED <<waiter, iter>>
     \/ Step("event") /\ iter' = IterEvent(iter, I.arg) /\ UNCHANGED <<waiter, signal>>
     \/ Step("failed") /\ iter' = IterFailed(iter) /\ UNCHANGED <<waiter, signal>>
     \/ Step("finished") /\ iter' = IterFinished(iter) /\ UNCHANGED <<waiter, signal>>
  /\ Then(<<>>) /\ UNCHANGED <<lists, made, fired, ran, capture, rejected, cut>>

\* A body returns, or returns a promise that rejects.
Returns ==
  /\ Step("body") /\ Then(<<>>)
  /\ \/ UNCHANGED rejected
     \/ /\ "reject" \in econf.calls
        /\ rejected' = IF capture THEN [rejected EXCEPT !.due = @ + 1]
                       ELSE [rejected EXCEPT !.unhandled = @ + 1]
  /\ UNCHANGED <<lists, made, fired, ran, capture, helpers, cut>>
\* emitUnhandledRejectionOrErr, and its finally.
Rejection ==
  /\ todo = <<>> /\ ~thrown /\ rejected.due > 0
  /\ rejected' = [rejected EXCEPT !.due = @ - 1]
  /\ capture' = FALSE
  /\ todo' = EmitTo("error", 0) \o <<[Do("restore") EXCEPT !.prepend = capture]>>
  /\ UNCHANGED <<econf, lists, made, fired, ran, thrown, helpers, cut, eops>>
Restores ==
  /\ todo # <<>> /\ I.op = "restore" /\ Then(<<>>) /\ capture' = I.prepend
  /\ UNCHANGED <<econf, lists, made, fired, ran, thrown, rejected, helpers, cut, eops>>

\* An exception: nothing is done until a body that catches it, the finally
\* above, or the promise of once() that its own setup rejects.
Throws ==
  /\ todo # <<>> /\ ~thrown /\ I.op = "raise" /\ thrown' = TRUE /\ Then(<<>>)
  /\ UNCHANGED <<econf, lists, made, fired, ran, capture, rejected, helpers, cut, eops>>
Unwinds ==
  /\ thrown /\ (todo # <<>> => I.op # "restore")
  /\ \/ todo = <<>> /\ thrown' = FALSE /\ UNCHANGED <<todo, waiter>>
     \/ todo # <<>> /\ I.op = "body" /\ thrown' = FALSE /\ UNCHANGED <<todo, waiter>>
     \/ todo # <<>> /\ I.op # "setup" /\ Then(<<>>) /\ UNCHANGED <<thrown, waiter>>
     \/ todo # <<>> /\ I.op = "setup" /\ Then(<<>>) /\ thrown' = FALSE
          /\ waiter' = Settle("rejected", "thrown")
  /\ cut' = (cut \/ (todo # <<>> /\ I.op \in {"finished", "resolve", "reject", "setup", "failed"}))
  /\ UNCHANGED <<econf, lists, made, fired, ran, capture, rejected, iter, signal, eops>>

-----------------------------------------------------------------------------
(* The user: the program, or the body of a listener *)

User(call) ==
  /\ call \in econf.calls /\ eops < MaxEventOps /\ eops' = eops + 1
  /\ ~thrown /\ (todo # <<>> => I.op = "body")
  /\ UNCHANGED <<econf, made, fired, ran, capture, rejected, cut>>
Begins(instrs) == todo' = instrs \o todo
Keeps == UNCHANGED <<lists, thrown, helpers>>

UserOn(e) ==
  \E once, prepend \in BOOLEAN :
    /\ User(IF prepend THEN "prepend" ELSE IF once THEN "once" ELSE "on") /\ Keeps
    /\ Begins(<<Add(e, IF once THEN OnceWrap("f", eops + 1) ELSE Listening("f"), prepend)>>)
UserOff(e) == User("off") /\ Begins(<<RemoveFn(e, "f")>>) /\ Keeps
UserEmit(e) == User("emit") /\ Begins(EmitTo(e, eops + 1)) /\ Keeps
UserThrows == todo # <<>> /\ User("throw") /\ Begins(<<Raise>>) /\ Keeps

\* removeAllListeners, of one event or of all.
NoPurge == ~\E k \in DOMAIN todo : todo[k].op \in {"purge", "beginPurge", "drop"}
UserRemoveAll ==
  /\ User("removeAll") /\ NoPurge /\ UNCHANGED <<thrown, helpers>>
  /\ \E all \in BOOLEAN :
       IF lists["removeListener"] = <<>>
       THEN /\ lists' = [e \in EventNames |-> IF all \/ e = "x" THEN <<>> ELSE lists[e]]
            /\ UNCHANGED todo
       ELSE /\ Begins(IF all
                      THEN <<[Do("beginPurge") EXCEPT !.ev = "x"], [Do("beginPurge") EXCEPT !.ev = "error"],
                             [Do("beginPurge") EXCEPT !.ev = "removeListener"], Do("drop")>>
                      ELSE <<[Do("beginPurge") EXCEPT !.ev = "x"]>>)
            /\ UNCHANGED lists

\* events.once(emitter, "x", { signal }) and events.on(emitter, "x", { signal, close }).
UserOnce ==
  /\ User("waiter") /\ waiter.state = "none" /\ UNCHANGED <<lists, thrown, iter, signal>>
  /\ IF signal.aborted THEN waiter' = [state |-> "rejected", by |-> "abort"] /\ UNCHANGED todo
     ELSE /\ waiter' = [state |-> "pending", by |-> "none"]
          /\ Begins(<<Add("x", OnceWrap("resolver", 100), FALSE),
                      Add("error", OnceWrap("errorListener", 101), FALSE),
                      [Do("listenAbort") EXCEPT !.fn = "abortWaiter"], Do("setup")>>)
UserIter ==
  /\ User("iter") /\ ~iter.on /\ UNCHANGED <<lists, thrown, waiter, signal>>
  /\ IF signal.aborted THEN Begins(<<Raise>>) /\ UNCHANGED iter
     ELSE /\ iter' = [iter EXCEPT !.on = TRUE]
          /\ Begins(<<Add("x", Listening("eventHandler"), FALSE), Add("error", Listening("errorHandler"), FALSE),
                      Add("close", Listening("closeHandler"), FALSE),
                      [Do("listenAbort") EXCEPT !.fn = "abortIter"]>>)
UserNext ==
  /\ User("iter") /\ iter.on /\ iter' = IterNext(iter) /\ UNCHANGED <<lists, thrown, waiter, signal>>
  /\ IF iter.events = <<>> /\ ~iter.error /\ iter.finished THEN Begins(CloseHandler) ELSE UNCHANGED todo
UserCloses ==
  /\ User("iter") /\ iter.on /\ Keeps
  /\ Begins(CloseHandler) \/ Begins(<<Do("failed")>> \o CloseHandler)
\* The signal is aborted: each listener once, in order.
UserAborts ==
  /\ User("abort") /\ ~signal.aborted /\ signal' = [aborted |-> TRUE, listeners |-> <<>>]
  /\ Begins(FlattenSeq([i \in DOMAIN signal.listeners |-> Functions(signal.listeners[i], 0)]))
  /\ UNCHANGED <<lists, thrown, waiter, iter>>

ENext ==
  \/ Calls \/ Runs \/ Lists \/ Helps \/ Returns \/ Rejection \/ Restores \/ Throws \/ Unwinds
  \/ \E e \in econf.adds : UserOn(e) \/ UserOff(e)
  \/ \E e \in econf.emits : UserEmit(e)
  \/ UserThrows \/ UserRemoveAll \/ UserOnce \/ UserIter \/ UserNext \/ UserCloses \/ UserAborts

-----------------------------------------------------------------------------
AtRest == todo = <<>> /\ ~thrown
EntriesOf(fns) == {e \in EventNames : \E k \in DOMAIN lists[e] : lists[e][k].fn \in fns}

\* A listener added with once() runs at most once, although emissions nest
\* and each holds the list it began with; and when the emitter is at rest
\* those that ran are gone.
OnceRunsOnce ==
  /\ \A i, j \in DOMAIN ran : ran[i] = ran[j] => i = j
  /\ AtRest => \A e \in EventNames : \A k \in DOMAIN lists[e] :
                lists[e][k].once => lists[e][k].id \notin fired

\* events.on(): the iterator hands out every event it heard, once and in
\* order, each next() is answered in its turn, none waits while an event
\* does or after the end.
IteratorInOrder ==
  LET given == SelectSeq(iter.answers, LAMBDA a : a.what = "event")
  IN  /\ [i \in DOMAIN given |-> given[i].arg] \o iter.events = iter.heard
      /\ [i \in DOMAIN iter.answers |-> iter.answers[i].to] \o iter.promises
           = [i \in 1..iter.asked |-> i]
      /\ iter.promises = <<>> \/ iter.events = <<>>
      /\ AtRest /\ iter.finished /\ ~cut => iter.promises = <<>>

\* events.once() and events.on() leave nothing behind: once the promise is
\* settled, or the iterator is finished, none of their listeners is on the
\* emitter or on the signal, whichever of event, 'error', abort and return()
\* came first.  (Not when a listener threw in the middle of it.)
HelpersLeave ==
  AtRest /\ ~cut =>
    /\ waiter.state \in {"resolved", "rejected"} =>
         EntriesOf({"resolver", "errorListener"}) = {} /\ ~Contains(signal.listeners, "abortWaiter")
    /\ iter.finished =>
         /\ EntriesOf({"eventHandler", "errorHandler", "closeHandler"}) = {}
         /\ ~Contains(signal.listeners, "abortIter")

\* captureRejections is off only while a captured rejection is emitted as
\* 'error', so that a listener of it that rejects is not captured again;
\* and it is on again afterwards even if nobody listens.
CaptureRestored ==
  /\ AtRest => capture = econf.capture
  /\ econf.capture => (capture <=> ~\E k \in DOMAIN todo : todo[k].op = "restore")
=============================================================================
