---------------------------- MODULE AsyncContext ----------------------------
(***************************************************************************)
(* node:async_hooks over the runtime's frames (async_context.go,           *)
(* async_hooks.go), and the tracing channels of diagnostics_channel.go.    *)
(* A callback that JavaScript schedules carries a frame: its id, who       *)
(* triggered it and the stores of the code that scheduled it.  Only what   *)
(* is scheduled before node:async_hooks is loaded has none, and runs in    *)
(* the frame it finds.                                                     *)
(*                                                                         *)
(* One piece of code runs at a time: the program first, then one queued    *)
(* callback after the other, in any order.  It is in a stack of scopes:    *)
(* run(), a snapshot, runInAsyncScope().  want is what an observer who     *)
(* follows the scopes expects the stores to be.  0 is undefined.           *)
(***************************************************************************)
EXTENDS Integers, Sequences, FiniteSets, SequencesExt

CONSTANTS
  Storages,    \* the AsyncLocalStorages
  MaxFrames,   \* bound: asynchronous ids
  MaxScopes,   \* bound: the depth of scopes
  MaxAsyncOps, \* bound: the user's calls
  TraceKinds   \* of "sync", "promise", "callback"

ASSUME AsyncContextAssumption == {MaxFrames, MaxScopes, MaxAsyncOps} \subseteq Nat

VARIABLES ac, tr

Unset == [a \in Storages |-> 0]
Root == [id |-> 1, trigger |-> 0, store |-> Unset]

\* cur: the frame; base: the one that is current between callbacks; scopes:
\* what the finally of each scope restores; jobs: the queued callbacks;
\* enabled: async_hooks is loaded; early: callbacks scheduled before that;
\* resource, snapshot: the last that was made; parked: the VM thread waits
\* for events; hook: it is enabled, log: what it heard.
ACInit ==
  ac = [cur |-> Root, base |-> Root, next |-> 1, enabled |-> FALSE, early |-> 0, scopes |-> <<>>,
        jobs |-> {}, running |-> TRUE, parked |-> FALSE, disabled |-> {}, resource |-> <<>>, snapshot |-> <<>>,
        want |-> Unset, hook |-> FALSE, fire |-> FALSE, log |-> <<>>, ops |-> 0, leaked |-> FALSE]

-----------------------------------------------------------------------------
(* Frames *)

\* wrap: the frame is made when the callback is scheduled, if async_hooks
\* is loaded.  A callback without one has a number below 0.
Bare(a) == [id |-> -(a.early + 1), trigger |-> 0, store |-> Unset, want |-> Unset]
IsBare(j) == j.id < 0
\* Mutant: a goroutine's work always takes the frame that is current.
Wrapped_Current(a, offThread) ==
  IF ~a.enabled THEN Bare(a)
  ELSE [id |-> a.next + 1, trigger |-> a.cur.id, store |-> a.cur.store,
        want |-> IF offThread THEN Unset ELSE a.want]
Wrapped(a, offThread) ==
  CASE ~a.enabled -> Bare(a)
    [] a.enabled /\ a.parked -> [id |-> a.next + 1, trigger |-> 1, store |-> Unset, want |-> Unset]
    [] OTHER -> [id |-> a.next + 1, trigger |-> a.cur.id, store |-> a.cur.store,
                 want |-> IF offThread THEN Unset ELSE a.want]
Scheduled(a, offThread) ==
  [a EXCEPT !.next = IF a.enabled THEN @ + 1 ELSE @, !.early = IF a.enabled THEN @ ELSE @ + 1,
            !.jobs = @ \cup {Wrapped(a, offThread)}]
CanSchedule(a) == a.next + a.early < MaxFrames

\* setStore makes a new frame: those that were captured do not change.
SetStore(a, store) == [a EXCEPT !.cur.store = store]
Hear(a, kind, event, id) ==
  IF a.hook THEN [a EXCEPT !.log = Append(@, [kind |-> kind, event |-> event, id |-> id])] ELSE a
\* A scope begins, and what its end restores is noted.
Entered(a, kind) ==
  [a EXCEPT !.scopes = Append(@, [kind |-> kind, prev |-> a.cur, want |-> a.want])]
\* withStore.
With(a, s, v) == [a.cur.store EXCEPT ![s] = v]

\* What getStore() answers, and what it should.
Store(a, s) == IF s \in a.disabled THEN 0 ELSE a.cur.store[s]
Expected(a, s) == IF s \in a.disabled THEN 0 ELSE a.want[s]

ACCalls == ac.running /\ ac.enabled /\ ac.ops < MaxAsyncOps
\* The module's first line.
LoadAsyncHooks == ac.running /\ ~ac.enabled /\ ac' = [ac EXCEPT !.enabled = TRUE]
ACDo(a) == ac' = [a EXCEPT !.ops = @ + 1]

ScheduleJob == ac.running /\ ac.ops < MaxAsyncOps /\ CanSchedule(ac) /\ ACDo(Scheduled(ac, FALSE))
\* run(): the store of one storage, until the callback returns; exit() is
\* run(undefined).
Run ==
  /\ ACCalls /\ Len(ac.scopes) < MaxScopes
  /\ \E s \in Storages, v \in {0, ac.ops + 1} :
       ACDo([SetStore(Entered(ac, "store"), With(ac, s, v))
               EXCEPT !.disabled = @ \ {s}, !.want[s] = v])
EnterWith ==
  ACCalls /\ \E s \in Storages :
    ACDo([SetStore(ac, With(ac, s, ac.ops + 1)) EXCEPT !.disabled = @ \ {s}, !.want[s] = ac.ops + 1])
Disable ==
  ACCalls /\ \E s \in Storages :
    ACDo([SetStore(ac, With(ac, s, 0)) EXCEPT !.disabled = @ \cup {s}, !.want[s] = 0])
TakeSnapshot == ACCalls /\ ACDo([ac EXCEPT !.snapshot = <<[store |-> ac.cur.store, want |-> ac.want]>>])
CallSnapshot ==
  /\ ACCalls /\ ac.snapshot # <<>> /\ Len(ac.scopes) < MaxScopes
  /\ ACDo([SetStore(Entered(ac, "store"), ac.snapshot[1].store) EXCEPT !.want = ac.snapshot[1].want])
\* new AsyncResource, runInAsyncScope and bind.
NewResource ==
  /\ ACCalls /\ CanSchedule(ac)
  /\ ACDo(Hear([ac EXCEPT !.next = @ + 1,
                          !.resource = <<[id |-> ac.next + 1, trigger |-> ac.cur.id,
                                         store |-> ac.cur.store, want |-> ac.want, destroyed |-> FALSE]>>],
               "resource", "init", ac.next + 1))
RunInAsyncScope ==
  /\ ACCalls /\ ac.resource # <<>> /\ Len(ac.scopes) < MaxScopes
  /\ LET r == ac.resource[1]
     IN  ACDo([Entered(Hear(ac, "resource", "before", r.id), "frame")
                 EXCEPT !.cur = [id |-> r.id, trigger |-> r.trigger, store |-> r.store], !.want = r.want])
\* The finally of the innermost scope: a store in the frame that is current,
\* or the frame.
LeaveScope ==
  /\ ac.running /\ ac.scopes # <<>>
  /\ LET s == Last(ac.scopes)
         left == [ac EXCEPT !.scopes = Front(@), !.want = s.want]
     IN  ac' = IF s.kind = "store" THEN SetStore(left, s.prev.store)
               ELSE Hear([left EXCEPT !.cur = s.prev], "resource", "after", ac.cur.id)
EmitDestroy ==
  /\ ACCalls /\ ac.resource # <<>> /\ ~ac.resource[1].destroyed
  /\ ACDo(Hear([ac EXCEPT !.resource[1].destroyed = TRUE], "resource", "destroy", ac.resource[1].id))
\* createHook().enable() and disable().
SetHook == ACCalls /\ ACDo([ac EXCEPT !.hook = ~@])

\* The code returns, and its wrapper ends.
EndJob ==
  /\ ac.running /\ ac.scopes = <<>>
  /\ LET frame == IF ac.cur.id = 1 THEN ac.cur ELSE ac.base
         over == [ac EXCEPT !.running = FALSE, !.cur = frame, !.base = frame, !.want = frame.store]
     IN  ac' = IF ac.fire /\ ac.cur.id # 1
               THEN Hear(Hear(over, "job", "after", ac.cur.id), "job", "destroy", ac.cur.id)
               ELSE over
\* A queued callback starts; hooks hear of it now.  One without a frame runs
\* in the program's.
StartJob ==
  /\ ~ac.running /\ ~ac.parked
  /\ \E j \in ac.jobs :
       LET begun == IF IsBare(j) THEN [ac EXCEPT !.jobs = @ \ {j}, !.running = TRUE]
                    ELSE [ac EXCEPT !.jobs = @ \ {j}, !.running = TRUE, !.fire = ac.hook, !.want = j.want,
                                    !.cur = [id |-> j.id, trigger |-> j.trigger, store |-> j.store]]
       IN  ac' = IF ac.hook /\ ~IsBare(j) THEN Hear(Hear(begun, "job", "init", j.id), "job", "before", j.id)
                 ELSE begun
\* The VM thread waits, and is woken by what a goroutine schedules, which it
\* may also do while JavaScript runs.
Park == ~ac.running /\ ~ac.parked /\ ac.jobs = {} /\ ac' = [ac EXCEPT !.parked = TRUE]
GoroutineSchedules ==
  /\ CanSchedule(ac)
  /\ ac' = [Scheduled(ac, TRUE) EXCEPT !.parked = FALSE, !.leaked = @ \/ (~ac.parked /\ ac.cur.store # Unset)]

ACNext ==
  \/ LoadAsyncHooks \/ ScheduleJob \/ Run \/ EnterWith \/ Disable \/ TakeSnapshot \/ CallSnapshot \/ NewResource
  \/ RunInAsyncScope \/ EmitDestroy \/ LeaveScope \/ SetHook \/ EndJob \/ StartJob \/ Park \/ GoroutineSchedules

-----------------------------------------------------------------------------
(* TracingChannel: traceSync, tracePromise, traceCallback *)

\* A call is at a point of the source; subscribers hear each publication if
\* they are subscribed then.  A subscriber that throws changes nothing.
TRInit == \E kind \in TraceKinds :
  tr = [kind |-> kind, at |-> "begin", heard |-> <<>>, told |-> <<>>, on |-> TRUE, threw |-> FALSE]
Publish(t, events) ==
  [t EXCEPT !.told = @ \o events, !.heard = IF t.on THEN @ \o events ELSE @]
TraceBegins == tr.at = "begin" /\ tr' = [Publish(tr, <<"start">>) EXCEPT !.at = "called"]
\* fn returns or throws; traceCallback's callback may be called before that.
TraceReturns ==
  /\ tr.at = "called"
  /\ \E throws \in BOOLEAN :
       LET out == IF throws THEN <<"error", "end">> ELSE <<"end">>
           after == IF tr.kind = "promise" /\ ~throws THEN <<"asyncStart">> ELSE <<>>
       IN  tr' = [Publish(tr, out \o after)
                    EXCEPT !.at = IF throws \/ tr.kind = "sync" \/ "asyncEnd" \in ToSet(tr.told) THEN "over"
                                  ELSE "async",
                           !.threw = throws]
TraceSettles ==
  /\ \/ tr.at = "async"
     \/ tr.at = "called" /\ tr.kind = "callback" /\ "asyncEnd" \notin ToSet(tr.told)
  /\ \E fails \in BOOLEAN :
       LET error == IF fails THEN <<"error">> ELSE <<>>
           out == IF tr.kind = "promise" THEN error \o <<"asyncEnd">>
                  ELSE error \o <<"asyncStart", "asyncEnd">>
       IN  tr' = [Publish(tr, out) EXCEPT !.at = IF @ = "async" THEN "over" ELSE @]
TraceSubscribes == \E on \in BOOLEAN : tr' = [tr EXCEPT !.on = on]
TRNext == TraceBegins \/ TraceReturns \/ TraceSettles \/ TraceSubscribes

-----------------------------------------------------------------------------
\* AsyncLocalStorage: whatever runs sees the stores of the code that
\* scheduled, bound or took a snapshot of it, as they were then: not those
\* of what ran before it, and not what run() or enterWith() did since.  Work
\* of a goroutine sees none.  (Unless the goroutine scheduled it while some
\* JavaScript with a store was running, the gap the source describes; and
\* what was scheduled before async_hooks was loaded sees, and leaves behind,
\* the stores of the program's own frame.)
OwnContext ==
  /\ ac.running /\ ~ac.leaked => \A s \in Storages : Store(ac, s) = Expected(ac, s)
  /\ ~ac.running => ac.scopes = <<>> /\ ac.cur.id = 1

\* A callback that was scheduled before async_hooks was loaded, when there was
\* no store, finds none: not what the code does, which does not wrap it, so
\* that it finds what the program or another such callback has entered since.
EarlyFindNone ==
  ~ac.running /\ (\E j \in ac.jobs : IsBare(j)) => ac.base.store = Unset

\* Hooks: a callback's init, before, after and destroy come in this order,
\* once, and with no other callback's between them, whenever hooks are
\* enabled or disabled; what hooks hear while code runs names that code or
\* a resource it entered; and nothing is destroyed twice.
HooksNested ==
  LET Jobs == SelectSeq(ac.log, LAMBDA e : e.kind = "job")
      Events(id) == [i \in DOMAIN SelectSeq(Jobs, LAMBDA e : e.id = id) |->
                       SelectSeq(Jobs, LAMBDA e : e.id = id)[i].event]
  IN  /\ \A i \in DOMAIN Jobs :
           /\ Events(Jobs[i].id) \in {<<"init", "before">>, <<"init", "before", "after", "destroy">>}
           /\ Jobs[i].event \in {"before", "destroy"} => Jobs[i - 1].id = Jobs[i].id
           /\ Jobs[i].event = "after" => Jobs[i - 1] = [kind |-> "job", event |-> "before", id |-> Jobs[i].id]
      /\ \A e \in ToSet(ac.log) :
           Cardinality({i \in DOMAIN ac.log : ac.log[i] = e}) = 1 \/ e.event \in {"before", "after"}

\* A tracing channel publishes start and end once and around the call,
\* error before the end of what failed, and the asynchronous pair in order.
TracesBracketed ==
  LET at(e) == {i \in DOMAIN tr.told : tr.told[i] = e}
  IN  /\ \A e \in {"start", "end", "asyncStart", "asyncEnd"} : Cardinality(at(e)) <= 1
      /\ \A i \in at("end") : \E k \in at("start") : k < i
      /\ \A i \in at("asyncEnd") : \E k \in at("asyncStart") : k < i
      /\ tr.at = "over" => at("end") # {} /\ (tr.threw \/ tr.kind = "sync" \/ at("asyncEnd") # {})
=============================================================================
