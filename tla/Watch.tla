-------------------------------- MODULE Watch --------------------------------
(***************************************************************************)
(* fs_watch.go: the watchers of one file.  watchFile() polls it from a     *)
(* goroutine and shares one watcher between its callers; watch() relays    *)
(* the events of the operating system.  Both hold the loop with a          *)
(* keepAlive and queue a tick for every report.                            *)
(***************************************************************************)
EXTENDS Integers, Sequences, SequencesExt

CONSTANTS
  Versions,    \* what a successful stat can return
  Errnos,      \* how a stat can fail
  MaxChanges,  \* bound: changes of the file
  MaxWatchers, \* bound: watchers made
  MaxUses      \* bound: calls on watchers

ASSUME WatchAssumption ==
  /\ Versions \cap Errnos = {} /\ "nil" \notin Versions /\ {"no", "ok"} \cap Errnos = {}
  /\ {MaxChanges, MaxWatchers, MaxUses} \subseteq Nat

VARIABLES
  file,      \* the file: a version, or the errno of a stat
  changes,   \* how many of MaxChanges are spent
  watchers,  \* the watchers made so far
  shared,    \* statWatchers: the index of the polling watcher, or 0
  uses       \* how many of MaxUses are spent

hvars == <<file, changes, watchers, shared, uses>>

\* runStatPoll's last and busy; pos is how many changes watch() has been
\* told of.  seen, reports and stops are the observer's: what the poll saw
\* first, what was emitted, and how often 'stop' or 'close' was.
NewWatcher(kind, persistent) ==
  [kind |-> kind, refed |-> persistent, open |-> TRUE, runs |-> TRUE, listeners |-> 1,
   last |-> "nil", busy |-> "no", queue |-> <<>>, ticks |-> <<>>,
   seen |-> "nil", reports |-> <<>>, stops |-> 0]

HInit ==
  /\ file \in Versions \cup Errnos
  /\ changes = 0 /\ watchers = <<>> /\ shared = 0 /\ uses = 0

Uses == uses < MaxUses /\ uses' = uses + 1 /\ UNCHANGED <<file, changes>>
Step(i, s) == watchers' = [watchers EXCEPT ![i] = s]
Alone(i, s) == Step(i, s) /\ UNCHANGED <<file, changes, shared, uses>>

\* watch() sees every change that comes after it.
FileChanges ==
  /\ changes < MaxChanges /\ changes' = changes + 1
  /\ \E f \in (Versions \cup Errnos) \ {file} :
       /\ file' = f
       /\ watchers' = [i \in DOMAIN watchers |->
            IF watchers[i].kind = "notify" /\ watchers[i].open
            THEN [watchers[i] EXCEPT !.queue = Append(@, f)] ELSE watchers[i]]
  /\ UNCHANGED <<shared, uses>>

FsWatch ==
  /\ Uses /\ Len(watchers) < MaxWatchers /\ file \in Versions
  /\ \E persistent \in BOOLEAN : watchers' = Append(watchers, NewWatcher("notify", persistent))
  /\ UNCHANGED shared
\* fsWatchFile: a second call adds a listener to the watcher there is.
WatchFile ==
  /\ Uses
  /\ IF shared # 0
     THEN Step(shared, [watchers[shared] EXCEPT !.listeners = @ + 1]) /\ UNCHANGED shared
     ELSE /\ Len(watchers) < MaxWatchers
          /\ \E persistent \in BOOLEAN :
               watchers' = Append(watchers, NewWatcher("poll", persistent))
          /\ shared' = Len(watchers) + 1

\* keepAlive.ref, unref and release.
WatchRef(i) ==
  /\ Uses /\ watchers[i].open
  /\ Step(i, [watchers[i] EXCEPT !.refed = ~@]) /\ UNCHANGED shared
Release(s) ==
  IF ~s.open THEN s
  ELSE [s EXCEPT !.open = FALSE, !.refed = FALSE, !.ticks = Append(@, [op |-> "stop"])]

\* fsUnwatchFile: of one listener or of all; the last one stops the poll.
UnwatchFile(all) ==
  /\ Uses /\ shared # 0
  /\ LET s == watchers[shared]
         rest == [s EXCEPT !.listeners = IF all THEN 0 ELSE @ - 1]
     IN  /\ Step(shared, IF rest.listeners = 0 THEN Release(rest) ELSE rest)
         /\ shared' = IF rest.listeners = 0 THEN 0 ELSE shared
\* FSWatcher's close(): what was not relayed yet is given up.
CloseWatch(i) ==
  /\ watchers[i].kind = "notify" /\ Uses
  /\ Step(i, [Release(watchers[i]) EXCEPT !.queue = <<>>])
  /\ UNCHANGED shared

Report(s, f, prev) ==
  [s EXCEPT !.ticks = Append(@, [op |-> "change", saw |-> f, prev |-> prev])]
\* Mutant: an error is not remembered, and the return of the file not reported.
Sampled_Forgets(s) ==
  IF file \in Errnos THEN [Report(s, file, s.last) EXCEPT !.busy = file]
  ELSE [(IF s.busy # "no" /\ file # s.last THEN Report(s, file, s.last) ELSE s)
          EXCEPT !.last = file, !.busy = "ok"]
\* One sample of runStatPoll.
Sampled(s) ==
  LET news == IF file \in Errnos THEN s.busy # file
              ELSE s.busy \in Errnos \/ (s.busy # "no" /\ file # s.last)
      told == IF news THEN Report(s, file, s.last) ELSE s
      first == IF s.busy = "no" THEN [told EXCEPT !.seen = file] ELSE told
  IN  IF file \in Errnos THEN [first EXCEPT !.busy = file]
      ELSE [first EXCEPT !.last = file, !.busy = "ok"]
Sample(i) ==
  /\ watchers[i].kind = "poll" /\ watchers[i].runs
  /\ Sampled(watchers[i]) # watchers[i] /\ Alone(i, Sampled(watchers[i]))
PollStops(i) ==
  /\ watchers[i].kind = "poll" /\ watchers[i].runs /\ ~watchers[i].open
  /\ Alone(i, [watchers[i] EXCEPT !.runs = FALSE])
NotifyRelays(i) ==
  /\ watchers[i].kind = "notify" /\ watchers[i].queue # <<>>
  /\ Alone(i, Report([watchers[i] EXCEPT !.queue = Tail(@)], Head(watchers[i].queue), "nil"))

\* The tick: nothing is emitted once the watcher is closed.
WatchTick(i) ==
  /\ watchers[i].ticks # <<>>
  /\ LET t == Head(watchers[i].ticks)
         s == [watchers[i] EXCEPT !.ticks = Tail(@)]
     IN  Alone(i, CASE t.op = "stop" -> [s EXCEPT !.stops = @ + 1]
                    [] t.op = "change" /\ s.open -> [s EXCEPT !.reports = Append(@, t)]
                    [] OTHER -> s)

HWorks == \E i \in DOMAIN watchers : Sample(i) \/ PollStops(i) \/ NotifyRelays(i) \/ WatchTick(i)
HNext ==
  \/ HWorks \/ FileChanges \/ FsWatch \/ WatchFile
  \/ \E all \in BOOLEAN : UnwatchFile(all)
  \/ \E i \in DOMAIN watchers : WatchRef(i) \/ CloseWatch(i)
HRests ==
  \A i \in DOMAIN watchers :
    LET s == watchers[i] IN
    /\ s.queue = <<>> /\ s.ticks = <<>>
    /\ s.kind = "poll" => ~s.runs \/ (s.open /\ Sampled(s) = s)

-----------------------------------------------------------------------------
Polls(s) == s.kind = "poll"
LastSaw(s) ==
  CASE s.ticks # <<>> /\ Last(s.ticks).op = "change" -> Last(s.ticks).saw
    [] s.reports # <<>> -> Last(s.reports).saw
    [] OTHER -> s.seen

\* What a poll saw first, and what its reports say it saw then.
Saw(s, k) == IF k = 0 THEN s.seen ELSE s.reports[k].saw

\* watchFile() reports changes and nothing else: each report differs from
\* the one before it, and its previous stat is the last good one that was
\* seen, whatever errors came in between.
ReportsAreChanges ==
  \A i \in DOMAIN watchers :
    LET s == watchers[i] IN
    Polls(s) =>
      \A k \in DOMAIN s.reports :
        /\ (k > 1 \/ s.seen \in Versions) => Saw(s, k) # Saw(s, k - 1)
        /\ \/ s.reports[k].prev = "nil" /\ \A j \in 0..(k - 1) : Saw(s, j) \in Errnos
           \/ \E j \in 0..(k - 1) :
                /\ s.reports[k].prev = Saw(s, j) /\ Saw(s, j) \in Versions
                /\ \A later \in (j + 1)..(k - 1) : Saw(s, later) \in Errnos

\* A closed watcher does not hold the loop, emits its 'stop' or 'close' once,
\* and the table has the one open polling watcher.
WatchersHeld ==
  /\ \A i \in DOMAIN watchers : watchers[i].refed => watchers[i].open
  /\ \A i \in DOMAIN watchers : watchers[i].stops <= 1 /\ (watchers[i].stops = 1 => ~watchers[i].open)
  /\ \A i \in DOMAIN watchers : Polls(watchers[i]) => (watchers[i].open <=> shared = i)

\* Nothing is reported after close() or the last unwatchFile(), although the
\* goroutine was ahead of it.
QuietWhenClosed ==
  \A i \in DOMAIN watchers :
    ~watchers[i].open => watchers'[i].reports = watchers[i].reports

\* A listener ends up with the state the file is left in.
Converged ==
  \A i \in DOMAIN watchers :
    Polls(watchers[i]) /\ watchers[i].open => LastSaw(watchers[i]) = file
=============================================================================
