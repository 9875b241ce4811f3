------------------------------- MODULE Mailbox -------------------------------
(***************************************************************************)
(* The mailbox of worker_runtime.go: one receiving end, owned by one VM,   *)
(* which other threads push to.  Each operator is a critical section of    *)
(* m.mu and returns the mailbox after it.                                  *)
(***************************************************************************)
EXTENDS Naturals, Sequences

Mailboxes(Mail) == [attached : BOOLEAN, queue : Seq(Mail), scheduled : BOOLEAN,
                    closed : BOOLEAN, refs : Nat, held : BOOLEAN]

NewMailbox == [attached |-> FALSE, queue |-> <<>>, scheduled |-> FALSE,
               closed |-> FALSE, refs |-> 0, held |-> FALSE]

\* scheduleLocked: at most one drain macrotask is queued at a time.
Schedule(m) == [m EXCEPT !.scheduled = @ \/ (m.attached /\ ~m.closed /\ m.queue # <<>>)]

\* updateHoldLocked: at most one external op.
UpdateHold(m) == [m EXCEPT !.held = m.attached /\ m.refs > 0 /\ ~m.closed]

Attach(m) == UpdateHold(Schedule([m EXCEPT !.attached = TRUE]))

Push(m, mail) == IF m.closed THEN m ELSE Schedule([m EXCEPT !.queue = Append(@, mail)])

\* Mutant: the queue is not emptied.
Drained_KeepsQueue(m) == [m EXCEPT !.scheduled = FALSE]

\* The first critical section of drain takes the whole queue.
Drained(m) == [m EXCEPT !.scheduled = FALSE, !.queue = <<>>]

SetRefs(m, n) == UpdateHold([m EXCEPT !.refs = n])
Ref(m) == SetRefs(m, m.refs + 1)

Unref(m) == SetRefs(m, IF m.refs > 0 THEN m.refs - 1 ELSE 0)

Closed(m) == UpdateHold([m EXCEPT !.closed = TRUE, !.queue = <<>>])
=============================================================================
