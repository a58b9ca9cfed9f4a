------------------------------ MODULE WatchLoop ------------------------------
(***************************************************************************)
(* From the operating system's file events to batches of changes: the      *)
(* notify callback of FileWatcher (watcher/file_watcher.rs), its bounded   *)
(* channel, the SmartDebouncer, and the select! loop of the watcher task   *)
(* (server/http.rs) that owns both.  The dep watcher's loop is the same    *)
(* code with other timings, which are constants here.                      *)
(*                                                                         *)
(* A change is its path and a number that grows with every event: what     *)
(* the event was (create, modify, remove) is not told apart.  Time is      *)
(* counted in ticks; the loop's own steps take no time, handling a batch   *)
(* takes any time.                                                         *)
(***************************************************************************)
EXTENDS Naturals, Sequences, FiniteSets

CONSTANTS
    Path,             \* the files whose events pass should_process_file
    ChannelCapacity,  \* mpsc::channel(256)
    BatchWindow,      \* SmartDebouncer::batch_window
    BatchDebounce,    \* SmartDebouncer::batch_debounce
    MaxWait,          \* SmartDebouncer::max_wait
    Poll,             \* the sleep of the select! loop
    MaxEvents,        \* bound: how many events the operating system delivers
    AgeCap            \* bound: an age of AgeCap ticks stands for any longer one

ASSUME CapacityAssumption == ChannelCapacity \in Nat \ {0}
ASSUME TimingAssumption ==
    /\ BatchWindow \in Nat /\ BatchDebounce \in Nat /\ MaxWait \in Nat
    /\ Poll \in Nat \ {0}
    /\ MaxEvents \in Nat
    /\ AgeCap \in Nat \ {0}

Age == 0 .. AgeCap
NoTime == AgeCap + 1    \* Option<Instant>::None

VARIABLES
    events,      \* how many events there were so far
    newest,      \* newest[p]: the last change of p the channel accepted
    channel,     \* the mpsc channel from the callback to the loop
    pending,     \* SmartDebouncer::pending: the last change per path
    first,       \* how long ago first_event_time was, or NoTime
    last,        \* how long ago last_event_time was, or NoTime
    slept,       \* how long the current select! has been waiting
    phase,       \* "select", or "busy" while a batch is being handled
    seen         \* seen[p]: the last change of p handed over in a batch

debouncer == <<pending, first, last>>
loopVars == <<events, newest, channel, pending, first, last, slept, phase, seen>>

Change == [path : Path, number : 1 .. MaxEvents]

LoopTypeOK ==
    /\ events \in 0 .. MaxEvents
    /\ newest \in [Path -> 0 .. MaxEvents]
    /\ channel \in Seq(Change) /\ Len(channel) <= ChannelCapacity
    /\ pending \in [Path -> 0 .. MaxEvents]
    /\ first \in Age \cup {NoTime} /\ last \in Age \cup {NoTime}
    /\ slept \in 0 .. Poll
    /\ phase \in {"select", "busy"}
    /\ seen \in [Path -> 0 .. MaxEvents]

-----------------------------------------------------------------------------
(* The debouncer. *)

NothingPending == [p \in Path |-> 0]       \* 0: the map has no entry for p

Pending == {p \in Path : pending[p] # 0}

LoopInit ==
    /\ events = 0
    /\ newest = [p \in Path |-> 0]
    /\ channel = <<>>
    /\ pending = NothingPending /\ first = NoTime /\ last = NoTime
    /\ slept = 0
    /\ phase = "select"
    /\ seen = [p \in Path |-> 0]

(* Mutant: the change already pending for the path is kept. *)
MutAdd(change) ==
    /\ pending' = [pending EXCEPT ![change.path] = IF @ = 0 THEN change.number ELSE @]
    /\ first' = IF first = NoTime THEN 0 ELSE first
    /\ last' = 0

(* Mutant: one change stands for the whole batch. *)
MutAddShared(change) ==
    /\ pending' = [p \in Path |-> IF p \in Pending \cup {change.path} THEN change.number ELSE 0]
    /\ first' = IF first = NoTime THEN 0 ELSE first
    /\ last' = 0

(* add: the later change of a path replaces the earlier one. *)
Add(change) ==
    /\ pending' = [pending EXCEPT ![change.path] = change.number]
    /\ first' = IF first = NoTime THEN 0 ELSE first
    /\ last' = 0

(* Mutant: no max_wait. *)
MutIsReady ==
    /\ first # NoTime
    /\ IF Cardinality(Pending) <= 1 THEN first >= BatchWindow ELSE last >= BatchDebounce

(* is_ready: a lone path after the batch window, several once they are     *)
(* quiet or the first of them has waited long enough.                      *)
IsReady ==
    /\ first # NoTime
    /\ IF Cardinality(Pending) <= 1
       THEN first >= BatchWindow
       ELSE first >= MaxWait \/ (last # NoTime /\ last >= BatchDebounce)

Drain == pending' = NothingPending /\ first' = NoTime /\ last' = NoTime

-----------------------------------------------------------------------------
(* The notify callback runs on a thread of its own.  try_send drops the    *)
(* change when the channel is full, and nobody is told.                    *)

Notify(p) ==
    /\ events < MaxEvents
    /\ events' = events + 1
    /\ IF Len(channel) < ChannelCapacity
       THEN /\ channel' = Append(channel, [path |-> p, number |-> events + 1])
            /\ newest' = [newest EXCEPT ![p] = events + 1]
       ELSE UNCHANGED <<channel, newest>>
    /\ UNCHANGED <<debouncer, slept, phase, seen>>

-----------------------------------------------------------------------------
(* The select! loop.  Every iteration makes its sleep anew, so each change *)
(* received starts the wait for the next poll from the beginning.          *)

ReceiveChange ==
    /\ phase = "select"
    /\ channel # <<>>
    /\ Add(Head(channel))
    /\ channel' = Tail(channel)
    /\ slept' = 0
    /\ UNCHANGED <<events, newest, phase, seen>>

PollFires == phase = "select" /\ Pending # {} /\ slept = Poll

PollTooEarly ==
    /\ PollFires
    /\ ~IsReady
    /\ slept' = 0
    /\ UNCHANGED <<events, newest, channel, debouncer, phase, seen>>

Dispatch ==
    /\ PollFires
    /\ IsReady
    /\ Drain
    /\ seen' = [p \in Path |-> IF p \in Pending THEN pending[p] ELSE seen[p]]
    /\ phase' = "busy"
    /\ slept' = 0
    /\ UNCHANGED <<events, newest, channel>>

(* The batch has been handled; nothing is received in the meantime. *)
Finish ==
    /\ phase = "busy"
    /\ phase' = "select"
    /\ UNCHANGED <<events, newest, channel, debouncer, slept, seen>>

Older(age) == IF age = NoTime \/ age = AgeCap THEN age ELSE age + 1

(* Time passes while the loop waits for its sleep and has nothing to       *)
(* receive: a change in the channel or an elapsed sleep wakes it at once.  *)
Tick ==
    /\ phase = "select" /\ channel = <<>> /\ Pending # {} /\ slept < Poll
    /\ slept' = slept + 1
    /\ first' = Older(first) /\ last' = Older(last)
    /\ UNCHANGED <<events, newest, channel, pending, phase, seen>>

LoopNext ==
    \/ \E p \in Path : Notify(p)
    \/ ReceiveChange \/ PollTooEarly \/ Dispatch \/ Finish \/ Tick

(* The loop is a task of a fair runtime and its handlers return; the       *)
(* operating system owes no event.                                         *)
LoopSpec ==
    /\ LoopInit /\ [][LoopNext]_loopVars
    /\ WF_loopVars(ReceiveChange) /\ WF_loopVars(PollTooEarly) /\ WF_loopVars(Dispatch)
    /\ WF_loopVars(Finish) /\ WF_loopVars(Tick)

-----------------------------------------------------------------------------
(* The watcher is a change feed: it may merge changes of a file and drop   *)
(* those its full channel refuses, but every batch takes the consumer      *)
(* forward, and never to a change that was not accepted (try_send, the     *)
(* FIFO channel, the map's last-change-wins and drain, together).          *)
Feed == INSTANCE ChangeFeed WITH accepted <- newest, delivered <- seen
ImplementsFeed == Feed!FeedSpec

(* Each change the channel accepted is handed over, or a later one of the  *)
(* same file is (is_ready comes true, the loop polls it, drain empties).   *)
AcceptedIsDispatched ==
    \A p \in Path : \A n \in 1 .. MaxEvents :
        (newest[p] = n) ~> (seen[p] >= n)

(* Changes wait longer than the debouncer's limit and one poll only while  *)
(* new events keep arriving within the poll interval: what is left of      *)
(* max_wait when each event starts the sleep anew.                         *)
Limit == IF Cardinality(Pending) <= 1 THEN BatchWindow ELSE MaxWait

OverdueOnlyUnderFire ==
    (Pending # {} /\ first > Limit + Poll) => last <= Poll
=============================================================================
