----------------------------- MODULE WatchProofs -----------------------------
(***************************************************************************)
(* Proofs about what becomes of a saved file: WatchLoop, for every set of  *)
(* files, every channel capacity, every choice of timings and every number *)
(* of events, and HotReload, for every set of files, every choice of their *)
(* imports and of those the line scanner misses, every number of requests  *)
(* at once, of saves, told of or not, and of visits.                       *)
(***************************************************************************)
EXTENDS WatchLoop, HotReload, SequenceTheorems, TLAPS

-----------------------------------------------------------------------------
(***************************************************************************)
(* The watcher loop.                                                       *)
(***************************************************************************)
(* What is pending has an age. *)
Clocks == Pending # {} => first \in Age /\ last \in Age

(* A poll since the last event (last > slept) found the debouncer not      *)
(* ready: what was pending had not reached its limit when the present      *)
(* sleep began.                                                            *)
Polled == (Pending # {} /\ last > slept) => first < Limit + slept

(* Every change is behind those that follow it: seen, then pending, then   *)
(* the channel, in order of their numbers.                                 *)
InOrder ==
    /\ \A p \in Path : seen[p] <= newest[p] /\ newest[p] <= events
    /\ \A p \in Pending : seen[p] < pending[p] /\ pending[p] <= newest[p]
    /\ \A i \in 1 .. Len(channel) :
           LET c == channel[i]
           IN  /\ seen[c.path] < c.number /\ pending[c.path] < c.number
               /\ c.number <= newest[c.path]
    /\ \A i, j \in 1 .. Len(channel) : i < j => channel[i].number < channel[j].number

LoopIInv == LoopTypeOK /\ Clocks /\ Polled /\ InOrder

-----------------------------------------------------------------------------
LEMMA LoopInitIInv == LoopInit => LoopIInv
<1> SUFFICES ASSUME LoopInit PROVE LoopIInv
    OBVIOUS
<1> USE CapacityAssumption, TimingAssumption
<1>1. channel \in Seq(Change) /\ Len(channel) = 0
    BY DEF LoopInit
<1>2. Pending = {}
    BY DEF LoopInit, Pending, NothingPending
<1>3. LoopTypeOK
    BY <1>1 DEF LoopInit, LoopTypeOK, NothingPending, Age, NoTime
<1>4. InOrder
    BY <1>1, <1>2 DEF LoopInit, InOrder
<1> QED  BY <1>2, <1>3, <1>4 DEF LoopIInv, Clocks, Polled

(* The callback appends the largest number, or drops it. *)
LEMMA NotifyStep ==
    ASSUME LoopIInv, NEW p \in Path, Notify(p)
    PROVE  LoopIInv'
<1> USE CapacityAssumption, TimingAssumption
<1>0. LoopTypeOK /\ InOrder
    BY DEF LoopIInv
<1>1. CASE Len(channel) < ChannelCapacity
    <2> DEFINE c == [path |-> p, number |-> events + 1]
    <2>1. c \in Change /\ c.path = p /\ c.number = events + 1
        BY <1>0 DEF Notify, LoopTypeOK, Change
    <2> HIDE DEF c
    <2>2. channel' = Append(channel, c) /\ newest' = [newest EXCEPT ![p] = events + 1]
        BY <1>1 DEF Notify, c
    <2>3. /\ channel' \in Seq(Change) /\ Len(channel') = Len(channel) + 1
          /\ Len(channel) \in Nat
          /\ \A i \in 1 .. Len(channel) : channel'[i] = channel[i] /\ channel[i] \in Change
          /\ channel'[Len(channel) + 1] = c
        BY <1>0, <2>1, <2>2, AppendProperties, ElementOfSeq, LenProperties DEF LoopTypeOK
    <2>4. LoopTypeOK'
        BY <1>0, <1>1, <2>2, <2>3 DEF Notify, LoopTypeOK, debouncer
    <2>5. Pending' = Pending /\ \A q \in Path : newest'[q] >= newest[q]
        BY <1>0, <2>2 DEF Notify, LoopTypeOK, Pending, debouncer, InOrder
    <2>6. \A q \in Path : seen'[q] <= newest'[q] /\ newest'[q] <= events'
        BY <1>0, <2>2 DEF Notify, LoopTypeOK, InOrder
    <2>7. \A q \in Pending' : seen'[q] < pending'[q] /\ pending'[q] <= newest'[q]
        BY <1>0, <2>5, <2>4 DEF Notify, LoopTypeOK, InOrder, debouncer, Pending
    <2>8. \A i \in 1 .. Len(channel') :
              /\ seen'[channel'[i].path] < channel'[i].number
              /\ pending'[channel'[i].path] < channel'[i].number
              /\ channel'[i].number <= newest'[channel'[i].path]
        <3> SUFFICES ASSUME NEW i \in 1 .. Len(channel')
                     PROVE  /\ seen'[channel'[i].path] < channel'[i].number
                            /\ pending'[channel'[i].path] < channel'[i].number
                            /\ channel'[i].number <= newest'[channel'[i].path]
            OBVIOUS
        <3>1. CASE i \in 1 .. Len(channel)
            <4>1. channel'[i] = channel[i] /\ channel[i].path \in Path /\ channel[i].number \in Nat
                BY <2>3, <3>1 DEF Change
            <4>2. /\ seen[channel[i].path] < channel[i].number
                  /\ pending[channel[i].path] < channel[i].number
                  /\ channel[i].number <= newest[channel[i].path]
                BY <1>0, <3>1 DEF InOrder
            <4>3. pending' = pending /\ seen' = seen
                BY DEF Notify, debouncer
            <4>4. newest[channel[i].path] \in Nat /\ newest'[channel[i].path] \in Nat
                <5>1. newest \in [Path -> 0 .. MaxEvents] /\ newest' \in [Path -> 0 .. MaxEvents]
                    BY <1>0, <2>4 DEF LoopTypeOK
                <5> QED  BY <4>1, <5>1
            <4>5. newest'[channel[i].path] >= newest[channel[i].path]
                BY <2>5, <4>1
            <4> QED  BY <4>1, <4>2, <4>3, <4>4, <4>5
        <3>2. CASE i = Len(channel) + 1
            <4>1. pending[p] <= events /\ seen[p] <= events
                BY <1>0 DEF InOrder, LoopTypeOK, Pending
            <4> QED  BY <1>0, <2>1, <2>2, <2>3, <3>2, <4>1 DEF Notify, LoopTypeOK, debouncer
        <3> QED  BY <2>3, <3>1, <3>2
    <2>9. \A i, j \in 1 .. Len(channel') : i < j => channel'[i].number < channel'[j].number
        <3> SUFFICES ASSUME NEW i \in 1 .. Len(channel'), NEW j \in 1 .. Len(channel'), i < j
                     PROVE  channel'[i].number < channel'[j].number
            OBVIOUS
        <3>1. /\ i \in 1 .. Len(channel) /\ channel'[i] = channel[i]
              /\ channel[i].number \in Nat /\ channel[i].path \in Path
            BY <2>3 DEF Change
        <3>2. CASE j \in 1 .. Len(channel)
            BY <1>0, <2>3, <3>1, <3>2 DEF InOrder
        <3>3. CASE j = Len(channel) + 1
            <4>1. channel[i].number <= newest[channel[i].path]
                BY <1>0, <3>1 DEF InOrder
            <4>2. newest[channel[i].path] <= events
                BY <1>0, <3>1 DEF InOrder
            <4>3. newest[channel[i].path] \in Nat /\ events \in Nat
                BY <1>0, <3>1 DEF LoopTypeOK
            <4> QED  BY <2>1, <2>3, <3>1, <3>3, <4>1, <4>2, <4>3
        <3> QED  BY <2>3, <3>2, <3>3
    <2>10. (Clocks /\ Polled)'
        BY <2>5 DEF LoopIInv, Clocks, Polled, Limit, Notify, debouncer
    <2> QED  BY <2>4, <2>6, <2>7, <2>8, <2>9, <2>10 DEF LoopIInv, InOrder
<1>2. CASE ~ (Len(channel) < ChannelCapacity)
    <2>1. UNCHANGED <<newest, channel, pending, first, last, slept, phase, seen>>
        BY <1>2 DEF Notify, debouncer
    <2>2. events' = events + 1 /\ events' \in 0 .. MaxEvents
        BY <1>0 DEF Notify, LoopTypeOK
    <2>3. LoopTypeOK'
        BY <1>0, <2>1, <2>2 DEF LoopTypeOK
    <2>4. InOrder'
        BY <1>0, <2>1, <2>2 DEF InOrder, LoopTypeOK, Pending
    <2> QED  BY <2>1, <2>3, <2>4 DEF LoopIInv, Clocks, Polled, Limit, Pending
<1> QED  BY <1>1, <1>2

(* The loop takes the head of the channel, a number above all it holds. *)
LEMMA ReceiveChangeStep ==
    ASSUME LoopIInv, ReceiveChange
    PROVE  LoopIInv'
<1> USE CapacityAssumption, TimingAssumption
<1> DEFINE c == Head(channel)
<1>0. LoopTypeOK /\ InOrder
    BY DEF LoopIInv
<1>1. /\ Len(channel) \in Nat /\ Len(channel) >= 1
      /\ c = channel[1] /\ c \in Change
      /\ \A i \in 1 .. Len(channel) : channel[i] \in Change
    BY <1>0, EmptySeq, ElementOfSeq, LenProperties DEF ReceiveChange, LoopTypeOK
<1>2. /\ channel' \in Seq(Change) /\ Len(channel') = Len(channel) - 1
      /\ \A i \in 1 .. Len(channel') : channel'[i] = channel[i + 1]
    BY <1>0, HeadTailProperties DEF ReceiveChange, LoopTypeOK
<1>3. c.path \in Path /\ c.number \in 1 .. MaxEvents
    BY <1>1 DEF Change
<1> HIDE DEF c
<1>4. /\ pending' = [pending EXCEPT ![c.path] = c.number]
      /\ first' = (IF first = NoTime THEN 0 ELSE first) /\ last' = 0 /\ slept' = 0
      /\ UNCHANGED <<events, newest, phase, seen>>
    BY DEF ReceiveChange, Add, c
<1>5. first' \in Age
    BY <1>0, <1>4 DEF LoopTypeOK, Age
<1>6. LoopTypeOK'
    <2>1. pending' \in [Path -> 0 .. MaxEvents]
        BY <1>0, <1>3, <1>4 DEF LoopTypeOK
    <2>2. Len(channel') <= ChannelCapacity
        BY <1>0, <1>1, <1>2 DEF LoopTypeOK
    <2>3. last' \in Age /\ slept' \in 0 .. Poll
        BY <1>4 DEF Age
    <2> QED  BY <1>0, <1>2, <1>4, <1>5, <2>1, <2>2, <2>3 DEF LoopTypeOK
<1>7. Clocks' /\ Polled'
    BY <1>4, <1>5 DEF Clocks, Polled, Age
<1>8. InOrder'
    <2>1. /\ seen[c.path] < c.number /\ pending[c.path] < c.number
          /\ c.number <= newest[c.path]
        BY <1>0, <1>1 DEF InOrder
    <2>2. \A p \in Pending' : seen'[p] < pending'[p] /\ pending'[p] <= newest'[p]
        BY <1>0, <1>3, <1>4, <2>1 DEF InOrder, Pending, LoopTypeOK
    <2>3. \A i \in 1 .. Len(channel') :
              /\ seen'[channel'[i].path] < channel'[i].number
              /\ pending'[channel'[i].path] < channel'[i].number
              /\ channel'[i].number <= newest'[channel'[i].path]
        <3> SUFFICES ASSUME NEW i \in 1 .. Len(channel')
                     PROVE  /\ seen'[channel'[i].path] < channel'[i].number
                            /\ pending'[channel'[i].path] < channel'[i].number
                            /\ channel'[i].number <= newest'[channel'[i].path]
            OBVIOUS
        <3>1. i + 1 \in 1 .. Len(channel) /\ channel'[i] = channel[i + 1] /\ 1 < i + 1
            BY <1>1, <1>2
        <3>2. /\ seen[channel[i + 1].path] < channel[i + 1].number
              /\ pending[channel[i + 1].path] < channel[i + 1].number
              /\ channel[i + 1].number <= newest[channel[i + 1].path]
            BY <1>0, <3>1 DEF InOrder
        <3>3. c.number < channel[i + 1].number
            BY <1>0, <1>1, <3>1 DEF InOrder
        <3>4. channel[i + 1].path \in Path
            BY <1>1, <3>1 DEF Change
        <3>5. pending'[channel[i + 1].path] < channel[i + 1].number
            BY <1>0, <1>3, <1>4, <3>2, <3>3, <3>4 DEF LoopTypeOK
        <3> QED  BY <1>4, <3>1, <3>2, <3>5
    <2>4. \A i, j \in 1 .. Len(channel') : i < j => channel'[i].number < channel'[j].number
        <3> SUFFICES ASSUME NEW i \in 1 .. Len(channel'), NEW j \in 1 .. Len(channel'), i < j
                     PROVE  channel'[i].number < channel'[j].number
            OBVIOUS
        <3>1. /\ i + 1 \in 1 .. Len(channel) /\ j + 1 \in 1 .. Len(channel) /\ i + 1 < j + 1
              /\ channel'[i] = channel[i + 1] /\ channel'[j] = channel[j + 1]
            BY <1>1, <1>2
        <3> QED  BY <1>0, <3>1 DEF InOrder
    <2> QED  BY <1>0, <1>4, <2>2, <2>3, <2>4 DEF InOrder
<1> QED  BY <1>6, <1>7, <1>8 DEF LoopIInv

(* The poll that finds nothing ready bounds the age of what is pending. *)
LEMMA PollTooEarlyStep ==
    ASSUME LoopIInv, PollTooEarly
    PROVE  LoopIInv'
<1> USE CapacityAssumption, TimingAssumption
<1>1. /\ slept' = 0 /\ first' = first /\ last' = last
      /\ UNCHANGED <<events, newest, channel, pending, phase, seen>>
    BY DEF PollTooEarly, debouncer
<1>2. LoopTypeOK'
    BY <1>1 DEF LoopIInv, LoopTypeOK
<1>3. Pending # {} /\ first \in Age /\ last \in Age /\ first # NoTime /\ last # NoTime
    BY DEF PollTooEarly, PollFires, LoopIInv, Clocks, Age, NoTime
<1>4. first < Limit
    BY <1>3 DEF PollTooEarly, IsReady, Limit, Age
<1>5. Clocks' /\ Polled'
    <2>1. Pending' = Pending /\ Limit' = Limit
        BY <1>1 DEF Limit, Pending
    <2>2. Limit \in Nat /\ first \in Nat
        BY <1>3 DEF Limit, Age
    <2>3. first' < Limit' + slept'
        BY <1>1, <1>4, <2>1, <2>2
    <2> QED  BY <1>1, <1>3, <2>3 DEF Clocks, Polled
<1>6. InOrder'
    BY <1>1 DEF LoopIInv, InOrder, Pending
<1> QED  BY <1>2, <1>5, <1>6 DEF LoopIInv

(* A batch hands over what is pending, which is ahead of what was seen. *)
LEMMA DispatchStep ==
    ASSUME LoopIInv, Dispatch
    PROVE  LoopIInv'
<1> USE CapacityAssumption, TimingAssumption
<1>0. LoopTypeOK /\ InOrder
    BY DEF LoopIInv
<1>1. /\ pending' = [p \in Path |-> 0] /\ first' = NoTime /\ last' = NoTime /\ slept' = 0
      /\ seen' = [p \in Path |-> IF p \in Pending THEN pending[p] ELSE seen[p]]
      /\ phase' = "busy" /\ UNCHANGED <<events, newest, channel>>
    BY DEF Dispatch, Drain, NothingPending
<1>2. Pending' = {}
    BY <1>1 DEF Pending
<1>3. LoopTypeOK'
    BY <1>0, <1>1 DEF LoopTypeOK
<1>4. \A p \in Path : seen'[p] <= newest'[p] /\ newest'[p] <= events'
    BY <1>0, <1>1 DEF InOrder
<1>5. \A i \in 1 .. Len(channel') :
          /\ seen'[channel'[i].path] < channel'[i].number
          /\ pending'[channel'[i].path] < channel'[i].number
          /\ channel'[i].number <= newest'[channel'[i].path]
    <2> SUFFICES ASSUME NEW i \in 1 .. Len(channel)
                 PROVE  /\ seen'[channel[i].path] < channel[i].number
                        /\ pending'[channel[i].path] < channel[i].number
                        /\ channel[i].number <= newest[channel[i].path]
        BY <1>1
    <2>1. channel[i].path \in Path /\ channel[i].number \in 1 .. MaxEvents
        <3>1. channel \in Seq(Change) /\ i \in 1 .. Len(channel)
            BY <1>0 DEF LoopTypeOK
        <3>2. channel[i] \in Change
            BY <3>1, ElementOfSeq
        <3> QED  BY <3>2 DEF Change
    <2>2. /\ seen[channel[i].path] < channel[i].number
          /\ pending[channel[i].path] < channel[i].number
          /\ channel[i].number <= newest[channel[i].path]
        BY <1>0 DEF InOrder
    <2> QED  BY <1>1, <2>1, <2>2
<1>6. InOrder'
    BY <1>0, <1>1, <1>2, <1>4, <1>5 DEF InOrder
<1> QED  BY <1>2, <1>3, <1>6 DEF LoopIInv, Clocks, Polled

LEMMA FinishStep ==
    ASSUME LoopIInv, Finish
    PROVE  LoopIInv'
<1>1. UNCHANGED <<events, newest, channel, pending, first, last, slept, seen>> /\ phase' = "select"
    BY DEF Finish, debouncer
<1>2. LoopTypeOK'
    BY <1>1 DEF LoopIInv, LoopTypeOK
<1> QED  BY <1>1, <1>2 DEF LoopIInv, Clocks, Polled, Limit, InOrder, Pending

(* A tick ages what is pending by no more than it lengthens the sleep. *)
LEMMA TickStep ==
    ASSUME LoopIInv, Tick
    PROVE  LoopIInv'
<1> USE CapacityAssumption, TimingAssumption
<1>1. /\ slept' = slept + 1 /\ first' = Older(first) /\ last' = Older(last)
      /\ UNCHANGED <<events, newest, channel, pending, phase, seen>>
      /\ Pending # {} /\ slept < Poll
    BY DEF Tick
<1>2. first \in Age /\ last \in Age /\ slept \in 0 .. Poll
    BY <1>1 DEF LoopIInv, LoopTypeOK, Clocks
<1>3. /\ first' \in Age /\ first' <= first + 1
      /\ last' \in Age /\ last' <= last + 1
    BY <1>1, <1>2 DEF Older, Age
<1>4. LoopTypeOK'
    BY <1>1, <1>2, <1>3 DEF LoopIInv, LoopTypeOK
<1>5. Limit' = Limit /\ Limit \in Nat
    BY <1>1 DEF Limit, Pending
<1>6. Clocks' /\ Polled'
    <2>1. last' > slept' => last > slept
        BY <1>1, <1>2, <1>3 DEF Age
    <2>2. last > slept => first < Limit + slept
        BY <1>1 DEF LoopIInv, Polled
    <2> QED  BY <1>1, <1>2, <1>3, <1>5, <2>1, <2>2 DEF Clocks, Polled, Age
<1>7. InOrder'
    BY <1>1 DEF LoopIInv, InOrder, Pending
<1> QED  BY <1>4, <1>6, <1>7 DEF LoopIInv

LEMMA LoopNextIInv == LoopIInv /\ [LoopNext]_loopVars => LoopIInv'
<1> SUFFICES ASSUME LoopIInv, [LoopNext]_loopVars PROVE LoopIInv'
    OBVIOUS
<1>1. CASE \E p \in Path : Notify(p)
    BY <1>1, NotifyStep
<1>2. CASE ReceiveChange
    BY <1>2, ReceiveChangeStep
<1>3. CASE PollTooEarly
    BY <1>3, PollTooEarlyStep
<1>4. CASE Dispatch
    BY <1>4, DispatchStep
<1>5. CASE Finish
    BY <1>5, FinishStep
<1>6. CASE Tick
    BY <1>6, TickStep
<1>7. CASE UNCHANGED loopVars
    BY <1>7 DEF LoopIInv, LoopTypeOK, Clocks, Polled, Limit, InOrder, Pending, loopVars, debouncer
<1> QED  BY <1>1, <1>2, <1>3, <1>4, <1>5, <1>6, <1>7 DEF LoopNext

THEOREM LoopInductive == LoopSpec => []LoopIInv
BY LoopInitIInv, LoopNextIInv, PTL DEF LoopSpec
-----------------------------------------------------------------------------
(* The channel respects its capacity and every variable its type. *)
THEOREM LoopTypeCorrect == LoopSpec => []LoopTypeOK
<1>1. LoopIInv => LoopTypeOK
    BY DEF LoopIInv
<1> QED  BY <1>1, LoopInductive, PTL

(* Nothing waits beyond the debouncer's limit and one poll unless an event *)
(* came within the poll interval (is_ready, the sleep of the select loop). *)
THEOREM DelayBounded == LoopSpec => []OverdueOnlyUnderFire
<1>1. LoopIInv => OverdueOnlyUnderFire
    <2> SUFFICES ASSUME LoopIInv, Pending # {}, first > Limit + Poll PROVE last <= Poll
        BY DEF OverdueOnlyUnderFire
    <2>1. /\ first \in Age /\ last \in Age /\ slept \in 0 .. Poll
          /\ last > slept => first < Limit + slept
        BY DEF LoopIInv, LoopTypeOK, Clocks, Polled
    <2>2. Limit \in Nat
        BY TimingAssumption DEF Limit
    <2> QED  BY <2>1, <2>2, TimingAssumption DEF Age
<1> QED  BY <1>1, LoopInductive, PTL

(* The loop implements the change feed. *)
LEMMA StepImplementsFeed ==
    ASSUME LoopIInv, [LoopNext]_loopVars
    PROVE  [Feed!FeedNext]_Feed!feedVars
<1> USE CapacityAssumption, TimingAssumption
<1>0. LoopTypeOK /\ InOrder
    BY DEF LoopIInv
<1>1. ASSUME NEW p \in Path, Notify(p), Len(channel) < ChannelCapacity
      PROVE  Feed!FeedNext
    <2>1. newest' = [newest EXCEPT ![p] = events + 1] /\ seen' = seen
        BY <1>1 DEF Notify
    <2>2. newest'[p] > newest[p]
        BY <1>0, <2>1 DEF LoopTypeOK, InOrder
    <2>3. Feed!Accept(p)
        BY <1>0, <2>1, <2>2 DEF Feed!Accept, LoopTypeOK
    <2> QED  BY <2>3 DEF Feed!FeedNext
<1>2. ASSUME NEW p \in Path, Notify(p), ~ (Len(channel) < ChannelCapacity)
      PROVE  UNCHANGED Feed!feedVars
    BY <1>2 DEF Notify, Feed!feedVars
<1>3. CASE Dispatch
    <2>1. /\ seen' = [p \in Path |-> IF p \in Pending THEN pending[p] ELSE seen[p]]
          /\ newest' = newest
        BY <1>3 DEF Dispatch
    <2>2. Feed!Deliver(Pending) /\ Pending \in SUBSET Path
        BY <1>0, <2>1 DEF Feed!Deliver, InOrder, Pending, LoopTypeOK
    <2> QED  BY <2>2 DEF Feed!FeedNext
<1>4. CASE ReceiveChange \/ PollTooEarly \/ Finish \/ Tick \/ UNCHANGED loopVars
    BY <1>4 DEF ReceiveChange, PollTooEarly, Finish, Tick, loopVars, Feed!feedVars
<1> QED  BY <1>1, <1>2, <1>3, <1>4 DEF LoopNext

THEOREM FeedImplemented == LoopSpec => ImplementsFeed
<1>1. LoopInit => Feed!FeedInit
    BY DEF LoopInit, Feed!FeedInit
<1> QED  BY <1>1, LoopInductive, StepImplementsFeed, PTL DEF LoopSpec, ImplementsFeed, Feed!FeedSpec

-----------------------------------------------------------------------------
(***************************************************************************)
(* Hot reload.                                                             *)
(***************************************************************************)
(* The module graph. *)

(* Replacing a module's dependencies keeps the edges' two directions in    *)
(* agreement (update_module). *)
LEMMA UpdateKeepsMirror ==
    ASSUME NEW g \in Graphs, NEW path \in Key, NEW new \in SUBSET Key, Mirrored(g)
    PROVE  UpdateModule(g, path, new) \in Graphs /\ Mirrored(UpdateModule(g, path, new))
<1> DEFINE h == UpdateModule(g, path, new)
<1>1. /\ h.dependencies = [g.dependencies EXCEPT ![path] = new]
      /\ h.dependents = [k \in Key |->
             IF k \in new THEN g.dependents[k] \cup {path}
             ELSE IF k \in g.dependencies[path] THEN g.dependents[k] \ {path}
             ELSE g.dependents[k]]
    BY DEF UpdateModule
<1>2. h \in Graphs
    BY DEF UpdateModule, Graphs
<1>3. \A k, l \in Key : l \in g.dependencies[k] <=> k \in g.dependents[l]
    BY DEF Mirrored
<1>4. \A k, l \in Key : l \in h.dependencies[k] <=> k \in h.dependents[l]
    <2> SUFFICES ASSUME NEW k \in Key, NEW l \in Key
                 PROVE  l \in h.dependencies[k] <=> k \in h.dependents[l]
        OBVIOUS
    <2>1. g.dependencies \in [Key -> SUBSET Key]
        BY DEF Graphs
    <2> HIDE DEF h
    <2>2. CASE k = path
        BY <1>1, <1>3, <2>1, <2>2
    <2>3. CASE k # path
        BY <1>1, <1>3, <2>1, <2>3
    <2> QED  BY <2>2, <2>3
<1> QED  BY <1>2, <1>4 DEF Mirrored
-----------------------------------------------------------------------------
(* The cache. *)

(* No entry is dated after its file, nor as its file if that is gone.      *)
Behind ==
    /\ \A m \in Module : disk[m].version <= saves + 1
    /\ \A m \in Module : cache[m].mtime <= disk[m].version
    /\ \A m \in Module : disk[m].text = "gone" => cache[m].mtime # disk[m].version

(* A request that holds an older text is on a file the watcher will finish *)
(* with, or was overtaken on.                                              *)
Old(r, m) ==
    request[r] # None /\ request[r].file = m /\ request[r].version # disk[m].version

(* The watcher has yet to finish with m, or was not told of its change, or *)
(* overtook a request on it.                                               *)
Unsettled(m) == InHand(m) \/ ~ Undisturbed(m)

OldResultsAreKnown ==
    \A r \in Request, m \in Module : Old(r, m) => Unsettled(m)

StaleAreUnsettled == \A m \in Module : Stale(m) => Unsettled(m)

IInv == TypeOK /\ Behind /\ OldResultsAreKnown /\ StaleAreUnsettled /\ GraphMirrored

LEMMA EntryType ==
    ASSUME TypeOK, NEW m \in Module
    PROVE  /\ cache[m].mtime \in Version \cup {0}
           /\ cache[m] # NoEntry => cache[m].code \in Version
           /\ disk[m].version \in Version /\ disk[m].text \in Text /\ disk[m].imports \in SUBSET Module
<1>1. cache[m] \in CachedModule \/ cache[m] = NoEntry
    BY DEF TypeOK
<1>2. disk[m] \in File
    BY DEF TypeOK
<1> QED  BY <1>1, <1>2 DEF CachedModule, NoEntry, File

(* A scan changes what is held of a file's imports only. *)
LEMMA ScanResult ==
    ASSUME TypeOK, NEW result \in Result
    PROVE  /\ Scanned(result) \in Result
           /\ Scanned(result).file = result.file /\ Scanned(result).version = result.version
           /\ Scanned(result).text = result.text /\ Scanned(result).next = "update"
<1> DEFINE m == result.file
<1>1. m \in Module
    BY DEF Result
<1>2. Scan(m) \in SUBSET Key /\ disk[m].version \in Version
    <2>1. disk[m].imports \in SUBSET Module /\ disk[m].version \in Version
        BY <1>1, EntryType
    <2> QED  BY <2>1 DEF Key, Scan
<1> QED  BY <1>1, <1>2 DEF Scanned, Result

LEMMA StoreResult ==
    ASSUME NEW result \in Result
    PROVE  /\ Stored(result) \in Result
           /\ Stored(result).file = result.file /\ Stored(result).version = result.version
           /\ Stored(result).text = result.text /\ Stored(result).next = "scan"
           /\ Stored(result).scanned = result.scanned /\ Stored(result).links = result.links
BY DEF Stored, Result

LEMMA GraphStep ==
    ASSUME TypeOK, Mirrored(graph), NEW result \in Result, UpdateGraph(result)
    PROVE  graph' \in Graphs /\ Mirrored(graph')
<1>1. result.file \in Key /\ graph \in Graphs /\ result.links \in SUBSET Key
    BY DEF Key, TypeOK, Result
<1>2. CASE result.scanned = 0
    BY <1>1, <1>2 DEF UpdateGraph
<1>3. CASE result.scanned # 0
    BY <1>1, <1>3, UpdateKeepsMirror DEF UpdateGraph
<1> QED  BY <1>2, <1>3

(* What a compilation returns is the file's text unless the entry is stale. *)
LEMMA CompileResult ==
    ASSUME TypeOK, NEW m \in Module, disk[m].text # "gone"
    PROVE  /\ Compile(m) \in Result /\ Compile(m).file = m /\ Compile(m).scanned = 0
           /\ Compile(m).version # disk[m].version => Stale(m)
<1>1. disk[m].text \in {"good", "broken"} /\ disk[m].version \in Version
    BY EntryType DEF Text
<1>2. CASE cache[m] # NoEntry /\ cache[m].mtime = disk[m].version
    BY <1>2, EntryType DEF Compile, Result, Stale
<1>3. CASE ~ (cache[m] # NoEntry /\ cache[m].mtime = disk[m].version)
    BY <1>1, <1>3 DEF Compile, Result
<1> QED  BY <1>2, <1>3

(* An insertion makes an entry stale only if its result was old.           *)
LEMMA InsertStep ==
    ASSUME TypeOK, Behind, NEW result \in Result, Insert(result), UNCHANGED files
    PROVE  /\ cache' \in [Module -> CachedModule \cup {NoEntry}]
           /\ Behind'
           /\ \A m \in Module : Stale(m)' =>
                  \/ Stale(m)
                  \/ m = result.file /\ result.version # disk[m].version
<1> DEFINE f == result.file
           entry == [code |-> result.version, mtime |-> Mtime(result.file)]
<1>1. f \in Module /\ result.version \in Version
    BY DEF Result
<1>2. entry \in CachedModule /\ entry.mtime <= disk[f].version
          /\ (disk[f].text = "gone" => entry.mtime # disk[f].version)
    BY <1>1, EntryType, BoundsAssumption DEF CachedModule, Mtime, Version
<1>3. disk' = disk /\ saves' = saves
    BY DEF files
<1> HIDE DEF f
<1>4. cache' = [cache EXCEPT ![f] = entry]
    BY DEF Insert, f
<1>5. entry.code = result.version
    OBVIOUS
<1> HIDE DEF entry
<1>6. cache \in [Module -> CachedModule \cup {NoEntry}]
    BY DEF TypeOK
<1>7. cache'[f] = entry /\ \A m \in Module : m # f => cache'[m] = cache[m]
    BY <1>1, <1>4, <1>6
<1>8. cache' \in [Module -> CachedModule \cup {NoEntry}]
    BY <1>1, <1>2, <1>4, <1>6
<1>9. Behind'
    BY <1>1, <1>2, <1>3, <1>7 DEF Behind
<1>10. ASSUME NEW m \in Module, Stale(m)'
       PROVE  Stale(m) \/ (m = f /\ result.version # disk[m].version)
    BY <1>3, <1>5, <1>7, <1>10 DEF Stale
<1> QED  BY <1>8, <1>9, <1>10 DEF f
-----------------------------------------------------------------------------
LEMMA InitIInv == Init => IInv
<1> SUFFICES ASSUME Init PROVE IInv
    OBVIOUS
<1>1. \A m \in Module : disk[m] \in File /\ disk[m].version = 1 /\ disk[m].text = "good"
    BY DEF Init
<1>2. cache = [m \in Module |-> NoEntry] /\ saves = 0 /\ request = [r \in Request |-> None]
    BY DEF Init
<1>3. graph \in Graphs /\ Mirrored(graph)
    BY DEF Init, NewGraph, NoEdges, Graphs, Mirrored
<1>4. TypeOK
    BY <1>1, <1>2, <1>3, BoundsAssumption, RingAssumption DEF Init, TypeOK, HubOK
<1>5. Behind
    BY <1>1, <1>2 DEF Behind, NoEntry
<1>6. OldResultsAreKnown
    BY <1>2 DEF OldResultsAreKnown, Old
<1>7. StaleAreUnsettled
    BY <1>2 DEF StaleAreUnsettled, Stale
<1> QED  BY <1>3, <1>4, <1>5, <1>6, <1>7 DEF IInv, GraphMirrored

(* A save dates the file after every entry, and puts it in hand unless the *)
(* watcher does not hear of it.                                            *)
LEMMA SaveStep ==
    ASSUME IInv, HubOK', NEW m \in Module, Save(m)
    PROVE  IInv'
<1>0. TypeOK /\ Behind
    BY DEF IInv
<1>1. PICK text \in Text, imports \in Imports[m] \cup {{}} :
          disk' = [disk EXCEPT ![m] =
              [version |-> disk[m].version + 1, text |-> text, imports |-> imports]]
    BY DEF Save
<1>2. /\ saves < MaxSaves /\ saves' = saves + 1
      /\ \/ dirty' = dirty \cup {m} /\ unheard' = unheard \ {m}
         \/ dirty' = dirty /\ unheard' = unheard /\ m \in dirty \cup batch
         \/ dirty' = dirty /\ unheard' = unheard \cup {m}
      /\ UNCHANGED <<watching, batch, compiled, request, outrun, overtaken, cache, graph, errors,
                     tasks, served, refetch, visits>>
      /\ reborn' \in {reborn, reborn \cup {m}}
    BY DEF Save, watcher, server, page, history
<1>3. disk[m].version \in Version /\ disk[m].version <= saves + 1 /\ saves \in 0 .. MaxSaves
    BY <1>0, EntryType DEF TypeOK, Behind
<1>4. disk'[m].version = disk[m].version + 1 /\ \A n \in Module : n # m => disk'[n] = disk[n]
    BY <1>0, <1>1 DEF TypeOK
<1>5. [version |-> disk[m].version + 1, text |-> text, imports |-> imports] \in File
    <2>1. disk[m].version + 1 \in Version
        BY <1>2, <1>3, BoundsAssumption DEF Version
    <2>2. imports \in SUBSET Module
        BY ImportsAssumption
    <2> QED  BY <2>1, <2>2 DEF File
<1>6. disk' \in [Module -> File]
    BY <1>0, <1>1, <1>5 DEF TypeOK
<1>7. TypeOK'
    <2>1. saves' \in 0 .. MaxSaves
        BY <1>2, <1>3, BoundsAssumption
    <2>2. dirty' \subseteq Module /\ reborn' \subseteq Module /\ unheard' \subseteq Module
        BY <1>0, <1>2 DEF TypeOK
    <2> QED  BY <1>0, <1>2, <1>6, <2>1, <2>2 DEF TypeOK
<1>8. \A n \in Module : cache'[n].mtime <= disk[n].version /\ disk[n].version \in Nat /\ cache[n].mtime \in Nat
    BY <1>0, <1>2, EntryType, BoundsAssumption DEF Behind, Version
<1>9. Behind'
    <2>1. \A n \in Module : disk'[n].version <= saves' + 1
        BY <1>0, <1>2, <1>3, <1>4, <1>8 DEF Behind, Version
    <2>2. \A n \in Module : cache'[n].mtime <= disk'[n].version
        BY <1>2, <1>4, <1>8
    <2>3. \A n \in Module : disk'[n].text = "gone" => cache'[n].mtime # disk'[n].version
        BY <1>0, <1>2, <1>4, <1>8 DEF Behind
    <2> QED  BY <2>1, <2>2, <2>3 DEF Behind
<1>10. \A n \in Module : n # m => (Stale(n)' => Stale(n)) /\ (Unsettled(n) => Unsettled(n)')
    BY <1>2, <1>4 DEF Stale, Unsettled, InHand, Undisturbed
<1>11. Unsettled(m)'
    BY <1>2 DEF Unsettled, InHand, Undisturbed
<1>12. OldResultsAreKnown'
    <2> SUFFICES ASSUME NEW r \in Request, NEW n \in Module, Old(r, n)'
                 PROVE  Unsettled(n)'
        BY DEF OldResultsAreKnown
    <2>1. CASE n = m
        BY <1>11, <2>1
    <2>2. CASE n # m
        BY <1>2, <1>4, <1>10, <2>2 DEF IInv, OldResultsAreKnown, Old
    <2> QED  BY <2>1, <2>2
<1>13. StaleAreUnsettled'
    BY <1>2, <1>10, <1>11 DEF IInv, StaleAreUnsettled
<1> QED  BY <1>2, <1>7, <1>9, <1>12, <1>13 DEF IInv, GraphMirrored

(* A step that leaves the files and the cache alone, settles no file and   *)
(* begins no request.                                                      *)
LEMMA QuietStep ==
    ASSUME IInv, TypeOK', UNCHANGED <<disk, saves, cache>>, GraphMirrored',
           \A m \in Module : Unsettled(m) => Unsettled(m)',
           \A r \in Request, m \in Module : Old(r, m)' => Old(r, m)
    PROVE  IInv'
<1>1. Behind' /\ \A m \in Module : Stale(m)' => Stale(m)
    BY DEF IInv, Behind, Stale
<1> QED  BY <1>1 DEF IInv, OldResultsAreKnown, StaleAreUnsettled

LEMMA TakeBatchStep ==
    ASSUME IInv, HubOK', TakeBatch
    PROVE  IInv'
<1>1. /\ UNCHANGED <<disk, saves, reborn, unheard, watching, compiled, request, outrun, overtaken,
                     cache, graph, errors, tasks, served, refetch, visits>>
      /\ batch' \subseteq dirty /\ dirty' = dirty \ batch' /\ batch = {}
    BY DEF TakeBatch, files, server, page, history
<1>2. TypeOK'
    BY <1>1 DEF IInv, TypeOK
<1>3. \A m \in Module : Unsettled(m) => Unsettled(m)'
    BY <1>1 DEF Unsettled, InHand, Undisturbed
<1>4. \A r \in Request, m \in Module : Old(r, m)' => Old(r, m)
    BY <1>1 DEF Old
<1>5. GraphMirrored'
    BY <1>1 DEF IInv, GraphMirrored
<1> QED  BY <1>1, <1>2, <1>3, <1>4, <1>5, QuietStep

(* What Note leaves out of `overtaken' has no old result.                  *)
LEMMA NoteStep ==
    ASSUME TypeOK, NEW m \in Module, Note(m)
    PROVE  /\ overtaken' \subseteq Module
           /\ \A n \in Module : n # m /\ n \in overtaken => n \in overtaken'
           /\ \A r \in Request : Old(r, m) => m \in overtaken'
BY DEF TypeOK, Note, Straggling, Old

(* A file taken from the batch is in hand until it is evicted; one that is *)
(* gone has no entry that passes for current.                              *)
LEMMA WatchCompileStep ==
    ASSUME IInv, HubOK', NEW m \in Module, WatchCompile(m)
    PROVE  IInv'
<1>0. TypeOK /\ Behind
    BY DEF IInv
<1>1. /\ UNCHANGED <<disk, saves, reborn, unheard, dirty, request, outrun, cache, graph, tasks,
                     served, refetch, visits>>
      /\ watching = "idle" /\ m \in batch /\ batch' = batch \ {m}
    BY DEF WatchCompile, files, page
<1>2. /\ Behind' /\ GraphMirrored'
      /\ \A n \in Module : Stale(n)' => Stale(n)
      /\ \A r \in Request, n \in Module : Old(r, n)' => Old(r, n)
    BY <1>0, <1>1 DEF IInv, Behind, GraphMirrored, Stale, Old
<1>3. CASE disk[m].text = "gone"
    <2>1. /\ errors' = errors \cup {m} /\ Note(m) /\ UNCHANGED <<watching, compiled>>
        BY <1>3 DEF WatchCompile
    <2>2. TypeOK'
        BY <1>0, <1>1, <2>1, NoteStep DEF TypeOK
    <2>3. ~ Stale(m)
        BY <1>0, <1>3 DEF Behind, Stale
    <2>4. \A n \in Module : n # m => (Unsettled(n) => Unsettled(n)')
        BY <1>0, <1>1, <2>1, NoteStep DEF Unsettled, InHand, Undisturbed
    <2>5. \A r \in Request : Old(r, m) => Unsettled(m)'
        BY <1>0, <2>1, NoteStep DEF Unsettled, Undisturbed
    <2>6. OldResultsAreKnown' /\ StaleAreUnsettled'
        BY <1>2, <2>3, <2>4, <2>5 DEF IInv, OldResultsAreKnown, StaleAreUnsettled
    <2> QED  BY <1>2, <2>2, <2>6 DEF IInv
<1>4. CASE disk[m].text # "gone"
    <2>1. /\ errors' = errors \ {m} /\ watching' = "compiled" /\ compiled' = Compile(m)
          /\ UNCHANGED overtaken
        BY <1>4 DEF WatchCompile
    <2>2. Compile(m) \in Result /\ Compile(m).file = m
        BY <1>0, <1>4, CompileResult
    <2>3. TypeOK'
        BY <1>0, <1>1, <2>1, <2>2 DEF TypeOK
    <2>4. \A n \in Module : Unsettled(n) => Unsettled(n)'
        BY <1>1, <2>1, <2>2 DEF Unsettled, InHand, Undisturbed
    <2> QED  BY <1>1, <1>2, <2>3, <2>4, QuietStep
<1> QED  BY <1>3, <1>4

(* What the watcher stores is on the file it has in hand.                  *)
LEMMA WatchStoreStep ==
    ASSUME IInv, HubOK', WatchStore
    PROVE  IInv'
<1>0. TypeOK /\ Behind
    BY DEF IInv
<1>1. /\ watching = "compiled" /\ Insert(compiled) /\ compiled' = Stored(compiled)
      /\ UNCHANGED files
      /\ UNCHANGED <<disk, saves, reborn, unheard, dirty, watching, batch, request, outrun, overtaken,
                     graph, errors, tasks, served, refetch, visits>>
    BY DEF WatchStore, files, page, history
<1>2. compiled \in Result /\ compiled.file \in Module
    BY <1>0, <1>1 DEF TypeOK, Result
<1>3. compiled' \in Result /\ compiled'.file = compiled.file
    BY <1>1, <1>2, StoreResult
<1>4. /\ cache' \in [Module -> CachedModule \cup {NoEntry}] /\ Behind'
      /\ \A n \in Module : Stale(n)' => Stale(n) \/ n = compiled.file
    BY <1>0, <1>1, <1>2, InsertStep
<1>5. TypeOK'
    BY <1>0, <1>1, <1>3, <1>4 DEF TypeOK
<1>6. /\ \A n \in Module : Unsettled(n) => Unsettled(n)'
      /\ Unsettled(compiled.file)'
    BY <1>1, <1>3 DEF Unsettled, InHand, Undisturbed
<1>7. \A r \in Request, n \in Module : Old(r, n)' => Old(r, n)
    BY <1>1 DEF Old
<1>8. OldResultsAreKnown' /\ GraphMirrored'
    BY <1>1, <1>6, <1>7 DEF IInv, OldResultsAreKnown, GraphMirrored
<1>9. StaleAreUnsettled'
    <2> SUFFICES ASSUME NEW n \in Module, Stale(n)'
                 PROVE  Unsettled(n)'
        BY DEF StaleAreUnsettled
    <2>1. CASE n = compiled.file
        BY <1>3, <1>6, <2>1
    <2>2. CASE Stale(n)
        <3>1. Unsettled(n)
            BY <2>2 DEF IInv, StaleAreUnsettled
        <3> QED  BY <1>6, <3>1
    <2> QED  BY <1>4, <2>1, <2>2
<1> QED  BY <1>4, <1>5, <1>8, <1>9 DEF IInv

LEMMA WatchScanStep ==
    ASSUME IInv, HubOK', WatchScan
    PROVE  IInv'
<1>0. TypeOK
    BY DEF IInv
<1>1. /\ watching = "compiled" /\ compiled' = Scanned(compiled)
      /\ UNCHANGED <<disk, saves, reborn, unheard, dirty, watching, batch, request, outrun, overtaken,
                     cache, graph, errors, tasks, served, refetch, visits>>
    BY DEF WatchScan, files, page, history, server
<1>2. compiled \in Result
    BY <1>0, <1>1 DEF TypeOK
<1>3. compiled' \in Result /\ compiled'.file = compiled.file
    BY <1>0, <1>1, <1>2, ScanResult
<1>4. TypeOK'
    BY <1>0, <1>1, <1>3 DEF TypeOK
<1>5. \A n \in Module : Unsettled(n) => Unsettled(n)'
    BY <1>1, <1>3 DEF Unsettled, InHand, Undisturbed
<1>6. \A r \in Request, n \in Module : Old(r, n)' => Old(r, n)
    BY <1>1 DEF Old
<1>7. GraphMirrored'
    BY <1>1 DEF IInv, GraphMirrored
<1> QED  BY <1>1, <1>4, <1>5, <1>6, <1>7, QuietStep

LEMMA WatchUpdateStep ==
    ASSUME IInv, HubOK', WatchUpdate
    PROVE  IInv'
<1>0. TypeOK /\ Mirrored(graph)
    BY DEF IInv, GraphMirrored
<1>1. /\ watching = "compiled" /\ watching' = "updated" /\ UpdateGraph(compiled)
      /\ compiled' = [compiled EXCEPT !.links = {}]
      /\ outrun' \in {outrun \cup {compiled.file}, outrun \ {compiled.file}}
      /\ UNCHANGED <<disk, saves, reborn, unheard, dirty, batch, request, overtaken,
                     cache, errors, tasks, served, refetch, visits>>
    BY DEF WatchUpdate, files, page
<1>2. compiled \in Result /\ compiled.file \in Module
    BY <1>0, <1>1 DEF TypeOK, Result
<1>3. compiled' \in Result /\ compiled'.file = compiled.file
    BY <1>1, <1>2 DEF Result
<1>4. graph' \in Graphs /\ Mirrored(graph')
    BY <1>0, <1>1, <1>2, GraphStep
<1>5. TypeOK'
    BY <1>0, <1>1, <1>2, <1>3, <1>4 DEF TypeOK
<1>6. \A n \in Module : Unsettled(n) => Unsettled(n)'
    BY <1>1, <1>3 DEF Unsettled, InHand, Undisturbed
<1>7. \A r \in Request, n \in Module : Old(r, n)' => Old(r, n)
    BY <1>1 DEF Old
<1> QED  BY <1>1, <1>4, <1>5, <1>6, <1>7, QuietStep DEF GraphMirrored

(* The changed file leaves the cache, and the watcher's hands.             *)
LEMMA WatchInvalidateStep ==
    ASSUME IInv, HubOK', WatchInvalidate
    PROVE  IInv'
<1> DEFINE m == compiled.file
<1>0. TypeOK /\ Behind
    BY DEF IInv
<1>1. /\ watching = "updated" /\ watching' = "idle" /\ compiled' = None
      /\ Evict(m) /\ Note(m)
      /\ UNCHANGED <<disk, saves, reborn, unheard, dirty, batch, request, outrun, graph, errors, tasks,
                     served, refetch, visits>>
    BY DEF WatchInvalidate, files
<1>2. m \in Module
    BY <1>0, <1>1 DEF TypeOK, Result
<1> HIDE DEF m
<1>3. \A n \in Module : cache'[n] \in {cache[n], NoEntry}
    BY <1>1 DEF Evict
<1>4. cache' \in [Module -> CachedModule \cup {NoEntry}]
    BY <1>0, <1>1 DEF Evict, TypeOK
<1>5. cache'[m] = NoEntry
    <2>1. m \in TransitiveDependents(graph, m)
        BY DEF TransitiveDependents
    <2> QED  BY <1>1, <1>2, <2>1 DEF Evict
<1>6. TypeOK'
    BY <1>0, <1>1, <1>2, <1>4, NoteStep DEF TypeOK
<1>7. Behind'
    <2>1. \A n \in Module : disk[n].version \in Version
        BY <1>0, EntryType
    <2> QED  BY <1>0, <1>1, <1>3, <2>1, BoundsAssumption DEF Behind, NoEntry, Version
<1>8. \A n \in Module : n # m => (Unsettled(n) => Unsettled(n)')
    BY <1>0, <1>1, <1>2, NoteStep DEF Unsettled, InHand, Undisturbed, m
<1>9. StaleAreUnsettled'
    <2> SUFFICES ASSUME NEW n \in Module, Stale(n)' PROVE Unsettled(n)'
        BY DEF StaleAreUnsettled
    <2>1. n # m /\ Stale(n)
        BY <1>1, <1>3, <1>5 DEF Stale
    <2> QED  BY <1>8, <2>1 DEF IInv, StaleAreUnsettled
<1>10. OldResultsAreKnown'
    <2> SUFFICES ASSUME NEW r \in Request, NEW n \in Module, Old(r, n)'
                 PROVE  Unsettled(n)'
        BY DEF OldResultsAreKnown
    <2>1. Old(r, n)
        BY <1>1 DEF Old
    <2>2. CASE n = m
        BY <1>0, <1>1, <1>2, <2>1, <2>2, NoteStep DEF Unsettled, Undisturbed
    <2>3. CASE n # m
        BY <1>8, <2>1, <2>3 DEF IInv, OldResultsAreKnown
    <2> QED  BY <2>2, <2>3
<1> QED  BY <1>1, <1>6, <1>7, <1>9, <1>10 DEF IInv, GraphMirrored

LEMMA VisitStep ==
    ASSUME IInv, HubOK', NEW m \in Module, Visit(m)
    PROVE  IInv'
<1>1. /\ UNCHANGED <<disk, saves, reborn, unheard, dirty, watching, batch, compiled, request, outrun,
                     overtaken, cache, graph, errors, tasks, served>>
      /\ visits < MaxVisits /\ visits' = visits + 1 /\ refetch' = refetch \cup {m}
    BY DEF Visit, files, watcher, server, history
<1>2. visits' \in 0 .. MaxVisits
    BY <1>1, BoundsAssumption DEF IInv, TypeOK
<1>3. TypeOK'
    BY <1>1, <1>2 DEF IInv, TypeOK
<1> QED  BY <1>1, <1>3, QuietStep DEF IInv, Old, Unsettled, InHand, Undisturbed, GraphMirrored

(* A request starts with the file's text, or with that of a stale entry.   *)
LEMMA FetchStep ==
    ASSUME IInv, HubOK', NEW s \in Request, NEW m \in Module, Fetch(s, m)
    PROVE  IInv'
<1>0. TypeOK
    BY DEF IInv
<1>1. /\ UNCHANGED <<disk, saves, reborn, unheard, dirty, watching, batch, compiled, outrun, overtaken,
                     cache, graph, errors, tasks, served, visits>>
      /\ refetch' = refetch \ {m}
    BY DEF Fetch, files, watcher, server, history
<1>2. /\ Behind' /\ GraphMirrored' /\ StaleAreUnsettled'
      /\ \A n \in Module : Unsettled(n) <=> Unsettled(n)'
    BY <1>1 DEF IInv, Behind, GraphMirrored, StaleAreUnsettled, Stale, Unsettled, InHand, Undisturbed
<1>3. CASE disk[m].text = "gone"
    <2>1. request' = request
        BY <1>3 DEF Fetch
    <2>2. TypeOK'
        BY <1>0, <1>1, <2>1 DEF TypeOK
    <2>3. OldResultsAreKnown'
        BY <1>1, <1>2, <2>1 DEF IInv, OldResultsAreKnown, Old
    <2> QED  BY <1>2, <2>2, <2>3 DEF IInv
<1>4. CASE disk[m].text # "gone"
    <2> DEFINE result == Compile(m)
    <2>1. /\ result \in Result /\ result.file = m
          /\ result.version # disk[m].version => Stale(m)
        BY <1>0, <1>4, CompileResult
    <2>2. request' = [request EXCEPT ![s] = result]
        BY <1>4 DEF Fetch
    <2> HIDE DEF result
    <2>3. TypeOK'
        BY <1>0, <1>1, <2>1, <2>2 DEF TypeOK
    <2>4. request'[s] = result /\ \A r \in Request : r # s => request'[r] = request[r]
        BY <1>0, <2>2 DEF TypeOK
    <2>5. OldResultsAreKnown'
        <3> SUFFICES ASSUME NEW r \in Request, NEW n \in Module, Old(r, n)'
                     PROVE  Unsettled(n)
            BY <1>1, <1>2 DEF OldResultsAreKnown
        <3>1. CASE r = s
            <4>1. n = m /\ result.version # disk[m].version
                BY <1>1, <2>1, <2>4, <3>1 DEF Old
            <4> QED  BY <2>1, <4>1 DEF IInv, StaleAreUnsettled
        <3>2. CASE r # s
            <4>1. Old(r, n)
                BY <1>1, <2>4, <3>2 DEF Old
            <4> QED  BY <4>1 DEF IInv, OldResultsAreKnown
        <3> QED  BY <3>1, <3>2
    <2> QED  BY <1>2, <2>3, <2>5 DEF IInv
<1> QED  BY <1>3, <1>4

(* A request in progress goes on with the same file and version.           *)
LEMMA Progress ==
    ASSUME TypeOK, NEW s \in Request, request[s] # None, NEW result \in Result,
           result.file = request[s].file, result.version = request[s].version,
           request' = [request EXCEPT ![s] = result], disk' = disk
    PROVE  /\ request' \in [Request -> Result \cup {None}]
           /\ \A r \in Request, n \in Module : Old(r, n)' => Old(r, n)
<1>1. request \in [Request -> Result \cup {None}]
    BY DEF TypeOK
<1> QED  BY <1>1 DEF Old

(* An old result makes an entry stale, on a file that is known to be.      *)
LEMMA StoreStep ==
    ASSUME IInv, HubOK', NEW s \in Request, Store(s)
    PROVE  IInv'
<1> DEFINE result == request[s]
           m == result.file
<1>0. TypeOK /\ Behind
    BY DEF IInv
<1>1. /\ result # None /\ Insert(result)
      /\ UNCHANGED files
      /\ UNCHANGED <<disk, saves, reborn, unheard, dirty, watching, batch, compiled, outrun, overtaken,
                     graph, errors, tasks, served, refetch, visits>>
      /\ request' = [request EXCEPT ![s] = Stored(result)]
    BY DEF Store, files, watcher, history, page
<1>2. result \in Result /\ m \in Module
    BY <1>0, <1>1 DEF TypeOK, Result
<1>3. /\ cache' \in [Module -> CachedModule \cup {NoEntry}] /\ Behind'
      /\ \A n \in Module : Stale(n)' =>
             Stale(n) \/ (n = m /\ result.version # disk[n].version)
    BY <1>0, <1>1, <1>2, InsertStep
<1> HIDE DEF m
<1>4. /\ request' \in [Request -> Result \cup {None}]
      /\ \A r \in Request, n \in Module : Old(r, n)' => Old(r, n)
    BY <1>0, <1>1, <1>2, StoreResult, Progress DEF m
<1>5. TypeOK'
    BY <1>0, <1>1, <1>3, <1>4 DEF TypeOK
<1>6. \A n \in Module : Unsettled(n) <=> Unsettled(n)'
    BY <1>1 DEF Unsettled, InHand, Undisturbed
<1>7. StaleAreUnsettled'
    <2> SUFFICES ASSUME NEW n \in Module, Stale(n)' PROVE Unsettled(n)
        BY <1>6 DEF StaleAreUnsettled
    <2>1. CASE Stale(n)
        BY <2>1 DEF IInv, StaleAreUnsettled
    <2>2. CASE n = m /\ result.version # disk[n].version
        <3>1. Old(s, n)
            BY <1>1, <2>2 DEF Old, m
        <3> QED  BY <3>1 DEF IInv, OldResultsAreKnown
    <2> QED  BY <1>3, <2>1, <2>2
<1>8. OldResultsAreKnown' /\ GraphMirrored'
    BY <1>1, <1>4, <1>6 DEF IInv, OldResultsAreKnown, GraphMirrored
<1> QED  BY <1>3, <1>5, <1>7, <1>8 DEF IInv

LEMMA ScanSourceStep ==
    ASSUME IInv, HubOK', NEW s \in Request, ScanSource(s)
    PROVE  IInv'
<1>0. TypeOK
    BY DEF IInv
<1>1. /\ request[s] # None /\ request' = [request EXCEPT ![s] = Scanned(request[s])]
      /\ UNCHANGED <<disk, saves, reborn, unheard, dirty, watching, batch, compiled, outrun, overtaken,
                     cache, graph, errors, tasks, served, refetch, visits>>
    BY DEF ScanSource, files, watcher, server, history, page
<1>2. request[s] \in Result
    BY <1>0, <1>1 DEF TypeOK
<1>3. /\ request' \in [Request -> Result \cup {None}]
      /\ \A r \in Request, n \in Module : Old(r, n)' => Old(r, n)
    BY <1>0, <1>1, <1>2, ScanResult, Progress
<1>4. TypeOK'
    BY <1>0, <1>1, <1>3 DEF TypeOK
<1>5. \A n \in Module : Unsettled(n) => Unsettled(n)'
    BY <1>1 DEF Unsettled, InHand, Undisturbed
<1> QED  BY <1>1, <1>3, <1>4, <1>5, QuietStep DEF IInv, GraphMirrored

LEMMA RespondStep ==
    ASSUME IInv, HubOK', NEW s \in Request, Respond(s)
    PROVE  IInv'
<1> DEFINE result == request[s]
           m == result.file
<1>0. TypeOK /\ Mirrored(graph)
    BY DEF IInv, GraphMirrored
<1>1. /\ result # None
      /\ UNCHANGED <<disk, saves, reborn, unheard, dirty, watching, batch, compiled, outrun, overtaken,
                     cache, errors, refetch, visits>>
      /\ \/ UNCHANGED graph /\ tasks' = tasks \cup {[op |-> "report", file |-> m]}
         \/ UpdateGraph(result) /\ tasks' = tasks \cup {[op |-> "clear", file |-> m]}
      /\ served' = [served EXCEPT ![m] = result.version]
      /\ request' = [request EXCEPT ![s] = None]
    BY DEF Respond, files, watcher, history
<1>2. result \in Result /\ m \in Module /\ result.version \in Version
    BY <1>0, <1>1 DEF TypeOK, Result
<1>3. graph' \in Graphs /\ Mirrored(graph')
    BY <1>0, <1>1, <1>2, GraphStep DEF TypeOK
<1> HIDE DEF m
<1>4. TypeOK'
    <2>1. tasks' \subseteq Task
        BY <1>0, <1>1, <1>2 DEF TypeOK, Task
    <2>2. served' \in [Module -> Version \cup {0}]
        BY <1>0, <1>1, <1>2 DEF TypeOK
    <2>3. request' \in [Request -> Result \cup {None}]
        BY <1>0, <1>1 DEF TypeOK
    <2> QED  BY <1>0, <1>1, <1>3, <2>1, <2>2, <2>3 DEF TypeOK
<1>5. \A n \in Module : Unsettled(n) => Unsettled(n)'
    BY <1>1 DEF Unsettled, InHand, Undisturbed
<1>6. \A r \in Request, n \in Module : Old(r, n)' => Old(r, n)
    BY <1>0, <1>1 DEF Old, TypeOK
<1> QED  BY <1>1, <1>3, <1>4, <1>5, <1>6, QuietStep DEF GraphMirrored

LEMMA RunTaskStep ==
    ASSUME IInv, HubOK', NEW t \in Task, RunTask(t)
    PROVE  IInv'
<1>1. /\ UNCHANGED <<disk, saves, reborn, unheard, dirty, watching, batch, compiled, request, outrun,
                     overtaken, cache, graph, served, refetch, visits>>
      /\ tasks' = tasks \ {t} /\ errors' \in {errors \cup {t.file}, errors \ {t.file}}
    BY DEF RunTask, files, watcher, page, history
<1>2. t.file \in Module
    BY DEF Task
<1>3. TypeOK'
    BY <1>1, <1>2 DEF IInv, TypeOK
<1> QED  BY <1>1, <1>3, QuietStep DEF IInv, Old, Unsettled, InHand, Undisturbed, GraphMirrored

(* What becomes of the connection and the messages changes nothing else.   *)
LEMMA ConnectionStep ==
    ASSUME IInv, HubOK', Connect \/ Disconnect \/ Receive
    PROVE  IInv'
<1>1. UNCHANGED <<disk, saves, reborn, unheard, dirty, watching, batch, compiled, request, outrun,
                  overtaken, cache, graph, errors, tasks, served, visits>>
    BY DEF Connect, Disconnect, Receive, files, watcher, server, history
<1>2. refetch' \subseteq Module
    <2>1. CASE Receive
        <3>1. Head(inbox) \in Message
            BY <2>1 DEF Receive, IInv, TypeOK, HubOK
        <3> QED  BY <2>1, <3>1, EntryAssumption DEF Receive, Message, IInv, TypeOK
    <2>2. CASE Connect \/ Disconnect
        BY <2>2 DEF Connect, Disconnect, IInv, TypeOK
    <2> QED  BY <2>1, <2>2
<1>3. TypeOK'
    BY <1>1, <1>2 DEF IInv, TypeOK
<1> QED  BY <1>1, <1>3, QuietStep DEF IInv, Old, Unsettled, InHand, Undisturbed, GraphMirrored

-----------------------------------------------------------------------------
(* The messages that wait are of files and no more than the ring holds.    *)
LEMMA UnreadType == HubOK => Unread \subseteq Module
<1> SUFFICES ASSUME HubOK, NEW i \in DOMAIN inbox PROVE inbox[i].changed \in Module
    BY DEF Unread
<1>1. inbox[i] \in Message
    BY DEF HubOK
<1> QED  BY <1>1 DEF Message

LEMMA BroadcastHub ==
    ASSUME HubOK, NEW m \in Module, Broadcast(m)
    PROVE  HubOK'
<1>1. CASE socket # "open"
    BY <1>1 DEF Broadcast, HubOK
<1>2. CASE socket = "open" /\ Len(inbox) < RingCapacity
    <2>1. UpdateOf(m) \in Message
        BY DEF UpdateOf, Message
    <2>2. inbox' = Append(inbox, UpdateOf(m)) /\ UNCHANGED <<socket, missed>>
        BY <1>2 DEF Broadcast
    <2>3. inbox' \in Seq(Message) /\ Len(inbox') <= RingCapacity
        BY <1>2, <2>1, <2>2, RingAssumption DEF HubOK
    <2> QED  BY <2>2, <2>3 DEF HubOK
<1>3. CASE socket = "open" /\ ~ (Len(inbox) < RingCapacity)
    BY <1>3, UnreadType, RingAssumption DEF Broadcast, HubOK
<1> QED  BY <1>1, <1>2, <1>3

LEMMA ReceiveHub ==
    ASSUME HubOK, Receive
    PROVE  HubOK'
<1>1. CASE Head(inbox).changed = Entry
    <2>1. /\ socket' = "closed" /\ inbox' = <<>>
          /\ missed' = missed \cup {inbox[i].changed : i \in 2 .. Len(inbox)}
        BY <1>1 DEF Receive
    <2>2. {inbox[i].changed : i \in 2 .. Len(inbox)} \subseteq Unread
        BY DEF Unread, HubOK
    <2> QED  BY <2>1, <2>2, UnreadType, RingAssumption DEF HubOK
<1>2. CASE Head(inbox).changed # Entry
    <2>1. inbox # <<>> /\ inbox' = Tail(inbox) /\ UNCHANGED <<socket, missed>>
        BY <1>2 DEF Receive
    <2>2. inbox' \in Seq(Message) /\ Len(inbox') = Len(inbox) - 1
        BY <2>1 DEF HubOK
    <2> QED  BY <2>1, <2>2, RingAssumption DEF HubOK
<1> QED  BY <1>1, <1>2

LEMMA HubKept == TypeOK /\ [Next]_vars => HubOK'
<1> SUFFICES ASSUME TypeOK, [Next]_vars PROVE HubOK'
    OBVIOUS
<1>0. HubOK
    BY DEF TypeOK
<1>1. CASE WatchInvalidate
    <2>1. compiled.file \in Module
        BY <1>1 DEF WatchInvalidate, TypeOK, Result
    <2>2. Broadcast(compiled.file)
        BY <1>1 DEF WatchInvalidate
    <2> QED  BY <1>0, <2>1, <2>2, BroadcastHub
<1>2. CASE Receive
    BY <1>0, <1>2, ReceiveHub
<1>3. CASE Connect
    BY <1>0, <1>3 DEF Connect, HubOK
<1>4. CASE Disconnect
    BY <1>0, <1>4, UnreadType, RingAssumption DEF Disconnect, HubOK
<1>5. CASE \E r \in Request, m \in Module : Fetch(r, m)
    BY <1>0, <1>5 DEF Fetch, HubOK
<1>6. CASE \/ \E m \in Module : Save(m) \/ Visit(m) \/ WatchCompile(m)
           \/ TakeBatch \/ WatchStore \/ WatchScan \/ WatchUpdate
           \/ \E r \in Request : Store(r) \/ ScanSource(r) \/ Respond(r)
           \/ \E t \in tasks : RunTask(t)
           \/ UNCHANGED vars
    <2>1. UNCHANGED hub
        BY <1>6 DEF Save, Visit, WatchCompile, TakeBatch, WatchStore, WatchScan, WatchUpdate, Store,
                    ScanSource, Respond, RunTask, page, vars
    <2> QED  BY <1>0, <2>1 DEF hub, HubOK
<1> QED  BY <1>1, <1>2, <1>3, <1>4, <1>5, <1>6 DEF Next, Work

LEMMA NextIInv == IInv /\ [Next]_vars => IInv'
<1> SUFFICES ASSUME IInv, [Next]_vars PROVE IInv'
    OBVIOUS
<1>0. HubOK'
    BY HubKept DEF IInv
<1>1. CASE \E m \in Module : Save(m)
    BY <1>0, <1>1, SaveStep
<1>2. CASE \E m \in Module : Visit(m)
    BY <1>0, <1>2, VisitStep
<1>3. CASE \E m \in Module : WatchCompile(m)
    BY <1>0, <1>3, WatchCompileStep
<1>4. CASE TakeBatch
    BY <1>0, <1>4, TakeBatchStep
<1>5. CASE WatchStore \/ WatchScan \/ WatchUpdate
    BY <1>0, <1>5, WatchStoreStep, WatchScanStep, WatchUpdateStep
<1>6. CASE WatchInvalidate
    BY <1>0, <1>6, WatchInvalidateStep
<1>7. CASE \E r \in Request, m \in Module : Fetch(r, m)
    BY <1>0, <1>7, FetchStep
<1>8. CASE \E r \in Request : Store(r) \/ ScanSource(r) \/ Respond(r)
    BY <1>0, <1>8, StoreStep, ScanSourceStep, RespondStep
<1>9. CASE \E t \in tasks : RunTask(t)
    <2>1. tasks \subseteq Task
        BY DEF IInv, TypeOK
    <2> QED  BY <1>0, <1>9, <2>1, RunTaskStep
<1>10. CASE Connect \/ Disconnect \/ Receive
    BY <1>0, <1>10, ConnectionStep
<1>11. CASE UNCHANGED vars
    BY <1>0, <1>11 DEF IInv, TypeOK, Behind, OldResultsAreKnown, Old, Unsettled, InHand, Undisturbed,
                 StaleAreUnsettled, Stale, GraphMirrored, vars, files, watcher, server, page, history
<1> QED  BY <1>1, <1>2, <1>3, <1>4, <1>5, <1>6, <1>7, <1>8, <1>9, <1>10, <1>11
        DEF Next, Work

THEOREM Inductive == Spec => []IInv
BY InitIInv, NextIInv, PTL DEF Spec
-----------------------------------------------------------------------------
(* Every variable keeps its type, the files' versions within the bound.    *)
THEOREM TypeCorrect == Spec => []TypeOK
<1>1. IInv => TypeOK
    BY DEF IInv
<1> QED  BY <1>1, Inductive, PTL

(* An entry whose code is older than its file, and which the cache would   *)
(* serve, is about to be evicted by the watcher, or is one of a file whose *)
(* change the watcher did not hear of or on which it overtook a request    *)
(* (CompilationCache::get, process_file_change, the callback's try_send).  *)
THEOREM StaleEntriesKnown == Spec => []StaleEntriesAreKnown
<1>1. IInv => StaleEntriesAreKnown
    BY DEF IInv, StaleAreUnsettled, StaleEntriesAreKnown, Unsettled
<1> QED  BY <1>1, Inductive, PTL

(* The watcher and the requests together keep the two directions of every  *)
(* edge of the module graph in agreement (update_module).                  *)
THEOREM MirrorKept == Spec => []GraphMirrored
<1>1. IInv => GraphMirrored
    BY DEF IInv
<1> QED  BY <1>1, Inductive, PTL
-----------------------------------------------------------------------------
(* What the results, the cache and the files say of one another.           *)

(* A result is no newer than its file, and one as new has its text; only   *)
(* one without errors is to be stored.                                     *)
Truthful(result) ==
    /\ result.version <= disk[result.file].version
    /\ result.version = disk[result.file].version => result.text = disk[result.file].text
    /\ result.next = "store" => result.text = "good"

ResultsAreTrue ==
    /\ \A r \in Request : request[r] # None => Truthful(request[r])
    /\ compiled # None => Truthful(compiled)

(* Nor is an entry newer, and one as new has compiled. *)
CodeIsTrue ==
    \A m \in Module : cache[m] # NoEntry =>
        /\ cache[m].code <= disk[m].version
        /\ cache[m].code = disk[m].version => disk[m].text = "good"

FirstIsGood == \A m \in Module : disk[m].version = 1 => disk[m].text = "good"

Truth == ResultsAreTrue /\ CodeIsTrue /\ FirstIsGood

LEMMA CompileIsTrue ==
    ASSUME TypeOK, CodeIsTrue, NEW m \in Module, disk[m].text # "gone"
    PROVE  Truthful(Compile(m))
<1>1. disk[m].version \in Version /\ disk[m].text \in {"good", "broken"}
    BY EntryType DEF Text
<1>2. CASE cache[m] # NoEntry /\ cache[m].mtime = disk[m].version
    BY <1>2 DEF Compile, Truthful, CodeIsTrue
<1>3. CASE ~ (cache[m] # NoEntry /\ cache[m].mtime = disk[m].version)
    BY <1>1, <1>3, BoundsAssumption DEF Compile, Truthful, Version
<1> QED  BY <1>2, <1>3

LEMMA InsertIsTrue ==
    ASSUME TypeOK, CodeIsTrue, NEW result \in Result, Truthful(result), result.next = "store",
           Insert(result), disk' = disk
    PROVE  CodeIsTrue'
<1>1. result.file \in Module /\ result.text = "good"
    BY DEF Result, Truthful
<1>2. /\ cache'[result.file].code = result.version
      /\ \A n \in Module : n # result.file => cache'[n] = cache[n]
    BY <1>1 DEF Insert, TypeOK
<1> QED  BY <1>1, <1>2 DEF CodeIsTrue, Truthful

(* The later steps with a result leave it as true as it was. *)
LEMMA ProgressIsTrue ==
    ASSUME TypeOK, NEW result \in Result, Truthful(result)
    PROVE  Truthful(Stored(result)) /\ Truthful(Scanned(result))
BY StoreResult, ScanResult DEF Truthful

LEMMA InitTruth == Init => Truth
<1> SUFFICES ASSUME Init PROVE Truth
    OBVIOUS
<1>1. \A m \in Module : disk[m].text = "good" /\ cache[m] = NoEntry
    BY DEF Init
<1> QED  BY <1>1 DEF Init, Truth, ResultsAreTrue, CodeIsTrue, FirstIsGood

(* A save dates the file after every result and entry.                     *)
LEMMA SaveTruth ==
    ASSUME IInv, Truth, NEW m \in Module, Save(m)
    PROVE  Truth'
<1>0. TypeOK
    BY DEF IInv
<1>1. /\ disk'[m].version = disk[m].version + 1
      /\ \A n \in Module : n # m => disk'[n] = disk[n]
      /\ UNCHANGED <<request, compiled, cache>>
    BY <1>0 DEF Save, TypeOK, watcher, server
<1>2. disk[m].version \in Nat /\ disk[m].version # 0
    BY <1>0, EntryType, BoundsAssumption DEF Version
<1>3. \A result \in Result : Truthful(result) => Truthful(result)'
    <2> SUFFICES ASSUME NEW result \in Result, Truthful(result) PROVE Truthful(result)'
        OBVIOUS
    <2>1. result.file \in Module /\ result.version \in Nat
        BY BoundsAssumption DEF Result, Version
    <2> QED  BY <1>1, <1>2, <2>1 DEF Truthful
<1>4. ResultsAreTrue'
    <2>1. \A r \in Request : request[r] # None => request[r] \in Result
        BY <1>0 DEF TypeOK
    <2>2. compiled # None => compiled \in Result
        BY <1>0 DEF TypeOK
    <2> QED  BY <1>1, <1>3, <2>1, <2>2 DEF Truth, ResultsAreTrue
<1>5. CodeIsTrue'
    <2>1. \A n \in Module : cache[n] # NoEntry => cache[n].code \in Nat
        BY <1>0, EntryType, BoundsAssumption DEF Version
    <2> QED  BY <1>1, <1>2, <2>1 DEF Truth, CodeIsTrue
<1>6. FirstIsGood'
    BY <1>1, <1>2 DEF Truth, FirstIsGood
<1> QED  BY <1>4, <1>5, <1>6 DEF Truth

LEMMA NextTruth == IInv /\ Truth /\ [Next]_vars => Truth'
<1> SUFFICES ASSUME IInv, Truth, [Next]_vars PROVE Truth'
    OBVIOUS
<1>0. TypeOK /\ CodeIsTrue
    BY DEF IInv, Truth
<1>1. CASE \E m \in Module : Save(m)
    BY <1>1, SaveTruth
<1>2. ASSUME disk' = disk, cache' = cache,
             \A r \in Request : request'[r] # None => request'[r] = request[r] \/ Truthful(request'[r]),
             compiled' = compiled \/ (compiled' # None => Truthful(compiled'))
      PROVE  Truth'
    BY <1>2 DEF Truth, ResultsAreTrue, CodeIsTrue, FirstIsGood, Truthful
<1>3. CASE \E m \in Module : WatchCompile(m)
    <2> PICK m \in Module : WatchCompile(m)
        BY <1>3
    <2>1. disk' = disk /\ cache' = cache /\ request' = request
        BY DEF WatchCompile, files
    <2>2. compiled' = compiled \/ (disk[m].text # "gone" /\ compiled' = Compile(m))
        BY DEF WatchCompile
    <2> QED  BY <1>0, <1>2, <2>1, <2>2, CompileIsTrue
<1>4. CASE WatchStore \/ WatchScan \/ WatchUpdate
    <2>1. compiled \in Result /\ compiled # None /\ Truthful(compiled)
        BY <1>0, <1>4, NoneAssumption DEF WatchStore, WatchScan, WatchUpdate, TypeOK, Truth, ResultsAreTrue
    <2>2. disk' = disk /\ request' = request
        BY <1>4 DEF WatchStore, WatchScan, WatchUpdate, files
    <2>3. Truthful(compiled')
        <3>1. WatchUpdate => /\ compiled'.file = compiled.file /\ compiled'.version = compiled.version
                             /\ compiled'.text = compiled.text /\ compiled'.next = compiled.next
            BY <2>1 DEF WatchUpdate, Result
        <3>2. WatchStore \/ WatchScan => compiled' = Stored(compiled) \/ compiled' = Scanned(compiled)
            BY DEF WatchStore, WatchScan
        <3>3. Truthful(Stored(compiled)) /\ Truthful(Scanned(compiled))
            BY <1>0, <2>1, ProgressIsTrue
        <3>4. compiled' = Stored(compiled) \/ compiled' = Scanned(compiled) => Truthful(compiled')
            BY <3>3
        <3>5. WatchUpdate => Truthful(compiled')
            BY <2>1, <3>1 DEF Truthful
        <3> QED  BY <1>4, <3>2, <3>4, <3>5
    <2>4. Truthful(compiled)'
        BY <2>2, <2>3 DEF Truthful
    <2>5. CodeIsTrue'
        BY <1>0, <1>4, <2>1, <2>2, InsertIsTrue DEF WatchStore, WatchScan, WatchUpdate, server, CodeIsTrue
    <2> QED  BY <2>2, <2>4, <2>5 DEF Truth, ResultsAreTrue, FirstIsGood, Truthful
<1>5. CASE WatchInvalidate
    <2>1. disk' = disk /\ request' = request /\ compiled' = None
        BY <1>5 DEF WatchInvalidate, files
    <2>2. \A n \in Module : cache'[n] \in {cache[n], NoEntry}
        BY <1>5 DEF WatchInvalidate, Evict
    <2> QED  BY <2>1, <2>2 DEF Truth, ResultsAreTrue, CodeIsTrue, FirstIsGood, Truthful
<1>6. CASE \E r \in Request, m \in Module : Fetch(r, m)
    <2> PICK s \in Request, m \in Module : Fetch(s, m)
        BY <1>6
    <2>1. disk' = disk /\ cache' = cache /\ compiled' = compiled
        BY DEF Fetch, files, server, watcher
    <2>2. request' = request \/ (disk[m].text # "gone" /\ request' = [request EXCEPT ![s] = Compile(m)])
        BY DEF Fetch
    <2>3. disk[m].text # "gone" => Truthful(Compile(m))
        BY <1>0, CompileIsTrue
    <2>4. \A r \in Request : request'[r] # None => request'[r] = request[r] \/ Truthful(request'[r])
        BY <1>0, <2>2, <2>3 DEF TypeOK
    <2> QED  BY <1>2, <2>1, <2>4
<1>7. CASE \E r \in Request : Store(r) \/ ScanSource(r)
    <2> PICK s \in Request : Store(s) \/ ScanSource(s)
        BY <1>7
    <2>1. request[s] \in Result /\ Truthful(request[s])
        BY <1>0 DEF Store, ScanSource, TypeOK, Truth, ResultsAreTrue
    <2>2. /\ disk' = disk /\ compiled' = compiled
          /\ request' = [request EXCEPT ![s] = Stored(request[s])]
             \/ request' = [request EXCEPT ![s] = Scanned(request[s])]
        BY DEF Store, ScanSource, files, watcher
    <2>3. CodeIsTrue'
        BY <1>0, <2>1, <2>2, InsertIsTrue DEF Store, ScanSource, server, CodeIsTrue
    <2>4. Truthful(Stored(request[s])) /\ Truthful(Scanned(request[s]))
        BY <1>0, <2>1, ProgressIsTrue
    <2>5. request'[s] = Stored(request[s]) \/ request'[s] = Scanned(request[s])
        BY <1>0, <2>2 DEF TypeOK
    <2>6. \A r \in Request : r # s => request'[r] = request[r]
        BY <1>0, <2>2 DEF TypeOK
    <2>7. \A r \in Request : request'[r] # None => request'[r] = request[r] \/ Truthful(request'[r])
        BY <2>4, <2>5, <2>6
    <2> QED  BY <2>2, <2>3, <2>7 DEF Truth, ResultsAreTrue, FirstIsGood, Truthful
<1>9. CASE \E r \in Request : Respond(r)
    <2> PICK s \in Request : Respond(s)
        BY <1>9
    <2>1. disk' = disk /\ compiled' = compiled /\ cache' = cache /\ request' = [request EXCEPT ![s] = None]
        BY DEF Respond, files, watcher
    <2>2. \A r \in Request : request'[r] # None => request'[r] = request[r]
        BY <1>0, <2>1 DEF TypeOK
    <2> QED  BY <1>2, <2>1, <2>2
<1>8. CASE \/ \E m \in Module : Visit(m)
           \/ TakeBatch \/ Connect \/ Disconnect \/ Receive
           \/ \E t \in tasks : RunTask(t)
           \/ UNCHANGED vars
    <2>1. UNCHANGED <<disk, cache, request, compiled>>
        BY <1>8 DEF Visit, TakeBatch, Connect, Disconnect, Receive, RunTask, vars, files, watcher, server
    <2> QED  BY <1>2, <2>1
<1> QED  BY <1>1, <1>3, <1>4, <1>5, <1>6, <1>7, <1>8, <1>9 DEF Next, Work
-----------------------------------------------------------------------------
(* What the page is told.                                                  *)

(* An update names the file that changed, so importing what it names       *)
(* imports that file; a full reload imports the entry.                     *)
MessagesNameTheirChange ==
    \A i \in DOMAIN inbox : inbox[i].changed = Entry \/ inbox[i].changed \in inbox[i].modules

(* The page was told of m, or is known not to have been. *)
Told(m) == m \in Unread \cup refetch \cup missed

LEMMA BroadcastTells ==
    ASSUME HubOK, MessagesNameTheirChange, NEW m \in Module, Broadcast(m)
    PROVE  /\ MessagesNameTheirChange'
           /\ \A n : n = m \/ n \in Unread \cup missed => n \in Unread' \cup missed'
<1>1. CASE socket # "open"
    BY <1>1 DEF Broadcast, MessagesNameTheirChange, Unread
<1>2. CASE socket = "open" /\ Len(inbox) < RingCapacity
    <2> DEFINE u == UpdateOf(m)
    <2>1. u \in Message /\ u.changed = m /\ (m = Entry \/ m \in u.modules)
        <3>1. m \in TransitiveDependents(graph, m)
            BY DEF TransitiveDependents
        <3> QED  BY <3>1 DEF UpdateOf, Message
    <2>2. inbox' = Append(inbox, u) /\ missed' = missed
        BY <1>2 DEF Broadcast
    <2> HIDE DEF u
    <2>3. /\ DOMAIN inbox' = 1 .. Len(inbox) + 1 /\ DOMAIN inbox = 1 .. Len(inbox)
          /\ inbox'[Len(inbox) + 1] = u /\ Len(inbox) \in Nat
          /\ \A i \in DOMAIN inbox : inbox'[i] = inbox[i]
        BY <2>1, <2>2 DEF HubOK
    <2>4. MessagesNameTheirChange'
        BY <2>1, <2>3 DEF MessagesNameTheirChange
    <2>5. m \in Unread' /\ Unread \subseteq Unread'
        BY <2>1, <2>3 DEF Unread
    <2> QED  BY <2>2, <2>4, <2>5
<1>3. CASE socket = "open" /\ ~ (Len(inbox) < RingCapacity)
    BY <1>3 DEF Broadcast, MessagesNameTheirChange
<1> QED  BY <1>1, <1>2, <1>3

LEMMA ReceiveTells ==
    ASSUME HubOK, MessagesNameTheirChange, Receive
    PROVE  MessagesNameTheirChange' /\ \A n : Told(n) => Told(n)'
<1>1. inbox # <<>> /\ inbox \in Seq(Message)
    BY DEF Receive, HubOK
<1>2. \A i \in DOMAIN inbox : i = 1 \/ i \in 2 .. Len(inbox)
    BY <1>1
<1>3. 1 \in DOMAIN inbox /\ Head(inbox) = inbox[1]
    BY <1>1
<1>4. CASE Head(inbox).changed = Entry
    <2>1. /\ Entry \in refetch' /\ refetch \subseteq refetch' /\ inbox' = <<>>
          /\ missed' = missed \cup {inbox[i].changed : i \in 2 .. Len(inbox)}
        BY <1>4 DEF Receive
    <2>2. \A n \in Unread : n = Entry \/ n \in missed'
        BY <1>2, <1>3, <1>4, <2>1 DEF Unread
    <2> QED  BY <2>1, <2>2 DEF Told, MessagesNameTheirChange
<1>5. CASE Head(inbox).changed # Entry
    <2>1. /\ refetch' = refetch \cup Head(inbox).modules /\ missed' = missed
          /\ inbox' = Tail(inbox)
        BY <1>5 DEF Receive
    <2>2. /\ \A i \in DOMAIN inbox' : i + 1 \in DOMAIN inbox /\ inbox'[i] = inbox[i + 1]
          /\ \A i \in 2 .. Len(inbox) : i - 1 \in DOMAIN inbox' /\ inbox'[i - 1] = inbox[i]
        BY <1>1, <2>1
    <2>3. Head(inbox).changed \in refetch'
        BY <1>3, <1>5, <2>1 DEF MessagesNameTheirChange
    <2>4. \A n \in Unread : n \in refetch' \cup Unread'
        BY <1>2, <1>3, <2>2, <2>3 DEF Unread
    <2>5. MessagesNameTheirChange'
        BY <2>2 DEF MessagesNameTheirChange
    <2> QED  BY <2>1, <2>4, <2>5 DEF Told
<1> QED  BY <1>4, <1>5

(* A file the page was told of stays so until it is requested.             *)
LEMMA TellingLasts ==
    ASSUME IInv, MessagesNameTheirChange, [Next]_vars
    PROVE  /\ MessagesNameTheirChange'
           /\ \A n \in Module : Told(n) => Told(n)' \/ \E r \in Request : Fetch(r, n)
           /\ \A n \in Module : WatchInvalidate /\ n = compiled.file => Told(n)'
<1>0. HubOK
    BY DEF IInv, TypeOK
<1>1. CASE WatchInvalidate
    <2>1. /\ compiled.file \in Module /\ Broadcast(compiled.file) /\ refetch' = refetch
        BY <1>1 DEF WatchInvalidate, IInv, TypeOK, Result
    <2> QED  BY <1>0, <2>1, BroadcastTells DEF Told
<1>2. CASE Receive
    BY <1>0, <1>2, ReceiveTells DEF Receive, WatchInvalidate, watcher
<1>3. CASE Disconnect
    BY <1>3 DEF Disconnect, Told, Unread, MessagesNameTheirChange, WatchInvalidate, watcher
<1>4. CASE \E r \in Request, m \in Module : Fetch(r, m)
    <2> PICK s \in Request, m \in Module : Fetch(s, m)
        BY <1>4
    <2>1. inbox' = inbox /\ refetch' = refetch \ {m} /\ missed' = missed \ {m} /\ watching' = watching
        BY DEF Fetch, watcher
    <2> QED  BY <2>1 DEF Told, Unread, MessagesNameTheirChange, WatchInvalidate
<1>5. CASE \/ \E m \in Module : Save(m) \/ Visit(m) \/ WatchCompile(m)
           \/ TakeBatch \/ WatchStore \/ WatchScan \/ WatchUpdate \/ Connect
           \/ \E r \in Request : Store(r) \/ ScanSource(r) \/ Respond(r)
           \/ \E t \in tasks : RunTask(t)
           \/ UNCHANGED vars
    <2>1. inbox' = inbox /\ missed' = missed /\ refetch \subseteq refetch' /\ ~ WatchInvalidate
        BY <1>5 DEF Save, Visit, WatchCompile, TakeBatch, WatchStore, WatchScan, WatchUpdate, Connect,
                    Store, ScanSource, Respond, RunTask, page, hub, vars, watcher, WatchInvalidate
    <2> QED  BY <2>1 DEF Told, Unread, MessagesNameTheirChange
<1> QED  BY <1>1, <1>2, <1>3, <1>4, <1>5 DEF Next, Work
-----------------------------------------------------------------------------
(* What the page has been served, and what the server says of errors.      *)

Requested(m) == \E r \in Request : request[r] # None /\ request[r].file = m
Reported(m) == \E t \in tasks : t.file = m

(* The page has the latest text, or something will have it ask for it, or  *)
(* it is known not to have been told.                                      *)
ServedOrAwaited ==
    \A m \in Module : disk[m].text # "gone" =>
        served[m] \in {0, disk[m].version} \/ Unsettled(m) \/ Told(m) \/ Requested(m)

(* No report or clear of a settled file is of an older text. *)
TasksAreTrue ==
    \A t \in tasks : Unsettled(t.file) \/ (t.op = "report" <=> disk[t.file].text # "good")

GoneAreErrors ==
    \A m \in Module : disk[m].text = "gone" => Unsettled(m) \/ m \in errors

ErrorsOrAwaited ==
    \A m \in Module : (m \in errors <=> disk[m].text # "good")
                      \/ Unsettled(m) \/ Told(m) \/ Requested(m) \/ Reported(m)

(* A file deleted since the watcher compiled it will be in its next batch, *)
(* unless the watcher was not told.                                        *)
GoneIsDirty ==
    watching # "idle" /\ disk[compiled.file].text = "gone" =>
        compiled.file \in dirty \cup batch \cup unheard

PInv ==
    /\ Truth /\ GoneIsDirty
    /\ MessagesNameTheirChange /\ ServedOrAwaited
    /\ TasksAreTrue /\ GoneAreErrors /\ ErrorsOrAwaited

LEMMA InitPInv == Init => PInv
<1> SUFFICES ASSUME Init PROVE PInv
    OBVIOUS
<1>1. \A m \in Module : disk[m].text = "good" /\ served[m] = 0
    BY DEF Init
<1>2. inbox = <<>> /\ tasks = {} /\ errors = {} /\ watching = "idle"
    BY DEF Init
<1> QED  BY <1>1, <1>2, InitTruth
         DEF PInv, GoneIsDirty, MessagesNameTheirChange, ServedOrAwaited, TasksAreTrue,
             GoneAreErrors, ErrorsOrAwaited

(* A result that is not of the file's present text is on an unsettled one. *)
LEMMA SettledResult ==
    ASSUME IInv, Truth, NEW s \in Request, request[s] # None
    PROVE  /\ request[s] \in Result
           /\ \/ Unsettled(request[s].file)
              \/ /\ request[s].version = disk[request[s].file].version
                 /\ request[s].text = disk[request[s].file].text
<1>1. request[s] \in Result /\ request[s].file \in Module
    BY DEF IInv, TypeOK, Result
<1>2. CASE Old(s, request[s].file)
    BY <1>1, <1>2 DEF IInv, OldResultsAreKnown, Unsettled
<1>3. CASE ~ Old(s, request[s].file)
    BY <1>1, <1>3 DEF Old, Truth, ResultsAreTrue, Truthful
<1> QED  BY <1>1, <1>2, <1>3

(* A file is settled by the watcher's last step on it, and by no other;    *)
(* then no older result of it, and no task on it, is left.                 *)
LEMMA Settling ==
    ASSUME IInv, NEW m \in Module, [Next]_vars, Unsettled(m), ~ Unsettled(m)'
    PROVE  /\ ~ Straggling(m)
           /\ \/ WatchCompile(m) /\ disk[m].text = "gone"
              \/ WatchInvalidate /\ m = compiled.file
<1>0. TypeOK
    BY DEF IInv
<1>1. CASE WatchInvalidate
    <2>1. m \notin batch \cup dirty /\ watching = "updated" /\ Note(compiled.file)
          /\ UNCHANGED <<batch, dirty, unheard>>
        BY <1>1 DEF WatchInvalidate, Unsettled, InHand, files
    <2>2. m = compiled.file
        BY <2>1 DEF Unsettled, InHand, Undisturbed, Note
    <2> QED  BY <1>1, <2>1, <2>2 DEF Unsettled, Undisturbed, Note
<1>2. CASE \E n \in Module : WatchCompile(n)
    <2> PICK n \in Module : WatchCompile(n)
        BY <1>2
    <2>1. watching = "idle" /\ batch' = batch \ {n} /\ UNCHANGED <<dirty, unheard>>
        BY DEF WatchCompile, files
    <2>2. CASE disk[n].text = "gone"
        <3>1. Note(n) /\ UNCHANGED <<watching, compiled>>
            BY <2>2 DEF WatchCompile
        <3>2. m = n
            BY <2>1, <3>1 DEF Unsettled, InHand, Undisturbed, Note
        <3> QED  BY <2>2, <3>1, <3>2 DEF Unsettled, Undisturbed, Note
    <2>3. CASE disk[n].text # "gone"
        <3>1. watching' = "compiled" /\ compiled'.file = n /\ UNCHANGED overtaken
            BY <1>0, <2>3, CompileResult DEF WatchCompile
        <3> QED  BY <2>1, <3>1 DEF Unsettled, InHand, Undisturbed
    <2> QED  BY <2>2, <2>3
<1>3. CASE \E n \in Module : Save(n)
    <2> PICK n \in Module : Save(n)
        BY <1>3
    <2>1. /\ UNCHANGED <<watching, batch, compiled, overtaken>> /\ dirty \subseteq dirty'
          /\ \A k \in unheard : k \in unheard' \/ k \in dirty'
        BY DEF Save, watcher, history
    <2> QED  BY <2>1 DEF Unsettled, InHand, Undisturbed
<1>4. CASE TakeBatch
    BY <1>4 DEF TakeBatch, Unsettled, InHand, Undisturbed, history, files
<1>5. CASE WatchStore \/ WatchScan \/ WatchUpdate
    <2>1. UNCHANGED <<dirty, batch, unheard, overtaken>> /\ watching = "compiled" /\ watching' # "idle"
        BY <1>5 DEF WatchStore, WatchScan, WatchUpdate, history, files
    <2>2. compiled \in Result
        BY <1>0, <2>1 DEF TypeOK
    <2>3. compiled'.file = compiled.file
        BY <1>0, <1>5, <2>2, StoreResult, ScanResult DEF WatchStore, WatchScan, WatchUpdate, Result
    <2> QED  BY <2>1, <2>3 DEF Unsettled, InHand, Undisturbed
<1>6. CASE \/ \E n \in Module : Visit(n)
           \/ Connect \/ Disconnect \/ Receive
           \/ \E r \in Request, n \in Module : Fetch(r, n)
           \/ \E r \in Request : Store(r) \/ ScanSource(r) \/ Respond(r)
           \/ \E t \in tasks : RunTask(t)
           \/ UNCHANGED vars
    <2>1. UNCHANGED <<dirty, batch, watching, compiled, unheard, overtaken>>
        BY <1>6 DEF Visit, Connect, Disconnect, Receive, Fetch, Store, ScanSource, Respond, RunTask, vars,
                    watcher, files, history
    <2> QED  BY <2>1 DEF Unsettled, InHand, Undisturbed
<1> QED  BY <1>1, <1>2, <1>3, <1>4, <1>5, <1>6 DEF Next, Work
(* The task a response spawns. *)
Reply(s) == [op   |-> IF request[s].text = "broken" THEN "report" ELSE "clear",
             file |-> request[s].file]

RespondsTo(n) == \E s \in Request : Respond(s) /\ request[s].file = n

(* What a step does to a file, what the page has of it, the requests of    *)
(* it, and what is reported of it.                                         *)
LEMMA StepOn ==
    ASSUME TypeOK, [Next]_vars, NEW n \in Module
    PROVE  /\ ~ Unsettled(n)' => disk'[n] = disk[n]
           /\ served'[n] = served[n] \/ RespondsTo(n)
           /\ Requested(n) => Requested(n)' \/ RespondsTo(n)
           /\ (\E r \in Request : Fetch(r, n)) /\ disk[n].text # "gone" => Requested(n)'
           /\ (n \in errors <=> n \in errors') \/ WatchCompile(n)
                  \/ \E t \in tasks : t.file = n /\ RunTask(t)
<1>1. CASE \E m \in Module : Save(m)
    <2>1. /\ UNCHANGED <<served, request, errors>>
          /\ \E m \in Module : /\ m \in dirty' \cup batch' \cup unheard'
                               /\ n # m => disk'[n] = disk[n]
        BY <1>1 DEF Save, TypeOK, server, page, watcher
    <2>2. ASSUME NEW r \in Request, NEW m \in Module, Fetch(r, m) PROVE FALSE
        BY <1>1, <2>2 DEF Save, Fetch, page
    <2> QED  BY <2>1, <2>2 DEF Unsettled, InHand, Undisturbed, Requested
<1>2. CASE \E m \in Module : WatchCompile(m)
    <2> PICK m \in Module : WatchCompile(m)
        BY <1>2
    <2>1. UNCHANGED <<disk, served, request>> /\ refetch' = refetch
        BY DEF WatchCompile, files, page
    <2>2. errors' \in {errors \cup {m}, errors \ {m}}
        BY DEF WatchCompile
    <2>3. ASSUME NEW r \in Request, Fetch(r, n) PROVE FALSE
        BY <2>1, <2>3 DEF Fetch
    <2> QED  BY <2>1, <2>2, <2>3 DEF Requested
<1>3. CASE \E s \in Request, m \in Module : Fetch(s, m)
    <2> PICK s \in Request, m \in Module : Fetch(s, m)
        BY <1>3
    <2>1. UNCHANGED <<disk, served, errors>> /\ request[s] = None /\ m \in refetch /\ refetch' = refetch \ {m}
        BY DEF Fetch, files, server
    <2>2. request' = IF disk[m].text = "gone" THEN request ELSE [request EXCEPT ![s] = Compile(m)]
        BY DEF Fetch
    <2>3. disk[m].text # "gone" => Compile(m) # None /\ Compile(m).file = m
        BY CompileResult, NoneAssumption
    <2>4. \A r \in Request : request[r] # None => request'[r] = request[r]
        BY <2>1, <2>2 DEF TypeOK
    <2>5. disk[m].text # "gone" => Requested(m)'
        BY <2>2, <2>3 DEF TypeOK, Requested
    <2>6. ASSUME NEW r \in Request, Fetch(r, n) PROVE n = m
        BY <2>1, <2>6 DEF Fetch
    <2> QED  BY <2>1, <2>4, <2>5, <2>6 DEF Requested
<1>4. CASE \E s \in Request : Respond(s)
    <2> PICK s \in Request : Respond(s)
        BY <1>4
    <2>1. UNCHANGED <<disk, errors, refetch>>
          /\ request' = [request EXCEPT ![s] = None]
          /\ served' = [served EXCEPT ![request[s].file] = request[s].version]
        BY DEF Respond, files
    <2>2. \A r \in Request : r # s => request'[r] = request[r]
        BY <2>1 DEF TypeOK
    <2>3. served'[n] = served[n] \/ request[s].file = n
        BY <2>1 DEF TypeOK
    <2>4. ASSUME NEW r \in Request, Fetch(r, n) PROVE FALSE
        BY <2>1, <2>4 DEF Fetch
    <2> QED  BY <2>1, <2>2, <2>3, <2>4 DEF Requested, RespondsTo
<1>7. CASE \E s \in Request : Store(s) \/ ScanSource(s)
    <2> PICK s \in Request : Store(s) \/ ScanSource(s)
        BY <1>7
    <2>1. /\ UNCHANGED <<disk, served, errors, refetch>> /\ request[s] # None
          /\ request' = [request EXCEPT ![s] = Stored(request[s])]
             \/ request' = [request EXCEPT ![s] = Scanned(request[s])]
        BY DEF Store, ScanSource, files, server, page
    <2>2. request[s] \in Result
        BY <2>1 DEF TypeOK
    <2>3. /\ Stored(request[s]) \in Result /\ Scanned(request[s]) \in Result
          /\ Stored(request[s]).file = request[s].file /\ Scanned(request[s]).file = request[s].file
        BY <2>2, StoreResult, ScanResult
    <2>4. /\ request'[s] \in {Stored(request[s]), Scanned(request[s])}
          /\ \A r \in Request : r # s => request'[r] = request[r]
        BY <2>1 DEF TypeOK
    <2>5. request'[s] # None /\ request'[s].file = request[s].file
        BY <2>3, <2>4, NoneAssumption
    <2>6. ASSUME NEW r \in Request, Fetch(r, n) PROVE FALSE
        BY <2>1, <2>6 DEF Fetch
    <2> QED  BY <2>1, <2>4, <2>5, <2>6 DEF Requested
<1>5. CASE \E t \in tasks : RunTask(t)
    <2> PICK t \in tasks : RunTask(t)
        BY <1>5
    <2>1. UNCHANGED <<disk, served, request>> /\ refetch' = refetch
          /\ errors' \in {errors \cup {t.file}, errors \ {t.file}}
        BY DEF RunTask, files, page
    <2>2. ASSUME NEW r \in Request, Fetch(r, n) PROVE FALSE
        BY <2>1, <2>2 DEF Fetch
    <2> QED  BY <2>1, <2>2 DEF Requested
<1>6. CASE \/ \E m \in Module : Visit(m)
           \/ TakeBatch \/ WatchStore \/ WatchScan \/ WatchUpdate \/ WatchInvalidate
           \/ Connect \/ Disconnect \/ Receive
           \/ UNCHANGED vars
    <2>1. UNCHANGED <<disk, served, request, errors>> /\ (n \in refetch => n \in refetch')
        BY <1>6 DEF Visit, TakeBatch, WatchStore, WatchScan, WatchUpdate, WatchInvalidate, Connect,
                    Disconnect, Receive, vars, files, server, page
    <2>2. ASSUME NEW r \in Request, Fetch(r, n) PROVE FALSE
        BY <2>1, <2>2 DEF Fetch
    <2> QED  BY <2>1, <2>2 DEF Requested
<1> QED  BY <1>1, <1>2, <1>3, <1>4, <1>5, <1>6, <1>7 DEF Next, Work

(* A response puts its task among those to run; only running one takes it. *)
LEMMA StepOnTasks ==
    ASSUME [Next]_vars
    PROVE  /\ \A s \in Request : Respond(s) => Reply(s) \in tasks'
           /\ \A t \in tasks' \ tasks : \E s \in Request : Respond(s) /\ t = Reply(s)
           /\ \A t \in tasks \ tasks' : RunTask(t)
<1>1. ASSUME NEW s \in Request, Respond(s) PROVE tasks' = tasks \cup {Reply(s)}
    BY <1>1 DEF Respond, Reply
<1>2. CASE \E s \in Request : Respond(s)
    BY <1>1, <1>2
<1>3. CASE \E t \in tasks : RunTask(t)
    BY <1>1, <1>3 DEF RunTask
<1>4. CASE \/ \E m \in Module : Save(m) \/ Visit(m) \/ WatchCompile(m)
           \/ TakeBatch \/ WatchStore \/ WatchScan \/ WatchUpdate \/ WatchInvalidate
           \/ Connect \/ Disconnect \/ Receive
           \/ \E r \in Request, m \in Module : Fetch(r, m)
           \/ \E r \in Request : Store(r) \/ ScanSource(r)
           \/ UNCHANGED vars
    <2>1. tasks' = tasks
        BY <1>4 DEF Save, Visit, WatchCompile, TakeBatch, WatchStore, WatchScan, WatchUpdate,
                    WatchInvalidate, Connect, Disconnect, Receive, Fetch, Store, ScanSource, vars, server
    <2> QED  BY <1>1, <2>1
<1> QED  BY <1>2, <1>3, <1>4 DEF Next, Work
LEMMA ServedStep ==
    ASSUME IInv, PInv, [Next]_vars
    PROVE  ServedOrAwaited'
<1> SUFFICES ASSUME NEW n \in Module, disk'[n].text # "gone", ~ Unsettled(n)'
             PROVE  served'[n] \in {0, disk'[n].version} \/ Told(n)' \/ Requested(n)'
    BY DEF ServedOrAwaited
<1>0. TypeOK /\ Truth /\ MessagesNameTheirChange
    BY DEF IInv, PInv
<1>1. disk'[n] = disk[n]
    BY <1>0, StepOn
<1>2. CASE Unsettled(n)
    <2>1. WatchInvalidate /\ n = compiled.file
        BY <1>1, <1>2, Settling
    <2> QED  BY <1>0, <2>1, TellingLasts
<1>3. CASE ~ Unsettled(n) /\ RespondsTo(n)
    <2> PICK s \in Request : Respond(s) /\ request[s].file = n
        BY <1>3 DEF RespondsTo
    <2>1. request[s].version = disk[n].version
        BY <1>0, <1>3, SettledResult DEF Respond
    <2>2. served'[n] = request[s].version
        BY <1>0 DEF Respond, TypeOK
    <2> QED  BY <1>1, <2>1, <2>2
<1>4. CASE ~ Unsettled(n) /\ ~ RespondsTo(n)
    <2>1. served[n] \in {0, disk[n].version} \/ Told(n) \/ Requested(n)
        BY <1>1, <1>4 DEF PInv, ServedOrAwaited
    <2>2. served'[n] = served[n] /\ (Requested(n) => Requested(n)')
        BY <1>0, <1>4, StepOn
    <2>3. Told(n) => Told(n)' \/ Requested(n)'
        BY <1>0, <1>1, TellingLasts, StepOn
    <2> QED  BY <1>1, <2>1, <2>2, <2>3
<1> QED  BY <1>2, <1>3, <1>4
LEMMA GoneIsDirtyStep ==
    ASSUME TypeOK, GoneIsDirty, [Next]_vars
    PROVE  GoneIsDirty'
<1>1. CASE \E m \in Module : Save(m)
    <2> PICK m \in Module : Save(m)
        BY <1>1
    <2>1. /\ UNCHANGED <<watching, compiled, batch>> /\ dirty \subseteq dirty'
          /\ m \in dirty' \cup batch' \cup unheard'
          /\ \A n \in unheard : n \in unheard' \cup dirty'
          /\ \A n \in Module : n # m => disk'[n] = disk[n]
        BY DEF Save, TypeOK, watcher
    <2>2. watching # "idle" => compiled.file \in Module
        BY DEF TypeOK, Result
    <2> QED  BY <2>1, <2>2 DEF GoneIsDirty
<1>2. CASE \E m \in Module : WatchCompile(m)
    <2> PICK m \in Module : WatchCompile(m)
        BY <1>2
    <2>1. watching = "idle" /\ disk' = disk
        BY DEF WatchCompile, files
    <2>2. watching' = "idle" \/ (disk[m].text # "gone" /\ compiled'.file = m)
        BY <2>1, CompileResult DEF WatchCompile
    <2> QED  BY <2>1, <2>2 DEF GoneIsDirty
<1>3. CASE TakeBatch
    BY <1>3 DEF TakeBatch, files, GoneIsDirty
<1>4. CASE WatchInvalidate
    BY <1>4 DEF WatchInvalidate, GoneIsDirty
<1>5. CASE WatchStore \/ WatchScan \/ WatchUpdate
    <2>1. UNCHANGED <<disk, dirty, batch, unheard>> /\ watching = "compiled"
        BY <1>5 DEF WatchStore, WatchScan, WatchUpdate, files
    <2>2. compiled \in Result
        BY <2>1 DEF TypeOK
    <2>3. compiled'.file = compiled.file
        BY <1>5, <2>2, StoreResult, ScanResult DEF WatchStore, WatchScan, WatchUpdate, Result
    <2> QED  BY <2>1, <2>3 DEF GoneIsDirty
<1>6. CASE \/ \E m \in Module : Visit(m)
           \/ Connect \/ Disconnect \/ Receive
           \/ \E r \in Request, m \in Module : Fetch(r, m)
           \/ \E r \in Request : Store(r) \/ ScanSource(r) \/ Respond(r)
           \/ \E t \in tasks : RunTask(t)
           \/ UNCHANGED vars
    <2>1. UNCHANGED <<disk, dirty, batch, unheard, compiled, watching>>
        BY <1>6 DEF Visit, Connect, Disconnect, Receive, Fetch, Store, ScanSource, Respond, RunTask, vars,
                    files, watcher
    <2> QED  BY <2>1 DEF GoneIsDirty
<1> QED  BY <1>1, <1>2, <1>3, <1>4, <1>5, <1>6 DEF Next, Work

(* When a file settles no task on it is left; if it is gone it has been    *)
(* reported, and otherwise the page is told.                               *)
LEMMA WhenSettled ==
    ASSUME IInv, PInv, NEW n \in Module, [Next]_vars, Unsettled(n), ~ Unsettled(n)'
    PROVE  ~ Reported(n)' /\ IF disk'[n].text = "gone" THEN n \in errors' ELSE Told(n)'
<1>0. TypeOK
    BY DEF IInv
<1>1. ~ Reported(n)
    BY Settling DEF Straggling, Reported
<1>2. CASE WatchCompile(n) /\ disk[n].text = "gone"
    BY <1>1, <1>2 DEF WatchCompile, Reported, files
<1>3. CASE WatchInvalidate /\ n = compiled.file
    <2>1. watching = "updated" /\ dirty' = dirty /\ tasks' = tasks /\ disk' = disk
        BY <1>3 DEF WatchInvalidate, files
    <2>2. disk[n].text # "gone"
        BY <1>3, <2>1 DEF PInv, GoneIsDirty, Unsettled, InHand, Undisturbed, WatchInvalidate, files
    <2>3. Told(n)'
        BY <1>3, TellingLasts DEF PInv
    <2> QED  BY <1>1, <2>1, <2>2, <2>3 DEF Reported
<1> QED  BY <1>2, <1>3, Settling

LEMMA TasksStep ==
    ASSUME IInv, PInv, [Next]_vars
    PROVE  TasksAreTrue'
<1> SUFFICES ASSUME NEW t \in tasks', ~ Unsettled(t.file)'
             PROVE  t.op = "report" <=> disk'[t.file].text # "good"
    BY DEF TasksAreTrue
<1> DEFINE n == t.file
<1>0. TypeOK /\ Truth
    BY DEF IInv, PInv
<1>1. n \in Module
    <2>1. CASE t \in tasks
        BY <1>0, <2>1 DEF TypeOK, Task
    <2>2. CASE t \notin tasks
        <3> PICK s \in Request : Respond(s) /\ t = Reply(s)
            BY <2>2, StepOnTasks
        <3> QED  BY <1>0 DEF Respond, Reply, TypeOK, Result
    <2> QED  BY <2>1, <2>2
<1>2. disk'[n] = disk[n]
    BY <1>0, <1>1, StepOn
<1>3. ~ Unsettled(n)
    BY <1>1, WhenSettled DEF Reported
<1>4. CASE t \in tasks
    BY <1>2, <1>3, <1>4 DEF PInv, TasksAreTrue
<1>5. CASE t \notin tasks
    <2> PICK s \in Request : Respond(s) /\ t = Reply(s)
        BY <1>5, StepOnTasks
    <2>1. request[s].text = disk[n].text /\ request[s].text \in {"good", "broken"}
        BY <1>0, <1>3, SettledResult DEF Respond, Reply, Result
    <2> QED  BY <1>2, <2>1 DEF Reply
<1> QED  BY <1>4, <1>5

LEMMA ErrorsStep ==
    ASSUME IInv, PInv, [Next]_vars
    PROVE  GoneAreErrors' /\ ErrorsOrAwaited'
<1> SUFFICES ASSUME NEW n \in Module, ~ Unsettled(n)'
             PROVE  IF disk'[n].text = "gone" THEN n \in errors'
                    ELSE \/ n \in errors' <=> disk'[n].text # "good"
                         \/ Told(n)' \/ Requested(n)' \/ Reported(n)'
    BY DEF GoneAreErrors, ErrorsOrAwaited
<1>0. TypeOK /\ Truth /\ MessagesNameTheirChange
    BY DEF IInv, PInv
<1>1. disk'[n] = disk[n]
    BY <1>0, StepOn
<1>2. CASE Unsettled(n)
    BY <1>2, WhenSettled
<1>3. CASE ~ Unsettled(n)
    <2>1. ~ WatchCompile(n)
        BY <1>3 DEF WatchCompile, Unsettled, InHand
    <2>2. CASE \E t \in tasks : t.file = n /\ RunTask(t)
        <3> PICK t \in tasks : t.file = n /\ RunTask(t)
            BY <2>2
        <3>1. n \in errors' <=> t.op = "report"
            BY DEF RunTask
        <3>2. t.op = "report" <=> disk[n].text # "good"
            BY <1>3 DEF PInv, TasksAreTrue
        <3> QED  BY <1>1, <3>1, <3>2
    <2>3. CASE ~ \E t \in tasks : t.file = n /\ RunTask(t)
        <3>1. n \in errors <=> n \in errors'
            BY <1>0, <2>1, <2>3, StepOn
        <3>2. Reported(n) => Reported(n)'
            BY <2>3, StepOnTasks DEF Reported
        <3>3. RespondsTo(n) => Reported(n)'
            BY StepOnTasks DEF RespondsTo, Reply, Reported
        <3>4. Requested(n) => Requested(n)' \/ Reported(n)'
            BY <1>0, <3>3, StepOn
        <3>5. disk[n].text # "gone" /\ Told(n) => Told(n)' \/ Requested(n)'
            BY <1>0, TellingLasts, StepOn
        <3> QED  BY <1>1, <1>3, <3>1, <3>2, <3>4, <3>5 DEF PInv, GoneAreErrors, ErrorsOrAwaited
    <2> QED  BY <2>2, <2>3
<1> QED  BY <1>2, <1>3

THEOREM Delivery == Spec => []PInv
<1>1. IInv /\ PInv /\ [Next]_vars => PInv'
    <2> SUFFICES ASSUME IInv, PInv, [Next]_vars PROVE PInv'
        OBVIOUS
    <2>1. TypeOK /\ Truth /\ GoneIsDirty /\ MessagesNameTheirChange
        BY DEF IInv, PInv
    <2> QED  BY <2>1, NextTruth, GoneIsDirtyStep, TellingLasts, ServedStep, TasksStep, ErrorsStep DEF PInv
<1> QED  BY <1>1, InitPInv, Inductive, PTL DEF Spec

(* Once everything has settled the page has the latest text of every file  *)
(* it loaded, but for those it was not told of, those the watcher was not  *)
(* told of and those a request was overtaken on (WatchInvalidate's         *)
(* broadcast, handleUpdate, the handler, the callback's try_send).         *)
THEOREM PageCurrent == Spec => []PageIsCurrent
<1>1. PInv => PageIsCurrent
    <2> SUFFICES ASSUME PInv, AtRest, NEW m \in Module \ missed, Undisturbed(m), disk[m].text # "gone"
                 PROVE  served[m] \in {0, disk[m].version}
        BY DEF PageIsCurrent
    <2>1. ~ Unsettled(m) /\ ~ Told(m) /\ ~ Requested(m)
        BY DEF AtRest, Unsettled, InHand, Told, Unread, Requested
    <2> QED  BY <2>1 DEF PInv, ServedOrAwaited
<1> QED  BY <1>1, Delivery, PTL

(* Once everything has settled the files with a build error are those that *)
(* do not compile and those that are gone, with the same exceptions        *)
(* (handle_source_file's reports and clears, the watcher's clear_file).    *)
THEOREM ErrorsTrue == Spec => []ErrorsAreTrue
<1>1. PInv => ErrorsAreTrue
    <2> SUFFICES ASSUME PInv, AtRest, NEW m \in Module \ missed, Undisturbed(m)
                 PROVE  m \in errors <=> disk[m].text # "good"
        BY DEF ErrorsAreTrue
    <2>1. ~ Unsettled(m) /\ ~ Told(m) /\ ~ Requested(m) /\ ~ Reported(m)
        BY DEF AtRest, Unsettled, InHand, Told, Unread, Requested, Reported
    <2> QED  BY <2>1 DEF PInv, ErrorsOrAwaited
<1> QED  BY <1>1, Delivery, PTL
-----------------------------------------------------------------------------
(* Whom a change reaches.                                                  *)

(* The search finds its start, and the dependents of whatever it finds     *)
(* (get_transitive_dependents). *)
LEMMA SearchIsClosed ==
    ASSUME NEW g \in Graphs, NEW path \in Key
    PROVE  /\ path \in TransitiveDependents(g, path)
           /\ \A k \in TransitiveDependents(g, path) :
                  g.dependents[k] \subseteq TransitiveDependents(g, path)
<1> DEFINE importers == UNION {g.dependents[k] : k \in Key}
           closed == {found \in SUBSET importers :
                         \A k \in found \cup {path} : g.dependents[k] \subseteq found}
           reached == {path} \cup {k \in importers : \A found \in closed : k \in found}
<1>1. TransitiveDependents(g, path) = reached
    BY DEF TransitiveDependents
<1>2. ASSUME NEW k \in reached, NEW l \in g.dependents[k]
      PROVE  l \in reached
    <2>1. g.dependents \in [Key -> SUBSET Key]
        BY DEF Graphs
    <2>2. k \in Key
        BY <2>1
    <2>3. l \in importers
        BY <2>2
    <2>4. ASSUME NEW found \in closed PROVE l \in found
        BY <2>4
    <2> QED  BY <2>3, <2>4
<1> QED  BY <1>1, <1>2

(* The watcher has yet to update the graph for the last change of k. *)
Unlinked(k) == k \in dirty \cup batch \/ (watching = "compiled" /\ compiled.file = k)

(* A known file is a dependent of whatever its present text imports. *)
EdgesAreKnown ==
    \A k \in Module : Known(k) /\ ~ Unlinked(k) =>
        \A d \in Linked(k) : disk[d].text # "gone" => d \in graph.dependencies[k]

(* A scan of the present text found what that text imports, and one that   *)
(* found no text is of a file that was saved since the server started.     *)
Faithful(result) ==
    /\ result.next # "update" => result.scanned = 0
    /\ result.scanned <= disk[result.file].version
    /\ result.scanned = disk[result.file].version =>
           \A d \in Linked(result.file) : disk[d].text # "gone" => d \in result.links
    /\ result.next = "update" /\ result.scanned = 0 => disk[result.file].version > 1

ScansAreFaithful ==
    /\ \A r \in Request : request[r] # None => Faithful(request[r])
    /\ watching = "compiled" => Faithful(compiled)

(* Scans of an older text are of files the watcher has yet to update the   *)
(* graph for, or was outrun on, or did not hear of, or of files now gone.  *)
Excused(k) == Unlinked(k) \/ k \in outrun \cup unheard \/ disk[k].text = "gone"

OldScansAreKnown == \A k \in Module : Outdated(k) => Excused(k)

WatcherScanIsKnown ==
    watching = "compiled" /\ compiled.next = "update" /\ compiled.scanned # disk[compiled.file].version =>
        compiled.file \in dirty \cup batch \cup unheard \/ disk[compiled.file].text = "gone"

EInv == ScansAreFaithful /\ OldScansAreKnown /\ WatcherScanIsKnown /\ EdgesAreKnown

LEMMA ScanIsFaithful ==
    ASSUME TypeOK, FirstIsGood, NEW result \in Result, Faithful(result), result.next # "update"
    PROVE  Faithful(Scanned(result))
<1> DEFINE m == result.file
<1>1. m \in Module /\ disk[m].version \in Nat /\ disk[m].version # 0
    BY EntryType, BoundsAssumption DEF Result, Version
<1>2. CASE disk[m].text = "gone"
    <2>1. /\ Scanned(result).file = m /\ Scanned(result).scanned = 0
          /\ Scanned(result).next = "update"
        BY <1>2 DEF Scanned, Result, Faithful
    <2>2. disk[m].version > 1
        BY <1>1, <1>2 DEF FirstIsGood
    <2> QED  BY <1>1, <2>1, <2>2 DEF Faithful
<1>3. CASE disk[m].text # "gone"
    <2>1. /\ Scanned(result).file = m /\ Scanned(result).scanned = disk[m].version
          /\ Scanned(result).next = "update" /\ Scanned(result).links = Scan(m)
        BY <1>3 DEF Scanned, Result
    <2>2. \A d \in Linked(m) : disk[d].text # "gone" => d \in Scan(m)
        BY DEF Linked, Scan
    <2> QED  BY <1>1, <2>1, <2>2 DEF Faithful
<1> QED  BY <1>2, <1>3

(* What is held stays faithful while no file changes, and when one does. *)
LEMMA FaithfulLasts ==
    ASSUME TypeOK, [Next]_vars, NEW result \in Result, Faithful(result)
    PROVE  Faithful(result)'
<1> DEFINE k == result.file
<1>0. k \in Module /\ result.scanned \in Nat /\ disk[k].version \in Nat
    BY EntryType, BoundsAssumption DEF Result, Version
<1>1. CASE \E m \in Module : Save(m)
    <2> PICK m \in Module : Save(m)
        BY <1>1
    <2>1. /\ disk'[m].version = disk[m].version + 1
          /\ \A n \in Module : n # m => disk'[n] = disk[n]
          /\ reborn' = IF disk[m].text = "gone" THEN reborn \cup {m} ELSE reborn
        BY DEF Save, TypeOK
    <2>2. CASE k = m
        BY <1>0, <2>1, <2>2 DEF Faithful
    <2>3. CASE k # m
        <3>1. ASSUME NEW d \in Linked(k)', disk'[d].text # "gone"
              PROVE  d \in Linked(k) /\ disk[d].text # "gone"
            <4>1. d \in Module
                BY <1>0, <2>1, <2>3, <3>1, EntryType DEF Linked
            <4> QED  BY <1>0, <2>1, <2>3, <3>1, <4>1 DEF Linked
        <3> QED  BY <1>0, <2>1, <2>3, <3>1 DEF Faithful
    <2> QED  BY <2>2, <2>3
<1>2. CASE ~ \E m \in Module : Save(m)
    <2>1. UNCHANGED <<disk, reborn>>
        BY <1>2 DEF Next, Work, Visit, TakeBatch, WatchCompile, WatchStore, WatchScan, WatchUpdate,
                    WatchInvalidate, Connect, Disconnect, Receive, Fetch, Store, ScanSource, Respond,
                    RunTask, vars, files
    <2> QED  BY <2>1 DEF Faithful, Linked
<1> QED  BY <1>1, <1>2

LEMMA ScansStep ==
    ASSUME TypeOK, Truth, ScansAreFaithful, [Next]_vars
    PROVE  ScansAreFaithful'
<1>0. FirstIsGood
    BY DEF Truth
<1>1. \A r \in Request : request[r] # None => request[r] \in Result /\ Faithful(request[r])
    BY DEF TypeOK, ScansAreFaithful
<1>2. watching = "compiled" => compiled \in Result /\ Faithful(compiled)
    BY DEF TypeOK, ScansAreFaithful
<1>3. ASSUME NEW result \in Result, Faithful(result), result.next # "update"
      PROVE  /\ Stored(result) \in Result /\ Faithful(Stored(result))
             /\ Scanned(result) \in Result /\ Faithful(Scanned(result))
    <2>1. Faithful(Stored(result))
        BY <1>3, StoreResult DEF Faithful
    <2> QED  BY <1>0, <1>3, <2>1, StoreResult, ScanResult, ScanIsFaithful
<1>4. ASSUME NEW m \in Module, disk[m].text # "gone"
      PROVE  Compile(m) \in Result /\ Faithful(Compile(m))
    <2>1. disk[m].version \in Nat /\ disk[m].version # 0
        BY EntryType, BoundsAssumption DEF Version
    <2>2. Compile(m) \in Result /\ Compile(m).file = m /\ Compile(m).scanned = 0
        BY <1>4, CompileResult
    <2>3. Compile(m).next # "update"
        BY DEF Compile
    <2> QED  BY <2>1, <2>2, <2>3 DEF Faithful
<1>5. \A r \in Request : request'[r] # None => request'[r] \in Result /\ Faithful(request'[r])
    <2>1. CASE \E s \in Request, m \in Module : Fetch(s, m)
        <3> PICK s \in Request, m \in Module : Fetch(s, m)
            BY <2>1
        <3>1. request' = request \/ (disk[m].text # "gone" /\ request' = [request EXCEPT ![s] = Compile(m)])
            BY DEF Fetch
        <3> QED  BY <1>1, <1>4, <3>1 DEF TypeOK
    <2>2. CASE \E s \in Request : Store(s)
        <3> PICK s \in Request : Store(s)
            BY <2>2
        <3>1. /\ request[s] # None /\ request[s].next = "store"
              /\ request' = [request EXCEPT ![s] = Stored(request[s])]
            BY DEF Store
        <3>2. request'[s] = Stored(request[s]) /\ \A r \in Request : r # s => request'[r] = request[r]
            BY <3>1 DEF TypeOK
        <3> QED  BY <1>1, <1>3, <3>1, <3>2
    <2>3. CASE \E s \in Request : ScanSource(s)
        <3> PICK s \in Request : ScanSource(s)
            BY <2>3
        <3>1. /\ request[s] # None /\ request[s].next = "scan"
              /\ request' = [request EXCEPT ![s] = Scanned(request[s])]
            BY DEF ScanSource
        <3>2. request'[s] = Scanned(request[s]) /\ \A r \in Request : r # s => request'[r] = request[r]
            BY <3>1 DEF TypeOK
        <3> QED  BY <1>1, <1>3, <3>1, <3>2
    <2>4. CASE \E s \in Request : Respond(s)
        <3> PICK s \in Request : Respond(s)
            BY <2>4
        <3>1. request' = [request EXCEPT ![s] = None]
            BY DEF Respond
        <3> QED  BY <1>1, <3>1 DEF TypeOK
    <2>5. CASE \/ \E m \in Module : Save(m) \/ Visit(m) \/ WatchCompile(m)
               \/ TakeBatch \/ WatchStore \/ WatchScan \/ WatchUpdate \/ WatchInvalidate
               \/ Connect \/ Disconnect \/ Receive
               \/ \E t \in tasks : RunTask(t)
               \/ UNCHANGED vars
        <3>1. request' = request
            BY <2>5 DEF Save, Visit, WatchCompile, TakeBatch, WatchStore, WatchScan, WatchUpdate,
                        WatchInvalidate, Connect, Disconnect, Receive, RunTask, vars
        <3> QED  BY <1>1, <3>1
    <2> QED  BY <2>1, <2>2, <2>3, <2>4, <2>5 DEF Next, Work
<1>6. watching' = "compiled" => compiled' \in Result /\ Faithful(compiled')
    <2>1. CASE \E m \in Module : WatchCompile(m)
        <3> PICK m \in Module : WatchCompile(m)
            BY <2>1
        <3>1. watching = "idle" /\ (watching' = "idle" \/ (disk[m].text # "gone" /\ compiled' = Compile(m)))
            BY DEF WatchCompile
        <3> QED  BY <1>4, <3>1
    <2>2. CASE WatchStore
        BY <1>2, <1>3, <2>2 DEF WatchStore
    <2>3. CASE WatchScan
        BY <1>2, <1>3, <2>3 DEF WatchScan
    <2>4. CASE WatchUpdate \/ WatchInvalidate
        BY <2>4 DEF WatchUpdate, WatchInvalidate
    <2>5. CASE \/ \E m \in Module : Save(m) \/ Visit(m)
               \/ TakeBatch \/ Connect \/ Disconnect \/ Receive
               \/ \E r \in Request, m \in Module : Fetch(r, m)
               \/ \E r \in Request : Store(r) \/ ScanSource(r) \/ Respond(r)
               \/ \E t \in tasks : RunTask(t)
               \/ UNCHANGED vars
        <3>1. UNCHANGED <<watching, compiled>>
            BY <2>5 DEF Save, Visit, TakeBatch, Connect, Disconnect, Receive, Fetch, Store, ScanSource,
                        Respond, RunTask, vars, watcher
        <3> QED  BY <1>2, <3>1
    <2> QED  BY <2>1, <2>2, <2>3, <2>4, <2>5 DEF Next, Work
<1>7. \A result \in Result : Faithful(result) => Faithful(result)'
    BY FaithfulLasts
<1> QED  BY <1>5, <1>6, <1>7 DEF ScansAreFaithful

LEMMA OldScansStep ==
    ASSUME TypeOK, ScansAreFaithful, OldScansAreKnown, [Next]_vars
    PROVE  OldScansAreKnown'
<1> SUFFICES ASSUME NEW k \in Module, Outdated(k)' PROVE Excused(k)'
    BY DEF OldScansAreKnown
<1>1. PICK r \in Request : /\ request'[r] # None /\ request'[r].file = k
                           /\ request'[r].scanned \notin {0, disk'[k].version}
    BY DEF Outdated
<1>2. CASE \E m \in Module : Save(m)
    <2> PICK m \in Module : Save(m)
        BY <1>2
    <2>1. /\ UNCHANGED <<batch, watching, compiled, outrun, request>>
          /\ dirty \subseteq dirty' /\ m \in dirty' \cup batch' \cup unheard'
          /\ \A n \in unheard : n \in unheard' \cup dirty'
          /\ \A n \in Module : n # m => disk'[n] = disk[n]
        BY DEF Save, TypeOK, watcher, history
    <2>2. CASE k = m
        BY <2>1, <2>2 DEF Excused, Unlinked
    <2>3. CASE k # m
        BY <1>1, <2>1, <2>3 DEF OldScansAreKnown, Outdated, Excused, Unlinked
    <2> QED  BY <2>2, <2>3
<1>3. CASE WatchUpdate
    <2>1. /\ UNCHANGED <<disk, request, dirty, batch, unheard>>
          /\ watching = "compiled" /\ watching' = "updated"
          /\ outrun' = IF Outdated(compiled.file) THEN outrun \cup {compiled.file}
                       ELSE outrun \ {compiled.file}
        BY <1>3 DEF WatchUpdate, files
    <2>2. Outdated(k)
        BY <1>1, <2>1 DEF Outdated
    <2> QED  BY <2>1, <2>2 DEF OldScansAreKnown, Excused, Unlinked
<1>4. CASE \E m \in Module : WatchCompile(m)
    <2> PICK m \in Module : WatchCompile(m)
        BY <1>4
    <2>1. /\ UNCHANGED <<disk, request, dirty, unheard, outrun>>
          /\ watching = "idle" /\ batch' = batch \ {m}
        BY DEF WatchCompile, files
    <2>2. disk[m].text # "gone" => watching' = "compiled" /\ compiled'.file = m
        BY CompileResult DEF WatchCompile
    <2>3. Excused(k)
        BY <1>1, <2>1 DEF OldScansAreKnown, Outdated
    <2> QED  BY <2>1, <2>2, <2>3 DEF Excused, Unlinked
<1>5. CASE WatchStore \/ WatchScan
    <2>1. UNCHANGED <<disk, request, dirty, batch, unheard, outrun, watching>> /\ watching = "compiled"
        BY <1>5 DEF WatchStore, WatchScan, files, history
    <2>2. compiled \in Result
        BY <2>1 DEF TypeOK
    <2>3. compiled'.file = compiled.file
        BY <1>5, <2>2, StoreResult, ScanResult DEF WatchStore, WatchScan
    <2> QED  BY <1>1, <2>1, <2>3 DEF OldScansAreKnown, Outdated, Excused, Unlinked
<1>6. CASE \/ \E m \in Module : Visit(m)
           \/ TakeBatch \/ WatchInvalidate \/ Connect \/ Disconnect \/ Receive
           \/ \E s \in Request, m \in Module : Fetch(s, m)
           \/ \E s \in Request : Store(s) \/ ScanSource(s) \/ Respond(s)
           \/ \E t \in tasks : RunTask(t)
           \/ UNCHANGED vars
    <2>1. /\ UNCHANGED <<disk, unheard, outrun>>
          /\ dirty \cup batch = dirty' \cup batch'
          /\ watching' = "compiled" \/ watching # "compiled"
          /\ watching = "compiled" => compiled' = compiled
        BY <1>6 DEF Visit, TakeBatch, WatchInvalidate, Connect, Disconnect, Receive, Fetch, Store, ScanSource,
                    Respond, RunTask, vars, files, watcher, history
    <2>2. Outdated(k)
        <3>1. CASE \E s \in Request, m \in Module : Fetch(s, m)
            <4> PICK s \in Request, m \in Module : Fetch(s, m)
                BY <3>1
            <4>1. \/ request' = request
                  \/ disk[m].text # "gone" /\ request' = [request EXCEPT ![s] = Compile(m)]
                BY DEF Fetch
            <4>2. Compile(m).scanned = 0
                BY DEF Compile
            <4> QED  BY <1>1, <2>1, <4>1, <4>2 DEF Outdated, TypeOK
        <3>2. CASE \E s \in Request : Store(s) \/ ScanSource(s)
            <4> PICK s \in Request : Store(s) \/ ScanSource(s)
                BY <3>2
            <4>1. /\ request[s] # None /\ request[s] \in Result /\ request[s].next # "update"
                  /\ \/ request' = [request EXCEPT ![s] = Stored(request[s])]
                     \/ request' = [request EXCEPT ![s] = Scanned(request[s])]
                BY DEF Store, ScanSource, TypeOK
            <4>2. request[s].scanned = 0
                BY <4>1 DEF ScansAreFaithful, Faithful
            <4>3. request'[s] \in {Stored(request[s]), Scanned(request[s])}
                BY <4>1 DEF TypeOK
            <4>4. /\ Stored(request[s]).scanned = 0
                  /\ Scanned(request[s]).scanned \in {0, disk[request[s].file].version}
                  /\ Scanned(request[s]).file = request[s].file
                BY <4>1, <4>2, StoreResult, ScanResult DEF Scanned, Result
            <4>5. r # s
                BY <1>1, <2>1, <4>3, <4>4
            <4>6. request'[r] = request[r]
                BY <4>1, <4>5 DEF TypeOK
            <4> QED  BY <1>1, <2>1, <4>6 DEF Outdated
        <3>3. CASE \E s \in Request : Respond(s)
            <4> PICK s \in Request : Respond(s)
                BY <3>3
            <4>1. request' = [request EXCEPT ![s] = None]
                BY DEF Respond
            <4> QED  BY <1>1, <2>1, <4>1 DEF Outdated, TypeOK
        <3>4. CASE \/ \E m \in Module : Visit(m)
                   \/ TakeBatch \/ WatchInvalidate \/ Connect \/ Disconnect \/ Receive
                   \/ \E t \in tasks : RunTask(t)
                   \/ UNCHANGED vars
            <4>1. request' = request
                BY <3>4 DEF Visit, TakeBatch, WatchInvalidate, Connect, Disconnect, Receive, RunTask, vars
            <4> QED  BY <1>1, <2>1, <4>1 DEF Outdated
        <3> QED  BY <1>6, <3>1, <3>2, <3>3, <3>4
    <2> QED  BY <2>1, <2>2 DEF OldScansAreKnown, Excused, Unlinked
<1> QED  BY <1>2, <1>3, <1>4, <1>5, <1>6 DEF Next, Work

LEMMA WatcherScanStep ==
    ASSUME TypeOK, WatcherScanIsKnown, [Next]_vars
    PROVE  WatcherScanIsKnown'
<1> USE DEF WatcherScanIsKnown
<1>1. CASE \E m \in Module : Save(m)
    <2> PICK m \in Module : Save(m)
        BY <1>1
    <2>1. /\ UNCHANGED <<batch, watching, compiled>>
          /\ dirty \subseteq dirty' /\ m \in dirty' \cup batch' \cup unheard'
          /\ \A n \in unheard : n \in unheard' \cup dirty'
          /\ \A n \in Module : n # m => disk'[n] = disk[n]
        BY DEF Save, TypeOK, watcher
    <2>2. watching = "compiled" => compiled.file \in Module
        BY DEF TypeOK, Result
    <2> QED  BY <2>1, <2>2
<1>2. CASE \E m \in Module : WatchCompile(m)
    <2> PICK m \in Module : WatchCompile(m)
        BY <1>2
    <2>1. watching' = "compiled" => compiled' = Compile(m)
        BY DEF WatchCompile
    <2>2. Compile(m).next # "update"
        BY DEF Compile
    <2> QED  BY <2>1, <2>2
<1>3. CASE WatchStore
    <2>1. compiled \in Result /\ compiled' = Stored(compiled)
        BY <1>3 DEF WatchStore, TypeOK
    <2> QED  BY <2>1, StoreResult
<1>4. CASE WatchScan
    <2>1. compiled \in Result /\ compiled' = Scanned(compiled) /\ disk' = disk
        BY <1>4 DEF WatchScan, TypeOK, files
    <2>2. /\ Scanned(compiled).file = compiled.file
          /\ disk[compiled.file].text = "gone" \/ Scanned(compiled).scanned = disk[compiled.file].version
        BY <2>1, ScanResult DEF Scanned, Result
    <2> QED  BY <2>1, <2>2
<1>5. CASE WatchUpdate \/ WatchInvalidate
    BY <1>5 DEF WatchUpdate, WatchInvalidate
<1>6. CASE TakeBatch
    BY <1>6 DEF TakeBatch
<1>7. CASE \/ \E m \in Module : Visit(m)
           \/ Connect \/ Disconnect \/ Receive
           \/ \E s \in Request, m \in Module : Fetch(s, m)
           \/ \E s \in Request : Store(s) \/ ScanSource(s) \/ Respond(s)
           \/ \E t \in tasks : RunTask(t)
           \/ UNCHANGED vars
    <2>1. UNCHANGED <<disk, unheard, dirty, batch, watching, compiled>>
        BY <1>7 DEF Visit, Connect, Disconnect, Receive, Fetch, Store, ScanSource, Respond, RunTask, vars,
                    files, watcher
    <2> QED  BY <2>1
<1> QED  BY <1>1, <1>2, <1>3, <1>4, <1>5, <1>6, <1>7 DEF Next, Work

(* The graph is replaced by what a faithful scan found, or by nothing.     *)
LEMMA UpdateEdges ==
    ASSUME TypeOK, NEW result \in Result, UpdateGraph(result)
    PROVE  /\ \A k \in Module : k # result.file => graph'.dependencies[k] = graph.dependencies[k]
           /\ result.scanned # 0 => graph'.dependencies[result.file] = result.links
           /\ result.scanned = 0 => graph' = graph
<1>1. graph.dependencies \in [Key -> SUBSET Key] /\ Module \subseteq Key /\ result.file \in Module
    BY DEF TypeOK, Graphs, Key, Result
<1>2. CASE result.scanned = 0
    BY <1>2 DEF UpdateGraph
<1>3. CASE result.scanned # 0
    <2>1. graph'.dependencies = [graph.dependencies EXCEPT ![result.file] = result.links]
        BY <1>3 DEF UpdateGraph, UpdateModule
    <2> QED  BY <1>1, <1>3, <2>1
<1> QED  BY <1>2, <1>3

LEMMA EdgesStep ==
    ASSUME TypeOK, Truth, EInv, [Next]_vars
    PROVE  EdgesAreKnown'
<1> SUFFICES ASSUME NEW k \in Module, Known(k)', ~ Unlinked(k)',
                    NEW d \in Linked(k)', disk'[d].text # "gone"
             PROVE  d \in graph'.dependencies[k]
    BY DEF EdgesAreKnown
<1> USE DEF Unlinked
<1>0. EdgesAreKnown /\ ScansAreFaithful /\ OldScansAreKnown /\ WatcherScanIsKnown
    BY DEF EInv
<1>1. CASE \E m \in Module : Save(m)
    <2> PICK m \in Module : Save(m)
        BY <1>1
    <2>1. /\ UNCHANGED <<batch, watching, compiled, served, graph, outrun>>
          /\ dirty \subseteq dirty' /\ m \in dirty' \cup batch' \cup unheard'
          /\ \A n \in unheard : n \in unheard' \cup dirty'
          /\ \A n \in Module : n # m => disk'[n] = disk[n]
          /\ reborn' = IF disk[m].text = "gone" THEN reborn \cup {m} ELSE reborn
        BY DEF Save, TypeOK, watcher, server, page, history
    <2>2. k # m /\ disk'[k] = disk[k] /\ Known(k) /\ ~ Unlinked(k)
        BY <2>1 DEF Known
    <2>3. d \in Linked(k) /\ disk[d].text # "gone"
        <3>1. d \in Module
            BY <2>2, EntryType DEF Linked
        <3> QED  BY <2>1, <2>2, <3>1 DEF Linked
    <2> QED  BY <1>0, <2>1, <2>2, <2>3 DEF EdgesAreKnown
<1>2. CASE WatchUpdate
    <2> DEFINE m == compiled.file
    <2>1. /\ UNCHANGED <<disk, reborn, unheard, served, dirty, batch>>
          /\ watching = "compiled" /\ watching' = "updated"
          /\ compiled.next = "update" /\ UpdateGraph(compiled)
          /\ outrun \ {m} \subseteq outrun'
        BY <1>2 DEF WatchUpdate, files, page
    <2>2. compiled \in Result /\ m \in Module /\ Faithful(compiled) /\ disk[m].version # 0
        BY <1>0, <2>1, EntryType, BoundsAssumption DEF TypeOK, Result, ScansAreFaithful, Version
    <2>3. d \in Linked(k) /\ disk[d].text # "gone" /\ disk[k].text # "gone" /\ k \notin unheard
        BY <2>1 DEF Known, Linked
    <2> HIDE DEF m
    <2>4. CASE k = m
        <3>1. compiled.scanned = disk[m].version
            BY <1>0, <2>1, <2>3, <2>4 DEF WatcherScanIsKnown, m
        <3>2. d \in compiled.links
            BY <2>2, <2>3, <2>4, <3>1 DEF Faithful, m
        <3> QED  BY <2>1, <2>2, <2>4, <3>1, <3>2, UpdateEdges DEF m
    <2>5. CASE k # m
        <3>1. Known(k) /\ ~ Unlinked(k)
            BY <2>1, <2>5 DEF Known, m
        <3> QED  BY <1>0, <2>1, <2>2, <2>3, <2>5, <3>1, UpdateEdges DEF EdgesAreKnown, m
    <2> QED  BY <2>4, <2>5
<1>3. CASE \E s \in Request : Respond(s)
    <2> PICK s \in Request : Respond(s)
        BY <1>3
    <2> DEFINE m == request[s].file
    <2>1. /\ UNCHANGED <<disk, reborn, unheard, outrun, dirty, batch, watching, compiled>>
          /\ request[s] # None /\ request[s] \in Result
          /\ IF request[s].text = "broken" THEN UNCHANGED graph
             ELSE request[s].next = "update" /\ UpdateGraph(request[s])
          /\ \A n \in Module : n # m => served'[n] = served[n]
        BY DEF Respond, files, watcher, TypeOK, history
    <2>2. m \in Module /\ request[s].version \in Version /\ Faithful(request[s])
        BY <1>0, <2>1 DEF Result, ScansAreFaithful
    <2>3. /\ ~ Unlinked(k) /\ d \in Linked(k) /\ disk[d].text # "gone" /\ disk[k].text # "gone"
          /\ k \notin unheard \cup outrun
        BY <2>1 DEF Linked, Known
    <2> HIDE DEF m
    <2>4. CASE k # m
        <3>1. Known(k)
            BY <2>1, <2>3, <2>4 DEF Known
        <3> QED  BY <1>0, <2>1, <2>2, <2>3, <2>4, <3>1, UpdateEdges DEF EdgesAreKnown, m
    <2>5. CASE k = m /\ request[s].text # "broken" /\ request[s].scanned # 0
        <3>1. request[s].scanned = disk[k].version
            <4>1. ~ Outdated(k)
                BY <1>0, <2>3 DEF OldScansAreKnown, Excused
            <4> QED  BY <2>1, <2>5, <4>1 DEF Outdated, m
        <3>2. d \in request[s].links
            BY <2>2, <2>3, <2>5, <3>1 DEF Faithful, m
        <3> QED  BY <2>1, <2>5, <3>2, UpdateEdges DEF m
    <2>6. CASE k = m /\ (request[s].text = "broken" \/ request[s].scanned = 0)
        <3>1. disk[k].version > 1
            <4>1. CASE request[s].text = "broken"
                <5>1. Truthful(request[s])
                    BY <2>1 DEF Truth, ResultsAreTrue
                <5> QED  BY <2>2, <2>6, <4>1, <5>1, EntryType, BoundsAssumption
                         DEF Truth, FirstIsGood, Truthful, Version, m
            <4>2. CASE request[s].text # "broken"
                BY <2>1, <2>2, <2>6, <4>2 DEF Faithful, m
            <4> QED  BY <4>1, <4>2
        <3>2. Known(k)
            BY <2>3, <3>1 DEF Known
        <3>3. graph' = graph
            BY <2>1, <2>6, UpdateEdges
        <3> QED  BY <1>0, <2>3, <3>2, <3>3 DEF EdgesAreKnown
    <2> QED  BY <2>4, <2>5, <2>6
<1>4. CASE \E m \in Module : WatchCompile(m)
    <2> PICK m \in Module : WatchCompile(m)
        BY <1>4
    <2>1. /\ UNCHANGED <<disk, reborn, unheard, outrun, served, graph, dirty>>
          /\ watching = "idle" /\ batch' = batch \ {m}
        BY DEF WatchCompile, files, page
    <2>2. disk[k].text # "gone"
        BY <2>1 DEF Known
    <2>3. k # m
        BY <2>2, CompileResult DEF WatchCompile
    <2> QED  BY <1>0, <2>1, <2>3 DEF EdgesAreKnown, Known, Linked
<1>5. CASE WatchStore \/ WatchScan
    <2>1. /\ UNCHANGED <<disk, reborn, unheard, outrun, served, graph, dirty, batch, watching>>
          /\ watching = "compiled"
        BY <1>5 DEF WatchStore, WatchScan, files, page, server, history
    <2>2. compiled \in Result
        BY <2>1 DEF TypeOK
    <2>3. compiled'.file = compiled.file
        BY <1>5, <2>2, StoreResult, ScanResult DEF WatchStore, WatchScan
    <2> QED  BY <1>0, <2>1, <2>3 DEF EdgesAreKnown, Known, Linked
<1>6. CASE \/ \E m \in Module : Visit(m)
           \/ TakeBatch \/ WatchInvalidate \/ Connect \/ Disconnect \/ Receive
           \/ \E r \in Request, m \in Module : Fetch(r, m)
           \/ \E r \in Request : Store(r) \/ ScanSource(r)
           \/ \E t \in tasks : RunTask(t)
           \/ UNCHANGED vars
    <2>1. /\ UNCHANGED <<disk, reborn, unheard, outrun, served, graph>>
          /\ dirty \cup batch = dirty' \cup batch'
          /\ watching' = "compiled" \/ watching # "compiled"
          /\ watching = "compiled" => compiled' = compiled
        BY <1>6 DEF Visit, TakeBatch, WatchInvalidate, Connect, Disconnect, Receive, Fetch, Store, ScanSource,
                    RunTask, vars, files, watcher, server, page, history
    <2> QED  BY <1>0, <2>1 DEF EdgesAreKnown, Known, Linked
<1> QED  BY <1>1, <1>2, <1>3, <1>4, <1>5, <1>6 DEF Next, Work

THEOREM EdgesKept == Spec => []EInv
<1>1. Init => EInv
    BY DEF Init, EInv, ScansAreFaithful, OldScansAreKnown, Outdated, WatcherScanIsKnown, EdgesAreKnown, Known
<1>2. IInv /\ PInv /\ EInv /\ [Next]_vars => EInv'
    <2> SUFFICES ASSUME IInv, PInv, EInv, [Next]_vars PROVE EInv'
        OBVIOUS
    <2>1. TypeOK /\ Truth /\ ScansAreFaithful /\ OldScansAreKnown /\ WatcherScanIsKnown
        BY DEF IInv, PInv, EInv
    <2> QED  BY <2>1, ScansStep, OldScansStep, WatcherScanStep, EdgesStep DEF EInv
<1> QED  BY <1>1, <1>2, Inductive, Delivery, PTL DEF Spec

(* Once everything has settled, a change of a file that is there would     *)
(* invalidate every file that imports it, directly or through others, by   *)
(* imports the line scanner follows, of files the watcher was told of and  *)
(* was not outrun on (scan_local_dependencies, update_module,              *)
(* get_transitive_dependents).                                             *)
THEOREM CascadeReaches == Spec => []CascadeReachesImporters
<1>1. IInv /\ EInv => CascadeReachesImporters
    <2> SUFFICES ASSUME IInv, EInv, AtRest, NEW m \in Module, disk[m].text # "gone",
                        NEW k \in Importers(m)
                 PROVE  k \in TransitiveDependents(graph, m)
        BY DEF CascadeReachesImporters
    <2> DEFINE found == {n \in Module : n \in TransitiveDependents(graph, m) /\ disk[n].text # "gone"}
    <2>1. graph \in Graphs /\ Mirrored(graph) /\ m \in Key /\ Module \subseteq Key
        BY DEF IInv, TypeOK, GraphMirrored, Key
    <2>2. m \in found
        BY <2>1, SearchIsClosed
    <2>3. ASSUME NEW n \in Module \ found, Known(n), NEW d \in Linked(n) \cap found
          PROVE  FALSE
        <3>1. d \in graph.dependencies[n]
            BY <2>3 DEF AtRest, EInv, EdgesAreKnown, Unlinked
        <3>2. n \in graph.dependents[d]
            BY <2>1, <3>1 DEF Mirrored
        <3>3. n \in TransitiveDependents(graph, m)
            BY <2>1, <3>2, SearchIsClosed
        <3> QED  BY <2>3, <3>3 DEF Known
    <2> HIDE DEF found
    <2>4. found \in SUBSET Module
        BY DEF found
    <2>5. k \in found
        BY <2>2, <2>3, <2>4 DEF Importers
    <2> QED  BY <2>5 DEF found
<1> QED  BY <1>1, Inductive, EdgesKept, PTL
=============================================================================
