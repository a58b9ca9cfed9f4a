----------------------- MODULE PersistentIsolateProofs -----------------------
(***************************************************************************)
(* What holds of the isolates for every set of requests, whatever the      *)
(* application's code does, for every channel capacity and every number of *)
(* replacements.                                                           *)
(***************************************************************************)
EXTENDS PersistentIsolate, TLAPS

\* A handler that has not returned has no outcome.
PendingUntilDone == \A r \in Request : caller[r] # "done" => result[r] = Pending

\* r is in the hands of isolate i, which owes it an answer or was given up on.
Taken(r, i) == using[r] = i /\ (caller[r] = "waiting" \/ GivenUp(r))

\* The channel of a thread t holds each request once, and none it is dispatching.
QueueInOrder(t, i) ==
  \A k \in DOMAIN t.queue :
    /\ Taken(t.queue[k], i) /\ t.queue[k] # t.current
    /\ \A l \in DOMAIN t.queue : t.queue[k] = t.queue[l] => k = l

CurrentInOrder(t, i) ==
  IF t.engine = "idle" THEN t.current = NoOne ELSE t.current \in Request /\ Taken(t.current, i)

\* What awaits an operation was left by the current request or one given up.
PendingInOrder(t, i) ==
  \A r \in t.pending : using[r] = i /\ (r = t.current \/ GivenUp(r))

\* Whose answer the thread would read now.
Owner(t) == IF t.current \in Api THEN t.lastResponse ELSE t.lastSsr

OwnerInOrder(t, i) ==
  t.engine = "running" =>
    \/ Owner(t) \in {NoOne, t.current}
    \/ Owner(t) \in Request /\ using[Owner(t)] = i /\ GivenUp(Owner(t))

InOrder(t, i) ==
  QueueInOrder(t, i) /\ CurrentInOrder(t, i) /\ PendingInOrder(t, i) /\ OwnerInOrder(t, i)

IInv ==
  /\ TypeOK /\ PendingUntilDone
  /\ \A i \in Isolate : InOrder(iso[i], i)
  /\ ForeignAnswersWereAbandoned

-----------------------------------------------------------------------------
(* What the steps do to the handlers. *)

Outcomes == {Answer(r) : r \in Request} \cup {Outcome(k) : k \in Failures}

LEMMA OutcomesDiffer ==
  /\ Pending \notin Outcomes
  /\ \A q, r \in Request : Answer(q) = Answer(r) => q = r
  /\ \A q \in Request, k \in Failures : Answer(q) # Outcome(k)
  /\ \A k, l \in Failures : Outcome(k) = Outcome(l) => k = l
BY DEF Pending, Answer, Outcome, Outcomes, Failures

\* Nothing that an isolate was given up on is forgotten.
Lasting ==
  \A r \in Request : caller[r] # "idle" =>
    /\ using'[r] = using[r]
    /\ GivenUp(r) => GivenUp(r)'

CallerOK ==
  /\ caller \in [Request -> {"idle", "sending", "waiting", "done"}]
  /\ using \in [Request -> Isolate]
  /\ result \in [Request -> {Pending} \cup Outcomes]

LEMMA NotIdle ==
  ASSUME PendingUntilDone, NEW r \in Request, GivenUp(r)
  PROVE  caller[r] = "done"
BY OutcomesDiffer DEF PendingUntilDone, GivenUp, Outcomes, Failures

\* A reply reaches only a handler that waits.
LEMMA ReplyStep ==
  ASSUME CallerOK, PendingUntilDone, NEW r \in Request, NEW o \in Outcomes, Reply(r, o), using' = using
  PROVE  /\ CallerOK' /\ PendingUntilDone' /\ Lasting
         /\ \A q \in Request : q # r => result'[q] = result[q] /\ caller'[q] = caller[q]
         /\ caller[r] # "waiting" => result'[r] = result[r] /\ caller'[r] = caller[r]
         /\ caller[r] = "waiting" => result'[r] = o /\ caller'[r] = "done"
<1>1. CASE caller[r] = "waiting"
  <2>1. /\ result' = [result EXCEPT ![r] = o]
        /\ caller' = [caller EXCEPT ![r] = "done"]
    BY <1>1 DEF Reply
  <2>2. ~ GivenUp(r)
    BY <1>1, NotIdle
  <2>3. CallerOK'
    BY <2>1 DEF CallerOK
  <2>4. PendingUntilDone'
    BY <2>1 DEF CallerOK, PendingUntilDone
  <2>5. Lasting
    BY <2>1, <2>2 DEF CallerOK, Lasting, GivenUp
  <2> QED  BY <1>1, <2>1, <2>3, <2>4, <2>5 DEF CallerOK
<1>2. CASE caller[r] # "waiting"
  BY <1>2 DEF Reply, CallerOK, PendingUntilDone, Lasting, GivenUp
<1> QED  BY <1>1, <1>2

\* Answers stay what they were but for new ones, of a request's own or of one
\* that was given up.
LEMMA AnswersStep ==
  ASSUME CallerOK, PendingUntilDone, ForeignAnswersWereAbandoned, Lasting,
         \A p, q \in Request : result'[p] = Answer(q) /\ q # p =>
            \/ result[p] = result'[p]
            \/ using[q] = using[p] /\ GivenUp(q) /\ caller[p] # "idle"
  PROVE  ForeignAnswersWereAbandoned'
<1> SUFFICES ASSUME NEW p \in Request, NEW q \in Request, result'[p] = Answer(q), q # p
             PROVE  using'[q] = using'[p] /\ GivenUp(q)'
  BY DEF ForeignAnswersWereAbandoned
<1>1. using[q] = using[p] /\ GivenUp(q)
  BY DEF ForeignAnswersWereAbandoned
<1>2. caller[p] # "idle"
  BY OutcomesDiffer DEF PendingUntilDone, Outcomes
<1> QED  BY <1>1, <1>2, NotIdle DEF Lasting
\* t goes on with its work as u.
Resumes(t, u) ==
  /\ u \in ThreadState
  /\ u.queue = t.queue /\ u.engine = t.engine /\ u.current = t.current /\ u.pending = t.pending
  /\ u.lastResponse = t.lastResponse /\ u.lastSsr = t.lastSsr

\* A thread whose work goes on as it was stays in order if no request is taken
\* from it.
LEMMA OrderKept ==
  ASSUME PendingUntilDone, Lasting, NEW j \in Isolate, NEW t \in ThreadState, InOrder(t, j),
         \A q \in Request : Taken(q, j) => Taken(q, j)',
         NEW u, Resumes(t, u)
  PROVE  InOrder(u, j)'
<1>1. /\ t.queue \in Seq(Request) /\ t.current \in Request \cup {NoOne}
      /\ t.pending \subseteq Request
      /\ Owner(t) \in Request \cup {NoOne}
  BY DEF ThreadState, Owner, Request
<1>2. ASSUME NEW q \in Request, using[q] = j, GivenUp(q)
      PROVE  using'[q] = j /\ GivenUp(q)'
  BY <1>2, NotIdle DEF Lasting
<1>3. QueueInOrder(u, j)'
  <2>1. \A k \in DOMAIN t.queue : t.queue[k] \in Request
    BY <1>1
  <2> QED  BY <2>1 DEF InOrder, QueueInOrder, Resumes
<1>4. CurrentInOrder(u, j)'
  BY <1>1 DEF InOrder, CurrentInOrder, Resumes
<1>5. PendingInOrder(u, j)'
  <2> SUFFICES ASSUME NEW q \in t.pending
               PROVE  using'[q] = j /\ (q = t.current \/ GivenUp(q)')
    BY DEF PendingInOrder, Resumes
  <2>1. q \in Request /\ using[q] = j /\ (q = t.current \/ GivenUp(q))
    BY <1>1 DEF InOrder, PendingInOrder
  <2>2. CASE GivenUp(q)
    BY <1>2, <2>1, <2>2
  <2>3. CASE q = t.current
    <3>1. Taken(q, j)
      BY <2>1, <2>3, RequestsAssumption DEF InOrder, CurrentInOrder
    <3> QED  BY <2>1, <2>3, <3>1 DEF Taken
  <2> QED  BY <2>1, <2>2, <2>3
<1>6. OwnerInOrder(u, j)'
  <2>1. Owner(u) = Owner(t)
    BY DEF Owner, Resumes
  <2> QED  BY <1>2, <2>1 DEF InOrder, OwnerInOrder, Resumes
<1> QED  BY <1>3, <1>4, <1>5, <1>6 DEF InOrder

-----------------------------------------------------------------------------
ThreadsOK ==
  /\ iso \in [Isolate -> ThreadState]
  /\ \A i \in Isolate : Len(iso[i].queue) <= ChannelCapacity

FileOK == newest \in Isolate /\ initFile \in {"absent", "empty", "full"} /\ disturbed \subseteq Isolate

LEMMA TypeParts ==
  /\ TypeOK <=> FileOK /\ ThreadsOK /\ CallerOK
  /\ TypeOK' <=> FileOK' /\ ThreadsOK' /\ CallerOK'
BY DEF TypeOK, FileOK, ThreadsOK, CallerOK, Outcomes

\* Nobody but isolate i has lost a request to the step.
OthersKeep(i) ==
  \A q \in Request, j \in Isolate \ {i} : Taken(q, j) => Taken(q, j)'

HandlersOK == CallerOK /\ PendingUntilDone /\ ForeignAnswersWereAbandoned

LEMMA Parts ==
  /\ IInv => FileOK /\ ThreadsOK /\ HandlersOK
  /\ IInv => \A i \in Isolate : iso[i] \in ThreadState /\ InOrder(iso[i], i)
BY TypeParts DEF IInv, HandlersOK, ThreadsOK

\* A thread whose state is t after the step leaves the others as they were.
LEMMA ThreadStep ==
  ASSUME IInv, FileOK', HandlersOK', Lasting, NEW i \in Isolate, OthersKeep(i),
         NEW t \in ThreadState, Len(t.queue) <= ChannelCapacity, InOrder(t, i)',
         iso' = [iso EXCEPT ![i] = t]
  PROVE  IInv'
<1>1. ThreadsOK' /\ iso'[i] = t /\ \A j \in Isolate \ {i} : iso'[j] = iso[j]
  BY Parts DEF ThreadsOK
<1>2. ASSUME NEW j \in Isolate PROVE InOrder(iso[j], j)'
  <2>1. CASE j = i
    BY <1>1, <2>1
  <2>2. CASE j # i
    <3> PICK u : u = iso[j]
      OBVIOUS
    <3>1. u \in ThreadState /\ InOrder(u, j) /\ Resumes(u, u) /\ PendingUntilDone
      BY Parts DEF Resumes, HandlersOK
    <3>2. InOrder(u, j)'
      BY <2>2, <3>1, OrderKept DEF OthersKeep
    <3> QED  BY <1>1, <2>2, <3>2
  <2> QED  BY <2>1, <2>2
<1> QED  BY <1>1, <1>2, TypeParts DEF IInv, HandlersOK

\* A step of the handlers alone leaves the threads in order.
LEMMA HandlersStep ==
  ASSUME IInv, FileOK', HandlersOK', Lasting, iso' = iso,
         \A q \in Request, j \in Isolate : Taken(q, j) => Taken(q, j)'
  PROVE  IInv'
<1>1. ASSUME NEW j \in Isolate PROVE InOrder(iso[j], j)'
  <2> PICK u : u = iso[j]
    OBVIOUS
  <2>1. u \in ThreadState /\ InOrder(u, j) /\ Resumes(u, u) /\ PendingUntilDone
    BY Parts DEF Resumes, HandlersOK
  <2>2. InOrder(u, j)'
    BY <2>1, OrderKept
  <2> QED  BY <2>2
<1>2. ThreadsOK'
  BY Parts DEF ThreadsOK
<1> QED  BY <1>1, <1>2, TypeParts DEF IInv, HandlersOK

\* o is an answer of r, or of a request that isolate i has given up, or none.
Honest(o, r, i) ==
  \A q \in Request : o = Answer(q) => q = r \/ (using[q] = i /\ GivenUp(q))

\* What a thread's reply to a request of its own leaves to be shown.
LEMMA ThreadReplies ==
  ASSUME IInv, NEW i \in Isolate, NEW r \in Request, Taken(r, i),
         NEW o \in Outcomes, Reply(r, o), using' = using, Honest(o, r, i)
  PROVE  /\ HandlersOK' /\ Lasting /\ OthersKeep(i)
         /\ \A q \in Request, j \in Isolate : q # r /\ Taken(q, j) => Taken(q, j)'
         /\ o \in {Outcome("timed out"), Outcome("handler timed out"), Outcome("loop error")} => GivenUp(r)'
<1>0. CallerOK /\ PendingUntilDone /\ ForeignAnswersWereAbandoned
  BY TypeParts DEF IInv
<1>1. /\ CallerOK' /\ PendingUntilDone' /\ Lasting
      /\ \A q \in Request : q # r => result'[q] = result[q] /\ caller'[q] = caller[q]
      /\ caller[r] # "waiting" => result'[r] = result[r] /\ caller'[r] = caller[r]
      /\ caller[r] = "waiting" => result'[r] = o /\ caller'[r] = "done"
  BY <1>0, ReplyStep
<1>2. \A p, q \in Request : result'[p] = Answer(q) /\ q # p =>
         \/ result[p] = result'[p]
         \/ using[q] = using[p] /\ GivenUp(q) /\ caller[p] # "idle"
  <2> SUFFICES ASSUME NEW p \in Request, NEW q \in Request, result'[p] = Answer(q), q # p,
                      result[p] # result'[p]
               PROVE  using[q] = using[p] /\ GivenUp(q) /\ caller[p] # "idle"
    OBVIOUS
  <2>1. p = r /\ caller[r] = "waiting" /\ o = Answer(q)
    BY <1>1
  <2> QED  BY <2>1 DEF Taken, Honest
<1>3. ForeignAnswersWereAbandoned'
  BY <1>0, <1>1, <1>2, AnswersStep
<1>4. \A q \in Request, j \in Isolate : q # r /\ Taken(q, j) => Taken(q, j)'
  BY <1>1 DEF Taken, GivenUp
<1>5. o \in {Outcome("timed out"), Outcome("handler timed out"), Outcome("loop error")} => GivenUp(r)'
  BY <1>1 DEF Taken, GivenUp
<1> QED  BY <1>1, <1>3, <1>4, <1>5 DEF Taken, HandlersOK, OthersKeep

-----------------------------------------------------------------------------
LEMMA InitIInv == Init => IInv
<1> SUFFICES ASSUME Init PROVE IInv
  OBVIOUS
<1>1. 1 \in Isolate
  BY BoundsAssumption DEF Isolate
<1>2. FileOK /\ CallerOK /\ PendingUntilDone
  BY <1>1 DEF Init, FileOK, CallerOK, PendingUntilDone
<1>3. \A i \in Isolate :
        /\ iso[i] \in ThreadState /\ iso[i].queue = <<>> /\ iso[i].engine = "idle"
        /\ iso[i].current = NoOne /\ iso[i].pending = {}
  <2>1. /\ Fresh \in ThreadState /\ [Fresh EXCEPT !.phase = "starting"] \in ThreadState
        /\ Fresh.queue = <<>> /\ Fresh.engine = "idle" /\ Fresh.current = NoOne /\ Fresh.pending = {}
    <3>1. <<>> \in Seq(Request)
      OBVIOUS
    <3> QED  BY <3>1 DEF Fresh, ThreadState, Loading
  <2> QED  BY <2>1 DEF Init, Fresh
<1>4. ThreadsOK
  BY <1>3, BoundsAssumption DEF Init, ThreadsOK
<1>5. \A i \in Isolate : InOrder(iso[i], i)
  BY <1>3 DEF InOrder, QueueInOrder, CurrentInOrder, PendingInOrder, OwnerInOrder
<1>6. ForeignAnswersWereAbandoned
  BY OutcomesDiffer DEF Init, ForeignAnswersWereAbandoned, Outcomes
<1> QED  BY <1>2, <1>4, <1>5, <1>6, TypeParts DEF IInv

\* A handler that arrives is in nobody's hands.
LEMMA ArriveStep ==
  ASSUME IInv, NEW r \in Request, Arrive(r)
  PROVE  IInv'
<1>0. FileOK /\ CallerOK /\ PendingUntilDone
  BY Parts DEF HandlersOK
<1>1. /\ caller[r] = "idle" /\ using' = [using EXCEPT ![r] = newest]
      /\ UNCHANGED <<newest, initFile, disturbed, iso>>
      /\ \/ caller' = [caller EXCEPT ![r] = "sending"] /\ result' = result
         \/ /\ caller' = [caller EXCEPT ![r] = "done"]
            /\ result' = [result EXCEPT ![r] = Outcome("unavailable")]
  BY DEF Arrive, fileVars
<1>2. Outcome("unavailable") \in Outcomes
  BY DEF Outcomes, Failures
<1>3. CallerOK'
  BY <1>0, <1>1, <1>2 DEF CallerOK, FileOK
<1>4. PendingUntilDone'
  BY <1>0, <1>1 DEF CallerOK, PendingUntilDone
<1>5. \A q \in Request : q # r =>
        caller'[q] = caller[q] /\ using'[q] = using[q] /\ result'[q] = result[q]
  BY <1>0, <1>1 DEF CallerOK
<1>6. Lasting
  BY <1>1, <1>5 DEF Lasting, GivenUp
<1>7. ForeignAnswersWereAbandoned'
  <2>1. \A q \in Request : result'[r] # Answer(q) \/ result'[r] = result[r]
    BY <1>0, <1>1, OutcomesDiffer DEF CallerOK, Failures
  <2> QED  BY <1>0, <1>5, <1>6, <2>1, AnswersStep DEF IInv
<1>8. ASSUME NEW q \in Request, NEW j \in Isolate, Taken(q, j) PROVE Taken(q, j)'
  <2>1. q # r
    BY <1>0, <1>1, <1>8, NotIdle DEF Taken
  <2> QED  BY <1>5, <1>8, <2>1 DEF Taken, GivenUp
<1>9. FileOK' /\ HandlersOK'
  BY <1>0, <1>1, <1>3, <1>4, <1>7 DEF FileOK, HandlersOK
<1> QED  BY <1>1, <1>6, <1>8, <1>9, HandlersStep

\* A request whose handler gives up stays with its isolate.
LEMMA GiveUpStep ==
  ASSUME IInv, NEW r \in Request, GiveUp(r)
  PROVE  IInv'
<1>0. FileOK /\ CallerOK
  BY Parts DEF HandlersOK
<1>1. /\ caller[r] = "waiting" /\ Reply(r, Outcome("timed out"))
      /\ UNCHANGED <<newest, initFile, disturbed, iso, using>>
  BY DEF GiveUp, Reply, fileVars
<1>2. /\ Outcome("timed out") \in Outcomes
      /\ Honest(Outcome("timed out"), r, using[r])
  BY OutcomesDiffer DEF Outcomes, Failures, Honest
<1>3. using[r] \in Isolate /\ Taken(r, using[r])
  BY <1>0, <1>1 DEF CallerOK, Taken
<1>4. /\ HandlersOK' /\ Lasting
      /\ \A q \in Request, j \in Isolate : q # r /\ Taken(q, j) => Taken(q, j)'
      /\ GivenUp(r)'
  BY <1>1, <1>2, <1>3, ThreadReplies
<1>5. ASSUME NEW q \in Request, NEW j \in Isolate, Taken(q, j) PROVE Taken(q, j)'
  BY <1>1, <1>4, <1>5 DEF Taken
<1>6. FileOK'
  BY <1>0, <1>1 DEF FileOK
<1> QED  BY <1>1, <1>4, <1>5, <1>6, HandlersStep

\* A request that is sent joins the end of a queue that does not hold it.
LEMMA EnqueueStep ==
  ASSUME IInv, NEW r \in Request, Enqueue(r)
  PROVE  IInv'
<1>0. FileOK /\ ThreadsOK /\ CallerOK /\ PendingUntilDone
  BY Parts DEF HandlersOK
<1> PICK i \in Isolate : i = using[r]
  BY <1>0 DEF CallerOK
<1> PICK b : b = iso[i]
  OBVIOUS
<1> DEFINE t == [b EXCEPT !.queue = Append(b.queue, r)]
<1>1. /\ caller[r] = "sending" /\ Len(b.queue) < ChannelCapacity
      /\ iso' = [iso EXCEPT ![i] = t]
      /\ caller' = [caller EXCEPT ![r] = "waiting"]
      /\ UNCHANGED <<newest, initFile, disturbed, using, result>>
  BY DEF Enqueue, fileVars
<1>2. b \in ThreadState /\ InOrder(b, i) /\ b.queue \in Seq(Request)
  <2>1. b \in ThreadState /\ InOrder(b, i)
    BY Parts
  <2> QED  BY <2>1 DEF ThreadState
<1>3. /\ t.queue = Append(b.queue, r)
      /\ t.engine = b.engine /\ t.current = b.current /\ t.pending = b.pending
      /\ t.lastResponse = b.lastResponse /\ t.lastSsr = b.lastSsr
  BY <1>2 DEF ThreadState
<1>4. t \in ThreadState /\ Len(t.queue) <= ChannelCapacity
  <2>1. Append(b.queue, r) \in Seq(Request)
    BY <1>2
  <2>2. t \in ThreadState
    BY <1>2, <2>1 DEF ThreadState
  <2>3. Len(t.queue) = Len(b.queue) + 1 /\ Len(b.queue) \in Nat
    BY <1>2, <1>3
  <2> QED  BY <1>1, <2>2, <2>3, BoundsAssumption
<1> HIDE DEF t
<1>5. FileOK' /\ CallerOK' /\ PendingUntilDone' /\ Lasting
  BY <1>0, <1>1 DEF FileOK, CallerOK, PendingUntilDone, Lasting, GivenUp
<1>6. ForeignAnswersWereAbandoned'
  BY <1>1 DEF IInv, ForeignAnswersWereAbandoned, GivenUp
<1>7. /\ \A q \in Request, j \in Isolate : Taken(q, j) => q # r /\ Taken(q, j)'
      /\ Taken(r, i)'
  BY <1>0, <1>1, NotIdle DEF Taken, GivenUp, CallerOK
<1>8. r # b.current
  BY <1>2, <1>7, RequestsAssumption DEF InOrder, CurrentInOrder
<1>9. QueueInOrder(t, i)'
  <2> DEFINE n == Len(b.queue) + 1
  <2>1. /\ DOMAIN t.queue = 1 .. n /\ DOMAIN b.queue = 1 .. n - 1 /\ n \in Nat
        /\ t.queue[n] = r
        /\ \A k \in 1 .. n - 1 : t.queue[k] = b.queue[k] /\ b.queue[k] \in Request
    BY <1>2, <1>3
  <2>2. \A k \in 1 .. n - 1 : /\ Taken(b.queue[k], i) /\ b.queue[k] # b.current
                              /\ \A l \in 1 .. n - 1 : b.queue[k] = b.queue[l] => k = l
    BY <1>2, <2>1 DEF InOrder, QueueInOrder
  <2> HIDE DEF n
  <2>3. \A k \in 1 .. n - 1 : Taken(b.queue[k], i)' /\ b.queue[k] # r
    BY <1>7, <2>1, <2>2
  <2>4. \A k \in 1 .. n : k = n \/ k \in 1 .. n - 1
    BY <2>1
  <2>5. ASSUME NEW k \in 1 .. n
        PROVE  /\ Taken(t.queue[k], i)' /\ t.queue[k] # t.current
               /\ \A l \in 1 .. n : t.queue[k] = t.queue[l] => k = l
    <3>1. CASE k = n
      BY <1>3, <1>7, <1>8, <2>1, <2>3, <2>4, <3>1
    <3>2. CASE k \in 1 .. n - 1
      BY <1>3, <2>1, <2>2, <2>3, <2>4, <3>2
    <3> QED  BY <2>4, <3>1, <3>2
  <2> QED  BY <2>1, <2>5 DEF QueueInOrder
<1>10. CurrentInOrder(t, i)'
  BY <1>2, <1>3, <1>7 DEF InOrder, CurrentInOrder
<1>11. PendingInOrder(t, i)' /\ OwnerInOrder(t, i)'
  BY <1>1, <1>2, <1>3 DEF InOrder, PendingInOrder, OwnerInOrder, Owner, GivenUp
<1>12. InOrder(t, i)'
  BY <1>9, <1>10, <1>11 DEF InOrder
<1>13. HandlersOK' /\ OthersKeep(i)
  BY <1>5, <1>6, <1>7 DEF HandlersOK, OthersKeep
<1> QED  BY <1>1, <1>4, <1>5, <1>12, <1>13, ThreadStep

LEMMA Loads ==
  ASSUME NEW t \in ThreadState, NEW phase \in Loading \cup {"ready", "dead", "stuck"}
  PROVE  /\ Resumes(t, [t EXCEPT !.phase = phase])
         /\ \A renderer \in {"framework", "legacy", "none"} :
              Resumes(t, [t EXCEPT !.phase = phase, !.renderer = renderer])
         /\ Resumes(t, [t EXCEPT !.phase = phase, !.hasApi = TRUE])
<1>1. Resumes(t, [t EXCEPT !.phase = phase])
  BY DEF Resumes, ThreadState
<1>2. ASSUME NEW renderer \in {"framework", "legacy", "none"}
      PROVE  Resumes(t, [t EXCEPT !.phase = phase, !.renderer = renderer])
  BY DEF Resumes, ThreadState
<1>3. Resumes(t, [t EXCEPT !.phase = phase, !.hasApi = TRUE])
  BY DEF Resumes, ThreadState
<1> QED  BY <1>1, <1>2, <1>3

\* A thread that loads its modules, or starts to, does nothing else.
LEMMA LoadingStep ==
  ASSUME IInv, NEW i \in Isolate, Initialize(i) \/ (Restart /\ i = newest + 1)
  PROVE  IInv'
<1>0. FileOK /\ ThreadsOK /\ CallerOK /\ PendingUntilDone
  BY Parts DEF HandlersOK
<1> PICK b : b = iso[i]
  OBVIOUS
<1>1. b \in ThreadState /\ InOrder(b, i)
  BY Parts
<1>2. ASSUME NEW phase \in Loading \cup {"ready", "dead", "stuck"}, Goes(i, phase)
      PROVE  \E t : Resumes(b, t) /\ iso' = [iso EXCEPT ![i] = t]
  BY <1>1, <1>2, Loads DEF Goes
<1>3. PICK t : Resumes(b, t) /\ iso' = [iso EXCEPT ![i] = t]
  <2>1. CASE Start(i)
    BY <1>2, <2>1 DEF Start, Loading
  <2>2. CASE LoadApp(i)
    <3>1. CASE iso' = [iso EXCEPT ![i] = [b EXCEPT !.phase = "ready", !.renderer = "none"]]
      BY <1>1, <3>1, Loads
    <3>2. CASE Goes(i, "server") \/ Goes(i, "create") \/ Goes(i, "stuck")
      BY <1>2, <3>2 DEF Loading
    <3> QED  BY <2>2, <3>1, <3>2 DEF LoadApp
  <2>3. CASE CreateInitFile(i) \/ WriteInitFile(i) \/ RemoveInitFile(i)
    <3>1. Goes(i, "server") \/ Goes(i, "write") \/ Goes(i, "import")
      BY <2>3 DEF CreateInitFile, WriteInitFile, RemoveInitFile
    <3> QED  BY <1>2, <3>1 DEF Loading
  <2>4. CASE ImportInitFile(i)
    <3>1. PICK renderer \in {"framework", "legacy"} :
            iso' = [iso EXCEPT ![i] = [b EXCEPT !.phase = "remove", !.renderer = renderer]]
      BY <2>4 DEF ImportInitFile
    <3> QED  BY <1>1, <3>1, Loads DEF Loading
  <2>5. CASE LoadServer(i)
    <3>1. CASE iso' = [iso EXCEPT ![i] = [b EXCEPT !.phase = "ready", !.hasApi = TRUE]]
      BY <1>1, <3>1, Loads
    <3>2. CASE Goes(i, "ready") \/ Goes(i, "stuck")
      BY <1>2, <3>2
    <3> QED  BY <2>5, <3>1, <3>2 DEF LoadServer
  <2>6. CASE Restart /\ i = newest + 1
    BY <1>2, <2>6 DEF Restart, Goes, Loading
  <2> QED  BY <2>1, <2>2, <2>3, <2>4, <2>5, <2>6 DEF Initialize
<1>4. UNCHANGED <<caller, using, result>>
  BY DEF Initialize, Start, LoadApp, CreateInitFile, WriteInitFile, ImportInitFile, RemoveInitFile,
         LoadServer, Restart, callerVars
<1>5. FileOK'
  <2>1. CASE Initialize(i)
    BY <1>0, <2>1
    DEF Initialize, Start, LoadApp, CreateInitFile, WriteInitFile, ImportInitFile, RemoveInitFile,
        LoadServer, FileOK, fileVars, Others
  <2>2. CASE Restart /\ i = newest + 1
    BY <1>0, <2>2 DEF Restart, FileOK, fileVars
  <2> QED  BY <2>1, <2>2
<1>6. HandlersOK' /\ Lasting
  BY <1>4, Parts DEF HandlersOK, CallerOK, PendingUntilDone, Lasting, ForeignAnswersWereAbandoned, GivenUp
<1>7. t \in ThreadState /\ Len(t.queue) <= ChannelCapacity
  BY <1>0, <1>3 DEF Resumes, ThreadsOK
<1>8. \A q \in Request, j \in Isolate : Taken(q, j) => Taken(q, j)'
  BY <1>4 DEF Taken, GivenUp
<1>9. InOrder(t, i)' /\ OthersKeep(i)
  BY <1>0, <1>1, <1>3, <1>6, <1>8, OrderKept DEF OthersKeep
<1> QED  BY <1>3, <1>5, <1>6, <1>7, <1>9, ThreadStep
-----------------------------------------------------------------------------
(* What a thread does with a request. *)

\* A channel of isolate i holds each request once, and r no more.
Behind(queue, r, i) ==
  \A k \in DOMAIN queue :
    /\ queue[k] \in Request /\ queue[k] # r /\ Taken(queue[k], i)
    /\ \A l \in DOMAIN queue : queue[k] = queue[l] => k = l

\* What awaits an operation beside r was given up by isolate i.
LeftBehind(pending, r, i) ==
  \A q \in pending : q \in Request /\ using[q] = i /\ (GivenUp(q) \/ q = r)

\* The message a thread takes is that of a handler which waits or was given up.
LEMMA FirstInQueue ==
  ASSUME IInv, NEW i \in Isolate, NEW b, b = iso[i], b.engine = "idle", b.queue # <<>>
  PROVE  /\ b \in ThreadState /\ InOrder(b, i) /\ b.current = NoOne
         /\ Head(b.queue) \in Request /\ Taken(Head(b.queue), i)
         /\ Tail(b.queue) \in Seq(Request) /\ Len(Tail(b.queue)) <= ChannelCapacity
         /\ Behind(Tail(b.queue), Head(b.queue), i)
         /\ \A q \in b.pending : q \in Request /\ using[q] = i /\ GivenUp(q)
<1>1. b \in ThreadState /\ InOrder(b, i) /\ Len(b.queue) <= ChannelCapacity
  BY Parts DEF ThreadsOK
<1>2. b.queue \in Seq(Request)
  BY <1>1 DEF ThreadState
<1> DEFINE n == Len(b.queue)
<1>3. /\ n \in Nat \ {0} /\ n <= ChannelCapacity /\ DOMAIN b.queue = 1 .. n
      /\ \A k \in 1 .. n : b.queue[k] \in Request
      /\ Head(b.queue) = b.queue[1]
      /\ Tail(b.queue) \in Seq(Request) /\ Len(Tail(b.queue)) = n - 1
      /\ DOMAIN Tail(b.queue) = 1 .. n - 1
      /\ \A k \in 1 .. n - 1 : Tail(b.queue)[k] = b.queue[k + 1]
  BY <1>1, <1>2
<1>4. \A k \in 1 .. n : /\ Taken(b.queue[k], i)
                        /\ \A l \in 1 .. n : b.queue[k] = b.queue[l] => k = l
  BY <1>1, <1>3 DEF InOrder, QueueInOrder
<1> HIDE DEF n
<1>5. \A k \in 1 .. n - 1 : /\ k + 1 \in 1 .. n /\ k + 1 # 1
                            /\ \A l \in 1 .. n - 1 : k + 1 = l + 1 => k = l
  BY <1>3
<1>6. 1 \in 1 .. n /\ n - 1 <= ChannelCapacity
  BY <1>3, BoundsAssumption
<1>7. b.current = NoOne
  BY <1>1 DEF InOrder, CurrentInOrder
<1>8. \A q \in b.pending : q \in Request /\ using[q] = i /\ GivenUp(q)
  BY <1>1, <1>7, RequestsAssumption DEF InOrder, PendingInOrder, ThreadState
<1>9. Behind(Tail(b.queue), Head(b.queue), i)
  BY <1>3, <1>4, <1>5, <1>6 DEF Behind
<1> QED  BY <1>1, <1>3, <1>4, <1>6, <1>7, <1>8, <1>9

\* A thread that takes a request owes it the answer its own code gives.
LEMMA BeginStep ==
  ASSUME IInv, NEW i \in Isolate, NEW b, b = iso[i], b.engine = "idle", b.queue # <<>>,
         NEW r, r = Head(b.queue),
         NEW t \in ThreadState, t.queue = Tail(b.queue), t.current = r, t.engine # "idle",
         t.pending \subseteq b.pending \cup {r}, t.engine = "running" => Owner(t) \in {NoOne, r},
         iso' = [iso EXCEPT ![i] = t], UNCHANGED <<newest, fileVars, caller, using, result>>
  PROVE  IInv'
<1>1. /\ InOrder(b, i) /\ b.current = NoOne /\ b \in ThreadState
      /\ r \in Request /\ Taken(r, i) /\ Len(t.queue) <= ChannelCapacity
      /\ Behind(t.queue, r, i)
      /\ \A q \in b.pending : q \in Request /\ using[q] = i /\ GivenUp(q)
  BY FirstInQueue
<1>2. UNCHANGED <<caller, using, result, newest, initFile, disturbed>>
  BY DEF fileVars
<1>3. /\ FileOK' /\ HandlersOK' /\ Lasting
      /\ \A q \in Request, j \in Isolate : Taken(q, j) => Taken(q, j)'
  BY <1>2, Parts
  DEF FileOK, HandlersOK, CallerOK, PendingUntilDone, Lasting, ForeignAnswersWereAbandoned, GivenUp, Taken
<1>4. QueueInOrder(t, i)'
  BY <1>1, <1>3 DEF QueueInOrder, Behind
<1>5. CurrentInOrder(t, i)'
  BY <1>1, <1>3 DEF CurrentInOrder
<1>6. PendingInOrder(t, i)'
  <2> SUFFICES ASSUME NEW q \in t.pending PROVE using'[q] = i /\ (q = r \/ GivenUp(q)')
    BY DEF PendingInOrder
  <2>1. CASE q = r
    BY <1>1, <1>2, <2>1 DEF Taken
  <2>2. CASE q \in b.pending
    BY <1>1, <1>2, <2>2 DEF GivenUp
  <2> QED  BY <2>1, <2>2
<1>7. OwnerInOrder(t, i)'
  BY DEF OwnerInOrder, Owner
<1>8. InOrder(t, i)' /\ OthersKeep(i)
  BY <1>3, <1>4, <1>5, <1>6, <1>7 DEF InOrder, OthersKeep
<1> QED  BY <1>1, <1>3, <1>8, ThreadStep

\* A thread that has replied to a request takes the next.
LEMMA EndStep ==
  ASSUME IInv, FileOK', NEW i \in Isolate, NEW r \in Request, Taken(r, i), NEW o \in Outcomes,
         Reply(r, o), using' = using, Honest(o, r, i),
         NEW t \in ThreadState, iso' = [iso EXCEPT ![i] = t],
         t.engine = "idle", t.current = NoOne, Len(t.queue) <= ChannelCapacity,
         Behind(t.queue, r, i), LeftBehind(t.pending, r, i),
         r \in t.pending => GivenUp(r) \/ o \in {Outcome("handler timed out"), Outcome("loop error")}
  PROVE  IInv'
<1>1. /\ HandlersOK' /\ Lasting /\ OthersKeep(i)
      /\ \A q \in Request, j \in Isolate : q # r /\ Taken(q, j) => Taken(q, j)'
      /\ o \in {Outcome("timed out"), Outcome("handler timed out"), Outcome("loop error")} => GivenUp(r)'
  BY ThreadReplies
<1>2. PendingUntilDone
  BY Parts DEF HandlersOK
<1>4. ASSUME NEW q \in Request, GivenUp(q) PROVE GivenUp(q)'
  BY <1>1, <1>2, <1>4, NotIdle DEF Lasting
<1>5. QueueInOrder(t, i)'
  BY <1>1, RequestsAssumption DEF QueueInOrder, Behind
<1>6. PendingInOrder(t, i)'
  BY <1>1, <1>4 DEF PendingInOrder, LeftBehind, Lasting, Taken
<1>7. CurrentInOrder(t, i)' /\ OwnerInOrder(t, i)'
  BY DEF CurrentInOrder, OwnerInOrder
<1>8. InOrder(t, i)'
  BY <1>5, <1>6, <1>7 DEF InOrder
<1> QED  BY <1>1, <1>8, ThreadStep
\* The first turn of a request's code.
LEMMA FirstTurnOf ==
  ASSUME NEW b \in ThreadState, NEW r \in Request, Tail(b.queue) \in Seq(Request),
         NEW turn \in FirstTurn(b, r)
  PROVE  /\ turn.answer \in {r, NoOne}
         /\ turn.thread \in ThreadState
         /\ turn.thread.queue = Tail(b.queue) /\ turn.thread.current = r
         /\ turn.thread.engine # "idle" /\ turn.thread.pending \subseteq b.pending \cup {r}
<1> DEFINE began == [b EXCEPT !.queue = Tail(b.queue), !.current = r, !.engine = "running"]
<1>1. /\ began \in ThreadState
      /\ began.queue = Tail(b.queue) /\ began.current = r /\ began.engine = "running"
      /\ began.pending = b.pending
  BY DEF ThreadState
<1>2. turn.answer \in {r, NoOne}
  BY DEF FirstTurn
<1>3. turn.thread \in {began, [began EXCEPT !.pending = b.pending \cup {r}], [began EXCEPT !.engine = "spinning"]}
  <2>1. turn.thread \in {began, [began EXCEPT !.pending = began.pending \cup {r}],
                         [began EXCEPT !.engine = "spinning"]}
    BY DEF FirstTurn
  <2> HIDE DEF began
  <2> QED  BY <1>1, <2>1
<1> HIDE DEF began
<1>4. [began EXCEPT !.pending = b.pending \cup {r}] \in ThreadState
  BY <1>1 DEF ThreadState
<1>5. [began EXCEPT !.engine = "spinning"] \in ThreadState
  BY <1>1 DEF ThreadState
<1>6. turn.thread \in ThreadState
  BY <1>1, <1>3, <1>4, <1>5
<1>7. /\ turn.thread.queue = began.queue /\ turn.thread.current = began.current
      /\ turn.thread.engine \in {"running", "spinning"}
      /\ turn.thread.pending \in {b.pending, b.pending \cup {r}}
  BY <1>1, <1>3 DEF ThreadState
<1> QED  BY <1>1, <1>2, <1>6, <1>7

LEMMA FieldsChange ==
  ASSUME NEW t \in ThreadState
  PROVE  /\ \A r \in Request : [t EXCEPT !.current = r] \in ThreadState
         /\ \A e \in {"idle", "running", "spinning"} : [t EXCEPT !.engine = e] \in ThreadState
         /\ \A r \in Api : [t EXCEPT !.lastResponse = r] \in ThreadState
         /\ \A r \in Render : [t EXCEPT !.lastSsr = r] \in ThreadState
         /\ \A q \in Request : [t EXCEPT !.pending = t.pending \ {q}] \in ThreadState
         /\ [t EXCEPT !.current = NoOne] \in ThreadState
         /\ [t EXCEPT !.lastSsr = NoOne] \in ThreadState
<1>1. ASSUME NEW r \in Request PROVE [t EXCEPT !.current = r] \in ThreadState
  BY DEF ThreadState
<1>2. ASSUME NEW e \in {"idle", "running", "spinning"} PROVE [t EXCEPT !.engine = e] \in ThreadState
  BY DEF ThreadState
<1>3. ASSUME NEW r \in Api PROVE [t EXCEPT !.lastResponse = r] \in ThreadState
  BY DEF ThreadState
<1>4. ASSUME NEW r \in Render PROVE [t EXCEPT !.lastSsr = r] \in ThreadState
  BY DEF ThreadState
<1>5. ASSUME NEW q \in Request PROVE [t EXCEPT !.pending = t.pending \ {q}] \in ThreadState
  BY DEF ThreadState
<1>6. [t EXCEPT !.current = NoOne] \in ThreadState
  BY DEF ThreadState
<1>7. [t EXCEPT !.lastSsr = NoOne] \in ThreadState
  BY DEF ThreadState
<1> QED  BY <1>1, <1>2, <1>3, <1>4, <1>5, <1>6, <1>7

LEMMA DispatchStep ==
  ASSUME IInv, NEW i \in Isolate, Dispatch(i)
  PROVE  IInv'
<1> PICK b : b = iso[i]
  OBVIOUS
<1> PICK r : r = Head(b.queue)
  OBVIOUS
<1>1. /\ b.engine = "idle" /\ b.queue # <<>>
      /\ UNCHANGED <<newest, fileVars, using>> /\ UNCHANGED using
      /\ DispatchApi(i, r) \/ DispatchFramework(i, r) \/ DispatchLegacy(i, r) \/ RefuseRender(i, r)
  BY DEF Dispatch
<1>2. /\ b \in ThreadState /\ InOrder(b, i) /\ b.current = NoOne
      /\ r \in Request /\ Taken(r, i)
      /\ Tail(b.queue) \in Seq(Request) /\ Len(Tail(b.queue)) <= ChannelCapacity
      /\ Behind(Tail(b.queue), r, i) /\ LeftBehind(b.pending, r, i)
      /\ \A q \in b.pending : GivenUp(q)
  BY <1>1, FirstInQueue DEF LeftBehind
<1>3. FileOK /\ FileOK'
  BY <1>1, Parts DEF FileOK, fileVars
<1>5. CASE DispatchApi(i, r)
  <2>1. CASE b.hasApi
    <3>1. PICK turn \in FirstTurn(b, r) : iso' = [iso EXCEPT ![i] = [turn.thread EXCEPT !.lastResponse = turn.answer]]
      BY <1>5, <2>1 DEF DispatchApi
    <3>2. /\ turn.answer \in {r, NoOne}
          /\ turn.thread \in ThreadState
          /\ turn.thread.queue = Tail(b.queue) /\ turn.thread.current = r
          /\ turn.thread.engine # "idle" /\ turn.thread.pending \subseteq b.pending \cup {r}
      BY <1>2, FirstTurnOf
    <3>3. PICK t : t = [turn.thread EXCEPT !.lastResponse = turn.answer]
      OBVIOUS
    <3>4. r \in Api /\ UNCHANGED <<caller, result>>
      BY <1>5 DEF DispatchApi
    <3>5. t \in ThreadState
      BY <3>2, <3>3, <3>4 DEF ThreadState
    <3>6. /\ t.queue = turn.thread.queue /\ t.current = turn.thread.current
          /\ t.engine = turn.thread.engine /\ t.pending = turn.thread.pending
          /\ t.lastResponse = turn.answer
      BY <3>2, <3>3 DEF ThreadState
    <3>7. Owner(t) \in {NoOne, r}
      BY <3>2, <3>4, <3>6 DEF Owner
    <3> QED  BY <1>1, <3>1, <3>2, <3>3, <3>4, <3>5, <3>6, <3>7, BeginStep
  <2>2. CASE ~ b.hasApi
    <3>1. PICK t : t = [b EXCEPT !.queue = Tail(b.queue), !.current = r, !.engine = "running", !.lastResponse = r]
      OBVIOUS
    <3>2. r \in Api /\ iso' = [iso EXCEPT ![i] = t] /\ UNCHANGED <<caller, result>>
      BY <1>5, <2>2, <3>1 DEF DispatchApi
    <3>3. t \in ThreadState
      <4>1. PICK c \in ThreadState : c = [b EXCEPT !.queue = Tail(b.queue), !.current = r]
        BY <1>2 DEF ThreadState
      <4>2. PICK d \in ThreadState : d = [c EXCEPT !.engine = "running"]
        BY DEF ThreadState
      <4>3. t = [d EXCEPT !.lastResponse = r]
        BY <3>1, <4>1, <4>2
      <4> QED  BY <3>2, <4>3, FieldsChange
    <3>4. /\ t.queue = Tail(b.queue) /\ t.current = r /\ t.engine = "running"
          /\ t.pending = b.pending /\ t.lastResponse = r
      BY <1>2, <3>1 DEF ThreadState
    <3>5. Owner(t) \in {NoOne, r}
      BY <3>2, <3>4 DEF Owner
    <3> QED  BY <1>1, <3>2, <3>3, <3>4, <3>5, BeginStep
  <2> QED  BY <2>1, <2>2
<1>6. CASE DispatchFramework(i, r)
  <2>1. PICK turn \in FirstTurn(b, r) : iso' = [iso EXCEPT ![i] = [turn.thread EXCEPT !.lastSsr = turn.answer]]
    BY <1>6 DEF DispatchFramework
  <2>2. /\ turn.answer \in {r, NoOne}
        /\ turn.thread \in ThreadState
        /\ turn.thread.queue = Tail(b.queue) /\ turn.thread.current = r
        /\ turn.thread.engine # "idle" /\ turn.thread.pending \subseteq b.pending \cup {r}
    BY <1>2, FirstTurnOf
  <2>3. PICK t : t = [turn.thread EXCEPT !.lastSsr = turn.answer]
    OBVIOUS
  <2>4. r \in Render /\ UNCHANGED <<caller, result>>
    BY <1>6 DEF DispatchFramework
  <2>5. t \in ThreadState
    BY <2>2, <2>3, <2>4 DEF ThreadState
  <2>6. /\ t.queue = turn.thread.queue /\ t.current = turn.thread.current
        /\ t.engine = turn.thread.engine /\ t.pending = turn.thread.pending
        /\ t.lastSsr = turn.answer
    BY <2>2, <2>3 DEF ThreadState
  <2>7. Owner(t) \in {NoOne, r}
    BY <2>2, <2>4, <2>6, RequestsAssumption DEF Owner
  <2> QED  BY <1>1, <2>1, <2>2, <2>3, <2>4, <2>5, <2>6, <2>7, BeginStep
<1>7. CASE DispatchLegacy(i, r)
  <2>0. r \in Render
    BY <1>7 DEF DispatchLegacy
  <2>1. CASE iso' = [iso EXCEPT ![i] = [b EXCEPT !.queue = Tail(b.queue), !.lastSsr = NoOne]] /\ Reply(r, Answer(r))
    <3>1. PICK t : t = [b EXCEPT !.queue = Tail(b.queue), !.lastSsr = NoOne]
      OBVIOUS
    <3>2. t \in ThreadState
      BY <1>2, <3>1 DEF ThreadState
    <3>3. t.queue = Tail(b.queue) /\ t.current = NoOne /\ t.engine = "idle" /\ t.pending = b.pending
      BY <1>1, <1>2, <3>1 DEF ThreadState
    <3>4. Answer(r) \in Outcomes /\ Honest(Answer(r), r, i)
      BY <1>2, OutcomesDiffer DEF Outcomes, Honest
    <3> QED  BY <1>1, <1>2, <1>3, <2>1, <3>1, <3>2, <3>3, <3>4, EndStep
  <2>2. CASE /\ iso' = [iso EXCEPT ![i] = [b EXCEPT !.queue = Tail(b.queue), !.lastSsr = NoOne,
                                                    !.current = r, !.engine = "spinning"]]
             /\ UNCHANGED <<caller, result>>
    <3>1. PICK t : t = [b EXCEPT !.queue = Tail(b.queue), !.lastSsr = NoOne, !.current = r, !.engine = "spinning"]
      OBVIOUS
    <3>2. t \in ThreadState
      <4>1. PICK c \in ThreadState : c = [b EXCEPT !.queue = Tail(b.queue), !.lastSsr = NoOne]
        BY <1>2 DEF ThreadState
      <4>2. PICK d \in ThreadState : d = [c EXCEPT !.current = r]
        BY <1>2 DEF ThreadState
      <4>3. t = [d EXCEPT !.engine = "spinning"]
        BY <3>1, <4>1, <4>2
      <4> QED  BY <4>3, FieldsChange
    <3>3. t.queue = Tail(b.queue) /\ t.current = r /\ t.engine = "spinning" /\ t.pending = b.pending
      BY <1>2, <3>1 DEF ThreadState
    <3>4. t.engine # "idle" /\ t.engine # "running" /\ t.pending \subseteq b.pending \cup {r}
      BY <3>3
    <3>5. iso' = [iso EXCEPT ![i] = t] /\ UNCHANGED <<newest, fileVars, caller, using, result>>
      BY <1>1, <2>2, <3>1
    <3> QED  BY <1>1, <3>2, <3>3, <3>4, <3>5, BeginStep
  <2> QED  BY <1>7, <2>1, <2>2 DEF DispatchLegacy
<1>8. CASE RefuseRender(i, r)
  <2>1. PICK t : t = [b EXCEPT !.queue = Tail(b.queue)]
    OBVIOUS
  <2>2. iso' = [iso EXCEPT ![i] = t] /\ Reply(r, Outcome("no rendering"))
    BY <1>8, <2>1 DEF RefuseRender
  <2>3. t \in ThreadState
    BY <1>2, <2>1 DEF ThreadState
  <2>4. t.queue = Tail(b.queue) /\ t.current = NoOne /\ t.engine = "idle" /\ t.pending = b.pending
    BY <1>1, <1>2, <2>1 DEF ThreadState
  <2>5. Outcome("no rendering") \in Outcomes /\ Honest(Outcome("no rendering"), r, i)
    BY OutcomesDiffer DEF Outcomes, Honest, Failures
  <2> QED  BY <1>1, <1>2, <1>3, <2>2, <2>3, <2>4, <2>5, EndStep
<1> QED  BY <1>1, <1>5, <1>6, <1>7, <1>8
\* The request a thread is busy with.
LEMMA CurrentIs ==
  ASSUME IInv, NEW i \in Isolate, NEW b, b = iso[i], b.engine # "idle"
  PROVE  /\ b \in ThreadState /\ InOrder(b, i) /\ Len(b.queue) <= ChannelCapacity
         /\ b.current \in Request /\ Taken(b.current, i)
         /\ Behind(b.queue, b.current, i) /\ LeftBehind(b.pending, b.current, i)
<1>1. b \in ThreadState /\ InOrder(b, i) /\ Len(b.queue) <= ChannelCapacity
  BY Parts DEF ThreadsOK
<1>2. b.queue \in Seq(Request) /\ b.pending \subseteq Request
  BY <1>1 DEF ThreadState
<1>3. b.current \in Request /\ Taken(b.current, i)
  BY <1>1 DEF InOrder, CurrentInOrder
<1>4. Behind(b.queue, b.current, i)
  <2>1. \A k \in DOMAIN b.queue : b.queue[k] \in Request
    BY <1>2
  <2> QED  BY <1>1, <2>1 DEF InOrder, QueueInOrder, Behind
<1>5. LeftBehind(b.pending, b.current, i)
  BY <1>1, <1>2 DEF InOrder, PendingInOrder, LeftBehind
<1> QED  BY <1>1, <1>3, <1>4, <1>5

\* An operation completes for the request the thread is busy with, or for one it
\* has given up: whose answer it may then read for its own.
LEMMA SettleStep ==
  ASSUME IInv, NEW i \in Isolate, Settle(i)
  PROVE  IInv'
<1> PICK b : b = iso[i]
  OBVIOUS
<1> PICK q \in b.pending :
      \/ iso' = [iso EXCEPT ![i] = Resumed(b, q)]
      \/ iso' = [iso EXCEPT ![i] = [b EXCEPT !.pending = b.pending \ {q}, !.engine = "spinning"]]
  BY DEF Settle
<1>1. b.engine = "running" /\ UNCHANGED <<newest, initFile, disturbed, caller, using, result>>
  BY DEF Settle, fileVars, callerVars
<1>2. /\ b \in ThreadState /\ InOrder(b, i) /\ Len(b.queue) <= ChannelCapacity
      /\ b.current \in Request /\ Taken(b.current, i)
      /\ Behind(b.queue, b.current, i) /\ LeftBehind(b.pending, b.current, i)
  BY <1>1, CurrentIs
<1>3. q \in Request /\ using[q] = i /\ (GivenUp(q) \/ q = b.current)
  BY <1>2 DEF LeftBehind
<1>4. /\ FileOK' /\ HandlersOK' /\ Lasting
      /\ \A p \in Request, j \in Isolate : Taken(p, j) => Taken(p, j)'
  BY <1>1, Parts
  DEF FileOK, HandlersOK, CallerOK, PendingUntilDone, Lasting, ForeignAnswersWereAbandoned, GivenUp, Taken
<1>5. PICK c \in ThreadState : c = [b EXCEPT !.pending = b.pending \ {q}]
  BY <1>2, <1>3, FieldsChange
<1>6. /\ c.queue = b.queue /\ c.current = b.current /\ c.pending = b.pending \ {q}
      /\ c.lastResponse = b.lastResponse /\ c.lastSsr = b.lastSsr /\ c.engine = b.engine
  BY <1>2, <1>5 DEF ThreadState
<1>7. PICK t \in ThreadState :
        /\ iso' = [iso EXCEPT ![i] = t]
        /\ t.queue = c.queue /\ t.current = c.current /\ t.pending = c.pending
        /\ t.engine # "idle"
        /\ t.engine = "running" => Owner(t) \in {Owner(b), q}
  <2>1. CASE iso' = [iso EXCEPT ![i] = Resumed(b, q)]
    <3>1. CASE q \in Api
      <4>1. PICK t \in ThreadState : t = [c EXCEPT !.lastResponse = q]
        BY <3>1, FieldsChange
      <4>2. Resumed(b, q) = [b EXCEPT !.pending = b.pending \ {q}, !.lastResponse = q, !.lastSsr = b.lastSsr]
        BY <3>1, RequestsAssumption DEF Resumed
      <4>3. [b EXCEPT !.pending = b.pending \ {q}, !.lastResponse = q, !.lastSsr = b.lastSsr] = t
        BY <1>2, <1>5, <4>1 DEF ThreadState
      <4>4. /\ t.queue = c.queue /\ t.current = c.current /\ t.pending = c.pending
            /\ t.engine = c.engine /\ t.lastResponse = q /\ t.lastSsr = c.lastSsr
        BY <4>1 DEF ThreadState
      <4>5. Owner(t) \in {Owner(b), q}
        BY <1>6, <4>4 DEF Owner
      <4> QED  BY <1>1, <1>6, <2>1, <4>2, <4>3, <4>4, <4>5
    <3>2. CASE q \in Render
      <4>1. PICK t \in ThreadState : t = [c EXCEPT !.lastSsr = q]
        BY <3>2, FieldsChange
      <4>2. Resumed(b, q) = [b EXCEPT !.pending = b.pending \ {q}, !.lastResponse = b.lastResponse, !.lastSsr = q]
        BY <3>2, RequestsAssumption DEF Resumed
      <4>3. [b EXCEPT !.pending = b.pending \ {q}, !.lastResponse = b.lastResponse, !.lastSsr = q] = t
        BY <1>2, <1>5, <4>1 DEF ThreadState
      <4>4. /\ t.queue = c.queue /\ t.current = c.current /\ t.pending = c.pending
            /\ t.engine = c.engine /\ t.lastSsr = q /\ t.lastResponse = c.lastResponse
        BY <4>1 DEF ThreadState
      <4>5. Owner(t) \in {Owner(b), q}
        BY <1>6, <4>4 DEF Owner
      <4> QED  BY <1>1, <1>6, <2>1, <4>2, <4>3, <4>4, <4>5
    <3> QED  BY <1>3, <3>1, <3>2 DEF Request
  <2>2. CASE iso' = [iso EXCEPT ![i] = [b EXCEPT !.pending = b.pending \ {q}, !.engine = "spinning"]]
    <3>1. PICK t \in ThreadState : t = [c EXCEPT !.engine = "spinning"]
      BY FieldsChange
    <3>2. [b EXCEPT !.pending = b.pending \ {q}, !.engine = "spinning"] = t
      BY <1>5, <3>1
    <3>3. t.queue = c.queue /\ t.current = c.current /\ t.pending = c.pending /\ t.engine = "spinning"
      BY <3>1 DEF ThreadState
    <3> QED  BY <2>2, <3>2, <3>3
  <2> QED  BY <2>1, <2>2
<1>8. QueueInOrder(t, i)'
  BY <1>2, <1>4, <1>6, <1>7, RequestsAssumption DEF QueueInOrder, Behind
<1>9. CurrentInOrder(t, i)' /\ PendingInOrder(t, i)'
  <2>1. t.current = b.current /\ t.pending \subseteq b.pending /\ t.engine # "idle"
    BY <1>6, <1>7
  <2>2. CurrentInOrder(t, i)'
    BY <1>2, <1>4, <2>1 DEF CurrentInOrder
  <2>3. PendingInOrder(t, i)'
    BY <1>1, <1>2, <2>1 DEF PendingInOrder, LeftBehind, GivenUp
  <2> QED  BY <2>2, <2>3
<1>10. OwnerInOrder(t, i)'
  BY <1>1, <1>2, <1>3, <1>6, <1>7 DEF InOrder, OwnerInOrder, GivenUp, Owner
<1>11. InOrder(t, i)' /\ OthersKeep(i) /\ Len(t.queue) <= ChannelCapacity
  BY <1>2, <1>4, <1>6, <1>7, <1>8, <1>9, <1>10 DEF InOrder, OthersKeep
<1> QED  BY <1>4, <1>7, <1>11, ThreadStep

LEMMA IdleThread ==
  ASSUME NEW t \in ThreadState
  PROVE  /\ Idle(t) \in ThreadState
         /\ Idle(t).engine = "idle" /\ Idle(t).current = NoOne
         /\ Idle(t).queue = t.queue /\ Idle(t).pending = t.pending
<1>1. PICK c \in ThreadState : c = [t EXCEPT !.engine = "idle"]
  BY FieldsChange
<1>2. Idle(t) = [c EXCEPT !.current = NoOne]
  BY <1>1 DEF Idle
<1>3. c.engine = "idle" /\ c.queue = t.queue /\ c.pending = t.pending
  BY <1>1 DEF ThreadState
<1>4. [c EXCEPT !.current = NoOne] \in ThreadState
  BY <1>1, FieldsChange
<1> QED  BY <1>1, <1>2, <1>3, <1>4 DEF ThreadState

\* A thread that is done with its request, or gives it up, is in order again.
LEMMA FinishStep ==
  ASSUME IInv, NEW i \in Isolate, Reject(i) \/ CollectAnswer(i) \/ LoopTimesOut(i)
  PROVE  IInv'
<1> PICK b : b = iso[i]
  OBVIOUS
<1> PICK r : r = b.current
  OBVIOUS
<1>1. b.engine = "running" /\ UNCHANGED <<newest, initFile, disturbed, using>>
  BY DEF Reject, CollectAnswer, LoopTimesOut, fileVars
<1>2. /\ b \in ThreadState /\ InOrder(b, i) /\ Len(b.queue) <= ChannelCapacity
      /\ r \in Request /\ Taken(r, i)
      /\ Behind(b.queue, r, i) /\ LeftBehind(b.pending, r, i)
  BY <1>1, CurrentIs
<1>3. FileOK'
  BY <1>1, Parts DEF FileOK
<1>4. CASE Reject(i)
  <2>1. PICK q \in b.pending \ Api : iso' = [iso EXCEPT ![i] = Idle(Without(b, q))]
    BY <1>4 DEF Reject
  <2>2. Reply(r, Outcome("loop error"))
    BY <1>4 DEF Reject
  <2>3. PICK c \in ThreadState : c = Without(b, q)
    BY <1>2, FieldsChange DEF LeftBehind, Without
  <2>4. c.queue = b.queue /\ c.pending = b.pending \ {q}
    BY <1>2, <2>3 DEF ThreadState, Without
  <2>5. PICK t : t = Idle(c)
    OBVIOUS
  <2>6. /\ t \in ThreadState /\ t.engine = "idle" /\ t.current = NoOne
        /\ t.queue = b.queue /\ t.pending = b.pending \ {q}
    BY <2>4, <2>5, IdleThread
  <2>7. Behind(t.queue, r, i) /\ LeftBehind(t.pending, r, i) /\ Len(t.queue) <= ChannelCapacity
    BY <1>2, <2>6 DEF LeftBehind
  <2>8. Outcome("loop error") \in Outcomes /\ Honest(Outcome("loop error"), r, i)
    BY OutcomesDiffer DEF Outcomes, Failures, Honest
  <2>9. iso' = [iso EXCEPT ![i] = t]
    BY <2>1, <2>3, <2>5
  <2> QED  BY <1>1, <1>2, <1>3, <2>2, <2>6, <2>7, <2>8, <2>9, EndStep
<1>5. CASE CollectAnswer(i) \/ LoopTimesOut(i)
  <2>1. PICK t : t = Idle(b)
    OBVIOUS
  <2>2. iso' = [iso EXCEPT ![i] = t]
    BY <1>5, <2>1 DEF CollectAnswer, LoopTimesOut
  <2>3. /\ t \in ThreadState /\ t.engine = "idle" /\ t.current = NoOne
        /\ t.queue = b.queue /\ t.pending = b.pending
    BY <1>2, <2>1, IdleThread
  <2>4. Behind(t.queue, r, i) /\ LeftBehind(t.pending, r, i) /\ Len(t.queue) <= ChannelCapacity
    BY <1>2, <2>3
  <2>5. CASE LoopTimesOut(i)
    <3>1. Reply(r, Outcome("handler timed out"))
      BY <2>5 DEF LoopTimesOut
    <3>2. Outcome("handler timed out") \in Outcomes /\ Honest(Outcome("handler timed out"), r, i)
      BY OutcomesDiffer DEF Outcomes, Failures, Honest
    <3> QED  BY <1>1, <1>2, <1>3, <2>2, <2>3, <2>4, <3>1, <3>2, EndStep
  <2>6. CASE CollectAnswer(i)
    <3> PICK owner : owner = Owner(b)
      OBVIOUS
    <3>1. PICK o : o = IF owner = NoOne THEN Outcome("no response") ELSE Answer(owner)
      OBVIOUS
    <3>2. Reply(r, o) /\ b.pending = {}
      BY <2>6, <3>1 DEF CollectAnswer, Owner
    <3>3. \/ owner \in {NoOne, r}
          \/ owner \in Request /\ using[owner] = i /\ GivenUp(owner)
      BY <1>1, <1>2 DEF InOrder, OwnerInOrder
    <3>4. o \in Outcomes
      BY <1>2, <3>1, <3>3 DEF Outcomes, Failures
    <3>5. Honest(o, r, i)
      BY <1>2, <3>1, <3>3, OutcomesDiffer DEF Honest, Failures
    <3> QED  BY <1>1, <1>2, <1>3, <2>2, <2>3, <2>4, <3>2, <3>4, <3>5, EndStep
  <2> QED  BY <1>5, <2>5, <2>6
<1> QED  BY <1>4, <1>5

\* A thread that ends has nothing left to answer.
LEMMA ShutDownStep ==
  ASSUME IInv, NEW i \in Isolate, ShutDown(i)
  PROVE  IInv'
<1>1. /\ iso' = [iso EXCEPT ![i] = [Fresh EXCEPT !.phase = "ended"]]
      /\ UNCHANGED <<newest, initFile, disturbed, caller, using, result>>
  BY DEF ShutDown, fileVars, callerVars
<1> PICK t : t = [Fresh EXCEPT !.phase = "ended"]
  OBVIOUS
<1>2. /\ t \in ThreadState /\ t.queue = <<>> /\ t.engine = "idle" /\ t.current = NoOne /\ t.pending = {}
  <2>1. <<>> \in Seq(Request)
    OBVIOUS
  <2> QED  BY <2>1 DEF Fresh, ThreadState
<1>3. /\ FileOK' /\ HandlersOK' /\ Lasting
      /\ \A p \in Request, j \in Isolate : Taken(p, j) => Taken(p, j)'
  BY <1>1, Parts
  DEF FileOK, HandlersOK, CallerOK, PendingUntilDone, Lasting, ForeignAnswersWereAbandoned, GivenUp, Taken
<1>4. InOrder(t, i)'
  BY <1>2 DEF InOrder, QueueInOrder, CurrentInOrder, PendingInOrder, OwnerInOrder
<1>5. Len(t.queue) <= ChannelCapacity
  BY <1>2, BoundsAssumption
<1> QED  BY <1>1, <1>2, <1>3, <1>4, <1>5, ThreadStep DEF OthersKeep

LEMMA NextIInv == IInv /\ [Next]_vars => IInv'
<1> SUFFICES ASSUME IInv, [Next]_vars PROVE IInv'
  OBVIOUS
<1>1. CASE UNCHANGED vars
  <2>1. UNCHANGED <<newest, initFile, disturbed, iso, caller, using, result>>
    BY <1>1 DEF vars, fileVars, callerVars
  <2> QED  BY <2>1, Parts, HandlersStep
     DEF FileOK, HandlersOK, CallerOK, PendingUntilDone, Lasting, ForeignAnswersWereAbandoned, GivenUp, Taken
<1>2. CASE \E r \in Request : Arrive(r) \/ Handler(r)
  BY <1>2, ArriveStep, EnqueueStep, GiveUpStep DEF Handler
<1>3. CASE \E i \in Isolate : Thread(i) \/ Settle(i) \/ Reject(i)
  BY <1>3, LoadingStep, DispatchStep, SettleStep, FinishStep, ShutDownStep DEF Thread
<1>4. CASE Restart
  <2>1. newest + 1 \in Isolate
    BY <1>4, Parts, BoundsAssumption DEF Restart, FileOK, Isolate
  <2> QED  BY <1>4, <2>1, LoadingStep
<1> QED  BY <1>1, <1>2, <1>3, <1>4 DEF Next

THEOREM Inductive == Spec => []IInv
BY InitIInv, NextIInv, PTL DEF Spec

\* Each global only ever holds answers of its kind, and no channel holds more
\* than its capacity.
THEOREM TypeCorrect == Spec => []TypeOK
<1>1. IInv => TypeOK
  BY DEF IInv
<1> QED  BY <1>1, Inductive, PTL

\* A request gets its own answer, or that of a request the same isolate has
\* given up before: whatever application code is run, however often isolates
\* are replaced, and in whatever order operations complete.
THEOREM AnswersAbandoned == Spec => []ForeignAnswersWereAbandoned
<1>1. IInv => ForeignAnswersWereAbandoned
  BY DEF IInv
<1> QED  BY <1>1, Inductive, PTL
-----------------------------------------------------------------------------
(* The service the isolates promise: every step of theirs is one of it. *)

LEMMA OutcomeParts ==
  /\ \A q \in Request : Answer(q).kind = "answer" /\ Answer(q).of = q
  /\ \A k \in Failures : Outcome(k).kind # "answer" /\ Outcome(k).of = NoOne
  /\ Pending.of = NoOne
BY DEF Answer, Outcome, Pending, Failures

LEMMA StatusIs ==
  ASSUME NEW r \in Request
  PROVE  /\ caller[r] = "idle" => Status(r) = "idle"
         /\ caller[r] \in {"sending", "waiting"} => Status(r) = "open"
         /\ caller[r] = "done" /\ GivenUp(r) => Status(r) = "abandoned"
         /\ caller[r] = "done" /\ ~ GivenUp(r) /\ result[r].kind = "answer" => Status(r) = "answered"
         /\ caller[r] = "done" /\ ~ GivenUp(r) /\ result[r].kind # "answer" => Status(r) = "failed"
BY DEF Status

LEMMA StatusThen ==
  ASSUME NEW r \in Request
  PROVE  /\ caller'[r] = "idle" => Status(r)' = "idle"
         /\ caller'[r] \in {"sending", "waiting"} => Status(r)' = "open"
         /\ caller'[r] = "done" /\ GivenUp(r)' => Status(r)' = "abandoned"
         /\ caller'[r] = "done" /\ ~ GivenUp(r)' /\ result'[r].kind = "answer" => Status(r)' = "answered"
         /\ caller'[r] = "done" /\ ~ GivenUp(r)' /\ result'[r].kind # "answer" => Status(r)' = "failed"
BY DEF Status

\* A step that leaves the handlers' progress alone does not show.
LEMMA Unseen ==
  ASSUME \A q \in Request : Status(q)' = Status(q) /\ result'[q].of = result[q].of, using' = using
  PROVE  UNCHANGED Service!serviceVars
BY DEF Service!serviceVars

\* What changes for one request only.
LEMMA OneChanges ==
  ASSUME NEW r \in Request,
         \A q \in Request : q # r => caller'[q] = caller[q] /\ result'[q] = result[q]
  PROVE  /\ [q \in Request |-> Status(q)]' = [[q \in Request |-> Status(q)] EXCEPT ![r] = Status(r)']
         /\ [q \in Request |-> result[q].of]' = [[q \in Request |-> result[q].of] EXCEPT ![r] = result'[r].of]
<1>1. \A q \in Request : q # r => Status(q)' = Status(q)
  BY DEF Status, GivenUp
<1> QED  BY <1>1

\* A reply concludes the request of a handler that waits, and no other.
LEMMA ReplyServes ==
  ASSUME HandlersOK, HandlersOK', NEW r \in Request, NEW o \in Outcomes,
         Reply(r, o), using' = using
  PROVE  [Service!ServiceNext]_Service!serviceVars
<1>0. CallerOK /\ PendingUntilDone
  BY DEF HandlersOK
<1>1. /\ \A q \in Request : q # r => result'[q] = result[q] /\ caller'[q] = caller[q]
      /\ caller[r] # "waiting" => result'[r] = result[r] /\ caller'[r] = caller[r]
      /\ caller[r] = "waiting" => result'[r] = o /\ caller'[r] = "done"
  BY <1>0, ReplyStep
<1>2. CASE caller[r] # "waiting"
  <2>1. \A q \in Request : Status(q)' = Status(q) /\ result'[q].of = result[q].of
    BY <1>1, <1>2 DEF Status, GivenUp
  <2> QED  BY <2>1, Unseen
<1>3. CASE caller[r] = "waiting"
  <2>1. Status(r) = "open" /\ result[r] = Pending /\ result'[r] = o /\ caller'[r] = "done"
    BY <1>0, <1>1, <1>3, StatusIs DEF PendingUntilDone
  <2>2. /\ [q \in Request |-> Status(q)]' = [[q \in Request |-> Status(q)] EXCEPT ![r] = Status(r)']
        /\ [q \in Request |-> result[q].of]' = [[q \in Request |-> result[q].of] EXCEPT ![r] = result'[r].of]
    BY <1>1, OneChanges
  <2>3. CASE \E q \in Request : o = Answer(q)
    <3>1. PICK q \in Request : o = Answer(q)
      BY <2>3
    <3>2. q = r \/ (using[q] = using[r] /\ GivenUp(q) /\ Status(q) = "abandoned")
      <4> SUFFICES ASSUME q # r PROVE using[q] = using[r] /\ GivenUp(q) /\ Status(q) = "abandoned"
        OBVIOUS
      <4>1. using'[q] = using'[r] /\ GivenUp(q)'
        BY <2>1, <3>1 DEF HandlersOK, ForeignAnswersWereAbandoned
      <4>2. using[q] = using[r] /\ GivenUp(q)
        BY <1>1, <4>1 DEF GivenUp
      <4> QED  BY <1>0, <4>2, NotIdle, StatusIs
    <3>3. ~ GivenUp(r)' /\ result'[r].kind = "answer" /\ result'[r].of = q
      <4>1. result'[r].kind = "answer" /\ result'[r].of = q
        BY <2>1, <3>1, OutcomeParts
      <4>2. ~ GivenUp(r)'
        BY <2>1, <3>1, OutcomesDiffer DEF GivenUp, Failures
      <4> QED  BY <4>1, <4>2
    <3>4. Status(r)' = "answered"
      BY <2>1, <3>3, StatusThen
    <3>5. Service!GiveBack(r)
      BY <2>1, <2>2, <3>2, <3>3, <3>4 DEF Service!GiveBack, Service!Conclude
    <3> QED  BY <3>5 DEF Service!ServiceNext
  <2>4. CASE ~ \E q \in Request : o = Answer(q)
    <3>1. PICK k \in Failures : o = Outcome(k)
      BY <2>4 DEF Outcomes
    <3>2. result'[r].kind # "answer" /\ result'[r].of = result[r].of
      BY <2>1, <3>1, OutcomeParts
    <3>3. Status(r)' \in {"abandoned", "failed"}
      BY <2>1, <3>2, StatusThen
    <3>4. [q \in Request |-> result[q].of]' = [q \in Request |-> result[q].of]
      BY <1>1, <3>2
    <3>5. Service!GoWithout(r)
      BY <2>1, <2>2, <3>3, <3>4 DEF Service!GoWithout, Service!Conclude
    <3> QED  BY <3>5 DEF Service!ServiceNext
  <2> QED  BY <2>3, <2>4
<1> QED  BY <1>2, <1>3

\* A handler asks the isolate that is the newest when it arrives.
LEMMA ArriveServes ==
  ASSUME IInv, NEW r \in Request, Arrive(r)
  PROVE  Service!ServiceNext
<1>0. FileOK /\ CallerOK /\ PendingUntilDone
  BY Parts DEF HandlersOK
<1>1. /\ caller[r] = "idle" /\ using' = [using EXCEPT ![r] = newest]
      /\ \/ caller' = [caller EXCEPT ![r] = "sending"] /\ result' = result
         \/ /\ caller' = [caller EXCEPT ![r] = "done"]
            /\ result' = [result EXCEPT ![r] = Outcome("unavailable")]
  BY DEF Arrive
<1>2. \A q \in Request : q # r => caller'[q] = caller[q] /\ result'[q] = result[q]
  BY <1>0, <1>1 DEF CallerOK
<1>3. result[r] = Pending /\ Status(r) = "idle" /\ newest \in Isolate
  BY <1>0, <1>1, StatusIs DEF PendingUntilDone, FileOK
<1>4. Status(r)' \in {"open", "failed"} /\ result'[r].of = result[r].of
  <2>1. CASE caller' = [caller EXCEPT ![r] = "sending"] /\ result' = result
    BY <1>0, <2>1, StatusThen DEF CallerOK
  <2>2. CASE /\ caller' = [caller EXCEPT ![r] = "done"]
             /\ result' = [result EXCEPT ![r] = Outcome("unavailable")]
    <3>1. caller'[r] = "done" /\ result'[r] = Outcome("unavailable")
      BY <1>0, <2>2 DEF CallerOK
    <3>2. ~ GivenUp(r)' /\ result'[r].kind # "answer" /\ result'[r].of = result[r].of
      <4>1. "unavailable" \in Failures
        BY DEF Failures
      <4>2. result'[r].kind # "answer" /\ result'[r].of = result[r].of
        BY <1>3, <3>1, <4>1, OutcomeParts
      <4>3. ~ GivenUp(r)'
        BY <3>1, OutcomesDiffer DEF GivenUp, Failures
      <4> QED  BY <4>2, <4>3
    <3> QED  BY <3>1, <3>2, StatusThen
  <2> QED  BY <1>1, <2>1, <2>2
<1>5. [q \in Request |-> Status(q)]' = [[q \in Request |-> Status(q)] EXCEPT ![r] = Status(r)']
  BY <1>2, OneChanges
<1>6. [q \in Request |-> result[q].of]' = [q \in Request |-> result[q].of]
  BY <1>2, <1>4
<1>7. Service!Ask(r)
  BY <1>1, <1>3, <1>4, <1>5, <1>6 DEF Service!Ask
<1> QED  BY <1>3, <1>7 DEF Service!ServiceNext

LEMMA StepServes ==
  ASSUME IInv, IInv', [Next]_vars
  PROVE  [Service!ServiceNext]_Service!serviceVars
<1>0. HandlersOK /\ HandlersOK' /\ CallerOK
  BY Parts, TypeParts DEF IInv, HandlersOK
<1>1. ASSUME UNCHANGED <<caller, using, result>>
      PROVE  UNCHANGED Service!serviceVars
  <2>1. \A q \in Request : Status(q)' = Status(q) /\ result'[q].of = result[q].of
    BY <1>1 DEF Status, GivenUp
  <2> QED  BY <1>1, <2>1, Unseen
<1>2. ASSUME NEW r \in Request, Enqueue(r)
      PROVE  UNCHANGED Service!serviceVars
  <2>1. /\ caller[r] = "sending" /\ caller'[r] = "waiting" /\ UNCHANGED <<using, result>>
        /\ \A q \in Request : q # r => caller'[q] = caller[q]
    BY <1>0, <1>2 DEF Enqueue, CallerOK
  <2>2. Status(r)' = Status(r)
    BY <2>1, StatusIs, StatusThen
  <2>3. \A q \in Request : q # r => Status(q)' = Status(q)
    BY <2>1 DEF Status, GivenUp
  <2> QED  BY <2>1, <2>2, <2>3, Unseen
<1>3. ASSUME NEW r \in Request, GiveUp(r)
      PROVE  [Service!ServiceNext]_Service!serviceVars
  <2>1. Reply(r, Outcome("timed out")) /\ using' = using /\ Outcome("timed out") \in Outcomes
    BY <1>3 DEF GiveUp, Reply, Outcomes, Failures
  <2> QED  BY <1>0, <2>1, ReplyServes
<1>4. ASSUME NEW i \in Isolate, Dispatch(i)
      PROVE  [Service!ServiceNext]_Service!serviceVars
  <2> PICK b : b = iso[i]
    OBVIOUS
  <2> PICK r : r = Head(b.queue)
    OBVIOUS
  <2>1. /\ b.engine = "idle" /\ b.queue # <<>> /\ using' = using
        /\ DispatchApi(i, r) \/ DispatchFramework(i, r) \/ DispatchLegacy(i, r) \/ RefuseRender(i, r)
    BY <1>4 DEF Dispatch
  <2>2. r \in Request
    BY <2>1, FirstInQueue
  <2>3. \/ UNCHANGED <<caller, result>>
        \/ Reply(r, Answer(r))
        \/ Reply(r, Outcome("no rendering"))
    BY <2>1 DEF DispatchApi, DispatchFramework, DispatchLegacy, RefuseRender
  <2>4. Answer(r) \in Outcomes /\ Outcome("no rendering") \in Outcomes
    BY <2>2 DEF Outcomes, Failures
  <2> QED  BY <1>0, <1>1, <2>1, <2>2, <2>3, <2>4, ReplyServes
<1>5. ASSUME NEW i \in Isolate, CollectAnswer(i) \/ LoopTimesOut(i) \/ Reject(i)
      PROVE  [Service!ServiceNext]_Service!serviceVars
  <2> PICK b : b = iso[i]
    OBVIOUS
  <2> PICK r : r = b.current
    OBVIOUS
  <2>1. b.engine = "running" /\ using' = using
    BY <1>5 DEF CollectAnswer, LoopTimesOut, Reject
  <2>2. b \in ThreadState /\ r \in Request /\ InOrder(b, i)
    BY <2>1, CurrentIs
  <2>3. Owner(b) \in Request \cup {NoOne}
    BY <2>2 DEF Owner, ThreadState, Request
  <2>4. \E o \in Outcomes : Reply(r, o)
    <3>1. CASE LoopTimesOut(i) \/ Reject(i)
      BY <3>1 DEF LoopTimesOut, Reject, Outcomes, Failures
    <3>2. CASE CollectAnswer(i)
      <4>1. PICK o : o = IF Owner(b) = NoOne THEN Outcome("no response") ELSE Answer(Owner(b))
        OBVIOUS
      <4>2. Reply(r, o)
        BY <3>2, <4>1 DEF CollectAnswer, Owner
      <4>3. o \in Outcomes
        BY <2>3, <4>1 DEF Outcomes, Failures
      <4> QED  BY <4>2, <4>3
    <3> QED  BY <1>5, <3>1, <3>2
  <2> QED  BY <1>0, <2>1, <2>2, <2>4, ReplyServes
<1>6. ASSUME NEW i \in Isolate, Initialize(i) \/ Settle(i) \/ ShutDown(i)
      PROVE  UNCHANGED <<caller, using, result>>
  BY <1>6 DEF Initialize, Start, LoadApp, LoadServer, CreateInitFile, WriteInitFile, ImportInitFile,
              RemoveInitFile, Settle, ShutDown, callerVars
<1>7. ASSUME Restart \/ UNCHANGED vars
      PROVE  UNCHANGED <<caller, using, result>>
  BY <1>7 DEF Restart, vars, callerVars
<1>8. CASE \E r \in Request : Arrive(r) \/ Handler(r)
  BY <1>2, <1>3, <1>8, ArriveServes DEF Handler
<1>9. CASE \E i \in Isolate : Thread(i) \/ Settle(i) \/ Reject(i)
  BY <1>1, <1>4, <1>5, <1>6, <1>9 DEF Thread
<1> QED  BY <1>1, <1>7, <1>8, <1>9 DEF Next

\* The isolates serve requests: through swaps, timeouts and handlers that go
\* away, each is concluded once, by the isolate it was sent to, and with its own
\* answer or one that this isolate has given up on.
THEOREM ServiceImplemented == Spec => ImplementsService
<1>1. ASSUME Init PROVE Service!ServiceInit
  <2>1. 1 \in Isolate
    BY BoundsAssumption DEF Isolate
  <2>2. \A r \in Request : caller[r] = "idle" /\ result[r] = Pending /\ Status(r) = "idle"
    BY <1>1, StatusIs DEF Init
  <2>3. using \in [Request -> Isolate]
    BY <1>1, <2>1 DEF Init
  <2> QED  BY <2>2, <2>3 DEF Service!ServiceInit, Pending
<1> QED  BY <1>1, Inductive, StepServes, PTL DEF Spec, ImplementsService, Service!ServiceSpec
-----------------------------------------------------------------------------
(* The file that all isolates share. *)

\* Isolate i has created the file and not yet removed it.
Holding(i) == iso[i].phase \in {"write", "import", "remove"}

\* Two isolates that hold the file at once have both been told apart.
Separate == \A i, j \in Isolate : i # j /\ Holding(i) /\ Holding(j) => i \in disturbed

\* An isolate that nobody disturbed imports what it has written.
Whole == \A i \in Isolate : i \notin disturbed /\ iso[i].phase = "import" => initFile = "full"

FInv == Separate /\ Whole /\ FrameworkUnlessDisturbed

\* Isolate i is where it was, and renders as it did.
Same(i) == iso'[i].phase = iso[i].phase /\ iso'[i].renderer = iso[i].renderer

\* A step that leaves the file alone brings nobody to it.
LEMMA FileLeft ==
  ASSUME FInv, UNCHANGED initFile, disturbed \subseteq disturbed',
         \A j \in Isolate : ~ Holding(j)' \/ Same(j)
  PROVE  FInv'
BY DEF FInv, Separate, Whole, FrameworkUnlessDisturbed, Holding, Same

LEMMA GoesOn ==
  ASSUME TypeOK, NEW i \in Isolate, NEW phase, Goes(i, phase)
  PROVE  /\ iso'[i].phase = phase /\ iso'[i].renderer = iso[i].renderer
         /\ \A j \in Isolate : j # i => Same(j)
<1>1. iso \in [Isolate -> ThreadState] /\ iso[i] \in ThreadState
  BY DEF TypeOK
<1> PICK b \in ThreadState : b = iso[i]
  BY <1>1
<1>2. [b EXCEPT !.phase = phase].phase = phase /\ [b EXCEPT !.phase = phase].renderer = b.renderer
  BY DEF ThreadState
<1>3. iso' = [iso EXCEPT ![i] = [b EXCEPT !.phase = phase]]
  BY DEF Goes
<1> QED  BY <1>1, <1>2, <1>3 DEF Same

\* What a thread does with its requests leaves its phase and its renderer.
LEMMA WorkLeavesPhase ==
  ASSUME TypeOK, NEW i \in Isolate, Dispatch(i) \/ CollectAnswer(i) \/ LoopTimesOut(i) \/ Settle(i) \/ Reject(i)
  PROVE  \A j \in Isolate : Same(j)
<1>1. iso \in [Isolate -> ThreadState] /\ iso[i] \in ThreadState
  BY DEF TypeOK
<1> PICK b \in ThreadState : b = iso[i]
  BY <1>1
<1> DEFINE Keeps(t) == t.phase = b.phase /\ t.renderer = b.renderer
<1>2. ASSUME NEW t, iso' = [iso EXCEPT ![i] = t], Keeps(t)
      PROVE  \A j \in Isolate : Same(j)
  BY <1>1, <1>2 DEF Same
<1>3. CASE Dispatch(i)
  <2> PICK r : r = Head(b.queue)
    OBVIOUS
  <2>1. DispatchApi(i, r) \/ DispatchFramework(i, r) \/ DispatchLegacy(i, r) \/ RefuseRender(i, r)
    BY <1>3 DEF Dispatch
  <2>2. ASSUME NEW turn \in FirstTurn(b, r)
        PROVE  /\ Keeps([turn.thread EXCEPT !.lastResponse = turn.answer])
               /\ Keeps([turn.thread EXCEPT !.lastSsr = turn.answer])
    <3> DEFINE began == [b EXCEPT !.queue = Tail(b.queue), !.current = r, !.engine = "running"]
    <3>1. DOMAIN began = DOMAIN b /\ began.phase = b.phase /\ began.renderer = b.renderer
      BY DEF ThreadState
    <3>2. turn.thread \in {began, [began EXCEPT !.pending = began.pending \cup {r}],
                           [began EXCEPT !.engine = "spinning"]}
      BY DEF FirstTurn
    <3>3. {"phase", "renderer"} \subseteq DOMAIN b
      BY DEF ThreadState
    <3> HIDE DEF began
    <3>4. {"phase", "renderer"} \subseteq DOMAIN turn.thread /\ Keeps(turn.thread)
      BY <3>1, <3>2, <3>3
    <3> QED  BY <3>4
  <2>3. CASE DispatchApi(i, r)
    <3>1. CASE \E turn \in FirstTurn(b, r) : iso' = [iso EXCEPT ![i] = [turn.thread EXCEPT !.lastResponse = turn.answer]]
      BY <1>2, <2>2, <3>1
    <3>2. CASE iso' = [iso EXCEPT ![i] = [b EXCEPT !.queue = Tail(b.queue), !.current = r, !.engine = "running",
                                                   !.lastResponse = r]]
      BY <1>2, <3>2 DEF ThreadState
    <3> QED  BY <2>3, <3>1, <3>2 DEF DispatchApi
  <2>4. CASE DispatchFramework(i, r)
    <3>1. \E turn \in FirstTurn(b, r) : iso' = [iso EXCEPT ![i] = [turn.thread EXCEPT !.lastSsr = turn.answer]]
      BY <2>4 DEF DispatchFramework
    <3> QED  BY <1>2, <2>2, <3>1
  <2>5. CASE DispatchLegacy(i, r)
    <3>1. CASE iso' = [iso EXCEPT ![i] = [b EXCEPT !.queue = Tail(b.queue), !.lastSsr = NoOne]]
      BY <1>2, <3>1 DEF ThreadState
    <3>2. CASE iso' = [iso EXCEPT ![i] = [b EXCEPT !.queue = Tail(b.queue), !.lastSsr = NoOne,
                                                   !.current = r, !.engine = "spinning"]]
      BY <1>2, <3>2 DEF ThreadState
    <3> QED  BY <2>5, <3>1, <3>2 DEF DispatchLegacy
  <2>6. CASE RefuseRender(i, r)
    <3>1. iso' = [iso EXCEPT ![i] = [b EXCEPT !.queue = Tail(b.queue)]]
      BY <2>6 DEF RefuseRender
    <3> QED  BY <1>2, <3>1 DEF ThreadState
  <2> QED  BY <2>1, <2>3, <2>4, <2>5, <2>6
<1>4. CASE CollectAnswer(i) \/ LoopTimesOut(i)
  <2>1. iso' = [iso EXCEPT ![i] = Idle(b)]
    BY <1>4 DEF CollectAnswer, LoopTimesOut
  <2> QED  BY <1>2, <2>1 DEF Idle, ThreadState
<1>5. CASE Settle(i)
  <2> PICK q \in b.pending :
        \/ iso' = [iso EXCEPT ![i] = Resumed(b, q)]
        \/ iso' = [iso EXCEPT ![i] = [b EXCEPT !.pending = b.pending \ {q}, !.engine = "spinning"]]
    BY <1>5 DEF Settle
  <2>1. Keeps(Resumed(b, q))
    BY DEF Resumed, ThreadState
  <2>2. Keeps([b EXCEPT !.pending = b.pending \ {q}, !.engine = "spinning"])
    BY DEF ThreadState
  <2> QED  BY <1>2, <2>1, <2>2
<1>6. CASE Reject(i)
  <2>1. PICK q \in b.pending \ Api : iso' = [iso EXCEPT ![i] = Idle(Without(b, q))]
    BY <1>6 DEF Reject
  <2>2. Keeps(Idle(Without(b, q)))
    BY DEF Idle, Without, ThreadState
  <2> QED  BY <1>2, <2>1, <2>2
<1> QED  BY <1>3, <1>4, <1>5, <1>6

\* Who creates a file that others hold is disturbed with them.
LEMMA FileSteps ==
  ASSUME TypeOK, FInv, NEW i \in Isolate,
         CreateInitFile(i) \/ WriteInitFile(i) \/ ImportInitFile(i) \/ RemoveInitFile(i)
  PROVE  FInv'
<1>1. CASE CreateInitFile(i)
  <2>1. CASE Goes(i, "write")
    <3>1. iso'[i].phase = "write" /\ \A j \in Isolate : j # i => Same(j)
      BY <2>1, GoesOn
    <3>2. \A j \in Isolate : j # i /\ Holding(j)' => i \in disturbed' /\ j \in disturbed'
      BY <1>1, <3>1 DEF CreateInitFile, Others, Same, Holding
    <3>3. disturbed \subseteq disturbed'
      BY <1>1 DEF CreateInitFile
    <3>4. Separate'
      BY <3>1, <3>2, <3>3 DEF FInv, Separate, Same, Holding
    <3>5. Whole'
      BY <3>1, <3>2 DEF Whole, Same, Holding
    <3>6. FrameworkUnlessDisturbed'
      BY <3>1, <3>3 DEF FInv, FrameworkUnlessDisturbed, Same
    <3> QED  BY <3>4, <3>5, <3>6 DEF FInv
  <2>2. CASE UNCHANGED initFile /\ Goes(i, "server")
    <3>1. disturbed \subseteq disturbed'
      BY <1>1 DEF CreateInitFile
    <3> QED  BY <2>2, <3>1, GoesOn, FileLeft DEF Holding
  <2> QED  BY <1>1, <2>1, <2>2 DEF CreateInitFile
<1>2. CASE WriteInitFile(i)
  <2>1. /\ iso[i].phase = "write" /\ iso'[i].phase = "import" /\ disturbed' = disturbed
        /\ \A j \in Isolate : j # i => Same(j)
        /\ i \notin disturbed => initFile' = "full"
    BY <1>2, GoesOn DEF WriteInitFile
  <2> QED  BY <2>1 DEF FInv, Separate, Whole, FrameworkUnlessDisturbed, Holding, Same
<1>3. CASE ImportInitFile(i)
  <2> PICK b : b = iso[i]
    OBVIOUS
  <2>1. /\ b.phase = "import" /\ disturbed' = disturbed /\ initFile' = initFile
        /\ iso' = [iso EXCEPT ![i] = [b EXCEPT !.phase = "remove",
                                              !.renderer = IF initFile = "full" THEN "framework" ELSE "legacy"]]
    BY <1>3 DEF ImportInitFile, fileVars
  <2>2. b \in ThreadState /\ iso \in [Isolate -> ThreadState]
    BY DEF TypeOK
  <2>3. /\ iso'[i].phase = "remove" /\ initFile = "full" => iso'[i].renderer = "framework"
        /\ iso'[i].phase = "remove"
        /\ \A j \in Isolate : j # i => Same(j)
    BY <2>1, <2>2 DEF ThreadState, Same
  <2> QED  BY <2>1, <2>3 DEF FInv, Separate, Whole, FrameworkUnlessDisturbed, Holding, Same
<1>4. CASE RemoveInitFile(i)
  <2>1. /\ iso[i].phase = "remove" /\ iso'[i].phase = "server" /\ disturbed' = disturbed \ {i}
        /\ \A j \in Isolate : j # i => Same(j)
    BY <1>4, GoesOn DEF RemoveInitFile
  <2> QED  BY <2>1 DEF FInv, Separate, Whole, FrameworkUnlessDisturbed, Holding, Same
<1> QED  BY <1>1, <1>2, <1>3, <1>4

LEMMA NextFInv == TypeOK /\ FInv /\ [Next]_vars => FInv'
<1> SUFFICES ASSUME TypeOK, FInv, [Next]_vars PROVE FInv'
  OBVIOUS
<1>0. iso \in [Isolate -> ThreadState] /\ newest \in Isolate /\ using \in [Request -> Isolate]
  BY DEF TypeOK
<1>1. CASE \/ UNCHANGED vars
           \/ \E r \in Request : Arrive(r) \/ GiveUp(r)
  <2>1. UNCHANGED <<initFile, disturbed, iso>>
    BY <1>1 DEF vars, fileVars, Arrive, GiveUp
  <2> QED  BY <2>1, FileLeft DEF Same
<1>2. ASSUME NEW r \in Request, Enqueue(r) PROVE FInv'
  <2> PICK b : b = iso[using[r]]
    OBVIOUS
  <2>1. UNCHANGED <<initFile, disturbed>> /\ iso' = [iso EXCEPT ![using[r]] = [b EXCEPT !.queue = Append(b.queue, r)]]
    BY <1>2 DEF Enqueue, fileVars
  <2>2. b \in ThreadState
    BY <1>0
  <2>3. \A j \in Isolate : Same(j)
    BY <1>0, <2>1, <2>2 DEF Same, ThreadState
  <2> QED  BY <2>1, <2>3, FileLeft
<1>3. ASSUME NEW i \in Isolate,
             Dispatch(i) \/ CollectAnswer(i) \/ LoopTimesOut(i) \/ Settle(i) \/ Reject(i)
      PROVE  FInv'
  <2>1. UNCHANGED <<initFile, disturbed>>
    BY <1>3 DEF Dispatch, CollectAnswer, LoopTimesOut, Settle, Reject, fileVars
  <2> QED  BY <1>3, <2>1, WorkLeavesPhase, FileLeft
<1>4. ASSUME NEW i \in Isolate, Start(i) \/ LoadApp(i) \/ LoadServer(i) \/ ShutDown(i) \/ (Restart /\ i = newest + 1)
      PROVE  FInv'
  <2> PICK b : b = iso[i]
    OBVIOUS
  <2>1. UNCHANGED <<initFile, disturbed>>
    BY <1>4 DEF Start, LoadApp, LoadServer, ShutDown, Restart, fileVars
  <2>2. /\ ~ Holding(i)'
        /\ \A j \in Isolate : j # i => Same(j)
    <3>1. b \in ThreadState
      BY <1>0
    <3>2. ASSUME NEW t, iso' = [iso EXCEPT ![i] = t], t.phase \notin {"write", "import", "remove"}
          PROVE  /\ ~ Holding(i)'
                 /\ \A j \in Isolate : j # i => Same(j)
      BY <1>0, <3>2 DEF Holding, Same
    <3>3. CASE \E phase \in {"app", "dead", "server", "create", "stuck", "ready"} : Goes(i, phase)
      BY <3>3, GoesOn DEF Holding
    <3>4. CASE LoadApp(i)
      <4>1. CASE iso' = [iso EXCEPT ![i] = [b EXCEPT !.phase = "ready", !.renderer = "none"]]
        <5>1. [b EXCEPT !.phase = "ready", !.renderer = "none"].phase = "ready"
          BY <3>1 DEF ThreadState
        <5> QED  BY <3>2, <4>1, <5>1
      <4> QED  BY <3>3, <3>4, <4>1 DEF LoadApp
    <3>5. CASE LoadServer(i)
      <4>1. CASE iso' = [iso EXCEPT ![i] = [b EXCEPT !.phase = "ready", !.hasApi = TRUE]]
        <5>1. [b EXCEPT !.phase = "ready", !.hasApi = TRUE].phase = "ready"
          BY <3>1 DEF ThreadState
        <5> QED  BY <3>2, <4>1, <5>1
      <4> QED  BY <3>3, <3>5, <4>1 DEF LoadServer
    <3>6. CASE ShutDown(i)
      <4>1. iso' = [iso EXCEPT ![i] = [Fresh EXCEPT !.phase = "ended"]]
        BY <3>6 DEF ShutDown
      <4>2. [Fresh EXCEPT !.phase = "ended"].phase = "ended"
        BY DEF Fresh
      <4> QED  BY <3>2, <4>1, <4>2
    <3>7. CASE Restart /\ i = newest + 1
      <4>1. iso' = [iso EXCEPT ![i] = [b EXCEPT !.phase = "starting"]]
        BY <3>7 DEF Restart
      <4>2. [b EXCEPT !.phase = "starting"].phase = "starting"
        BY <3>1 DEF ThreadState
      <4> QED  BY <3>2, <4>1, <4>2
    <3> QED  BY <1>4, <3>3, <3>4, <3>5, <3>6, <3>7 DEF Start
  <2>3. \A j \in Isolate : ~ Holding(j)' \/ Same(j)
    BY <2>2
  <2> QED  BY <2>1, <2>3, FileLeft
<1>5. CASE Restart
  <2>1. newest + 1 \in Isolate
    BY <1>0, <1>5, BoundsAssumption DEF Restart, Isolate
  <2> QED  BY <1>4, <1>5, <2>1
<1> QED
  BY <1>1, <1>2, <1>3, <1>4, <1>5, FileSteps DEF Next, Handler, Thread, Initialize

\* An isolate renders with the framework unless another one used the shared
\* file at the same time, however many isolates there are.
THEOREM FrameworkKept == Spec => []FrameworkUnlessDisturbed
<1>1. Init => FInv
  BY BoundsAssumption DEF Init, FInv, Separate, Whole, FrameworkUnlessDisturbed, Holding, Fresh, Isolate
<1>2. FInv => FrameworkUnlessDisturbed
  BY DEF FInv
<1> QED  BY <1>1, <1>2, NextFInv, TypeCorrect, PTL DEF Spec
=============================================================================
