----------------------- MODULE ErrorBroadcasterProofs -----------------------
(***************************************************************************)
(* What holds of the error broadcaster for every set of tasks, clients,    *)
(* files and messages, every channel capacity and every number of          *)
(* operations.                                                             *)
(***************************************************************************)
EXTENDS ErrorBroadcaster, SequenceTheorems, FiniteSetTheorems, TLAPS

(* What is surfaced, as a function of the error state. *)

\* current_state() is one of the messages: an error message is never empty.
LEMMA CurrentStateType ==
  ASSUME NEW es \in ErrorStates
  PROVE  CurrentState(es) \in Msgs
BY DEF CurrentState, Msgs, ActiveErrors, ErrorMsg, ClearMsg

\* Something is surfaced exactly when some category has errors.
LEMMA SurfacedIffErrors ==
  ASSUME NEW es \in ErrorStates
  PROVE  HasErrors(es) <=> ActiveErrors(es) # {}
<1>1. ASSUME HasErrors(es) PROVE ActiveErrors(es) # {}
  <2>1. PICK top \in Category : es[top] # {} /\ ~ IsSuppressed(es, top)
    BY <1>1 DEF HasErrors, IsSuppressed, Suppresses, Priority, Category
  <2>2. PICK e : e \in es[top]
    BY <2>1
  <2>3. e \in DevError /\ e.category = top
    BY <2>2 DEF ErrorStates, ErrorsOf
  <2> QED  BY <2>1, <2>2, <2>3 DEF ActiveErrors
<1>2. ASSUME ActiveErrors(es) # {} PROVE HasErrors(es)
  BY <1>2 DEF ActiveErrors, HasErrors, DevError
<1> QED  BY <1>1, <1>2

\* Changing the errors of one category that is suppressed afterwards leaves
\* what is surfaced alone.
LEMMA SuppressedChangeIsInvisible ==
  ASSUME NEW es \in ErrorStates, NEW category \in Category,
         NEW new \in SUBSET ErrorsOf(category),
         IsSuppressed([es EXCEPT ![category] = new], category)
  PROVE  ActiveErrors([es EXCEPT ![category] = new]) = ActiveErrors(es)
<1> DEFINE fs == [es EXCEPT ![category] = new]
<1>1. fs \in ErrorStates /\ \A c \in Category : c # category => fs[c] = es[c]
  BY DEF ErrorStates, ErrorsOf
<1>2. PICK higher \in Category : /\ es[higher] # {} /\ fs[higher] # {}
                                 /\ Suppresses(higher, category)
  BY <1>1 DEF IsSuppressed, Suppresses, Priority, Category
<1>3. IsSuppressed(es, category) /\ IsSuppressed(fs, category)
  BY <1>2 DEF IsSuppressed
<1>4. \A c \in Category : c # category => (IsSuppressed(fs, c) <=> IsSuppressed(es, c))
  <2> SUFFICES ASSUME NEW c \in Category, c # category
               PROVE  IsSuppressed(fs, c) <=> IsSuppressed(es, c)
    OBVIOUS
  \* When `category` itself suppresses c, so does `higher`.
  <2>1. Suppresses(category, c) => Suppresses(higher, c)
    BY <1>2 DEF Suppresses, Priority, Category
  <2> QED  BY <1>1, <1>2, <2>1 DEF IsSuppressed
<1>5. \A e \in DevError : e \in ActiveErrors(fs) <=> e \in ActiveErrors(es)
  <2> SUFFICES ASSUME NEW e \in DevError
               PROVE  e \in ActiveErrors(fs) <=> e \in ActiveErrors(es)
    OBVIOUS
  <2>1. e.category \in Category
    BY DEF DevError
  <2>2. CASE e.category = category
    BY <1>3, <2>2 DEF ActiveErrors
  <2>3. CASE e.category # category
    BY <1>1, <1>4, <2>1, <2>3 DEF ActiveErrors
  <2> QED  BY <2>2, <2>3
<1> QED  BY <1>5 DEF ActiveErrors
-----------------------------------------------------------------------------
(* Types. *)

\* The channel only ever gets messages.
LEMMA SendTyped ==
  ASSUME NEW msg \in Msgs, Send(msg), TypeOK
  PROVE  /\ inbox' \in [Client -> Seq(Msgs)]
         /\ lagged' \in [Client -> BOOLEAN]
BY DEF Send, TypeOK

\* Every operation on the state keeps errors under their own category.
LEMMA OperationsTyped ==
  ASSUME NEW es \in ErrorStates, NEW category \in Category
  PROVE  /\ \A e \in DevError : Add(es, e) \in ErrorStates
         /\ Clear(es, category) \in ErrorStates
         /\ \A file \in File : ClearFile(es, category, file) \in ErrorStates
         /\ \A new \in SUBSET ErrorsOf(category) :
              ReplaceCategory(es, category, new) \in ErrorStates
BY DEF Add, Clear, ClearFile, ReplaceCategory, ErrorStates, ErrorsOf, DevError

\* The variables keep to their types in every behaviour.
THEOREM TypeCorrect == Spec => []TypeOK
<1>1. Init => TypeOK
  BY MaxOpsAssumption DEF Init, TypeOK, ErrorStates, NoErrors, Receiving
<1>2. TypeOK /\ [Next]_vars => TypeOK'
  <2> SUFFICES ASSUME TypeOK, [Next]_vars PROVE TypeOK'
    OBVIOUS
  <2>1. ASSUME NEW t \in Task, Operation(t) PROVE TypeOK'
    <3> USE MaxOpsAssumption DEF TypeOK
    <3>1. ASSUME NEW es \in ErrorStates,
                 NEW next \in {"log", "surface", "check", "surface_or_clear"},
                 Start(t, es, next)
          PROVE  TypeOK'
      BY <3>1 DEF Start, clientVars
    <3>2. CASE ReportError(t)
      BY <3>1, <3>2, OperationsTyped DEF ReportError, DevError
    <3>3. CASE ClearCategory(t)
      BY <3>1, <3>3, OperationsTyped DEF ClearCategory
    <3>4. CASE ClearFileErrors(t)
      BY <3>1, <3>4, OperationsTyped DEF ClearFileErrors
    <3>5. CASE ReplaceErrors(t)
      BY <3>1, <3>5, OperationsTyped DEF ReplaceErrors
    <3> QED  BY <2>1, <3>2, <3>3, <3>4, <3>5 DEF Operation
  <2>2. ASSUME NEW t \in Task, TaskStep(t) PROVE TypeOK'
    <3>1. CurrentState(errors) \in Msgs /\ ClearMsg \in Msgs
      BY CurrentStateType DEF TypeOK, Msgs
    <3> USE DEF TypeOK
    <3>2. CASE BroadcastCurrentState(t)
      <4>1. CASE HasErrors(errors)
        BY <3>1, <3>2, <4>1, SendTyped DEF BroadcastCurrentState, Send
      <4>2. CASE ~ HasErrors(errors)
        BY <3>2, <4>2 DEF BroadcastCurrentState, clientVars
      <4> QED  BY <4>1, <4>2
    <3>3. CASE BroadcastCurrentStateOrClear(t)
      BY <3>1, <3>3, SendTyped DEF BroadcastCurrentStateOrClear, Send
    <3>4. CASE CheckRemaining(t)
      BY <3>4 DEF CheckRemaining, clientVars
    <3>5. CASE BroadcastClear(t)
      BY <3>1, <3>5, SendTyped DEF BroadcastClear, Send
    <3>6. CASE WriteErrorLog(t)
      BY <3>6 DEF WriteErrorLog, clientVars
    <3> QED  BY <2>2, <3>2, <3>3, <3>4, <3>5, <3>6 DEF TaskStep
  <2>3. ASSUME NEW c \in Client, ServeClient(c) \/ ClientStep(c) PROVE TypeOK'
    <3> USE DEF TypeOK, serverVars, Receiving
    <3>1. CASE Subscribe(c)
      BY <3>1 DEF Subscribe
    <3>2. CASE CountIn(c)
      BY <3>2 DEF CountIn
    <3>3. CASE ReadCurrent(c)
      BY <3>3, CurrentStateType DEF ReadCurrent
    <3>4. CASE Greet(c)
      BY <3>4 DEF Greet
    <3>5. CASE GreetFails(c)
      BY <3>5 DEF GreetFails
    <3>6. CASE Forward(c)
      BY <3>6 DEF Forward
    <3>7. CASE StopForwarding(c)
      BY <3>7 DEF StopForwarding
    <3>8. CASE Disconnect(c)
      BY <3>8 DEF Disconnect
    <3>9. CASE CountOut(c)
      BY <3>9 DEF CountOut
    <3> QED
      BY <2>3, <3>1, <3>2, <3>3, <3>4, <3>5, <3>6, <3>7, <3>8, <3>9
         DEF ServeClient, ClientStep
  <2>4. CASE UNCHANGED vars
    BY <2>4 DEF TypeOK, vars, serverVars, clientVars
  <2> QED  BY <2>1, <2>2, <2>3, <2>4 DEF Next
<1> QED  BY <1>1, <1>2, PTL DEF Spec
-----------------------------------------------------------------------------
(* No stale errors without a task that owes their correction.              *)
(*                                                                         *)
(* The invariant speaks of the last message in a receiver's queue or, when *)
(* it is empty, of what its client shows.  To be inductive it needs to     *)
(* know that a queue never outgrows the ring (otherwise a message could be *)
(* dropped without the receiver noticing) and that a connection shows      *)
(* nothing before it has read the current state.                           *)

RingBounded == \A c \in Client : Len(inbox[c]) <= Capacity

NothingShownEarly ==
  \A c \in Client : conn[c] \in {"closed", "subscribed", "counted"} => view[c] = NoMsg

IInv ==
  /\ TypeOK
  /\ RingBounded
  /\ NothingShownEarly
  /\ StaleErrorsAreOwed

\* A task owes the broadcast that the current state calls for.
BroadcastOwed ==
  \E t \in Task : pc[t] \in (IF HasErrors(errors) THEN WillBroadcast ELSE WillClear)

\* After a send, what a receiver was told last is the message, unless it lags.
LEMMA SendTells ==
  ASSUME TypeOK, RingBounded, NEW msg \in Msgs, Send(msg)
  PROVE  /\ RingBounded'
         /\ Subscribers' = Subscribers
         /\ \A c \in Subscribers : ~ lagged'[c] => LastTold(c)' = msg
<1> USE CapacityAssumption DEF TypeOK
<1>1. RingBounded'
  <2> SUFFICES ASSUME NEW c \in Client PROVE Len(inbox'[c]) <= Capacity
    BY DEF RingBounded
  <2>1. CASE c \in Subscribers /\ Len(inbox[c]) < Capacity
    <3>1. inbox'[c] = Append(inbox[c], msg)
      BY <2>1 DEF Send
    <3> QED  BY <2>1, <3>1
  <2>2. CASE ~ (c \in Subscribers /\ Len(inbox[c]) < Capacity)
    BY <2>2 DEF Send, RingBounded
  <2> QED  BY <2>1, <2>2
<1>2. Subscribers' = Subscribers
  BY DEF Send, Subscribers
<1>3. ASSUME NEW c \in Subscribers, ~ lagged'[c]
      PROVE  LastTold(c)' = msg
  <2>1. c \in Client /\ Len(inbox[c]) < Capacity
    <3>1. c \in Client
      BY DEF Subscribers
    <3>2. Len(inbox[c]) # Capacity
      BY <1>3, <3>1 DEF Send
    <3>3. Len(inbox[c]) <= Capacity /\ Len(inbox[c]) \in Nat
      BY <3>1 DEF RingBounded
    <3> QED  BY <3>1, <3>2, <3>3
  <2>2. inbox'[c] = Append(inbox[c], msg)
    BY <1>3, <2>1 DEF Send
  <2>3. inbox'[c] # <<>> /\ inbox'[c][Len(inbox'[c])] = msg
    <3> DEFINE q == inbox[c]
    <3>1. q \in Seq(Msgs)
      BY <2>1
    <3> HIDE DEF q
    <3>2. /\ Append(q, msg) \in Seq(Msgs)
          /\ Len(Append(q, msg)) = Len(q) + 1
          /\ Append(q, msg)[Len(q) + 1] = msg
      BY <3>1, AppendProperties
    <3>3. Len(q) \in Nat
      BY <3>1
    <3>4. Append(q, msg) # <<>>
      <4>1. Len(Append(q, msg)) # 0
        BY <3>2, <3>3
      <4> QED  BY <3>2, <4>1, EmptySeq
    <3> QED  BY <2>2, <3>2, <3>4 DEF q
  <2> QED  BY <2>3 DEF LastTold
<1> QED  BY <1>1, <1>2, <1>3
\* Starting an operation leaves clients alone: either what is surfaced stays
\* the same or the task that started owes the broadcast.
LEMMA StartOwes ==
  ASSUME IInv, NEW t \in Task, Operation(t)
  PROVE  /\ StaleErrorsAreOwed'
         /\ ActiveErrors(errors') # ActiveErrors(errors)
              => pc[t] = "idle" /\ pc'[t] \in WillBroadcast
<1> DEFINE
      P == /\ StaleErrorsAreOwed'
           /\ ActiveErrors(errors') # ActiveErrors(errors)
                => pc[t] = "idle" /\ pc'[t] \in WillBroadcast
<1> USE DEF IInv, TypeOK
\* The two kinds of first step: a silent one and one that will speak.
<1>1. ASSUME NEW es \in ErrorStates, Start(t, es, "log"),
             ActiveErrors(es) = ActiveErrors(errors)
      PROVE  P
  <2>1. CurrentState(errors') = CurrentState(errors) /\ HasErrors(errors') = HasErrors(errors)
    BY <1>1, SurfacedIffErrors DEF Start, CurrentState, HasErrors
  <2>2. \A u \in Task : pc[u] \in WillBroadcast => pc'[u] = pc[u]
    BY <1>1 DEF Start, WillBroadcast
  <2>3. WillClear \subseteq WillBroadcast
    BY DEF WillClear, WillBroadcast
  <2>4. Subscribers' = Subscribers /\ \A c \in Client : LastTold(c)' = LastTold(c)
    BY <1>1 DEF Start, clientVars, Subscribers, LastTold
  <2>5. Subscribers \subseteq Client /\ lagged' = lagged
    BY <1>1 DEF Subscribers, Start, clientVars
  <2>6. StaleErrorsAreOwed'
    <3> SUFFICES ASSUME NEW c \in Subscribers', ~ lagged'[c], LastTold(c)'.type = "error",
                        LastTold(c)' # CurrentState(errors')
                 PROVE  \E u \in Task :
                          pc'[u] \in (IF HasErrors(errors') THEN WillBroadcast ELSE WillClear)
      BY DEF StaleErrorsAreOwed
    <3>1. PICK u \in Task :
            pc[u] \in (IF HasErrors(errors) THEN WillBroadcast ELSE WillClear)
      BY <2>1, <2>4, <2>5 DEF StaleErrorsAreOwed
    <3> QED  BY <2>1, <2>2, <2>3, <3>1
  <2> QED  BY <1>1, <2>6 DEF Start
<1>2. ASSUME NEW es \in ErrorStates, NEW next \in {"surface", "check", "surface_or_clear"},
             Start(t, es, next), next = "surface" => HasErrors(es)
      PROVE  P
  <2>1. pc'[t] = next /\ pc[t] = "idle" /\ errors' = es
    BY <1>2 DEF Start
  <2>2. next \in (IF HasErrors(es) THEN WillBroadcast ELSE WillClear) /\ next \in WillBroadcast
    BY <1>2 DEF WillBroadcast, WillClear
  <2> QED  BY <2>1, <2>2 DEF StaleErrorsAreOwed
<1>3. CASE ReportError(t)
  <2>1. PICK e \in DevError :
          LET es == Add(errors, e)
          IN  Start(t, es, IF IsSuppressed(es, e.category) THEN "log" ELSE "surface")
    BY <1>3 DEF ReportError
  <2> DEFINE es == Add(errors, e)
  <2>2. es \in ErrorStates /\ e.category \in Category /\ e \in es[e.category]
    BY OperationsTyped DEF DevError, Add, ErrorStates
  <2>3. CASE IsSuppressed(es, e.category)
    <3>1. errors[e.category] \cup {e} \in SUBSET ErrorsOf(e.category)
      BY DEF ErrorStates, ErrorsOf, DevError
    <3>2. ActiveErrors(es) = ActiveErrors(errors)
      BY <2>2, <2>3, <3>1, SuppressedChangeIsInvisible DEF Add
    <3> QED  BY <1>1, <2>1, <2>2, <2>3, <3>2
  <2>4. CASE ~ IsSuppressed(es, e.category)
    <3>1. HasErrors(es)
      BY <2>2 DEF HasErrors
    <3> QED  BY <1>2, <2>1, <2>2, <2>4, <3>1
  <2> QED  BY <2>3, <2>4
<1>4. CASE ClearCategory(t)
  <2>1. PICK category \in Category :
          LET es == Clear(errors, category)
          IN  Start(t, es, IF IsSuppressed(es, category) THEN "log" ELSE "check")
    BY <1>4 DEF ClearCategory
  <2> DEFINE es == Clear(errors, category)
  <2>2. es \in ErrorStates
    BY OperationsTyped
  <2>3. IsSuppressed(es, category) => ActiveErrors(es) = ActiveErrors(errors)
    BY SuppressedChangeIsInvisible DEF Clear
  <2> QED  BY <1>1, <1>2, <2>1, <2>2, <2>3
<1>5. CASE ClearFileErrors(t)
  BY <1>2, <1>5, OperationsTyped DEF ClearFileErrors
<1>6. CASE ReplaceErrors(t)
  <2>0. PICK category \in Category : \E new \in SUBSET ErrorsOf(category) :
          LET es == ReplaceCategory(errors, category, new)
          IN  Start(t, es, IF IsSuppressed(es, category) THEN "log" ELSE "surface_or_clear")
    BY <1>6 DEF ReplaceErrors
  <2>1. PICK new \in SUBSET ErrorsOf(category) :
          LET es == ReplaceCategory(errors, category, new)
          IN  Start(t, es, IF IsSuppressed(es, category) THEN "log" ELSE "surface_or_clear")
    BY <2>0
  <2> DEFINE es == ReplaceCategory(errors, category, new)
  <2>2. es \in ErrorStates
    BY OperationsTyped
  <2>3. IsSuppressed(es, category) => ActiveErrors(es) = ActiveErrors(errors)
    BY SuppressedChangeIsInvisible DEF ReplaceCategory
  <2> QED  BY <1>1, <1>2, <2>1, <2>2, <2>3
<1> QED  BY <1>3, <1>4, <1>5, <1>6 DEF Operation
\* The later steps of an operation: a task stops owing a broadcast only by
\* making it, or by finding no error left when another task owes the "clear".
LEMMA TaskStepOwes ==
  ASSUME IInv, NEW t \in Task, TaskStep(t)
  PROVE  StaleErrorsAreOwed' /\ errors' = errors
<1> USE DEF IInv, TypeOK
<1>1. CurrentState(errors) \in Msgs /\ ClearMsg \in Msgs
  BY CurrentStateType DEF Msgs
<1>2. errors' = errors
  BY DEF TaskStep, BroadcastCurrentState, BroadcastCurrentStateOrClear, CheckRemaining,
         BroadcastClear, WriteErrorLog
\* Sending the current state, or a clear, settles the matter for everybody.
<1>3. ASSUME NEW msg \in {CurrentState(errors), ClearMsg}, Send(msg)
      PROVE  StaleErrorsAreOwed'
  <2>1. \A c \in Subscribers' : ~ lagged'[c] => LastTold(c)' = msg
    BY <1>1, <1>3, SendTells
  <2>2. ClearMsg.type # "error"
    BY DEF ClearMsg
  <2> QED  BY <1>2, <2>1, <2>2 DEF StaleErrorsAreOwed
\* Clients are left alone and the other tasks owe what is owed.
<1>4. ASSUME UNCHANGED clientVars,
             BroadcastOwed => BroadcastOwed'
      PROVE  StaleErrorsAreOwed'
  <2>1. Subscribers' = Subscribers /\ lagged' = lagged
        /\ \A c \in Client : LastTold(c)' = LastTold(c)
    BY <1>4 DEF clientVars, Subscribers, LastTold
  <2>2. Subscribers \subseteq Client
    BY DEF Subscribers
  <2> QED  BY <1>2, <1>4, <2>1, <2>2 DEF StaleErrorsAreOwed, BroadcastOwed
<1>5. CASE BroadcastCurrentState(t)
  <2>1. CASE HasErrors(errors)
    BY <1>3, <1>5, <2>1 DEF BroadcastCurrentState
  <2>2. CASE ~ HasErrors(errors)
    <3>1. UNCHANGED clientVars /\ \A u \in Task : pc[u] \in WillClear => pc'[u] = pc[u]
      BY <1>5, <2>2 DEF BroadcastCurrentState, WillClear
    <3>2. BroadcastOwed => BroadcastOwed'
      BY <1>2, <2>2, <3>1 DEF BroadcastOwed
    <3> QED  BY <1>2, <1>4, <3>1, <3>2
  <2> QED  BY <2>1, <2>2
<1>6. CASE BroadcastCurrentStateOrClear(t)
  BY <1>3, <1>6 DEF BroadcastCurrentStateOrClear
<1>7. CASE CheckRemaining(t)
  <2>1. UNCHANGED clientVars /\ \A u \in Task \ {t} : pc'[u] = pc[u]
    BY <1>7 DEF CheckRemaining
  <2>2. pc'[t] \in (IF HasErrors(errors) THEN WillBroadcast ELSE WillClear)
    BY <1>7 DEF CheckRemaining, WillBroadcast, WillClear
  <2>3. BroadcastOwed'
    BY <1>2, <2>2 DEF BroadcastOwed
  <2> QED  BY <1>2, <1>4, <2>1, <2>3
<1>8. CASE BroadcastClear(t)
  BY <1>3, <1>8 DEF BroadcastClear
<1>9. CASE WriteErrorLog(t)
  <2>1. UNCHANGED clientVars /\ \A u \in Task : pc[u] # "log" => pc'[u] = pc[u]
    BY <1>9 DEF WriteErrorLog
  <2>2. BroadcastOwed => BroadcastOwed'
    BY <1>2, <2>1 DEF BroadcastOwed, WillBroadcast, WillClear
  <2> QED  BY <1>2, <1>4, <2>1, <2>2
<1> QED  BY <1>2, <1>5, <1>6, <1>7, <1>8, <1>9 DEF TaskStep

\* A connection starts from the current state and reads its queue in order.
LEMMA ConnectionOwes ==
  ASSUME IInv, NEW c \in Client, ServeClient(c) \/ ClientStep(c)
  PROVE  StaleErrorsAreOwed' /\ RingBounded' /\ NothingShownEarly' /\ errors' = errors
<1> DEFINE
      Fits == Len(inbox'[c]) <= Capacity
      Early == conn'[c] \in {"closed", "subscribed", "counted"} => view'[c] = NoMsg
      Told == (c \in Subscribers' /\ ~ lagged'[c]) =>
                \/ LastTold(c)' \in {NoMsg, CurrentState(errors)}
                \/ c \in Subscribers /\ ~ lagged[c] /\ LastTold(c)' = LastTold(c)
<1>0. /\ inbox \in [Client -> Seq(Msgs)] /\ conn \in [Client -> Receiving \cup {"closed", "deaf", "leaving"}]
      /\ lagged \in [Client -> BOOLEAN] /\ greeting \in [Client -> Msgs \cup {NoMsg}]
      /\ view \in [Client -> Msgs \cup {NoMsg}]
      /\ RingBounded /\ NothingShownEarly /\ StaleErrorsAreOwed
  BY DEF IInv, TypeOK
<1>1. UNCHANGED serverVars /\ errors' = errors
  BY DEF ServeClient, ClientStep, Subscribe, CountIn, ReadCurrent, Greet, GreetFails,
         Forward, StopForwarding, Disconnect, CountOut, serverVars
<1>2. \A d \in Client \ {c} :
        /\ conn'[d] = conn[d] /\ inbox'[d] = inbox[d] /\ lagged'[d] = lagged[d]
        /\ view'[d] = view[d] /\ greeting'[d] = greeting[d]
  BY <1>0 DEF ServeClient, ClientStep, Subscribe, CountIn, ReadCurrent, Greet, GreetFails,
              Forward, StopForwarding, Disconnect, CountOut
\* What remains to be shown of the client that moved.
<1>3. ASSUME Fits, Early, Told
      PROVE  StaleErrorsAreOwed' /\ RingBounded' /\ NothingShownEarly'
  <2>1. RingBounded' /\ NothingShownEarly'
    BY <1>0, <1>2, <1>3 DEF RingBounded, NothingShownEarly
  <2>2. \A d \in Client \ {c} :
          LastTold(d)' = LastTold(d) /\ (d \in Subscribers' <=> d \in Subscribers)
    BY <1>2 DEF LastTold, Subscribers
  <2>3. NoMsg.type # "error"
    BY DEF NoMsg
  <2>4. StaleErrorsAreOwed'
    <3> SUFFICES ASSUME NEW d \in Subscribers', ~ lagged'[d], LastTold(d)'.type = "error",
                        LastTold(d)' # CurrentState(errors')
                 PROVE  BroadcastOwed'
      BY DEF StaleErrorsAreOwed, BroadcastOwed
    <3>1. BroadcastOwed <=> BroadcastOwed'
      BY <1>1 DEF BroadcastOwed, serverVars
    <3>2. errors' = errors /\ d \in Client
      BY <1>1 DEF serverVars, Subscribers
    <3>3. CASE d = c
      BY <1>0, <1>3, <2>3, <3>1, <3>2, <3>3 DEF StaleErrorsAreOwed, BroadcastOwed
    <3>4. CASE d # c
      BY <1>0, <1>2, <2>2, <3>1, <3>2, <3>4 DEF StaleErrorsAreOwed, BroadcastOwed
    <3> QED  BY <3>3, <3>4
  <2> QED  BY <2>1, <2>4
<1> HIDE DEF Fits, Early, Told
<1>4. CASE Subscribe(c)
  <2>1. conn[c] = "closed" /\ conn'[c] = "subscribed" /\ inbox'[c] = <<>> /\ view'[c] = view[c]
    BY <1>0, <1>4 DEF Subscribe
  <2>2. view[c] = NoMsg
    BY <1>0, <2>1 DEF NothingShownEarly
  <2>3. Fits
    BY <2>1, CapacityAssumption DEF Fits
  <2>4. LastTold(c)' = NoMsg
    BY <2>1, <2>2 DEF LastTold
  <2> QED  BY <1>1, <1>3, <2>1, <2>2, <2>3, <2>4 DEF Early, Told
<1>5. CASE CountIn(c)
  <2>1. /\ conn[c] = "subscribed" /\ conn'[c] = "counted"
        /\ UNCHANGED <<inbox, lagged, view, greeting>>
    BY <1>0, <1>5 DEF CountIn
  <2>2. Fits /\ Early
    BY <1>0, <2>1 DEF RingBounded, NothingShownEarly, Fits, Early
  <2>3. LastTold(c)' = LastTold(c) /\ c \in Subscribers
    BY <2>1 DEF LastTold, Subscribers, Receiving
  <2> QED  BY <1>1, <1>3, <2>1, <2>2, <2>3 DEF Told
<1>6. CASE ReadCurrent(c)
  <2>1. /\ conn[c] = "counted" /\ conn'[c] = "greeting" /\ UNCHANGED <<inbox, lagged, view>>
        /\ greeting'[c] = CurrentState(errors)
    BY <1>0, <1>6 DEF ReadCurrent
  <2>2. Fits /\ Early
    BY <1>0, <2>1 DEF RingBounded, Fits, Early
  <2>3. LastTold(c)' \in {CurrentState(errors), LastTold(c)} /\ c \in Subscribers
    BY <2>1 DEF LastTold, Subscribers, Receiving
  <2> QED  BY <1>1, <1>3, <2>1, <2>2, <2>3 DEF Told
<1>7. CASE Greet(c)
  <2>1. /\ conn[c] = "greeting" /\ conn'[c] = "open" /\ UNCHANGED <<inbox, lagged>>
        /\ view'[c] = greeting[c]
    BY <1>0, <1>7 DEF Greet
  <2>2. Fits /\ Early
    BY <1>0, <2>1 DEF RingBounded, Fits, Early
  <2>3. LastTold(c)' = LastTold(c) /\ c \in Subscribers
    BY <2>1 DEF LastTold, Subscribers, Receiving
  <2> QED  BY <1>1, <1>3, <2>1, <2>2, <2>3 DEF Told
<1>8. CASE Forward(c)
  <2> DEFINE q == inbox[c]
  <2>1. /\ conn[c] = "open" /\ ~ lagged[c] /\ q # <<>> /\ UNCHANGED <<conn, lagged>>
        /\ view'[c] = Head(q) /\ inbox'[c] = Tail(q)
    BY <1>0, <1>8 DEF Forward
  <2>2. q \in Seq(Msgs) /\ Len(q) <= Capacity
    BY <1>0 DEF RingBounded
  <2>3. LastTold(c) = q[Len(q)]
    BY <2>1 DEF LastTold
  <2> HIDE DEF q
  <2>4. Len(q) \in Nat /\ Len(q) # 0 /\ Head(q) = q[1]
    BY <2>1, <2>2, EmptySeq
  <2>5. /\ Tail(q) \in Seq(Msgs) /\ Len(Tail(q)) = Len(q) - 1
        /\ \A i \in 1 .. Len(q) - 1 : Tail(q)[i] = q[i + 1]
    BY <2>1, <2>2, HeadTailProperties
  <2>6. LastTold(c)' = LastTold(c)
    <3>1. CASE Len(q) = 1
      <4>1. Len(Tail(q)) = 0
        BY <2>5, <3>1
      <4>2. Tail(q) = <<>>
        BY <2>5, <4>1, EmptySeq
      <4> QED  BY <2>1, <2>3, <2>4, <3>1, <4>2 DEF LastTold
    <3>2. CASE Len(q) # 1
      <4>1. Len(q) - 1 \in 1 .. Len(q) - 1 /\ Len(Tail(q)) # 0
        BY <2>4, <2>5, <3>2
      <4>2. Tail(q)[Len(Tail(q))] = q[Len(q)]
        BY <2>4, <2>5, <4>1
      <4>3. Tail(q) # <<>>
        BY <4>1, EmptySeq
      <4> QED  BY <2>1, <2>3, <4>2, <4>3 DEF LastTold
    <3> QED  BY <3>1, <3>2
  <2>7. Fits
    BY <2>1, <2>2, <2>4, <2>5, CapacityAssumption DEF Fits
  <2>8. Early /\ c \in Subscribers
    BY <2>1 DEF Subscribers, Receiving, Early
  <2> QED  BY <1>1, <1>3, <2>1, <2>6, <2>7, <2>8 DEF Told
<1>9. CASE GreetFails(c) \/ StopForwarding(c) \/ Disconnect(c) \/ CountOut(c)
  <2>1. conn'[c] \in {"closed", "deaf", "leaving"}
    BY <1>0, <1>9 DEF GreetFails, StopForwarding, Disconnect, CountOut
  <2>2. c \notin Subscribers'
    BY <2>1 DEF Subscribers, Receiving
  <2>3. inbox'[c] = inbox[c] \/ inbox'[c] = <<>>
    BY <1>0, <1>9 DEF GreetFails, StopForwarding, Disconnect, CountOut
  <2>4. Fits
    BY <1>0, <2>3, CapacityAssumption DEF RingBounded, Fits
  <2>5. Early
    BY <1>0, <1>9 DEF GreetFails, StopForwarding, Disconnect, CountOut, Early
  <2> QED  BY <1>1, <1>3, <2>2, <2>4, <2>5 DEF Told
<1> QED
  BY <1>1, <1>4, <1>5, <1>6, <1>7, <1>8, <1>9 DEF serverVars, ServeClient, ClientStep
\* IInv is inductive.
LEMMA IInvStep ==
  ASSUME IInv, TypeOK', [Next]_vars
  PROVE  IInv'
<1>1. ASSUME NEW t \in Task, Operation(t)
      PROVE  IInv'
  <2>1. UNCHANGED clientVars
    BY <1>1 DEF Operation, ReportError, ClearCategory, ClearFileErrors, ReplaceErrors, Start
  <2>2. RingBounded' /\ NothingShownEarly'
    BY <2>1 DEF IInv, RingBounded, NothingShownEarly, clientVars
  <2> QED  BY <1>1, <2>2, StartOwes DEF IInv
<1>2. ASSUME NEW t \in Task, TaskStep(t)
      PROVE  IInv'
  <2>1. CurrentState(errors) \in Msgs /\ ClearMsg \in Msgs
    BY CurrentStateType DEF Msgs, IInv, TypeOK
  <2>2. UNCHANGED clientVars \/ \E msg \in Msgs : Send(msg)
    BY <1>2, <2>1 DEF TaskStep, BroadcastCurrentState, BroadcastCurrentStateOrClear,
                      CheckRemaining, BroadcastClear, WriteErrorLog
  <2>3. CASE UNCHANGED clientVars
    <3>1. RingBounded' /\ NothingShownEarly'
      BY <2>3 DEF IInv, RingBounded, NothingShownEarly, clientVars
    <3> QED  BY <1>2, <3>1, TaskStepOwes DEF IInv
  <2>4. CASE \E msg \in Msgs : Send(msg)
    <3>1. RingBounded'
      BY <2>4, SendTells DEF IInv
    <3>2. NothingShownEarly'
      BY <2>4 DEF Send, IInv, NothingShownEarly
    <3> QED  BY <1>2, <3>1, <3>2, TaskStepOwes DEF IInv
  <2> QED  BY <2>2, <2>3, <2>4
<1>3. ASSUME NEW c \in Client, ServeClient(c) \/ ClientStep(c)
      PROVE  IInv'
  BY <1>3, ConnectionOwes DEF IInv
<1>4. CASE UNCHANGED vars
  BY <1>4 DEF vars, serverVars, clientVars, IInv, RingBounded, NothingShownEarly,
              StaleErrorsAreOwed, Subscribers, LastTold
<1> QED  BY <1>1, <1>2, <1>3, <1>4 DEF Next

\* IInv holds initially.
LEMMA IInvInit == Init /\ TypeOK => IInv
<1> SUFFICES ASSUME Init, TypeOK PROVE IInv
  OBVIOUS
<1>1. RingBounded /\ NothingShownEarly
  BY CapacityAssumption DEF Init, RingBounded, NothingShownEarly
<1>2. StaleErrorsAreOwed
  BY DEF Init, StaleErrorsAreOwed, Subscribers, Receiving
<1> QED  BY <1>1, <1>2 DEF IInv

\* IInv holds in every reachable state.
THEOREM Invariance == Spec => []IInv
<1>1. Init /\ TypeOK => IInv
  BY IInvInit
<1>2. IInv /\ TypeOK' /\ [Next]_vars => IInv'
  BY IInvStep
<1> QED  BY <1>1, <1>2, TypeCorrect, PTL DEF Spec

\* A client that has missed no message and was told of errors that are not the
\* ones to show now will be corrected: some task still owes the broadcast.
THEOREM StaleErrorsCorrect == Spec => []StaleErrorsAreOwed
<1>1. IInv => StaleErrorsAreOwed
  BY DEF IInv
<1> QED  BY <1>1, Invariance, PTL

\* What a client should see changes only in a step after which the task that
\* took it owes a broadcast.
THEOREM SurfacedChangesCorrect == Spec => SurfacedChangesAreOwed
<1>1. IInv /\ [Next]_vars =>
        [ActiveErrors(errors') # ActiveErrors(errors)
           => \E t \in Task : pc[t] = "idle" /\ pc'[t] \in WillBroadcast]_vars
  <2> SUFFICES ASSUME IInv, [Next]_vars, ActiveErrors(errors') # ActiveErrors(errors)
               PROVE  \E t \in Task : pc[t] = "idle" /\ pc'[t] \in WillBroadcast
    OBVIOUS
  <2>1. ASSUME NEW t \in Task, Operation(t)
        PROVE  pc[t] = "idle" /\ pc'[t] \in WillBroadcast
    BY <2>1, StartOwes
  <2>2. ASSUME NEW t \in Task, TaskStep(t) PROVE FALSE
    BY <2>2, TaskStepOwes
  <2>3. ASSUME NEW c \in Client, ServeClient(c) \/ ClientStep(c) PROVE FALSE
    BY <2>3, ConnectionOwes
  <2>4. ~ UNCHANGED vars
    BY DEF vars, serverVars
  <2> QED  BY <2>1, <2>2, <2>3, <2>4 DEF Next
<1> QED  BY <1>1, Invariance, PTL DEF Spec, SurfacedChangesAreOwed
-----------------------------------------------------------------------------
(* The client count.  At any time finitely many clients are counted,       *)
(* however many there may ever be.                                         *)

Counted == {c \in Client : conn[c] \in {"counted", "greeting", "open", "deaf", "leaving"}}

CountInv == IsFiniteSet(Counted) /\ CountIsConnections

\* A step that counts nobody in or out keeps the count right.
LEMMA CountedSame ==
  ASSUME CountInv, Counted' = Counted, UNCHANGED clientCount
  PROVE  CountInv'
BY DEF CountInv, CountIsConnections, Counted

\* The step of a connection, in terms of who is counted.
LEMMA ConnectionCounts ==
  ASSUME TypeOK, CountInv, NEW c \in Client, ServeClient(c) \/ ClientStep(c)
  PROVE  CountInv'
<1> USE DEF TypeOK, Receiving
<1>1. CASE CountIn(c)
  <2>1. c \notin Counted /\ Counted' = Counted \cup {c} /\ clientCount' = clientCount + 1
    BY <1>1 DEF CountIn, Counted
  <2>2. IsFiniteSet(Counted') /\ Cardinality(Counted') = Cardinality(Counted) + 1
    BY <2>1, FS_AddElement DEF CountInv
  <2> QED  BY <2>1, <2>2 DEF CountInv, CountIsConnections, Counted
<1>2. CASE CountOut(c)
  <2>1. c \in Counted /\ Counted' = Counted \ {c}
    BY <1>2 DEF CountOut, Counted
  <2>2. /\ IsFiniteSet(Counted') /\ Cardinality(Counted') = Cardinality(Counted) - 1
        /\ Cardinality(Counted) \in Nat
    BY <2>1, FS_RemoveElement, FS_CardinalityType DEF CountInv
  <2>3. clientCount = Cardinality(Counted)
    BY DEF CountInv, CountIsConnections, Counted
  \* saturating_sub never saturates: c itself is counted.
  <2>4. clientCount # 0
    BY <2>1, <2>3, FS_EmptySet DEF CountInv
  <2>5. clientCount' = Cardinality(Counted')
    BY <1>2, <2>2, <2>3, <2>4 DEF CountOut
  <2> QED  BY <2>2, <2>5 DEF CountInv, CountIsConnections, Counted
<1>3. CASE Subscribe(c) \/ ReadCurrent(c) \/ Greet(c) \/ GreetFails(c)
  BY <1>3, CountedSame DEF Subscribe, ReadCurrent, Greet, GreetFails, Counted
<1>4. CASE Forward(c) \/ StopForwarding(c) \/ Disconnect(c)
  BY <1>4, CountedSame DEF Forward, StopForwarding, Disconnect, Counted
<1> QED  BY <1>1, <1>2, <1>3, <1>4 DEF ServeClient, ClientStep

\* The diagnostics' count is the number of connections, for any number of
\* clients coming and going at any time.
THEOREM CountCorrect == Spec => []CountIsConnections
<1>1. Init => CountInv
  <2> SUFFICES ASSUME Init PROVE CountInv
    OBVIOUS
  <2>1. Counted = {}
    BY DEF Init, Counted
  <2> QED  BY <2>1, FS_EmptySet DEF Init, CountInv, CountIsConnections, Counted
<1>2. TypeOK /\ CountInv /\ [Next]_vars => CountInv'
  <2> SUFFICES ASSUME TypeOK, CountInv, [Next]_vars PROVE CountInv'
    OBVIOUS
  <2>1. ASSUME NEW t \in Task, Operation(t) \/ TaskStep(t) PROVE UNCHANGED <<conn, clientCount>>
    BY <2>1 DEF Operation, ReportError, ClearCategory, ClearFileErrors, ReplaceErrors, Start,
                TaskStep, BroadcastCurrentState, BroadcastCurrentStateOrClear, CheckRemaining,
                BroadcastClear, WriteErrorLog, Send, clientVars
  <2>2. CASE UNCHANGED <<conn, clientCount>>
    BY <2>2, CountedSame DEF Counted
  <2>3. CASE UNCHANGED vars
    BY <2>2, <2>3 DEF vars, clientVars
  <2> QED  BY <2>1, <2>2, <2>3, ConnectionCounts DEF Next
<1>3. CountInv => CountIsConnections
  BY DEF CountInv
<1> QED  BY <1>1, <1>2, <1>3, TypeCorrect, PTL DEF Spec

-----------------------------------------------------------------------------
\* Once no operation is under way the last snapshot logged is the current state.
THEOREM LogCorrect == Spec => []LogSnapshotIsCurrent
<1>1. Init => LogSnapshotIsCurrent
  BY DEF Init, LogSnapshotIsCurrent
<1>2. TypeOK /\ LogSnapshotIsCurrent /\ [Next]_vars => LogSnapshotIsCurrent'
  <2> SUFFICES ASSUME TypeOK, LogSnapshotIsCurrent, [Next]_vars PROVE LogSnapshotIsCurrent'
    OBVIOUS
  <2> USE DEF LogSnapshotIsCurrent, TypeOK
  <2>1. ASSUME NEW t \in Task, Operation(t) PROVE pc'[t] # "idle"
    BY <2>1 DEF Operation, ReportError, ClearCategory, ClearFileErrors, ReplaceErrors, Start
  <2>2. ASSUME NEW t \in Task, TaskStep(t) PROVE pc'[t] # "idle" \/ logged' = errors'
    BY <2>2 DEF TaskStep, BroadcastCurrentState, BroadcastCurrentStateOrClear, CheckRemaining,
                BroadcastClear, WriteErrorLog
  <2>3. ASSUME NEW c \in Client, ServeClient(c) \/ ClientStep(c) PROVE UNCHANGED serverVars
    BY <2>3 DEF ServeClient, ClientStep, Subscribe, CountIn, ReadCurrent, Greet, GreetFails,
                Forward, StopForwarding, Disconnect, CountOut
  <2>4. CASE UNCHANGED serverVars
    BY <2>4 DEF serverVars
  <2> QED  BY <2>1, <2>2, <2>3, <2>4 DEF Next, vars
<1> QED  BY <1>1, <1>2, TypeCorrect, PTL DEF Spec
=============================================================================
