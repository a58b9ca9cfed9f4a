-------------------------- MODULE ErrorBroadcaster --------------------------
(***************************************************************************)
(* The error hub of the dev server (errors/broadcaster.rs): tasks of the   *)
(* server change the error state, tell every connected error overlay over  *)
(* a bounded broadcast channel, and hand a snapshot to the error log.      *)
(*                                                                         *)
(* Every operation takes the state's lock several times.  A step of a task *)
(* is one critical section: between two of them any other task may run.    *)
(* A message sent to a web socket is shown by its client: the socket's own *)
(* buffer is reliable and ordered and adds nothing but delay.              *)
(***************************************************************************)
EXTENDS ErrorState, Sequences, FiniteSets

CONSTANTS Task,       \* server tasks that call the broadcaster
          Client,     \* browser tabs that open /__vertz_errors
          Capacity,   \* slots of the broadcast channel (64 in the code)
          MaxOps      \* bound on the operations started in a behaviour

ASSUME CapacityAssumption == Capacity \in Nat \ {0}
ASSUME MaxOpsAssumption == MaxOps \in Nat

VARIABLES errors,     \* ErrorState, behind the RwLock
          pc,         \* what each task has yet to do of its operation
          ops,        \* operations started so far
          logged,     \* snapshot handed to the error log last
          conn,       \* progress of each client's handle_connection
          greeting,   \* the current_state() a new connection is about to send
          inbox,      \* each receiver's unread part of the channel
          lagged,     \* the receiver has missed a message
          view,       \* what each client was told last
          clientCount

serverVars == <<errors, pc, ops, logged>>
clientVars == <<conn, greeting, inbox, lagged, view, clientCount>>
vars == <<serverVars, clientVars>>

-----------------------------------------------------------------------------
(* Messages and the broadcast channel. *)

ClearMsg == [type |-> "clear", errors |-> {}]
ErrorMsg(active) == [type |-> "error", errors |-> active]

Msgs == {ClearMsg} \cup {ErrorMsg(active) : active \in (SUBSET DevError) \ {{}}}

NoMsg == [type |-> "none", errors |-> {}]

\* current_state: what a client that is up to date shows.
CurrentState(es) ==
  IF ActiveErrors(es) = {} THEN ClearMsg ELSE ErrorMsg(ActiveErrors(es))

\* A receiver exists from subscribe() until handle_connection gives it up.
Receiving == {"subscribed", "counted", "greeting", "open"}

Subscribers == {c \in Client : conn[c] \in Receiving}

\* broadcast_tx.send: a receiver that is a whole ring behind has lost a message.
Send(msg) ==
  /\ inbox' = [c \in Client |->
       IF c \in Subscribers /\ Len(inbox[c]) < Capacity
       THEN Append(inbox[c], msg) ELSE inbox[c]]
  /\ lagged' = [c \in Client |->
       lagged[c] \/ (c \in Subscribers /\ Len(inbox[c]) = Capacity)]
  /\ UNCHANGED <<conn, greeting, view, clientCount>>

-----------------------------------------------------------------------------
(* The operations: the first step of each changes the state under the     *)
(* write lock and decides whether anything is to be broadcast.            *)

Start(t, es, next) ==
  /\ pc[t] = "idle"
  /\ ops < MaxOps
  /\ ops' = ops + 1
  /\ errors' = es
  /\ pc' = [pc EXCEPT ![t] = next]
  /\ UNCHANGED <<logged, clientVars>>

ReportError(t) ==
  \E e \in DevError :
    LET es == Add(errors, e)
    IN  Start(t, es, IF IsSuppressed(es, e.category) THEN "log" ELSE "surface")

\* Mutant: nothing is broadcast when no error is left.
MutClearCategoryQuiet(t) ==
  \E category \in Category :
    LET es == Clear(errors, category)
    IN  Start(t, es, IF IsSuppressed(es, category) \/ ~ HasErrors(es) THEN "log" ELSE "check")

ClearCategory(t) ==
  \E category \in Category :
    LET es == Clear(errors, category)
    IN  Start(t, es, IF IsSuppressed(es, category) THEN "log" ELSE "check")

ClearFileErrors(t) ==
  \E category \in Category, file \in File :
    Start(t, ClearFile(errors, category, file), "surface_or_clear")

\* Mutant: the new errors go out like a reported one, an empty list is not.
MutReplaceNoClear(t) ==
  \E category \in Category :
    \E new \in SUBSET ErrorsOf(category) :
      LET es == ReplaceCategory(errors, category, new)
      IN  Start(t, es, IF IsSuppressed(es, category) THEN "log" ELSE "surface")

ReplaceErrors(t) ==
  \E category \in Category :
    \E new \in SUBSET ErrorsOf(category) :
      LET es == ReplaceCategory(errors, category, new)
      IN  Start(t, es, IF IsSuppressed(es, category) THEN "log" ELSE "surface_or_clear")

\* broadcast_current_state: says nothing when there is nothing to show.
BroadcastCurrentState(t) ==
  /\ pc[t] = "surface"
  /\ pc' = [pc EXCEPT ![t] = "log"]
  /\ IF HasErrors(errors)
     THEN Send(CurrentState(errors))
     ELSE UNCHANGED clientVars
  /\ UNCHANGED <<errors, ops, logged>>

\* Mutant: the "or clear" half is missing.
MutBroadcastNoClear(t) ==
  /\ pc[t] = "surface_or_clear"
  /\ pc' = [pc EXCEPT ![t] = "log"]
  /\ IF HasErrors(errors)
     THEN Send(CurrentState(errors))
     ELSE UNCHANGED clientVars
  /\ UNCHANGED <<errors, ops, logged>>

\* broadcast_current_state_or_clear: reads and sends under one read lock.
BroadcastCurrentStateOrClear(t) ==
  /\ pc[t] = "surface_or_clear"
  /\ pc' = [pc EXCEPT ![t] = "log"]
  /\ Send(CurrentState(errors))
  /\ UNCHANGED <<errors, ops, logged>>

\* clear_category looks at the state under a read lock of its own and drops
\* the lock before it acts on what it saw.
CheckRemaining(t) ==
  /\ pc[t] = "check"
  /\ pc' = [pc EXCEPT ![t] = IF HasErrors(errors) THEN "surface" ELSE "clear"]
  /\ UNCHANGED <<errors, ops, logged, clientVars>>

\* broadcast_clear: sent without the lock.
BroadcastClear(t) ==
  /\ pc[t] = "clear"
  /\ pc' = [pc EXCEPT ![t] = "log"]
  /\ Send(ClearMsg)
  /\ UNCHANGED <<errors, ops, logged>>

\* write_error_log: the snapshot goes to a blocking thread that writes the file.
WriteErrorLog(t) ==
  /\ pc[t] = "log"
  /\ pc' = [pc EXCEPT ![t] = "idle"]
  /\ logged' = errors
  /\ UNCHANGED <<errors, ops, clientVars>>

-----------------------------------------------------------------------------
(* handle_connection: subscribe, count, send the current state, forward.   *)

Subscribe(c) ==
  /\ conn[c] = "closed"
  /\ conn' = [conn EXCEPT ![c] = "subscribed"]
  /\ inbox' = [inbox EXCEPT ![c] = <<>>]
  /\ lagged' = [lagged EXCEPT ![c] = FALSE]
  /\ UNCHANGED <<greeting, view, clientCount, serverVars>>

CountIn(c) ==
  /\ conn[c] = "subscribed"
  /\ conn' = [conn EXCEPT ![c] = "counted"]
  /\ clientCount' = clientCount + 1
  /\ UNCHANGED <<greeting, inbox, lagged, view, serverVars>>

ReadCurrent(c) ==
  /\ conn[c] = "counted"
  /\ conn' = [conn EXCEPT ![c] = "greeting"]
  /\ greeting' = [greeting EXCEPT ![c] = CurrentState(errors)]
  /\ UNCHANGED <<inbox, lagged, view, clientCount, serverVars>>

Greet(c) ==
  /\ conn[c] = "greeting"
  /\ conn' = [conn EXCEPT ![c] = "open"]
  /\ view' = [view EXCEPT ![c] = greeting[c]]
  /\ greeting' = [greeting EXCEPT ![c] = NoMsg]
  /\ UNCHANGED <<inbox, lagged, clientCount, serverVars>>

\* The first send fails when the client is already gone.
GreetFails(c) ==
  /\ conn[c] = "greeting"
  /\ conn' = [conn EXCEPT ![c] = "leaving"]
  /\ greeting' = [greeting EXCEPT ![c] = NoMsg]
  /\ UNCHANGED <<inbox, lagged, view, clientCount, serverVars>>

\* One turn of the write task's loop, `while let Ok(msg) = broadcast_rx.recv()`.
Forward(c) ==
  /\ conn[c] = "open"
  /\ ~ lagged[c]
  /\ inbox[c] # <<>>
  /\ view' = [view EXCEPT ![c] = Head(inbox[c])]
  /\ inbox' = [inbox EXCEPT ![c] = Tail(inbox[c])]
  /\ UNCHANGED <<conn, greeting, lagged, clientCount, serverVars>>

\* recv() returns Lagged, which ends the loop; the read task keeps the
\* connection open and nothing is forwarded on it any more.
StopForwarding(c) ==
  /\ conn[c] = "open"
  /\ lagged[c]
  /\ conn' = [conn EXCEPT ![c] = "deaf"]
  /\ inbox' = [inbox EXCEPT ![c] = <<>>]
  /\ UNCHANGED <<greeting, lagged, view, clientCount, serverVars>>

\* The read task sees the close; the write task is aborted.
Disconnect(c) ==
  /\ conn[c] \in {"open", "deaf"}
  /\ conn' = [conn EXCEPT ![c] = "leaving"]
  /\ UNCHANGED <<greeting, inbox, lagged, view, clientCount, serverVars>>

\* saturating_sub
CountOut(c) ==
  /\ conn[c] = "leaving"
  /\ conn' = [conn EXCEPT ![c] = "closed"]
  /\ clientCount' = IF clientCount = 0 THEN 0 ELSE clientCount - 1
  /\ inbox' = [inbox EXCEPT ![c] = <<>>]
  /\ lagged' = [lagged EXCEPT ![c] = FALSE]
  /\ view' = [view EXCEPT ![c] = NoMsg]
  /\ UNCHANGED <<greeting, serverVars>>

-----------------------------------------------------------------------------
Init ==
  /\ errors = NoErrors
  /\ pc = [t \in Task |-> "idle"]
  /\ ops = 0
  /\ logged = NoErrors
  /\ conn = [c \in Client |-> "closed"]
  /\ greeting = [c \in Client |-> NoMsg]
  /\ inbox = [c \in Client |-> <<>>]
  /\ lagged = [c \in Client |-> FALSE]
  /\ view = [c \in Client |-> NoMsg]
  /\ clientCount = 0

\* The steps a task takes on its own once it has started an operation.
TaskStep(t) ==
  \/ BroadcastCurrentState(t)
  \/ BroadcastCurrentStateOrClear(t)
  \/ CheckRemaining(t)
  \/ BroadcastClear(t)
  \/ WriteErrorLog(t)

Operation(t) ==
  \/ ReportError(t)
  \/ ClearCategory(t)
  \/ ClearFileErrors(t)
  \/ ReplaceErrors(t)

\* The steps of handle_connection that wait for nobody but the server.
ServeClient(c) ==
  \/ CountIn(c)
  \/ ReadCurrent(c)
  \/ Greet(c)
  \/ Forward(c)
  \/ StopForwarding(c)
  \/ CountOut(c)

ClientStep(c) ==
  \/ Subscribe(c)
  \/ GreetFails(c)
  \/ Disconnect(c)

Next ==
  \/ \E t \in Task : Operation(t) \/ TaskStep(t)
  \/ \E c \in Client : ServeClient(c) \/ ClientStep(c)

Spec == Init /\ [][Next]_vars

\* The runtime keeps polling the tasks it has: an operation under way and a
\* connection being served go on.  Nobody has to report, connect or leave.
Fairness ==
  /\ \A t \in Task : WF_vars(TaskStep(t))
  /\ \A c \in Client : WF_vars(ServeClient(c))

FairSpec == Spec /\ Fairness
-----------------------------------------------------------------------------
(* Properties. *)

\* Type invariant.
TypeOK ==
  /\ errors \in ErrorStates
  /\ pc \in [Task -> {"idle", "surface", "surface_or_clear", "check", "clear", "log"}]
  /\ ops \in 0..MaxOps
  /\ logged \in ErrorStates
  /\ conn \in [Client -> Receiving \cup {"closed", "deaf", "leaving"}]
  /\ greeting \in [Client -> Msgs \cup {NoMsg}]
  /\ inbox \in [Client -> Seq(Msgs)]
  /\ lagged \in [Client -> BOOLEAN]
  /\ view \in [Client -> Msgs \cup {NoMsg}]
  /\ clientCount \in Nat

\* Tasks that have changed the state and have not yet spoken about it.
WillBroadcast == {"surface", "surface_or_clear", "check", "clear"}

\* Those among them that will also say so when nothing is left to show.
WillClear == {"surface_or_clear", "check", "clear"}

\* The last message on its way to a client, or the one it shows.
LastTold(c) ==
  IF inbox[c] # <<>> THEN inbox[c][Len(inbox[c])]
  ELSE IF conn[c] = "greeting" THEN greeting[c] ELSE view[c]

\* Whenever the errors a client was told last are not the ones the server
\* would surface now, some task still owes the broadcast that corrects it, one
\* able to send "clear" when no error is left.  So once the tasks are done, a
\* client that has missed no message never goes on showing errors that are
\* fixed or suppressed, however the operations and its connection interleaved.
StaleErrorsAreOwed ==
  \A c \in Subscribers :
    (~ lagged[c] /\ LastTold(c).type = "error" /\ LastTold(c) # CurrentState(errors))
      => \E t \in Task : pc[t] \in (IF HasErrors(errors) THEN WillBroadcast ELSE WillClear)

\* clientCount, which the diagnostics report, is the number of connections
\* between the two critical sections that count them: the saturating_sub on
\* the ways out of handle_connection never hides a missed increment.
CountIsConnections ==
  clientCount =
    Cardinality({c \in Client : conn[c] \in {"counted", "greeting", "open", "deaf", "leaving"}})

\* Once no operation is under way, the newest snapshot handed to the error log
\* is the current state: an operation never logs the state from before it.
LogSnapshotIsCurrent ==
  (\A t \in Task : pc[t] = "idle") => logged = errors

\* Reporting, clearing and replacing errors of a suppressed category leaves
\* what a client sees alone: what is surfaced changes only in a step that
\* leaves a task owing a broadcast.
SurfacedChangesAreOwed ==
  [][ActiveErrors(errors') # ActiveErrors(errors)
       => \E t \in Task : pc[t] = "idle" /\ pc'[t] \in WillBroadcast]_vars

\* A client that hears every message stops showing errors after the last one
\* was cleared, unless a new one comes up.
ClearedErrorsGoAway ==
  \A c \in Client :
    (conn[c] = "open" /\ view[c].type = "error" /\ ~ HasErrors(errors))
      ~> (conn[c] # "open" \/ lagged[c] \/ view[c].type = "clear" \/ HasErrors(errors))
=============================================================================
