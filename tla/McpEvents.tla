------------------------------ MODULE McpEvents ------------------------------
(***************************************************************************)
(* The event push to LLM clients (server/mcp_events.rs): the hub and its   *)
(* broadcast channel, the relay from the error broadcaster, and for each   *)
(* WebSocket client the handler that greets it, its write task, and the    *)
(* read task that changes its filter.                                      *)
(*                                                                         *)
(* The error state is a number that grows with every change of what is     *)
(* shown; an event is that number, or 0 for anything else a channel        *)
(* carries (a transient info, a file change, a relayed hot update).  A     *)
(* socket holds one message on its way to the client.                      *)
(*                                                                         *)
(* Of the error broadcaster this module keeps when its messages are sent,  *)
(* which is after the change they tell of and outside its lock             *)
(* (errors/broadcaster.rs): a message of errors, or of errors or none, is  *)
(* the state of the moment it is sent; a clear of clear_category was       *)
(* decided on earlier, and may follow a newer state's message.             *)
(***************************************************************************)
EXTENDS Naturals, Sequences, FiniteSets

CONSTANTS
    Client,          \* the clients, each connecting once
    HubCapacity,     \* broadcast::channel(128)
    SourceCapacity,  \* the capacity of the error broadcaster's channel
    AckCapacity,     \* mpsc::channel(16)
    Clear,           \* the error states in which no error is active
    Filters,         \* the filters a client may ask for
    MaxErrors,       \* bound: changes of the error state
    MaxExtras,       \* bound: infos, repeated messages and clears of clear_category
    MaxOthers,       \* bound: other events
    MaxAsks          \* bound: filters a client asks for

ASSUME McpEventsAssumption ==
    /\ IsFiniteSet(Client)
    /\ HubCapacity \in Nat \ {0} /\ SourceCapacity \in Nat \ {0} /\ AckCapacity \in Nat \ {0}
    /\ MaxErrors \in Nat /\ MaxExtras \in Nat /\ MaxOthers \in Nat /\ MaxAsks \in Nat
    /\ Clear \subseteq 1 .. MaxErrors

Kinds == {"error_update", "file_change"}
Event == 0 .. MaxErrors
KindOf(e) == IF e > 0 THEN "error_update" ELSE "file_change"

VARIABLES
    current,   \* the error broadcaster's state
    announcer, \* whether the operation that made it has yet to announce it
    late,      \* the states a clear_category found clear and has yet to say so of
    extras,    \* the messages the error broadcaster could have done without
    astray,    \* history: what became of the announcement of the current state
    source,    \* the messages of the error broadcaster that the relay task has not taken
    hub,       \* everything sent to the hub's broadcast channel
    count,     \* McpEventHub::client_count
    conn       \* the connection of each client

errorVars == <<current, announcer, late, extras, astray, source>>
eventsVars == <<errorVars, hub, count, conn>>

Nothing == [type |-> "nothing"]
Push(e) == [type |-> "event", event |-> e]
Ack(f) == [type |-> "ack", filter |-> f]

(***************************************************************************)
(* A connection: where its handler is; whether the client is at the other  *)
(* end; the snapshot; the receiver's next message of the hub; the filter;  *)
(* whether the write task runs, and what it is sending; the ack the read   *)
(* task is about to queue, and the queued ones; the requests on their way; *)
(* and, at the client, the filter last acknowledged, the error state shown *)
(* and how many filters it asked for.  lost are the error states that were *)
(* not forwarded to the client.                                            *)
(***************************************************************************)
Phases == {"away", "upgraded", "snapshot", "subscribed", "counted", "serving", "closed", "gone"}
Acks == { Ack(f) : f \in SUBSET Kinds }
Messages == {Nothing} \cup { Push(e) : e \in Event } \cup Acks

Connection ==
    [phase : Phases, client : BOOLEAN, snapshot : Event, next : Nat, filter : SUBSET Kinds,
     writing : BOOLEAN, wire : Messages, owed : {Nothing} \cup Acks, acks : Seq(SUBSET Kinds),
     asked : Seq(Filters), granted : SUBSET Kinds,
     view : Event, asks : 0 .. MaxAsks, lost : SUBSET Event]

NotConnected ==
    [phase |-> "away", client |-> FALSE, snapshot |-> 0, next |-> 1, filter |-> Kinds,
     writing |-> FALSE, wire |-> Nothing, owed |-> Nothing, acks |-> <<>>,
     asked |-> <<>>, granted |-> Kinds, view |-> 0, asks |-> 0, lost |-> {}]

(***************************************************************************)
(* The announcement of the current state is on its way or was made, the    *)
(* handler that owed it was dropped before, the relay skipped it, or an    *)
(* older clear was sent after it.                                          *)
(***************************************************************************)
Fates == {"kept", "dropped", "skipped", "overtaken"}

EventsTypeOK ==
    /\ current \in Event /\ announcer \in BOOLEAN /\ late \subseteq Clear
    /\ extras \in 0 .. MaxExtras /\ astray \in Fates /\ source \in Seq(Event)
    /\ hub \in Seq(Event)
    /\ count \in 0 .. Cardinality(Client)
    /\ conn \in [Client -> Connection]
    /\ \A c \in Client : Len(conn[c].acks) <= AckCapacity

\* What the handler and the write task held goes with them.
Ended(phase) == [NotConnected EXCEPT !.phase = phase]

EventsInit ==
    /\ current = 0 /\ announcer = FALSE /\ late = {} /\ extras = 0
    /\ astray = "kept" /\ source = <<>>
    /\ hub = <<>> /\ count = 0
    /\ conn = [c \in Client |-> NotConnected]

Others == Cardinality({ i \in DOMAIN hub : hub[i] = 0 })
States(i, j) == { hub[k] : k \in (i .. j) \cap DOMAIN hub } \ {0}

-----------------------------------------------------------------------------
(***************************************************************************)
(* The error broadcaster.                                                  *)
(***************************************************************************)

\* An operation changes the state that is shown, under the lock, and is to announce it.
ChangeErrors ==
    /\ current < MaxErrors
    /\ current' = current + 1 /\ announcer' = TRUE /\ astray' = "kept"
    /\ UNCHANGED <<late, extras, source, hub, count, conn>>

\* The state of this moment is sent, read and sent under one lock.
Send ==
    /\ source' = Append(source, current) /\ astray' = "kept"
    /\ UNCHANGED <<current, late, hub, count, conn>>

Announce == announcer /\ announcer' = FALSE /\ UNCHANGED extras /\ Send

\* The handler that awaits the operation is dropped with its client.
Dropped ==
    /\ announcer
    /\ announcer' = FALSE /\ astray' = "dropped"
    /\ UNCHANGED <<current, late, extras, source, hub, count, conn>>

\* An operation that changed nothing that is shown, or whose change is history, sends too.
Repeat ==
    /\ ~announcer /\ current > 0 /\ extras < MaxExtras
    /\ extras' = extras + 1 /\ UNCHANGED announcer
    /\ Send

Inform ==
    /\ extras < MaxExtras
    /\ extras' = extras + 1 /\ source' = Append(source, 0)
    /\ UNCHANGED <<current, announcer, late, astray, hub, count, conn>>

\* clear_category finds that no error is left, and lets go of the lock.
FindClear ==
    /\ current \in Clear \ late /\ extras < MaxExtras
    /\ extras' = extras + 1 /\ late' = late \cup {current}
    /\ UNCHANGED <<current, announcer, astray, source, hub, count, conn>>

\* broadcast_clear, of whatever state there is by now: a clear is the news of the current
\* state if that one is clear.
SendClear ==
    \E n \in late :
      /\ late' = late \ {n}
      /\ IF current \in Clear
         THEN source' = Append(source, current) /\ announcer' = FALSE /\ astray' = "kept"
         ELSE /\ source' = Append(source, n)
              /\ astray' = IF announcer THEN astray ELSE "overtaken"
              /\ UNCHANGED announcer
      /\ UNCHANGED <<current, extras, hub, count, conn>>

ErrorOperation ==
    ChangeErrors \/ Announce \/ Dropped \/ Repeat \/ Inform \/ FindClear \/ SendClear

-----------------------------------------------------------------------------
(***************************************************************************)
(* The hub's sources.                                                      *)
(***************************************************************************)

\* The watcher, or the hot update relay, sends to the hub.
OtherEvent ==
    /\ Others < MaxOthers
    /\ hub' = Append(hub, 0)
    /\ UNCHANGED <<errorVars, count, conn>>

\* start_relay_tasks: one message of the error broadcaster; an info is no event.
RelayOne ==
    /\ source # <<>> /\ Len(source) <= SourceCapacity
    /\ source' = Tail(source)
    /\ hub' = IF Head(source) = 0 THEN hub ELSE Append(hub, Head(source))
    /\ UNCHANGED <<current, announcer, late, extras, astray, count, conn>>

\* The news that some are gone.
RelayLags ==
    /\ Len(source) > SourceCapacity
    /\ source' = SubSeq(source, Len(source) - SourceCapacity + 1, Len(source))
    /\ astray' = IF \E i \in DOMAIN source : source[i] = current /\ i <= Len(source) - SourceCapacity
                 THEN "skipped" ELSE astray
    /\ UNCHANGED <<current, announcer, late, extras, hub, count, conn>>

Relay == RelayOne \/ RelayLags

-----------------------------------------------------------------------------
(***************************************************************************)
(* The handler up to its two tasks: ws_mcp_events_handler, and             *)
(* handle_connection to the snapshot.                                      *)
(***************************************************************************)
Connect(c) ==
    /\ conn[c].phase = "away"
    /\ conn' = [conn EXCEPT ![c].phase = "upgraded", ![c].client = TRUE]
    /\ UNCHANGED <<errorVars, hub, count>>

Snapshot(c) ==
    /\ conn[c].phase = "upgraded"
    /\ conn' = [conn EXCEPT ![c].phase = "snapshot", ![c].snapshot = current]
    /\ UNCHANGED <<errorVars, hub, count>>

Subscribe(c) ==
    /\ conn[c].phase = "snapshot"
    /\ conn' = [conn EXCEPT ![c].phase = "subscribed", ![c].next = Len(hub) + 1,
                            ![c].lost = { n \in States(1, Len(hub)) : n > conn[c].snapshot }]
    /\ UNCHANGED <<errorVars, hub, count>>

Count(c) ==
    /\ conn[c].phase = "subscribed"
    /\ count' = count + 1
    /\ conn' = [conn EXCEPT ![c].phase = "counted"]
    /\ UNCHANGED <<errorVars, hub>>

\* The status and the snapshot are sent: into the socket even if nobody will read them.
Greet(c) ==
    /\ conn[c].phase = "counted"
    /\ conn' = [conn EXCEPT ![c].phase = "serving", ![c].writing = TRUE,
                            ![c].view = conn[c].snapshot]
    /\ UNCHANGED <<errorVars, hub, count>>

GreetFails(c) ==
    /\ conn[c].phase = "counted" /\ ~conn[c].client
    /\ conn' = [conn EXCEPT ![c] = Ended("closed")]
    /\ UNCHANGED <<errorVars, hub, count>>

-----------------------------------------------------------------------------
(***************************************************************************)
(* The write task.  While it sends, it does nothing else.                  *)
(***************************************************************************)
Oldest == IF Len(hub) > HubCapacity THEN Len(hub) - HubCapacity + 1 ELSE 1
Ready(c) == conn[c].writing /\ conn[c].wire = Nothing

Forward(c) ==
    /\ Ready(c) /\ conn[c].next >= Oldest /\ conn[c].next <= Len(hub)
    /\ LET e == hub[conn[c].next]
       IN conn' = IF KindOf(e) \in conn[c].filter
                  THEN [conn EXCEPT ![c].next = @ + 1, ![c].wire = Push(e), ![c].lost = @ \ {e}]
                  ELSE [conn EXCEPT ![c].next = @ + 1, ![c].lost = @ \cup ({e} \ {0})]
    /\ UNCHANGED <<errorVars, hub, count>>

(* Mutant: a client that lags is cut off, as the browsers' sockets are. *)
MutLagged(c) ==
    /\ Ready(c) /\ conn[c].next < Oldest
    /\ conn' = [conn EXCEPT ![c].next = Oldest, ![c].writing = FALSE, ![c].acks = <<>>,
                            ![c].lost = @ \cup States(conn[c].next, Oldest - 1)]
    /\ UNCHANGED <<errorVars, hub, count>>

Lagged(c) ==
    /\ Ready(c) /\ conn[c].next < Oldest
    /\ conn' = [conn EXCEPT ![c].next = Oldest,
                            ![c].lost = @ \cup States(conn[c].next, Oldest - 1)]
    /\ UNCHANGED <<errorVars, hub, count>>

SendAck(c) ==
    /\ Ready(c) /\ conn[c].acks # <<>>
    /\ conn' = [conn EXCEPT ![c].wire = Ack(Head(conn[c].acks)), ![c].acks = Tail(@)]
    /\ UNCHANGED <<errorVars, hub, count>>

\* The send fails: the task ends, and with it the receiving end of the acks.
WriteFails(c) ==
    /\ conn[c].writing /\ conn[c].wire # Nothing /\ ~conn[c].client
    /\ conn' = [conn EXCEPT ![c].writing = FALSE, ![c].wire = Nothing, ![c].acks = <<>>]
    /\ UNCHANGED <<errorVars, hub, count>>

WriteTask(c) == Forward(c) \/ Lagged(c) \/ SendAck(c) \/ WriteFails(c)

-----------------------------------------------------------------------------
(***************************************************************************)
(* The read task, which is the rest of the handler.                        *)
(***************************************************************************)

(* Mutant: a filter adds to the one before. *)
MutFilter(c) ==
    /\ conn[c].phase = "serving" /\ conn[c].owed = Nothing /\ conn[c].asked # <<>>
    /\ LET f == Head(conn[c].asked) \cap Kinds
       IN conn' = [conn EXCEPT ![c].asked = Tail(@), ![c].filter = @ \cup f, ![c].owed = Ack(f)]
    /\ UNCHANGED <<errorVars, hub, count>>

\* A request: the names that are known become the filter, and an ack is owed.
Filter(c) ==
    /\ conn[c].phase = "serving" /\ conn[c].owed = Nothing /\ conn[c].asked # <<>>
    /\ LET f == Head(conn[c].asked) \cap Kinds
       IN conn' = [conn EXCEPT ![c].asked = Tail(@), ![c].filter = f, ![c].owed = Ack(f)]
    /\ UNCHANGED <<errorVars, hub, count>>

(* Mutant: the acks' channel stays open without the write task. *)
MutOpen(c) ==
    /\ conn[c].phase = "serving" /\ conn[c].owed # Nothing
    /\ conn[c].writing /\ Len(conn[c].acks) < AckCapacity
    /\ conn' = [conn EXCEPT ![c].owed = Nothing, ![c].acks = Append(@, conn[c].owed.filter)]
    /\ UNCHANGED <<errorVars, hub, count>>

\* The ack waits for room in its channel, or is dropped with the write task.
QueueAck(c) ==
    /\ conn[c].phase = "serving" /\ conn[c].owed # Nothing
    /\ conn[c].writing => Len(conn[c].acks) < AckCapacity
    /\ conn' = [conn EXCEPT ![c].owed = Nothing,
                            ![c].acks = IF conn[c].writing THEN Append(@, conn[c].owed.filter) ELSE @]
    /\ UNCHANGED <<errorVars, hub, count>>

\* The socket is closed or broken: the write task is aborted.
Close(c) ==
    /\ conn[c].phase = "serving" /\ conn[c].owed = Nothing /\ ~conn[c].client
    /\ conn' = [conn EXCEPT ![c] = Ended("closed")]
    /\ UNCHANGED <<errorVars, hub, count>>

Uncount(c) ==
    /\ conn[c].phase = "closed"
    /\ count' = count - 1
    /\ conn' = [conn EXCEPT ![c] = Ended("gone")]
    /\ UNCHANGED <<errorVars, hub>>

ReadTask(c) ==
    \/ Snapshot(c) \/ Subscribe(c) \/ Count(c) \/ Greet(c) \/ GreetFails(c)
    \/ Filter(c) \/ QueueAck(c) \/ Close(c) \/ Uncount(c)

-----------------------------------------------------------------------------
(***************************************************************************)
(* The client.                                                             *)
(***************************************************************************)
AskFilter(c) ==
    /\ conn[c].client /\ conn[c].phase = "serving" /\ conn[c].asks < MaxAsks
    /\ \E f \in Filters :
         conn' = [conn EXCEPT ![c].asked = Append(@, f), ![c].asks = @ + 1]
    /\ UNCHANGED <<errorVars, hub, count>>

Take(c) ==
    /\ conn[c].client /\ conn[c].wire # Nothing
    /\ conn' = [conn EXCEPT ![c].wire = Nothing,
                  ![c].view = IF conn[c].wire.type = "event" /\ conn[c].wire.event > 0
                              THEN conn[c].wire.event ELSE @,
                  ![c].granted = IF conn[c].wire.type = "ack" THEN conn[c].wire.filter ELSE @]
    /\ UNCHANGED <<errorVars, hub, count>>

Leave(c) ==
    /\ conn[c].client
    /\ conn' = [conn EXCEPT ![c].client = FALSE]
    /\ UNCHANGED <<errorVars, hub, count>>

EventsNext ==
    \/ ErrorOperation \/ OtherEvent \/ Relay
    \/ \E c \in Client : Connect(c) \/ ReadTask(c) \/ WriteTask(c) \/ AskFilter(c) \/ Take(c) \/ Leave(c)

(***************************************************************************)
(* The runtime runs what can run; a client reads what it is sent.  What    *)
(* changes, who connects, asks and leaves is up to the world.  A clear may *)
(* be as late as it likes.                                                 *)
(***************************************************************************)
EventsFairness ==
    /\ WF_eventsVars(Announce) /\ WF_eventsVars(Relay)
    /\ \A c \in Client : WF_eventsVars(ReadTask(c)) /\ WF_eventsVars(WriteTask(c)) /\ WF_eventsVars(Take(c))

EventsSpec == EventsInit /\ [][EventsNext]_eventsVars /\ EventsFairness

-----------------------------------------------------------------------------
\* The count is of the connections whose handler is between counting and uncounting itself:
\* no way out of the handler forgets it, however early the client is gone.
CountIsOpenHandlers ==
    count = Cardinality({ c \in Client : conn[c].phase \in {"counted", "serving", "closed"} })

InFlight(c) ==
    { f \cap Kinds : f \in { conn[c].asked[i] : i \in DOMAIN conn[c].asked } }
    \cup { conn[c].acks[i] : i \in DOMAIN conn[c].acks }
    \cup (IF conn[c].owed = Nothing THEN {} ELSE {conn[c].owed.filter})

\* An event on its way to a client is of a kind in the filter the client saw acknowledged
\* last, or in one it asked for since: once a filter is acknowledged, nothing outside it
\* arrives, although the write task reads the filter while the read task changes it.
OnlyWhatWasAskedFor ==
    \A c \in Client : conn[c].wire.type = "event" =>
        KindOf(conn[c].wire.event) \in conn[c].granted \cup UNION InFlight(c)

\* A client that stays ends up showing the current error state, although the error
\* broadcaster sends outside its lock, the relay skips messages and the client lags. What
\* the code lets keep the current state from it: a filter, a lag of its own, or the time
\* between snapshot and subscription (lost); a handler dropped before it announced the
\* state, a relay that lagged past it because of infos and other messages sent since, and a
\* clear that clear_category decided on before the state changed and sent after (astray).
ViewConverges ==
    \A c \in Client : []<>(conn[c].phase = "serving" /\ conn[c].client =>
                              \/ conn[c].view = current
                              \/ current \in conn[c].lost
                              \/ astray # "kept")

\* A client that leaves is uncounted, even while the read task waits for room for an ack
\* and the write task for the client.
LeaversAreForgotten ==
    \A c \in Client : (conn[c].phase # "away" /\ ~conn[c].client) ~> (conn[c].phase = "gone")

=============================================================================
