------------------------------ MODULE McpSessions ------------------------------
(***************************************************************************)
(* The SSE transport of the MCP server (server/mcp.rs): a client opens a   *)
(* stream and is told a session id, posts JSON-RPC messages to it, and     *)
(* reads the responses from the stream.  The sessions are a map from ids   *)
(* to the sending halves of bounded channels behind a tokio RwLock, and a  *)
(* post waits for room in a channel with that lock held for reading.       *)
(***************************************************************************)
EXTENDS Naturals, Sequences, Functions, FiniteSets

CONSTANTS
    Session,    \* the sessions that are ever opened; each has an id of its own
    Post,       \* the POST requests that ever arrive
    kinds,      \* bound: kinds[p]: what a post may be
    Capacity,   \* of a session's channel (64)
    None

Kind == {"request", "notification", "garbage"}

ASSUME McpAssumption ==
    /\ kinds \in [Post -> SUBSET Kind]
    /\ Capacity \in Nat \ {0}
    /\ Session \cap Post = {} /\ None \notin Session \cup Post
    /\ IsFiniteSet(Session) /\ IsFiniteSet(Post)

Task == Session \cup Post   \* a task that takes the lock: an opening or a post

VARIABLES
    sessions,   \* the ids in the map
    channel,    \* channel[s]: the responses in the channel, by their posts
    stream,     \* stream[s]: "none", "open" or "closed", the SSE stream
    stalled,    \* the clients that do not read what they are sent
    read,       \* read[s]: the responses the client of s has read
    lock,       \* the tasks that hold the lock, with how they hold it
    waiting,    \* the tasks that wait for it, first come first served
    pc,         \* what a task does next
    target,     \* target[p]: the session a post is for
    kind        \* kind[p]: what a post is; it does not change

vars == <<sessions, channel, stream, stalled, read, lock, waiting, pc, target, kind>>

Claim == [task : Task, write : BOOLEAN]

TypeOK ==
    /\ sessions \subseteq Session
    /\ channel \in [Session -> Seq(Post)]
    /\ \A s \in Session : Len(channel[s]) <= Capacity
    /\ stream \in [Session -> {"none", "open", "closed"}]
    /\ stalled \subseteq Session
    /\ read \in [Session -> SUBSET Post]
    /\ lock \subseteq Claim /\ waiting \in Seq(Claim)
    /\ pc \in [Task -> {"new", "insert", "handle", "lookup", "full", "remove", "sent", "unsent",
                        "done", "accepted", "refused", "dropped"}]
    /\ target \in [Post -> Session \cup {None}]
    /\ kind \in [Post -> Kind]

Init ==
    /\ sessions = {} /\ stalled = {} /\ lock = {} /\ waiting = <<>>
    /\ channel = [s \in Session |-> <<>>]
    /\ stream = [s \in Session |-> "none"]
    /\ read = [s \in Session |-> {}]
    /\ pc = [x \in Task |-> "new"]
    /\ target = [p \in Post |-> None]
    /\ kind \in {k \in [Post -> Kind] : \A p \in Post : k[p] \in kinds[p]}

-----------------------------------------------------------------------------
(* tokio's RwLock: a queue of claims, in which a reader waits behind a     *)
(* writer that waits.                                                      *)

Claims(x, write) == [task |-> x, write |-> write]
Holds(x)         == \E c \in lock : c.task = x
Free(write)      == \A c \in lock : ~write /\ ~c.write

Ask(x, write)  == waiting' = Append(waiting, Claims(x, write))
Release(x)     == lock' = {c \in lock : c.task # x}
Withdraw(x) ==   \* a task has one claim in the queue at most
    \/ \E n \in DOMAIN waiting :
           /\ waiting[n].task = x
           /\ waiting' = SubSeq(waiting, 1, n - 1) \o SubSeq(waiting, n + 1, Len(waiting))
    \/ (\A n \in DOMAIN waiting : waiting[n].task # x) /\ UNCHANGED waiting

Grant ==
    /\ waiting # <<>> /\ Free(Head(waiting).write)
    /\ lock' = lock \cup {Head(waiting)}
    /\ waiting' = Tail(waiting)
    /\ UNCHANGED <<sessions, channel, stream, stalled, read, pc, target, kind>>

Become(x, step) == pc' = [pc EXCEPT ![x] = step]

-----------------------------------------------------------------------------
(* A session. *)

(* GET /__vertz_mcp/sse: the channel is made and its sender to be inserted. *)
Open(s) ==
    /\ pc[s] = "new"
    /\ Become(s, "insert")
    /\ Ask(s, TRUE)
    /\ UNCHANGED <<sessions, channel, stream, stalled, read, lock, target, kind>>

Insert(s) ==
    /\ pc[s] = "insert" /\ Holds(s)
    /\ sessions' = sessions \cup {s}
    /\ stream' = [stream EXCEPT ![s] = "open"]
    /\ Release(s)
    /\ Become(s, "done")
    /\ UNCHANGED <<channel, stalled, read, waiting, target, kind>>

(* The stream takes a response from the channel when the client's          *)
(* connection has room for it.                                             *)
Receive(s) ==
    /\ stream[s] = "open" /\ s \notin stalled /\ channel[s] # <<>>
    /\ read' = [read EXCEPT ![s] = @ \cup {Head(channel[s])}]
    /\ channel' = [channel EXCEPT ![s] = Tail(@)]
    /\ UNCHANGED <<sessions, stream, stalled, lock, waiting, pc, target, kind>>

Stall(s) ==
    /\ stream[s] = "open" /\ s \notin stalled
    /\ stalled' = stalled \cup {s}
    /\ UNCHANGED <<sessions, channel, stream, read, lock, waiting, pc, target, kind>>

(* The client is gone and its stream dropped, with the receiver and what   *)
(* was in the channel.  The code after a recv of None, which removes the   *)
(* session, is not reached: the map holds a sender, so recv never returns  *)
(* None, and a stream that is dropped does not run.                        *)
Disconnect(s) ==
    /\ stream[s] = "open"
    /\ stream' = [stream EXCEPT ![s] = "closed"]
    /\ channel' = [channel EXCEPT ![s] = <<>>]
    /\ stalled' = stalled \ {s}
    /\ UNCHANGED <<sessions, read, lock, waiting, pc, target, kind>>

(* The client is gone before its session is inserted. *)
GiveUp(s) ==
    /\ pc[s] = "insert" /\ ~Holds(s)
    /\ Become(s, "dropped")
    /\ Withdraw(s)
    /\ UNCHANGED <<sessions, channel, stream, stalled, read, lock, target, kind>>

-----------------------------------------------------------------------------
(* A post: POST /__vertz_mcp/message?sessionId=s *)

(* A client learns the id of its session from the stream. *)
Arrive(p, s) ==
    /\ pc[p] = "new" /\ stream[s] # "none"
    /\ target' = [target EXCEPT ![p] = s]
    /\ Become(p, "handle")
    /\ UNCHANGED <<sessions, channel, stream, stalled, read, lock, waiting, kind>>

(* handle_mcp_message: a notification has no response. *)
Handle(p) ==
    /\ pc[p] = "handle"
    /\ IF kind[p] = "notification"
       THEN Become(p, "accepted") /\ UNCHANGED waiting
       ELSE Become(p, "lookup") /\ Ask(p, FALSE)
    /\ UNCHANGED <<sessions, channel, stream, stalled, read, lock, target, kind>>

(* Mutant: send counts a full channel as one that is gone. *)
MutLookup(p) ==
    LET s == target[p] IN
    /\ pc[p] = "lookup" /\ Holds(p)
    /\ IF s \notin sessions \/ stream[s] = "closed" \/ Len(channel[s]) = Capacity
       THEN Become(p, "unsent") /\ Release(p) /\ UNCHANGED channel
       ELSE /\ channel' = [channel EXCEPT ![s] = Append(@, p)]
            /\ Become(p, "sent") /\ Release(p)
    /\ UNCHANGED <<sessions, stream, stalled, read, waiting, target, kind>>

(* Mutant: try_send, and its error is ignored. *)
MutTrySend(p) ==
    LET s == target[p] IN
    /\ pc[p] = "lookup" /\ Holds(p)
    /\ Become(p, IF s \in sessions /\ stream[s] = "open" THEN "sent" ELSE "unsent")
    /\ channel' = IF s \in sessions /\ stream[s] = "open" /\ Len(channel[s]) < Capacity
                  THEN [channel EXCEPT ![s] = Append(@, p)] ELSE channel
    /\ Release(p)
    /\ UNCHANGED <<sessions, stream, stalled, read, waiting, target, kind>>

(* McpSessions::send, under the read lock. *)
Lookup(p) ==
    LET s == target[p] IN
    /\ pc[p] = "lookup" /\ Holds(p)
    /\ IF s \notin sessions \/ stream[s] = "closed"
       THEN Become(p, "unsent") /\ Release(p) /\ UNCHANGED channel
       ELSE IF Len(channel[s]) < Capacity
       THEN /\ channel' = [channel EXCEPT ![s] = Append(@, p)]
            /\ Become(p, "sent") /\ Release(p)
       ELSE Become(p, "full") /\ UNCHANGED <<channel, lock>>
    /\ UNCHANGED <<sessions, stream, stalled, read, waiting, target, kind>>

(* Mutant: the sender does not hear that the receiver is gone. *)
MutMakeRoom(p) ==
    LET s == target[p] IN
    /\ pc[p] = "full"
    /\ stream[s] = "open" /\ Len(channel[s]) < Capacity
    /\ channel' = [channel EXCEPT ![s] = Append(@, p)]
    /\ Become(p, "sent")
    /\ Release(p)
    /\ UNCHANGED <<sessions, stream, stalled, read, waiting, target, kind>>

(* There is room at last, or nobody to make any. *)
MakeRoom(p) ==
    LET s == target[p] IN
    /\ pc[p] = "full"
    /\ \/ /\ stream[s] = "closed"
          /\ Become(p, "unsent") /\ UNCHANGED channel
       \/ /\ stream[s] = "open" /\ Len(channel[s]) < Capacity
          /\ channel' = [channel EXCEPT ![s] = Append(@, p)]
          /\ Become(p, "sent")
    /\ Release(p)
    /\ UNCHANGED <<sessions, stream, stalled, read, waiting, target, kind>>

(* 202, whatever became of the response; a session that is gone is removed *)
(* first, unless it was the error for a message that does not parse.       *)
Answer(p) ==
    /\ \/ pc[p] = "sent" /\ Become(p, "accepted") /\ UNCHANGED waiting
       \/ pc[p] = "unsent" /\ kind[p] = "garbage" /\ Become(p, "refused") /\ UNCHANGED waiting
       \/ pc[p] = "unsent" /\ kind[p] = "request" /\ Become(p, "remove") /\ Ask(p, TRUE)
    /\ UNCHANGED <<sessions, channel, stream, stalled, read, lock, target, kind>>

Remove(p) ==
    /\ pc[p] = "remove" /\ Holds(p)
    /\ sessions' = sessions \ {target[p]}
    /\ Release(p)
    /\ Become(p, "refused")
    /\ UNCHANGED <<channel, stream, stalled, read, waiting, target, kind>>

(* The client of the post goes away and the handler is dropped where it    *)
(* awaits, with the lock if it had it.                                     *)
Drop(p) ==
    /\ pc[p] \in {"handle", "lookup", "full", "remove"}
    /\ Become(p, "dropped")
    /\ Release(p) /\ Withdraw(p)
    /\ UNCHANGED <<sessions, channel, stream, stalled, read, target, kind>>

Next ==
    \/ Grant
    \/ \E s \in Session :
           Open(s) \/ Insert(s) \/ Receive(s) \/ Stall(s) \/ Disconnect(s) \/ GiveUp(s)
    \/ \E p \in Post :
           \/ \E s \in Session : Arrive(p, s)
           \/ Handle(p) \/ Lookup(p) \/ MakeRoom(p) \/ Answer(p) \/ Remove(p) \/ Drop(p)

(* The server's tasks go on while they can, and a client that has not      *)
(* stalled reads.                                                          *)
Fairness ==
    /\ WF_vars(Grant)
    /\ \A s \in Session : WF_vars(Insert(s)) /\ WF_vars(Receive(s))
    /\ \A p \in Post :
           WF_vars(Handle(p) \/ Lookup(p) \/ MakeRoom(p) \/ Answer(p) \/ Remove(p))

Spec == Init /\ [][Next]_vars /\ Fairness

-----------------------------------------------------------------------------
(* Properties. *)

(* A client that is connected can be reached: its session stays in the map *)
(* whatever the posts to it do.  A request that found its client gone has  *)
(* removed the session for good; nothing else does (mcp_message_handler).  *)
SessionsMatchClients ==
    /\ \A s \in Session : stream[s] = "open" => s \in sessions
    /\ \A p \in Post : pc[p] = "refused" /\ kind[p] = "request" => target[p] \notin sessions

(* A response that was accepted is in the channel of the session it was    *)
(* posted to or was read by its client, and by no other, unless that       *)
(* client has gone (McpSessions::send).                                    *)
AcceptedIsDelivered ==
    \A p \in Post :
        /\ pc[p] = "accepted" /\ kind[p] # "notification" /\ stream[target[p]] = "open" =>
               p \in read[target[p]] \cup Range(channel[target[p]])
        /\ \A s \in Session : p \in read[s] => s = target[p] /\ p \notin Range(channel[s])

(* Every session is opened and every post ends, unless a connected client  *)
(* stops reading and lets its channel fill up for good: then the posts to  *)
(* it wait, and as soon as one of the tasks that wait for the lock is a    *)
(* writer, so does everybody else (McpSessions::send and tokio's RwLock).  *)
Clogged(s)    == s \in stalled /\ Len(channel[s]) = Capacity
WriterWaits   == \E n \in DOMAIN waiting : waiting[n].write
Over(x)       == pc[x] \in {"done", "accepted", "refused", "dropped"}

EverybodyIsServed ==
    /\ \A s \in Session :
           (pc[s] = "insert" ~> Over(s)) \/ <>[](\E c \in Session : Clogged(c))
    /\ \A p \in Post :
           (pc[p] = "handle" ~> Over(p))
               \/ <>[](\E c \in Session : Clogged(c) /\ (c = target[p] \/ WriterWaits))
=============================================================================
