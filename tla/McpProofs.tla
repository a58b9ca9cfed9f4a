------------------------------ MODULE McpProofs ------------------------------
(***************************************************************************)
(* Proofs about the two transports of the MCP server: McpSessions, for any *)
(* clients, posts and capacity, and McpEvents, for any number of clients   *)
(* and any channels.                                                       *)
(*                                                                         *)
(* McpSessions: none of the properties depends on who holds the lock:      *)
(* looking a session up and sending to it is one step.  They depend on     *)
(* what a post knows: a client that was told the id of its session is      *)
(* connected or gone for good, so a post that finds no session, or a       *)
(* closed channel, is right to give up, and what it removes is never       *)
(* needed again (PostInv).                                                 *)
(*                                                                         *)
(* McpEvents: what a client was told and what its write task filters by    *)
(* meet in Granting: the filter is the one of the youngest ack, wherever   *)
(* that is between the read task and the client.  So what passes the       *)
(* filter is wanted, and stays wanted while it is on its way, since no ack *)
(* overtakes it (OnWire).                                                  *)
(***************************************************************************)
EXTENDS McpSessions, McpEvents, FiniteSetTheorems, SequenceTheorems, TLAPS

Sent == {"sent", "accepted"}

PostInv == \A p \in Post :
    /\ pc[p] \notin {"insert", "done"}
    /\ pc[p] # "new" => target[p] \in Session /\ stream[target[p]] # "none"
    /\ pc[p] \in {"unsent", "remove"} => stream[target[p]] = "closed"
    /\ pc[p] = "refused" /\ kind[p] = "request" => target[p] \notin sessions
    /\ pc[p] \in Sent /\ (kind[p] # "notification" \/ pc[p] = "sent") /\ stream[target[p]] = "open" =>
         \/ p \in read[target[p]]
         \/ \E i \in DOMAIN channel[target[p]] : channel[target[p]][i] = p

SessionInv == \A s \in Session :
    /\ pc[s] \in {"new", "insert", "dropped"} => stream[s] = "none"
    /\ stream[s] = "open" => s \in sessions
    /\ stream[s] # "open" => channel[s] = <<>>
    /\ \A i \in DOMAIN channel[s] :
         target[channel[s][i]] = s /\ pc[channel[s][i]] \in Sent /\ channel[s][i] \notin read[s]
    /\ \A i, j \in DOMAIN channel[s] : channel[s][i] = channel[s][j] => i = j
    /\ \A p \in read[s] : target[p] = s /\ pc[p] \in Sent

IInv == TypeOK /\ PostInv /\ SessionInv

-----------------------------------------------------------------------------
(***************************************************************************)
(* Types.                                                                  *)
(***************************************************************************)
LEMMA Queues ==
  ASSUME NEW S, NEW q \in Seq(S)
  PROVE  /\ \A e \in S : Append(q, e) \in Seq(S) /\ Len(Append(q, e)) = Len(q) + 1
         /\ q # <<>> => Head(q) \in S /\ Tail(q) \in Seq(S) /\ Len(Tail(q)) = Len(q) - 1
  OBVIOUS

LEMMA WithoutOne ==
  ASSUME NEW S, NEW q \in Seq(S), NEW n \in DOMAIN q
  PROVE  SubSeq(q, 1, n - 1) \o SubSeq(q, n + 1, Len(q)) \in Seq(S)
  <1>1. n \in 1 .. Len(q) /\ Len(q) \in Nat
    OBVIOUS
  <1>2. SubSeq(q, 1, n - 1) \in Seq(S)
    BY <1>1, SubSeqProperties, ElementOfSeq
  <1>3. SubSeq(q, n + 1, Len(q)) \in Seq(S)
    BY <1>1, SubSeqProperties, ElementOfSeq
  <1> QED
    BY <1>2, <1>3, ConcatProperties

\* Whatever a task does with the lock and its queue.
LEMMA LockTypes ==
  ASSUME TypeOK, NEW x \in Task, NEW w \in BOOLEAN
  PROVE  /\ Ask(x, w) => waiting' \in Seq(Claim)
         /\ Release(x) => lock' \subseteq Claim
         /\ Withdraw(x) => waiting' \in Seq(Claim)
  <1>1. Ask(x, w) => waiting' \in Seq(Claim)
    BY Queues, Claims(x, w) \in Claim DEF Ask, TypeOK, Claims, Claim
  <1>2. Release(x) => lock' \subseteq Claim
    BY DEF Release, TypeOK
  <1>3. Withdraw(x) => waiting' \in Seq(Claim)
    BY WithoutOne DEF Withdraw, TypeOK
  <1> QED
    BY <1>1, <1>2, <1>3

LEMMA InitInv == Init => IInv
  <1> SUFFICES ASSUME Init PROVE IInv
    OBVIOUS
  <1>1. <<>> \in Seq(Post) /\ <<>> \in Seq(Claim) /\ Len(<<>>) = 0 /\ DOMAIN <<>> = {}
    BY EmptySeq
  <1>2. TypeOK
    BY <1>1, McpAssumption DEF Init, TypeOK, Kind
  <1>3. PostInv
    BY DEF Init, PostInv, Task, Sent
  <1>4. SessionInv
    BY <1>1 DEF Init, SessionInv, Task
  <1> QED
    BY <1>2, <1>3, <1>4 DEF IInv

LEMMA TypeStep == IInv /\ [Next]_vars => TypeOK'
  <1> SUFFICES ASSUME TypeOK, PostInv, [Next]_vars PROVE TypeOK'
    BY DEF IInv
  <1> USE DEF Become, Task
  <1>1. CASE Grant
    BY <1>1, Queues DEF Grant, TypeOK
  <1>2. ASSUME NEW s \in Session, Open(s) PROVE TypeOK'
    BY <1>2, LockTypes DEF Open, TypeOK
  <1>3. ASSUME NEW s \in Session, Insert(s) PROVE TypeOK'
    BY <1>3, LockTypes DEF Insert, TypeOK
  <1>4. ASSUME NEW s \in Session, Receive(s) PROVE TypeOK'
    <2>1. Head(channel[s]) \in Post /\ Tail(channel[s]) \in Seq(Post)
            /\ Len(Tail(channel[s])) = Len(channel[s]) - 1
      BY <1>4, Queues DEF Receive, TypeOK
    <2>2. Len(Tail(channel[s])) <= Capacity
      BY <2>1, McpAssumption DEF TypeOK
    <2> QED
      BY <1>4, <2>1, <2>2 DEF Receive, TypeOK
  <1>5. ASSUME NEW s \in Session, Stall(s) PROVE TypeOK'
    BY <1>5 DEF Stall, TypeOK
  <1>6. ASSUME NEW s \in Session, Disconnect(s) PROVE TypeOK'
    <2>1. <<>> \in Seq(Post) /\ Len(<<>>) <= Capacity
      BY EmptySeq, McpAssumption
    <2> QED
      BY <1>6, <2>1 DEF Disconnect, TypeOK
  <1>7. ASSUME NEW s \in Session, GiveUp(s) PROVE TypeOK'
    BY <1>7, LockTypes DEF GiveUp, TypeOK
  <1>8. ASSUME NEW p \in Post, NEW s \in Session, Arrive(p, s) PROVE TypeOK'
    BY <1>8 DEF Arrive, TypeOK
  <1>9. ASSUME NEW p \in Post, Handle(p) PROVE TypeOK'
    BY <1>9, LockTypes DEF Handle, TypeOK
  <1>10. ASSUME NEW p \in Post, NEW s \in Session, Len(channel[s]) < Capacity,
                channel' = [channel EXCEPT ![s] = Append(@, p)]
         PROVE  channel' \in [Session -> Seq(Post)] /\ \A d \in Session : Len(channel'[d]) <= Capacity
    <2>1. Append(channel[s], p) \in Seq(Post) /\ Len(Append(channel[s], p)) <= Capacity
      BY <1>10, Queues, McpAssumption DEF TypeOK
    <2> QED
      BY <1>10, <2>1 DEF TypeOK
  <1>11. ASSUME NEW p \in Post, Lookup(p) PROVE TypeOK'
    <2>1. /\ target[p] \in Session
          /\ lock' \subseteq Claim
      BY <1>11, LockTypes DEF Lookup, PostInv, TypeOK
    <2>2. channel' \in [Session -> Seq(Post)] /\ \A d \in Session : Len(channel'[d]) <= Capacity
      BY <1>11, <1>10, <2>1 DEF Lookup, TypeOK
    <2>3. UNCHANGED <<sessions, stream, stalled, read, waiting, target, kind>>
      BY <1>11 DEF Lookup
    <2>4. \E step \in {"unsent", "sent", "full"} : pc' = [pc EXCEPT ![p] = step]
      BY <1>11 DEF Lookup
    <2> QED
      BY <2>1, <2>2, <2>3, <2>4 DEF TypeOK
  <1>12. ASSUME NEW p \in Post, MakeRoom(p) PROVE TypeOK'
    <2>1. /\ target[p] \in Session
          /\ lock' \subseteq Claim
      BY <1>12, LockTypes DEF MakeRoom, PostInv, TypeOK
    <2>2. channel' \in [Session -> Seq(Post)] /\ \A d \in Session : Len(channel'[d]) <= Capacity
      BY <1>12, <1>10, <2>1 DEF MakeRoom, TypeOK
    <2>3. UNCHANGED <<sessions, stream, stalled, read, waiting, target, kind>>
      BY <1>12 DEF MakeRoom
    <2>4. \E step \in {"unsent", "sent"} : pc' = [pc EXCEPT ![p] = step]
      BY <1>12 DEF MakeRoom
    <2> QED
      BY <2>1, <2>2, <2>3, <2>4 DEF TypeOK
  <1>13. ASSUME NEW p \in Post, Answer(p) PROVE TypeOK'
    BY <1>13, LockTypes DEF Answer, TypeOK
  <1>14. ASSUME NEW p \in Post, Remove(p) PROVE TypeOK'
    BY <1>14, LockTypes DEF Remove, TypeOK
  <1>15. ASSUME NEW p \in Post, Drop(p) PROVE TypeOK'
    BY <1>15, LockTypes DEF Drop, TypeOK
  <1>16. CASE UNCHANGED vars
    BY <1>16 DEF vars, TypeOK
  <1> QED
    BY <1>1, <1>2, <1>3, <1>4, <1>5, <1>6, <1>7, <1>8, <1>9, <1>11, <1>12, <1>13, <1>14, <1>15, <1>16
       DEF Next

-----------------------------------------------------------------------------
(***************************************************************************)
(* What posts know, and what sessions hold.                                *)
(***************************************************************************)

\* A response enters the channel of a connected client.
LEMMA PushesOn ==
  ASSUME IInv, NEW p \in Post, pc[p] \in {"lookup", "full"}, stream[target[p]] = "open",
         channel' = [channel EXCEPT ![target[p]] = Append(@, p)],
         pc' = [pc EXCEPT ![p] = "sent"],
         UNCHANGED <<sessions, stream, read, target, kind>>
  PROVE  PostInv' /\ SessionInv'
  <1> DEFINE t == target[p]
             q == channel[t]
  <1>1. t \in Session /\ q \in Seq(Post)
    BY DEF IInv, PostInv, TypeOK
  <1>2. /\ channel'[t] = Append(q, p)
        /\ \A s \in Session \ {t} : channel'[s] = channel[s]
    BY <1>1 DEF IInv, TypeOK
  <1>3. /\ DOMAIN Append(q, p) = DOMAIN q \cup {Len(q) + 1} /\ Len(q) + 1 \notin DOMAIN q
        /\ Append(q, p)[Len(q) + 1] = p
        /\ \A i \in DOMAIN q : Append(q, p)[i] = q[i]
    BY <1>1
  <1>4. \A s \in Session : p \notin read[s] /\ \A i \in DOMAIN channel[s] : channel[s][i] # p
    BY DEF IInv, SessionInv, Sent
  <1>5. /\ pc'[p] = "sent"
        /\ \A x \in Task \ {p} : pc'[x] = pc[x]
    BY DEF IInv, TypeOK, Task
  <1> HIDE DEF t, q
  <1>6. PostInv'
    <2> SUFFICES ASSUME NEW r \in Post PROVE PostInv!(r)'
      BY DEF PostInv
    <2>1. CASE r = p
      BY <2>1, <1>1, <1>2, <1>3, <1>5 DEF IInv, PostInv, t, Sent
    <2>2. CASE r # p
      BY <2>2, <1>1, <1>2, <1>3, <1>5 DEF IInv, PostInv, t, q, Sent, Task
    <2> QED
      BY <2>1, <2>2
  <1>7. SessionInv'
    <2> SUFFICES ASSUME NEW s \in Session PROVE SessionInv!(s)'
      BY DEF SessionInv
    <2>0. s # p
      BY McpAssumption
    <2>1. CASE s = t
      BY <2>0, <2>1, <1>2, <1>3, <1>4, <1>5 DEF IInv, SessionInv, t, q, Sent, Task, TypeOK
    <2>2. CASE s # t
      BY <2>0, <2>2, <1>2, <1>4, <1>5 DEF IInv, SessionInv, Sent, Task, TypeOK
    <2> QED
      BY <2>1, <2>2
  <1> QED
    BY <1>6, <1>7

\* A task moves on and nothing that the invariant reads changes with it.
LEMMA Move ==
  ASSUME IInv, NEW x \in Task, NEW step, pc' = [pc EXCEPT ![x] = step],
         UNCHANGED <<sessions, channel, stream, read, target, kind>>,
         \/ x \in Session /\ <<pc[x], step>> \in {<<"new", "insert">>, <<"insert", "dropped">>}
         \/ /\ x \in Post /\ pc[x] # "new" /\ pc[x] \notin {"accepted"}
            /\ step \in {"accepted", "lookup", "full", "unsent", "refused", "remove", "dropped"}
            /\ pc[x] = "sent" => step = "accepted"
            /\ step = "accepted" => pc[x] = "sent" \/ (kind[x] = "notification" /\ pc[x] \notin Sent)
            /\ step \in {"unsent", "remove"} => stream[target[x]] = "closed"
            /\ step = "refused" => kind[x] # "request"
  PROVE  PostInv' /\ SessionInv'
  <1>1. pc'[x] = step /\ \A y \in Task \ {x} : pc'[y] = pc[y]
    BY DEF IInv, TypeOK
  <1>2. PostInv'
    <2> SUFFICES ASSUME NEW r \in Post PROVE PostInv!(r)'
      BY DEF PostInv
    <2>1. CASE r = x
      BY <2>1, <1>1, McpAssumption DEF IInv, PostInv, Sent, Task
    <2>2. CASE r # x
      BY <2>2, <1>1 DEF IInv, PostInv, Sent, Task
    <2> QED
      BY <2>1, <2>2
  <1>3. SessionInv'
    <2> SUFFICES ASSUME NEW s \in Session PROVE SessionInv!(s)'
      BY DEF SessionInv
    <2>1. s \in Task /\ s \notin Post
      BY McpAssumption DEF Task
    <2>2. \A y \in Post : pc[y] \in Sent => pc'[y] \in Sent
      BY <1>1, McpAssumption DEF Sent, Task
    <2>3. pc'[s] \in {"new", "insert", "dropped"} => stream[s] = "none"
      BY <1>1, <2>1 DEF IInv, SessionInv
    <2>4. channel[s] \in Seq(Post) /\ read[s] \subseteq Post
      BY DEF IInv, TypeOK
    <2> QED
      BY <2>2, <2>3, <2>4 DEF IInv, SessionInv
  <1> QED
    BY <1>2, <1>3

LEMMA Invariance == IInv /\ [Next]_vars => IInv'
  <1> SUFFICES ASSUME IInv, [Next]_vars PROVE PostInv' /\ SessionInv'
    BY TypeStep DEF IInv
  <1> USE DEF Become
  <1>1. CASE Grant \/ (\E s \in Session : Stall(s)) \/ UNCHANGED vars
    <2>1. UNCHANGED <<sessions, channel, stream, read, pc, target, kind>>
      BY <1>1 DEF Grant, Stall, vars
    <2> QED
      BY <2>1 DEF IInv, PostInv, SessionInv
  <1>2. ASSUME NEW s \in Session, Open(s) PROVE PostInv' /\ SessionInv'
    BY <1>2, Move DEF Open, Task
  <1>3. ASSUME NEW s \in Session, GiveUp(s) PROVE PostInv' /\ SessionInv'
    BY <1>3, Move DEF GiveUp, Task
  <1>4. ASSUME NEW s \in Session, Insert(s) PROVE PostInv' /\ SessionInv'
    <2>1. /\ pc'[s] = "done" /\ stream'[s] = "open" /\ sessions' = sessions \cup {s}
          /\ \A y \in Task \ {s} : pc'[y] = pc[y]
          /\ \A d \in Session \ {s} : stream'[d] = stream[d]
          /\ stream[s] = "none"
          /\ UNCHANGED <<channel, read, target, kind>>
      BY <1>4 DEF Insert, IInv, TypeOK, SessionInv, Task
    <2>2. \A r \in Post : pc'[r] = pc[r] /\ (pc[r] # "new" => target[r] # s)
      BY <2>1, McpAssumption DEF IInv, PostInv, Task
    <2>3. PostInv'
      <3> SUFFICES ASSUME NEW r \in Post PROVE PostInv!(r)'
        BY DEF PostInv
      <3> QED
        BY <2>1, <2>2 DEF IInv, PostInv, Sent
    <2>4. channel[s] = <<>> /\ \A p \in Post : p \notin read[s]
      BY <2>1, <2>2 DEF IInv, SessionInv, Sent
    <2>5. SessionInv'
      <3> SUFFICES ASSUME NEW d \in Session PROVE SessionInv!(d)'
        BY DEF SessionInv
      <3>1. channel[d] \in Seq(Post) /\ read[d] \subseteq Post
        BY DEF IInv, TypeOK
      <3>2. CASE d = s
        BY <3>1, <3>2, <2>1, <2>2, <2>4 DEF IInv, SessionInv
      <3>3. CASE d # s
        BY <3>1, <3>3, <2>1, <2>2 DEF IInv, SessionInv, Task
      <3> QED
        BY <3>2, <3>3
    <2> QED
      BY <2>3, <2>5
  <1>5. ASSUME NEW s \in Session, Receive(s) PROVE PostInv' /\ SessionInv'
    <2> DEFINE q == channel[s]
    <2>1. /\ q \in Seq(Post) /\ q # <<>>
          /\ channel'[s] = Tail(q) /\ \A d \in Session \ {s} : channel'[d] = channel[d]
          /\ read'[s] = read[s] \cup {q[1]} /\ \A d \in Session \ {s} : read'[d] = read[d]
          /\ stream[s] = "open"
          /\ UNCHANGED <<sessions, stream, pc, target, kind>>
      BY <1>5 DEF Receive, IInv, TypeOK
    <2>2. /\ 1 \in DOMAIN q
          /\ \A i \in DOMAIN Tail(q) : i + 1 \in DOMAIN q /\ Tail(q)[i] = q[i + 1] /\ i + 1 # 1
          /\ \A i \in DOMAIN q : i # 1 => i - 1 \in DOMAIN Tail(q) /\ Tail(q)[i - 1] = q[i]
      <3>1. Len(q) \in Nat \ {0} /\ DOMAIN q = 1 .. Len(q)
        BY <2>1, EmptySeq, LenProperties
      <3>2. /\ Len(Tail(q)) = Len(q) - 1 /\ DOMAIN Tail(q) = 1 .. Len(Tail(q))
            /\ \A i \in 1 .. Len(Tail(q)) : Tail(q)[i] = q[i + 1]
        BY <2>1, HeadTailProperties, LenProperties
      <3> HIDE DEF q
      <3> QED
        BY <3>1, <3>2
    <2>3. \A i, j \in DOMAIN Tail(q) : i + 1 = j + 1 => i = j
      BY <2>1
    <2>4. /\ q[1] \in Post /\ target[q[1]] = s /\ pc[q[1]] \in Sent
          /\ \A i \in DOMAIN q : q[i] = q[1] => i = 1
      BY <2>1, <2>2 DEF IInv, SessionInv
    <2>5. PostInv'
      <3> SUFFICES ASSUME NEW r \in Post PROVE PostInv!(r)'
        BY DEF PostInv
      <3>0. PostInv!(r) /\ (pc[r] \in Sent => target[r] \in Session)
        BY DEF IInv, PostInv, Sent
      <3>1. CASE target[r] = s
        <4>1. ASSUME NEW i \in DOMAIN q, q[i] = r
              PROVE  r \in read'[s] \/ \E j \in DOMAIN channel'[s] : channel'[s][j] = r
          <5>1. CASE i = 1
            BY <4>1, <5>1, <2>1
          <5>2. CASE i # 1
            BY <4>1, <5>2, <2>1, <2>2
          <5> QED
            BY <5>1, <5>2
        <4>2. r \in read[s] => r \in read'[s]
          BY <2>1
        <4> HIDE DEF q
        <4> QED
          BY <3>0, <3>1, <4>1, <4>2, <2>1 DEF q
      <3>2. CASE target[r] # s
        BY <3>0, <3>2, <2>1 DEF Sent
      <3> QED
        BY <3>1, <3>2
    <2>6. SessionInv'
      <3> SUFFICES ASSUME NEW d \in Session PROVE SessionInv!(d)'
        BY DEF SessionInv
      <3>1. CASE d = s
        <4>1. SessionInv!(s)
          BY DEF IInv, SessionInv
        <4> HIDE DEF q
        <4>2. \A i \in DOMAIN Tail(q) :
                 target[Tail(q)[i]] = s /\ pc[Tail(q)[i]] \in Sent /\ Tail(q)[i] \notin read[s] \cup {q[1]}
          BY <4>1, <2>2, <2>4 DEF q
        <4>3. \A i, j \in DOMAIN Tail(q) : Tail(q)[i] = Tail(q)[j] => i = j
          BY <4>1, <2>2, <2>3 DEF q
        <4> QED
          BY <4>1, <4>2, <4>3, <3>1, <2>1, <2>4
      <3>2. CASE d # s
        BY <3>2, <2>1 DEF IInv, SessionInv
      <3> QED
        BY <3>1, <3>2
    <2> QED
      BY <2>5, <2>6
  <1>6. ASSUME NEW s \in Session, Disconnect(s) PROVE PostInv' /\ SessionInv'
    <2>1. /\ stream[s] = "open" /\ stream'[s] = "closed" /\ channel'[s] = <<>>
          /\ \A d \in Session \ {s} : stream'[d] = stream[d] /\ channel'[d] = channel[d]
          /\ UNCHANGED <<sessions, read, pc, target, kind>>
      BY <1>6 DEF Disconnect, IInv, TypeOK
    <2>2. DOMAIN channel'[s] = {}
      BY <2>1
    <2>3. PostInv'
      <3> SUFFICES ASSUME NEW r \in Post PROVE PostInv!(r)'
        BY DEF PostInv
      <3>0. PostInv!(r) /\ (pc[r] \in Sent => target[r] \in Session)
        BY DEF IInv, PostInv, Sent
      <3>1. CASE target[r] = s
        BY <3>0, <3>1, <2>1
      <3>2. CASE target[r] # s
        BY <3>0, <3>2, <2>1 DEF Sent
      <3> QED
        BY <3>1, <3>2
    <2>4. SessionInv'
      <3> SUFFICES ASSUME NEW d \in Session PROVE SessionInv!(d)'
        BY DEF SessionInv
      <3>1. CASE d = s
        BY <3>1, <2>1, <2>2 DEF IInv, SessionInv
      <3>2. CASE d # s
        BY <3>2, <2>1 DEF IInv, SessionInv
      <3> QED
        BY <3>1, <3>2
    <2> QED
      BY <2>3, <2>4
  <1>7. ASSUME NEW p \in Post, NEW s \in Session, Arrive(p, s) PROVE PostInv' /\ SessionInv'
    <2>1. /\ pc[p] = "new" /\ pc'[p] = "handle" /\ target'[p] = s /\ stream[s] # "none"
          /\ \A y \in Task \ {p} : pc'[y] = pc[y]
          /\ \A r \in Post \ {p} : target'[r] = target[r]
          /\ UNCHANGED <<sessions, channel, stream, read, kind>>
      BY <1>7 DEF Arrive, IInv, TypeOK, Task
    <2>2. PostInv'
      <3> SUFFICES ASSUME NEW r \in Post PROVE PostInv!(r)'
        BY DEF PostInv
      <3>1. CASE r = p
        BY <3>1, <2>1 DEF Sent
      <3>2. CASE r # p
        BY <3>2, <2>1 DEF IInv, PostInv, Task
      <3> QED
        BY <3>1, <3>2
    <2>3. SessionInv'
      <3> SUFFICES ASSUME NEW d \in Session PROVE SessionInv!(d)'
        BY DEF SessionInv
      <3>1. channel[d] \in Seq(Post) /\ read[d] \subseteq Post
        BY DEF IInv, TypeOK
      <3>2. d \in Task \ {p}
        BY McpAssumption DEF Task
      <3>3. p \notin read[d] /\ \A i \in DOMAIN channel[d] : channel[d][i] \in Post /\ channel[d][i] # p
        BY <3>1, <2>1 DEF IInv, SessionInv, Sent
      <3> QED
        BY <3>1, <3>2, <3>3, <2>1 DEF IInv, SessionInv, Task
    <2> QED
      BY <2>2, <2>3
  <1>8. ASSUME NEW p \in Post, Handle(p) PROVE PostInv' /\ SessionInv'
    BY <1>8, Move DEF Handle, Task, Sent
  <1>9. ASSUME NEW p \in Post, Lookup(p) PROVE PostInv' /\ SessionInv'
    <2>1. target[p] \in Session /\ stream[target[p]] \in {"open", "closed"}
      BY <1>9 DEF Lookup, IInv, PostInv, TypeOK
    <2>2. target[p] \notin sessions => stream[target[p]] = "closed"
      BY <2>1 DEF IInv, SessionInv
    <2>3. CASE pc' = [pc EXCEPT ![p] = "sent"] /\ channel' = [channel EXCEPT ![target[p]] = Append(@, p)]
                 /\ stream[target[p]] = "open"
      BY <1>9, <2>3, PushesOn DEF Lookup
    <2>4. CASE pc' = [pc EXCEPT ![p] = "full"] /\ channel' = channel
      BY <1>9, <2>4, Move DEF Lookup, Task, Sent
    <2>5. CASE pc' = [pc EXCEPT ![p] = "unsent"] /\ channel' = channel /\ stream[target[p]] = "closed"
      BY <1>9, <2>5, Move DEF Lookup, Task, Sent
    <2> QED
      BY <1>9, <2>1, <2>2, <2>3, <2>4, <2>5 DEF Lookup
  <1>10. ASSUME NEW p \in Post, MakeRoom(p) PROVE PostInv' /\ SessionInv'
    <2>1. CASE pc' = [pc EXCEPT ![p] = "sent"] /\ channel' = [channel EXCEPT ![target[p]] = Append(@, p)]
                 /\ stream[target[p]] = "open"
      BY <1>10, <2>1, PushesOn DEF MakeRoom
    <2>2. CASE pc' = [pc EXCEPT ![p] = "unsent"] /\ channel' = channel /\ stream[target[p]] = "closed"
      BY <1>10, <2>2, Move DEF MakeRoom, Task, Sent
    <2> QED
      BY <1>10, <2>1, <2>2 DEF MakeRoom
  <1>11. ASSUME NEW p \in Post, Answer(p) PROVE PostInv' /\ SessionInv'
    <2>1. CASE pc[p] = "sent"
      <3>1. pc' = [pc EXCEPT ![p] = "accepted"]
            /\ UNCHANGED <<sessions, channel, stream, read, target, kind>>
        BY <1>11, <2>1 DEF Answer
      <3> QED
        BY <2>1, <3>1, Move DEF Task, Sent
    <2>2. CASE pc[p] = "unsent"
      <3>1. stream[target[p]] = "closed"
        BY <2>2 DEF IInv, PostInv
      <3> QED
        BY <1>11, <2>2, <3>1, Move DEF Answer, Task, Sent
    <2> QED
      BY <1>11, <2>1, <2>2 DEF Answer
  <1>12. ASSUME NEW p \in Post, Remove(p) PROVE PostInv' /\ SessionInv'
    <2>1. /\ pc[p] = "remove" /\ pc'[p] = "refused" /\ sessions' = sessions \ {target[p]}
          /\ \A y \in Task \ {p} : pc'[y] = pc[y]
          /\ UNCHANGED <<channel, stream, read, target, kind>>
      BY <1>12 DEF Remove, IInv, TypeOK, Task
    <2>2. stream[target[p]] = "closed"
      BY <2>1 DEF IInv, PostInv
    <2>3. PostInv'
      <3> SUFFICES ASSUME NEW r \in Post PROVE PostInv!(r)'
        BY DEF PostInv
      <3>1. CASE r = p
        BY <3>1, <2>1 DEF IInv, PostInv, Sent
      <3>2. CASE r # p
        BY <3>2, <2>1 DEF IInv, PostInv, Task
      <3> QED
        BY <3>1, <3>2
    <2>4. SessionInv'
      <3> SUFFICES ASSUME NEW d \in Session PROVE SessionInv!(d)'
        BY DEF SessionInv
      <3>1. channel[d] \in Seq(Post) /\ read[d] \subseteq Post
        BY DEF IInv, TypeOK
      <3>2. d \in Task \ {p}
        BY McpAssumption DEF Task
      <3>3. p \notin read[d] /\ \A i \in DOMAIN channel[d] : channel[d][i] \in Post /\ channel[d][i] # p
        BY <3>1, <2>1 DEF IInv, SessionInv, Sent
      <3> QED
        BY <3>1, <3>2, <3>3, <2>1, <2>2 DEF IInv, SessionInv, Task
    <2> QED
      BY <2>3, <2>4
  <1>13. ASSUME NEW p \in Post, Drop(p) PROVE PostInv' /\ SessionInv'
    BY <1>13, Move DEF Drop, Task, Sent
  <1> QED
    BY <1>1, <1>2, <1>3, <1>4, <1>5, <1>6, <1>7, <1>8, <1>9, <1>10, <1>11, <1>12, <1>13 DEF Next

-----------------------------------------------------------------------------
(***************************************************************************)
(* The theorems.                                                           *)
(***************************************************************************)

\* Types: among them, no channel holds more than its capacity (McpSessions::send).
THEOREM TypeCorrect == Spec => []TypeOK
  BY InitInv, Invariance, PTL DEF Spec, IInv

\* A connected client can be reached, and a session found gone stays gone
\* (mcp_message_handler), for any number of clients and posts.
THEOREM SessionsMatch == Spec => []SessionsMatchClients
  <1>1. IInv => SessionsMatchClients
    BY DEF IInv, SessionInv, PostInv, SessionsMatchClients
  <1> QED
    BY InitInv, Invariance, <1>1, PTL DEF Spec

\* A response that was accepted is in its session's channel or was read by its client, and
\* never reaches anybody else (McpSessions::send).
THEOREM AcceptedDelivered == Spec => []AcceptedIsDelivered
  <1>1. IInv => AcceptedIsDelivered
    <2> SUFFICES ASSUME IInv, NEW p \in Post PROVE AcceptedIsDelivered!(p)
      BY DEF AcceptedIsDelivered
    <2>1. ASSUME pc[p] = "accepted", kind[p] # "notification", stream[target[p]] = "open"
          PROVE  p \in read[target[p]] \cup Range(channel[target[p]])
      BY <2>1 DEF IInv, PostInv, Sent, Range
    <2>2. ASSUME NEW s \in Session, p \in read[s]
          PROVE  s = target[p] /\ p \notin Range(channel[s])
      BY <2>2 DEF IInv, SessionInv, Range
    <2> QED
      BY <2>1, <2>2
  <1> QED
    BY InitInv, Invariance, <1>1, PTL DEF Spec

-----------------------------------------------------------------------------
(***************************************************************************)
(* The event push.                                                         *)
(***************************************************************************)

Early == {"away", "upgraded", "snapshot", "subscribed", "counted"}

\* The filter of the youngest ack.
Youngest(c) ==
    IF conn[c].owed # Nothing THEN conn[c].owed.filter
    ELSE IF conn[c].acks # <<>> THEN conn[c].acks[Len(conn[c].acks)]
    ELSE IF conn[c].wire.type = "ack" THEN conn[c].wire.filter
    ELSE conn[c].granted

Wanted(c, k) ==
    \/ k \in conn[c].granted
    \/ k \in Kinds /\ \E i \in DOMAIN conn[c].asked : k \in conn[c].asked[i]
    \/ \E i \in DOMAIN conn[c].acks : k \in conn[c].acks[i]
    \/ conn[c].owed # Nothing /\ k \in conn[c].owed.filter

Tasks(c) ==
    /\ conn[c].phase \in Early =>
         ~conn[c].writing /\ conn[c].owed = Nothing
         /\ conn[c].filter = Kinds /\ conn[c].granted = Kinds
    /\ conn[c].writing => conn[c].phase = "serving"
    /\ ~conn[c].writing => conn[c].wire = Nothing /\ conn[c].acks = <<>>

Granting(c) == conn[c].writing => conn[c].filter = Youngest(c)
OnWire(c) == conn[c].wire.type = "event" => Wanted(c, KindOf(conn[c].wire.event))

USE DEF errorVars

Good(c) == Tasks(c) /\ Granting(c) /\ OnWire(c)

Counted == { c \in Client : conn[c].phase \in {"counted", "serving", "closed"} }

EventsIInv == EventsTypeOK /\ count = Cardinality(Counted) /\ \A c \in Client : Good(c)

-----------------------------------------------------------------------------
(***************************************************************************)
(* Messages.                                                               *)
(***************************************************************************)
LEMMA MessageShape ==
  ASSUME NEW m \in Messages
  PROVE  /\ m = Nothing <=> m.type = "nothing"
         /\ m.type = "event" => m.event \in Event /\ m = Push(m.event)
         /\ m.type = "ack" => m.filter \in SUBSET Kinds /\ m = Ack(m.filter)
         /\ m.type \in {"nothing", "event", "ack"}
  BY DEF Messages, Acks, Nothing, Push, Ack

LEMMA PushShape ==
  ASSUME NEW e \in Event
  PROVE  Push(e) \in Messages /\ Push(e).type = "event" /\ Push(e).event = e /\ Push(e) # Nothing
  BY DEF Messages, Nothing, Push

LEMMA AckShape ==
  ASSUME NEW f \in SUBSET Kinds
  PROVE  Ack(f) \in Messages /\ Ack(f) \in Acks /\ Ack(f).type = "ack" /\ Ack(f).filter = f /\ Ack(f) # Nothing
  BY DEF Messages, Acks, Nothing, Ack

LEMMA NothingShape == Nothing \in Messages /\ Nothing.type = "nothing"
  BY DEF Messages, Nothing

-----------------------------------------------------------------------------
(***************************************************************************)
(* Types.                                                                  *)
(***************************************************************************)
LEMMA StatesAreEvents ==
  ASSUME EventsTypeOK, NEW i, NEW j
  PROVE  States(i, j) \in SUBSET Event
  BY DEF States, EventsTypeOK

LEMMA EmptySequence == \A S : <<>> \in Seq(S) /\ Len(<<>>) = 0
  OBVIOUS

LEMMA LastOfTail ==
  ASSUME NEW S, NEW q \in Seq(S), q # <<>>
  PROVE  /\ Head(q) \in S
         /\ q[Len(q)] = IF Tail(q) # <<>> THEN Tail(q)[Len(Tail(q))] ELSE Head(q)
  <1>1. Len(q) \in Nat /\ Len(q) >= 1 /\ Head(q) = q[1] /\ Head(q) \in S
    OBVIOUS
  <1>2. Tail(q) \in Seq(S) /\ Len(Tail(q)) = Len(q) - 1
    BY Queues
  <1>3. \A i \in 1 .. Len(q) - 1 : Tail(q)[i] = q[i + 1]
    BY <1>1
  <1>4. Tail(q) = <<>> <=> Len(q) = 1
    <2> DEFINE t == Tail(q)
    <2>1. t \in Seq(S) /\ Len(t) = Len(q) - 1
      BY <1>2
    <2> HIDE DEF t
    <2>2. t = <<>> <=> Len(t) = 0
      BY <2>1, EmptySeq
    <2>3. t = <<>> <=> Len(q) = 1
      BY <2>1, <2>2, <1>1
    <2> QED
      BY <2>3 DEF t
  <1>5. Len(q) > 1 => Tail(q)[Len(q) - 1] = q[Len(q)]
    BY <1>1, <1>3
  <1> QED
    BY <1>1, <1>2, <1>4, <1>5

LEMMA EndedShape ==
  ASSUME NEW p \in Phases
  PROVE  /\ Ended(p) \in Connection /\ Len(Ended(p).acks) <= AckCapacity /\ Ended(p).phase = p
         /\ Ended(p).writing = FALSE /\ Ended(p).wire = Nothing /\ Ended(p).owed = Nothing
         /\ Ended(p).acks = <<>> /\ Ended(p).filter = Kinds /\ Ended(p).granted = Kinds
  <1>1. NotConnected \in Connection
    BY NothingShape, EmptySequence, McpEventsAssumption DEF NotConnected, Connection, Phases, Event
  <1>2. Ended(p) \in Connection
    BY <1>1 DEF Ended, Connection
  <1> QED
    BY <1>2, EmptySequence, McpEventsAssumption DEF Ended, NotConnected

LEMMA InitTypes == EventsInit => EventsTypeOK
  <1> SUFFICES ASSUME EventsInit PROVE EventsTypeOK
    OBVIOUS
  <1>1. NotConnected \in Connection
    BY NothingShape, EmptySequence, McpEventsAssumption DEF NotConnected, Connection, Phases, Event
  <1>2. Cardinality(Client) \in Nat
    BY McpEventsAssumption, FS_CardinalityType
  <1>3. conn \in [Client -> Connection] /\ \A c \in Client : Len(conn[c].acks) <= AckCapacity
    BY <1>1, EmptySequence, McpEventsAssumption DEF EventsInit, NotConnected
  <1>4. hub \in Seq(Event) /\ count \in 0 .. Cardinality(Client)
    BY <1>2, EmptySequence DEF EventsInit
  <1>5. current \in Event /\ extras \in 0 .. MaxExtras
    BY McpEventsAssumption DEF EventsInit, Event
  <1>6. announcer \in BOOLEAN /\ astray \in Fates
    BY DEF EventsInit, Fates
  <1>7. late \subseteq Clear /\ source \in Seq(Event)
    BY EmptySequence DEF EventsInit
  <1> QED
    BY <1>3, <1>4, <1>5, <1>6, <1>7 DEF EventsTypeOK

LEMMA OneConnection ==
  ASSUME NEW c \in Client, NEW r \in Connection, EventsTypeOK, Len(r.acks) <= AckCapacity,
         conn' = [conn EXCEPT ![c] = r]
  PROVE  /\ conn' \in [Client -> Connection]
         /\ \A d \in Client : Len(conn'[d].acks) <= AckCapacity
         /\ \A d \in Client \ {c} : conn'[d] = conn[d]
         /\ conn'[c] = r
  BY DEF EventsTypeOK

\* Every step of a client or of its tasks leaves the connection one, its acks within bounds.
LEMMA ConnectionStep ==
  ASSUME EventsTypeOK, NEW c \in Client,
         Connect(c) \/ ReadTask(c) \/ WriteTask(c) \/ AskFilter(c) \/ Take(c) \/ Leave(c)
  PROVE  /\ conn' \in [Client -> Connection]
         /\ \A d \in Client : Len(conn'[d].acks) <= AckCapacity
         /\ \A d \in Client \ {c} : conn'[d] = conn[d]
  <1> conn[c] \in Connection /\ conn \in [Client -> Connection] /\ Len(conn[c].acks) <= AckCapacity
    BY DEF EventsTypeOK
  <1>1. CASE Connect(c)
    <2> DEFINE r == [conn[c] EXCEPT !.phase = "upgraded", !.client = TRUE]
    <2>1. r \in Connection /\ Len(r.acks) <= AckCapacity
      BY <1>1, McpEventsAssumption DEF Connect, Connection, Phases, EventsTypeOK
    <2>2. conn' = [conn EXCEPT ![c] = r]
      BY <1>1 DEF Connect
    <2> QED
      BY <2>1, <2>2, OneConnection
  <1>2. CASE Snapshot(c)
    <2> DEFINE r == [conn[c] EXCEPT !.phase = "snapshot", !.snapshot = current]
    <2>1. r \in Connection /\ Len(r.acks) <= AckCapacity
      BY <1>2, McpEventsAssumption DEF Snapshot, Connection, Phases, EventsTypeOK
    <2>2. conn' = [conn EXCEPT ![c] = r]
      BY <1>2 DEF Snapshot
    <2> QED
      BY <2>1, <2>2, OneConnection
  <1>3. CASE Subscribe(c)
    <2> DEFINE r == [conn[c] EXCEPT !.phase = "subscribed", !.next = Len(hub) + 1,
        !.lost = { n \in States(1, Len(hub)) : n > conn[c].snapshot }]
    <2>1. r \in Connection /\ Len(r.acks) <= AckCapacity
      <3>1. { n \in States(1, Len(hub)) : n > conn[c].snapshot } \in SUBSET Event
        BY StatesAreEvents
      <3>2. Len(hub) + 1 \in Nat
        BY DEF EventsTypeOK
      <3> QED
        BY <3>1, <3>2 DEF Connection, Phases
    <2>2. conn' = [conn EXCEPT ![c] = r]
      BY <1>3 DEF Subscribe
    <2> QED
      BY <2>1, <2>2, OneConnection
  <1>4. CASE Count(c)
    <2> DEFINE r == [conn[c] EXCEPT !.phase = "counted"]
    <2>1. r \in Connection /\ Len(r.acks) <= AckCapacity
      BY <1>4, McpEventsAssumption DEF Count, Connection, Phases, EventsTypeOK
    <2>2. conn' = [conn EXCEPT ![c] = r]
      BY <1>4 DEF Count
    <2> QED
      BY <2>1, <2>2, OneConnection
  <1>5. CASE Greet(c)
    <2> DEFINE r == [conn[c] EXCEPT !.phase = "serving", !.writing = TRUE, !.view = conn[c].snapshot]
    <2>1. r \in Connection /\ Len(r.acks) <= AckCapacity
      BY <1>5, McpEventsAssumption DEF Greet, Connection, Phases, EventsTypeOK
    <2>2. conn' = [conn EXCEPT ![c] = r]
      BY <1>5 DEF Greet
    <2> QED
      BY <2>1, <2>2, OneConnection
  <1>6. CASE GreetFails(c)
    BY <1>6, EndedShape, OneConnection DEF GreetFails, Phases
  <1>7. CASE Lagged(c)
    <2> DEFINE r == [conn[c] EXCEPT !.next = Oldest, !.lost = @ \cup States(conn[c].next, Oldest - 1)]
    <2>1. r \in Connection /\ Len(r.acks) <= AckCapacity
      <3>1. conn[c].lost \cup States(conn[c].next, Oldest - 1) \in SUBSET Event
        BY StatesAreEvents DEF Connection
      <3>2. Oldest \in Nat
        BY McpEventsAssumption DEF Oldest, EventsTypeOK
      <3> QED
        BY <3>1, <3>2 DEF Connection
    <2>2. conn' = [conn EXCEPT ![c] = r]
      BY <1>7 DEF Lagged
    <2> QED
      BY <2>1, <2>2, OneConnection
  <1>8. CASE SendAck(c)
    <2> DEFINE r == [conn[c] EXCEPT !.wire = Ack(Head(conn[c].acks)), !.acks = Tail(@)]
    <2>1. r \in Connection /\ Len(r.acks) <= AckCapacity
      BY <1>8, AckShape, McpEventsAssumption DEF SendAck, Connection, EventsTypeOK
    <2>2. conn' = [conn EXCEPT ![c] = r]
      BY <1>8 DEF SendAck
    <2> QED
      BY <2>1, <2>2, OneConnection
  <1>9. CASE WriteFails(c)
    <2> DEFINE r == [conn[c] EXCEPT !.writing = FALSE, !.wire = Nothing, !.acks = <<>>]
    <2>1. r \in Connection /\ Len(r.acks) <= AckCapacity
      BY <1>9, NothingShape, McpEventsAssumption DEF WriteFails, Connection, EventsTypeOK
    <2>2. conn' = [conn EXCEPT ![c] = r]
      BY <1>9 DEF WriteFails
    <2> QED
      BY <2>1, <2>2, OneConnection
  <1>10. CASE Filter(c)
    <2> DEFINE r == [conn[c] EXCEPT !.asked = Tail(@), !.filter = Head(conn[c].asked) \cap Kinds,
        !.owed = Ack(Head(conn[c].asked) \cap Kinds)]
    <2>1. r \in Connection /\ Len(r.acks) <= AckCapacity
      <3>1. conn[c].asked \in Seq(Filters) /\ conn[c].asked # <<>>
        BY <1>10 DEF Filter, Connection
      <3>2. Tail(conn[c].asked) \in Seq(Filters)
        BY <3>1, Queues
      <3>3. /\ Head(conn[c].asked) \cap Kinds \in SUBSET Kinds
            /\ Ack(Head(conn[c].asked) \cap Kinds) \in Acks
        BY AckShape
      <3> QED
        BY <3>2, <3>3 DEF Connection
    <2>2. conn' = [conn EXCEPT ![c] = r]
      BY <1>10 DEF Filter
    <2> QED
      BY <2>1, <2>2, OneConnection
  <1>11. CASE Close(c)
    BY <1>11, EndedShape, OneConnection DEF Close, Phases
  <1>12. CASE Uncount(c)
    BY <1>12, EndedShape, OneConnection DEF Uncount, Phases
  <1>13. CASE Leave(c)
    <2> DEFINE r == [conn[c] EXCEPT !.client = FALSE]
    <2>1. r \in Connection /\ Len(r.acks) <= AckCapacity
      BY <1>13, McpEventsAssumption DEF Leave, Connection, EventsTypeOK
    <2>2. conn' = [conn EXCEPT ![c] = r]
      BY <1>13 DEF Leave
    <2> QED
      BY <2>1, <2>2, OneConnection
  <1>14. CASE Forward(c)
    <2> DEFINE e == hub[conn[c].next]
               sent == [conn[c] EXCEPT !.next = @ + 1, !.wire = Push(e), !.lost = @ \ {e}]
               kept == [conn[c] EXCEPT !.next = @ + 1, !.lost = @ \cup ({e} \ {0})]
    <2>1. e \in Event
      <3>1. conn[c].next \in Nat /\ conn[c].next >= 1 /\ conn[c].next <= Len(hub)
        BY <1>14, McpEventsAssumption DEF Forward, EventsTypeOK, Connection, Oldest
      <3> QED
        BY <3>1 DEF EventsTypeOK
    <2>2. CASE KindOf(e) \in conn[c].filter
      <3>1. sent \in Connection /\ Len(sent.acks) <= AckCapacity
        BY <2>1, PushShape, conn[c].next + 1 \in Nat DEF Connection
      <3>2. conn' = [conn EXCEPT ![c] = sent]
        BY <1>14, <2>2 DEF Forward
      <3> QED
        BY <3>1, <3>2, OneConnection
    <2>3. CASE KindOf(e) \notin conn[c].filter
      <3>1. kept \in Connection /\ Len(kept.acks) <= AckCapacity
        <4>1. conn[c].lost \cup ({e} \ {0}) \in SUBSET Event /\ conn[c].next + 1 \in Nat
          BY <2>1 DEF Connection
        <4> HIDE DEF e
        <4> QED
          BY <4>1 DEF Connection
      <3>2. conn' = [conn EXCEPT ![c] = kept]
        BY <1>14, <2>3 DEF Forward
      <3> QED
        BY <3>1, <3>2, OneConnection
    <2> QED
      BY <2>2, <2>3
  <1>15. CASE QueueAck(c)
    <2> DEFINE more == IF conn[c].writing THEN Append(conn[c].acks, conn[c].owed.filter) ELSE conn[c].acks
               r == [conn[c] EXCEPT !.owed = Nothing, !.acks = more]
    <2>1. conn[c].owed.filter \in SUBSET Kinds
      <3>1. conn[c].owed \in Acks
        BY <1>15 DEF QueueAck, Connection
      <3> QED
        BY <3>1, AckShape DEF Acks
    <2>2. more \in Seq(SUBSET Kinds) /\ Len(more) <= AckCapacity
      BY <1>15, <2>1, Queues, McpEventsAssumption DEF QueueAck, Connection
    <2> HIDE DEF more
    <2>4. r \in Connection /\ Len(r.acks) <= AckCapacity
      BY <2>2, NothingShape DEF Connection
    <2>3. conn' = [conn EXCEPT ![c] = r]
      BY <1>15 DEF QueueAck, more
    <2> QED
      BY <2>4, <2>3, OneConnection
  <1>16. CASE AskFilter(c)
    <2>1. PICK f \in Filters :
            conn' = [conn EXCEPT ![c].asked = Append(@, f), ![c].asks = @ + 1]
      BY <1>16 DEF AskFilter
    <2> DEFINE r == [conn[c] EXCEPT !.asked = Append(@, f), !.asks = @ + 1]
    <2>2. r \in Connection /\ Len(r.acks) <= AckCapacity
      <3>1. Append(conn[c].asked, f) \in Seq(Filters)
        BY Queues DEF Connection
      <3>2. conn[c].asks + 1 \in 0 .. MaxAsks
        <4>1. conn[c].asks \in 0 .. MaxAsks /\ conn[c].asks < MaxAsks /\ MaxAsks \in Nat
          BY <1>16, McpEventsAssumption DEF AskFilter, Connection
        <4> QED
          BY <4>1
      <3> QED
        BY <3>1, <3>2 DEF Connection
    <2>3. conn' = [conn EXCEPT ![c] = r]
      BY <2>1
    <2> QED
      BY <2>2, <2>3, OneConnection
  <1>17. CASE Take(c)
    <2> DEFINE w == conn[c].wire
               r == [conn[c] EXCEPT !.wire = Nothing,
                       !.view = IF w.type = "event" /\ w.event > 0 THEN w.event ELSE @,
                       !.granted = IF w.type = "ack" THEN w.filter ELSE @]
    <2>1. w \in Messages
      BY DEF Connection
    <2>2. r \in Connection /\ Len(r.acks) <= AckCapacity
      BY <2>1, MessageShape, NothingShape DEF Connection
    <2>3. conn' = [conn EXCEPT ![c] = r]
      BY <1>17 DEF Take
    <2> QED
      BY <2>2, <2>3, OneConnection
  <1> QED
    BY <1>1, <1>2, <1>3, <1>4, <1>5, <1>6, <1>7, <1>8, <1>9, <1>10, <1>11, <1>12,
       <1>13, <1>14, <1>15, <1>16, <1>17 DEF ReadTask, WriteTask

-----------------------------------------------------------------------------
(***************************************************************************)
(* The filter and its acks.                                                *)
(***************************************************************************)
LEMMA Untouched ==
  ASSUME NEW c, Good(c),
         conn'[c].writing = conn[c].writing, conn'[c].wire = conn[c].wire,
         conn'[c].owed = conn[c].owed, conn'[c].acks = conn[c].acks,
         conn'[c].asked = conn[c].asked, conn'[c].filter = conn[c].filter,
         conn'[c].granted = conn[c].granted,
         conn'[c].phase \in Early => conn[c].phase \in Early,
         conn[c].writing => conn'[c].phase = "serving"
  PROVE  Good(c)'
  BY DEF Good, Tasks, Granting, Youngest, OnWire, Wanted, KindOf

LEMMA Elsewhere ==
  ASSUME NEW d, Good(d), conn'[d] = conn[d]
  PROVE  Good(d)'
  BY DEF Good, Tasks, Granting, Youngest, OnWire, Wanted, KindOf

LEMMA EndedGood ==
  ASSUME NEW c, NEW p \in Phases, p # "serving", conn'[c] = Ended(p)
  PROVE  Good(c)'
  BY EndedShape, NothingShape DEF Good, Tasks, Granting, OnWire, Early

\* Every step of a client or of its tasks keeps what connects its filter and its acks.
LEMMA GoodStep ==
  ASSUME EventsTypeOK, NEW c \in Client, Good(c),
         Connect(c) \/ ReadTask(c) \/ WriteTask(c) \/ AskFilter(c) \/ Take(c) \/ Leave(c)
  PROVE  Good(c)'
  <1> conn[c] \in Connection /\ conn \in [Client -> Connection]
    BY DEF EventsTypeOK
  <1>1. CASE Connect(c)
    <2>1. /\ conn'[c].writing = conn[c].writing /\ conn'[c].wire = conn[c].wire
          /\ conn'[c].owed = conn[c].owed /\ conn'[c].acks = conn[c].acks
          /\ conn'[c].asked = conn[c].asked /\ conn'[c].filter = conn[c].filter
          /\ conn'[c].granted = conn[c].granted
      BY <1>1 DEF Connect, Connection
    <2>2. /\ conn'[c].phase \in Early => conn[c].phase \in Early
          /\ conn[c].writing => conn'[c].phase = "serving"
      BY <1>1 DEF Connect, Connection, Early, Good, Tasks
    <2> QED
      BY <2>1, <2>2, Untouched
  <1>2. CASE Snapshot(c)
    <2>1. /\ conn'[c].writing = conn[c].writing /\ conn'[c].wire = conn[c].wire
          /\ conn'[c].owed = conn[c].owed /\ conn'[c].acks = conn[c].acks
          /\ conn'[c].asked = conn[c].asked /\ conn'[c].filter = conn[c].filter
          /\ conn'[c].granted = conn[c].granted
      BY <1>2 DEF Snapshot, Connection
    <2>2. /\ conn'[c].phase \in Early => conn[c].phase \in Early
          /\ conn[c].writing => conn'[c].phase = "serving"
      BY <1>2 DEF Snapshot, Connection, Early, Good, Tasks
    <2> QED
      BY <2>1, <2>2, Untouched
  <1>3. CASE Subscribe(c)
    <2>1. /\ conn'[c].writing = conn[c].writing /\ conn'[c].wire = conn[c].wire
          /\ conn'[c].owed = conn[c].owed /\ conn'[c].acks = conn[c].acks
          /\ conn'[c].asked = conn[c].asked /\ conn'[c].filter = conn[c].filter
          /\ conn'[c].granted = conn[c].granted
      BY <1>3 DEF Subscribe, Connection
    <2>2. /\ conn'[c].phase \in Early => conn[c].phase \in Early
          /\ conn[c].writing => conn'[c].phase = "serving"
      BY <1>3 DEF Subscribe, Connection, Early, Good, Tasks
    <2> QED
      BY <2>1, <2>2, Untouched
  <1>4. CASE Count(c)
    <2>1. /\ conn'[c].writing = conn[c].writing /\ conn'[c].wire = conn[c].wire
          /\ conn'[c].owed = conn[c].owed /\ conn'[c].acks = conn[c].acks
          /\ conn'[c].asked = conn[c].asked /\ conn'[c].filter = conn[c].filter
          /\ conn'[c].granted = conn[c].granted
      BY <1>4 DEF Count, Connection
    <2>2. /\ conn'[c].phase \in Early => conn[c].phase \in Early
          /\ conn[c].writing => conn'[c].phase = "serving"
      BY <1>4 DEF Count, Connection, Early, Good, Tasks
    <2> QED
      BY <2>1, <2>2, Untouched
  <1>5. CASE GreetFails(c)
    <2>1. conn'[c] = Ended("closed")
      BY <1>5 DEF GreetFails
    <2> QED
      BY <2>1, EndedGood DEF Phases
  <1>6. CASE Lagged(c)
    <2>1. /\ conn'[c].writing = conn[c].writing /\ conn'[c].wire = conn[c].wire
          /\ conn'[c].owed = conn[c].owed /\ conn'[c].acks = conn[c].acks
          /\ conn'[c].asked = conn[c].asked /\ conn'[c].filter = conn[c].filter
          /\ conn'[c].granted = conn[c].granted
      BY <1>6 DEF Lagged, Connection
    <2>2. /\ conn'[c].phase \in Early => conn[c].phase \in Early
          /\ conn[c].writing => conn'[c].phase = "serving"
      BY <1>6 DEF Lagged, Connection, Early, Good, Tasks
    <2> QED
      BY <2>1, <2>2, Untouched
  <1>7. CASE Uncount(c)
    <2>1. conn'[c] = Ended("gone")
      BY <1>7 DEF Uncount
    <2> QED
      BY <2>1, EndedGood DEF Phases
  <1>8. CASE Leave(c)
    <2>1. /\ conn'[c].writing = conn[c].writing /\ conn'[c].wire = conn[c].wire
          /\ conn'[c].owed = conn[c].owed /\ conn'[c].acks = conn[c].acks
          /\ conn'[c].asked = conn[c].asked /\ conn'[c].filter = conn[c].filter
          /\ conn'[c].granted = conn[c].granted
      BY <1>8 DEF Leave, Connection
    <2>2. /\ conn'[c].phase \in Early => conn[c].phase \in Early
          /\ conn[c].writing => conn'[c].phase = "serving"
      BY <1>8 DEF Leave, Connection, Early, Good, Tasks
    <2> QED
      BY <2>1, <2>2, Untouched
  <1>9. CASE Greet(c)
    <2>1. /\ conn[c].phase = "counted" /\ conn'[c].phase = "serving" /\ conn'[c].writing = TRUE
          /\ conn'[c].wire = conn[c].wire
          /\ conn'[c].owed = conn[c].owed /\ conn'[c].acks = conn[c].acks
          /\ conn'[c].filter = conn[c].filter /\ conn'[c].granted = conn[c].granted
      BY <1>9 DEF Greet, Connection
    <2>2. conn[c].wire = Nothing /\ conn[c].owed = Nothing /\ conn[c].acks = <<>>
          /\ conn[c].filter = conn[c].granted
      BY <2>1 DEF Good, Tasks, Early
    <2> QED
      BY <2>1, <2>2, NothingShape DEF Good, Tasks, Granting, Youngest, OnWire, Early
  <1>10. CASE Forward(c)
    <2> DEFINE e == hub[conn[c].next]
    <2>1. /\ conn'[c].phase = conn[c].phase /\ conn'[c].writing = conn[c].writing
          /\ conn'[c].owed = conn[c].owed /\ conn'[c].acks = conn[c].acks
          /\ conn'[c].asked = conn[c].asked /\ conn'[c].filter = conn[c].filter
          /\ conn'[c].granted = conn[c].granted
      BY <1>10 DEF Forward, Connection
    <2>2. conn[c].writing /\ conn[c].wire = Nothing
      BY <1>10 DEF Forward, Ready
    <2>3. CASE KindOf(e) \in conn[c].filter
      <3>1. e \in Event
        <4>1. conn[c].next \in Nat /\ conn[c].next >= 1 /\ conn[c].next <= Len(hub)
          BY <1>10, McpEventsAssumption DEF Forward, EventsTypeOK, Connection, Oldest
        <4> QED
          BY <4>1 DEF EventsTypeOK
      <3>2. conn'[c].wire = Push(e)
        BY <1>10, <2>3 DEF Forward, Connection
      <3>3. conn'[c].wire.type = "event" /\ conn'[c].wire.event = e /\ conn'[c].wire # Nothing
        BY <3>1, <3>2, PushShape
      <3>4. Youngest(c)' = Youngest(c)
        BY <2>1, <2>2, <3>3, NothingShape DEF Youngest
      <3>5. Wanted(c, KindOf(e))
        <4>1. KindOf(e) \in Youngest(c)
          BY <2>2, <2>3 DEF Good, Granting
        <4>2. conn[c].acks # <<>> => Len(conn[c].acks) \in DOMAIN conn[c].acks
          BY DEF Connection
        <4> QED
          BY <4>1, <4>2, <2>2, NothingShape DEF Youngest, Wanted
      <3>6. ASSUME NEW k, Wanted(c, k) PROVE Wanted(c, k)'
        BY <2>1, <3>6 DEF Wanted
      <3>7. OnWire(c)'
        BY <3>3, <3>5, <3>6 DEF OnWire, KindOf
      <3>8. Tasks(c)'
        BY <2>1, <2>2 DEF Good, Tasks
      <3>9. Granting(c)'
        BY <2>1, <3>4 DEF Good, Granting
      <3> QED
        BY <3>7, <3>8, <3>9 DEF Good
    <2>4. CASE KindOf(e) \notin conn[c].filter
      <3>1. conn'[c].wire = conn[c].wire
        BY <1>10, <2>4 DEF Forward, Connection
      <3>2. conn[c].writing => conn'[c].phase = "serving"
        BY <2>1 DEF Good, Tasks
      <3> QED
        BY <2>1, <3>1, <3>2, Untouched
    <2> QED
      BY <2>3, <2>4
  <1>11. CASE SendAck(c)
    <2> DEFINE f == Head(conn[c].acks)
    <2>1. /\ conn'[c].phase = conn[c].phase /\ conn'[c].writing = conn[c].writing
          /\ conn'[c].owed = conn[c].owed /\ conn'[c].acks = Tail(conn[c].acks)
          /\ conn'[c].filter = conn[c].filter /\ conn'[c].granted = conn[c].granted
          /\ conn'[c].wire = Ack(f)
      BY <1>11 DEF SendAck, Connection
    <2>2. conn[c].writing /\ conn[c].acks # <<>> /\ conn[c].acks \in Seq(SUBSET Kinds)
      BY <1>11 DEF SendAck, Ready, Connection
    <2>3. /\ f \in SUBSET Kinds
          /\ conn[c].acks[Len(conn[c].acks)]
               = IF Tail(conn[c].acks) # <<>> THEN Tail(conn[c].acks)[Len(Tail(conn[c].acks))] ELSE f
      BY <2>2, LastOfTail
    <2>4. conn'[c].wire.type = "ack" /\ conn'[c].wire.filter = f
      BY <2>1, <2>3, AckShape
    <2>5. Youngest(c)' = Youngest(c)
      BY <2>1, <2>2, <2>3, <2>4 DEF Youngest
    <2> QED
      BY <2>1, <2>2, <2>4, <2>5 DEF Good, Tasks, Granting, OnWire
  <1>12. CASE WriteFails(c)
    <2>1. /\ conn'[c].phase = conn[c].phase /\ conn'[c].writing = FALSE
          /\ conn'[c].owed = conn[c].owed /\ conn'[c].acks = <<>>
          /\ conn'[c].filter = conn[c].filter /\ conn'[c].granted = conn[c].granted
          /\ conn'[c].wire = Nothing
      BY <1>12 DEF WriteFails, Connection
    <2> QED
      BY <2>1, NothingShape DEF Good, Tasks, Granting, OnWire
  <1>13. CASE Filter(c)
    <2> DEFINE f == Head(conn[c].asked) \cap Kinds
    <2>1. /\ conn'[c].phase = conn[c].phase /\ conn'[c].writing = conn[c].writing
          /\ conn'[c].owed = Ack(f) /\ conn'[c].acks = conn[c].acks
          /\ conn'[c].filter = f /\ conn'[c].granted = conn[c].granted
          /\ conn'[c].wire = conn[c].wire /\ conn'[c].asked = Tail(conn[c].asked)
      BY <1>13 DEF Filter, Connection
    <2>2. /\ conn[c].phase = "serving" /\ conn[c].owed = Nothing /\ conn[c].asked # <<>>
          /\ conn[c].asked \in Seq(Filters)
      BY <1>13 DEF Filter, Connection
    <2>3. Ack(f) # Nothing /\ Ack(f).filter = f
      BY AckShape
    <2>4. Tasks(c)' /\ Granting(c)'
      BY <2>1, <2>2, <2>3 DEF Good, Tasks, Granting, Youngest, Early
    <2>5. ASSUME NEW k, Wanted(c, k) PROVE Wanted(c, k)'
      <3>1. CASE k \in Kinds /\ \E i \in DOMAIN conn[c].asked : k \in conn[c].asked[i]
        <4>1. PICK i \in DOMAIN conn[c].asked : k \in conn[c].asked[i]
          BY <3>1
        <4>2. CASE i = 1
          <5>1. conn[c].asked[1] = Head(conn[c].asked)
            BY <2>2
          <5>2. k \in f
            BY <3>1, <4>1, <4>2, <5>1
          <5> HIDE DEF f
          <5>3. conn'[c].owed # Nothing /\ k \in conn'[c].owed.filter
            BY <5>2, <2>1, <2>3
          <5> QED
            BY <5>3 DEF Wanted
        <4>3. CASE i # 1
          <5>1. /\ i - 1 \in DOMAIN Tail(conn[c].asked)
                /\ Tail(conn[c].asked)[i - 1] = conn[c].asked[i]
            BY <4>3, <2>2
          <5> QED
            BY <5>1, <4>1, <3>1, <2>1 DEF Wanted
        <4> QED
          BY <4>2, <4>3
      <3> QED
        BY <2>1, <2>2, <2>5, <3>1 DEF Wanted
    <2>6. OnWire(c)'
      BY <2>1, <2>5 DEF Good, OnWire, KindOf
    <2> QED
      BY <2>4, <2>6 DEF Good
  <1>14. CASE QueueAck(c)
    <2>1. /\ conn'[c].phase = conn[c].phase /\ conn'[c].writing = conn[c].writing
          /\ conn'[c].owed = Nothing /\ conn'[c].filter = conn[c].filter
          /\ conn'[c].granted = conn[c].granted /\ conn'[c].wire = conn[c].wire
          /\ conn'[c].asked = conn[c].asked
          /\ conn'[c].acks = IF conn[c].writing THEN Append(conn[c].acks, conn[c].owed.filter)
                                                ELSE conn[c].acks
      BY <1>14 DEF QueueAck, Connection
    <2>2. /\ conn[c].phase = "serving" /\ conn[c].owed # Nothing
          /\ conn[c].acks \in Seq(SUBSET Kinds) /\ conn[c].owed.filter \in SUBSET Kinds
      BY <1>14, AckShape DEF QueueAck, Connection, Acks
    <2>3. Tasks(c)'
      BY <2>1, <2>2 DEF Good, Tasks, Early
    <2>4. CASE conn[c].writing
      <3> DEFINE longer == Append(conn[c].acks, conn[c].owed.filter)
      <3>1. /\ longer # <<>> /\ longer[Len(longer)] = conn[c].owed.filter
            /\ Len(longer) \in DOMAIN longer
            /\ \A i \in DOMAIN conn[c].acks : i \in DOMAIN longer /\ longer[i] = conn[c].acks[i]
        BY <2>2
      <3>2. conn'[c].acks = longer
        BY <2>1, <2>4
      <3> HIDE DEF longer
      <3>3. Granting(c)'
        BY <2>1, <2>2, <3>1, <3>2 DEF Good, Granting, Youngest
      <3>4. ASSUME NEW k, Wanted(c, k) PROVE Wanted(c, k)'
        BY <2>1, <3>1, <3>2, <3>4 DEF Wanted
      <3>5. OnWire(c)'
        BY <2>1, <3>4 DEF Good, OnWire, KindOf
      <3> QED
        BY <2>3, <3>3, <3>5 DEF Good
    <2>5. CASE ~conn[c].writing
      BY <2>1, <2>3, <2>5, NothingShape DEF Good, Tasks, Granting, OnWire
    <2> QED
      BY <2>4, <2>5
  <1>15. CASE Close(c)
    <2>1. conn'[c] = Ended("closed")
      BY <1>15 DEF Close
    <2> QED
      BY <2>1, EndedGood DEF Phases
  <1>16. CASE AskFilter(c)
    <2>1. PICK f \in Filters :
            conn' = [conn EXCEPT ![c].asked = Append(@, f), ![c].asks = @ + 1]
      BY <1>16 DEF AskFilter
    <2>2. /\ conn'[c].phase = conn[c].phase /\ conn'[c].writing = conn[c].writing
          /\ conn'[c].owed = conn[c].owed /\ conn'[c].acks = conn[c].acks
          /\ conn'[c].filter = conn[c].filter /\ conn'[c].granted = conn[c].granted
          /\ conn'[c].wire = conn[c].wire /\ conn'[c].asked = Append(conn[c].asked, f)
      BY <2>1 DEF Connection
    <2>3. \A i \in DOMAIN conn[c].asked :
            i \in DOMAIN conn'[c].asked /\ conn'[c].asked[i] = conn[c].asked[i]
      BY <2>2 DEF Connection
    <2>4. ASSUME NEW k, Wanted(c, k) PROVE Wanted(c, k)'
      BY <2>2, <2>3, <2>4 DEF Wanted
    <2>5. OnWire(c)'
      BY <2>2, <2>4 DEF Good, OnWire, KindOf
    <2> QED
      BY <2>2, <2>5 DEF Good, Tasks, Granting, Youngest
  <1>17. CASE Take(c)
    <2> DEFINE w == conn[c].wire
    <2>1. /\ conn'[c].phase = conn[c].phase /\ conn'[c].writing = conn[c].writing
          /\ conn'[c].owed = conn[c].owed /\ conn'[c].acks = conn[c].acks
          /\ conn'[c].filter = conn[c].filter /\ conn'[c].wire = Nothing
          /\ conn'[c].granted = IF w.type = "ack" THEN w.filter ELSE conn[c].granted
      BY <1>17 DEF Take, Connection
    <2>2. w # Nothing
      BY <1>17 DEF Take
    <2>3. Granting(c)'
      BY <2>1, NothingShape DEF Good, Granting, Youngest
    <2>4. Tasks(c)'
      BY <2>1, <2>2 DEF Good, Tasks, Early
    <2> QED
      BY <2>1, <2>3, <2>4, NothingShape DEF Good, OnWire
  <1> QED
    BY <1>1, <1>2, <1>3, <1>4, <1>5, <1>6, <1>7, <1>8, <1>9, <1>10, <1>11, <1>12,
       <1>13, <1>14, <1>15, <1>16, <1>17 DEF ReadTask, WriteTask

-----------------------------------------------------------------------------
(***************************************************************************)
(* The count.                                                              *)
(***************************************************************************)
Clientele(c) == Connect(c) \/ ReadTask(c) \/ WriteTask(c) \/ AskFilter(c) \/ Take(c) \/ Leave(c)

LEMMA CountStep ==
  ASSUME EventsTypeOK, count = Cardinality(Counted), NEW c \in Client, Clientele(c),
         \A d \in Client \ {c} : conn'[d] = conn[d]
  PROVE  count' = Cardinality(Counted')
  <1> conn[c] \in Connection /\ conn \in [Client -> Connection]
    BY DEF EventsTypeOK
  <1>0. IsFiniteSet(Counted)
    BY McpEventsAssumption, FS_Subset DEF Counted
  <1>1. CASE Count(c)
    <2>1. Counted' = Counted \cup {c} /\ c \notin Counted
      BY <1>1 DEF Counted, Count, Connection
    <2> QED
      BY <1>0, <2>1, <1>1, FS_AddElement DEF Count
  <1>2. CASE Uncount(c)
    <2>1. Counted' = Counted \ {c} /\ c \in Counted
      BY <1>2, EndedShape DEF Counted, Uncount, Phases
    <2> QED
      BY <1>0, <2>1, <1>2, FS_RemoveElement DEF Uncount
  <1>3. CASE ~Count(c) /\ ~Uncount(c)
    <2>1. count' = count
      BY <1>3 DEF Clientele, ReadTask, WriteTask, Connect, Snapshot, Subscribe, Greet, GreetFails,
                  Forward, Lagged, SendAck, WriteFails, Filter, QueueAck, Close, AskFilter, Take, Leave
    <2>2. conn'[c].phase \in {"counted", "serving", "closed"}
            <=> conn[c].phase \in {"counted", "serving", "closed"}
      <3>1. CASE Connect(c)
        BY <3>1 DEF Connect, Connection
      <3>2. CASE Snapshot(c)
        BY <3>2 DEF Snapshot, Connection
      <3>3. CASE Subscribe(c)
        BY <3>3 DEF Subscribe, Connection
      <3>4. CASE Greet(c)
        BY <3>4 DEF Greet, Connection
      <3>5. CASE GreetFails(c)
        BY <3>5, EndedShape DEF GreetFails, Phases
      <3>6. CASE Forward(c)
        BY <3>6 DEF Forward, Connection
      <3>7. CASE Lagged(c)
        BY <3>7 DEF Lagged, Connection
      <3>8. CASE SendAck(c)
        BY <3>8 DEF SendAck, Connection
      <3>9. CASE WriteFails(c)
        BY <3>9 DEF WriteFails, Connection
      <3>10. CASE Filter(c)
        BY <3>10 DEF Filter, Connection
      <3>11. CASE QueueAck(c)
        BY <3>11 DEF QueueAck, Connection
      <3>12. CASE Close(c)
        BY <3>12, EndedShape DEF Close, Phases
      <3>13. CASE AskFilter(c)
        BY <3>13 DEF AskFilter, Connection
      <3>14. CASE Take(c)
        BY <3>14 DEF Take, Connection
      <3>15. CASE Leave(c)
        BY <3>15 DEF Leave, Connection
      <3> QED
        BY <1>3, <3>1, <3>2, <3>3, <3>4, <3>5, <3>6, <3>7, <3>8, <3>9, <3>10, <3>11, <3>12, <3>13, <3>14, <3>15
           DEF Clientele, ReadTask, WriteTask
    <2>3. Counted' = Counted
      BY <2>2 DEF Counted
    <2> QED
      BY <2>1, <2>3
  <1> QED
    BY <1>1, <1>2, <1>3

-----------------------------------------------------------------------------
(***************************************************************************)
(* The invariant, and the theorems.                                        *)
(***************************************************************************)
LEMMA Initially == EventsInit => EventsIInv
  <1> SUFFICES ASSUME EventsInit PROVE EventsIInv
    OBVIOUS
  <1>1. EventsTypeOK
    BY InitTypes
  <1>2. Counted = {} /\ count = 0
    BY DEF EventsInit, Counted, NotConnected
  <1>3. ASSUME NEW c \in Client PROVE Good(c)
    BY NothingShape DEF EventsInit, NotConnected, Good, Tasks, Granting, OnWire, Early
  <1> QED
    BY <1>1, <1>2, <1>3, FS_EmptySet DEF EventsIInv

\* The error broadcaster's steps leave what is sent an event, and the connections alone.
LEMMA ErrorsTyped ==
  ASSUME EventsTypeOK, ErrorOperation
  PROVE  EventsTypeOK' /\ UNCHANGED <<hub, count, conn>>
  <1> USE DEF EventsTypeOK
  <1>0. /\ 0 \in Event /\ Clear \in SUBSET Event
        /\ {"kept", "dropped", "skipped", "overtaken"} \in SUBSET Fates
    BY McpEventsAssumption DEF Event, Fates
  <1>1. ASSUME NEW e \in Event PROVE Append(source, e) \in Seq(Event)
    OBVIOUS
  <1>2. CASE ChangeErrors
    <2>1. current' \in Event
      BY <1>2, McpEventsAssumption DEF ChangeErrors, Event
    <2> QED
      BY <1>0, <1>2, <2>1 DEF ChangeErrors
  <1>3. CASE Announce
    BY <1>0, <1>1, <1>3 DEF Announce, Send
  <1>4. CASE Dropped
    BY <1>0, <1>4 DEF Dropped
  <1>5. CASE Repeat
    <2>1. extras' \in 0 .. MaxExtras
      BY <1>5, McpEventsAssumption DEF Repeat
    <2> QED
      BY <1>0, <1>1, <1>5, <2>1 DEF Repeat, Send
  <1>6. CASE Inform
    <2>1. extras' \in 0 .. MaxExtras
      BY <1>6, McpEventsAssumption DEF Inform
    <2> QED
      BY <1>0, <1>1, <1>6, <2>1 DEF Inform
  <1>7. CASE FindClear
    <2>1. extras' \in 0 .. MaxExtras
      BY <1>7, McpEventsAssumption DEF FindClear
    <2> QED
      BY <1>0, <1>7, <2>1 DEF FindClear
  <1>8. CASE SendClear
    <2>1. PICK n \in late :
            /\ late' = late \ {n}
            /\ IF current \in Clear
               THEN source' = Append(source, current) /\ announcer' = FALSE /\ astray' = "kept"
               ELSE /\ source' = Append(source, n)
                    /\ astray' = IF announcer THEN astray ELSE "overtaken"
                    /\ UNCHANGED announcer
            /\ UNCHANGED <<current, extras, hub, count, conn>>
      BY <1>8 DEF SendClear
    <2>2. n \in Event
      BY <1>0
    <2> QED
      BY <1>0, <1>1, <2>1, <2>2
  <1> QED
    BY <1>2, <1>3, <1>4, <1>5, <1>6, <1>7, <1>8 DEF ErrorOperation

LEMMA RelayTyped ==
  ASSUME EventsTypeOK, Relay
  PROVE  EventsTypeOK' /\ UNCHANGED <<count, conn>>
  <1> USE DEF EventsTypeOK
  <1>1. CASE RelayOne
    <2>1. Head(source) \in Event /\ Tail(source) \in Seq(Event)
      BY <1>1, Queues DEF RelayOne
    <2> QED
      BY <1>1, <2>1 DEF RelayOne
  <1>2. CASE RelayLags
    <2> DEFINE kept == SubSeq(source, Len(source) - SourceCapacity + 1, Len(source))
    <2>1. kept \in Seq(Event)
      BY <1>2, McpEventsAssumption DEF RelayLags
    <2> HIDE DEF kept
    <2>2. source' = kept /\ astray' \in Fates
      BY <1>2 DEF RelayLags, kept, Fates
    <2> QED
      BY <1>2, <2>1, <2>2 DEF RelayLags
  <1> QED
    BY <1>1, <1>2 DEF Relay

LEMMA EventsInvariance == EventsIInv /\ [EventsNext]_eventsVars => EventsIInv'
  <1> SUFFICES ASSUME EventsIInv, [EventsNext]_eventsVars PROVE EventsIInv'
    OBVIOUS
  <1> EventsTypeOK /\ count = Cardinality(Counted) /\ \A c \in Client : Good(c)
    BY DEF EventsIInv
  <1>0. ASSUME conn' = conn, count' = count
        PROVE  Counted' = Counted /\ \A c \in Client : Good(c)'
    BY <1>0, Elsewhere DEF Counted
  <1>1. CASE ErrorOperation
    <2>1. EventsTypeOK' /\ UNCHANGED <<hub, count, conn>>
      BY <1>1, ErrorsTyped
    <2> QED
      BY <1>0, <2>1 DEF EventsIInv
  <1>2. CASE OtherEvent
    <2>1. 0 \in Event
      BY McpEventsAssumption DEF Event
    <2>2. EventsTypeOK'
      BY <1>2, <2>1 DEF OtherEvent, EventsTypeOK, errorVars
    <2> QED
      BY <1>0, <1>2, <2>2 DEF OtherEvent, EventsIInv
  <1>3. CASE Relay
    <2>1. EventsTypeOK' /\ UNCHANGED <<count, conn>>
      BY <1>3, RelayTyped
    <2> QED
      BY <1>0, <2>1 DEF EventsIInv
  <1>4. ASSUME NEW c \in Client, Clientele(c) PROVE EventsIInv'
    <2>1. /\ conn' \in [Client -> Connection]
          /\ \A d \in Client : Len(conn'[d].acks) <= AckCapacity
          /\ \A d \in Client \ {c} : conn'[d] = conn[d]
      BY <1>4, ConnectionStep DEF Clientele
    <2>2. Good(c)'
      BY <1>4, GoodStep DEF Clientele
    <2>3. \A d \in Client \ {c} : Good(d)'
      BY <2>1, Elsewhere
    <2>4. count' = Cardinality(Counted')
      BY <1>4, <2>1, CountStep
    <2>5. count' \in 0 .. Cardinality(Client)
      <3>1. Counted' \in SUBSET Client
        BY DEF Counted
      <3> QED
        BY <2>4, <3>1, McpEventsAssumption, FS_Subset, FS_CardinalityType
    <2>6. UNCHANGED <<errorVars, hub>>
      BY <1>4 DEF Clientele, ReadTask, WriteTask, Connect, Snapshot, Subscribe, Count, Uncount, Greet,
                  GreetFails, Forward, Lagged, SendAck, WriteFails, Filter, QueueAck, Close, AskFilter, Take, Leave
    <2>7. EventsTypeOK'
      BY <2>1, <2>5, <2>6 DEF EventsTypeOK, errorVars
    <2> QED
      BY <2>2, <2>3, <2>4, <2>7 DEF EventsIInv
  <1>5. CASE UNCHANGED eventsVars
    BY <1>0, <1>5 DEF eventsVars, errorVars, EventsIInv, EventsTypeOK
  <1> QED
    BY <1>1, <1>2, <1>3, <1>4, <1>5 DEF EventsNext, Clientele

\* Types: among them, the acks' channel never holds more than its capacity, whatever the
\* client asks for (server/mcp_events.rs, handle_connection).
THEOREM EventsTypeCorrect == EventsSpec => []EventsTypeOK
  BY Initially, EventsInvariance, PTL DEF EventsSpec, EventsIInv

\* client_count is the number of handlers between their increment and their decrement,
\* for any number of clients (server/mcp_events.rs, handle_connection).
THEOREM CountIsRight == EventsSpec => []CountIsOpenHandlers
  <1>1. EventsIInv => CountIsOpenHandlers
    BY DEF EventsIInv, CountIsOpenHandlers, Counted
  <1> QED
    BY Initially, EventsInvariance, <1>1, PTL DEF EventsSpec

\* What arrives is of a kind in the acknowledged filter or in one asked for since
\* (server/mcp_events.rs, the write and read tasks of handle_connection).
THEOREM NothingUnasked == EventsSpec => []OnlyWhatWasAskedFor
  <1>1. EventsIInv => OnlyWhatWasAskedFor
    <2> SUFFICES ASSUME EventsIInv, NEW c \in Client, conn[c].wire.type = "event"
                 PROVE  KindOf(conn[c].wire.event) \in conn[c].granted \cup UNION InFlight(c)
      BY DEF OnlyWhatWasAskedFor
    <2> DEFINE k == KindOf(conn[c].wire.event)
    <2>1. Wanted(c, k)
      BY DEF EventsIInv, Good, OnWire
    <2>2. CASE k \in Kinds /\ \E i \in DOMAIN conn[c].asked : k \in conn[c].asked[i]
      <3>1. PICK i \in DOMAIN conn[c].asked : k \in conn[c].asked[i]
        BY <2>2
      <3>2. conn[c].asked[i] \cap Kinds \in InFlight(c)
        BY DEF InFlight
      <3> QED
        BY <2>2, <3>1, <3>2
    <2>3. CASE \E i \in DOMAIN conn[c].acks : k \in conn[c].acks[i]
      BY <2>3 DEF InFlight
    <2>4. CASE conn[c].owed # Nothing /\ k \in conn[c].owed.filter
      BY <2>4 DEF InFlight
    <2> QED
      BY <2>1, <2>2, <2>3, <2>4 DEF Wanted
  <1> QED
    BY Initially, EventsInvariance, <1>1, PTL DEF EventsSpec
=============================================================================
