---- MODULE MCMcpSessions ----
(* Two clients, three posts and channels with room for one response: one   *)
(* post fills a channel, one waits for room, one is for somebody else.     *)
EXTENDS McpSessions

CONSTANTS s1, s2, p1, p2, p3

MCkinds == [p \in {p1, p2, p3} |-> IF p = p3 THEN Kind ELSE {"request"}]
====
