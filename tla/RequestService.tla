--------------------------- MODULE RequestService ---------------------------
(***************************************************************************)
(* What the HTTP handlers may expect of the servers they hand requests to: *)
(* every request stays with the server it was asked of and is concluded    *)
(* once, with an answer, a failure or by giving it up.  A server may mix   *)
(* an answer up only with one to a request of its own it has given up.     *)
(***************************************************************************)
CONSTANTS Request, Server, NoOne

VARIABLES
    status,    \* how far each request has come
    server,    \* the server it was asked of
    answer     \* the request whose answer it got

serviceVars == <<status, server, answer>>

ServiceInit ==
    /\ status = [r \in Request |-> "idle"]
    /\ server \in [Request -> Server]
    /\ answer = [r \in Request |-> NoOne]

(* The request is asked of a server, or refused at once. *)
Ask(r) ==
    /\ status[r] = "idle"
    /\ \E step \in {"open", "failed"} : status' = [status EXCEPT ![r] = step]
    /\ \E s \in Server : server' = [server EXCEPT ![r] = s]
    /\ UNCHANGED answer

Conclude(r, step) ==
    /\ status[r] = "open"
    /\ status' = [status EXCEPT ![r] = step]
    /\ UNCHANGED server

(* The answer is one to request q: r itself, or one the server has given up. *)
GiveBack(r) ==
    /\ Conclude(r, "answered")
    /\ \E q \in Request :
          /\ q = r \/ (status[q] = "abandoned" /\ server[q] = server[r])
          /\ answer' = [answer EXCEPT ![r] = q]

GoWithout(r) ==
    /\ \E step \in {"abandoned", "failed"} : Conclude(r, step)
    /\ UNCHANGED answer

ServiceNext == \E r \in Request : Ask(r) \/ GiveBack(r) \/ GoWithout(r)

ServiceSpec == ServiceInit /\ [][ServiceNext]_serviceVars
=============================================================================
