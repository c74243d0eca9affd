----------------------------- MODULE EchoService -----------------------------
(***************************************************************************)
(* What the server promises a client (the comments of echo_loop and        *)
(* client_socket_handler in app/main.cc): it "returns the same message     *)
(* using the same socket" and then finalizes the communication.            *)
(***************************************************************************)
EXTENDS Naturals, Sequences

CONSTANTS
  Client,
  Reply       (* the message each client is to get back            *)

VARIABLES
  up,         (* the server can keep its promise                   *)
  conn,       (* each client: "idle", "asked", "closed"            *)
  sent        (* what was sent back to it                          *)

vars == <<up, conn, sent>>

Init ==
  /\ up = TRUE
  /\ conn = [c \in Client |-> "idle"]
  /\ sent = [c \in Client |-> <<>>]

\* The client sends its message.
Ask(c) ==
  /\ conn[c] = "idle"
  /\ conn' = [conn EXCEPT ![c] = "asked"]
  /\ UNCHANGED <<up, sent>>

\* Some more of the reply goes out.
Answer(c) ==
  /\ conn[c] = "asked"
  /\ \E n \in Len(sent[c])..Len(Reply[c]) :
       sent' = [sent EXCEPT ![c] = SubSeq(Reply[c], 1, n)]
  /\ UNCHANGED <<up, conn>>

\* The connection is closed, when all of it is out.
Close(c) ==
  /\ conn[c] = "asked" /\ sent[c] = Reply[c]
  /\ conn' = [conn EXCEPT ![c] = "closed"]
  /\ UNCHANGED <<up, sent>>

\* The process ends, or loses its way: all connections are given up at once.
Crash ==
  /\ up' = FALSE
  /\ conn' = [c \in Client |-> "closed"]
  /\ UNCHANGED sent

\* From then on nothing is promised.
Astray == ~up /\ UNCHANGED <<up, conn>>

Next == Crash \/ Astray \/ \E c \in Client : Ask(c) \/ Answer(c) \/ Close(c)

Spec == Init /\ [][Next]_vars
==============================================================================
