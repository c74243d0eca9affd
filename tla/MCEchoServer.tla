---------------------------- MODULE MCEchoServer ----------------------------
(* Instances of EchoServer for TLC. *)
EXTENDS EchoServer

CONSTANTS c1, c2

\* Every descriptor has an address of its own.
OwnListen == <<Acceptor, "sock">>
OwnDesc   == {OwnListen} \cup (Conn \X Kinds)
OwnHome   == [c \in Conn, k \in Kinds |-> {<<c, k>>}]

\* Every descriptor may also be made at one further address, which some other
\* descriptor used before.
Heap     == <<Acceptor, "heap">>
HeapDesc == OwnDesc \cup {Heap}
HeapHome == [c \in Conn, k \in Kinds |-> {<<c, k>>, Heap}]

\* The write end, which its handler closes again before it suspends, may also be
\* made where the other connection's read end or pidfd was or will be.
Peer(c)   == IF c = c1 THEN c2 ELSE c1
WriteHome == [c \in Conn, k \in Kinds |->
                {<<c, k>>} \cup (IF k = "wr" THEN {Peer(c)} \X {"rd", "pid"} ELSE {})]

\* The descriptors of a command share two addresses on the heap, so that one
\* freed by a handler is used again by the next.
PoolListen == 0
PoolDesc   == 0..6
PoolHome   == [c \in Conn, k \in Kinds |->
                 CASE k \in {"rd", "pid"} -> {1, 2}
                   [] k = "sock" -> {IF c = c1 THEN 3 ELSE 4}
                   [] k = "wr"   -> {IF c = c1 THEN 5 ELSE 6}]

\* What the clients send, and what they expect back: a command line and two
\* lines, or a word.
Plain      == [c \in Conn |-> IF c = c1 THEN <<"z", "n", "x", "n", "y">> ELSE <<"w">>]
PlainReply == [c \in Conn |-> IF c = c1 THEN <<"x", "n", "y">> ELSE <<"w">>]
Words      == [c \in Conn |-> <<IF c = c1 THEN "x" ELSE "w">>]
Pair       == [c \in Conn |-> IF c = c1 THEN <<"x", "y">> ELSE <<"w">>]

\* c1 sends nothing but a command line.
Command      == [c \in Conn |-> IF c = c1 THEN <<"z", "n">> ELSE <<"w">>]
CommandReply == [c \in Conn |-> IF c = c1 THEN <<>> ELSE <<"w">>]

\* c1 ends its message with a newline.
Line      == [c \in Conn |-> IF c = c1 THEN <<"z", "n", "x", "n">> ELSE <<"w">>]
LineReply == [c \in Conn |-> IF c = c1 THEN <<"x", "n">> ELSE <<"w">>]

NoFaults == [c \in Conn |-> {}]
Rude     == [c \in Conn |-> IF c = c1 THEN {"fin", "more", "reset"} ELSE {}]
HalfShut == [c \in Conn |-> IF c = c1 THEN {"fin"} ELSE {}]
=============================================================================
