--------------------------- MODULE MCHttpServer ---------------------------
(* The front end with two clients. *)
EXTENDS HttpServer

CONSTANTS e1, e2, c1, c2

\* Thread 0 accepts, thread 2 cleans up.
Order == <<Acceptor, e1, Cleaner, e2>>

\* One client sends its request in two parts, the other has to be sent an
\* answer of two parts.
TwoFor(c) == [d \in Client |-> IF d = c THEN 2 ELSE 1]
Requests == TwoFor(c1)
Answers == TwoFor(c2)

\* One client may give up while it waits for its answer, the other while it
\* receives it.
MayLeave == [c \in Client |-> IF c = c1 THEN {"waiting"} ELSE {"receiving"}]

\* A client may give up at any moment.
Impatient == [c \in Client |-> {"sending", "waiting", "receiving"}]

\* The properties say nothing of what comes after the moment that race records,
\* which may be undefined behaviour, and it is not explored.
NotYet == ~race

=============================================================================
