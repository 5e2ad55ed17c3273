------------------------------- MODULE CallOrder -------------------------------
(***************************************************************************)
(* What the server's hand-over promises its clients: each is called at     *)
(* most once, in the order of the connections, and goes to one worker in   *)
(* the order of the calls.  A call of a later client passes over those     *)
(* before it, for ever.                                                    *)
(***************************************************************************)
EXTENDS Naturals, Sequences

CONSTANTS
  Clients,   \* who may connect
  Workers,   \* who serves
  None       \* a worker without a client

VARIABLES
  arrived,   \* the clients that were let in
  line,      \* those that may still be called, in the order they came
  called,    \* those called and not taken by a worker yet
  with       \* the client each worker has, or None

vars == <<arrived, line, called, with>>

Init ==
  /\ arrived = {}
  /\ line = <<>>
  /\ called = <<>>
  /\ with = [w \in Workers |-> None]

Arrive(c) ==
  /\ c \notin arrived
  /\ arrived' = arrived \cup {c}
  /\ line' = Append(line, c)
  /\ UNCHANGED <<called, with>>

\* Call the k-th client of the line, and nobody before it any more.
Call(k) ==
  /\ called' = Append(called, line[k])
  /\ line' = SubSeq(line, k + 1, Len(line))
  /\ UNCHANGED <<arrived, with>>

Take(w) ==
  /\ called # <<>> /\ with[w] = None
  /\ with' = [with EXCEPT ![w] = Head(called)]
  /\ called' = Tail(called)
  /\ UNCHANGED <<arrived, line>>

Finish(w) ==
  /\ with' = [with EXCEPT ![w] = None]
  /\ UNCHANGED <<arrived, line, called>>

Next ==
  \/ \E c \in Clients : Arrive(c)
  \/ \E k \in DOMAIN line : Call(k)
  \/ \E w \in Workers : Take(w) \/ Finish(w)

Spec == Init /\ [][Next]_vars
=============================================================================
