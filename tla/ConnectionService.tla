--------------------------- MODULE ConnectionService --------------------------
(***************************************************************************)
(* What the device promises a client of either port: connections are       *)
(* served one at a time in the order in which they came, each is given one *)
(* answer, and it is closed with the whole of it unless the client left.   *)
(* Nothing is said of segments, buffers and time.                          *)
(***************************************************************************)
EXTENDS Naturals, Sequences

CONSTANTS
  Ports, Conns,
  NoConn,       \* between two connections
  Answers, None,
  Room          \* connections that may wait on a port

VARIABLES
  waiting,      \* on each port, in the order they came
  serving,      \* on each port: one, or NoConn
  state,        \* "new", "open", "answered" in full or "dropped"
  answer,       \* what each is answered with, or None
  left          \* clients that reset their connection

vars == <<waiting, serving, state, answer, left>>

Init ==
  /\ waiting = [p \in Ports |-> <<>>]
  /\ serving = [p \in Ports |-> NoConn]
  /\ state = [c \in Conns |-> "new"]
  /\ answer = [c \in Conns |-> None]
  /\ left = {}

Arrive(p, c) ==
  /\ state[c] = "new"
  /\ Len(waiting[p]) < Room
  /\ waiting' = [waiting EXCEPT ![p] = Append(@, c)]
  /\ state' = [state EXCEPT ![c] = "open"]
  /\ UNCHANGED <<serving, answer, left>>

Leave(c) ==
  /\ state[c] = "open"
  /\ left' = left \cup {c}
  /\ UNCHANGED <<waiting, serving, state, answer>>

Take(p) ==
  /\ serving[p] = NoConn
  /\ waiting[p] # <<>>
  /\ serving' = [serving EXCEPT ![p] = Head(waiting[p])]
  /\ waiting' = [waiting EXCEPT ![p] = Tail(@)]
  /\ UNCHANGED <<state, answer, left>>

\* Once for each connection, while it is served.
Decide(p) ==
  /\ serving[p] # NoConn
  /\ answer[serving[p]] = None
  /\ \E a \in Answers : answer' = [answer EXCEPT ![serving[p]] = a]
  /\ UNCHANGED <<waiting, serving, state, left>>

Finish(p) ==
  /\ serving[p] # NoConn
  /\ answer[serving[p]] # None
  /\ \/ state' = [state EXCEPT ![serving[p]] = "answered"]
     \/ serving[p] \in left /\ state' = [state EXCEPT ![serving[p]] = "dropped"]
  /\ serving' = [serving EXCEPT ![p] = NoConn]
  /\ UNCHANGED <<waiting, answer, left>>

Next ==
  \/ \E c \in Conns : Leave(c) \/ \E p \in Ports : Arrive(p, c)
  \/ \E p \in Ports : Take(p) \/ Decide(p) \/ Finish(p)

\* Whoever waits is taken, and whoever is taken is answered and closed.
Fairness == \A p \in Ports : WF_vars(Take(p)) /\ WF_vars(Decide(p)) /\ WF_vars(Finish(p))

SafeSpec == Init /\ [][Next]_vars

Spec == SafeSpec /\ Fairness

=============================================================================
