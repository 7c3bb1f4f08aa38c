----------------------------- MODULE TopicFeed ------------------------------
(***************************************************************************)
(* What the broker promises, without threads, locks or sockets: every      *)
(* topic is a log that only grows, and every subscriber is fed from the    *)
(* logs.  Within one subscription a message of the log is fed at most once *)
(* and never after a later one of the same topic; only a replay goes back, *)
(* and it goes back to the first message.                                  *)
(***************************************************************************)
EXTENDS Naturals, Sequences

CONSTANTS Users, Topics, Contents, Spoilt

VARIABLES
  log,   \* topic -> contents published so far
  next,  \* user -> topic -> the first message that may still be fed
  feed   \* user -> messages fed so far

feedVars == <<log, next, feed>>

Init ==
  /\ log = [t \in Topics |-> <<>>]
  /\ next = [u \in Users |-> [t \in Topics |-> 1]]
  /\ feed = [u \in Users |-> <<>>]

Publish(t, c) ==
  /\ log' = [log EXCEPT ![t] = Append(@, c)]
  /\ UNCHANGED <<next, feed>>

\* The next message of the log, spoilt if it was copied while the log moved.
Deliver(u, t) ==
  /\ next[u][t] <= Len(log[t])
  /\ \E c \in {log[t][next[u][t]], Spoilt} :
       feed' = [feed EXCEPT ![u] =
                  Append(@, [topic |-> t, index |-> next[u][t], content |-> c])]
  /\ next' = [next EXCEPT ![u][t] = @ + 1]
  /\ UNCHANGED log

\* Messages between the cursor and the end of the log are passed over.
Skip(u, t) ==
  /\ next[u][t] <= Len(log[t])
  /\ next' = [next EXCEPT ![u][t] = Len(log[t]) + 1]
  /\ UNCHANGED <<log, feed>>

Replay(u, t) ==
  /\ next' = [next EXCEPT ![u][t] = 1]
  /\ UNCHANGED <<log, feed>>

Next ==
  \/ \E t \in Topics, c \in Contents : Publish(t, c)
  \/ \E u \in Users, t \in Topics : Deliver(u, t) \/ Skip(u, t) \/ Replay(u, t)

Spec == Init /\ [][Next]_feedVars
=============================================================================
