------------------------------ MODULE Mailbox ------------------------------
(***************************************************************************)
(* What the message bus promises of its streams: each is a bounded FIFO    *)
(* mailbox.  A message is posted at most once and comes out at most once,  *)
(* in the order of posting; once a box is shut nothing is posted any more, *)
(* and what is still inside may be thrown away.                            *)
(***************************************************************************)
EXTENDS Naturals, Sequences

CONSTANTS Streams, Msgs, StreamOf, Capacity

VARIABLES
  posted,  \* the messages posted so far
  box,     \* per stream, what is inside
  got,     \* per stream, what has been taken out
  shut     \* the streams that are shut

Init ==
  /\ posted = {}
  /\ box = [s \in Streams |-> << >>]
  /\ got = [s \in Streams |-> << >>]
  /\ shut = {}

Post(m) ==
  LET s == StreamOf[m]
  IN  /\ m \notin posted /\ s \notin shut
      /\ Len(box[s]) < Capacity
      /\ posted' = posted \cup {m}
      /\ box' = [box EXCEPT ![s] = Append(@, m)]
      /\ UNCHANGED <<got, shut>>

Take(s) ==
  /\ box[s] # << >>
  /\ got' = [got EXCEPT ![s] = Append(@, Head(box[s]))]
  /\ box' = [box EXCEPT ![s] = Tail(@)]
  /\ UNCHANGED <<posted, shut>>

Discard(s) ==
  /\ s \in shut /\ box[s] # << >>
  /\ box' = [box EXCEPT ![s] = Tail(@)]
  /\ UNCHANGED <<posted, got, shut>>

Shut(s) ==
  /\ shut' = shut \cup {s}
  /\ UNCHANGED <<posted, box, got>>

Next ==
  \/ \E m \in Msgs : Post(m)
  \/ \E s \in Streams : Take(s) \/ Discard(s) \/ Shut(s)

Spec == Init /\ [][Next]_<<posted, box, got, shut>>
=============================================================================
