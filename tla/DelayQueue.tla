----------------------------- MODULE DelayQueue -----------------------------
(***************************************************************************)
(* What the ports rely on in a lat_bw_queue, without time: packets leave   *)
(* in batches, each batch what has been there longest, in any order within *)
(* the batch.  FabricLink and FabricPorts use a queue of this kind for     *)
(* ingress, CxlSystem for the queue of remote requests.                    *)
(***************************************************************************)
EXTENDS Naturals, Queues

CONSTANT NumPackets

VARIABLES
  content,  \* what is in the queue, in order of arrival
  out       \* what has left the queue

Packet == 1 .. NumPackets

Init == content = << >> /\ out = << >>

Add ==
  \E m \in Packet \ (Elements(content) \cup Elements(out)) :
    /\ content' = Append(content, m)
    /\ UNCHANGED out

Release ==
  \E n \in 1 .. Len(content) : \E batch \in Orders(First(content, n)) :
    /\ content' = Rest(content, n)
    /\ out' = out \o batch

Next == Add \/ Release

Spec == Init /\ [][Next]_<<content, out>>
=============================================================================
