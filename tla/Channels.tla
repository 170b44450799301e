------------------------------ MODULE Channels ------------------------------
(***************************************************************************)
(* What the network promises the caches: for every packet type, source and *)
(* destination, a first-in first-out channel that loses, duplicates and    *)
(* invents nothing.  noc_request is the sending end of a channel, the      *)
(* entry of a packet into the queues of its home (home_enter) the other.   *)
(***************************************************************************)
EXTENDS Sequences

CONSTANTS Nodes, Types, Flows, Msgs

VARIABLE chan   \* chan[f]: the packets of flow f under way, oldest first

Init == chan = [f \in Flows |-> <<>>]

Send(f, v) ==
  chan' = [chan EXCEPT ![f] = Append(@, [src |-> f[2], dst |-> f[3], msg |-> v])]

\* One cycle of a destination takes at most one packet of each type.
Deliver(n, F) ==
  /\ F # {}
  /\ \A f \in F : f[3] = n /\ chan[f] # <<>>
  /\ \A f, g \in F : f[1] = g[1] => f = g
  /\ chan' = [f \in Flows |-> IF f \in F THEN Tail(chan[f]) ELSE chan[f]]

Next == \/ \E f \in Flows : \E v \in Msgs[f] : Send(f, v)
        \/ \E n \in Nodes, F \in SUBSET Flows : Deliver(n, F)

Spec == Init /\ [][Next]_chan
=============================================================================
