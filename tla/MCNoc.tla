------------------------------- MODULE MCNoc -------------------------------
(***************************************************************************)
(* Properties of the network and instances of Noc for TLC.                 *)
(***************************************************************************)
EXTENDS Noc

\* Two cpus that exchange every type of packet.
PairFlows == {<<t, <<0, 0>>, <<1, 0>>>> : t \in {"REQ", "INVN", "WTBK"}}
PairMissing == {<<1, 0>>}

\* A path with a corner: traffic from two sides merges in the router (1, 0).
MeshFlows == {<<"RESP", <<0, 0>>, <<1, 1>>>>, <<"RESP", <<1, 0>>, <<1, 1>>>>}

\* Two payloads, in the flow that turns the corner, show whether it keeps its order.
PairMsgs == [f \in PairFlows |-> {"a"}]
MeshMsgs == [f \in MeshFlows |-> IF f[2] = <<0, 0>> THEN {"a", "b"} ELSE {"a"}]

-----------------------------------------------------------------------------
(***************************************************************************)
(* The flits of a flow, in the order in which they will be delivered: read *)
(* its X-Y path backwards, buffer first, then the wire into it.            *)
(***************************************************************************)
Distance(a, b) == IF a < b THEN b - a ELSE a - b
Toward(a, b, k) == IF a < b THEN a + k ELSE a - k

PathLength(f) == Distance(X(f[2]), X(f[3])) + Distance(Y(f[2]), Y(f[3]))

\* The router k hops after the source of f.
PathNode(f, k) ==
  LET row == Distance(X(f[2]), X(f[3])) IN
  IF k <= row THEN <<Toward(X(f[2]), X(f[3]), k), Y(f[2])>>
  ELSE <<X(f[3]), Toward(Y(f[2]), Y(f[3]), k - row)>>

\* The buffer in which a flit of f waits there.
PathInput(f, k) ==
  IF k = 0 THEN HOME
  ELSE CHOOSE d \in Links : Nbr(PathNode(f, k), d) = PathNode(f, k - 1)

\* The buffers of the path of f, the one at its destination first.
Path == [f \in Flows |-> [i \in 1 .. PathLength(f) + 1 |->
           LET k == PathLength(f) + 1 - i
           IN  [node |-> PathNode(f, k), dir |-> PathInput(f, k)]]]

\* One flit, if it belongs to f.
Own(f, p) == IF p.src = f[2] /\ p.dst = f[3] THEN <<p>> ELSE <<>>

\* Those among the flits of s.
OfFlow(f, s) ==
  LET joined[i \in 0 .. Len(s)] ==
        IF i = 0 THEN <<>> ELSE joined[i - 1] \o Own(f, s[i])
  IN  joined[Len(s)]

\* Those in a buffer and on the wire into it.
Segment(f, b) ==
  OfFlow(f, ingress[b.node][f[1]][b.dir] \o wire[b.node][f[1]][b.dir])

FlowQueue(f) ==
  LET joined[i \in 0 .. Len(Path[f])] ==
        IF i = 0 THEN <<>> ELSE joined[i - 1] \o Segment(f, Path[f][i])
  IN  joined[Len(Path[f])]

Ch == INSTANCE Channels WITH chan <- [f \in Flows |-> FlowQueue(f)]

\* The transport noc_request .. home_enter, buffers and wires included, is a
\* first-in first-out channel per type, source and destination: the queue
\* owners send a packet once and never ask again, so a lost or repeated one
\* would wedge or corrupt the miss queue entry that waits for it.
ImplementsChannels == Ch!Spec

-----------------------------------------------------------------------------
(***************************************************************************)
(* cpu_execute reschedules itself every cycle and the event queue executes *)
(* every scheduled event, so each of these steps is taken again and again  *)
(* while it is possible.  Nothing is assumed of noc_request: the caches    *)
(* may stop or keep sending.                                               *)
(***************************************************************************)
Fairness ==
  /\ \A n \in Nodes : WF_vars(noc_stage(n)) /\ WF_vars(cache2mem(n))
  /\ \A n \in Nodes : \A t \in {f[1] : f \in Flows} :
       /\ WF_vars(update_credit_home(n, t))
       /\ \A d \in Links : /\ WF_vars(flit_arrive(n, t, d))
                           /\ WF_vars(update_credit_link(n, t, d))

FairSpec == Spec /\ Fairness

Waiting(f, d) == ingress[f[2]][f[1]][d] # <<>>
Moves(f, d) == Len(ingress'[f[2]][f[1]][d]) < Len(ingress[f[2]][f[1]][d])

\* The round robin of arbitrate: an input buffer of the router at the source of
\* a flow is not passed over for ever while it holds a flit of that type, even
\* if the other inputs of the router compete for the same egress without a pause.
NoStarvation ==
  \A f \in Flows : \A d \in Dirs :
    <>[](Waiting(f, d)) => []<><<Moves(f, d)>>_vars
=============================================================================
