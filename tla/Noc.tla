-------------------------------- MODULE Noc --------------------------------
(***************************************************************************)
(* The on-chip network of the simulated multi-core: src/noc.c (requests,   *)
(* flit transport, credits, entry into the home queues) and src/noc_rr.c   *)
(* (X-Y routing and round-robin arbitration), driven by cpu_execute of     *)
(* src/simulate.c, which runs noc_stage and then cache2mem/lsq_stage of    *)
(* every cpu once per simulated cycle.                                     *)
(*                                                                         *)
(* The queue owners around a router (src/cache2mem.c, src/lsq.c,           *)
(* src/cache.c) appear as what the router sees of them: how many miss      *)
(* queue and write-back queue entries are taken, and when one is taken,    *)
(* reserved or given back.                                                 *)
(***************************************************************************)
EXTENDS Integers, Sequences, FiniteSets

CONSTANTS
  mesh_width, mesh_height,  \* columns and rows of the mesh
  router_ifq_size,          \* flits an input buffer holds
  missq_ifq_size,           \* entries of a cpu's miss queue
  wtbkq_ifq_size,           \* entries of a cpu's write-back queue
  Flows,                    \* <<type, source, destination>> the cpus use
  Msgs,                     \* payloads of each (request, qid, paddr, inst, cache_status)
  Missing                   \* cpus whose own accesses miss or replace

(***************************************************************************)
(* A cpu and its router are named by their mesh coordinates <<x, y>>.      *)
(***************************************************************************)
Nodes == (0 .. mesh_width - 1) \X (0 .. mesh_height - 1)

X(n) == n[1]
Y(n) == n[2]
cpuid(n) == X(n) + Y(n) * mesh_width

HOME == 0
UP == 1
DOWN == 2
LEFT == 3
RIGHT == 4
Dirs == 0 .. 4
Links == Dirs \ {HOME}
NOUGHT == 6   \* egress_last_grant before the first grant
NULL == -1    \* egress_grant of an egress that sends nothing

Types == {"REQ", "INVN", "WTBK", "RESP"}

ASSUME MeshAssumption ==
  /\ mesh_width \in Nat \ {0}
  /\ mesh_height \in Nat \ {0}

ASSUME SizeAssumption ==
  /\ router_ifq_size \in Nat \ {0}
  /\ missq_ifq_size \in Nat \ {0}
  /\ wtbkq_ifq_size \in Nat \ {0}

\* A cpu talks to itself through its own queues, never through the network.
ASSUME FlowAssumption ==
  /\ Flows \subseteq Types \X Nodes \X Nodes
  /\ \A f \in Flows : f[2] # f[3]
  /\ Missing \subseteq Nodes

Packets == [src : Nodes, dst : Nodes, msg : UNION {Msgs[f] : f \in Flows}]

Opposite(d) == CASE d = UP -> DOWN
                 [] d = DOWN -> UP
                 [] d = LEFT -> RIGHT
                 [] d = RIGHT -> LEFT

\* The router a link leads to; off the mesh at a border.
Nbr(n, d) == CASE d = UP -> <<X(n), Y(n) - 1>>
               [] d = DOWN -> <<X(n), Y(n) + 1>>
               [] d = LEFT -> <<X(n) - 1, Y(n)>>
               [] d = RIGHT -> <<X(n) + 1, Y(n)>>

VARIABLES
  ingress,     \* ingress[n][t][d]: flits in an input buffer, oldest first
  credit,      \* egress_credit[n][t][d]
  grant,       \* egress_grant[n][t][d]: the input buffer it was granted to
  last_grant,  \* egress_last_grant[n][t][d]
  wire,        \* wire[n][t][d]: scheduled flit_arrive events into that buffer
  credit_ev,   \* credit_ev[n][t][d]: scheduled update_credit events
  missq_num, wtbkq_num,
  done,        \* cpus whose cpu_execute has run in this cycle
  executing    \* the cpu between its noc_stage and its cache2mem, as a set

vars == <<ingress, credit, grant, last_grant, wire, credit_ev,
          missq_num, wtbkq_num, done, executing>>

flitVars == <<ingress, wire>>
homeVars == <<missq_num, wtbkq_num>>
grantVars == <<grant, last_grant>>
turnVars == <<done, executing>>

-----------------------------------------------------------------------------
(***************************************************************************)
(* noc_init, cache2mem_init and the first cpu_execute events.              *)
(***************************************************************************)
InitialCredit(t, d) ==
  CASE d # HOME -> router_ifq_size
    [] d = HOME /\ t \in {"REQ", "INVN"} -> missq_ifq_size
    [] d = HOME /\ t = "WTBK" -> wtbkq_ifq_size
    [] d = HOME /\ t = "RESP" -> 1

PortMap(v) == [n \in Nodes |-> [t \in Types |-> [d \in Dirs |-> v]]]

Init ==
  /\ ingress = PortMap(<<>>)
  /\ credit = [n \in Nodes |-> [t \in Types |->
                 [d \in Dirs |-> InitialCredit(t, d)]]]
  /\ grant = PortMap(NULL)
  /\ last_grant = PortMap(NOUGHT)
  /\ wire = PortMap(<<>>)
  /\ credit_ev = PortMap(0)
  /\ missq_num = [n \in Nodes |-> 0]
  /\ wtbkq_num = [n \in Nodes |-> 0]
  /\ done = {}
  /\ executing = {}

-----------------------------------------------------------------------------
(***************************************************************************)
(* flit_traverse: every egress sends the flit it was granted.              *)
(***************************************************************************)

\* The border test flit_traverse makes before it sends in a direction.
EdgeOpen(n, d) ==
  CASE d = HOME -> TRUE
    [] d = UP -> Y(n) > 0
    [] d = DOWN -> Y(n) < mesh_height
    [] d = LEFT -> X(n) > 0
    [] d = RIGHT -> X(n) < mesh_width

Leaves(n, t, d) == grant[n][t][d] # NULL /\ EdgeOpen(n, d)

Flit(n, t, d) == Head(ingress[n][t][grant[n][t][d]])

\* packet_depart empties the slot of input buffer i of channel t.
Departs(n, t, i) == \E d \in Dirs : Leaves(n, t, d) /\ grant[n][t][d] = i

\* Variant: a flit that enters its home returns no credit.
ReturnsCredit_NotHome(n, t, i) ==
  \E d \in Links \ {i} : Leaves(n, t, d) /\ grant[n][t][d] = i

\* The SEND_CREDIT switch of each egress omits the egress' own direction.
ReturnsCredit(n, t, i) ==
  \E d \in Dirs \ {i} : Leaves(n, t, d) /\ grant[n][t][d] = i

One(b) == IF b THEN 1 ELSE 0

\* home_enter: REQ and INVN packets take a miss queue entry, WTBK packets a
\* write-back queue entry; a RESP is consumed by the entry that waits for it.
MissqEntered(n) == One(Leaves(n, "REQ", HOME)) + One(Leaves(n, "INVN", HOME))
WtbkqEntered(n) == One(Leaves(n, "WTBK", HOME))

\* Variant: a request charges its own credit, not the shared miss queue's.
CreditSpent_OwnType(n, t, d) ==
  IF t = "RESP" /\ d = HOME THEN 0 ELSE One(Leaves(n, t, d))

\* Credits egress d of channel t spends when the granted flits leave.
CreditSpent(n, t, d) ==
  IF d # HOME THEN One(Leaves(n, t, d))
  ELSE CASE t \in {"REQ", "INVN"} -> MissqEntered(n)
         [] t = "WTBK" -> WtbkqEntered(n)
         [] t = "RESP" -> 0

flit_traverse(n) ==
  /\ ingress' = [ingress EXCEPT ![n] = [t \in Types |-> [i \in Dirs |->
       IF Departs(n, t, i) THEN Tail(@[t][i]) ELSE @[t][i]]]]
  /\ credit' = [credit EXCEPT ![n] = [t \in Types |-> [d \in Dirs |->
       @[t][d] - CreditSpent(n, t, d)]]]
  /\ wire' = [m \in Nodes |-> [t \in Types |-> [i \in Dirs |->
       IF i # HOME /\ Nbr(m, i) = n /\ Leaves(n, t, Opposite(i))
       THEN Append(wire[m][t][i], Flit(n, t, Opposite(i)))
       ELSE wire[m][t][i]]]]
  /\ credit_ev' = [m \in Nodes |-> [t \in Types |-> [d \in Dirs |->
       IF d # HOME /\ Nbr(m, d) = n /\ ReturnsCredit(n, t, Opposite(d))
       THEN credit_ev[m][t][d] + 1
       ELSE credit_ev[m][t][d]]]]
  /\ missq_num' = [missq_num EXCEPT ![n] = @ + MissqEntered(n)]
  /\ wtbkq_num' = [wtbkq_num EXCEPT ![n] = @ + WtbkqEntered(n)]

-----------------------------------------------------------------------------
(***************************************************************************)
(* arbitrate: X-Y routing, credit test, round robin among the inputs.      *)
(***************************************************************************)

\* Variant: along the row or the column, whichever is farther.
Route_FartherFirst(n, m) ==
  LET dx == X(m) - X(n)  dy == Y(m) - Y(n) IN
  IF m = n THEN HOME
  ELSE IF dx * dx > dy * dy THEN IF dx < 0 THEN LEFT ELSE RIGHT
  ELSE IF dy < 0 THEN UP ELSE DOWN

\* First along the row, then along the column.
Route(n, m) == CASE m = n -> HOME
                 [] X(m) < X(n) -> LEFT
                 [] X(m) > X(n) -> RIGHT
                 [] X(m) = X(n) /\ Y(m) < Y(n) -> UP
                 [] X(m) = X(n) /\ Y(m) > Y(n) -> DOWN

\* Input buffers of in whose oldest flit leaves n through d.
Requests(n, in, d) ==
  {i \in Dirs : in[i] # <<>> /\ Route(n, Head(in[i]).dst) = d}

\* Variant: a request may take the last miss queue entry.
CreditOpen_LastEntry(t, d, cr) == (d = HOME /\ t = "RESP") \/ cr > 0

\* Variant: the egress is granted without a credit.
CreditOpen_OffByOne(t, d, cr) ==
  IF d = HOME THEN t = "RESP" \/ cr > One(t = "REQ") ELSE cr >= 0

\* A remote request needs two free miss queue entries, so that the last one
\* stays free for an intervention; a response needs none.
CreditOpen(t, d, cr) ==
  IF d = HOME THEN t = "RESP" \/ cr > One(t = "REQ") ELSE cr > 0

\* Variant: fixed priority, the grant is not remembered.
RoundRobin_Fixed(last, reqs) ==
  CHOOSE i \in reqs : \A k \in reqs : i <= k

\* The first requesting input after the one granted last.
RoundRobin(last, reqs) ==
  LET Input(i) == (last + i) % 5
      i == CHOOSE i \in 1 .. 5 : /\ Input(i) \in reqs
                                 /\ \A k \in 1 .. i - 1 : Input(k) \notin reqs
  IN  Input(i)

\* The input egress d of channel t is granted to, given the buffers and the
\* credits of that channel.
Winner(n, t, d, in, cr) ==
  IF CreditOpen(t, d, cr[d]) /\ Requests(n, in, d) # {}
  THEN RoundRobin(last_grant[n][t][d], Requests(n, in, d))
  ELSE NULL

\* Variant: the credits are read before flit_traverse has spent any.
arbitrate_Stale(n) ==
  LET won(t, d) == Winner(n, t, d, ingress'[n][t], credit[n][t])
  IN  /\ grant' = [grant EXCEPT ![n] =
                     [t \in Types |-> [d \in Dirs |-> won(t, d)]]]
      /\ last_grant' = [last_grant EXCEPT ![n] = [t \in Types |->
           [d \in Dirs |-> IF won(t, d) = NULL THEN @[t][d] ELSE won(t, d)]]]

\* Variant: an idle egress forgets which input it granted last.
arbitrate_Forgets(n) ==
  LET won(t, d) == Winner(n, t, d, ingress'[n][t], credit'[n][t])
  IN  /\ grant' = [grant EXCEPT ![n] =
                     [t \in Types |-> [d \in Dirs |-> won(t, d)]]]
      /\ last_grant' = [last_grant EXCEPT ![n] = grant'[n]]

arbitrate(n) ==
  LET won(t, d) == Winner(n, t, d, ingress'[n][t], credit'[n][t])
  IN  /\ grant' = [grant EXCEPT ![n] =
                     [t \in Types |-> [d \in Dirs |-> won(t, d)]]]
      /\ last_grant' = [last_grant EXCEPT ![n] = [t \in Types |->
           [d \in Dirs |-> IF won(t, d) = NULL THEN @[t][d] ELSE won(t, d)]]]

-----------------------------------------------------------------------------
(***************************************************************************)
(* One simulated cycle: the events scheduled for it, then cpu_execute of   *)
(* each cpu in the order of their numbers (src/eventq.c keeps ordinary     *)
(* events of a time ahead of the cpu_execute events of that time).         *)
(***************************************************************************)

NoHomeEvents == \A n \in Nodes, t \in Types : credit_ev[n][t][HOME] = 0

NoLinkEvents == \A n \in Nodes, t \in Types, d \in Links :
                  wire[n][t][d] = <<>> /\ credit_ev[n][t][d] = 0

CycleStart == done = {} /\ executing = {}

IsNext(n) == /\ n \in Nodes \ done
             /\ \A m \in Nodes \ done : cpuid(n) <= cpuid(m)

\* noc_stage: send what was granted in the last cycle, then grant anew.
noc_stage(n) ==
  /\ executing = {}
  /\ IsNext(n)
  /\ NoHomeEvents
  /\ done = {} => NoLinkEvents
  /\ flit_traverse(n)
  /\ arbitrate(n)
  /\ executing' = {n}
  /\ UNCHANGED done

\* Variant: an arriving flit is put at the head of the buffer.
flit_arrive_AtHead(n, t, d) ==
  /\ CycleStart
  /\ wire[n][t][d] # <<>>
  /\ ingress' = [ingress EXCEPT ![n][t][d] = <<Head(wire[n][t][d])>> \o @]
  /\ wire' = [wire EXCEPT ![n][t][d] = Tail(@)]
  /\ UNCHANGED <<credit, credit_ev, grantVars, homeVars, turnVars>>

flit_arrive(n, t, d) ==
  /\ CycleStart
  /\ wire[n][t][d] # <<>>
  /\ ingress' = [ingress EXCEPT ![n][t][d] = Append(@, Head(wire[n][t][d]))]
  /\ wire' = [wire EXCEPT ![n][t][d] = Tail(@)]
  /\ UNCHANGED <<credit, credit_ev, grantVars, homeVars, turnVars>>

\* REQ and INVN share the miss queue: an event for either raises both.
update_credit_home(n, t) ==
  /\ executing = {}
  /\ credit_ev[n][t][HOME] > 0
  /\ credit_ev' = [credit_ev EXCEPT ![n][t][HOME] = @ - 1]
  /\ credit' = IF t \in {"REQ", "INVN"}
               THEN [credit EXCEPT ![n]["REQ"][HOME] = @ + 1,
                                   ![n]["INVN"][HOME] = @ + 1]
               ELSE [credit EXCEPT ![n][t][HOME] = @ + 1]
  /\ UNCHANGED <<flitVars, grantVars, homeVars, turnVars>>

update_credit_link(n, t, d) ==
  /\ CycleStart
  /\ credit_ev[n][t][d] > 0
  /\ credit_ev' = [credit_ev EXCEPT ![n][t][d] = @ - 1]
  /\ credit' = [credit EXCEPT ![n][t][d] = @ + 1]
  /\ UNCHANGED <<flitVars, grantVars, homeVars, turnVars>>

-----------------------------------------------------------------------------
(***************************************************************************)
(* cache2mem and lsq_stage of the cpu whose noc_stage has just run.        *)
(***************************************************************************)

\* noc_request: refused, without effect, when the HOME buffer is full.
noc_request(f, v) ==
  LET t == f[1]  n == f[2] IN
  /\ executing = {n}
  /\ Len(ingress[n][t][HOME]) < router_ifq_size
  /\ ingress' = [ingress EXCEPT ![n][t][HOME] =
                   Append(@, [src |-> n, dst |-> f[3], msg |-> v])]
  /\ UNCHANGED <<wire, credit, credit_ev, grantVars, homeVars, turnVars>>

\* The rest of cache2mem and lsq_stage: a local miss may take a miss queue
\* entry, entries are freed, a replacement may reserve a write-back entry
\* (both tests read the counts the stage starts with), write-back entries
\* retire.  Every freed entry schedules an update_credit for this cycle; the
\* code names some of those events INVN, which update_credit treats as REQ.
cache2mem(n) ==
  /\ executing = {n}
  /\ \E miss, reserve \in 0 .. 1,
        freed \in 0 .. missq_num[n], retired \in 0 .. wtbkq_num[n] :
       /\ n \notin Missing => miss = 0 /\ reserve = 0
       /\ miss = 1 => missq_num[n] < missq_ifq_size - 2
       /\ reserve = 1 => wtbkq_num[n] < wtbkq_ifq_size - 1
       /\ missq_num' = [missq_num EXCEPT ![n] = @ + miss - freed]
       /\ wtbkq_num' = [wtbkq_num EXCEPT ![n] = @ + reserve - retired]
       /\ credit' = [credit EXCEPT ![n]["REQ"][HOME] = @ - miss,
                                   ![n]["INVN"][HOME] = @ - miss,
                                   ![n]["WTBK"][HOME] = @ - reserve]
       /\ credit_ev' = [credit_ev EXCEPT ![n]["REQ"][HOME] = @ + freed,
                                         ![n]["WTBK"][HOME] = @ + retired]
  /\ executing' = {}
  /\ done' = IF done \cup {n} = Nodes THEN {} ELSE done \cup {n}
  /\ UNCHANGED <<flitVars, grantVars>>

Next ==
  \/ \E n \in Nodes : noc_stage(n) \/ cache2mem(n)
  \/ \E f \in Flows : \E v \in Msgs[f] : noc_request(f, v)
  \/ \E n \in Nodes, t \in Types :
       \/ update_credit_home(n, t)
       \/ \E d \in Links : flit_arrive(n, t, d) \/ update_credit_link(n, t, d)

Spec == Init /\ [][Next]_vars

-----------------------------------------------------------------------------
(***************************************************************************)
(* Properties                                                              *)
(***************************************************************************)

\* The type invariant.
TypeOK ==
  /\ ingress \in [Nodes -> [Types -> [Dirs -> Seq(Packets)]]]
  /\ wire \in [Nodes -> [Types -> [Dirs -> Seq(Packets)]]]
  /\ credit \in [Nodes -> [Types -> [Dirs -> Int]]]
  /\ credit_ev \in [Nodes -> [Types -> [Dirs -> Nat]]]
  /\ grant \in [Nodes -> [Types -> [Dirs -> Dirs \cup {NULL}]]]
  /\ last_grant \in [Nodes -> [Types -> [Dirs -> Dirs \cup {NOUGHT}]]]
  /\ missq_num \in [Nodes -> Nat]
  /\ wtbkq_num \in [Nodes -> Nat]
  /\ done \in SUBSET Nodes
  /\ executing \in SUBSET Nodes

\* A pointer kept in egress_grant from one cycle to the next still denotes the
\* oldest flit of its buffer when flit_traverse uses it, that flit is bound for
\* that egress (so no flit is sent twice), and the next router has room for it.
GrantSound ==
  \A n \in Nodes, t \in Types, d \in Dirs : grant[n][t][d] # NULL =>
    /\ ingress[n][t][grant[n][t][d]] # <<>>
    /\ Route(n, Flit(n, t, d).dst) = d
    /\ d # HOME => credit[n][t][d] > 0

\* X-Y routing: a flit that entered by input i never has to go back through it.
Ahead(n, i, m) == CASE i = HOME -> TRUE
                    [] i = LEFT -> X(m) >= X(n)
                    [] i = RIGHT -> X(m) <= X(n)
                    [] i = UP -> X(m) = X(n) /\ Y(m) >= Y(n)
                    [] i = DOWN -> X(m) = X(n) /\ Y(m) <= Y(n)

\* No flit turns back, in a buffer or on a wire: the SEND_CREDIT switches of
\* flit_traverse leave out that case and would lose a credit in it.
NoUTurn ==
  \A n \in Nodes, t \in Types, i \in Dirs :
    /\ \A k \in 1 .. Len(ingress[n][t][i]) : Ahead(n, i, ingress[n][t][i][k].dst)
    /\ \A k \in 1 .. Len(wire[n][t][i]) : Ahead(n, i, wire[n][t][i][k].dst)

\* Flow control of a link: its credits, the credits coming back, the flits on
\* the wire and those in the buffer beyond always add up to that buffer's size.
LinkCredit ==
  \A n \in Nodes, t \in Types, d \in Links : Nbr(n, d) \in Nodes =>
    credit[n][t][d] + credit_ev[n][t][d]
      + Len(wire[Nbr(n, d)][t][Opposite(d)])
      + Len(ingress[Nbr(n, d)][t][Opposite(d)]) = router_ifq_size

\* Flow control of a home: its credits are the entries of its queues that are
\* neither taken nor being handed back.
HomeCredit ==
  \A n \in Nodes :
    /\ \A t \in {"REQ", "INVN"} :
         credit[n][t][HOME] + credit_ev[n]["REQ"][HOME] + missq_num[n]
           = missq_ifq_size
    /\ credit[n]["WTBK"][HOME] + credit_ev[n]["WTBK"][HOME] + wtbkq_num[n]
         = wtbkq_ifq_size

\* The assertions of home_enter: the credit was tested one cycle before the
\* packet enters its home, and the cpu's own misses and replacements took
\* entries meanwhile, yet there is still room for everything granted.
HomeHasRoom ==
  \A n \in Nodes :
    /\ grant[n]["REQ"][HOME] # NULL => missq_num[n] < missq_ifq_size - 1
    /\ grant[n]["INVN"][HOME] # NULL => missq_num[n] < missq_ifq_size
    /\ grant[n]["WTBK"][HOME] # NULL => wtbkq_num[n] < wtbkq_ifq_size

\* The assertions of noc_request, flit_arrive, packet_depart and update_credit:
\* no buffer overflows, no credit goes below zero or above its initial value.
NoOverflow ==
  \A n \in Nodes, t \in Types, d \in Dirs :
    /\ Len(ingress[n][t][d]) <= router_ifq_size
    /\ credit[n][t][d] \in 0 .. InitialCredit(t, d)

\* The last free miss queue entry is only ever taken by an intervention, so a
\* home whose queue is full of requests can still be asked to give up a block.
LastEntryForIntervention ==
  [][\A n \in Nodes :
       missq_num'[n] = missq_ifq_size /\ missq_num[n] < missq_ifq_size
         => Leaves(n, "INVN", HOME)]_vars
=============================================================================
