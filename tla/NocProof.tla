------------------------------ MODULE NocProof ------------------------------
(***************************************************************************)
(* The network is safe for every mesh, every buffer size and every         *)
(* traffic, and implements its channels: proofs about Noc and MCNoc's      *)
(* refinement.  For the refinement a flow is read station by station along *)
(* its X-Y path; a hop takes a flit from the head of one station and puts  *)
(* it at the end of the next, which changes nothing in the sequence that   *)
(* the stations form together.                                             *)
(***************************************************************************)
EXTENDS MCNoc, SequenceTheorems, SequencesExt, WellFoundedInduction, TLAPS

USE DEF HOME, UP, DOWN, LEFT, RIGHT, NOUGHT, NULL

-----------------------------------------------------------------------------
(***************************************************************************)
(* Geometry of the mesh.                                                   *)
(***************************************************************************)

\* A link leads to a neighbour whose opposite link leads back.
LEMMA NbrBack ==
  ASSUME NEW n \in Nodes, NEW d \in Links
  PROVE  /\ Opposite(d) \in Links
         /\ Opposite(Opposite(d)) = d
         /\ Nbr(Nbr(n, d), Opposite(d)) = n
         /\ Nbr(n, d) # n
<1>1. d \in {UP, DOWN, LEFT, RIGHT}
  BY DEF Links, Dirs
<1>2. n = <<n[1], n[2]>> /\ n[1] \in Int /\ n[2] \in Int
  BY MeshAssumption DEF Nodes
<1>3. CASE d = UP      BY <1>2, <1>3 DEF Opposite, Nbr, X, Y, Links, Dirs
<1>4. CASE d = DOWN    BY <1>2, <1>4 DEF Opposite, Nbr, X, Y, Links, Dirs
<1>5. CASE d = LEFT    BY <1>2, <1>5 DEF Opposite, Nbr, X, Y, Links, Dirs
<1>6. CASE d = RIGHT   BY <1>2, <1>6 DEF Opposite, Nbr, X, Y, Links, Dirs
<1>7. QED  BY <1>1, <1>3, <1>4, <1>5, <1>6

\* Every destination has a direction.
LEMMA RouteType ==
  ASSUME NEW n \in Nodes, NEW m \in Nodes
  PROVE  Route(n, m) \in Dirs
<1>1. /\ n = <<n[1], n[2]>> /\ n[1] \in Int /\ n[2] \in Int
      /\ m = <<m[1], m[2]>> /\ m[1] \in Int /\ m[2] \in Int
  BY MeshAssumption DEF Nodes
<1>2. QED  BY <1>1 DEF Route, Dirs, X, Y

\* The way a flit takes next does not lead back to where it came from, and the
\* router it leads to sees it come in ahead of it.
LEMMA RouteAhead ==
  ASSUME NEW n \in Nodes, NEW m \in Nodes, NEW i \in Links
  PROVE  /\ Ahead(n, i, m) => Route(n, m) # i
         /\ Route(n, m) = i => Ahead(Nbr(n, i), Opposite(i), m)
<1>1. /\ n = <<n[1], n[2]>> /\ n[1] \in Int /\ n[2] \in Int
      /\ m = <<m[1], m[2]>> /\ m[1] \in Int /\ m[2] \in Int
  BY MeshAssumption DEF Nodes
<1>2. i \in {UP, DOWN, LEFT, RIGHT}
  BY DEF Links, Dirs
<1>3. CASE i = UP      BY <1>1, <1>3 DEF Ahead, Route, Opposite, Nbr, X, Y
<1>4. CASE i = DOWN    BY <1>1, <1>4 DEF Ahead, Route, Opposite, Nbr, X, Y
<1>5. CASE i = LEFT    BY <1>1, <1>5 DEF Ahead, Route, Opposite, Nbr, X, Y
<1>6. CASE i = RIGHT   BY <1>1, <1>6 DEF Ahead, Route, Opposite, Nbr, X, Y
<1>7. QED  BY <1>2, <1>3, <1>4, <1>5, <1>6

-----------------------------------------------------------------------------
(***************************************************************************)
(* Arbitration grants an egress to one of the inputs that ask for it.      *)
(***************************************************************************)
LEMMA RoundRobinWinner ==
  ASSUME NEW last \in Dirs \cup {NOUGHT}, NEW reqs \in SUBSET Dirs, reqs # {}
  PROVE  RoundRobin(last, reqs) \in reqs
<1> DEFINE Input(i) == (last + i) % 5
           First(i) == Input(i) \in reqs /\ \A k \in 1 .. i - 1 : Input(k) \notin reqs
<1>1. \E i \in 1 .. 5 : Input(i) \in reqs
  <2>1. PICK j \in reqs : j \in 0 .. 4
    BY DEF Dirs
  <2>2. last \in 0 .. 6
    BY DEF Dirs
  <2>3. \E i \in 1 .. 5 : (last + i) % 5 = j
    BY <2>1, <2>2
  <2>4. QED  BY <2>1, <2>3
<1>2. \E i \in 1 .. 5 : First(i)
  <2>1. CASE Input(1) \in reqs
    BY <2>1
  <2>2. CASE Input(1) \notin reqs /\ Input(2) \in reqs
    <3>1. First(2)  BY <2>2
    <3>2. QED  BY <3>1
  <2>3. CASE Input(1) \notin reqs /\ Input(2) \notin reqs /\ Input(3) \in reqs
    <3>1. First(3)  BY <2>3
    <3>2. QED  BY <3>1
  <2>4. CASE /\ Input(1) \notin reqs /\ Input(2) \notin reqs /\ Input(3) \notin reqs
             /\ Input(4) \in reqs
    <3>1. First(4)  BY <2>4
    <3>2. QED  BY <3>1
  <2>5. CASE /\ Input(1) \notin reqs /\ Input(2) \notin reqs /\ Input(3) \notin reqs
             /\ Input(4) \notin reqs
    <3>1. PICK i \in 1 .. 5 : Input(i) \in reqs  BY <1>1
    <3>2. i = 5  BY <3>1, <2>5
    <3>3. First(5)  BY <3>1, <3>2, <2>5
    <3>4. QED  BY <3>3
  <2>6. QED  BY <2>1, <2>2, <2>3, <2>4, <2>5
<1>3. First(CHOOSE i \in 1 .. 5 : First(i))
  BY <1>2
<1>4. QED  BY <1>3 DEF RoundRobin

\* A flit's next hop stays on the mesh.
LEMMA RouteInside ==
  ASSUME NEW n \in Nodes, NEW m \in Nodes, NEW d \in Links, Route(n, m) = d
  PROVE  /\ Nbr(n, d) \in Nodes
         /\ EdgeOpen(n, d)
<1>1. /\ n = <<n[1], n[2]>> /\ n[1] \in 0 .. mesh_width - 1 /\ n[2] \in 0 .. mesh_height - 1
      /\ m = <<m[1], m[2]>> /\ m[1] \in 0 .. mesh_width - 1 /\ m[2] \in 0 .. mesh_height - 1
      /\ mesh_width \in Nat /\ mesh_height \in Nat
  BY MeshAssumption DEF Nodes
<1>2. d \in {UP, DOWN, LEFT, RIGHT}
  BY DEF Links, Dirs
<1>3. CASE d = UP      BY <1>1, <1>3 DEF Route, Nbr, EdgeOpen, X, Y, Nodes
<1>4. CASE d = DOWN    BY <1>1, <1>4 DEF Route, Nbr, EdgeOpen, X, Y, Nodes
<1>5. CASE d = LEFT    BY <1>1, <1>5 DEF Route, Nbr, EdgeOpen, X, Y, Nodes
<1>6. CASE d = RIGHT   BY <1>1, <1>6 DEF Route, Nbr, EdgeOpen, X, Y, Nodes
<1>7. QED  BY <1>2, <1>3, <1>4, <1>5, <1>6

\* A winner asked for its egress, and the egress had a credit.
LEMMA WinnerSound ==
  ASSUME NEW n \in Nodes, NEW t \in Types, NEW d \in Dirs,
         NEW in \in [Dirs -> Seq(Packets)], NEW cr \in [Dirs -> Int],
         last_grant[n][t][d] \in Dirs \cup {NOUGHT}
  PROVE  LET w == Winner(n, t, d, in, cr) IN
         /\ w \in Dirs \cup {NULL}
         /\ w # NULL => /\ in[w] # <<>>
                        /\ Route(n, Head(in[w]).dst) = d
                        /\ CreditOpen(t, d, cr[d])
<1> DEFINE reqs == Requests(n, in, d)
<1>1. reqs \in SUBSET Dirs
  BY DEF Requests
<1>2. CASE CreditOpen(t, d, cr[d]) /\ reqs # {}
  <2>1. RoundRobin(last_grant[n][t][d], reqs) \in reqs
    BY <1>1, <1>2, RoundRobinWinner
  <2>2. QED  BY <1>2, <2>1 DEF Winner, Requests
<1>3. CASE ~(CreditOpen(t, d, cr[d]) /\ reqs # {})
  BY <1>3 DEF Winner
<1>4. QED  BY <1>2, <1>3

-----------------------------------------------------------------------------
(***************************************************************************)
(* The inductive invariant.                                                *)
(***************************************************************************)

\* Nothing ever crosses the border of the mesh.
BorderIdle ==
  \A n \in Nodes, t \in Types, d \in Links : Nbr(n, d) \notin Nodes =>
    /\ credit[n][t][d] = router_ifq_size
    /\ credit_ev[n][t][d] = 0
    /\ ingress[n][t][d] = <<>>
    /\ wire[n][t][d] = <<>>

\* Freed entries are announced on the REQ channel (miss queue) and the WTBK
\* channel (write-back queue), and all announcements of a cpu are gone before
\* it starts to free entries again.
HomeEvents ==
  \A n \in Nodes, t \in Types :
    /\ t \in {"INVN", "RESP"} \/ n \in executing => credit_ev[n][t][HOME] = 0
    /\ credit[n]["RESP"][HOME] = 1

\* Buffers filled by noc_request, and home credits, stay in their range.
HomeBounds ==
  \A n \in Nodes :
    /\ \A t \in Types : Len(ingress[n][t][HOME]) <= router_ifq_size
    /\ \A t \in Types, d \in Dirs : credit[n][t][d] >= 0

IInv == /\ TypeOK
        /\ GrantSound
        /\ NoUTurn
        /\ LinkCredit
        /\ BorderIdle
        /\ HomeCredit
        /\ HomeEvents
        /\ HomeHasRoom
        /\ HomeBounds

-----------------------------------------------------------------------------
\* Every buffer has an initial credit.
LEMMA InitialCredits ==
  ASSUME NEW t \in Types
  PROVE  /\ \A d \in Links : InitialCredit(t, d) = router_ifq_size
         /\ t \in {"REQ", "INVN"} => InitialCredit(t, HOME) = missq_ifq_size
         /\ t = "WTBK" => InitialCredit(t, HOME) = wtbkq_ifq_size
         /\ t = "RESP" => InitialCredit(t, HOME) = 1
BY DEF InitialCredit, Links, Dirs

\* The initial states satisfy the invariant.
LEMMA InitIInv == Init => IInv
<1> SUFFICES ASSUME Init PROVE IInv
  OBVIOUS
<1> USE DEF Init
<1>1. \A n \in Nodes, t \in Types, d \in Dirs :
        /\ ingress[n][t][d] = <<>> /\ wire[n][t][d] = <<>>
        /\ grant[n][t][d] = NULL /\ credit_ev[n][t][d] = 0
        /\ credit[n][t][d] = InitialCredit(t, d)
  BY DEF PortMap
<1>2. \A t \in Types, d \in Dirs : InitialCredit(t, d) \in Nat
  <2> TAKE t \in Types, d \in Dirs
  <2>1. CASE d \in Links  BY <2>1, SizeAssumption, InitialCredits
  <2>2. CASE d = HOME     BY <2>2, SizeAssumption, InitialCredits DEF Types
  <2>3. QED  BY <2>1, <2>2 DEF Dirs, Links
<1>3. TypeOK
  <2>1. <<>> \in Seq(Packets)
    OBVIOUS
  <2>2. ingress \in [Nodes -> [Types -> [Dirs -> Seq(Packets)]]]
    BY <2>1 DEF PortMap
  <2>3. wire \in [Nodes -> [Types -> [Dirs -> Seq(Packets)]]]
    BY <2>1 DEF PortMap
  <2>4. credit \in [Nodes -> [Types -> [Dirs -> Int]]]
    BY <1>2
  <2>5. QED  BY <2>2, <2>3, <2>4 DEF TypeOK, PortMap
<1>4. GrantSound  BY <1>1 DEF GrantSound
<1>5. NoUTurn     BY <1>1 DEF NoUTurn
<1>6. LinkCredit
  <2> SUFFICES ASSUME NEW n \in Nodes, NEW t \in Types, NEW d \in Links,
                      Nbr(n, d) \in Nodes
               PROVE  credit[n][t][d] + credit_ev[n][t][d]
                        + Len(wire[Nbr(n, d)][t][Opposite(d)])
                        + Len(ingress[Nbr(n, d)][t][Opposite(d)])
                          = router_ifq_size
    BY DEF LinkCredit
  <2>1. Opposite(d) \in Dirs /\ d \in Dirs
    BY NbrBack DEF Links
  <2>2. credit[n][t][d] = router_ifq_size
    BY <1>1, <2>1, InitialCredits
  <2>3. QED  BY <1>1, <2>1, <2>2, SizeAssumption
<1>7. BorderIdle
  BY <1>1, InitialCredits DEF BorderIdle, Dirs, Links
<1>8. HomeCredit
  <2>1. \A n \in Nodes : missq_num[n] = 0 /\ wtbkq_num[n] = 0
    OBVIOUS
  <2>2. \A n \in Nodes, t \in {"REQ", "INVN"} : credit[n][t][HOME] = missq_ifq_size
    BY <1>1, InitialCredits DEF Types, Dirs
  <2>3. \A n \in Nodes : credit[n]["WTBK"][HOME] = wtbkq_ifq_size
    BY <1>1, InitialCredits DEF Types, Dirs
  <2>4. \A n \in Nodes, t \in Types : credit_ev[n][t][HOME] = 0
    BY <1>1 DEF Dirs
  <2>5. QED  BY <2>1, <2>2, <2>3, <2>4, SizeAssumption DEF HomeCredit, Types
<1>9. HomeEvents
  BY <1>1, InitialCredits DEF HomeEvents, Types, Dirs
<1>10. HomeHasRoom
  BY <1>1 DEF HomeHasRoom, Types, Dirs
<1>11. HomeBounds
  BY <1>1, <1>2, SizeAssumption DEF HomeBounds, Dirs
<1>12. QED
  BY <1>3, <1>4, <1>5, <1>6, <1>7, <1>8, <1>9, <1>10, <1>11 DEF IInv

-----------------------------------------------------------------------------
(***************************************************************************)
(* Every action preserves the invariant.                                   *)
(***************************************************************************)

\* What an assignment to one port changes.
LEMMA PortUpdate ==
  ASSUME NEW S, NEW f \in [Nodes -> [Types -> [Dirs -> S]]],
         NEW n \in Nodes, NEW t \in Types, NEW d \in Dirs, NEW v \in S
  PROVE  \A m \in Nodes, u \in Types, i \in Dirs :
           [f EXCEPT ![n][t][d] = v][m][u][i]
             = IF m = n /\ u = t /\ i = d THEN v ELSE f[m][u][i]
<1>1. [f EXCEPT ![n][t][d] = v]
        = [f EXCEPT ![n] = [f[n] EXCEPT ![t] = [f[n][t] EXCEPT ![d] = v]]]
  OBVIOUS
<1>2. QED  BY <1>1

LEMMA PortUpdateType ==
  ASSUME NEW S, NEW f \in [Nodes -> [Types -> [Dirs -> S]]],
         NEW n \in Nodes, NEW t \in Types, NEW d \in Dirs, NEW v \in S
  PROVE  [f EXCEPT ![n][t][d] = v] \in [Nodes -> [Types -> [Dirs -> S]]]
OBVIOUS

\* A buffer keeps its oldest flit when others are appended.
LEMMA AppendKeeps ==
  ASSUME NEW s \in Seq(Packets), NEW e \in Packets
  PROVE  /\ Append(s, e) \in Seq(Packets) /\ Append(s, e) # <<>>
         /\ Len(Append(s, e)) = Len(s) + 1
         /\ s # <<>> => Head(Append(s, e)) = Head(s)
         /\ \A k \in 1 .. Len(Append(s, e)) :
              Append(s, e)[k] = IF k \in 1 .. Len(s) THEN s[k] ELSE e
BY AppendProperties

\* No flit enters or leaves a link or the buffer behind it.
SameLoad ==
  \A m \in Nodes, u \in Types, i \in Dirs :
    Len(wire'[m][u][i]) + Len(ingress'[m][u][i])
      = Len(wire[m][u][i]) + Len(ingress[m][u][i])

\* The sizes the flow control of a port adds up.
LEMMA PortType ==
  ASSUME TypeOK, NEW n \in Nodes, NEW t \in Types, NEW d \in Dirs
  PROVE  /\ ingress[n][t][d] \in Seq(Packets)
         /\ wire[n][t][d] \in Seq(Packets)
         /\ Len(ingress[n][t][d]) \in Nat
         /\ Len(wire[n][t][d]) \in Nat
         /\ credit[n][t][d] \in Int
         /\ credit_ev[n][t][d] \in Nat
         /\ grant[n][t][d] \in Dirs \cup {NULL}
         /\ last_grant[n][t][d] \in Dirs \cup {NOUGHT}
<1>1. ingress[n][t][d] \in Seq(Packets)
  BY DEF TypeOK
<1>2. wire[n][t][d] \in Seq(Packets)
  BY DEF TypeOK
<1>3. credit[n][t][d] \in Int /\ credit_ev[n][t][d] \in Nat
  BY DEF TypeOK
<1>4. /\ grant[n][t][d] \in Dirs \cup {NULL}
      /\ last_grant[n][t][d] \in Dirs \cup {NOUGHT}
  BY DEF TypeOK
<1>5. QED  BY <1>1, <1>2, <1>3, <1>4

\* Then, with credits and events unchanged, the links are as consistent as
\* before.
LEMMA LinkCreditSame ==
  ASSUME LinkCredit, UNCHANGED <<credit, credit_ev>>, TypeOK, TypeOK', SameLoad
  PROVE  LinkCredit'
<1> SUFFICES ASSUME NEW m \in Nodes, NEW u \in Types, NEW i \in Links,
                    Nbr(m, i) \in Nodes
             PROVE  credit[m][u][i] + credit_ev[m][u][i]
                      + Len(wire'[Nbr(m, i)][u][Opposite(i)])
                      + Len(ingress'[Nbr(m, i)][u][Opposite(i)])
                        = router_ifq_size
  BY DEF LinkCredit
<1>1. Opposite(i) \in Dirs /\ i \in Dirs
  BY NbrBack DEF Links
<1> DEFINE b == Len(ingress[Nbr(m, i)][u][Opposite(i)])
           v == Len(wire[Nbr(m, i)][u][Opposite(i)])
           b1 == Len(ingress'[Nbr(m, i)][u][Opposite(i)])
           v1 == Len(wire'[Nbr(m, i)][u][Opposite(i)])
           c == credit[m][u][i]
           e == credit_ev[m][u][i]
<1>2. c + e + v + b = router_ifq_size
  BY DEF LinkCredit
<1>3. v1 + b1 = v + b
  BY <1>1 DEF SameLoad
<1>4. b \in Nat /\ v \in Nat /\ c \in Int /\ e \in Nat
  BY <1>1, PortType
<1>5. b1 \in Nat /\ v1 \in Nat
  <2>1. /\ ingress'[Nbr(m, i)][u][Opposite(i)] \in Seq(Packets)
        /\ wire'[Nbr(m, i)][u][Opposite(i)] \in Seq(Packets)
    BY <1>1 DEF TypeOK
  <2>2. QED  BY <2>1
<1> HIDE DEF b, v, b1, v1, c, e
<1>6. c + e + v1 + b1 = router_ifq_size
  BY <1>2, <1>3, <1>4, <1>5
<1>7. QED  BY <1>6 DEF b, v, b1, v1, c, e

\* The same when credits only arrive.
LEMMA LinkCreditMoved ==
  ASSUME LinkCredit, UNCHANGED <<ingress, wire>>, TypeOK,
         \A m \in Nodes, u \in Types, i \in Dirs :
           /\ credit'[m][u][i] + credit_ev'[m][u][i]
                = credit[m][u][i] + credit_ev[m][u][i]
           /\ credit'[m][u][i] \in Int /\ credit_ev'[m][u][i] \in Nat
  PROVE  LinkCredit'
<1> SUFFICES ASSUME NEW m \in Nodes, NEW u \in Types, NEW i \in Links,
                    Nbr(m, i) \in Nodes
             PROVE  credit'[m][u][i] + credit_ev'[m][u][i]
                      + Len(wire[Nbr(m, i)][u][Opposite(i)])
                      + Len(ingress[Nbr(m, i)][u][Opposite(i)])
                        = router_ifq_size
  BY DEF LinkCredit
<1>1. Opposite(i) \in Dirs /\ i \in Dirs
  BY NbrBack DEF Links
<1> DEFINE b == Len(ingress[Nbr(m, i)][u][Opposite(i)])
           v == Len(wire[Nbr(m, i)][u][Opposite(i)])
           c == credit[m][u][i]
           e == credit_ev[m][u][i]
           c1 == credit'[m][u][i]
           e1 == credit_ev'[m][u][i]
<1>2. c + e + v + b = router_ifq_size
  BY DEF LinkCredit
<1>3. c1 + e1 = c + e
  BY <1>1
<1>4. b \in Nat /\ v \in Nat /\ c \in Int /\ e \in Nat
  BY <1>1, PortType
<1>5. c1 \in Int /\ e1 \in Nat
  BY <1>1
<1> HIDE DEF b, v, c, e, c1, e1
<1>6. c1 + e1 + v + b = router_ifq_size
  BY <1>2, <1>3, <1>4, <1>5
<1>7. QED  BY <1>6 DEF b, v, c1, e1

\* A flit moves from the wire into its buffer.
LEMMA FlitArriveStep ==
  ASSUME IInv, NEW n \in Nodes, NEW t \in Types, NEW d \in Links,
         flit_arrive(n, t, d)
  PROVE  IInv'
<1> DEFINE w == wire[n][t][d]
           b == ingress[n][t][d]
           w1 == Tail(w)
           b1 == Append(b, Head(w))
<1>0. /\ TypeOK /\ GrantSound /\ NoUTurn /\ LinkCredit /\ BorderIdle
      /\ HomeCredit /\ HomeEvents /\ HomeHasRoom /\ HomeBounds
  BY DEF IInv
<1>d. d \in Dirs
  BY DEF Links
<1>1. b \in Seq(Packets) /\ w \in Seq(Packets) /\ w # <<>>
  BY <1>0, <1>d, PortType DEF flit_arrive
<1>t. /\ ingress \in [Nodes -> [Types -> [Dirs -> Seq(Packets)]]]
      /\ wire \in [Nodes -> [Types -> [Dirs -> Seq(Packets)]]]
  BY <1>0 DEF TypeOK
<1>2. /\ Head(w) \in Packets /\ w1 \in Seq(Packets)
      /\ Len(w1) = Len(w) - 1 /\ Len(w) \in Nat \ {0}
      /\ Head(w) = w[1]
      /\ \A k \in 1 .. Len(w1) : w1[k] = w[k + 1]
  BY <1>1, HeadTailProperties
<1>3. ingress' = [ingress EXCEPT ![n][t][d] = b1]
  BY DEF flit_arrive
<1>4. wire' = [wire EXCEPT ![n][t][d] = w1]
  BY DEF flit_arrive
<1>5. UNCHANGED <<credit, credit_ev, grant, last_grant, missq_num, wtbkq_num,
                  done, executing>>
  BY DEF flit_arrive, grantVars, homeVars, turnVars
<1>6. /\ b1 \in Seq(Packets)
      /\ b1 # <<>>
      /\ Len(b1) = Len(b) + 1
      /\ b # <<>> => Head(b1) = Head(b)
      /\ \A k \in 1 .. Len(b1) :
           b1[k] = IF k \in 1 .. Len(b) THEN b[k] ELSE Head(w)
  BY <1>1, <1>2, AppendKeeps
<1> HIDE DEF w, b, w1, b1
<1>6a. b1 \in Seq(Packets)
  BY <1>6
<1>2a. w1 \in Seq(Packets)
  BY <1>2
<1>7t. ingress' \in [Nodes -> [Types -> [Dirs -> Seq(Packets)]]]
  BY <1>d, <1>t, <1>3, <1>6a, PortUpdateType
<1>7. \A m \in Nodes, u \in Types, i \in Dirs :
        ingress'[m][u][i] = IF m = n /\ u = t /\ i = d THEN b1 ELSE ingress[m][u][i]
  BY <1>d, <1>t, <1>3, <1>6a, PortUpdate
<1>8t. wire' \in [Nodes -> [Types -> [Dirs -> Seq(Packets)]]]
  BY <1>d, <1>t, <1>4, <1>2a, PortUpdateType
<1>8. \A m \in Nodes, u \in Types, i \in Dirs :
        wire'[m][u][i] = IF m = n /\ u = t /\ i = d THEN w1 ELSE wire[m][u][i]
  BY <1>d, <1>t, <1>4, <1>2a, PortUpdate
<1>9. TypeOK'
  BY <1>0, <1>5, <1>7t, <1>8t DEF TypeOK
<1>10. GrantSound'
  <2> SUFFICES ASSUME NEW m \in Nodes, NEW u \in Types, NEW i \in Dirs,
                      grant[m][u][i] # NULL
               PROVE  /\ ingress'[m][u][grant[m][u][i]] # <<>>
                      /\ Head(ingress'[m][u][grant[m][u][i]])
                           = Head(ingress[m][u][grant[m][u][i]])
    BY <1>0, <1>5 DEF GrantSound, Flit
  <2>1. grant[m][u][i] \in Dirs
    BY <1>0 DEF TypeOK
  <2>2. ingress[m][u][grant[m][u][i]] # <<>>
    BY <1>0 DEF GrantSound
  <2>3. QED  BY <1>6, <1>7, <2>1, <2>2 DEF b
<1>11. NoUTurn'
  <2> SUFFICES ASSUME NEW m \in Nodes, NEW u \in Types, NEW i \in Dirs
               PROVE  /\ \A k \in 1 .. Len(ingress'[m][u][i]) :
                           Ahead(m, i, ingress'[m][u][i][k].dst)
                      /\ \A k \in 1 .. Len(wire'[m][u][i]) :
                           Ahead(m, i, wire'[m][u][i][k].dst)
    BY DEF NoUTurn
  <2>1. /\ \A k \in 1 .. Len(ingress[m][u][i]) : Ahead(m, i, ingress[m][u][i][k].dst)
        /\ \A k \in 1 .. Len(wire[m][u][i]) : Ahead(m, i, wire[m][u][i][k].dst)
    BY <1>0 DEF NoUTurn
  <2>2. CASE m = n /\ u = t /\ i = d
    <3>1. /\ \A k \in 1 .. Len(b) : Ahead(m, i, b[k].dst)
          /\ \A k \in 1 .. Len(w) : Ahead(m, i, w[k].dst)
      BY <2>1, <2>2 DEF b, w
    <3>2. \A k \in 1 .. Len(w1) : k + 1 \in 1 .. Len(w) /\ w1[k] = w[k + 1]
      BY <1>2
    <3>3. Ahead(m, i, Head(w).dst)
      <4>1. 1 \in 1 .. Len(w)  BY <1>2
      <4>2. QED  BY <1>2, <3>1, <4>1
    <3>4. \A k \in 1 .. Len(b1) : Ahead(m, i, b1[k].dst)
      BY <1>6, <3>1, <3>3
    <3>5. \A k \in 1 .. Len(w1) : Ahead(m, i, w1[k].dst)
      BY <3>1, <3>2
    <3>6. ingress'[m][u][i] = b1 /\ wire'[m][u][i] = w1
      BY <1>7, <1>8, <2>2, <1>d
    <3>7. QED  BY <3>4, <3>5, <3>6
  <2>3. CASE ~(m = n /\ u = t /\ i = d)
    BY <1>7, <1>8, <2>1, <2>3
  <2>4. QED  BY <2>2, <2>3
<1>12. LinkCredit'
  <2> SUFFICES ASSUME NEW m \in Nodes, NEW u \in Types, NEW i \in Dirs
               PROVE  Len(wire'[m][u][i]) + Len(ingress'[m][u][i])
                        = Len(wire[m][u][i]) + Len(ingress[m][u][i])
    BY <1>0, <1>5, <1>9, LinkCreditSame DEF SameLoad
  <2>1. CASE m = n /\ u = t /\ i = d
    <3>1. /\ ingress[m][u][i] = b /\ wire[m][u][i] = w
          /\ ingress'[m][u][i] = b1 /\ wire'[m][u][i] = w1
      BY <1>7, <1>8, <2>1 DEF b, w
    <3>2. Len(w1) + Len(b1) = Len(w) + Len(b)
      <4>1. Len(b) \in Nat  BY <1>1
      <4>2. QED  BY <1>2, <1>6, <4>1
    <3>3. QED  BY <3>1, <3>2
  <2>2. CASE ~(m = n /\ u = t /\ i = d)
    BY <1>7, <1>8, <2>2
  <2>3. QED  BY <2>1, <2>2
<1>13. BorderIdle'
  <2>1. Nbr(n, d) \in Nodes
    BY <1>0, <1>1 DEF BorderIdle, w
  <2>2. QED  BY <1>0, <1>5, <1>7, <1>8, <2>1 DEF BorderIdle, Links
<1>14. HomeCredit' /\ HomeEvents' /\ HomeHasRoom'
  BY <1>0, <1>5 DEF HomeCredit, HomeEvents, HomeHasRoom
<1>15. HomeBounds'
  <2>1. \A m \in Nodes, u \in Types : ingress'[m][u][HOME] = ingress[m][u][HOME]
    BY <1>7 DEF Links, Dirs
  <2>2. QED  BY <1>0, <1>5, <2>1 DEF HomeBounds
<1>16. QED
  BY <1>9, <1>10, <1>11, <1>12, <1>13, <1>14, <1>15 DEF IInv

\* A link credit comes back.
LEMMA UpdateCreditLinkStep ==
  ASSUME IInv, NEW n \in Nodes, NEW t \in Types, NEW d \in Links,
         update_credit_link(n, t, d)
  PROVE  IInv'
<1> DEFINE c == credit[n][t][d]
           e == credit_ev[n][t][d]
<1>0. /\ TypeOK /\ GrantSound /\ NoUTurn /\ LinkCredit /\ BorderIdle
      /\ HomeCredit /\ HomeEvents /\ HomeHasRoom /\ HomeBounds
  BY DEF IInv
<1>d. d \in Dirs /\ d # HOME
  BY DEF Links
<1>1. c \in Int /\ e \in Nat /\ e > 0
  BY <1>0, <1>d, PortType DEF update_credit_link
<1>2. credit' = [credit EXCEPT ![n][t][d] = c + 1]
  BY DEF update_credit_link
<1>3. credit_ev' = [credit_ev EXCEPT ![n][t][d] = e - 1]
  BY DEF update_credit_link
<1>4. UNCHANGED <<ingress, wire, grant, last_grant, missq_num, wtbkq_num,
                  done, executing>>
  BY DEF update_credit_link, flitVars, grantVars, homeVars, turnVars
<1>5. c + 1 \in Int
  BY <1>1
<1>6. e - 1 \in Nat
  BY <1>1
<1>t. /\ credit \in [Nodes -> [Types -> [Dirs -> Int]]]
      /\ credit_ev \in [Nodes -> [Types -> [Dirs -> Nat]]]
  BY <1>0 DEF TypeOK
<1> HIDE DEF c, e
<1>7t. credit' \in [Nodes -> [Types -> [Dirs -> Int]]]
  BY <1>d, <1>t, <1>2, <1>5, PortUpdateType
<1>7. \A m \in Nodes, u \in Types, i \in Dirs :
        credit'[m][u][i] = IF m = n /\ u = t /\ i = d THEN c + 1 ELSE credit[m][u][i]
  BY <1>d, <1>t, <1>2, <1>5, PortUpdate
<1>8t. credit_ev' \in [Nodes -> [Types -> [Dirs -> Nat]]]
  BY <1>d, <1>t, <1>3, <1>6, PortUpdateType
<1>8. \A m \in Nodes, u \in Types, i \in Dirs :
        credit_ev'[m][u][i] = IF m = n /\ u = t /\ i = d THEN e - 1 ELSE credit_ev[m][u][i]
  BY <1>d, <1>t, <1>3, <1>6, PortUpdate
<1>9. \A m \in Nodes, u \in Types, i \in Dirs :
        /\ credit'[m][u][i] >= credit[m][u][i]
        /\ credit'[m][u][i] + credit_ev'[m][u][i] = credit[m][u][i] + credit_ev[m][u][i]
        /\ credit[m][u][i] \in Int /\ credit_ev[m][u][i] \in Nat
        /\ credit'[m][u][i] \in Int /\ credit_ev'[m][u][i] \in Nat
  <2> TAKE m \in Nodes, u \in Types, i \in Dirs
  <2>1. credit[m][u][i] \in Int /\ credit_ev[m][u][i] \in Nat
    BY <1>0, PortType
  <2>2. CASE m = n /\ u = t /\ i = d
    <3>1. credit[m][u][i] = c /\ credit_ev[m][u][i] = e
      BY <2>2 DEF c, e
    <3>2. credit'[m][u][i] = c + 1 /\ credit_ev'[m][u][i] = e - 1
      BY <1>7, <1>8, <2>2
    <3>3. QED  BY <1>1, <3>1, <3>2
  <2>3. CASE ~(m = n /\ u = t /\ i = d)
    <3>1. credit'[m][u][i] = credit[m][u][i] /\ credit_ev'[m][u][i] = credit_ev[m][u][i]
      BY <1>7, <1>8, <2>3
    <3>2. QED  BY <2>1, <3>1
  <2>4. QED  BY <2>2, <2>3
<1>10. TypeOK'
  BY <1>0, <1>4, <1>7t, <1>8t DEF TypeOK
<1>11. GrantSound'
  <2> SUFFICES ASSUME NEW m \in Nodes, NEW u \in Types, NEW i \in Dirs,
                      grant[m][u][i] # NULL, i # HOME
               PROVE  credit'[m][u][i] > 0
    BY <1>0, <1>4 DEF GrantSound, Flit
  <2>1. credit[m][u][i] > 0
    BY <1>0 DEF GrantSound
  <2>2. QED  BY <1>9, <2>1
<1>12. NoUTurn'
  BY <1>0, <1>4 DEF NoUTurn
<1>13. LinkCredit'
  BY <1>0, <1>4, <1>9, LinkCreditMoved
<1>14. BorderIdle'
  <2>1. Nbr(n, d) \in Nodes
    BY <1>0, <1>1 DEF BorderIdle, e
  <2>2. QED  BY <1>0, <1>4, <1>7, <1>8, <2>1 DEF BorderIdle, Links
<1>15. \A m \in Nodes, u \in Types :
         credit'[m][u][HOME] = credit[m][u][HOME]
           /\ credit_ev'[m][u][HOME] = credit_ev[m][u][HOME]
  BY <1>7, <1>8, <1>d DEF Dirs
<1>16. HomeCredit'
  BY <1>0, <1>4, <1>15 DEF HomeCredit, Types
<1>17. HomeEvents'
  BY <1>0, <1>4, <1>15 DEF HomeEvents, Types
<1>18. HomeHasRoom'
  BY <1>0, <1>4 DEF HomeHasRoom
<1>19. HomeBounds'
  <2>1. \A m \in Nodes, u \in Types, i \in Dirs : credit'[m][u][i] >= 0
    BY <1>0, <1>9 DEF HomeBounds
  <2>2. QED  BY <1>0, <1>4, <2>1 DEF HomeBounds
<1>20. QED
  BY <1>10, <1>11, <1>12, <1>13, <1>14, <1>16, <1>17, <1>18, <1>19 DEF IInv

\* A freed queue entry of a home is announced to its router.
LEMMA UpdateCreditHomeStep ==
  ASSUME IInv, NEW n \in Nodes, NEW t \in Types, update_credit_home(n, t)
  PROVE  IInv'
<1> DEFINE gain(u) == IF u = t \/ (t = "REQ" /\ u = "INVN") THEN 1 ELSE 0
           back(u) == IF u = t THEN 1 ELSE 0
<1>0. /\ TypeOK /\ GrantSound /\ NoUTurn /\ LinkCredit /\ BorderIdle
      /\ HomeCredit /\ HomeEvents /\ HomeHasRoom /\ HomeBounds
  BY DEF IInv
<1>h. HOME \in Dirs
  BY DEF Dirs
<1>1. credit_ev[n][t][HOME] > 0 /\ credit_ev[n][t][HOME] \in Nat
  BY <1>0, <1>h, PortType DEF update_credit_home
<1>2. t \in {"REQ", "WTBK"}
  BY <1>0, <1>1 DEF HomeEvents, Types
<1>4. UNCHANGED <<ingress, wire, grant, last_grant, missq_num, wtbkq_num,
                  done, executing>>
  BY DEF update_credit_home, flitVars, grantVars, homeVars, turnVars
<1>ct. credit \in [Nodes -> [Types -> [Dirs -> Int]]]
  BY <1>0 DEF TypeOK
<1>et. credit_ev \in [Nodes -> [Types -> [Dirs -> Nat]]]
  BY <1>0 DEF TypeOK
<1>5. credit_ev' = [credit_ev EXCEPT ![n][t][HOME] = credit_ev[n][t][HOME] - 1]
  BY DEF update_credit_home
<1>6. credit_ev[n][t][HOME] - 1 \in Nat
  BY <1>1
<1>7t. credit_ev' \in [Nodes -> [Types -> [Dirs -> Nat]]]
  BY <1>et, <1>h, <1>5, <1>6, PortUpdateType
<1>7. \A m \in Nodes, u \in Types, i \in Dirs :
        credit_ev'[m][u][i]
          = IF m = n /\ u = t /\ i = HOME THEN credit_ev[n][t][HOME] - 1
            ELSE credit_ev[m][u][i]
  BY <1>et, <1>h, <1>5, <1>6, PortUpdate
<1>8. /\ credit' \in [Nodes -> [Types -> [Dirs -> Int]]]
      /\ \A m \in Nodes, u \in Types, i \in Dirs :
           credit'[m][u][i]
             = credit[m][u][i] + (IF m = n /\ i = HOME THEN gain(u) ELSE 0)
  <2>1. CASE t = "REQ"
    <3> DEFINE f == [credit EXCEPT ![n]["REQ"][HOME] = credit[n]["REQ"][HOME] + 1]
    <3>1. "REQ" \in Types /\ "INVN" \in Types
      BY DEF Types
    <3>2. credit[n]["REQ"][HOME] + 1 \in Int
      BY <1>0, <1>h, <3>1, PortType
    <3>3. f \in [Nodes -> [Types -> [Dirs -> Int]]]
      BY <1>ct, <1>h, <3>1, <3>2, PortUpdateType
    <3>4. \A m \in Nodes, u \in Types, i \in Dirs :
            f[m][u][i] = IF m = n /\ u = "REQ" /\ i = HOME
                         THEN credit[n]["REQ"][HOME] + 1 ELSE credit[m][u][i]
      BY <1>ct, <1>h, <3>1, <3>2, PortUpdate
    <3>5. credit' = [f EXCEPT ![n]["INVN"][HOME] = f[n]["INVN"][HOME] + 1]
      BY <2>1 DEF update_credit_home
    <3> HIDE DEF f
    <3>6. f[n]["INVN"][HOME] = credit[n]["INVN"][HOME]
      BY <1>h, <3>1, <3>4
    <3>7. f[n]["INVN"][HOME] + 1 \in Int
      BY <1>0, <1>h, <3>1, <3>6, PortType
    <3>8. credit' \in [Nodes -> [Types -> [Dirs -> Int]]]
      BY <1>h, <3>1, <3>3, <3>5, <3>7, PortUpdateType
    <3>9. \A m \in Nodes, u \in Types, i \in Dirs :
            credit'[m][u][i] = IF m = n /\ u = "INVN" /\ i = HOME
                               THEN f[n]["INVN"][HOME] + 1 ELSE f[m][u][i]
      BY <1>h, <3>1, <3>3, <3>5, <3>7, PortUpdate
    <3>10. ASSUME NEW m \in Nodes, NEW u \in Types, NEW i \in Dirs
           PROVE  credit'[m][u][i]
                    = credit[m][u][i] + (IF m = n /\ i = HOME THEN gain(u) ELSE 0)
      <4>1. credit[m][u][i] \in Int
        BY <1>0, PortType
      <4>2. QED  BY <2>1, <3>4, <3>6, <3>9, <4>1
    <3>11. QED  BY <3>8, <3>10
  <2>2. CASE t = "WTBK"
    <3>1. credit' = [credit EXCEPT ![n][t][HOME] = credit[n][t][HOME] + 1]
      BY <2>2 DEF update_credit_home
    <3>2. credit[n][t][HOME] + 1 \in Int
      BY <1>0, <1>h, PortType
    <3>3. credit' \in [Nodes -> [Types -> [Dirs -> Int]]]
      BY <1>ct, <1>h, <3>1, <3>2, PortUpdateType
    <3>4. \A m \in Nodes, u \in Types, i \in Dirs :
            credit'[m][u][i] = IF m = n /\ u = t /\ i = HOME
                               THEN credit[n][t][HOME] + 1 ELSE credit[m][u][i]
      BY <1>ct, <1>h, <3>1, <3>2, PortUpdate
    <3>5. ASSUME NEW m \in Nodes, NEW u \in Types, NEW i \in Dirs
          PROVE  credit'[m][u][i]
                   = credit[m][u][i] + (IF m = n /\ i = HOME THEN gain(u) ELSE 0)
      <4>1. credit[m][u][i] \in Int
        BY <1>0, PortType
      <4>2. QED  BY <2>2, <3>4, <4>1
    <3>6. QED  BY <3>3, <3>5
  <2>3. QED  BY <1>2, <2>1, <2>2
<1>9. \A m \in Nodes, u \in Types, i \in Links :
        credit'[m][u][i] = credit[m][u][i] /\ credit_ev'[m][u][i] = credit_ev[m][u][i]
  <2> TAKE m \in Nodes, u \in Types, i \in Links
  <2>1. i \in Dirs /\ i # HOME
    BY DEF Links
  <2>2. credit[m][u][i] \in Int
    BY <1>0, <2>1, PortType
  <2>3. QED  BY <1>7, <1>8, <2>1, <2>2
<1>10. \A m \in Nodes, u \in Types : m # n =>
         credit'[m][u][HOME] = credit[m][u][HOME]
           /\ credit_ev'[m][u][HOME] = credit_ev[m][u][HOME]
  <2> TAKE m \in Nodes, u \in Types
  <2>1. credit[m][u][HOME] \in Int
    BY <1>0, <1>h, PortType
  <2>2. QED  BY <1>7, <1>8, <1>h, <2>1
<1>11. \A u \in Types :
         /\ credit'[n][u][HOME] = credit[n][u][HOME] + gain(u)
         /\ credit_ev'[n][u][HOME] = credit_ev[n][u][HOME] - back(u)
         /\ credit[n][u][HOME] \in Int /\ credit_ev[n][u][HOME] \in Nat
  <2> TAKE u \in Types
  <2>1. credit[n][u][HOME] \in Int /\ credit_ev[n][u][HOME] \in Nat
    BY <1>0, <1>h, PortType
  <2>2. credit'[n][u][HOME] = credit[n][u][HOME] + gain(u)
    BY <1>8, <1>h
  <2>3. credit_ev'[n][u][HOME] = credit_ev[n][u][HOME] - back(u)
    BY <1>7, <1>h, <2>1
  <2>4. QED  BY <2>1, <2>2, <2>3
<1>12. TypeOK'
  BY <1>0, <1>4, <1>7t, <1>8 DEF TypeOK
<1>13. GrantSound'
  BY <1>0, <1>4, <1>9 DEF GrantSound, Flit, Links
<1>14. NoUTurn'
  BY <1>0, <1>4 DEF NoUTurn
<1>15. LinkCredit'
  BY <1>0, <1>4, <1>9 DEF LinkCredit
<1>16. BorderIdle'
  BY <1>0, <1>4, <1>9 DEF BorderIdle
<1>17. HomeCredit'
  <2> SUFFICES ASSUME NEW m \in Nodes
               PROVE  /\ \A u \in {"REQ", "INVN"} :
                           credit'[m][u][HOME] + credit_ev'[m]["REQ"][HOME]
                             + missq_num[m] = missq_ifq_size
                      /\ credit'[m]["WTBK"][HOME] + credit_ev'[m]["WTBK"][HOME]
                           + wtbkq_num[m] = wtbkq_ifq_size
    BY <1>4 DEF HomeCredit
  <2>1. /\ \A u \in {"REQ", "INVN"} :
             credit[m][u][HOME] + credit_ev[m]["REQ"][HOME]
               + missq_num[m] = missq_ifq_size
        /\ credit[m]["WTBK"][HOME] + credit_ev[m]["WTBK"][HOME]
             + wtbkq_num[m] = wtbkq_ifq_size
    BY <1>0 DEF HomeCredit
  <2>2. missq_num[m] \in Nat /\ wtbkq_num[m] \in Nat
    BY <1>0 DEF TypeOK
  <2>3. CASE m # n
    BY <1>10, <2>1, <2>3 DEF Types
  <2>4. CASE m = n
    <3>1. \A u \in {"REQ", "INVN"} : gain(u) = back("REQ")
      BY <1>2
    <3>2. gain("WTBK") = back("WTBK")
      BY <1>2
    <3>3. back("REQ") \in Int /\ back("WTBK") \in Int
      OBVIOUS
    <3>4. \A u \in {"REQ", "INVN", "WTBK"} :
            /\ credit'[n][u][HOME] = credit[n][u][HOME] + gain(u)
            /\ credit_ev'[n][u][HOME] = credit_ev[n][u][HOME] - back(u)
            /\ credit[n][u][HOME] \in Int /\ credit_ev[n][u][HOME] \in Nat
      BY <1>11 DEF Types
    <3> HIDE DEF gain, back
    <3>5. QED  BY <2>1, <2>2, <2>4, <3>1, <3>2, <3>3, <3>4
  <2>5. QED  BY <2>3, <2>4
<1>18. HomeEvents'
  <2>1. executing = {}
    BY DEF update_credit_home
  <2>2. gain("RESP") = 0 /\ back("RESP") = 0 /\ back("INVN") = 0
    BY <1>2
  <2>3. "RESP" \in Types /\ "INVN" \in Types
    BY DEF Types
  <2> HIDE DEF gain, back
  <2>4. \A m \in Nodes : /\ credit'[m]["RESP"][HOME] = credit[m]["RESP"][HOME]
                         /\ credit_ev'[m]["RESP"][HOME] = credit_ev[m]["RESP"][HOME]
                         /\ credit_ev'[m]["INVN"][HOME] = credit_ev[m]["INVN"][HOME]
    BY <1>10, <1>11, <2>2, <2>3
  <2>5. QED  BY <1>0, <1>4, <2>1, <2>4 DEF HomeEvents
<1>19. HomeHasRoom'
  BY <1>0, <1>4 DEF HomeHasRoom
<1>20. HomeBounds'
  <2> SUFFICES ASSUME NEW m \in Nodes, NEW u \in Types, NEW i \in Dirs
               PROVE  credit'[m][u][i] >= 0
    BY <1>0, <1>4 DEF HomeBounds
  <2>1. credit[m][u][i] \in Int /\ credit[m][u][i] >= 0
    BY <1>0, PortType DEF HomeBounds
  <2>2. credit'[m][u][i] >= credit[m][u][i]
    BY <1>8, <2>1
  <2>3. QED  BY <1>8, <2>1, <2>2
<1>21. QED
  BY <1>12, <1>13, <1>14, <1>15, <1>16, <1>17, <1>18, <1>19, <1>20 DEF IInv

\* A cpu hands a packet to its router.
LEMMA NocRequestStep ==
  ASSUME IInv, NEW f \in Flows, NEW v \in Msgs[f], noc_request(f, v)
  PROVE  IInv'
<1> DEFINE t == f[1]
           n == f[2]
           b == ingress[n][t][HOME]
           p == [src |-> n, dst |-> f[3], msg |-> v]
           b1 == Append(b, p)
<1>0. /\ TypeOK /\ GrantSound /\ NoUTurn /\ LinkCredit /\ BorderIdle
      /\ HomeCredit /\ HomeEvents /\ HomeHasRoom /\ HomeBounds
  BY DEF IInv
<1>h. HOME \in Dirs
  BY DEF Dirs
<1>1. t \in Types /\ n \in Nodes /\ f[3] \in Nodes
  BY FlowAssumption
<1>2. b \in Seq(Packets)
  BY <1>0, <1>h, <1>1, PortType
<1>3. p \in Packets
  BY <1>1 DEF Packets
<1>4. /\ b1 \in Seq(Packets) /\ b1 # <<>> /\ Len(b1) = Len(b) + 1
      /\ b # <<>> => Head(b1) = Head(b)
      /\ \A k \in 1 .. Len(b1) : b1[k] = IF k \in 1 .. Len(b) THEN b[k] ELSE p
  BY <1>2, <1>3, AppendKeeps
<1>5. Len(b) < router_ifq_size /\ Len(b) \in Nat
  BY <1>2 DEF noc_request
<1>6. ingress' = [ingress EXCEPT ![n][t][HOME] = b1]
  BY DEF noc_request
<1>7. UNCHANGED <<wire, credit, credit_ev, grant, last_grant, missq_num,
                  wtbkq_num, done, executing>>
  BY DEF noc_request, grantVars, homeVars, turnVars
<1>it. ingress \in [Nodes -> [Types -> [Dirs -> Seq(Packets)]]]
  BY <1>0 DEF TypeOK
<1>b. b1 \in Seq(Packets)
  BY <1>4
<1> HIDE DEF t, n, p, b, b1
<1>8t. ingress' \in [Nodes -> [Types -> [Dirs -> Seq(Packets)]]]
  BY <1>it, <1>h, <1>1, <1>b, <1>6, PortUpdateType
<1>8. \A m \in Nodes, u \in Types, i \in Dirs :
        ingress'[m][u][i] = IF m = n /\ u = t /\ i = HOME THEN b1 ELSE ingress[m][u][i]
  BY <1>it, <1>h, <1>1, <1>b, <1>6, PortUpdate
<1>9. \A m \in Nodes, u \in Types, i \in Links :
        ingress'[m][u][i] = ingress[m][u][i]
  BY <1>8 DEF Links
<1>10. TypeOK'
  BY <1>0, <1>7, <1>8t DEF TypeOK
<1>11. GrantSound'
  <2> SUFFICES ASSUME NEW m \in Nodes, NEW u \in Types, NEW i \in Dirs,
                      grant[m][u][i] # NULL
               PROVE  /\ ingress'[m][u][grant[m][u][i]] # <<>>
                      /\ Head(ingress'[m][u][grant[m][u][i]])
                           = Head(ingress[m][u][grant[m][u][i]])
    BY <1>0, <1>7 DEF GrantSound, Flit
  <2>1. grant[m][u][i] \in Dirs
    BY <1>0 DEF TypeOK
  <2>2. ingress[m][u][grant[m][u][i]] # <<>>
    BY <1>0 DEF GrantSound
  <2>3. QED  BY <1>4, <1>8, <2>1, <2>2 DEF b
<1>12. NoUTurn'
  <2> SUFFICES ASSUME NEW m \in Nodes, NEW u \in Types, NEW i \in Dirs
               PROVE  \A k \in 1 .. Len(ingress'[m][u][i]) :
                        Ahead(m, i, ingress'[m][u][i][k].dst)
    BY <1>0, <1>7 DEF NoUTurn
  <2>1. CASE i = HOME
    BY <2>1 DEF Ahead
  <2>2. CASE i # HOME
    <3>1. ingress'[m][u][i] = ingress[m][u][i]
      BY <1>8, <2>2
    <3>2. QED  BY <1>0, <3>1 DEF NoUTurn
  <2>3. QED  BY <2>1, <2>2
<1>13. LinkCredit'
  <2>1. \A d \in Links : Opposite(d) \in Links
    BY DEF Opposite, Links, Dirs
  <2>2. QED  BY <1>0, <1>7, <1>9, <2>1 DEF LinkCredit
<1>14. BorderIdle'
  BY <1>0, <1>7, <1>9 DEF BorderIdle
<1>15. HomeCredit' /\ HomeEvents' /\ HomeHasRoom'
  BY <1>0, <1>7 DEF HomeCredit, HomeEvents, HomeHasRoom
<1>16. HomeBounds'
  <2> SUFFICES ASSUME NEW m \in Nodes, NEW u \in Types
               PROVE  Len(ingress'[m][u][HOME]) <= router_ifq_size
    BY <1>0, <1>7 DEF HomeBounds
  <2>1. CASE m = n /\ u = t
    <3>1. ingress'[m][u][HOME] = b1
      BY <1>8, <1>h, <2>1
    <3>2. QED  BY <1>4, <1>5, <3>1, SizeAssumption
  <2>2. CASE ~(m = n /\ u = t)
    <3>1. ingress'[m][u][HOME] = ingress[m][u][HOME]
      BY <1>8, <1>h, <2>2
    <3>2. QED  BY <1>0, <3>1 DEF HomeBounds
  <2>3. QED  BY <2>1, <2>2
<1>17. QED
  BY <1>10, <1>11, <1>12, <1>13, <1>14, <1>15, <1>16 DEF IInv

\* The cpu takes, reserves and frees entries of its queues.
LEMMA Cache2memStep ==
  ASSUME IInv, NEW n \in Nodes, cache2mem(n)
  PROVE  IInv'
<1>0. /\ TypeOK /\ GrantSound /\ NoUTurn /\ LinkCredit /\ BorderIdle
      /\ HomeCredit /\ HomeEvents /\ HomeHasRoom /\ HomeBounds
  BY DEF IInv
<1>h. HOME \in Dirs /\ "REQ" \in Types /\ "INVN" \in Types /\ "WTBK" \in Types
      /\ "RESP" \in Types
  BY DEF Dirs, Types
<1>1. PICK miss \in 0 .. 1, reserve \in 0 .. 1, freed \in 0 .. missq_num[n],
           retired \in 0 .. wtbkq_num[n] :
        /\ n \notin Missing => miss = 0 /\ reserve = 0
        /\ miss = 1 => missq_num[n] < missq_ifq_size - 2
        /\ reserve = 1 => wtbkq_num[n] < wtbkq_ifq_size - 1
        /\ missq_num' = [missq_num EXCEPT ![n] = @ + miss - freed]
        /\ wtbkq_num' = [wtbkq_num EXCEPT ![n] = @ + reserve - retired]
        /\ credit' = [credit EXCEPT ![n]["REQ"][HOME] = @ - miss,
                                    ![n]["INVN"][HOME] = @ - miss,
                                    ![n]["WTBK"][HOME] = @ - reserve]
        /\ credit_ev' = [credit_ev EXCEPT ![n]["REQ"][HOME] = @ + freed,
                                          ![n]["WTBK"][HOME] = @ + retired]
  BY DEF cache2mem
<1>2. executing = {n} /\ executing' = {} /\ done' \in SUBSET Nodes
  BY <1>0 DEF cache2mem, TypeOK
<1>3. UNCHANGED <<ingress, wire, grant, last_grant>>
  BY DEF cache2mem, flitVars, grantVars
<1>4. /\ missq_num[n] \in Nat /\ wtbkq_num[n] \in Nat
      /\ miss \in Nat /\ reserve \in Nat /\ freed \in Nat /\ retired \in Nat
      /\ freed <= missq_num[n] /\ retired <= wtbkq_num[n]
      /\ miss <= 1 /\ reserve <= 1
  BY <1>0 DEF TypeOK
<1>ct. credit \in [Nodes -> [Types -> [Dirs -> Int]]]
  BY <1>0 DEF TypeOK
<1>et. credit_ev \in [Nodes -> [Types -> [Dirs -> Nat]]]
  BY <1>0 DEF TypeOK
<1> DEFINE f1 == [credit EXCEPT ![n]["REQ"][HOME] = credit[n]["REQ"][HOME] - miss]
           f2 == [f1 EXCEPT ![n]["INVN"][HOME] = f1[n]["INVN"][HOME] - miss]
           g1 == [credit_ev EXCEPT ![n]["REQ"][HOME] = credit_ev[n]["REQ"][HOME] + freed]
           spent(u) == IF u \in {"REQ", "INVN"} THEN miss
                       ELSE IF u = "WTBK" THEN reserve ELSE 0
           back(u) == IF u = "REQ" THEN freed ELSE IF u = "WTBK" THEN retired ELSE 0
<1>5. credit' = [f2 EXCEPT ![n]["WTBK"][HOME] = f2[n]["WTBK"][HOME] - reserve]
  BY <1>1
<1>6. credit_ev' = [g1 EXCEPT ![n]["WTBK"][HOME] = g1[n]["WTBK"][HOME] + retired]
  BY <1>1
<1>7. /\ credit' \in [Nodes -> [Types -> [Dirs -> Int]]]
      /\ \A m \in Nodes, u \in Types, i \in Dirs :
           credit'[m][u][i]
             = credit[m][u][i] - (IF m = n /\ i = HOME THEN spent(u) ELSE 0)
  <2>1. credit[n]["REQ"][HOME] - miss \in Int
    BY <1>0, <1>4, <1>h, PortType
  <2>2. f1 \in [Nodes -> [Types -> [Dirs -> Int]]]
    BY <1>ct, <1>h, <2>1, PortUpdateType
  <2>3. \A m \in Nodes, u \in Types, i \in Dirs :
          f1[m][u][i] = IF m = n /\ u = "REQ" /\ i = HOME
                        THEN credit[n]["REQ"][HOME] - miss ELSE credit[m][u][i]
    BY <1>ct, <1>h, <2>1, PortUpdate
  <2> HIDE DEF f1
  <2>4. f1[n]["INVN"][HOME] - miss \in Int
    BY <1>4, <1>h, <2>2
  <2>5. f2 \in [Nodes -> [Types -> [Dirs -> Int]]]
    BY <1>h, <2>2, <2>4, PortUpdateType
  <2>6. \A m \in Nodes, u \in Types, i \in Dirs :
          f2[m][u][i] = IF m = n /\ u = "INVN" /\ i = HOME
                        THEN f1[n]["INVN"][HOME] - miss ELSE f1[m][u][i]
    BY <1>h, <2>2, <2>4, PortUpdate
  <2> HIDE DEF f2
  <2>7. f2[n]["WTBK"][HOME] - reserve \in Int
    BY <1>4, <1>h, <2>5
  <2>8. credit' \in [Nodes -> [Types -> [Dirs -> Int]]]
    BY <1>5, <1>h, <2>5, <2>7, PortUpdateType
  <2>9. \A m \in Nodes, u \in Types, i \in Dirs :
          credit'[m][u][i] = IF m = n /\ u = "WTBK" /\ i = HOME
                             THEN f2[n]["WTBK"][HOME] - reserve ELSE f2[m][u][i]
    BY <1>5, <1>h, <2>5, <2>7, PortUpdate
  <2>10. ASSUME NEW m \in Nodes, NEW u \in Types, NEW i \in Dirs
         PROVE  credit'[m][u][i]
                  = credit[m][u][i] - (IF m = n /\ i = HOME THEN spent(u) ELSE 0)
    <3>1. credit[m][u][i] \in Int
      BY <1>0, PortType
    <3>2. CASE ~(m = n /\ i = HOME)
      BY <2>3, <2>6, <2>9, <3>1, <3>2
    <3>3. CASE m = n /\ i = HOME
      BY <1>h, <2>3, <2>6, <2>9, <3>1, <3>3
    <3>4. QED  BY <3>2, <3>3
  <2>11. QED  BY <2>8, <2>10
<1>8. /\ credit_ev' \in [Nodes -> [Types -> [Dirs -> Nat]]]
      /\ \A m \in Nodes, u \in Types, i \in Dirs :
           credit_ev'[m][u][i]
             = credit_ev[m][u][i] + (IF m = n /\ i = HOME THEN back(u) ELSE 0)
  <2>1. credit_ev[n]["REQ"][HOME] + freed \in Nat
    BY <1>0, <1>4, <1>h, PortType
  <2>2. g1 \in [Nodes -> [Types -> [Dirs -> Nat]]]
    BY <1>et, <1>h, <2>1, PortUpdateType
  <2>3. \A m \in Nodes, u \in Types, i \in Dirs :
          g1[m][u][i] = IF m = n /\ u = "REQ" /\ i = HOME
                        THEN credit_ev[n]["REQ"][HOME] + freed ELSE credit_ev[m][u][i]
    BY <1>et, <1>h, <2>1, PortUpdate
  <2> HIDE DEF g1
  <2>7. g1[n]["WTBK"][HOME] + retired \in Nat
    BY <1>4, <1>h, <2>2
  <2>8. credit_ev' \in [Nodes -> [Types -> [Dirs -> Nat]]]
    BY <1>6, <1>h, <2>2, <2>7, PortUpdateType
  <2>9. \A m \in Nodes, u \in Types, i \in Dirs :
          credit_ev'[m][u][i] = IF m = n /\ u = "WTBK" /\ i = HOME
                                THEN g1[n]["WTBK"][HOME] + retired ELSE g1[m][u][i]
    BY <1>6, <1>h, <2>2, <2>7, PortUpdate
  <2>10. ASSUME NEW m \in Nodes, NEW u \in Types, NEW i \in Dirs
         PROVE  credit_ev'[m][u][i]
                  = credit_ev[m][u][i] + (IF m = n /\ i = HOME THEN back(u) ELSE 0)
    <3>1. credit_ev[m][u][i] \in Nat
      BY <1>0, PortType
    <3>2. CASE ~(m = n /\ i = HOME)
      BY <2>3, <2>9, <3>1, <3>2
    <3>3. CASE m = n /\ i = HOME
      BY <1>h, <2>3, <2>9, <3>1, <3>3
    <3>4. QED  BY <3>2, <3>3
  <2>11. QED  BY <2>8, <2>10
<1> HIDE DEF f1, f2, g1
<1>9. \A m \in Nodes, u \in Types, i \in Links :
        credit'[m][u][i] = credit[m][u][i] /\ credit_ev'[m][u][i] = credit_ev[m][u][i]
  <2> TAKE m \in Nodes, u \in Types, i \in Links
  <2>1. i \in Dirs /\ i # HOME
    BY DEF Links
  <2>2. credit[m][u][i] \in Int /\ credit_ev[m][u][i] \in Nat
    BY <1>0, <2>1, PortType
  <2>3. QED  BY <1>7, <1>8, <2>1, <2>2
<1>10. \A m \in Nodes, u \in Types :
         /\ credit'[m][u][HOME] = credit[m][u][HOME] - (IF m = n THEN spent(u) ELSE 0)
         /\ credit_ev'[m][u][HOME] = credit_ev[m][u][HOME] + (IF m = n THEN back(u) ELSE 0)
         /\ credit[m][u][HOME] \in Int /\ credit_ev[m][u][HOME] \in Nat
  <2> TAKE m \in Nodes, u \in Types
  <2>1. credit[m][u][HOME] \in Int /\ credit_ev[m][u][HOME] \in Nat
    BY <1>0, <1>h, PortType
  <2> HIDE DEF spent, back
  <2>2. credit'[m][u][HOME] = credit[m][u][HOME] - (IF m = n THEN spent(u) ELSE 0)
    BY <1>7, <1>h
  <2>3. credit_ev'[m][u][HOME] = credit_ev[m][u][HOME] + (IF m = n THEN back(u) ELSE 0)
    BY <1>8, <1>h
  <2>4. QED  BY <2>1, <2>2, <2>3
<1>11. /\ missq_num' \in [Nodes -> Nat] /\ wtbkq_num' \in [Nodes -> Nat]
       /\ missq_num'[n] = missq_num[n] + miss - freed
       /\ wtbkq_num'[n] = wtbkq_num[n] + reserve - retired
       /\ \A m \in Nodes \ {n} : missq_num'[m] = missq_num[m]
                                 /\ wtbkq_num'[m] = wtbkq_num[m]
  BY <1>0, <1>1, <1>4 DEF TypeOK
<1>12. TypeOK'
  BY <1>0, <1>2, <1>3, <1>7, <1>8, <1>11 DEF TypeOK
<1>13. GrantSound'
  BY <1>0, <1>3, <1>9 DEF GrantSound, Flit, Links
<1>14. NoUTurn'
  BY <1>0, <1>3 DEF NoUTurn
<1>15. LinkCredit'
  BY <1>0, <1>3, <1>9 DEF LinkCredit
<1>16. BorderIdle'
  BY <1>0, <1>3, <1>9 DEF BorderIdle
<1>17. HomeCredit'
  <2> SUFFICES ASSUME NEW m \in Nodes
               PROVE  /\ \A u \in {"REQ", "INVN"} :
                           credit'[m][u][HOME] + credit_ev'[m]["REQ"][HOME]
                             + missq_num'[m] = missq_ifq_size
                      /\ credit'[m]["WTBK"][HOME] + credit_ev'[m]["WTBK"][HOME]
                           + wtbkq_num'[m] = wtbkq_ifq_size
    BY DEF HomeCredit
  <2>1. /\ \A u \in {"REQ", "INVN"} :
             credit[m][u][HOME] + credit_ev[m]["REQ"][HOME]
               + missq_num[m] = missq_ifq_size
        /\ credit[m]["WTBK"][HOME] + credit_ev[m]["WTBK"][HOME]
             + wtbkq_num[m] = wtbkq_ifq_size
    BY <1>0 DEF HomeCredit
  <2>2. CASE m # n
    BY <1>10, <1>11, <2>1, <2>2 DEF Types
  <2>3. CASE m = n
    <3>1. \A u \in {"REQ", "INVN"} :
            /\ credit'[n][u][HOME] = credit[n][u][HOME] - miss
            /\ credit[n][u][HOME] \in Int
      BY <1>10 DEF Types
    <3>2. /\ credit_ev'[n]["REQ"][HOME] = credit_ev[n]["REQ"][HOME] + freed
          /\ credit_ev[n]["REQ"][HOME] \in Nat
      BY <1>10, <1>h
    <3>3. /\ credit'[n]["WTBK"][HOME] = credit[n]["WTBK"][HOME] - reserve
          /\ credit[n]["WTBK"][HOME] \in Int
          /\ credit_ev'[n]["WTBK"][HOME] = credit_ev[n]["WTBK"][HOME] + retired
          /\ credit_ev[n]["WTBK"][HOME] \in Nat
      BY <1>10, <1>h
    <3>4. \A u \in {"REQ", "INVN"} :
            credit'[n][u][HOME] + credit_ev'[n]["REQ"][HOME] + missq_num'[n]
              = missq_ifq_size
      BY <1>4, <1>11, <2>1, <2>3, <3>1, <3>2
    <3>5. credit'[n]["WTBK"][HOME] + credit_ev'[n]["WTBK"][HOME] + wtbkq_num'[n]
            = wtbkq_ifq_size
      BY <1>4, <1>11, <2>1, <2>3, <3>3
    <3>6. QED  BY <2>3, <3>4, <3>5
  <2>4. QED  BY <2>2, <2>3
<1>18. HomeEvents'
  <2>1. spent("RESP") = 0 /\ back("RESP") = 0 /\ back("INVN") = 0
    OBVIOUS
  <2> HIDE DEF spent, back
  <2>2. \A m \in Nodes : /\ credit'[m]["RESP"][HOME] = credit[m]["RESP"][HOME]
                         /\ credit_ev'[m]["RESP"][HOME] = credit_ev[m]["RESP"][HOME]
                         /\ credit_ev'[m]["INVN"][HOME] = credit_ev[m]["INVN"][HOME]
    BY <1>10, <1>h, <2>1
  <2>3. QED  BY <1>0, <1>2, <2>2 DEF HomeEvents
<1>19. HomeHasRoom'
  <2> SUFFICES ASSUME NEW m \in Nodes
               PROVE  /\ grant[m]["REQ"][HOME] # NULL
                           => missq_num'[m] < missq_ifq_size - 1
                      /\ grant[m]["INVN"][HOME] # NULL
                           => missq_num'[m] < missq_ifq_size
                      /\ grant[m]["WTBK"][HOME] # NULL
                           => wtbkq_num'[m] < wtbkq_ifq_size
    BY <1>3 DEF HomeHasRoom
  <2>1. /\ grant[m]["REQ"][HOME] # NULL => missq_num[m] < missq_ifq_size - 1
        /\ grant[m]["INVN"][HOME] # NULL => missq_num[m] < missq_ifq_size
        /\ grant[m]["WTBK"][HOME] # NULL => wtbkq_num[m] < wtbkq_ifq_size
    BY <1>0 DEF HomeHasRoom
  <2>2. CASE m # n
    BY <1>11, <2>1, <2>2
  <2>3. CASE m = n
    BY <1>1, <1>4, <1>11, <2>1, <2>3, SizeAssumption
  <2>4. QED  BY <2>2, <2>3
<1>20. HomeBounds'
  <2> SUFFICES ASSUME NEW m \in Nodes, NEW u \in Types, NEW i \in Dirs
               PROVE  credit'[m][u][i] >= 0
    BY <1>0, <1>3 DEF HomeBounds
  <2>1. credit[m][u][i] \in Int /\ credit[m][u][i] >= 0
    BY <1>0, PortType DEF HomeBounds
  <2>2. CASE ~(m = n /\ i = HOME /\ u # "RESP")
    BY <1>7, <2>1, <2>2 DEF Types
  <2>3. CASE m = n /\ i = HOME /\ u \in {"REQ", "INVN"}
    <3>1. credit_ev[n]["REQ"][HOME] = 0
      BY <1>0, <1>2, <1>h DEF HomeEvents
    <3>2. credit[n][u][HOME] + missq_num[n] = missq_ifq_size
      BY <1>0, <1>4, <2>1, <2>3, <3>1 DEF HomeCredit
    <3>3. credit'[n][u][HOME] = credit[n][u][HOME] - miss
      BY <1>7, <1>h, <2>3
    <3>4. QED  BY <1>1, <1>4, <2>1, <2>3, <3>2, <3>3, SizeAssumption
  <2>4. CASE m = n /\ i = HOME /\ u = "WTBK"
    <3>1. credit_ev[n]["WTBK"][HOME] = 0
      BY <1>0, <1>2, <1>h DEF HomeEvents
    <3>2. credit[n]["WTBK"][HOME] + wtbkq_num[n] = wtbkq_ifq_size
      BY <1>0, <1>4, <2>1, <2>4, <3>1 DEF HomeCredit
    <3>3. credit'[n]["WTBK"][HOME] = credit[n]["WTBK"][HOME] - reserve
      BY <1>7, <1>h
    <3>4. QED  BY <1>1, <1>4, <2>1, <2>4, <3>2, <3>3, SizeAssumption
  <2>5. QED  BY <2>2, <2>3, <2>4 DEF Types
<1>21. QED
  BY <1>12, <1>13, <1>14, <1>15, <1>16, <1>17, <1>18, <1>19, <1>20 DEF IInv

-----------------------------------------------------------------------------
(***************************************************************************)
(* noc_stage: what it moves, and that it preserves the invariant.          *)
(***************************************************************************)

\* A granted flit is there, and it goes on, not back.
LEMMA GrantedFlit ==
  ASSUME TypeOK, GrantSound, NoUTurn,
         NEW n \in Nodes, NEW t \in Types, NEW d \in Dirs, grant[n][t][d] # NULL
  PROVE  /\ grant[n][t][d] \in Dirs
         /\ ingress[n][t][grant[n][t][d]] # <<>>
         /\ Flit(n, t, d) \in Packets
         /\ Flit(n, t, d).dst \in Nodes
         /\ Route(n, Flit(n, t, d).dst) = d
         /\ grant[n][t][d] \in Links => grant[n][t][d] # d
<1> DEFINE g == grant[n][t][d]
           s == ingress[n][t][g]
<1>1. g \in Dirs
  BY PortType
<1>2. s \in Seq(Packets) /\ s # <<>>
  BY <1>1, PortType DEF GrantSound
<1>3. Head(s) \in Packets /\ Head(s) = s[1] /\ 1 \in 1 .. Len(s)
  BY <1>2, HeadTailProperties
<1>4. Head(s).dst \in Nodes
  BY <1>3 DEF Packets
<1>5. Route(n, Head(s).dst) = d
  BY DEF GrantSound, Flit
<1>6. Ahead(n, g, Head(s).dst)
  BY <1>1, <1>3 DEF NoUTurn
<1>7. g \in Links => g # d
  BY <1>4, <1>5, <1>6, RouteAhead
<1>8. QED  BY <1>1, <1>2, <1>3, <1>4, <1>5, <1>7 DEF Flit

\* So a buffer that a flit leaves returns a credit for it.
LEMMA DepartsReturns ==
  ASSUME TypeOK, GrantSound, NoUTurn, NEW n \in Nodes, NEW t \in Types
  PROVE  /\ \A i \in Dirs : Departs(n, t, i) => ingress[n][t][i] # <<>>
         /\ \A i \in Links : Departs(n, t, i) <=> ReturnsCredit(n, t, i)
<1>1. ASSUME NEW i \in Dirs, NEW d \in Dirs, Leaves(n, t, d), grant[n][t][d] = i
      PROVE  ingress[n][t][i] # <<>> /\ (i \in Links => d # i)
  <2>1. grant[n][t][d] # NULL
    BY <1>1 DEF Leaves
  <2>2. QED  BY <1>1, <2>1, GrantedFlit
<1>2. \A i \in Dirs : Departs(n, t, i) => ingress[n][t][i] # <<>>
  BY <1>1 DEF Departs
<1>3. \A i \in Links : Departs(n, t, i) <=> ReturnsCredit(n, t, i)
  BY <1>1 DEF Departs, ReturnsCredit, Links
<1>4. QED  BY <1>2, <1>3

\* What leaving flits cost.
LEMMA CreditSpentType ==
  ASSUME NEW n \in Nodes, NEW t \in Types
  PROVE  /\ \A d \in Links : CreditSpent(n, t, d) = IF Leaves(n, t, d) THEN 1 ELSE 0
         /\ t \in {"REQ", "INVN"} => CreditSpent(n, t, HOME) = MissqEntered(n)
         /\ t = "WTBK" => CreditSpent(n, t, HOME) = WtbkqEntered(n)
         /\ t = "RESP" => CreditSpent(n, t, HOME) = 0
         /\ \A d \in Dirs : CreditSpent(n, t, d) \in 0 .. 2
         /\ MissqEntered(n) = (IF Leaves(n, "REQ", HOME) THEN 1 ELSE 0)
                              + (IF Leaves(n, "INVN", HOME) THEN 1 ELSE 0)
         /\ WtbkqEntered(n) = IF Leaves(n, "WTBK", HOME) THEN 1 ELSE 0
<1>1. /\ MissqEntered(n) = (IF Leaves(n, "REQ", HOME) THEN 1 ELSE 0)
                           + (IF Leaves(n, "INVN", HOME) THEN 1 ELSE 0)
      /\ WtbkqEntered(n) = IF Leaves(n, "WTBK", HOME) THEN 1 ELSE 0
  BY DEF MissqEntered, WtbkqEntered, One
<1>2. MissqEntered(n) \in 0 .. 2 /\ WtbkqEntered(n) \in 0 .. 2
  BY <1>1
<1>3. \A d \in Links : CreditSpent(n, t, d) = IF Leaves(n, t, d) THEN 1 ELSE 0
  BY DEF CreditSpent, One, Links
<1>4. t \in {"REQ", "INVN"} => CreditSpent(n, t, HOME) = MissqEntered(n)
  BY DEF CreditSpent
<1>5. t = "WTBK" => CreditSpent(n, t, HOME) = WtbkqEntered(n)
  BY DEF CreditSpent
<1>6. t = "RESP" => CreditSpent(n, t, HOME) = 0
  BY DEF CreditSpent
<1>7. CreditSpent(n, t, HOME) \in 0 .. 2
  BY <1>2, <1>4, <1>5, <1>6 DEF Types
<1>8. \A d \in Dirs : CreditSpent(n, t, d) \in 0 .. 2
  BY <1>3, <1>7 DEF Links
<1>9. QED  BY <1>1, <1>3, <1>4, <1>5, <1>6, <1>8

\* The buffer changes of one noc_stage, port by port.
LEMMA TraverseFlits ==
  ASSUME TypeOK, GrantSound, NoUTurn, NEW n \in Nodes, flit_traverse(n)
  PROVE  /\ ingress' \in [Nodes -> [Types -> [Dirs -> Seq(Packets)]]]
         /\ wire' \in [Nodes -> [Types -> [Dirs -> Seq(Packets)]]]
         /\ \A m \in Nodes, u \in Types, i \in Dirs :
              ingress'[m][u][i] = IF m = n /\ Departs(n, u, i)
                                  THEN Tail(ingress[m][u][i])
                                  ELSE ingress[m][u][i]
         /\ \A m \in Nodes, u \in Types, i \in Dirs :
              wire'[m][u][i]
                = IF i # HOME /\ Nbr(m, i) = n /\ Leaves(n, u, Opposite(i))
                  THEN Append(wire[m][u][i], Flit(n, u, Opposite(i)))
                  ELSE wire[m][u][i]
<1>1. ingress' = [ingress EXCEPT ![n] = [t \in Types |-> [i \in Dirs |->
        IF Departs(n, t, i) THEN Tail(ingress[n][t][i]) ELSE ingress[n][t][i]]]]
  BY DEF flit_traverse
<1>2. wire' = [m \in Nodes |-> [t \in Types |-> [i \in Dirs |->
        IF i # HOME /\ Nbr(m, i) = n /\ Leaves(n, t, Opposite(i))
        THEN Append(wire[m][t][i], Flit(n, t, Opposite(i)))
        ELSE wire[m][t][i]]]]
  BY DEF flit_traverse
<1>it. ingress \in [Nodes -> [Types -> [Dirs -> Seq(Packets)]]]
  BY DEF TypeOK
<1>3. \A m \in Nodes, u \in Types, i \in Dirs :
        ingress'[m][u][i] = IF m = n /\ Departs(n, u, i)
                            THEN Tail(ingress[m][u][i])
                            ELSE ingress[m][u][i]
  BY <1>1, <1>it
<1>4. \A m \in Nodes, u \in Types, i \in Dirs :
        wire'[m][u][i]
          = IF i # HOME /\ Nbr(m, i) = n /\ Leaves(n, u, Opposite(i))
            THEN Append(wire[m][u][i], Flit(n, u, Opposite(i)))
            ELSE wire[m][u][i]
  BY <1>2
<1>5. ASSUME NEW m \in Nodes, NEW u \in Types, NEW i \in Dirs
      PROVE  ingress'[m][u][i] \in Seq(Packets) /\ wire'[m][u][i] \in Seq(Packets)
  <2>1. ingress[m][u][i] \in Seq(Packets) /\ wire[m][u][i] \in Seq(Packets)
    BY PortType
  <2>2. m = n /\ Departs(n, u, i) => Tail(ingress[m][u][i]) \in Seq(Packets)
    BY <2>1, DepartsReturns, HeadTailProperties
  <2>3. i # HOME /\ Leaves(n, u, Opposite(i)) => Flit(n, u, Opposite(i)) \in Packets
    <3>1. i # HOME => Opposite(i) \in Dirs
      BY DEF Opposite, Dirs
    <3>2. QED  BY <3>1, GrantedFlit DEF Leaves
  <2>4. ingress'[m][u][i] \in Seq(Packets)
    BY <1>3, <2>1, <2>2
  <2>5. CASE i # HOME /\ Nbr(m, i) = n /\ Leaves(n, u, Opposite(i))
    <3>1. wire'[m][u][i] = Append(wire[m][u][i], Flit(n, u, Opposite(i)))
      BY <1>4, <2>5
    <3>2. QED  BY <2>1, <2>3, <2>4, <2>5, <3>1, AppendKeeps
  <2>6. CASE ~(i # HOME /\ Nbr(m, i) = n /\ Leaves(n, u, Opposite(i)))
    <3>1. wire'[m][u][i] = wire[m][u][i]
      BY <1>4, <2>6
    <3>2. QED  BY <2>1, <2>4, <3>1
  <2>7. QED  BY <2>5, <2>6
<1>6. ingress' \in [Nodes -> [Types -> [Dirs -> Seq(Packets)]]]
  <2>1. \A m \in Nodes : ingress'[m] = [u \in Types |-> [i \in Dirs |-> ingress'[m][u][i]]]
    BY <1>1, <1>it
  <2>2. ingress' = [m \in Nodes |-> ingress'[m]]
    BY <1>1, <1>it
  <2>3. QED  BY <1>5, <2>1, <2>2
<1>7. wire' \in [Nodes -> [Types -> [Dirs -> Seq(Packets)]]]
  <2>1. \A m \in Nodes : wire'[m] = [u \in Types |-> [i \in Dirs |-> wire'[m][u][i]]]
    BY <1>2
  <2>2. wire' = [m \in Nodes |-> wire'[m]]
    BY <1>2
  <2>3. QED  BY <1>5, <2>1, <2>2
<1>8. QED  BY <1>3, <1>4, <1>6, <1>7

\* Its credit changes.
LEMMA TraverseCredits ==
  ASSUME TypeOK, NEW n \in Nodes, flit_traverse(n)
  PROVE  /\ credit' \in [Nodes -> [Types -> [Dirs -> Int]]]
         /\ credit_ev' \in [Nodes -> [Types -> [Dirs -> Nat]]]
         /\ missq_num' \in [Nodes -> Nat] /\ wtbkq_num' \in [Nodes -> Nat]
         /\ \A m \in Nodes, u \in Types, i \in Dirs :
              credit'[m][u][i] = IF m = n THEN credit[m][u][i] - CreditSpent(n, u, i)
                                 ELSE credit[m][u][i]
         /\ \A m \in Nodes, u \in Types, i \in Dirs :
              credit_ev'[m][u][i]
                = IF i # HOME /\ Nbr(m, i) = n /\ ReturnsCredit(n, u, Opposite(i))
                  THEN credit_ev[m][u][i] + 1 ELSE credit_ev[m][u][i]
         /\ missq_num'[n] = missq_num[n] + MissqEntered(n)
         /\ wtbkq_num'[n] = wtbkq_num[n] + WtbkqEntered(n)
         /\ \A m \in Nodes \ {n} : missq_num'[m] = missq_num[m]
                                   /\ wtbkq_num'[m] = wtbkq_num[m]
<1>1. credit' = [credit EXCEPT ![n] = [t \in Types |-> [d \in Dirs |->
        credit[n][t][d] - CreditSpent(n, t, d)]]]
  BY DEF flit_traverse
<1>2. credit_ev' = [m \in Nodes |-> [t \in Types |-> [d \in Dirs |->
        IF d # HOME /\ Nbr(m, d) = n /\ ReturnsCredit(n, t, Opposite(d))
        THEN credit_ev[m][t][d] + 1
        ELSE credit_ev[m][t][d]]]]
  BY DEF flit_traverse
<1>3. /\ missq_num' = [missq_num EXCEPT ![n] = missq_num[n] + MissqEntered(n)]
      /\ wtbkq_num' = [wtbkq_num EXCEPT ![n] = wtbkq_num[n] + WtbkqEntered(n)]
  BY DEF flit_traverse
<1>ct. credit \in [Nodes -> [Types -> [Dirs -> Int]]]
  BY DEF TypeOK
<1>et. credit_ev \in [Nodes -> [Types -> [Dirs -> Nat]]]
  BY DEF TypeOK
<1>4. \A m \in Nodes, u \in Types, i \in Dirs :
        credit'[m][u][i] = IF m = n THEN credit[m][u][i] - CreditSpent(n, u, i)
                           ELSE credit[m][u][i]
  BY <1>1, <1>ct
<1>5. \A m \in Nodes, u \in Types, i \in Dirs :
        credit_ev'[m][u][i]
          = IF i # HOME /\ Nbr(m, i) = n /\ ReturnsCredit(n, u, Opposite(i))
            THEN credit_ev[m][u][i] + 1 ELSE credit_ev[m][u][i]
  BY <1>2
<1>6. credit' \in [Nodes -> [Types -> [Dirs -> Int]]]
  <2>1. \A t \in Types, d \in Dirs : credit[n][t][d] - CreditSpent(n, t, d) \in Int
    <3> TAKE t \in Types, d \in Dirs
    <3>1. credit[n][t][d] \in Int  BY PortType
    <3>2. CreditSpent(n, t, d) \in Int  BY CreditSpentType
    <3>3. QED  BY <3>1, <3>2
  <2>2. [t \in Types |-> [d \in Dirs |-> credit[n][t][d] - CreditSpent(n, t, d)]]
          \in [Types -> [Dirs -> Int]]
    BY <2>1
  <2>3. QED  BY <1>1, <1>ct, <2>2
<1>7. credit_ev' \in [Nodes -> [Types -> [Dirs -> Nat]]]
  BY <1>2, <1>et
<1>8. /\ missq_num \in [Nodes -> Nat] /\ wtbkq_num \in [Nodes -> Nat]
      /\ MissqEntered(n) \in Nat /\ WtbkqEntered(n) \in Nat
  <2>1. MissqEntered(n) \in Nat /\ WtbkqEntered(n) \in Nat
    BY DEF MissqEntered, WtbkqEntered, One
  <2>2. QED  BY <2>1 DEF TypeOK
<1>9. /\ missq_num' \in [Nodes -> Nat] /\ wtbkq_num' \in [Nodes -> Nat]
      /\ missq_num'[n] = missq_num[n] + MissqEntered(n)
      /\ wtbkq_num'[n] = wtbkq_num[n] + WtbkqEntered(n)
      /\ \A m \in Nodes \ {n} : missq_num'[m] = missq_num[m]
                                /\ wtbkq_num'[m] = wtbkq_num[m]
  BY <1>3, <1>8
<1>10. QED  BY <1>4, <1>5, <1>6, <1>7, <1>9

\* What the next cycle is granted.
LEMMA ArbitrateSound ==
  ASSUME TypeOK, NEW n \in Nodes, arbitrate(n),
         ingress' \in [Nodes -> [Types -> [Dirs -> Seq(Packets)]]],
         credit' \in [Nodes -> [Types -> [Dirs -> Int]]]
  PROVE  /\ grant' \in [Nodes -> [Types -> [Dirs -> Dirs \cup {NULL}]]]
         /\ last_grant' \in [Nodes -> [Types -> [Dirs -> Dirs \cup {NOUGHT}]]]
         /\ \A m \in Nodes \ {n} : grant'[m] = grant[m]
         /\ \A u \in Types, i \in Dirs :
              LET g == grant'[n][u][i] IN
              g # NULL => /\ g \in Dirs
                          /\ ingress'[n][u][g] # <<>>
                          /\ Route(n, Head(ingress'[n][u][g]).dst) = i
                          /\ CreditOpen(u, i, credit'[n][u][i])
<1> DEFINE won(u, i) == Winner(n, u, i, ingress'[n][u], credit'[n][u])
           last(u, i) == IF won(u, i) = NULL THEN last_grant[n][u][i] ELSE won(u, i)
<1>1. grant' = [grant EXCEPT ![n] = [u \in Types |-> [i \in Dirs |-> won(u, i)]]]
  BY DEF arbitrate
<1>2. last_grant' = [last_grant EXCEPT ![n] =
                       [u \in Types |-> [i \in Dirs |-> last(u, i)]]]
  BY DEF arbitrate
<1>3. ASSUME NEW u \in Types, NEW i \in Dirs
      PROVE  /\ won(u, i) \in Dirs \cup {NULL}
             /\ won(u, i) # NULL =>
                  /\ ingress'[n][u][won(u, i)] # <<>>
                  /\ Route(n, Head(ingress'[n][u][won(u, i)]).dst) = i
                  /\ CreditOpen(u, i, credit'[n][u][i])
             /\ last(u, i) \in Dirs \cup {NOUGHT}
  <2>1. ingress'[n][u] \in [Dirs -> Seq(Packets)] /\ credit'[n][u] \in [Dirs -> Int]
    OBVIOUS
  <2>2. last_grant[n][u][i] \in Dirs \cup {NOUGHT}
    BY PortType
  <2>3. /\ won(u, i) \in Dirs \cup {NULL}
        /\ won(u, i) # NULL =>
             /\ ingress'[n][u][won(u, i)] # <<>>
             /\ Route(n, Head(ingress'[n][u][won(u, i)]).dst) = i
             /\ CreditOpen(u, i, credit'[n][u][i])
    BY <2>1, <2>2, WinnerSound
  <2> HIDE DEF won
  <2>4. QED  BY <2>2, <2>3
<1>gt. grant \in [Nodes -> [Types -> [Dirs -> Dirs \cup {NULL}]]]
  BY DEF TypeOK
<1>lt. last_grant \in [Nodes -> [Types -> [Dirs -> Dirs \cup {NOUGHT}]]]
  BY DEF TypeOK
<1> HIDE DEF won, last
<1>4. grant' \in [Nodes -> [Types -> [Dirs -> Dirs \cup {NULL}]]]
  BY <1>1, <1>3, <1>gt
<1>5. last_grant' \in [Nodes -> [Types -> [Dirs -> Dirs \cup {NOUGHT}]]]
  BY <1>2, <1>3, <1>lt
<1>6. \A m \in Nodes \ {n} : grant'[m] = grant[m]
  BY <1>1, <1>gt
<1>7. \A u \in Types, i \in Dirs : grant'[n][u][i] = won(u, i)
  BY <1>1, <1>gt
<1>8. ASSUME NEW u \in Types, NEW i \in Dirs, grant'[n][u][i] # NULL
      PROVE  /\ grant'[n][u][i] \in Dirs
             /\ ingress'[n][u][grant'[n][u][i]] # <<>>
             /\ Route(n, Head(ingress'[n][u][grant'[n][u][i]]).dst) = i
             /\ CreditOpen(u, i, credit'[n][u][i])
  BY <1>3, <1>7, <1>8
<1>9. QED  BY <1>4, <1>5, <1>6, <1>8

\* noc_stage preserves the invariant.
LEMMA NocStageStep ==
  ASSUME IInv, NEW n \in Nodes, noc_stage(n)
  PROVE  IInv'
<1>0. /\ TypeOK /\ GrantSound /\ NoUTurn /\ LinkCredit /\ BorderIdle
      /\ HomeCredit /\ HomeEvents /\ HomeHasRoom /\ HomeBounds
  BY DEF IInv
<1>h. /\ HOME \in Dirs /\ "REQ" \in Types /\ "INVN" \in Types
      /\ "WTBK" \in Types /\ "RESP" \in Types
  BY DEF Dirs, Types
<1>1. flit_traverse(n) /\ arbitrate(n)
  BY DEF noc_stage
<1>2. /\ executing' = {n} /\ done' = done
      /\ \A m \in Nodes, u \in Types : credit_ev[m][u][HOME] = 0
  BY DEF noc_stage, NoHomeEvents
<1>it. ingress' \in [Nodes -> [Types -> [Dirs -> Seq(Packets)]]]
  BY <1>0, <1>1, TraverseFlits
<1>wt. wire' \in [Nodes -> [Types -> [Dirs -> Seq(Packets)]]]
  BY <1>0, <1>1, TraverseFlits
<1>3. \A m \in Nodes, u \in Types, i \in Dirs :
        ingress'[m][u][i] = IF m = n /\ Departs(n, u, i)
                            THEN Tail(ingress[m][u][i])
                            ELSE ingress[m][u][i]
  BY <1>0, <1>1, TraverseFlits
<1>4. \A m \in Nodes, u \in Types, i \in Dirs :
        wire'[m][u][i]
          = IF i # HOME /\ Nbr(m, i) = n /\ Leaves(n, u, Opposite(i))
            THEN Append(wire[m][u][i], Flit(n, u, Opposite(i)))
            ELSE wire[m][u][i]
  BY <1>0, <1>1, TraverseFlits
<1>ct. credit' \in [Nodes -> [Types -> [Dirs -> Int]]]
  BY <1>0, <1>1, TraverseCredits
<1>et. credit_ev' \in [Nodes -> [Types -> [Dirs -> Nat]]]
  BY <1>0, <1>1, TraverseCredits
<1>5. \A m \in Nodes, u \in Types, i \in Dirs :
        credit'[m][u][i] = IF m = n THEN credit[m][u][i] - CreditSpent(n, u, i)
                           ELSE credit[m][u][i]
  BY <1>0, <1>1, TraverseCredits
<1>6. \A m \in Nodes, u \in Types, i \in Dirs :
        credit_ev'[m][u][i]
          = IF i # HOME /\ Nbr(m, i) = n /\ ReturnsCredit(n, u, Opposite(i))
            THEN credit_ev[m][u][i] + 1 ELSE credit_ev[m][u][i]
  BY <1>0, <1>1, TraverseCredits
<1>7. /\ missq_num' \in [Nodes -> Nat] /\ wtbkq_num' \in [Nodes -> Nat]
      /\ missq_num'[n] = missq_num[n] + MissqEntered(n)
      /\ wtbkq_num'[n] = wtbkq_num[n] + WtbkqEntered(n)
      /\ \A m \in Nodes \ {n} : missq_num'[m] = missq_num[m]
                                /\ wtbkq_num'[m] = wtbkq_num[m]
  BY <1>0, <1>1, TraverseCredits
<1>8. /\ grant' \in [Nodes -> [Types -> [Dirs -> Dirs \cup {NULL}]]]
      /\ last_grant' \in [Nodes -> [Types -> [Dirs -> Dirs \cup {NOUGHT}]]]
  BY <1>0, <1>1, <1>it, <1>ct, ArbitrateSound
<1>9. \A m \in Nodes \ {n} : grant'[m] = grant[m]
  BY <1>0, <1>1, <1>it, <1>ct, ArbitrateSound
<1>10. ASSUME NEW u \in Types, NEW i \in Dirs, grant'[n][u][i] # NULL
       PROVE  /\ grant'[n][u][i] \in Dirs
              /\ ingress'[n][u][grant'[n][u][i]] # <<>>
              /\ Route(n, Head(ingress'[n][u][grant'[n][u][i]]).dst) = i
              /\ CreditOpen(u, i, credit'[n][u][i])
  BY <1>0, <1>1, <1>it, <1>ct, <1>10, ArbitrateSound
<1>11. TypeOK'
  BY <1>0, <1>2, <1>7, <1>8, <1>it, <1>wt, <1>ct, <1>et DEF TypeOK
<1>12. GrantSound'
  <2> SUFFICES ASSUME NEW m \in Nodes, NEW u \in Types, NEW i \in Dirs,
                      grant'[m][u][i] # NULL
               PROVE  LET g == grant'[m][u][i] IN
                      /\ ingress'[m][u][g] # <<>>
                      /\ Route(m, Head(ingress'[m][u][g]).dst) = i
                      /\ i # HOME => credit'[m][u][i] > 0
    BY DEF GrantSound, Flit
  <2>1. CASE m = n
    <3>1. i # HOME => credit'[n][u][i] > 0
      BY <1>10, <2>1 DEF CreditOpen
    <3>2. QED  BY <1>10, <2>1, <3>1
  <2>2. CASE m # n
    <3>1. grant'[m][u][i] = grant[m][u][i]
      BY <1>9, <2>2
    <3>2. grant[m][u][i] \in Dirs
      BY <1>0, <3>1, PortType
    <3>3. ingress'[m][u][grant[m][u][i]] = ingress[m][u][grant[m][u][i]]
      BY <1>3, <2>2, <3>2
    <3>4. credit'[m][u][i] = credit[m][u][i]
      BY <1>5, <2>2
    <3>5. /\ ingress[m][u][grant[m][u][i]] # <<>>
          /\ Route(m, Head(ingress[m][u][grant[m][u][i]]).dst) = i
          /\ i # HOME => credit[m][u][i] > 0
      BY <1>0, <3>1 DEF GrantSound, Flit
    <3>6. QED  BY <3>1, <3>3, <3>4, <3>5
  <2>3. QED  BY <2>1, <2>2
<1>13. NoUTurn'
  <2> SUFFICES ASSUME NEW m \in Nodes, NEW u \in Types, NEW i \in Dirs
               PROVE  /\ \A k \in 1 .. Len(ingress'[m][u][i]) :
                           Ahead(m, i, ingress'[m][u][i][k].dst)
                      /\ \A k \in 1 .. Len(wire'[m][u][i]) :
                           Ahead(m, i, wire'[m][u][i][k].dst)
    BY DEF NoUTurn
  <2> DEFINE b == ingress[m][u][i]
             w == wire[m][u][i]
             b1 == ingress'[m][u][i]
             w1 == wire'[m][u][i]
  <2>1. b \in Seq(Packets) /\ w \in Seq(Packets)
    BY <1>0, PortType
  <2>2. /\ \A k \in 1 .. Len(b) : Ahead(m, i, b[k].dst)
        /\ \A k \in 1 .. Len(w) : Ahead(m, i, w[k].dst)
    BY <1>0 DEF NoUTurn
  <2>3. \A k \in 1 .. Len(b1) : Ahead(m, i, b1[k].dst)
    <3>1. CASE m = n /\ Departs(n, u, i)
      <4>1. b1 = Tail(b)
        BY <1>3, <3>1
      <4>2. b # <<>>
        BY <1>0, <3>1, DepartsReturns
      <4> HIDE DEF b, b1
      <4>3. \A k \in 1 .. Len(b1) : b1[k] = b[k + 1] /\ k + 1 \in 1 .. Len(b)
        BY <2>1, <4>1, <4>2, HeadTailProperties
      <4>4. QED  BY <2>2, <4>3
    <3>2. CASE ~(m = n /\ Departs(n, u, i))
      BY <1>3, <2>2, <3>2
    <3>3. QED  BY <3>1, <3>2
  <2>4. \A k \in 1 .. Len(w1) : Ahead(m, i, w1[k].dst)
    <3>1. CASE i # HOME /\ Nbr(m, i) = n /\ Leaves(n, u, Opposite(i))
      <4> DEFINE d == Opposite(i)
                 p == Flit(n, u, d)
      <4>1. i \in Links
        BY <3>1 DEF Links
      <4>2. d \in Links /\ Opposite(d) = i /\ Nbr(n, d) = m
        BY <3>1, <4>1, NbrBack
      <4>3. /\ p \in Packets /\ p.dst \in Nodes /\ Route(n, p.dst) = d
        BY <1>0, <3>1, <4>2, GrantedFlit DEF Leaves, Links
      <4>4. Ahead(m, i, p.dst)
        BY <4>2, <4>3, RouteAhead
      <4>5. w1 = Append(w, p)
        BY <1>4, <3>1
      <4> HIDE DEF w, w1, p
      <4>6. \A k \in 1 .. Len(w1) : w1[k] = IF k \in 1 .. Len(w) THEN w[k] ELSE p
        BY <2>1, <4>3, <4>5, AppendKeeps
      <4>7. QED  BY <2>2, <4>4, <4>6
    <3>2. CASE ~(i # HOME /\ Nbr(m, i) = n /\ Leaves(n, u, Opposite(i)))
      BY <1>4, <2>2, <3>2
    <3>3. QED  BY <3>1, <3>2
  <2>5. QED  BY <2>3, <2>4
<1>14. LinkCredit'
  <2> SUFFICES ASSUME NEW k \in Nodes, NEW u \in Types, NEW d \in Links,
                      Nbr(k, d) \in Nodes
               PROVE  credit'[k][u][d] + credit_ev'[k][u][d]
                        + Len(wire'[Nbr(k, d)][u][Opposite(d)])
                        + Len(ingress'[Nbr(k, d)][u][Opposite(d)])
                          = router_ifq_size
    BY DEF LinkCredit
  <2> DEFINE m == Nbr(k, d)
             e == Opposite(d)
             sent == k = n /\ Leaves(n, u, d)
             gone == m = n /\ Departs(n, u, e)
             lb == Len(ingress[m][u][e])
             lb1 == Len(ingress'[m][u][e])
             lw == Len(wire[m][u][e])
             lw1 == Len(wire'[m][u][e])
             c == credit[k][u][d]
             c1 == credit'[k][u][d]
             v == credit_ev[k][u][d]
             v1 == credit_ev'[k][u][d]
  <2>1. /\ m \in Nodes /\ e \in Links /\ e \in Dirs /\ e # HOME
        /\ d \in Dirs /\ d # HOME /\ Opposite(e) = d /\ Nbr(m, e) = k /\ m # k
    BY NbrBack DEF Links
  <2>2. c + v + lw + lb = router_ifq_size
    BY <1>0 DEF LinkCredit
  <2>3. c \in Int /\ v \in Nat /\ lw \in Nat /\ lb \in Nat
    BY <1>0, <2>1, PortType
  <2>4. c1 = IF sent THEN c - 1 ELSE c
    <3>1. CreditSpent(n, u, d) = IF Leaves(n, u, d) THEN 1 ELSE 0
      BY CreditSpentType
    <3>2. c1 = IF k = n THEN c - CreditSpent(n, u, d) ELSE c
      BY <1>5, <2>1
    <3> HIDE DEF c, c1
    <3>3. QED  BY <2>3, <3>1, <3>2
  <2>5. v1 = IF gone THEN v + 1 ELSE v
    <3>1. Departs(n, u, e) <=> ReturnsCredit(n, u, e)
      BY <1>0, <2>1, DepartsReturns
    <3>2. QED  BY <1>6, <2>1, <3>1
  <2>6. lw1 = IF sent THEN lw + 1 ELSE lw
    <3>1. wire[m][u][e] \in Seq(Packets)
      BY <1>0, <2>1, PortType
    <3>2. CASE sent
      <4>1. Flit(n, u, d) \in Packets
        BY <1>0, <2>1, <3>2, GrantedFlit DEF Leaves
      <4>2. wire'[m][u][e] = Append(wire[m][u][e], Flit(n, u, d))
        <5>1. Nbr(m, e) = n /\ Leaves(n, u, Opposite(e)) /\ Opposite(e) = d
          BY <2>1, <3>2
        <5> HIDE DEF m, e
        <5>2. QED  BY <1>4, <2>1, <5>1
      <4>3. lw1 = lw + 1
        BY <3>1, <4>1, <4>2, AppendKeeps
      <4>4. QED  BY <3>2, <4>3
    <3>3. CASE ~sent
      <4>1. wire'[m][u][e] = wire[m][u][e]
        BY <1>4, <2>1, <3>3
      <4>2. QED  BY <3>3, <4>1
    <3>4. QED  BY <3>2, <3>3
  <2>7. lb1 = IF gone THEN lb - 1 ELSE lb
    <3>1. ingress[m][u][e] \in Seq(Packets)
      BY <1>0, <2>1, PortType
    <3>2. CASE gone
      <4>1. ingress[m][u][e] # <<>>
        BY <1>0, <2>1, <3>2, DepartsReturns
      <4>2. ingress'[m][u][e] = Tail(ingress[m][u][e])
        BY <1>3, <2>1, <3>2
      <4>3. lb1 = lb - 1
        BY <3>1, <4>1, <4>2, HeadTailProperties
      <4>4. QED  BY <3>2, <4>3
    <3>3. CASE ~gone
      <4>1. ingress'[m][u][e] = ingress[m][u][e]
        BY <1>3, <2>1, <3>3
      <4>2. QED  BY <3>3, <4>1
    <3>4. QED  BY <3>2, <3>3
  <2> HIDE DEF sent, gone, lb, lb1, lw, lw1, c, c1, v, v1
  <2>8. c1 + v1 + lw1 + lb1 = router_ifq_size
    BY <2>2, <2>3, <2>4, <2>5, <2>6, <2>7
  <2>9. QED  BY <2>8 DEF c1, v1, lw1, lb1
<1>15. BorderIdle'
  <2> SUFFICES ASSUME NEW m \in Nodes, NEW u \in Types, NEW d \in Links,
                      Nbr(m, d) \notin Nodes
               PROVE  /\ credit'[m][u][d] = router_ifq_size
                      /\ credit_ev'[m][u][d] = 0
                      /\ ingress'[m][u][d] = <<>>
                      /\ wire'[m][u][d] = <<>>
    BY DEF BorderIdle
  <2>1. d \in Dirs
    BY DEF Links
  <2>2. /\ credit[m][u][d] = router_ifq_size
        /\ credit_ev[m][u][d] = 0
        /\ ingress[m][u][d] = <<>>
        /\ wire[m][u][d] = <<>>
    BY <1>0 DEF BorderIdle
  <2>3. credit_ev'[m][u][d] = 0 /\ wire'[m][u][d] = <<>>
    BY <1>4, <1>6, <2>1, <2>2
  <2>4. ingress'[m][u][d] = <<>>
    BY <1>0, <1>3, <2>1, <2>2, DepartsReturns
  <2>5. m = n => ~Leaves(n, u, d)
    BY <1>0, <2>1, GrantedFlit, RouteInside DEF Leaves
  <2>6. credit'[m][u][d] = router_ifq_size
    <3>1. m = n => CreditSpent(n, u, d) = 0
      BY <2>5, CreditSpentType
    <3>2. QED  BY <1>5, <2>1, <2>2, <3>1, SizeAssumption
  <2>7. QED  BY <2>3, <2>4, <2>6
<1>16. \A m \in Nodes, u \in Types : credit_ev'[m][u][HOME] = 0
  BY <1>2, <1>6, <1>h
<1>17. HomeEvents'
  <2>1. \A m \in Nodes : credit'[m]["RESP"][HOME] = 1
    <3> TAKE m \in Nodes
    <3>1. credit[m]["RESP"][HOME] = 1
      BY <1>0, <1>h DEF HomeEvents
    <3>2. CreditSpent(n, "RESP", HOME) = 0
      BY <1>h, CreditSpentType
    <3>3. QED  BY <1>5, <1>h, <3>1, <3>2
  <2>2. QED  BY <1>16, <2>1 DEF HomeEvents
<1>18. HomeCredit'
  <2> SUFFICES ASSUME NEW m \in Nodes
               PROVE  /\ \A u \in {"REQ", "INVN"} :
                           credit'[m][u][HOME] + credit_ev'[m]["REQ"][HOME]
                             + missq_num'[m] = missq_ifq_size
                      /\ credit'[m]["WTBK"][HOME] + credit_ev'[m]["WTBK"][HOME]
                           + wtbkq_num'[m] = wtbkq_ifq_size
    BY DEF HomeCredit
  <2>1. /\ \A u \in {"REQ", "INVN"} :
             credit[m][u][HOME] + 0 + missq_num[m] = missq_ifq_size
        /\ credit[m]["WTBK"][HOME] + 0 + wtbkq_num[m] = wtbkq_ifq_size
    <3>1. credit_ev[m]["REQ"][HOME] = 0 /\ credit_ev[m]["WTBK"][HOME] = 0
      BY <1>2, <1>h
    <3>2. QED  BY <1>0, <3>1 DEF HomeCredit
  <2>2. credit_ev'[m]["REQ"][HOME] = 0 /\ credit_ev'[m]["WTBK"][HOME] = 0
    BY <1>16, <1>h
  <2>3. missq_num[m] \in Nat /\ wtbkq_num[m] \in Nat
    BY <1>0 DEF TypeOK
  <2>4. CASE m # n
    <3>1. \A u \in Types : credit'[m][u][HOME] = credit[m][u][HOME]
      BY <1>5, <1>h, <2>4
    <3>2. QED  BY <1>7, <2>1, <2>2, <2>4, <3>1 DEF Types
  <2>5. CASE m = n
    <3>1. /\ MissqEntered(n) \in Nat /\ WtbkqEntered(n) \in Nat
      BY DEF MissqEntered, WtbkqEntered, One
    <3>2. \A u \in {"REQ", "INVN"} :
            credit'[n][u][HOME] = credit[n][u][HOME] - MissqEntered(n)
              /\ credit[n][u][HOME] \in Int
      <4> TAKE u \in {"REQ", "INVN"}
      <4>1. u \in Types
        BY DEF Types
      <4>2. CreditSpent(n, u, HOME) = MissqEntered(n)
        BY <4>1, CreditSpentType
      <4>3. credit[n][u][HOME] \in Int
        BY <1>0, <1>h, <4>1, PortType
      <4>4. QED  BY <1>5, <1>h, <4>1, <4>2, <4>3
    <3>3. credit'[n]["WTBK"][HOME] = credit[n]["WTBK"][HOME] - WtbkqEntered(n)
            /\ credit[n]["WTBK"][HOME] \in Int
      <4>1. CreditSpent(n, "WTBK", HOME) = WtbkqEntered(n)
        BY <1>h, CreditSpentType
      <4>2. credit[n]["WTBK"][HOME] \in Int
        BY <1>0, <1>h, PortType
      <4>3. QED  BY <1>5, <1>h, <4>1, <4>2
    <3>4. \A u \in {"REQ", "INVN"} :
            credit'[n][u][HOME] + 0 + missq_num'[n] = missq_ifq_size
      BY <1>7, <2>1, <2>3, <2>5, <3>1, <3>2
    <3>5. credit'[n]["WTBK"][HOME] + 0 + wtbkq_num'[n] = wtbkq_ifq_size
      BY <1>7, <2>1, <2>3, <2>5, <3>1, <3>3
    <3>6. QED  BY <2>2, <2>5, <3>4, <3>5
  <2>6. QED  BY <2>4, <2>5
<1>19. HomeHasRoom'
  <2> SUFFICES ASSUME NEW m \in Nodes
               PROVE  /\ grant'[m]["REQ"][HOME] # NULL
                           => missq_num'[m] < missq_ifq_size - 1
                      /\ grant'[m]["INVN"][HOME] # NULL
                           => missq_num'[m] < missq_ifq_size
                      /\ grant'[m]["WTBK"][HOME] # NULL
                           => wtbkq_num'[m] < wtbkq_ifq_size
    BY DEF HomeHasRoom
  <2>1. CASE m # n
    <3>1. missq_num'[m] = missq_num[m] /\ wtbkq_num'[m] = wtbkq_num[m]
      BY <1>7, <2>1
    <3>2. \A u \in Types : grant'[m][u][HOME] = grant[m][u][HOME]
      BY <1>9, <2>1
    <3>3. QED  BY <1>0, <1>h, <3>1, <3>2 DEF HomeHasRoom
  <2>2. CASE m = n
    <3>1. missq_num'[n] \in Nat /\ wtbkq_num'[n] \in Nat
      BY <1>7
    <3>2. /\ credit'[n]["REQ"][HOME] + missq_num'[n] = missq_ifq_size
          /\ credit'[n]["INVN"][HOME] + missq_num'[n] = missq_ifq_size
          /\ credit'[n]["WTBK"][HOME] + wtbkq_num'[n] = wtbkq_ifq_size
          /\ credit'[n]["REQ"][HOME] \in Int /\ credit'[n]["INVN"][HOME] \in Int
          /\ credit'[n]["WTBK"][HOME] \in Int
      <4>1. /\ credit'[n]["REQ"][HOME] \in Int /\ credit'[n]["INVN"][HOME] \in Int
            /\ credit'[n]["WTBK"][HOME] \in Int
        BY <1>ct, <1>h
      <4>2. credit_ev'[n]["REQ"][HOME] = 0 /\ credit_ev'[n]["WTBK"][HOME] = 0
        BY <1>16, <1>h
      <4>3. /\ credit'[n]["REQ"][HOME] + credit_ev'[n]["REQ"][HOME] + missq_num'[n]
                 = missq_ifq_size
            /\ credit'[n]["INVN"][HOME] + credit_ev'[n]["REQ"][HOME] + missq_num'[n]
                 = missq_ifq_size
            /\ credit'[n]["WTBK"][HOME] + credit_ev'[n]["WTBK"][HOME] + wtbkq_num'[n]
                 = wtbkq_ifq_size
        BY <1>18 DEF HomeCredit
      <4>4. QED  BY <3>1, <4>1, <4>2, <4>3
    <3>3. grant'[n]["REQ"][HOME] # NULL => credit'[n]["REQ"][HOME] > 1
      BY <1>10, <1>h DEF CreditOpen, One
    <3>4. grant'[n]["INVN"][HOME] # NULL => credit'[n]["INVN"][HOME] > 0
      BY <1>10, <1>h DEF CreditOpen, One
    <3>5. grant'[n]["WTBK"][HOME] # NULL => credit'[n]["WTBK"][HOME] > 0
      BY <1>10, <1>h DEF CreditOpen, One
    <3>6. QED  BY <2>2, <3>1, <3>2, <3>3, <3>4, <3>5, SizeAssumption
  <2>3. QED  BY <2>1, <2>2
<1>20. HomeBounds'
  <2>1. ASSUME NEW m \in Nodes, NEW u \in Types
        PROVE  Len(ingress'[m][u][HOME]) <= router_ifq_size
    <3>1. Len(ingress[m][u][HOME]) <= router_ifq_size
      BY <1>0 DEF HomeBounds
    <3>2. ingress[m][u][HOME] \in Seq(Packets)
      BY <1>0, <1>h, PortType
    <3>3. CASE m = n /\ Departs(n, u, HOME)
      <4>1. ingress[m][u][HOME] # <<>>
        BY <1>0, <1>h, <3>3, DepartsReturns
      <4>2. ingress'[m][u][HOME] = Tail(ingress[m][u][HOME])
        BY <1>3, <1>h, <3>3
      <4>3. Len(Tail(ingress[m][u][HOME])) = Len(ingress[m][u][HOME]) - 1
        BY <3>2, <4>1, HeadTailProperties
      <4>4. QED  BY <3>1, <3>2, <4>2, <4>3, SizeAssumption
    <3>4. CASE ~(m = n /\ Departs(n, u, HOME))
      BY <1>3, <1>h, <3>1, <3>4
    <3>5. QED  BY <3>3, <3>4
  <2>2. ASSUME NEW m \in Nodes, NEW u \in Types, NEW i \in Dirs
        PROVE  credit'[m][u][i] >= 0
    <3>1. credit[m][u][i] >= 0 /\ credit[m][u][i] \in Int
      BY <1>0, PortType DEF HomeBounds
    <3>2. CASE m # n
      BY <1>5, <3>1, <3>2
    <3>3. CASE m = n /\ i \in Links
      <4>1. Leaves(n, u, i) => credit[n][u][i] > 0
        BY <1>0, <3>3 DEF GrantSound, Leaves, Links
      <4>2. CreditSpent(n, u, i) = IF Leaves(n, u, i) THEN 1 ELSE 0
        BY <3>3, CreditSpentType
      <4>3. QED  BY <1>5, <3>1, <3>3, <4>1, <4>2
    <3>4. CASE m = n /\ i = HOME
      <4>1. CASE u \in {"REQ", "INVN"}
        <5>1. credit_ev[n]["REQ"][HOME] = 0
          BY <1>2, <1>h
        <5>2. credit[n][u][HOME] + missq_num[n] = missq_ifq_size
          <6>1. credit[n][u][HOME] + 0 + missq_num[n] = missq_ifq_size
            BY <1>0, <4>1, <5>1 DEF HomeCredit
          <6>2. QED  BY <3>1, <3>4, <6>1
        <5>3. missq_num[n] \in Nat
          BY <1>0 DEF TypeOK
        <5>4. MissqEntered(n) = (IF Leaves(n, "REQ", HOME) THEN 1 ELSE 0)
                              + (IF Leaves(n, "INVN", HOME) THEN 1 ELSE 0)
          BY DEF MissqEntered, One
        <5>5. /\ Leaves(n, "REQ", HOME) => missq_num[n] < missq_ifq_size - 1
              /\ Leaves(n, "INVN", HOME) => missq_num[n] < missq_ifq_size
          BY <1>0 DEF HomeHasRoom, Leaves
        <5>6. credit'[n][u][HOME] = credit[n][u][HOME] - MissqEntered(n)
          BY <1>5, <1>h, <4>1, CreditSpentType
        <5>7. credit[n][u][HOME] \in Int
          BY <3>1, <3>4
        <5>8. credit'[n][u][HOME] >= 0
          BY <5>2, <5>3, <5>4, <5>5, <5>6, <5>7, <3>1, <3>4, SizeAssumption
        <5>9. QED  BY <3>4, <5>8
      <4>2. CASE u = "WTBK"
        <5>1. credit_ev[n]["WTBK"][HOME] = 0
          BY <1>2, <1>h
        <5>2. credit[n]["WTBK"][HOME] + wtbkq_num[n] = wtbkq_ifq_size
          <6>1. credit[n]["WTBK"][HOME] + 0 + wtbkq_num[n] = wtbkq_ifq_size
            BY <1>0, <5>1 DEF HomeCredit
          <6>2. QED  BY <3>1, <3>4, <4>2, <6>1
        <5>3. wtbkq_num[n] \in Nat
          BY <1>0 DEF TypeOK
        <5>4. WtbkqEntered(n) = IF Leaves(n, "WTBK", HOME) THEN 1 ELSE 0
          BY DEF WtbkqEntered, One
        <5>5. Leaves(n, "WTBK", HOME) => wtbkq_num[n] < wtbkq_ifq_size
          BY <1>0 DEF HomeHasRoom, Leaves
        <5>6. credit'[n]["WTBK"][HOME] = credit[n]["WTBK"][HOME] - WtbkqEntered(n)
          BY <1>5, <1>h, CreditSpentType
        <5>7. credit[n]["WTBK"][HOME] \in Int /\ credit[n]["WTBK"][HOME] >= 0
          BY <3>1, <3>4, <4>2
        <5>8. credit'[n]["WTBK"][HOME] >= 0
          BY <5>2, <5>3, <5>4, <5>5, <5>6, <5>7, SizeAssumption
        <5>9. QED  BY <3>4, <4>2, <5>8
      <4>3. CASE u = "RESP"
        BY <1>17, <3>4, <4>3, <1>h DEF HomeEvents
      <4>4. QED  BY <4>1, <4>2, <4>3 DEF Types
    <3>5. QED  BY <3>2, <3>3, <3>4 DEF Links
  <2>3. QED  BY <2>1, <2>2 DEF HomeBounds
<1>21. QED
  BY <1>11, <1>12, <1>13, <1>14, <1>15, <1>17, <1>18, <1>19, <1>20 DEF IInv

-----------------------------------------------------------------------------
(***************************************************************************)
(* The theorems.                                                           *)
(***************************************************************************)

\* A step of the network, or none, keeps the invariant.
LEMMA NextIInv == IInv /\ [Next]_vars => IInv'
<1> SUFFICES ASSUME IInv, [Next]_vars PROVE IInv'
  OBVIOUS
<1>1. ASSUME NEW n \in Nodes, noc_stage(n) PROVE IInv'
  BY <1>1, NocStageStep
<1>2. ASSUME NEW n \in Nodes, cache2mem(n) PROVE IInv'
  BY <1>2, Cache2memStep
<1>3. ASSUME NEW f \in Flows, NEW v \in Msgs[f], noc_request(f, v) PROVE IInv'
  BY <1>3, NocRequestStep
<1>4. ASSUME NEW n \in Nodes, NEW t \in Types, update_credit_home(n, t)
      PROVE  IInv'
  BY <1>4, UpdateCreditHomeStep
<1>5. ASSUME NEW n \in Nodes, NEW t \in Types, NEW d \in Links,
             flit_arrive(n, t, d)
      PROVE  IInv'
  BY <1>5, FlitArriveStep
<1>6. ASSUME NEW n \in Nodes, NEW t \in Types, NEW d \in Links,
             update_credit_link(n, t, d)
      PROVE  IInv'
  BY <1>6, UpdateCreditLinkStep
<1>7. CASE UNCHANGED vars
  BY <1>7 DEF vars, IInv, TypeOK, GrantSound, Flit, NoUTurn, LinkCredit, BorderIdle,
              HomeCredit, HomeEvents, HomeHasRoom, HomeBounds
<1>8. QED  BY <1>1, <1>2, <1>3, <1>4, <1>5, <1>6, <1>7 DEF Next

\* The invariant always holds.
LEMMA Invariance == Spec => []IInv
BY InitIInv, NextIInv, PTL DEF Spec

\* Type correctness: in every reachable state of every mesh the variables of
\* noc.c hold values of their types.
THEOREM TypeCorrect == Spec => []TypeOK
<1>1. IInv => TypeOK  BY DEF IInv
<1>2. QED  BY <1>1, Invariance, PTL

\* The pointers arbitrate leaves in egress_grant are sound a cycle later.
THEOREM GrantsSound == Spec => []GrantSound
<1>1. IInv => GrantSound  BY DEF IInv
<1>2. QED  BY <1>1, Invariance, PTL

\* X-Y routing never turns a flit back, so no SEND_CREDIT switch misses a case.
THEOREM NeverTurnsBack == Spec => []NoUTurn
<1>1. IInv => NoUTurn  BY DEF IInv
<1>2. QED  BY <1>1, Invariance, PTL

\* No link loses or gains a credit.
THEOREM LinksConserve == Spec => []LinkCredit
<1>1. IInv => LinkCredit  BY DEF IInv
<1>2. QED  BY <1>1, Invariance, PTL

\* A home's credits are the free entries of its queues.
THEOREM HomesConserve == Spec => []HomeCredit
<1>1. IInv => HomeCredit  BY DEF IInv
<1>2. QED  BY <1>1, Invariance, PTL

\* home_enter always finds the entry its packet was granted.
THEOREM HomesHaveRoom == Spec => []HomeHasRoom
<1>1. IInv => HomeHasRoom  BY DEF IInv
<1>2. QED  BY <1>1, Invariance, PTL

\* No buffer of the network overflows and no credit leaves its range.
THEOREM NothingOverflows == Spec => []NoOverflow
<1>1. IInv => NoOverflow
  <2> SUFFICES ASSUME IInv, NEW n \in Nodes, NEW t \in Types, NEW d \in Dirs
               PROVE  /\ Len(ingress[n][t][d]) <= router_ifq_size
                      /\ credit[n][t][d] \in 0 .. InitialCredit(t, d)
    BY DEF NoOverflow
  <2>0. /\ TypeOK /\ LinkCredit /\ BorderIdle /\ HomeCredit /\ HomeEvents
        /\ HomeBounds
    BY DEF IInv
  <2>1. /\ credit[n][t][d] \in Int /\ credit[n][t][d] >= 0
        /\ credit_ev[n][t][d] \in Nat
        /\ Len(ingress[n][t][d]) \in Nat /\ Len(wire[n][t][d]) \in Nat
    BY <2>0, PortType DEF HomeBounds
  <2>2. Len(ingress[n][t][d]) <= router_ifq_size
    <3>1. CASE d = HOME
      BY <2>0, <3>1 DEF HomeBounds
    <3>2. CASE d \in Links /\ Nbr(n, d) \in Nodes
      <4> DEFINE m == Nbr(n, d)
                 e == Opposite(d)
      <4>1. m \in Nodes /\ e \in Links /\ e \in Dirs /\ Nbr(m, e) = n
              /\ Opposite(e) = d
        BY <3>2, NbrBack DEF Links
      <4> HIDE DEF m, e
      <4>2. credit[m][t][e] + credit_ev[m][t][e] + Len(wire[n][t][d])
              + Len(ingress[n][t][d]) = router_ifq_size
        BY <2>0, <4>1 DEF LinkCredit
      <4>3. credit[m][t][e] \in Int /\ credit[m][t][e] >= 0
            /\ credit_ev[m][t][e] \in Nat
        BY <2>0, <4>1, PortType DEF HomeBounds
      <4> DEFINE c == credit[m][t][e]
                 v == credit_ev[m][t][e]
                 w == Len(wire[n][t][d])
                 b == Len(ingress[n][t][d])
      <4>4. /\ c + v + w + b = router_ifq_size
            /\ c \in Int /\ c >= 0 /\ v \in Nat /\ w \in Nat /\ b \in Nat
        BY <2>1, <4>2, <4>3
      <4> HIDE DEF c, v, w, b
      <4>5. b <= router_ifq_size
        BY <4>4
      <4>6. QED  BY <4>5 DEF b
    <3>3. CASE d \in Links /\ Nbr(n, d) \notin Nodes
      <4>1. ingress[n][t][d] = <<>>
        BY <2>0, <3>3 DEF BorderIdle
      <4>2. QED  BY <4>1, SizeAssumption
    <3>4. QED  BY <3>1, <3>2, <3>3 DEF Links
  <2>3. credit[n][t][d] <= InitialCredit(t, d) /\ InitialCredit(t, d) \in Int
    <3>1. CASE d \in Links
      <4>1. InitialCredit(t, d) = router_ifq_size
        BY <3>1, InitialCredits
      <4>2. CASE Nbr(n, d) \in Nodes
        <5> DEFINE b == Len(ingress[Nbr(n, d)][t][Opposite(d)])
                   w == Len(wire[Nbr(n, d)][t][Opposite(d)])
        <5>1. Opposite(d) \in Dirs
          BY <3>1, NbrBack DEF Links
        <5>2. b \in Nat /\ w \in Nat
          BY <2>0, <4>2, <5>1, PortType
        <5>3. credit[n][t][d] + credit_ev[n][t][d] + w + b = router_ifq_size
          BY <2>0, <3>1, <4>2 DEF LinkCredit
        <5> HIDE DEF b, w
        <5>4. QED  BY <2>1, <4>1, <5>2, <5>3, SizeAssumption
      <4>3. CASE Nbr(n, d) \notin Nodes
        <5>1. credit[n][t][d] = router_ifq_size
          BY <2>0, <3>1, <4>3 DEF BorderIdle
        <5>2. QED  BY <4>1, <5>1, SizeAssumption
      <4>4. QED  BY <4>2, <4>3
    <3>2. CASE d = HOME
      <4>1. missq_num[n] \in Nat /\ wtbkq_num[n] \in Nat
        BY <2>0 DEF TypeOK
      <4>2. credit_ev[n]["REQ"][HOME] \in Nat /\ credit_ev[n]["WTBK"][HOME] \in Nat
        BY <2>0, PortType DEF Types, Dirs
      <4>3. CASE t \in {"REQ", "INVN"}
        <5>1. InitialCredit(t, HOME) = missq_ifq_size
          BY <4>3, InitialCredits
        <5>2. credit[n][t][HOME] + credit_ev[n]["REQ"][HOME] + missq_num[n]
                = missq_ifq_size
          BY <2>0, <4>3 DEF HomeCredit
        <5>3. QED  BY <2>1, <3>2, <4>1, <4>2, <5>1, <5>2, SizeAssumption
      <4>4. CASE t = "WTBK"
        <5>1. InitialCredit(t, HOME) = wtbkq_ifq_size
          BY <4>4, InitialCredits
        <5>2. credit[n][t][HOME] + credit_ev[n]["WTBK"][HOME] + wtbkq_num[n]
                = wtbkq_ifq_size
          BY <2>0, <4>4 DEF HomeCredit
        <5>3. QED  BY <2>1, <3>2, <4>1, <4>2, <5>1, <5>2, SizeAssumption
      <4>5. CASE t = "RESP"
        <5>1. InitialCredit(t, HOME) = 1
          BY <4>5, InitialCredits
        <5>2. credit[n][t][HOME] = 1
          BY <2>0, <4>5 DEF HomeEvents
        <5>3. QED  BY <3>2, <5>1, <5>2
      <4>6. QED  BY <4>3, <4>4, <4>5 DEF Types
    <3>3. QED  BY <3>1, <3>2 DEF Links
  <2>4. QED  BY <2>1, <2>2, <2>3
<1>2. QED  BY <1>1, Invariance, PTL

\* Only an intervention takes the last free entry of a miss queue.
THEOREM LastEntryKept == Spec => LastEntryForIntervention
<1> DEFINE A == \A n \in Nodes :
              missq_num'[n] = missq_ifq_size /\ missq_num[n] < missq_ifq_size
                => Leaves(n, "INVN", HOME)
<1>1. IInv /\ [Next]_vars => [A]_vars
  <2> SUFFICES ASSUME IInv, Next, NEW n \in Nodes,
                      missq_num'[n] = missq_ifq_size,
                      missq_num[n] < missq_ifq_size
               PROVE  Leaves(n, "INVN", HOME)
    OBVIOUS
  <2>0. TypeOK /\ HomeHasRoom
    BY DEF IInv
  <2>1. missq_num \in [Nodes -> Nat]
    BY <2>0 DEF TypeOK
  <2>2. missq_num'[n] # missq_num[n]
    BY <2>1, SizeAssumption
  <2>3. ASSUME NEW m \in Nodes, noc_stage(m) PROVE Leaves(n, "INVN", HOME)
    <3>1. missq_num' = [missq_num EXCEPT ![m] = missq_num[m] + MissqEntered(m)]
      BY <2>3 DEF noc_stage, flit_traverse
    <3>2. m = n
      BY <2>1, <2>2, <3>1
    <3>3. missq_num'[n] = missq_num[n] + MissqEntered(n)
      BY <2>1, <3>1, <3>2
    <3>4. MissqEntered(n) = (IF Leaves(n, "REQ", HOME) THEN 1 ELSE 0)
                            + (IF Leaves(n, "INVN", HOME) THEN 1 ELSE 0)
      BY DEF MissqEntered, One
    <3>5. Leaves(n, "REQ", HOME) => missq_num[n] < missq_ifq_size - 1
      BY <2>0 DEF HomeHasRoom, Leaves
    <3>6. missq_num[n] \in Nat
      BY <2>1
    <3>7. QED  BY <3>3, <3>4, <3>5, <3>6, SizeAssumption
  <2>4. ASSUME NEW m \in Nodes, cache2mem(m) PROVE FALSE
    <3>1. PICK miss \in 0 .. 1, freed \in 0 .. missq_num[m] :
            /\ miss = 1 => missq_num[m] < missq_ifq_size - 2
            /\ missq_num' = [missq_num EXCEPT ![m] = missq_num[m] + miss - freed]
      BY <2>4 DEF cache2mem
    <3>2. m = n
      BY <2>1, <2>2, <3>1
    <3>3. missq_num'[n] = missq_num[n] + miss - freed
      BY <2>1, <3>1, <3>2
    <3>4. missq_num[n] \in Nat
      BY <2>1
    <3>5. QED  BY <3>1, <3>2, <3>3, <3>4, SizeAssumption
  <2>5. ASSUME NEW f \in Flows, NEW v \in Msgs[f], noc_request(f, v) PROVE FALSE
    BY <2>2, <2>5 DEF noc_request, homeVars
  <2>6. ASSUME NEW m \in Nodes, NEW t \in Types, update_credit_home(m, t)
        PROVE  FALSE
    BY <2>2, <2>6 DEF update_credit_home, homeVars
  <2>7. ASSUME NEW m \in Nodes, NEW t \in Types, NEW d \in Links,
               flit_arrive(m, t, d)
        PROVE  FALSE
    BY <2>2, <2>7 DEF flit_arrive, homeVars
  <2>8. ASSUME NEW m \in Nodes, NEW t \in Types, NEW d \in Links,
               update_credit_link(m, t, d)
        PROVE  FALSE
    BY <2>2, <2>8 DEF update_credit_link, homeVars
  <2>9. QED  BY <2>3, <2>4, <2>5, <2>6, <2>7, <2>8 DEF Next
<1>2. QED  BY <1>1, Invariance, PTL DEF Spec, LastEntryForIntervention

-----------------------------------------------------------------------------
(***************************************************************************)
(* Sequences of sequences, joined.                                         *)
(***************************************************************************)

\* Counting from 1 to n stays in a set that contains 1 and every successor.
LEMMA Counting ==
  ASSUME NEW n \in Nat \ {0}, NEW T, 1 \in T,
         \A i \in 2 .. n : i - 1 \in T => i \in T
  PROVE  1 .. n \subseteq T
<1> DEFINE R == {ss \in Nat \X Nat : ss[1] < ss[2]}
           Bad == (1 .. n) \ T
<1>1. SUFFICES ASSUME Bad # {} PROVE FALSE
  OBVIOUS
<1>2. IsWellFoundedOn(R, Nat)
  BY NatLessThanWellFounded DEF OpToRel
<1>3. Bad \in SUBSET Nat
  OBVIOUS
<1>4. PICK x \in Bad : \A y \in Bad : ~ (<<y, x>> \in R)
  <2> HIDE DEF R, Bad
  <2>1. QED  BY <1>1, <1>2, <1>3, WFMin
<1>5. x \in 2 .. n /\ x - 1 \in 1 .. n /\ x - 1 < x /\ x \notin T
  OBVIOUS
<1>6. x - 1 \in Bad
  BY <1>5
<1>7. <<x - 1, x>> \in R
  BY <1>5
<1>8. QED  BY <1>4, <1>6, <1>7

\* It does not matter in which order sequences are joined.
Regroups(a, b, c) == (a \o b) \o c = a \o (b \o c)

LEMMA Regrouped ==
  ASSUME NEW S, NEW a \in Seq(S), NEW b \in Seq(S), NEW c \in Seq(S)
  PROVE  Regroups(a, b, c)
BY ConcatAssociative DEF Regroups

\* A sequence is its head and its tail.
LEMMA HeadTailJoined ==
  ASSUME NEW S, NEW s \in Seq(S), s # <<>>
  PROVE  s = <<Head(s)>> \o Tail(s)
<1>1. Len(s) \in Nat \ {0} /\ 1 \in 1 .. Len(s)
  BY EmptySeq
<1>2. SubSeq(s, 1, Len(s)) = <<s[1]>> \o SubSeq(s, 1 + 1, Len(s))
  BY <1>1, SubSeqRecursiveFirst
<1>3. SubSeq(s, 1, Len(s)) = s
  BY SubSeqFull
<1>4. Tail(s) = SubSeq(s, 2, Len(s))
  BY TailIsSubSeq
<1>5. Head(s) = s[1]
  BY <1>1
<1>6. QED  BY <1>2, <1>3, <1>4, <1>5

\* A longer sequence in front or behind.
LEMMA HeadTailConcat ==
  ASSUME NEW S, NEW s \in Seq(S), NEW u \in Seq(S), s # <<>>
  PROVE  /\ s \o u \in Seq(S) /\ s \o u # <<>>
         /\ Head(s \o u) = Head(s) /\ Tail(s \o u) = Tail(s) \o u
<1> DEFINE c == s \o u
           d == Tail(s) \o u
<1>1. Len(s) \in Nat \ {0} /\ Len(u) \in Nat /\ Head(s) = s[1]
  BY EmptySeq, LenProperties
<1>2. /\ c \in Seq(S) /\ Len(c) = Len(s) + Len(u)
      /\ \A i \in 1 .. Len(s) + Len(u) : c[i] = IF i <= Len(s) THEN s[i] ELSE u[i - Len(s)]
  BY ConcatProperties
<1>3. /\ Tail(s) \in Seq(S) /\ Len(Tail(s)) = Len(s) - 1
      /\ \A i \in 1 .. Len(Tail(s)) : Tail(s)[i] = s[i + 1]
  BY HeadTailProperties
<1>4. /\ d \in Seq(S) /\ Len(d) = Len(s) - 1 + Len(u)
      /\ \A i \in 1 .. Len(s) - 1 + Len(u) :
           d[i] = IF i <= Len(s) - 1 THEN Tail(s)[i] ELSE u[i - (Len(s) - 1)]
  BY <1>3, ConcatProperties
<1> HIDE DEF c, d
<1>5. c # <<>> /\ Head(c) = Head(s)
  <2>1. Len(c) # 0 /\ 1 \in 1 .. Len(s) + Len(u) /\ 1 <= Len(s)
    BY <1>1, <1>2
  <2>2. c # <<>>
    BY <2>1, EmptySeq
  <2>3. Head(c) = c[1] /\ c[1] = s[1]
    BY <1>2, <2>1, <2>2
  <2>4. QED  BY <1>1, <2>2, <2>3
<1>6. /\ Tail(c) \in Seq(S) /\ Len(Tail(c)) = Len(c) - 1
      /\ \A i \in 1 .. Len(Tail(c)) : Tail(c)[i] = c[i + 1]
  BY <1>2, <1>5, HeadTailProperties
<1> DEFINE e == Tail(c)
<1> HIDE DEF e
<1>7. ASSUME NEW i \in 1 .. Len(e) PROVE e[i] = d[i]
  <2>1. /\ Len(e) = Len(s) + Len(u) - 1 /\ i \in 1 .. Len(s) - 1 + Len(u)
        /\ i + 1 \in 1 .. Len(s) + Len(u) /\ e[i] = c[i + 1]
    BY <1>1, <1>2, <1>6 DEF e
  <2>2. CASE i <= Len(s) - 1
    <3>1. i \in 1 .. Len(Tail(s)) /\ i + 1 <= Len(s)
      BY <1>1, <1>3, <2>1, <2>2
    <3>2. QED  BY <1>2, <1>3, <1>4, <2>1, <2>2, <3>1
  <2>3. CASE ~ (i <= Len(s) - 1)
    <3>1. ~ (i + 1 <= Len(s)) /\ (i + 1) - Len(s) = i - (Len(s) - 1)
      BY <1>1, <2>1, <2>3
    <3>2. QED  BY <1>2, <1>4, <2>1, <2>3, <3>1
  <2>4. QED  BY <2>2, <2>3
<1>8. e = d
  <2>1. e \in Seq(S) /\ Len(e) = Len(d)
    BY <1>1, <1>2, <1>4, <1>6 DEF e
  <2>2. QED  BY <1>4, <1>7, <2>1, SeqEqual
<1>9. QED  BY <1>2, <1>5, <1>8 DEF c, d, e

\* Appending to the second of two sequences appends to both.
LEMMA ConcatAppend ==
  ASSUME NEW S, NEW s \in Seq(S), NEW u \in Seq(S), NEW e \in S
  PROVE  s \o u \in Seq(S) /\ s \o Append(u, e) = Append(s \o u, e)
<1> DEFINE h == <<e>>
           c == s \o u
<1>1. h \in Seq(S)
  OBVIOUS
<1>2. c \in Seq(S)
  BY ConcatProperties
<1>3. Append(u, e) = u \o h
  BY AppendIsConcat
<1>4. Append(c, e) = c \o h
  BY <1>2, AppendIsConcat
<1>5. (s \o u) \o h = s \o (u \o h)
  <2> HIDE DEF h
  <2>1. Regroups(s, u, h)  BY <1>1, Regrouped
  <2>2. QED  BY <2>1 DEF Regroups
<1>6. QED  BY <1>2, <1>3, <1>4, <1>5

\* q holds the joined beginnings of s.
Joins(s, q) == /\ q[1] = s[1]
               /\ \A i \in 2 .. Len(s) : q[i] = q[i - 1] \o s[i]

\* FlattenSeq computes them one after the other.
LEMMA Flattened ==
  ASSUME NEW S, NEW s \in Seq(Seq(S)), s # <<>>
  PROVE  \E q \in [1 .. Len(s) -> Seq(S)] :
           Joins(s, q) /\ FlattenSeq(s) = q[Len(s)]
<1> DEFINE n == Len(s)
           Rec(g, k) == g = [i \in 1 .. k |-> IF i = 1 THEN s[i] ELSE g[i - 1] \o s[i]]
           T == {k \in 1 .. n : \E g : Rec(g, k)}
<1>1. n \in Nat \ {0} /\ \A i \in 1 .. n : s[i] \in Seq(S)
  BY LenProperties, EmptySeq, ElementOfSeq
<1>2. 1 \in T
  <2>1. Rec([i \in 1 .. 1 |-> s[i]], 1)  OBVIOUS
  <2>2. \E g : Rec(g, 1)
    <3> HIDE DEF Rec
    <3>1. QED  BY <2>1
  <2>3. 1 \in 1 .. n  BY <1>1
  <2> HIDE DEF Rec
  <2>4. QED  BY <2>2, <2>3
<1>3. ASSUME NEW k \in 2 .. n, k - 1 \in T PROVE k \in T
  <2>1. PICK g : Rec(g, k - 1)  BY <1>3
  <2> DEFINE h == [i \in 1 .. k |-> IF i < k THEN g[i] ELSE g[k - 1] \o s[k]]
  <2>2. \A i \in 1 .. k - 1 : g[i] = IF i = 1 THEN s[i] ELSE g[i - 1] \o s[i]
    BY <2>1
  <2>3. ASSUME NEW i \in 1 .. k
        PROVE  h[i] = IF i = 1 THEN s[i] ELSE h[i - 1] \o s[i]
    <3>1. CASE i < k
      <4>1. i \in 1 .. k - 1 /\ h[i] = g[i] /\ (i # 1 => i - 1 \in 1 .. k /\ i - 1 < k)
        BY <3>1
      <4>2. i # 1 => h[i - 1] = g[i - 1]  BY <4>1
      <4>3. QED  BY <2>2, <4>1, <4>2
    <3>2. CASE ~ (i < k)
      <4>1. i = k /\ i # 1 /\ i - 1 \in 1 .. k /\ i - 1 < k  BY <3>2
      <4>2. k \in 1 .. k /\ k - 1 \in 1 .. k /\ ~ (k < k) /\ k - 1 < k  BY <4>1
      <4>2a. h[k] = g[k - 1] \o s[k] /\ h[k - 1] = g[k - 1]  BY <4>2
      <4>3. QED  BY <4>1, <4>2a
    <3>3. QED  BY <3>1, <3>2
  <2>4. Rec(h, k)
    <3>1. h = [i \in 1 .. k |-> h[i]]  OBVIOUS
    <3> HIDE DEF h
    <3>2. QED  BY <2>3, <3>1
  <2>5. QED
    <3> HIDE DEF Rec, h
    <3>1. QED  BY <2>4
<1>4. n \in T
  <2> HIDE DEF T
  <2>1. 1 .. n \subseteq T  BY <1>1, <1>2, <1>3, Counting
  <2>2. n \in 1 .. n  BY ONLY <1>1
  <2>3. QED  BY ONLY <2>1, <2>2
<1> DEFINE q == CHOOSE g : Rec(g, n)
<1>5. FlattenSeq(s) = q[n]
  <2>1. ~ (Len(s) = 0)  BY <1>1
  <2>2. QED  BY ONLY <2>1 DEF FlattenSeq, q, Rec, n
<1>6. Rec(q, n)
  BY <1>4
<1> HIDE DEF q
<1>7. /\ DOMAIN q = 1 .. n /\ q[1] = s[1]
      /\ \A i \in 2 .. n : q[i] = q[i - 1] \o s[i]
      /\ q = [i \in 1 .. n |-> q[i]]
  <2>1. q = [i \in 1 .. n |-> IF i = 1 THEN s[i] ELSE q[i - 1] \o s[i]]
    BY <1>6
  <2>2. DOMAIN q = 1 .. n /\ q = [i \in 1 .. n |-> q[i]]
    BY <2>1
  <2>3. \A i \in 1 .. n : q[i] = IF i = 1 THEN s[i] ELSE q[i - 1] \o s[i]
    BY <2>1
  <2>4. 1 \in 1 .. n /\ \A i \in 2 .. n : i \in 1 .. n /\ i # 1
    BY <1>1
  <2>5. QED  BY <2>2, <2>3, <2>4
<1> DEFINE U == {i \in 1 .. n : q[i] \in Seq(S)}
<1>8. 1 .. n \subseteq U
  <2>1. 1 \in U  BY <1>1, <1>7
  <2>2. ASSUME NEW i \in 2 .. n, i - 1 \in U PROVE i \in U
    <3>0. \A j \in 2 .. n : q[j] = q[j - 1] \o s[j]
      BY <1>7
    <3>1. i \in 1 .. n /\ q[i] = q[i - 1] \o s[i]
      <4>1. i \in 1 .. n  BY <1>1
      <4>2. i \in 2 .. n  OBVIOUS
      <4>3. q[i] = q[i - 1] \o s[i]  BY ONLY <3>0, <4>2
      <4>4. QED  BY <4>1, <4>3
    <3>2. q[i - 1] \in Seq(S) /\ s[i] \in Seq(S)
      BY <1>1, <2>2, <3>1
    <3>3. QED  BY <3>1, <3>2, ConcatProperties
  <2> HIDE DEF U
  <2>3. QED  BY <1>1, <2>1, <2>2, Counting
<1>9. q \in [1 .. n -> Seq(S)]
  BY <1>7, <1>8
<1>10. QED  BY <1>5, <1>7, <1>9 DEF Joins

\* Segments are appended at the end.
LEMMA FlattenAppend ==
  ASSUME NEW S, NEW s \in Seq(Seq(S)), NEW e \in Seq(S)
  PROVE  FlattenSeq(Append(s, e)) = FlattenSeq(s) \o e
<1> DEFINE n == Len(s)
           u == Append(s, e)
<1>1. /\ n \in Nat /\ u \in Seq(Seq(S)) /\ u # <<>> /\ Len(u) = n + 1
      /\ \A i \in 1 .. n : u[i] = s[i]
      /\ u[n + 1] = e
  BY AppendProperties, LenProperties
<1> HIDE DEF u
<1>2. PICK r \in [1 .. n + 1 -> Seq(S)] : Joins(u, r) /\ FlattenSeq(u) = r[n + 1]
  BY <1>1, Flattened
<1>3. r[1] = u[1] /\ \A i \in 2 .. n + 1 : r[i] = r[i - 1] \o u[i]
  BY <1>1, <1>2 DEF Joins
<1>4. CASE s = <<>>
  <2>1. n = 0 /\ FlattenSeq(s) = <<>>
    BY <1>4 DEF FlattenSeq
  <2>2. FlattenSeq(u) = e
    BY <1>1, <1>2, <1>3, <2>1
  <2>3. QED  BY <2>1, <2>2, ConcatEmptySeq DEF u
<1>5. CASE s # <<>>
  <2>1. PICK q \in [1 .. n -> Seq(S)] : Joins(s, q) /\ FlattenSeq(s) = q[n]
    BY <1>5, Flattened
  <2>2. q[1] = s[1] /\ \A i \in 2 .. n : q[i] = q[i - 1] \o s[i]
    BY <2>1 DEF Joins
  <2>3. n \in Nat \ {0}
    BY <1>5, EmptySeq
  <2> DEFINE T == {i \in 1 .. n : r[i] = q[i]}
  <2>4. 1 \in T
    BY <1>1, <1>3, <2>2, <2>3
  <2>5. ASSUME NEW i \in 2 .. n, i - 1 \in T PROVE i \in T
    <3>1. i \in 1 .. n /\ i \in 2 .. n + 1 /\ r[i - 1] = q[i - 1]
      BY <2>3, <2>5
    <3>2. r[i] = r[i - 1] \o u[i] /\ q[i] = q[i - 1] \o s[i] /\ u[i] = s[i]
      BY <1>1, <1>3, <2>2, <3>1
    <3>3. QED  BY <3>1, <3>2
  <2>6. n \in T
    <3> HIDE DEF T
    <3>1. 1 .. n \subseteq T  BY <2>3, <2>4, <2>5, Counting
    <3>2. n \in 1 .. n  BY <2>3
    <3>3. QED  BY <3>1, <3>2
  <2>7. r[n + 1] = r[n] \o e
    <3>1. n + 1 \in 2 .. n + 1 /\ (n + 1) - 1 = n  BY <2>3
    <3>2. r[n + 1] = r[(n + 1) - 1] \o u[n + 1]  BY <1>3, <3>1
    <3>3. QED  BY <1>1, <3>1, <3>2
  <2>8. QED  BY <1>2, <2>1, <2>6, <2>7 DEF u
<1>6. QED  BY <1>4, <1>5

\* The first segment comes first.
LEMMA FlattenHead ==
  ASSUME NEW S, NEW s \in Seq(Seq(S)), s # <<>>
  PROVE  FlattenSeq(s) = Head(s) \o FlattenSeq(Tail(s))
<1> DEFINE n == Len(s)
           u == Tail(s)
<1>1. /\ n \in Nat \ {0} /\ u \in Seq(Seq(S)) /\ Len(u) = n - 1 /\ Len(u) \in Nat
      /\ \A i \in 1 .. n - 1 : u[i] = s[i + 1]
      /\ Head(s) = s[1] /\ s[1] \in Seq(S)
      /\ \A i \in 1 .. n : s[i] \in Seq(S)
  <2>1. n \in Nat \ {0} /\ Head(s) = s[1]  BY EmptySeq
  <2>2. u \in Seq(Seq(S)) /\ Len(u) = n - 1 /\ \A i \in 1 .. n - 1 : u[i] = s[i + 1]
    BY HeadTailProperties
  <2>3. \A i \in 1 .. n : s[i] \in Seq(S)  BY ElementOfSeq
  <2>4. QED  BY <2>1, <2>2, <2>3
<1> HIDE DEF u
<1>2. PICK q \in [1 .. n -> Seq(S)] : Joins(s, q) /\ FlattenSeq(s) = q[n]
  BY Flattened
<1>3. q[1] = s[1] /\ \A i \in 2 .. n : q[i] = q[i - 1] \o s[i]
  BY <1>2 DEF Joins
<1>4. CASE u = <<>>
  <2>1. n = 1 /\ FlattenSeq(u) = <<>>
    <3>1. Len(u) = 0  BY <1>4
    <3>2. FlattenSeq(u) = u  BY <3>1 DEF FlattenSeq
    <3>3. QED  BY <1>1, <1>4, <3>1, <3>2
  <2>2. QED  BY <1>1, <1>2, <1>3, <2>1, ConcatEmptySeq DEF u
<1>5. CASE u # <<>>
  <2>1. PICK r \in [1 .. n - 1 -> Seq(S)] : Joins(u, r) /\ FlattenSeq(u) = r[n - 1]
    <3>1. \E r \in [1 .. Len(u) -> Seq(S)] : Joins(u, r) /\ FlattenSeq(u) = r[Len(u)]
      BY <1>1, <1>5, Flattened
    <3>2. Len(u) = n - 1  BY <1>1
    <3>3. QED  BY <3>1, <3>2
  <2>2. r[1] = u[1] /\ \A i \in 2 .. n - 1 : r[i] = r[i - 1] \o u[i]
    BY <1>1, <2>1 DEF Joins
  <2>3. n - 1 \in Nat \ {0}
    BY <1>1, <1>5, EmptySeq
  <2> DEFINE T == {i \in 1 .. n - 1 : q[i + 1] = s[1] \o r[i]}
  <2>4. 1 \in T
    <3>1. 2 \in 2 .. n /\ 1 \in 1 .. n - 1 /\ 2 - 1 = 1 /\ 1 + 1 = 2  BY <2>3, <1>1
    <3>2. q[2] = q[2 - 1] \o s[2] /\ u[1] = s[1 + 1]  BY <1>1, <1>3, <3>1
    <3>3. q[1 + 1] = s[1] \o r[1]  BY <1>3, <2>2, <3>1, <3>2
    <3>4. QED  BY <3>1, <3>3
  <2>5. ASSUME NEW i \in 2 .. n - 1, i - 1 \in T PROVE i \in T
    <3> DEFINE qi == q[i + 1]   ri == r[i]   q0 == q[i]   r0 == r[i - 1]
               si == s[i + 1]   s1 == s[1]
    <3>1. /\ i \in 1 .. n - 1 /\ i + 1 \in 2 .. n /\ (i + 1) - 1 = i /\ (i - 1) + 1 = i
          /\ i - 1 \in 1 .. n - 1 /\ i + 1 \in 1 .. n
      BY <2>3
    <3>2. q0 = s1 \o r0
      BY <2>5, <3>1
    <3>3. qi = q0 \o si
      BY <1>3, <3>1
    <3>4. ri = r0 \o si
      BY <1>1, <2>2, <3>1
    <3>5. s1 \in Seq(S) /\ r0 \in Seq(S) /\ si \in Seq(S)
      BY <1>1, <3>1
    <3>6. SUFFICES qi = s1 \o ri
      BY <3>1
    <3> HIDE DEF qi, ri, q0, r0, si, s1
    <3>7. (s1 \o r0) \o si = s1 \o (r0 \o si)
      <4>1. Regroups(s1, r0, si)  BY ONLY <3>5, Regrouped
      <4>2. QED  BY ONLY <4>1 DEF Regroups
    <3>8. QED  BY <3>2, <3>3, <3>4, <3>7
  <2>6. n - 1 \in T
    <3> HIDE DEF T
    <3>1. 1 .. n - 1 \subseteq T  BY <2>3, <2>4, <2>5, Counting
    <3>2. n - 1 \in 1 .. n - 1
      <4> DEFINE k == n - 1
      <4>1. k \in Nat \ {0}  BY <2>3
      <4> HIDE DEF k
      <4>2. k \in 1 .. k  BY <4>1
      <4>3. QED  BY <4>2 DEF k
    <3>3. QED  BY <3>1, <3>2
  <2>7. q[n] = s[1] \o r[n - 1]
    <3>1. (n - 1) + 1 = n  BY <1>1
    <3>2. QED  BY <2>6, <3>1
  <2>8. QED  BY <1>1, <1>2, <2>1, <2>7 DEF u
<1>6. QED  BY <1>4, <1>5

\* Segments that get longer at the end.
LEMMA FlattenGrows ==
  ASSUME NEW S, NEW s \in Seq(Seq(S)), NEW u \in Seq(Seq(S)), NEW m \in Seq(S),
         s # <<>>, Len(u) = Len(s), u[Len(s)] = s[Len(s)] \o m,
         \A i \in 1 .. Len(s) - 1 : u[i] = s[i]
  PROVE  FlattenSeq(u) = FlattenSeq(s) \o m
<1> DEFINE n == Len(s)
<1>1. n \in Nat \ {0} /\ u # <<>> /\ \A i \in 1 .. n : s[i] \in Seq(S)
  <2>1. n \in Nat \ {0}  BY EmptySeq
  <2>2. Len(u) # 0  BY <2>1
  <2>3. u # <<>>  BY <2>2, EmptySeq
  <2>4. QED  BY <2>1, <2>3, ElementOfSeq
<1>2. PICK q \in [1 .. n -> Seq(S)] : Joins(s, q) /\ FlattenSeq(s) = q[n]
  BY Flattened
<1>3. PICK r \in [1 .. n -> Seq(S)] : Joins(u, r) /\ FlattenSeq(u) = r[n]
  <2>1. \E r \in [1 .. Len(u) -> Seq(S)] : Joins(u, r) /\ FlattenSeq(u) = r[Len(u)]
    BY <1>1, Flattened
  <2>2. QED  BY <2>1
<1>4. /\ q[1] = s[1] /\ \A i \in 2 .. n : q[i] = q[i - 1] \o s[i]
      /\ r[1] = u[1] /\ \A i \in 2 .. n : r[i] = r[i - 1] \o u[i]
  BY <1>2, <1>3 DEF Joins
<1> DEFINE T == {i \in 1 .. n : r[i] = IF i = n THEN q[i] \o m ELSE q[i]}
<1>5. 1 \in T
  <2>1. 1 \in 1 .. n  BY <1>1
  <2>2. 1 # n => 1 \in 1 .. n - 1  BY <1>1
  <2>3. r[1] = IF 1 = n THEN q[1] \o m ELSE q[1]  BY <1>4, <2>2
  <2>4. QED  BY <2>1, <2>3
<1>6. ASSUME NEW i \in 2 .. n, i - 1 \in T PROVE i \in T
  <2> DEFINE qi == q[i]   ri == r[i]   q0 == q[i - 1]   si == s[i]   ui == u[i]
  <2>1. i \in 1 .. n /\ i - 1 \in 1 .. n /\ i - 1 # n /\ (i # n => i \in 1 .. n - 1)
    BY <1>1
  <2>2. r[i - 1] = q0
    BY <1>6, <2>1
  <2>3. qi = q0 \o si /\ ri = q0 \o ui
    BY <1>4, <2>2
  <2>4. q0 \in Seq(S) /\ si \in Seq(S) /\ m \in Seq(S)
    BY <1>1, <2>1
  <2>5. ui = IF i = n THEN si \o m ELSE si
    BY <2>1
  <2>6. SUFFICES ri = IF i = n THEN qi \o m ELSE qi
    BY <2>1
  <2> HIDE DEF qi, ri, q0, si, ui
  <2>7. (q0 \o si) \o m = q0 \o (si \o m)
    <3>1. Regroups(q0, si, m)  BY ONLY <2>4, Regrouped
    <3>2. QED  BY ONLY <3>1 DEF Regroups
  <2>8. QED  BY <2>3, <2>5, <2>7
<1>7. n \in T
  <2> HIDE DEF T
  <2>1. 1 .. n \subseteq T  BY <1>1, <1>5, <1>6, Counting
  <2>2. n \in 1 .. n  BY <1>1
  <2>3. QED  BY <2>1, <2>2
<1>8. QED  BY <1>2, <1>3, <1>7

\* What leaves the segment h goes to the end of the one before, if there is one.
Moved(s, u, m, h) ==
  /\ Len(u) = Len(s)
  /\ s[h] = m \o u[h]
  /\ \A i \in 1 .. Len(s) : i # h => u[i] = IF i = h - 1 THEN s[i] \o m ELSE s[i]

\* So it is still there, unless the segment was the first.
LEMMA FlattenMoved ==
  ASSUME NEW S, NEW s \in Seq(Seq(S)), NEW u \in Seq(Seq(S)), NEW m \in Seq(S),
         NEW h \in 1 .. Len(s), Moved(s, u, m, h)
  PROVE  FlattenSeq(s) = IF h = 1 THEN m \o FlattenSeq(u) ELSE FlattenSeq(u)
<1> DEFINE n == Len(s)
<1>0. /\ Len(u) = n /\ s[h] = m \o u[h]
      /\ \A i \in 1 .. n : i # h => u[i] = IF i = h - 1 THEN s[i] \o m ELSE s[i]
  BY DEF Moved
<1>1. /\ n \in Nat \ {0} /\ u # <<>> /\ s # <<>> /\ h \in 1 .. n
      /\ \A i \in 1 .. n : s[i] \in Seq(S) /\ u[i] \in Seq(S)
  <2>1. n \in Nat /\ h \in 1 .. n  BY LenProperties
  <2>2. n \in Nat \ {0} /\ Len(u) # 0  BY <1>0, <2>1
  <2>3. u # <<>> /\ s # <<>>  BY <2>2, EmptySeq
  <2>4. QED  BY <1>0, <2>1, <2>2, <2>3, ElementOfSeq
<1>2. PICK q \in [1 .. n -> Seq(S)] : Joins(s, q) /\ FlattenSeq(s) = q[n]
  BY <1>1, Flattened
<1>3. PICK r \in [1 .. n -> Seq(S)] : Joins(u, r) /\ FlattenSeq(u) = r[n]
  <2>1. \E r \in [1 .. Len(u) -> Seq(S)] : Joins(u, r) /\ FlattenSeq(u) = r[Len(u)]
    BY <1>1, Flattened
  <2>2. QED  BY <1>0, <2>1
<1>4. /\ q[1] = s[1] /\ \A i \in 2 .. n : q[i] = q[i - 1] \o s[i]
      /\ r[1] = u[1] /\ \A i \in 2 .. n : r[i] = r[i - 1] \o u[i]
  BY <1>0, <1>2, <1>3 DEF Joins
<1> DEFINE Good(i) == IF h = 1 THEN q[i] = m \o r[i]
                      ELSE r[i] = IF i = h - 1 THEN q[i] \o m ELSE q[i]
           T == {i \in 1 .. n : Good(i)}
<1>5. 1 \in T
  <2>1. 1 \in 1 .. n /\ h \in Nat  BY <1>1
  <2>2. CASE h = 1  BY <1>0, <1>4, <2>1, <2>2
  <2>3. CASE h # 1
    <3>1. u[1] = IF 1 = h - 1 THEN s[1] \o m ELSE s[1]  BY <1>0, <2>1, <2>3
    <3>2. QED  BY <1>4, <2>1, <2>3, <3>1
  <2>4. QED  BY <2>2, <2>3
<1>6. ASSUME NEW i \in 2 .. n, i - 1 \in T PROVE i \in T
  <2> DEFINE qi == q[i]   ri == r[i]   si == s[i]
             q0 == q[i - 1]  r0 == r[i - 1]  ui == u[i]
  <2>1. i \in 1 .. n /\ i - 1 \in 1 .. n /\ h \in Nat /\ i \in Nat
    BY <1>1
  <2>2. IF h = 1 THEN q0 = m \o r0 ELSE r0 = IF i - 1 = h - 1 THEN q0 \o m ELSE q0
    BY <1>6
  <2>3. qi = q0 \o si /\ ri = r0 \o ui
    BY <1>4
  <2>4. q0 \in Seq(S) /\ r0 \in Seq(S) /\ si \in Seq(S) /\ ui \in Seq(S) /\ m \in Seq(S)
    BY <1>1, <2>1
  <2>5. IF i = h THEN si = m \o ui ELSE ui = IF i = h - 1 THEN si \o m ELSE si
    BY <1>0, <2>1
  <2>6. SUFFICES IF h = 1 THEN qi = m \o ri ELSE ri = IF i = h - 1 THEN qi \o m ELSE qi
    BY <2>1
  <2> HIDE DEF qi, ri, si, q0, r0, ui
  <2>7. CASE h = 1
    <3>1. q0 = m \o r0 /\ ui = si
      BY <2>1, <2>2, <2>5, <2>7
    <3>2. (m \o r0) \o ui = m \o (r0 \o ui)
      <4>1. Regroups(m, r0, ui)  BY ONLY <2>4, Regrouped
      <4>2. QED  BY ONLY <4>1 DEF Regroups
    <3>3. QED  BY ONLY <2>3, <2>7, <3>1, <3>2
  <2>8. CASE h # 1 /\ i = h
    <3>0. i # h - 1 /\ i - 1 = h - 1
      BY <2>1, <2>8
    <3>1. r0 = q0 \o m /\ si = m \o ui
      BY <2>2, <2>5, <2>8, <3>0
    <3>2. (q0 \o m) \o ui = q0 \o (m \o ui)
      <4>1. Regroups(q0, m, ui)  BY ONLY <2>4, Regrouped
      <4>2. QED  BY ONLY <4>1 DEF Regroups
    <3>3. QED  BY ONLY <2>3, <2>8, <3>0, <3>1, <3>2
  <2>9. CASE h # 1 /\ i = h - 1
    <3>0. i # h /\ i - 1 # h - 1
      BY <2>1, <2>9
    <3>1. r0 = q0 /\ ui = si \o m
      BY <2>2, <2>5, <2>9, <3>0
    <3>2. (q0 \o si) \o m = q0 \o (si \o m)
      <4>1. Regroups(q0, si, m)  BY ONLY <2>4, Regrouped
      <4>2. QED  BY ONLY <4>1 DEF Regroups
    <3>3. QED  BY ONLY <2>3, <2>9, <3>1, <3>2
  <2>10. CASE h # 1 /\ i # h /\ i # h - 1
    <3>0. i - 1 # h - 1
      BY <2>1, <2>10
    <3>1. r0 = q0 /\ ui = si
      BY <2>2, <2>5, <2>10, <3>0
    <3>2. QED  BY <2>3, <2>10, <3>1
  <2>11. QED  BY <2>7, <2>8, <2>9, <2>10
<1>7. n \in T
  <2> HIDE DEF T
  <2>1. 1 .. n \subseteq T  BY <1>1, <1>5, <1>6, Counting
  <2>2. n \in 1 .. n  BY <1>1
  <2>3. QED  BY <2>1, <2>2
<1>8. CASE h = 1  BY <1>2, <1>3, <1>7, <1>8
<1>9. CASE h # 1
  <2>1. n # h - 1  BY <1>1
  <2>2. QED  BY <1>2, <1>3, <1>7, <1>9, <2>1
<1>10. QED  BY <1>8, <1>9

\* The result is a sequence of the elements.
LEMMA FlattenType ==
  ASSUME NEW S, NEW s \in Seq(Seq(S))
  PROVE  FlattenSeq(s) \in Seq(S)
<1>1. CASE s = <<>>
  <2>1. Len(s) = 0  BY <1>1
  <2>2. FlattenSeq(s) = s  BY <2>1 DEF FlattenSeq
  <2>3. QED  BY <1>1, <2>2, EmptySeq
<1>2. CASE s # <<>>
  <2>1. PICK q \in [1 .. Len(s) -> Seq(S)] : FlattenSeq(s) = q[Len(s)]
    BY <1>2, Flattened
  <2>2. Len(s) \in Nat \ {0}  BY <1>2, EmptySeq
  <2>3. Len(s) \in 1 .. Len(s)  BY <2>2
  <2>4. QED  BY <2>1, <2>3
<1>3. QED  BY <1>1, <1>2

\* Nothing is joined from nothing.
LEMMA FlattenEmpty ==
  ASSUME NEW S, NEW s \in Seq(Seq(S)), s # <<>>, \A i \in 1 .. Len(s) : s[i] = <<>>
  PROVE  FlattenSeq(s) = <<>>
<1> DEFINE n == Len(s)
<1>1. n \in Nat \ {0}
  BY EmptySeq
<1>2. PICK q \in [1 .. n -> Seq(S)] : Joins(s, q) /\ FlattenSeq(s) = q[n]
  BY Flattened
<1>3. q[1] = s[1] /\ \A i \in 2 .. n : q[i] = q[i - 1] \o s[i]
  BY <1>2 DEF Joins
<1> DEFINE T == {i \in 1 .. n : q[i] = <<>>}
<1>4. 1 \in T
  BY <1>1, <1>3
<1>5. ASSUME NEW i \in 2 .. n, i - 1 \in T PROVE i \in T
  <2>1. i \in 1 .. n /\ q[i - 1] = <<>> /\ s[i] = <<>>
    BY <1>1, <1>5
  <2>2. q[i] = <<>> \o <<>>
    BY <1>3, <2>1
  <2>3. <<>> \o <<>> = <<>>
    OBVIOUS
  <2>4. QED  BY <2>1, <2>2, <2>3
<1>6. n \in T
  <2> HIDE DEF T
  <2>1. 1 .. n \subseteq T  BY <1>1, <1>4, <1>5, Counting
  <2>2. n \in 1 .. n  BY <1>1
  <2>3. QED  BY <2>1, <2>2
<1>7. QED  BY <1>2, <1>6

\* Joining from the left, one segment after the other, gives the same: there is
\* such a function ...
LEMMA FoldExists ==
  ASSUME NEW S, NEW s \in Seq(Seq(S))
  PROVE  \E g : g = [i \in 0 .. Len(s) |-> IF i = 0 THEN <<>> ELSE g[i - 1] \o s[i]]
<1> DEFINE n == Len(s)
           Rec(g) == g = [i \in 0 .. n |-> IF i = 0 THEN <<>> ELSE g[i - 1] \o s[i]]
<1>0. n \in Nat  OBVIOUS
<1>1. CASE s = <<>>
  <2>1. n = 0  BY <1>1
  <2>2. Rec([i \in 0 .. 0 |-> <<>>])  BY <2>1
  <2> HIDE DEF Rec
  <2>3. \E g : Rec(g)  BY <2>2
  <2>4. QED  BY <2>3 DEF Rec
<1>2. CASE s # <<>>
  <2>1. PICK q \in [1 .. n -> Seq(S)] : Joins(s, q)
    BY <1>2, Flattened
  <2>2. q[1] = s[1] /\ \A i \in 2 .. n : q[i] = q[i - 1] \o s[i]
    BY <2>1 DEF Joins
  <2>3. n \in Nat \ {0}  BY <1>2, EmptySeq
  <2>4. s[1] \in Seq(S)  BY <2>3, ElementOfSeq
  <2>5. <<>> \o s[1] = s[1]  BY <2>4
  <2> DEFINE g == [i \in 0 .. n |-> IF i = 0 THEN <<>> ELSE q[i]]
  <2>6. ASSUME NEW i \in 0 .. n
        PROVE  g[i] = IF i = 0 THEN <<>> ELSE g[i - 1] \o s[i]
    <3>1. CASE i = 0  BY <3>1
    <3>2. CASE i = 1
      <4>1. g[1] = q[1] /\ g[0] = <<>>  BY <2>3
      <4>2. g[i] = q[1] /\ g[i - 1] = <<>> /\ s[i] = s[1]
        <5>1. i - 1 = 0  BY <3>2
        <5>2. QED  BY <3>2, <4>1, <5>1
      <4>3. <<>> \o s[1] = q[1]  BY <2>2, <2>5
      <4>4. QED  BY <3>2, <4>2, <4>3
    <3>3. CASE i # 0 /\ i # 1
      <4>1. i \in 2 .. n /\ i - 1 \in 0 .. n /\ i - 1 # 0  BY <1>0, <3>3
      <4>2. g[i] = q[i] /\ g[i - 1] = q[i - 1]  BY <4>1, <3>3
      <4>3. QED  BY <2>2, <3>3, <4>1, <4>2
    <3>4. QED  BY <3>1, <3>2, <3>3
  <2>7. g = [i \in 0 .. n |-> g[i]]  OBVIOUS
  <2> HIDE DEF g
  <2>8. Rec(g)  BY <2>6, <2>7
  <2> HIDE DEF Rec
  <2>9. \E h : Rec(h)  BY <2>8
  <2>10. QED  BY <2>9 DEF Rec
<1>3. QED  BY <1>1, <1>2

\* ... and what it computes last is the joined sequence.
LEMMA FoldFlattens ==
  ASSUME NEW S, NEW s \in Seq(Seq(S)), NEW g,
         g = [i \in 0 .. Len(s) |-> IF i = 0 THEN <<>> ELSE g[i - 1] \o s[i]]
  PROVE  g[Len(s)] = FlattenSeq(s)
<1> DEFINE n == Len(s)
<1>0. n \in Nat  OBVIOUS
<1>1. \A i \in 0 .. n : g[i] = IF i = 0 THEN <<>> ELSE g[i - 1] \o s[i]
  OBVIOUS
<1>2. CASE s = <<>>
  <2>1. n = 0  BY <1>2
  <2>2. g[n] = <<>>  BY <1>1, <2>1
  <2>3. FlattenSeq(s) = s  BY <2>1 DEF FlattenSeq
  <2>4. QED  BY <1>2, <2>2, <2>3
<1>3. CASE s # <<>>
  <2>1. PICK q \in [1 .. n -> Seq(S)] : Joins(s, q) /\ FlattenSeq(s) = q[n]
    BY <1>3, Flattened
  <2>2. q[1] = s[1] /\ \A i \in 2 .. n : q[i] = q[i - 1] \o s[i]
    BY <2>1 DEF Joins
  <2>3. n \in Nat \ {0}  BY <1>3, EmptySeq
  <2>4. s[1] \in Seq(S)  BY <2>3, ElementOfSeq
  <2> DEFINE T == {i \in 1 .. n : g[i] = q[i]}
  <2>5. 1 \in T
    <3>1. 0 \in 0 .. n /\ 1 \in 0 .. n /\ 1 \in 1 .. n  BY <2>3
    <3> DEFINE Step(i) == IF i = 0 THEN <<>> ELSE g[i - 1] \o s[i]
    <3>a. g[1] = Step(1) /\ g[0] = Step(0)  BY <1>1, <3>1
    <3>b. Step(0) = <<>> /\ Step(1) = g[0] \o s[1]
      <4>1. 1 - 1 = 0  OBVIOUS
      <4>2. QED  BY <4>1
    <3> HIDE DEF Step
    <3>2. g[1] = g[0] \o s[1] /\ g[0] = <<>>  BY <3>a, <3>b
    <3>3. <<>> \o s[1] = s[1]  BY <2>4
    <3>4. QED  BY <2>2, <3>1, <3>2, <3>3
  <2>6. ASSUME NEW i \in 2 .. n, i - 1 \in T PROVE i \in T
    <3>1. i \in 0 .. n /\ i # 0 /\ i \in 1 .. n /\ g[i - 1] = q[i - 1]  BY <1>0, <2>6
    <3>2. g[i] = g[i - 1] \o s[i]  BY <1>1, <3>1
    <3>3. q[i] = q[i - 1] \o s[i]  BY <2>2
    <3>4. QED  BY <3>1, <3>2, <3>3
  <2>7. n \in T
    <3> HIDE DEF T
    <3>1. 1 .. n \subseteq T  BY <2>3, <2>5, <2>6, Counting
    <3>2. n \in 1 .. n  BY <2>3
    <3>3. QED  BY <3>1, <3>2
  <2>8. QED  BY <2>1, <2>7
<1>4. QED  BY <1>2, <1>3

-----------------------------------------------------------------------------
(***************************************************************************)
(* The flits of one flow among those of a buffer.                          *)
(***************************************************************************)

\* Every flit is one of the flow or none.
LEMMA OwnType ==
  ASSUME NEW f, NEW s \in Seq(Packets)
  PROVE  /\ \A p \in Packets : Own(f, p) \in Seq(Packets)
         /\ [i \in DOMAIN s |-> Own(f, s[i])] \in Seq(Seq(Packets))
         /\ Len([i \in DOMAIN s |-> Own(f, s[i])]) = Len(s)
<1>1. \A p \in Packets : Own(f, p) \in Seq(Packets)
  <2> SUFFICES ASSUME NEW p \in Packets PROVE Own(f, p) \in Seq(Packets)
    OBVIOUS
  <2>1. <<p>> \in Seq(Packets) /\ <<>> \in Seq(Packets)
    BY EmptySeq
  <2>2. QED  BY <2>1 DEF Own
<1> DEFINE o == [i \in DOMAIN s |-> Own(f, s[i])]
<1>2. Len(s) \in Nat /\ DOMAIN s = 1 .. Len(s)
  BY LenProperties
<1>3. o \in [1 .. Len(s) -> Seq(Packets)]
  <2>1. \A i \in 1 .. Len(s) : Own(f, s[i]) \in Seq(Packets)
    BY <1>1, ElementOfSeq
  <2>2. QED  BY <1>2, <2>1
<1>4. o \in Seq(Seq(Packets))
  BY <1>2, <1>3, SeqDef
<1>5. Len(o) = Len(s)
  BY <1>2, <1>3, <1>4, LenProperties
<1>6. QED  BY <1>1, <1>4, <1>5

\* The flits of a flow are joined one by one.
LEMMA OfFlowFlattens ==
  ASSUME NEW f, NEW s \in Seq(Packets)
  PROVE  OfFlow(f, s) = FlattenSeq([i \in DOMAIN s |-> Own(f, s[i])])
<1> DEFINE o == [i \in DOMAIN s |-> Own(f, s[i])]
           Rec(g) == g = [i \in 0 .. Len(s) |->
                            IF i = 0 THEN <<>> ELSE g[i - 1] \o Own(f, s[i])]
<1>1. o \in Seq(Seq(Packets)) /\ Len(o) = Len(s)
  BY OwnType
<1>2. Len(s) \in Nat /\ \A i \in 1 .. Len(s) : o[i] = Own(f, s[i])
  BY LenProperties
<1> HIDE DEF o
<1>3. ASSUME NEW g
      PROVE  [i \in 0 .. Len(s) |-> IF i = 0 THEN <<>> ELSE g[i - 1] \o Own(f, s[i])]
               = [i \in 0 .. Len(o) |-> IF i = 0 THEN <<>> ELSE g[i - 1] \o o[i]]
  <2>1. \A i \in 0 .. Len(s) : i # 0 => o[i] = Own(f, s[i])
    BY <1>2
  <2>2. QED  BY <1>1, <2>1
<1>4. PICK h : h = [i \in 0 .. Len(o) |-> IF i = 0 THEN <<>> ELSE h[i - 1] \o o[i]]
  BY <1>1, FoldExists
<1>5. Rec(h)
  BY <1>3, <1>4
<1> DEFINE c == CHOOSE g : Rec(g)
<1>6. OfFlow(f, s) = c[Len(s)]
  BY DEF OfFlow
<1>7. Rec(c)
  <2> HIDE DEF Rec
  <2>1. QED  BY <1>5
<1> HIDE DEF c
<1>8. c = [i \in 0 .. Len(o) |-> IF i = 0 THEN <<>> ELSE c[i - 1] \o o[i]]
  BY <1>3, <1>7
<1>9. c[Len(o)] = FlattenSeq(o)
  BY <1>1, <1>8, FoldFlattens
<1>10. QED  BY <1>1, <1>6, <1>9 DEF o

\* Selecting keeps the order: a flit more at the end, ...
LEMMA OfFlowAppend ==
  ASSUME NEW f, NEW s \in Seq(Packets), NEW p \in Packets
  PROVE  OfFlow(f, Append(s, p)) = OfFlow(f, s) \o Own(f, p)
<1> DEFINE o == [i \in DOMAIN s |-> Own(f, s[i])]
           u == Append(s, p)
           o1 == [i \in DOMAIN u |-> Own(f, u[i])]
<1>1. /\ u \in Seq(Packets) /\ Len(u) = Len(s) + 1 /\ Len(s) \in Nat
      /\ \A i \in 1 .. Len(s) : u[i] = s[i]
      /\ u[Len(s) + 1] = p
      /\ DOMAIN s = 1 .. Len(s)
  BY AppendProperties, LenProperties
<1> HIDE DEF u
<1>2. DOMAIN u = 1 .. Len(s) + 1
  BY <1>1, LenProperties
<1>3. /\ o \in Seq(Seq(Packets)) /\ Len(o) = Len(s)
      /\ o1 \in Seq(Seq(Packets)) /\ Len(o1) = Len(s) + 1
      /\ Own(f, p) \in Seq(Packets)
  BY <1>1, OwnType
<1>4. \A i \in 1 .. Len(s) + 1 : o1[i] = IF i = Len(s) + 1 THEN Own(f, p) ELSE o[i]
  BY <1>1, <1>2
<1>5. FlattenSeq(o1) = FlattenSeq(o) \o Own(f, p)
  <2> DEFINE o2 == Append(o, Own(f, p))
  <2> HIDE DEF o, o1
  <2>1. /\ o2 \in Seq(Seq(Packets)) /\ Len(o2) = Len(s) + 1
        /\ \A i \in 1 .. Len(s) : o2[i] = o[i]
        /\ o2[Len(s) + 1] = Own(f, p)
    BY <1>3, AppendProperties
  <2> HIDE DEF o2
  <2>2. ASSUME NEW i \in 1 .. Len(s) + 1 PROVE o1[i] = o2[i]
    <3>0. Len(s) \in Nat  BY <1>1
    <3>1. CASE i = Len(s) + 1
      <4>1. o1[i] = Own(f, p)  BY <1>4, <3>1
      <4>2. QED  BY <2>1, <3>1, <4>1
    <3>2. CASE i # Len(s) + 1
      <4>1. o1[i] = o[i]  BY <1>4, <3>2
      <4>2. i \in 1 .. Len(s)  BY <3>0, <3>2
      <4>3. QED  BY <2>1, <4>1, <4>2
    <3>3. QED  BY <3>1, <3>2
  <2>3. o1 = o2
    BY <1>3, <2>1, <2>2, SeqEqual
  <2>4. FlattenSeq(o2) = FlattenSeq(o) \o Own(f, p)
    BY <1>3, FlattenAppend DEF o2
  <2>5. QED  BY <2>3, <2>4
<1>6. OfFlow(f, s) = FlattenSeq(o) /\ OfFlow(f, u) = FlattenSeq(o1)
  BY <1>1, OfFlowFlattens
<1>7. QED  BY <1>5, <1>6 DEF u

\* ... or one less at the head.
LEMMA OfFlowHead ==
  ASSUME NEW f, NEW s \in Seq(Packets), s # <<>>
  PROVE  OfFlow(f, s) = Own(f, Head(s)) \o OfFlow(f, Tail(s))
<1> DEFINE o == [i \in DOMAIN s |-> Own(f, s[i])]
           u == Tail(s)
           o1 == [i \in DOMAIN u |-> Own(f, u[i])]
<1>1. /\ Len(s) \in Nat \ {0} /\ Head(s) = s[1] /\ DOMAIN s = 1 .. Len(s)
      /\ u \in Seq(Packets) /\ Len(u) = Len(s) - 1 /\ DOMAIN u = 1 .. Len(s) - 1
      /\ \A i \in 1 .. Len(s) - 1 : u[i] = s[i + 1]
  <2>1. Len(s) \in Nat \ {0} /\ Head(s) = s[1] /\ DOMAIN s = 1 .. Len(s)
    BY EmptySeq, LenProperties
  <2>2. u \in Seq(Packets) /\ Len(u) = Len(s) - 1 /\ \A i \in 1 .. Len(u) : u[i] = s[i + 1]
    BY HeadTailProperties
  <2> HIDE DEF u
  <2>3. DOMAIN u = 1 .. Len(u)
    BY <2>2, LenProperties
  <2>4. QED  BY <2>1, <2>2, <2>3
<1> HIDE DEF u
<1>2. /\ o \in Seq(Seq(Packets)) /\ Len(o) = Len(s)
      /\ o1 \in Seq(Seq(Packets)) /\ Len(o1) = Len(s) - 1
  BY <1>1, OwnType
<1>3. o[1] = Own(f, Head(s)) /\ \A i \in 1 .. Len(s) - 1 : o1[i] = o[i + 1]
  <2>1. 1 \in 1 .. Len(s) /\ \A i \in 1 .. Len(s) - 1 : i + 1 \in 1 .. Len(s)
    BY <1>1
  <2>2. QED  BY <1>1, <2>1
<1>4. FlattenSeq(o) = Own(f, Head(s)) \o FlattenSeq(o1)
  <2> HIDE DEF o, o1
  <2>1. o # <<>>
    BY <1>1, <1>2, EmptySeq
  <2>2. /\ Tail(o) \in Seq(Seq(Packets)) /\ Len(Tail(o)) = Len(s) - 1
        /\ \A i \in 1 .. Len(Tail(o)) : Tail(o)[i] = o[i + 1]
        /\ Head(o) = o[1]
    BY <1>2, <2>1, HeadTailProperties
  <2> DEFINE o2 == Tail(o)
  <2> HIDE DEF o2
  <2>3. o1 = o2
    <3>1. o2 \in Seq(Seq(Packets)) /\ Len(o2) = Len(s) - 1
      BY <2>2 DEF o2
    <3>2. \A i \in 1 .. Len(s) - 1 : o2[i] = o1[i]
      BY <1>3, <2>2 DEF o2
    <3>3. QED  BY <1>2, <3>1, <3>2, SeqEqual
  <2>4. FlattenSeq(o) = Head(o) \o FlattenSeq(o2)
    BY <1>2, <2>1, FlattenHead DEF o2
  <2>5. QED  BY <1>3, <2>2, <2>3, <2>4
<1>5. OfFlow(f, s) = FlattenSeq(o) /\ OfFlow(f, u) = FlattenSeq(o1)
  BY <1>1, OfFlowFlattens
<1>6. QED  BY <1>4, <1>5 DEF u

\* Nothing is selected from nothing.
LEMMA OfFlowEmpty ==
  ASSUME NEW f
  PROVE  OfFlow(f, <<>>) = <<>>
<1>1. <<>> \in Seq(Packets) /\ Len(<<>>) = 0
  BY EmptySeq
<1> DEFINE o == [i \in DOMAIN <<>> |-> Own(f, <<>>[i])]
<1>2. o \in Seq(Seq(Packets)) /\ Len(o) = 0
  BY <1>1, OwnType
<1>3. o = <<>>
  BY <1>2, EmptySeq
<1>4. OfFlow(f, <<>>) = FlattenSeq(o)
  BY <1>1, OfFlowFlattens
<1>5. QED  BY <1>2, <1>3, <1>4 DEF FlattenSeq

\* A selection consists of packets.
LEMMA OfFlowType ==
  ASSUME NEW f, NEW s \in Seq(Packets)
  PROVE  OfFlow(f, s) \in Seq(Packets)
<1> DEFINE o == [i \in DOMAIN s |-> Own(f, s[i])]
<1>1. o \in Seq(Seq(Packets))
  BY OwnType
<1> HIDE DEF o
<1>2. FlattenSeq(o) \in Seq(Packets)
  BY <1>1, FlattenType
<1>3. QED  BY <1>2, OfFlowFlattens DEF o

-----------------------------------------------------------------------------
(***************************************************************************)
(* The path of a flow.                                                     *)
(***************************************************************************)

\* The ends of a flow are two routers of the mesh.
LEMMA FlowType ==
  ASSUME NEW f \in Flows
  PROVE  /\ f[1] \in Types /\ f[2] \in Nodes /\ f[3] \in Nodes
         /\ f = <<f[1], f[2], f[3]>>
         /\ f[2] = <<X(f[2]), Y(f[2])>> /\ f[3] = <<X(f[3]), Y(f[3])>>
         /\ X(f[2]) \in 0 .. mesh_width - 1 /\ X(f[3]) \in 0 .. mesh_width - 1
         /\ Y(f[2]) \in 0 .. mesh_height - 1 /\ Y(f[3]) \in 0 .. mesh_height - 1
         /\ mesh_width \in Nat /\ mesh_height \in Nat
<1>1. f \in Types \X Nodes \X Nodes
  BY FlowAssumption
<1>2. f[1] \in Types /\ f[2] \in Nodes /\ f[3] \in Nodes /\ f = <<f[1], f[2], f[3]>>
  BY <1>1
<1>3. QED  BY <1>2, MeshAssumption DEF Nodes, X, Y

\* The path has a router at every distance.
LEMMA PathType ==
  ASSUME NEW f \in Flows
  PROVE  /\ PathLength(f) \in Nat
         /\ \A k \in 0 .. PathLength(f) : PathNode(f, k) \in Nodes
         /\ PathNode(f, 0) = f[2]
         /\ PathNode(f, PathLength(f)) = f[3]
<1>1. PathLength(f) \in Nat
  BY FlowType DEF PathLength, Distance
<1>2. ASSUME NEW k \in 0 .. PathLength(f) PROVE PathNode(f, k) \in Nodes
  BY FlowType DEF PathLength, PathNode, Distance, Toward, X, Y, Nodes
<1>3. PathNode(f, 0) = f[2]
  BY FlowType DEF PathNode, Distance, Toward
<1>4. PathNode(f, PathLength(f)) = f[3]
  BY FlowType DEF PathLength, PathNode, Distance, Toward
<1>5. QED  BY <1>1, <1>2, <1>3, <1>4

\* It comes to a router once.
LEMMA PathOnce ==
  ASSUME NEW f \in Flows, NEW j \in 0 .. PathLength(f), NEW k \in 0 .. PathLength(f),
         PathNode(f, j) = PathNode(f, k)
  PROVE  j = k
<1> DEFINE row == Distance(X(f[2]), X(f[3]))
           col == Distance(Y(f[2]), Y(f[3]))
           px(i) == IF i <= row THEN Toward(X(f[2]), X(f[3]), i) ELSE X(f[3])
           py(i) == IF i <= row THEN Y(f[2]) ELSE Toward(Y(f[2]), Y(f[3]), i - row)
<1>1. row \in Nat /\ col \in Nat /\ j \in 0 .. row + col /\ k \in 0 .. row + col
  BY FlowType DEF Distance, PathLength
<1>2. ASSUME NEW i \in 0 .. row + col
      PROVE  PathNode(f, i)[1] = px(i) /\ PathNode(f, i)[2] = py(i)
  BY DEF PathNode
<1>3. px(j) = px(k) /\ py(j) = py(k)
  BY <1>1, <1>2
<1>4. CASE j <= row /\ k <= row
  BY <1>1, <1>3, <1>4, FlowType DEF Toward
<1>5. CASE j <= row /\ ~ (k <= row)
  BY <1>1, <1>3, <1>5, FlowType DEF Toward, Distance
<1>6. CASE ~ (j <= row) /\ k <= row
  BY <1>1, <1>3, <1>6, FlowType DEF Toward, Distance
<1>7. CASE ~ (j <= row) /\ ~ (k <= row)
  BY <1>1, <1>3, <1>7, FlowType DEF Toward, Distance
<1>8. QED  BY <1>4, <1>5, <1>6, <1>7

\* From the destination there is no way on, from every other router the route
\* leads to the next one.
LEMMA PathRoute ==
  ASSUME NEW f \in Flows, NEW k \in 0 .. PathLength(f)
  PROVE  /\ Route(PathNode(f, k), f[3]) = HOME <=> k = PathLength(f)
         /\ k # PathLength(f) =>
              /\ Route(PathNode(f, k), f[3]) \in Links
              /\ Nbr(PathNode(f, k), Route(PathNode(f, k), f[3])) = PathNode(f, k + 1)
<1> DEFINE r == Route(PathNode(f, k), f[3])
<1>1. k \in Nat /\ PathLength(f) \in Nat
  BY PathType
<1>2. CASE k = PathLength(f)
  BY <1>2, FlowType, PathType DEF Route
<1>3. CASE k # PathLength(f)
  <2>1. k < PathLength(f)
    BY <1>1, <1>3
  <2> DEFINE row == Distance(X(f[2]), X(f[3]))
  <2>2. CASE k < row
    <3>1. PathNode(f, k) = <<Toward(X(f[2]), X(f[3]), k), Y(f[2])>>
      BY <1>1, <2>2, FlowType DEF PathNode, Distance
    <3>2. PathNode(f, k + 1) = <<Toward(X(f[2]), X(f[3]), k + 1), Y(f[2])>>
      BY <1>1, <2>2, FlowType DEF PathNode, Distance
    <3>3. CASE X(f[2]) < X(f[3])
      <4>1. r = RIGHT
        BY <1>1, <2>2, <3>1, <3>3, FlowType DEF Route, Toward, Distance, X, Y
      <4>2. Nbr(PathNode(f, k), RIGHT) = <<PathNode(f, k)[1] + 1, PathNode(f, k)[2]>>
        BY DEF Nbr, X, Y
      <4>3. Nbr(PathNode(f, k), RIGHT) = PathNode(f, k + 1)
        BY <1>1, <3>1, <3>2, <3>3, <4>2, FlowType DEF Toward, Distance
      <4>4. r \in Links /\ r # HOME
        BY <4>1 DEF Links, Dirs
      <4>5. QED  BY <1>3, <4>1, <4>3, <4>4
    <3>4. CASE ~ (X(f[2]) < X(f[3]))
      <4>1. r = LEFT
        BY <1>1, <2>2, <3>1, <3>4, FlowType DEF Route, Toward, Distance, X, Y
      <4>2. Nbr(PathNode(f, k), LEFT) = <<PathNode(f, k)[1] - 1, PathNode(f, k)[2]>>
        BY DEF Nbr, X, Y
      <4>3. Nbr(PathNode(f, k), LEFT) = PathNode(f, k + 1)
        BY <1>1, <3>1, <3>2, <3>4, <4>2, FlowType DEF Toward, Distance
      <4>4. r \in Links /\ r # HOME
        BY <4>1 DEF Links, Dirs
      <4>5. QED  BY <1>3, <4>1, <4>3, <4>4
    <3>5. QED  BY <3>3, <3>4
  <2>3. CASE ~ (k < row)
    <3>1. PathNode(f, k) = <<X(f[3]), Toward(Y(f[2]), Y(f[3]), k - row)>>
      BY <1>1, <2>3, FlowType DEF PathNode, Distance, Toward
    <3>2. PathNode(f, k + 1) = <<X(f[3]), Toward(Y(f[2]), Y(f[3]), k + 1 - row)>>
      BY <1>1, <2>3, FlowType DEF PathNode, Distance
    <3>3. CASE Y(f[2]) < Y(f[3])
      <4>1. r = DOWN
        BY <1>1, <2>1, <2>3, <3>1, <3>3, FlowType
        DEF Route, Toward, Distance, X, Y, PathLength
      <4>2. Nbr(PathNode(f, k), DOWN) = <<PathNode(f, k)[1], PathNode(f, k)[2] + 1>>
        BY DEF Nbr, X, Y
      <4>3. Nbr(PathNode(f, k), DOWN) = PathNode(f, k + 1)
        BY <1>1, <3>1, <3>2, <3>3, <4>2, FlowType DEF Toward, Distance
      <4>4. r \in Links /\ r # HOME
        BY <4>1 DEF Links, Dirs
      <4>5. QED  BY <1>3, <4>1, <4>3, <4>4
    <3>4. CASE ~ (Y(f[2]) < Y(f[3]))
      <4>1. r = UP
        BY <1>1, <2>1, <2>3, <3>1, <3>4, FlowType
        DEF Route, Toward, Distance, X, Y, PathLength
      <4>2. Nbr(PathNode(f, k), UP) = <<PathNode(f, k)[1], PathNode(f, k)[2] - 1>>
        BY DEF Nbr, X, Y
      <4>3. Nbr(PathNode(f, k), UP) = PathNode(f, k + 1)
        BY <1>1, <3>1, <3>2, <3>4, <4>2, FlowType DEF Toward, Distance
      <4>4. r \in Links /\ r # HOME
        BY <4>1 DEF Links, Dirs
      <4>5. QED  BY <1>3, <4>1, <4>3, <4>4
    <3>5. QED  BY <3>3, <3>4
  <2>4. QED  BY <2>2, <2>3
<1>4. QED  BY <1>2, <1>3

\* A link is known by the router it leads to.
LEMMA NbrOnce ==
  ASSUME NEW n \in Nodes, NEW a \in Links, NEW b \in Links, Nbr(n, a) = Nbr(n, b)
  PROVE  a = b
<1>1. n[1] \in Int /\ n[2] \in Int
  BY MeshAssumption DEF Nodes
<1>2. a \in {UP, DOWN, LEFT, RIGHT}
  BY DEF Links, Dirs
<1>3. b \in {UP, DOWN, LEFT, RIGHT}
  BY DEF Links, Dirs
<1>4. QED  BY <1>1, <1>2, <1>3 DEF Nbr, X, Y

\* A flit waits in the buffer of the link it came by.
LEMMA PathInputs ==
  ASSUME NEW f \in Flows
  PROVE  /\ PathInput(f, 0) = HOME
         /\ \A k \in 1 .. PathLength(f) :
              /\ PathInput(f, k) \in Links
              /\ Nbr(PathNode(f, k), PathInput(f, k)) = PathNode(f, k - 1)
              /\ PathInput(f, k) = Opposite(Route(PathNode(f, k - 1), f[3]))
<1>1. PathInput(f, 0) = HOME
  BY DEF PathInput
<1>2. ASSUME NEW k \in 1 .. PathLength(f)
      PROVE  /\ PathInput(f, k) \in Links
             /\ Nbr(PathNode(f, k), PathInput(f, k)) = PathNode(f, k - 1)
             /\ PathInput(f, k) = Opposite(Route(PathNode(f, k - 1), f[3]))
  <2> DEFINE n == PathNode(f, k)
             n0 == PathNode(f, k - 1)
             r == Route(n0, f[3])
  <2>1. /\ PathLength(f) \in Nat /\ k - 1 \in 0 .. PathLength(f)
        /\ k \in 0 .. PathLength(f) /\ k # 0 /\ k - 1 # PathLength(f) /\ (k - 1) + 1 = k
    BY PathType
  <2>2. n \in Nodes /\ n0 \in Nodes
    BY <2>1, PathType
  <2>3. r \in Links /\ Nbr(n0, r) = n
    <3>1. r \in Links /\ Nbr(n0, r) = PathNode(f, (k - 1) + 1)
      BY <2>1, PathRoute
    <3>2. QED  BY <2>1, <3>1
  <2>4. PathInput(f, k) = CHOOSE d \in Links : Nbr(n, d) = n0
    BY <2>1 DEF PathInput
  <2> HIDE DEF n, n0, r
  <2>5. Opposite(r) \in Links /\ Nbr(n, Opposite(r)) = n0
    BY <2>2, <2>3, NbrBack
  <2>6. PathInput(f, k) \in Links /\ Nbr(n, PathInput(f, k)) = n0
    BY <2>4, <2>5
  <2>7. PathInput(f, k) = Opposite(r)
    BY <2>2, <2>5, <2>6, NbrOnce
  <2>8. QED  BY <2>6, <2>7 DEF n, n0, r
<1>3. QED  BY <1>1, <1>2

-----------------------------------------------------------------------------
(***************************************************************************)
(* No flit strays from the path of its flow.                               *)
(***************************************************************************)

\* The path of some flow of type t takes the flit p through input i of router n.
OnPath(t, p, n, i) ==
  \E f \in Flows : /\ f[1] = t /\ f[2] = p.src /\ f[3] = p.dst
                   /\ \E k \in 0 .. PathLength(f) :
                        PathNode(f, k) = n /\ PathInput(f, k) = i

AllOnPath(t, s, n, i) == \A k \in 1 .. Len(s) : OnPath(t, s[k], n, i)

\* Every flit, waiting or on a wire, is at a station of its flow's path.
KeepsPath ==
  \A n \in Nodes, t \in Types, i \in Dirs :
    /\ AllOnPath(t, ingress[n][t][i], n, i)
    /\ AllOnPath(t, wire[n][t][i], n, i)

\* Buffers get a flit more at the end ...
LEMMA AllOnPathAppend ==
  ASSUME NEW t, NEW n, NEW i, NEW s \in Seq(Packets), NEW p \in Packets,
         AllOnPath(t, s, n, i), OnPath(t, p, n, i)
  PROVE  AllOnPath(t, Append(s, p), n, i)
<1> SUFFICES ASSUME NEW k \in 1 .. Len(Append(s, p))
             PROVE  OnPath(t, Append(s, p)[k], n, i)
  BY DEF AllOnPath
<1>1. Append(s, p)[k] = IF k \in 1 .. Len(s) THEN s[k] ELSE p
  BY AppendKeeps
<1>2. QED  BY <1>1 DEF AllOnPath

\* ... and lose their head.
LEMMA AllOnPathTail ==
  ASSUME NEW t, NEW n, NEW i, NEW s \in Seq(Packets), s # <<>>, AllOnPath(t, s, n, i)
  PROVE  OnPath(t, Head(s), n, i) /\ AllOnPath(t, Tail(s), n, i)
<1>1. Len(s) \in Nat \ {0} /\ Head(s) = s[1]
  BY EmptySeq
<1>2. Len(Tail(s)) = Len(s) - 1 /\ \A k \in 1 .. Len(Tail(s)) : Tail(s)[k] = s[k + 1]
  BY HeadTailProperties
<1>3. OnPath(t, Head(s), n, i)
  BY <1>1 DEF AllOnPath
<1>4. ASSUME NEW k \in 1 .. Len(Tail(s)) PROVE OnPath(t, Tail(s)[k], n, i)
  <2>1. k + 1 \in 1 .. Len(s)  BY <1>1, <1>2
  <2>2. Tail(s)[k] = s[k + 1]  BY <1>2
  <2>3. QED  BY <2>1, <2>2 DEF AllOnPath
<1>5. QED  BY <1>3, <1>4 DEF AllOnPath

\* The next hop of a flit is on its path, too.
LEMMA OnPathNext ==
  ASSUME NEW t \in Types, NEW p, NEW n \in Nodes, NEW i \in Dirs, OnPath(t, p, n, i),
         NEW m \in Nodes, NEW d \in Links, Nbr(m, d) = n, Route(n, p.dst) = Opposite(d)
  PROVE  OnPath(t, p, m, d)
<1>1. PICK f \in Flows :
        /\ f[1] = t /\ f[2] = p.src /\ f[3] = p.dst
        /\ \E k \in 0 .. PathLength(f) : PathNode(f, k) = n /\ PathInput(f, k) = i
  BY DEF OnPath
<1>2. PICK k \in 0 .. PathLength(f) : PathNode(f, k) = n
  BY <1>1
<1>3. /\ Opposite(d) \in Links /\ Opposite(Opposite(d)) = d
      /\ Nbr(n, Opposite(d)) = m
  BY NbrBack
<1>4. Route(PathNode(f, k), f[3]) = Opposite(d) /\ Opposite(d) # HOME
  BY <1>1, <1>2, <1>3 DEF Links
<1>5. k # PathLength(f) /\ PathNode(f, k + 1) = m
  BY <1>2, <1>3, <1>4, PathRoute
<1>6. k + 1 \in 1 .. PathLength(f) /\ k + 1 \in 0 .. PathLength(f) /\ (k + 1) - 1 = k
  BY <1>5, PathType
<1>7. PathInput(f, k + 1) = d
  <2>1. PathInput(f, k + 1) = Opposite(Route(PathNode(f, (k + 1) - 1), f[3]))
    BY <1>6, PathInputs
  <2>2. QED  BY <1>3, <1>4, <1>6, <2>1
<1>8. QED  BY <1>1, <1>5, <1>6, <1>7 DEF OnPath

\* At first there are no flits.
LEMMA KeepsPathInit == Init => KeepsPath
<1> SUFFICES ASSUME Init, NEW n \in Nodes, NEW t \in Types, NEW i \in Dirs
             PROVE  /\ AllOnPath(t, ingress[n][t][i], n, i)
                    /\ AllOnPath(t, wire[n][t][i], n, i)
  BY DEF KeepsPath
<1>1. ingress[n][t][i] = <<>> /\ wire[n][t][i] = <<>>
  BY DEF Init, PortMap
<1>2. QED  BY <1>1 DEF AllOnPath

\* The caches send along a flow.
LEMMA KeepsPathRequest ==
  ASSUME IInv, KeepsPath, NEW f \in Flows, NEW v \in Msgs[f], noc_request(f, v)
  PROVE  KeepsPath'
<1> DEFINE t == f[1]
           n == f[2]
           b == ingress[n][t][HOME]
           p == [src |-> n, dst |-> f[3], msg |-> v]
           b1 == Append(b, p)
<1>0. TypeOK
  BY DEF IInv
<1>1. t \in Types /\ n \in Nodes /\ f[3] \in Nodes /\ HOME \in Dirs
  BY FlowType DEF Dirs
<1>2. b \in Seq(Packets) /\ p \in Packets
  BY <1>0, <1>1, PortType DEF Packets
<1>3. b1 \in Seq(Packets)
  BY <1>2, AppendKeeps
<1>4. OnPath(t, p, n, HOME)
  <2>1. 0 \in 0 .. PathLength(f) /\ PathNode(f, 0) = n /\ PathInput(f, 0) = HOME
    BY PathType, PathInputs
  <2>2. p.src = f[2] /\ p.dst = f[3]
    OBVIOUS
  <2>3. QED  BY <2>1, <2>2 DEF OnPath
<1>5. AllOnPath(t, b, n, HOME)
  BY <1>1 DEF KeepsPath
<1>6. AllOnPath(t, b1, n, HOME)
  <2> HIDE DEF b, p, t, n
  <2>1. QED  BY <1>2, <1>4, <1>5, AllOnPathAppend
<1>7. ingress' = [ingress EXCEPT ![n][t][HOME] = b1] /\ wire' = wire
  BY DEF noc_request
<1>it. ingress \in [Nodes -> [Types -> [Dirs -> Seq(Packets)]]]
  BY <1>0 DEF TypeOK
<1> HIDE DEF t, n, p, b, b1
<1>8. \A m \in Nodes, u \in Types, i \in Dirs :
        ingress'[m][u][i] = IF m = n /\ u = t /\ i = HOME THEN b1 ELSE ingress[m][u][i]
  BY <1>it, <1>1, <1>3, <1>7, PortUpdate
<1>9. SUFFICES ASSUME NEW m \in Nodes, NEW u \in Types, NEW i \in Dirs
               PROVE  /\ AllOnPath(u, ingress'[m][u][i], m, i)
                      /\ AllOnPath(u, wire[m][u][i], m, i)
  BY <1>7 DEF KeepsPath, AllOnPath, OnPath
<1>10. AllOnPath(u, ingress[m][u][i], m, i) /\ AllOnPath(u, wire[m][u][i], m, i)
  BY DEF KeepsPath
<1>11. CASE m = n /\ u = t /\ i = HOME  BY <1>6, <1>8, <1>10, <1>11
<1>12. CASE ~ (m = n /\ u = t /\ i = HOME)  BY <1>8, <1>10, <1>12
<1>13. QED  BY <1>11, <1>12

\* What was on the wire is put into the buffer behind it.
LEMMA KeepsPathArrive ==
  ASSUME IInv, KeepsPath, NEW n \in Nodes, NEW t \in Types, NEW d \in Links,
         flit_arrive(n, t, d)
  PROVE  KeepsPath'
<1> DEFINE b == ingress[n][t][d]
           w == wire[n][t][d]
           b1 == Append(b, Head(w))
           w1 == Tail(w)
<1>0. TypeOK
  BY DEF IInv
<1>d. d \in Dirs
  BY DEF Links
<1>1. b \in Seq(Packets) /\ w \in Seq(Packets) /\ w # <<>>
  BY <1>0, <1>d, PortType DEF flit_arrive
<1>2. AllOnPath(t, b, n, d) /\ AllOnPath(t, w, n, d)
  BY <1>d DEF KeepsPath
<1>3a. ingress' = [ingress EXCEPT ![n][t][d] = b1]
  BY DEF flit_arrive
<1>3b. wire' = [wire EXCEPT ![n][t][d] = w1]
  BY DEF flit_arrive
<1>ia. ingress \in [Nodes -> [Types -> [Dirs -> Seq(Packets)]]]
  BY <1>0 DEF TypeOK
<1>ib. wire \in [Nodes -> [Types -> [Dirs -> Seq(Packets)]]]
  BY <1>0 DEF TypeOK
<1> HIDE DEF b, w
<1>4. Head(w) \in Packets /\ b1 \in Seq(Packets) /\ w1 \in Seq(Packets)
  BY <1>1, HeadTailProperties, AppendKeeps
<1>5. OnPath(t, Head(w), n, d) /\ AllOnPath(t, w1, n, d)
  BY <1>1, <1>2, AllOnPathTail
<1>6. AllOnPath(t, b1, n, d)
  BY <1>1, <1>2, <1>4, <1>5, AllOnPathAppend
<1> HIDE DEF b1, w1
<1>7a. \A m \in Nodes, u \in Types, i \in Dirs :
         ingress'[m][u][i] = IF m = n /\ u = t /\ i = d THEN b1 ELSE ingress[m][u][i]
  BY ONLY <1>ia, <1>d, <1>3a, <1>4, PortUpdate
<1>7b. \A m \in Nodes, u \in Types, i \in Dirs :
         wire'[m][u][i] = IF m = n /\ u = t /\ i = d THEN w1 ELSE wire[m][u][i]
  BY ONLY <1>ib, <1>d, <1>3b, <1>4, PortUpdate
<1>8. SUFFICES ASSUME NEW m \in Nodes, NEW u \in Types, NEW i \in Dirs
               PROVE  /\ AllOnPath(u, ingress'[m][u][i], m, i)
                      /\ AllOnPath(u, wire'[m][u][i], m, i)
  BY DEF KeepsPath, AllOnPath, OnPath
<1>9. AllOnPath(u, ingress[m][u][i], m, i) /\ AllOnPath(u, wire[m][u][i], m, i)
  BY DEF KeepsPath
<1>10. CASE m = n /\ u = t /\ i = d  BY <1>5, <1>6, <1>7a, <1>7b, <1>10
<1>11. CASE ~ (m = n /\ u = t /\ i = d)  BY <1>7a, <1>7b, <1>9, <1>11
<1>12. QED  BY <1>10, <1>11

\* Flits leave through the egress that their route names.
LEMMA KeepsPathStage ==
  ASSUME IInv, KeepsPath, NEW n \in Nodes, flit_traverse(n)
  PROVE  KeepsPath'
<1>0. TypeOK /\ GrantSound /\ NoUTurn
  BY DEF IInv
<1>1. /\ \A m \in Nodes, u \in Types, i \in Dirs :
           ingress'[m][u][i] = IF m = n /\ Departs(n, u, i)
                               THEN Tail(ingress[m][u][i])
                               ELSE ingress[m][u][i]
      /\ \A m \in Nodes, u \in Types, i \in Dirs :
           wire'[m][u][i]
             = IF i # HOME /\ Nbr(m, i) = n /\ Leaves(n, u, Opposite(i))
               THEN Append(wire[m][u][i], Flit(n, u, Opposite(i)))
               ELSE wire[m][u][i]
  BY <1>0, TraverseFlits
<1>2. SUFFICES ASSUME NEW m \in Nodes, NEW u \in Types, NEW i \in Dirs
               PROVE  /\ AllOnPath(u, ingress'[m][u][i], m, i)
                      /\ AllOnPath(u, wire'[m][u][i], m, i)
  BY DEF KeepsPath, AllOnPath, OnPath
<1>3. AllOnPath(u, ingress[m][u][i], m, i) /\ AllOnPath(u, wire[m][u][i], m, i)
  BY DEF KeepsPath
<1>4. ingress[m][u][i] \in Seq(Packets) /\ wire[m][u][i] \in Seq(Packets)
  BY <1>0, PortType
<1>5. AllOnPath(u, ingress'[m][u][i], m, i)
  <2>1. CASE m = n /\ Departs(n, u, i)
    <3>1. ingress[m][u][i] # <<>>
      BY <1>0, <2>1 DEF Departs, Leaves, GrantSound
    <3>2. AllOnPath(u, Tail(ingress[m][u][i]), m, i)
      BY <1>3, <1>4, <3>1, AllOnPathTail
    <3>3. QED  BY <1>1, <2>1, <3>2
  <2>2. CASE ~ (m = n /\ Departs(n, u, i))
    BY <1>1, <1>3, <2>2
  <2>3. QED  BY <2>1, <2>2
<1>6. AllOnPath(u, wire'[m][u][i], m, i)
  <2>1. CASE i # HOME /\ Nbr(m, i) = n /\ Leaves(n, u, Opposite(i))
    <3> DEFINE d == Opposite(i)
               g == grant[n][u][d]
               p == Flit(n, u, d)
    <3>1. i \in Links /\ d \in Links /\ d \in Dirs
      <4>1. i \in Links  BY <2>1 DEF Links
      <4>2. d \in Links  BY <4>1, NbrBack
      <4>3. QED  BY <4>1, <4>2 DEF Links
    <3>2. g # NULL
      BY <2>1 DEF Leaves
    <3>3. /\ g \in Dirs /\ ingress[n][u][g] # <<>> /\ p \in Packets
          /\ Route(n, p.dst) = d
      BY <1>0, <3>1, <3>2, GrantedFlit
    <3>4. ingress[n][u][g] \in Seq(Packets) /\ AllOnPath(u, ingress[n][u][g], n, g)
      BY <1>0, <3>3, PortType DEF KeepsPath
    <3>5. p = Head(ingress[n][u][g])
      BY DEF Flit
    <3> HIDE DEF p, g
    <3>6. OnPath(u, p, n, g)
      BY <3>3, <3>4, <3>5, AllOnPathTail
    <3>7. OnPath(u, p, m, i)
      BY <2>1, <3>1, <3>3, <3>6, OnPathNext
    <3>8. AllOnPath(u, Append(wire[m][u][i], p), m, i)
      BY <1>3, <1>4, <3>3, <3>7, AllOnPathAppend
    <3>9. QED  BY <1>1, <2>1, <3>8 DEF p
  <2>2. CASE ~ (i # HOME /\ Nbr(m, i) = n /\ Leaves(n, u, Opposite(i)))
    BY <1>1, <1>3, <2>2
  <2>3. QED  BY <2>1, <2>2
<1>7. QED  BY <1>5, <1>6

\* All other steps leave the flits where they are.
FlitStep ==
  \/ \E n \in Nodes : noc_stage(n)
  \/ \E f \in Flows : \E v \in Msgs[f] : noc_request(f, v)
  \/ \E n \in Nodes, t \in Types, d \in Links : flit_arrive(n, t, d)

LEMMA OtherSteps == [Next]_vars => FlitStep \/ UNCHANGED <<ingress, wire>>
<1> SUFFICES ASSUME [Next]_vars, ~ FlitStep PROVE UNCHANGED <<ingress, wire>>
  OBVIOUS
<1>1. ASSUME NEW n \in Nodes, cache2mem(n) PROVE UNCHANGED <<ingress, wire>>
  BY <1>1 DEF cache2mem, flitVars
<1>2. ASSUME NEW n \in Nodes, NEW t \in Types, update_credit_home(n, t)
      PROVE  UNCHANGED <<ingress, wire>>
  BY <1>2 DEF update_credit_home, flitVars
<1>3. ASSUME NEW n \in Nodes, NEW t \in Types, NEW d \in Links, update_credit_link(n, t, d)
      PROVE  UNCHANGED <<ingress, wire>>
  BY <1>3 DEF update_credit_link, flitVars
<1>4. CASE UNCHANGED vars
  BY <1>4 DEF vars
<1>5. QED  BY <1>1, <1>2, <1>3, <1>4 DEF Next, FlitStep

\* KeepsPath is inductive.
LEMMA KeepsPathNext == IInv /\ KeepsPath /\ [Next]_vars => KeepsPath'
<1> SUFFICES ASSUME IInv, KeepsPath, [Next]_vars PROVE KeepsPath'
  OBVIOUS
<1>1. ASSUME NEW n \in Nodes, noc_stage(n) PROVE KeepsPath'
  BY <1>1, KeepsPathStage DEF noc_stage
<1>2. ASSUME NEW f \in Flows, NEW v \in Msgs[f], noc_request(f, v) PROVE KeepsPath'
  BY <1>2, KeepsPathRequest
<1>3. ASSUME NEW n \in Nodes, NEW t \in Types, NEW d \in Links, flit_arrive(n, t, d)
      PROVE  KeepsPath'
  BY <1>3, KeepsPathArrive
<1>4. CASE UNCHANGED <<ingress, wire>>
  BY <1>4 DEF KeepsPath, AllOnPath, OnPath
<1>5. QED  BY <1>1, <1>2, <1>3, <1>4, OtherSteps DEF FlitStep

-----------------------------------------------------------------------------
(***************************************************************************)
(* The flits of a flow, station by station.                                *)
(***************************************************************************)

\* The contents of all buffers, or of all wires.
Ports == [Nodes -> [Types -> [Dirs -> Seq(Packets)]]]

\* What waits k hops after the source of f, and what is on the way there.
Station(ing, wr, f, k) ==
  ing[PathNode(f, k)][f[1]][PathInput(f, k)] \o wr[PathNode(f, k)][f[1]][PathInput(f, k)]

\* The flits of f at its stations, those nearest to the destination first.
Stations(ing, wr, f) ==
  [i \in 1 .. PathLength(f) + 1 |-> OfFlow(f, Station(ing, wr, f, PathLength(f) + 1 - i))]

\* Every station holds packets.
LEMMA StationType ==
  ASSUME NEW ing \in Ports, NEW wr \in Ports, NEW f \in Flows,
         NEW k \in 0 .. PathLength(f)
  PROVE  /\ PathNode(f, k) \in Nodes /\ PathInput(f, k) \in Dirs /\ f[1] \in Types
         /\ ing[PathNode(f, k)][f[1]][PathInput(f, k)] \in Seq(Packets)
         /\ wr[PathNode(f, k)][f[1]][PathInput(f, k)] \in Seq(Packets)
         /\ Station(ing, wr, f, k) \in Seq(Packets)
<1> DEFINE n == PathNode(f, k)
           i == PathInput(f, k)
           t == f[1]
<1>1. n \in Nodes /\ t \in Types
  BY PathType, FlowType
<1>2. i \in Dirs
  <2>1. CASE k = 0  BY <2>1, PathInputs DEF Dirs
  <2>2. CASE k # 0
    <3>1. k \in 1 .. PathLength(f)  BY <2>2, PathType
    <3>2. i \in Links  BY <3>1, PathInputs
    <3>3. QED  BY <3>2 DEF Links
  <2>3. QED  BY <2>1, <2>2
<1> HIDE DEF n, i, t
<1>3. ing[n][t][i] \in Seq(Packets)
  BY <1>1, <1>2 DEF Ports
<1>4. wr[n][t][i] \in Seq(Packets)
  BY <1>1, <1>2 DEF Ports
<1>5. ing[n][t][i] \o wr[n][t][i] \in Seq(Packets)
  BY <1>3, <1>4, ConcatProperties
<1>6. QED  BY <1>1, <1>2, <1>3, <1>4, <1>5 DEF Station, n, i, t

\* There is one station per router of the path.
LEMMA StationsType ==
  ASSUME NEW ing \in Ports, NEW wr \in Ports, NEW f \in Flows
  PROVE  /\ Stations(ing, wr, f) \in Seq(Seq(Packets))
         /\ Len(Stations(ing, wr, f)) = PathLength(f) + 1
         /\ Stations(ing, wr, f) # <<>>
         /\ PathLength(f) \in Nat
         /\ \A i \in 1 .. PathLength(f) + 1 :
              /\ PathLength(f) + 1 - i \in 0 .. PathLength(f)
              /\ Stations(ing, wr, f)[i]
                   = OfFlow(f, Station(ing, wr, f, PathLength(f) + 1 - i))
<1> DEFINE n == PathLength(f) + 1
           s == Stations(ing, wr, f)
<1>1. PathLength(f) \in Nat /\ n \in Nat
  BY PathType
<1>2. ASSUME NEW i \in 1 .. n
      PROVE  /\ PathLength(f) + 1 - i \in 0 .. PathLength(f)
             /\ OfFlow(f, Station(ing, wr, f, PathLength(f) + 1 - i)) \in Seq(Packets)
  <2>1. PathLength(f) + 1 - i \in 0 .. PathLength(f)
    BY <1>1
  <2>2. Station(ing, wr, f, PathLength(f) + 1 - i) \in Seq(Packets)
    BY <2>1, StationType
  <2>3. QED  BY <2>1, <2>2, OfFlowType
<1>3. s \in [1 .. n -> Seq(Packets)]
  BY <1>2 DEF Stations
<1>4. s \in Seq(Seq(Packets))
  BY <1>1, <1>3, SeqDef
<1>5. Len(s) = n
  BY <1>1, <1>3, <1>4, LenProperties
<1>6. s # <<>>
  BY <1>1, <1>4, <1>5, EmptySeq
<1>7. \A i \in 1 .. n : s[i] = OfFlow(f, Station(ing, wr, f, PathLength(f) + 1 - i))
  BY DEF Stations
<1>8. QED  BY <1>1, <1>2, <1>4, <1>5, <1>6, <1>7

\* The network has one buffer and one wire per port.
LEMMA PortsType ==
  /\ TypeOK => ingress \in Ports /\ wire \in Ports
  /\ TypeOK' => ingress' \in Ports /\ wire' \in Ports
BY DEF TypeOK, Ports

\* The flits of a flow under way are those at its stations, now ...
LEMMA FlowQueueStations ==
  ASSUME NEW f \in Flows, ingress \in Ports, wire \in Ports
  PROVE  FlowQueue(f) = FlattenSeq(Stations(ingress, wire, f))
<1> DEFINE s == Stations(ingress, wire, f)
           n == Len(Path[f])
           Rec(g) == g = [i \in 0 .. n |->
                            IF i = 0 THEN <<>> ELSE g[i - 1] \o Segment(f, Path[f][i])]
<1>1. s \in Seq(Seq(Packets)) /\ Len(s) = PathLength(f) + 1 /\ PathLength(f) \in Nat
  BY StationsType
<1>2. Path[f] = [i \in 1 .. PathLength(f) + 1 |->
                   LET k == PathLength(f) + 1 - i
                   IN  [node |-> PathNode(f, k), dir |-> PathInput(f, k)]]
  BY DEF Path
<1>3. n = PathLength(f) + 1
  <2> DEFINE m == PathLength(f) + 1
             R == {Path[f][i] : i \in 1 .. m}
  <2>0. m \in Nat  BY <1>1
  <2>1. Path[f] \in [1 .. m -> R]
    BY <1>2
  <2> HIDE DEF R, m
  <2>2. Path[f] \in Seq(R)
    BY <2>0, <2>1, SeqDef
  <2>3. Len(Path[f]) = m
    BY <2>0, <2>1, <2>2, LenProperties
  <2>4. QED  BY <2>3 DEF m, n
<1>4. ASSUME NEW i \in 1 .. n PROVE Segment(f, Path[f][i]) = s[i]
  <2>0. i \in 1 .. PathLength(f) + 1
    BY <1>3
  <2>1. /\ Path[f][i].node = PathNode(f, PathLength(f) + 1 - i)
        /\ Path[f][i].dir = PathInput(f, PathLength(f) + 1 - i)
    BY ONLY <1>2, <2>0
  <2>2. s[i] = OfFlow(f, Station(ingress, wire, f, PathLength(f) + 1 - i))
    BY <1>3 DEF Stations
  <2>3. QED  BY <2>1, <2>2 DEF Segment, Station
<1>5. n = Len(s) /\ n \in Nat
  BY <1>1, <1>3
<1> HIDE DEF s, n
<1>6. ASSUME NEW g
      PROVE  [i \in 0 .. n |-> IF i = 0 THEN <<>> ELSE g[i - 1] \o Segment(f, Path[f][i])]
               = [i \in 0 .. Len(s) |-> IF i = 0 THEN <<>> ELSE g[i - 1] \o s[i]]
  <2>1. \A i \in 0 .. n : i # 0 => Segment(f, Path[f][i]) = s[i]
    BY <1>4, <1>5
  <2>2. QED  BY <1>5, <2>1
<1>7. PICK h : h = [i \in 0 .. Len(s) |-> IF i = 0 THEN <<>> ELSE h[i - 1] \o s[i]]
  BY <1>1, FoldExists DEF s
<1>8. Rec(h)
  BY <1>6, <1>7
<1> DEFINE c == CHOOSE g : Rec(g)
<1>9. FlowQueue(f) = c[n]
  BY DEF FlowQueue, n
<1>10. Rec(c)
  <2> HIDE DEF Rec
  <2>1. QED  BY <1>8
<1> HIDE DEF c
<1>11. c = [i \in 0 .. Len(s) |-> IF i = 0 THEN <<>> ELSE c[i - 1] \o s[i]]
  BY <1>6, <1>10
<1>12. c[Len(s)] = FlattenSeq(s)
  BY <1>1, <1>11, FoldFlattens DEF s
<1>13. QED  BY <1>5, <1>9, <1>12 DEF s

\* ... and after a step.
LEMMA FlowQueueStationsNext ==
  ASSUME NEW f \in Flows, ingress' \in Ports, wire' \in Ports
  PROVE  FlowQueue(f)' = FlattenSeq(Stations(ingress', wire', f))
<1> DEFINE s == Stations(ingress', wire', f)
           n == Len(Path[f])
           Rec(g) == g = [i \in 0 .. n |->
                            IF i = 0 THEN <<>> ELSE g[i - 1] \o Segment(f, Path[f][i])']
<1>1. s \in Seq(Seq(Packets)) /\ Len(s) = PathLength(f) + 1 /\ PathLength(f) \in Nat
  BY StationsType
<1>2. Path[f] = [i \in 1 .. PathLength(f) + 1 |->
                   LET k == PathLength(f) + 1 - i
                   IN  [node |-> PathNode(f, k), dir |-> PathInput(f, k)]]
  BY DEF Path
<1>3. n = PathLength(f) + 1
  <2> DEFINE m == PathLength(f) + 1
             R == {Path[f][i] : i \in 1 .. m}
  <2>0. m \in Nat  BY <1>1
  <2>1. Path[f] \in [1 .. m -> R]
    BY <1>2
  <2> HIDE DEF R, m
  <2>2. Path[f] \in Seq(R)
    BY <2>0, <2>1, SeqDef
  <2>3. Len(Path[f]) = m
    BY <2>0, <2>1, <2>2, LenProperties
  <2>4. QED  BY <2>3 DEF m, n
<1>4. ASSUME NEW i \in 1 .. n PROVE Segment(f, Path[f][i])' = s[i]
  <2>0. i \in 1 .. PathLength(f) + 1
    BY <1>3
  <2>1. /\ Path[f][i].node = PathNode(f, PathLength(f) + 1 - i)
        /\ Path[f][i].dir = PathInput(f, PathLength(f) + 1 - i)
    BY ONLY <1>2, <2>0
  <2>2. s[i] = OfFlow(f, Station(ingress', wire', f, PathLength(f) + 1 - i))
    BY <1>3 DEF Stations
  <2>3. QED  BY <2>1, <2>2 DEF Segment, Station
<1>5. n = Len(s) /\ n \in Nat
  BY <1>1, <1>3
<1> HIDE DEF s, n
<1>6. ASSUME NEW g
      PROVE  [i \in 0 .. n |-> IF i = 0 THEN <<>> ELSE g[i - 1] \o Segment(f, Path[f][i])']
               = [i \in 0 .. Len(s) |-> IF i = 0 THEN <<>> ELSE g[i - 1] \o s[i]]
  <2>1. \A i \in 0 .. n : i # 0 => Segment(f, Path[f][i])' = s[i]
    BY <1>4, <1>5
  <2>2. QED  BY <1>5, <2>1
<1>7. PICK h : h = [i \in 0 .. Len(s) |-> IF i = 0 THEN <<>> ELSE h[i - 1] \o s[i]]
  BY <1>1, FoldExists DEF s
<1>8. Rec(h)
  BY <1>6, <1>7
<1> DEFINE c == CHOOSE g : Rec(g)
<1>9. FlowQueue(f)' = c[n]
  BY DEF FlowQueue, Path, n
<1>10. Rec(c)
  <2> HIDE DEF Rec
  <2>1. QED  BY <1>8
<1> HIDE DEF c
<1>11. c = [i \in 0 .. Len(s) |-> IF i = 0 THEN <<>> ELSE c[i - 1] \o s[i]]
  BY <1>6, <1>10
<1>12. c[Len(s)] = FlattenSeq(s)
  BY <1>1, <1>11, FoldFlattens DEF s
<1>13. QED  BY <1>5, <1>9, <1>12 DEF s

\* If no station changes, the flow does not.
LEMMA FlowQueueSame ==
  ASSUME TypeOK, TypeOK', NEW f \in Flows,
         \A k \in 0 .. PathLength(f) :
           Station(ingress', wire', f, k) = Station(ingress, wire, f, k)
  PROVE  FlowQueue(f)' = FlowQueue(f)
<1>1. PathLength(f) \in Nat
  BY PathType
<1>2. \A i \in 1 .. PathLength(f) + 1 : PathLength(f) + 1 - i \in 0 .. PathLength(f)
  BY <1>1
<1>3. Stations(ingress', wire', f) = Stations(ingress, wire, f)
  BY <1>2 DEF Stations
<1>4. QED  BY <1>3, PortsType, FlowQueueStations, FlowQueueStationsNext

\* A flit that arrives stays at its station.
LEMMA ArriveSame ==
  ASSUME TypeOK, TypeOK', NEW n \in Nodes, NEW t \in Types, NEW d \in Links,
         flit_arrive(n, t, d), NEW f \in Flows
  PROVE  FlowQueue(f)' = FlowQueue(f)
<1> DEFINE b == ingress[n][t][d]
           w == wire[n][t][d]
           b1 == Append(b, Head(w))
           w1 == Tail(w)
<1>0. d \in Dirs
  BY DEF Links
<1>1. b \in Seq(Packets) /\ w \in Seq(Packets) /\ w # <<>>
  BY <1>0, PortType DEF flit_arrive
<1>3a. ingress' = [ingress EXCEPT ![n][t][d] = b1]
  BY DEF flit_arrive
<1>3b. wire' = [wire EXCEPT ![n][t][d] = w1]
  BY DEF flit_arrive
<1>ia. ingress \in [Nodes -> [Types -> [Dirs -> Seq(Packets)]]]
  BY DEF TypeOK
<1>ib. wire \in [Nodes -> [Types -> [Dirs -> Seq(Packets)]]]
  BY DEF TypeOK
<1> HIDE DEF b, w
<1>4. Head(w) \in Packets /\ b1 \in Seq(Packets) /\ w1 \in Seq(Packets)
  BY <1>1, HeadTailProperties, AppendKeeps
<1>5. b1 \o w1 = b \o w
  <2>1. b1 = b \o <<Head(w)>>
    BY <1>1, <1>4, AppendIsConcat
  <2>2. w = <<Head(w)>> \o w1
    BY <1>1, HeadTailJoined
  <2>3. <<Head(w)>> \in Seq(Packets)
    BY <1>4
  <2> DEFINE h == <<Head(w)>>
  <2> HIDE DEF h, w1, b1
  <2>4. (b \o h) \o w1 = b \o (h \o w1)
    <3>1. h \in Seq(Packets)  BY <2>3 DEF h
    <3>2. Regroups(b, h, w1)  BY ONLY <1>1, <1>4, <3>1, Regrouped
    <3>3. QED  BY ONLY <3>2 DEF Regroups
  <2>5. QED  BY <2>1, <2>2, <2>4 DEF h
<1> HIDE DEF b1, w1
<1>7a. \A m \in Nodes, u \in Types, i \in Dirs :
         ingress'[m][u][i] = IF m = n /\ u = t /\ i = d THEN b1 ELSE ingress[m][u][i]
  BY ONLY <1>ia, <1>0, <1>3a, <1>4, PortUpdate
<1>7b. \A m \in Nodes, u \in Types, i \in Dirs :
         wire'[m][u][i] = IF m = n /\ u = t /\ i = d THEN w1 ELSE wire[m][u][i]
  BY ONLY <1>ib, <1>0, <1>3b, <1>4, PortUpdate
<1>8. \A m \in Nodes, u \in Types, i \in Dirs :
        ingress'[m][u][i] \o wire'[m][u][i] = ingress[m][u][i] \o wire[m][u][i]
  <2> SUFFICES ASSUME NEW m \in Nodes, NEW u \in Types, NEW i \in Dirs
               PROVE  ingress'[m][u][i] \o wire'[m][u][i] = ingress[m][u][i] \o wire[m][u][i]
    OBVIOUS
  <2>1. CASE m = n /\ u = t /\ i = d
    <3>1. ingress'[m][u][i] = b1 /\ wire'[m][u][i] = w1
      BY <1>7a, <1>7b, <2>1
    <3>2. ingress[m][u][i] = b /\ wire[m][u][i] = w
      BY <2>1 DEF b, w
    <3>3. QED  BY <1>5, <3>1, <3>2
  <2>2. CASE ~ (m = n /\ u = t /\ i = d)
    <3>1. ingress'[m][u][i] = ingress[m][u][i] /\ wire'[m][u][i] = wire[m][u][i]
      BY <1>7a, <1>7b, <2>2
    <3>2. QED  BY <3>1
  <2>3. QED  BY <2>1, <2>2
<1>9. ASSUME NEW k \in 0 .. PathLength(f)
      PROVE  Station(ingress', wire', f, k) = Station(ingress, wire, f, k)
  <2>1. PathNode(f, k) \in Nodes /\ f[1] \in Types /\ PathInput(f, k) \in Dirs
    BY PortsType, StationType
  <2>2. QED  BY <1>8, <2>1 DEF Station
<1>10. QED  BY <1>9, FlowQueueSame

\* No wire leads into the buffer that the caches of the cpu fill.
HomeWireIdle == \A n \in Nodes, t \in Types : wire[n][t][HOME] = <<>>

\* It is idle at first ...
LEMMA HomeWireIdleInit == Init => HomeWireIdle
BY DEF Init, HomeWireIdle, PortMap, Dirs

\* ... and stays so, because no egress leads to it.
LEMMA HomeWireIdleNext == IInv /\ HomeWireIdle /\ [Next]_vars => HomeWireIdle'
<1> SUFFICES ASSUME IInv, HomeWireIdle, [Next]_vars,
                    NEW m \in Nodes, NEW u \in Types
             PROVE  wire'[m][u][HOME] = <<>>
  BY DEF HomeWireIdle
<1>0. TypeOK /\ GrantSound /\ NoUTurn /\ HOME \in Dirs
  BY DEF IInv, Dirs
<1>1. wire[m][u][HOME] = <<>>
  BY DEF HomeWireIdle
<1>2. ASSUME NEW n \in Nodes, noc_stage(n) PROVE wire'[m][u][HOME] = <<>>
  <2>1. flit_traverse(n)
    BY <1>2 DEF noc_stage
  <2>2. \A i \in Dirs : wire'[m][u][i]
          = IF i # HOME /\ Nbr(m, i) = n /\ Leaves(n, u, Opposite(i))
            THEN Append(wire[m][u][i], Flit(n, u, Opposite(i)))
            ELSE wire[m][u][i]
    BY <1>0, <2>1, TraverseFlits
  <2>3. QED  BY <1>0, <1>1, <2>2
<1>3. ASSUME NEW f \in Flows, NEW v \in Msgs[f], noc_request(f, v)
      PROVE  wire'[m][u][HOME] = <<>>
  BY <1>1, <1>3 DEF noc_request
<1>4. ASSUME NEW n \in Nodes, NEW t \in Types, NEW d \in Links, flit_arrive(n, t, d)
      PROVE  wire'[m][u][HOME] = <<>>
  <2>1. wire' = [wire EXCEPT ![n][t][d] = Tail(wire[n][t][d])]
    BY <1>4 DEF flit_arrive
  <2>2. d # HOME
    BY DEF Links
  <2>3. wire \in [Nodes -> [Types -> [Dirs -> Seq(Packets)]]]
    BY <1>0 DEF TypeOK
  <2>4. QED  BY <1>0, <1>1, <2>1, <2>2, <2>3
<1>5. CASE UNCHANGED <<ingress, wire>>
  BY <1>1, <1>5
<1>6. QED  BY <1>2, <1>3, <1>4, <1>5, OtherSteps DEF FlitStep

\* A flow is a sequence of packets.
LEMMA FlowQueueType ==
  ASSUME ingress \in Ports, wire \in Ports, NEW f \in Flows
  PROVE  FlowQueue(f) \in Seq(Packets)
<1>1. Stations(ingress, wire, f) \in Seq(Seq(Packets))
  BY StationsType
<1>2. QED  BY <1>1, FlattenType, FlowQueueStations

\* What a cache sends goes to the end of its flow, and of no other.
LEMMA RequestSends ==
  ASSUME TypeOK, TypeOK', HomeWireIdle, NEW f \in Flows, NEW v \in Msgs[f],
         noc_request(f, v), NEW e \in Flows
  PROVE  FlowQueue(e)' = IF e = f
                         THEN Append(FlowQueue(e), [src |-> f[2], dst |-> f[3], msg |-> v])
                         ELSE FlowQueue(e)
<1> DEFINE t == f[1]
           n == f[2]
           b == ingress[n][t][HOME]
           p == [src |-> n, dst |-> f[3], msg |-> v]
           b1 == Append(b, p)
           s(k) == Station(ingress, wire, e, k)
           s1(k) == Station(ingress', wire', e, k)
<1>1. t \in Types /\ n \in Nodes /\ f[3] \in Nodes /\ HOME \in Dirs
  BY FlowType DEF Dirs
<1>2. b \in Seq(Packets) /\ p \in Packets
  BY <1>1, PortType DEF Packets
<1>3. b1 \in Seq(Packets)
  BY <1>2, AppendKeeps
<1>4. ingress' = [ingress EXCEPT ![n][t][HOME] = b1]
  BY DEF noc_request
<1>5. wire' = wire
  BY DEF noc_request
<1>it. ingress \in [Nodes -> [Types -> [Dirs -> Seq(Packets)]]]
  BY DEF TypeOK
<1>p. p.src = f[2] /\ p.dst = f[3]
  OBVIOUS
<1>f. f = <<f[1], f[2], f[3]>> /\ e = <<e[1], e[2], e[3]>>
  BY FlowType
<1>po. ingress \in Ports /\ wire \in Ports
  BY PortsType
<1>s. \A k \in 0 .. PathLength(e) : s(k) \in Seq(Packets)
  BY <1>po, StationType
<1> HIDE DEF b, b1, p
<1>6. \A m \in Nodes, u \in Types, i \in Dirs :
        ingress'[m][u][i] = IF m = n /\ u = t /\ i = HOME THEN b1 ELSE ingress[m][u][i]
  BY ONLY <1>it, <1>1, <1>3, <1>4, PortUpdate
<1>7. ASSUME NEW k \in 0 .. PathLength(e), ~ (PathNode(e, k) = n /\ e[1] = t /\ k = 0)
      PROVE  s1(k) = s(k)
  <2>1. PathNode(e, k) \in Nodes /\ e[1] \in Types /\ PathInput(e, k) \in Dirs
    BY <1>po, StationType
  <2>2. k # 0 => PathInput(e, k) # HOME
    <3>1. k # 0 => k \in 1 .. PathLength(e)
      BY PathType
    <3>2. QED  BY <3>1, PathInputs DEF Links
  <2>3. ingress'[PathNode(e, k)][e[1]][PathInput(e, k)]
          = ingress[PathNode(e, k)][e[1]][PathInput(e, k)]
    BY <1>6, <1>7, <2>1, <2>2
  <2>4. QED  BY <1>5, <2>3 DEF Station
<1>0. /\ PathLength(e) \in Nat /\ 0 \in 0 .. PathLength(e)
      /\ PathNode(e, 0) = e[2] /\ PathInput(e, 0) = HOME
  BY PathType, PathInputs
<1>8. CASE ~ (e[2] = n /\ e[1] = t)
  <2>1. \A k \in 0 .. PathLength(e) : s1(k) = s(k)
    BY <1>0, <1>7, <1>8
  <2>2. FlowQueue(e)' = FlowQueue(e)
    BY <2>1, FlowQueueSame
  <2>3. e # f
    BY <1>8
  <2>4. QED  BY <2>2, <2>3
<1>9. CASE e[2] = n /\ e[1] = t
  <2>1. e = f <=> e[3] = f[3]
    BY <1>9, <1>f
  <2>2. Own(e, p) = IF e = f THEN <<p>> ELSE <<>>
    BY <1>9, <1>p, <2>1 DEF Own
  <2>3. s1(0) = Append(s(0), p)
    <3>1. wire[n][t][HOME] = <<>>
      BY <1>1 DEF HomeWireIdle
    <3>2. s(0) = b /\ s1(0) = b1
      <4>1. s(0) = b \o <<>> /\ s1(0) = ingress'[n][t][HOME] \o <<>>
        BY <1>0, <1>5, <1>9, <3>1 DEF Station, b
      <4>2. ingress'[n][t][HOME] = b1
        BY <1>1, <1>6
      <4>3. b \o <<>> = b /\ b1 \o <<>> = b1
        BY <1>2, <1>3, ConcatEmptySeq
      <4>4. QED  BY <4>1, <4>2, <4>3
    <3>3. QED  BY <3>2 DEF b1
  <2>4. OfFlow(e, s1(0)) = OfFlow(e, s(0)) \o Own(e, p)
    BY <1>0, <1>2, <1>s, <2>3, OfFlowAppend
  <2>5. FlattenSeq(Stations(ingress', wire', e))
          = FlattenSeq(Stations(ingress, wire, e)) \o Own(e, p)
    <3> DEFINE a == Stations(ingress, wire, e)
               c == Stations(ingress', wire', e)
               l == PathLength(e)
    <3>1. ingress' \in Ports /\ wire' \in Ports
      <4>1. ingress' \in [Nodes -> [Types -> [Dirs -> Seq(Packets)]]]
        BY ONLY <1>it, <1>1, <1>3, <1>4, PortUpdateType
      <4>2. QED  BY <1>5, <1>po, <4>1 DEF Ports
    <3>2. /\ a \in Seq(Seq(Packets)) /\ Len(a) = l + 1 /\ a # <<>>
          /\ \A i \in 1 .. l + 1 : l + 1 - i \in 0 .. l /\ a[i] = OfFlow(e, s(l + 1 - i))
      BY <1>po, StationsType
    <3>3. /\ c \in Seq(Seq(Packets)) /\ Len(c) = l + 1
          /\ \A i \in 1 .. l + 1 : c[i] = OfFlow(e, s1(l + 1 - i))
      BY <3>1, StationsType
    <3>4. Own(e, p) \in Seq(Packets)
      BY <1>2, <1>s, <1>0, OwnType
    <3>5. l \in Nat /\ l + 1 \in 1 .. l + 1 /\ l + 1 - (l + 1) = 0
      BY <1>0
    <3>6. c[l + 1] = a[l + 1] \o Own(e, p)
      BY <2>4, <3>2, <3>3, <3>5
    <3>7. ASSUME NEW i \in 1 .. l PROVE c[i] = a[i]
      <4>1. i \in 1 .. l + 1 /\ l + 1 - i # 0 /\ l + 1 - i \in 0 .. l
        BY <3>5
      <4>2. s1(l + 1 - i) = s(l + 1 - i)
        BY <1>7, <4>1
      <4>3. QED  BY <3>2, <3>3, <4>1, <4>2
    <3>8. (l + 1) - 1 = l
      BY <3>5
    <3> DEFINE o == Own(e, p)
    <3> HIDE DEF a, c, l, o, s, s1
    <3>9. a \in Seq(Seq(Packets)) /\ c \in Seq(Seq(Packets)) /\ o \in Seq(Packets)
      BY <3>2, <3>3, <3>4 DEF o
    <3>10. a # <<>> /\ Len(c) = Len(a)
      BY <3>2, <3>3
    <3>11. c[Len(a)] = a[Len(a)] \o o
      BY <3>2, <3>6 DEF o
    <3>12. \A i \in 1 .. Len(a) - 1 : c[i] = a[i]
      BY <3>2, <3>7, <3>8
    <3>13. FlattenSeq(c) = FlattenSeq(a) \o o
      BY ONLY <3>9, <3>10, <3>11, <3>12, FlattenGrows
    <3>14. QED  BY <3>13 DEF a, c, o
  <2>6. FlowQueue(e)' = FlowQueue(e) \o Own(e, p)
    BY <2>5, PortsType, FlowQueueStations, FlowQueueStationsNext
  <2>7. FlowQueue(e) \in Seq(Packets)
    BY <1>po, FlowQueueType
  <2>8. CASE e = f
    <3>1. FlowQueue(e) \o <<p>> = Append(FlowQueue(e), p)
      BY <1>2, <2>7, AppendIsConcat
    <3>2. QED  BY <2>2, <2>6, <2>8, <3>1 DEF p
  <2>9. CASE e # f
    <3>1. FlowQueue(e) \o <<>> = FlowQueue(e)
      BY <2>7, ConcatEmptySeq
    <3>2. QED  BY <2>2, <2>6, <2>9, <3>1
  <2>10. QED  BY <2>8, <2>9
<1>10. QED  BY <1>8, <1>9

-----------------------------------------------------------------------------
(***************************************************************************)
(* One noc_stage moves a flow by one hop at the router it crosses.         *)
(***************************************************************************)

\* The flit of f that leaves n by egress d, if one does.
Sent(f, n, d) == IF Leaves(n, f[1], d) THEN Own(f, Flit(n, f[1], d)) ELSE <<>>

\* It is a flit of f, and it comes from the buffer in which f waits at n.
LEMMA SentFrom ==
  ASSUME IInv, KeepsPath, NEW f \in Flows, NEW h \in 0 .. PathLength(f),
         NEW d \in Dirs, Sent(f, PathNode(f, h), d) # <<>>
  PROVE  LET n == PathNode(f, h) IN
         /\ Leaves(n, f[1], d)
         /\ grant[n][f[1]][d] = PathInput(f, h)
         /\ Route(n, f[3]) = d
<1> DEFINE n == PathNode(f, h)
           t == f[1]
           g == grant[n][t][d]
           p == Flit(n, t, d)
<1>0. TypeOK /\ GrantSound /\ NoUTurn
  BY DEF IInv
<1>1. Leaves(n, t, d) /\ p.src = f[2] /\ p.dst = f[3]
  BY DEF Sent, Own
<1>2. n \in Nodes /\ t \in Types /\ g # NULL
  BY <1>1, PathType, FlowType DEF Leaves
<1>3. /\ g \in Dirs /\ ingress[n][t][g] # <<>> /\ p \in Packets
      /\ Route(n, p.dst) = d
  BY <1>0, <1>2, GrantedFlit
<1>4. ingress[n][t][g] \in Seq(Packets) /\ AllOnPath(t, ingress[n][t][g], n, g)
  BY <1>0, <1>2, <1>3, PortType DEF KeepsPath
<1>5. p = Head(ingress[n][t][g])
  BY DEF Flit
<1>6. OnPath(t, p, n, g)
  <2> HIDE DEF n, t, g, p
  <2>1. QED  BY <1>3, <1>4, <1>5, AllOnPathTail
<1>7. PICK e \in Flows :
        /\ e[1] = t /\ e[2] = p.src /\ e[3] = p.dst
        /\ \E k \in 0 .. PathLength(e) : PathNode(e, k) = n /\ PathInput(e, k) = g
  BY <1>6 DEF OnPath
<1>8. e = f
  BY <1>1, <1>7, FlowType
<1>9. PICK k \in 0 .. PathLength(f) : PathNode(f, k) = n /\ PathInput(f, k) = g
  BY <1>7, <1>8
<1>10. k = h
  BY <1>9, PathOnce
<1>11. QED  BY <1>1, <1>3, <1>9, <1>10

\* The buffer gives it up ...
LEMMA StationGives ==
  ASSUME IInv, KeepsPath, NEW f \in Flows, NEW h \in 0 .. PathLength(f),
         flit_traverse(PathNode(f, h))
  PROVE  OfFlow(f, Station(ingress, wire, f, h))
           = Sent(f, PathNode(f, h), Route(PathNode(f, h), f[3]))
             \o OfFlow(f, Station(ingress', wire', f, h))
<1> DEFINE n == PathNode(f, h)
           t == f[1]
           i == PathInput(f, h)
           b == ingress[n][t][i]
           w == wire[n][t][i]
           r == Route(n, f[3])
           m == Sent(f, n, r)
<1>0. TypeOK /\ GrantSound /\ NoUTurn
  BY DEF IInv
<1>1. /\ n \in Nodes /\ t \in Types /\ i \in Dirs /\ f[3] \in Nodes
      /\ b \in Seq(Packets) /\ w \in Seq(Packets)
  BY <1>0, PortsType, StationType, FlowType
<1>2. r \in Dirs
  BY <1>1, RouteType
<1>3. /\ ingress'[n][t][i] = IF Departs(n, t, i) THEN Tail(b) ELSE b
      /\ wire'[n][t][i] = w
  <2>1. /\ ingress'[n][t][i] = IF n = n /\ Departs(n, t, i) THEN Tail(b) ELSE b
        /\ wire'[n][t][i] = IF i # HOME /\ Nbr(n, i) = n /\ Leaves(n, t, Opposite(i))
                            THEN Append(w, Flit(n, t, Opposite(i)))
                            ELSE w
    BY <1>0, <1>1, TraverseFlits
  <2>2. i # HOME => Nbr(n, i) # n
    BY <1>1, NbrBack DEF Links
  <2>3. QED  BY <2>1, <2>2
<1>4. /\ Station(ingress, wire, f, h) = b \o w
      /\ Station(ingress', wire', f, h) = ingress'[n][t][i] \o w
  BY <1>3 DEF Station
<1>5. CASE Departs(n, t, i)
  <2>1. PICK d \in Dirs : Leaves(n, t, d) /\ grant[n][t][d] = i
    BY <1>5 DEF Departs
  <2> DEFINE p == Flit(n, t, d)
  <2>2. /\ b # <<>> /\ p = Head(b) /\ p \in Packets /\ Route(n, p.dst) = d
    <3>1. grant[n][t][d] # NULL
      BY <2>1 DEF Leaves
    <3>2. ingress[n][t][grant[n][t][d]] = b
      BY <2>1 DEF b
    <3>3. /\ ingress[n][t][grant[n][t][d]] # <<>>
          /\ p \in Packets /\ Route(n, p.dst) = d
      BY <1>0, <1>1, <2>1, <3>1, GrantedFlit
    <3>4. p = Head(b)
      BY ONLY <3>2 DEF Flit, p
    <3>5. QED  BY <3>2, <3>3, <3>4
  <2>3. m = Own(f, p)
    <3>1. CASE Own(f, p) = <<>>
      <4>1. m # <<>> => r = d
        <5>1. SUFFICES ASSUME m # <<>> PROVE r = d
          OBVIOUS
        <5>2. Leaves(n, t, r) /\ grant[n][t][r] = i
          BY <1>2, <5>1, SentFrom
        <5>3. Flit(n, t, r) = p
          BY <2>1, <5>2 DEF Flit
        <5>4. Own(f, Flit(n, t, r)) # <<>>
          BY <5>1 DEF Sent
        <5>5. QED  BY <3>1, <5>3, <5>4
      <4>2. m # <<>> => m = Own(f, p)
        BY <4>1 DEF Sent
      <4>3. QED  BY <3>1, <4>2
    <3>2. CASE Own(f, p) # <<>>
      <4>1. p.dst = f[3]
        BY <3>2 DEF Own
      <4>2. r = d
        BY <2>2, <4>1
      <4>3. QED  BY <2>1, <4>2 DEF Sent
    <3>3. QED  BY <3>1, <3>2
  <2>4. OfFlow(f, b \o w) = Own(f, p) \o OfFlow(f, Tail(b) \o w)
    <3> HIDE DEF b, w, p
    <3>1. /\ b \o w \in Seq(Packets) /\ b \o w # <<>>
          /\ Head(b \o w) = Head(b) /\ Tail(b \o w) = Tail(b) \o w
      BY <1>1, <2>2, HeadTailConcat
    <3>2. OfFlow(f, b \o w) = Own(f, Head(b \o w)) \o OfFlow(f, Tail(b \o w))
      BY <3>1, OfFlowHead
    <3>3. QED  BY <2>2, <3>1, <3>2
  <2>5. ingress'[n][t][i] = Tail(b)
    BY <1>3, <1>5
  <2>6. QED  BY <1>4, <2>3, <2>4, <2>5
<1>6. CASE ~ Departs(n, t, i)
  <2>1. m = <<>>
    <3>1. SUFFICES ASSUME m # <<>> PROVE FALSE
      OBVIOUS
    <3>2. Leaves(n, t, r) /\ grant[n][t][r] = i
      BY <1>2, <3>1, SentFrom
    <3>3. QED  BY <1>2, <1>6, <3>2 DEF Departs
  <2>2. Station(ingress', wire', f, h) = Station(ingress, wire, f, h)
    BY <1>3, <1>4, <1>6
  <2>3. OfFlow(f, Station(ingress, wire, f, h)) \in Seq(Packets)
    BY <1>0, PortsType, StationType, OfFlowType
  <2>4. <<>> \o OfFlow(f, Station(ingress, wire, f, h))
          = OfFlow(f, Station(ingress, wire, f, h))
    BY <2>3, ConcatEmptySeq
  <2>5. QED  BY <2>1, <2>2, <2>4
<1>7. QED  BY <1>5, <1>6

\* ... and the wire to the next hop takes it.
LEMMA StationTakes ==
  ASSUME IInv, NEW f \in Flows, NEW h \in 0 .. PathLength(f), h # PathLength(f),
         flit_traverse(PathNode(f, h))
  PROVE  OfFlow(f, Station(ingress', wire', f, h + 1))
           = OfFlow(f, Station(ingress, wire, f, h + 1))
             \o Sent(f, PathNode(f, h), Route(PathNode(f, h), f[3]))
<1> DEFINE n == PathNode(f, h)
           m == PathNode(f, h + 1)
           t == f[1]
           i == PathInput(f, h + 1)
           b == ingress[m][t][i]
           w == wire[m][t][i]
           d == Route(n, f[3])
           p == Flit(n, t, d)
<1>0. TypeOK /\ GrantSound /\ NoUTurn
  BY DEF IInv
<1>1. /\ h + 1 \in 1 .. PathLength(f) /\ h + 1 \in 0 .. PathLength(f) /\ (h + 1) - 1 = h
      /\ h # h + 1
  BY PathType
<1>2. /\ n \in Nodes /\ m \in Nodes /\ t \in Types /\ i \in Dirs
      /\ b \in Seq(Packets) /\ w \in Seq(Packets)
      /\ Station(ingress, wire, f, h + 1) \in Seq(Packets)
  BY <1>0, <1>1, PortsType, StationType
<1>3. d \in Links /\ d \in Dirs
  BY PathRoute DEF Links
<1>4. i \in Links /\ Nbr(m, i) = n /\ Opposite(i) = d
  <2>1. /\ i \in Links /\ Nbr(m, i) = PathNode(f, (h + 1) - 1)
        /\ i = Opposite(Route(PathNode(f, (h + 1) - 1), f[3]))
    BY <1>1, PathInputs
  <2>2. i = Opposite(d)
    BY <1>1, <2>1
  <2>3. Opposite(Opposite(d)) = d
    BY <1>2, <1>3, NbrBack
  <2>4. QED  BY <1>1, <2>1, <2>2, <2>3
<1>5. m # n
  BY <1>1, PathOnce
<1>6. /\ ingress'[m][t][i] = b
      /\ wire'[m][t][i] = IF Leaves(n, t, d) THEN Append(w, p) ELSE w
  <2>1. /\ ingress'[m][t][i] = IF m = n /\ Departs(n, t, i) THEN Tail(b) ELSE b
        /\ wire'[m][t][i] = IF i # HOME /\ Nbr(m, i) = n /\ Leaves(n, t, Opposite(i))
                            THEN Append(w, Flit(n, t, Opposite(i)))
                            ELSE w
    BY <1>0, <1>2, TraverseFlits
  <2>2. i # HOME
    BY <1>4 DEF Links
  <2>3. QED  BY <1>4, <1>5, <2>1, <2>2
<1>7. /\ Station(ingress, wire, f, h + 1) = b \o w
      /\ Station(ingress', wire', f, h + 1) = b \o wire'[m][t][i]
  BY <1>6 DEF Station
<1>8. CASE Leaves(n, t, d)
  <2>1. p \in Packets
    <3>1. grant[n][t][d] # NULL
      BY <1>8 DEF Leaves
    <3>2. QED  BY <1>0, <1>2, <1>3, <3>1, GrantedFlit
  <2>2. Sent(f, n, d) = Own(f, p)
    BY <1>8 DEF Sent
  <2>3. wire'[m][t][i] = Append(w, p)
    BY <1>6, <1>8
  <2>4. b \o Append(w, p) = Append(b \o w, p) /\ b \o w \in Seq(Packets)
    <3> HIDE DEF b, w, p
    <3>1. QED  BY <1>2, <2>1, ConcatAppend
  <2>5. OfFlow(f, Append(b \o w, p)) = OfFlow(f, b \o w) \o Own(f, p)
    <3> HIDE DEF b, w, p
    <3>1. QED  BY <2>1, <2>4, OfFlowAppend
  <2>6. QED  BY <1>7, <2>2, <2>3, <2>4, <2>5
<1>9. CASE ~ Leaves(n, t, d)
  <2>1. Sent(f, n, d) = <<>>
    BY <1>9 DEF Sent
  <2>2. Station(ingress', wire', f, h + 1) = Station(ingress, wire, f, h + 1)
    BY <1>6, <1>7, <1>9
  <2>3. OfFlow(f, Station(ingress, wire, f, h + 1)) \in Seq(Packets)
    BY <1>2, OfFlowType
  <2>4. OfFlow(f, Station(ingress, wire, f, h + 1)) \o <<>>
          = OfFlow(f, Station(ingress, wire, f, h + 1))
    BY <2>3, ConcatEmptySeq
  <2>5. QED  BY <2>1, <2>2, <2>4
<1>10. QED  BY <1>8, <1>9

\* Nothing happens to f elsewhere.
LEMMA StationKeeps ==
  ASSUME IInv, NEW n \in Nodes, flit_traverse(n), NEW f \in Flows,
         NEW k \in 0 .. PathLength(f), PathNode(f, k) # n,
         k # 0 => PathNode(f, k - 1) # n
  PROVE  Station(ingress', wire', f, k) = Station(ingress, wire, f, k)
<1> DEFINE m == PathNode(f, k)
           t == f[1]
           i == PathInput(f, k)
<1>0. TypeOK /\ GrantSound /\ NoUTurn
  BY DEF IInv
<1>1. m \in Nodes /\ t \in Types /\ i \in Dirs
  BY <1>0, PortsType, StationType
<1>2. /\ ingress'[m][t][i] = IF m = n /\ Departs(n, t, i) THEN Tail(ingress[m][t][i])
                             ELSE ingress[m][t][i]
      /\ wire'[m][t][i] = IF i # HOME /\ Nbr(m, i) = n /\ Leaves(n, t, Opposite(i))
                          THEN Append(wire[m][t][i], Flit(n, t, Opposite(i)))
                          ELSE wire[m][t][i]
  BY <1>0, <1>1, TraverseFlits
<1>3. i # HOME => Nbr(m, i) # n
  <2>1. i # HOME => k # 0
    BY PathInputs
  <2>2. k # 0 => k \in 1 .. PathLength(f)
    BY PathType
  <2>3. QED  BY <2>1, <2>2, PathInputs
<1>4. ingress'[m][t][i] = ingress[m][t][i] /\ wire'[m][t][i] = wire[m][t][i]
  BY <1>2, <1>3
<1>5. QED  BY <1>4 DEF Station

\* At most one flit of a flow leaves by an egress.
LEMMA SentType ==
  ASSUME TypeOK, GrantSound, NoUTurn, NEW n \in Nodes, NEW f \in Flows, NEW d \in Dirs
  PROVE  Sent(f, n, d) \in Seq(Packets)
<1>1. CASE Leaves(n, f[1], d)
  <2>1. f[1] \in Types /\ grant[n][f[1]][d] # NULL
    BY <1>1, FlowType DEF Leaves
  <2>2. Flit(n, f[1], d) \in Packets
    BY <2>1, GrantedFlit
  <2>3. <<>> \in Seq(Packets)
    BY EmptySeq
  <2>4. Own(f, Flit(n, f[1], d)) \in Seq(Packets)
    BY <2>2, <2>3, OwnType
  <2>5. QED  BY <1>1, <2>4 DEF Sent
<1>2. CASE ~ Leaves(n, f[1], d)
  BY <1>2, EmptySeq DEF Sent
<1>3. QED  BY <1>1, <1>2

\* So the flow only loses what enters the home of its destination.
LEMMA StageMoves ==
  ASSUME IInv, KeepsPath, TypeOK', NEW n \in Nodes, flit_traverse(n), NEW f \in Flows
  PROVE  /\ f[3] = n => FlowQueue(f) = Sent(f, n, HOME) \o FlowQueue(f)'
         /\ f[3] # n => FlowQueue(f)' = FlowQueue(f)
<1> DEFINE l == PathLength(f)
           s(k) == Station(ingress, wire, f, k)
           s1(k) == Station(ingress', wire', f, k)
<1>0. /\ TypeOK /\ l \in Nat /\ PathNode(f, l) = f[3] /\ l \in 0 .. l
  BY PathType DEF IInv
<1>1. CASE \A k \in 0 .. l : PathNode(f, k) # n
  <2>1. ASSUME NEW k \in 0 .. l PROVE s1(k) = s(k)
    <3>1. k # 0 => k - 1 \in 0 .. l
      BY <1>0
    <3>2. PathNode(f, k) # n /\ (k # 0 => PathNode(f, k - 1) # n)
      BY <1>1, <3>1
    <3>3. QED  BY <3>2, StationKeeps
  <2>2. FlowQueue(f)' = FlowQueue(f)
    BY <1>0, <2>1, FlowQueueSame
  <2>3. f[3] # n
    BY <1>0, <1>1
  <2>4. QED  BY <2>2, <2>3
<1>2. ASSUME NEW h \in 0 .. l, PathNode(f, h) = n
      PROVE  /\ f[3] = n => FlowQueue(f) = Sent(f, n, HOME) \o FlowQueue(f)'
             /\ f[3] # n => FlowQueue(f)' = FlowQueue(f)
  <2> DEFINE a == Stations(ingress, wire, f)
             c == Stations(ingress', wire', f)
             r == Route(n, f[3])
             m == Sent(f, n, r)
             hh == l + 1 - h
  <2>1. /\ a \in Seq(Seq(Packets)) /\ Len(a) = l + 1
        /\ \A i \in 1 .. l + 1 : l + 1 - i \in 0 .. l /\ a[i] = OfFlow(f, s(l + 1 - i))
    BY <1>0, PortsType, StationsType
  <2>2. /\ c \in Seq(Seq(Packets)) /\ Len(c) = l + 1
        /\ \A i \in 1 .. l + 1 : c[i] = OfFlow(f, s1(l + 1 - i))
    BY PortsType, StationsType
  <2>3. r \in Dirs /\ (r = HOME <=> h = l)
    BY <1>0, <1>2, RouteType, FlowType, PathRoute
  <2>4. m \in Seq(Packets)
    BY <1>0, <2>3, SentType DEF IInv
  <2>5. OfFlow(f, s(h)) = m \o OfFlow(f, s1(h))
    BY <1>2, StationGives
  <2>6. h # l => OfFlow(f, s1(h + 1)) = OfFlow(f, s(h + 1)) \o m
    BY <1>2, StationTakes
  <2>7. ASSUME NEW k \in 0 .. l, k # h, k # h + 1 PROVE s1(k) = s(k)
    <3>1. PathNode(f, k) # n
      BY <1>2, <2>7, PathOnce
    <3>2. k # 0 => k - 1 \in 0 .. l /\ k - 1 # h
      BY <1>0, <2>7
    <3>3. k # 0 => PathNode(f, k - 1) # n
      BY <1>2, <3>2, PathOnce
    <3>4. QED  BY <3>1, <3>3, StationKeeps
  <2>8. hh \in 1 .. l + 1 /\ l + 1 - hh = h /\ (hh = 1 <=> h = l)
    BY <1>0
  <2>9. Moved(a, c, m, hh)
    <3>1. Len(c) = Len(a)
      BY <2>1, <2>2
    <3>2. a[hh] = m \o c[hh]
      BY <2>1, <2>2, <2>5, <2>8
    <3>3. ASSUME NEW i \in 1 .. l + 1, i # hh
          PROVE  c[i] = IF i = hh - 1 THEN a[i] \o m ELSE a[i]
      <4>1. l + 1 - i \in 0 .. l /\ l + 1 - i # h
        BY <1>0, <3>3
      <4>2. CASE i = hh - 1
        <5>1. l + 1 - i = h + 1 /\ h # l
          BY <1>0, <4>2
        <5>2. c[i] = OfFlow(f, s1(h + 1)) /\ a[i] = OfFlow(f, s(h + 1))
          BY <2>1, <2>2, <5>1
        <5>3. QED  BY <2>6, <4>2, <5>1, <5>2
      <4>3. CASE i # hh - 1
        <5>1. l + 1 - i # h + 1
          BY <1>0, <4>3
        <5>2. s1(l + 1 - i) = s(l + 1 - i)
          BY <2>7, <4>1, <5>1
        <5>3. c[i] = a[i]
          BY <2>1, <2>2, <5>2
        <5>4. QED  BY <4>3, <5>3
      <4>4. QED  BY <4>2, <4>3
    <3> HIDE DEF a, c, m, hh, s, s1
    <3>4. QED  BY <2>1, <3>1, <3>2, <3>3 DEF Moved
  <2>10. hh \in 1 .. Len(a)
    BY <2>1, <2>8
  <2>11. FlattenSeq(a) = IF hh = 1 THEN m \o FlattenSeq(c) ELSE FlattenSeq(c)
    <3> HIDE DEF a, c, m, hh
    <3>1. a \in Seq(Seq(Packets)) /\ c \in Seq(Seq(Packets))
      BY <2>1, <2>2
    <3>2. QED  BY ONLY <2>4, <2>9, <2>10, <3>1, FlattenMoved
  <2>12. FlowQueue(f) = FlattenSeq(a) /\ FlowQueue(f)' = FlattenSeq(c)
    BY <1>0, PortsType, FlowQueueStations, FlowQueueStationsNext
  <2>13. f[3] = n <=> h = l
    BY <1>0, <1>2, PathOnce
  <2>14. CASE h = l
    <3>1. FlattenSeq(a) = m \o FlattenSeq(c) /\ r = HOME
      BY <2>3, <2>8, <2>11, <2>14
    <3>2. QED  BY <2>12, <2>13, <2>14, <3>1
  <2>15. CASE h # l
    <3>1. FlattenSeq(a) = FlattenSeq(c)
      BY <2>8, <2>11, <2>15
    <3>2. QED  BY <2>12, <2>13, <2>15, <3>1
  <2>16. QED  BY <2>14, <2>15
<1>3. QED  BY <1>1, <1>2

-----------------------------------------------------------------------------
(***************************************************************************)
(* The network implements its channels.                                    *)
(***************************************************************************)

\* The state of the channels that the network stands for.
Chan == [f \in Flows |-> FlowQueue(f)]

\* A cycle of a router delivers what enters the home of its cpu.
LEMMA StageDelivers ==
  ASSUME IInv, KeepsPath, TypeOK', NEW n \in Nodes, flit_traverse(n)
  PROVE  (\E F \in SUBSET Flows : Ch!Deliver(n, F)) \/ UNCHANGED Chan
<1> DEFINE F == {f \in Flows : f[3] = n /\ Sent(f, n, HOME) # <<>>}
<1>0. \A f \in Flows :
        /\ f[3] = n => FlowQueue(f) = Sent(f, n, HOME) \o FlowQueue(f)'
        /\ f[3] # n => FlowQueue(f)' = FlowQueue(f)
  BY StageMoves
<1>t. \A f \in Flows : FlowQueue(f)' \in Seq(Packets) /\ FlowQueue(f) \in Seq(Packets)
  <2> SUFFICES ASSUME NEW f \in Flows
               PROVE  FlowQueue(f)' \in Seq(Packets) /\ FlowQueue(f) \in Seq(Packets)
    OBVIOUS
  <2>1. Stations(ingress', wire', f) \in Seq(Seq(Packets))
    BY PortsType, StationsType
  <2>2. Stations(ingress, wire, f) \in Seq(Seq(Packets))
    BY PortsType, StationsType DEF IInv
  <2>3. QED  BY <2>1, <2>2, FlattenType, FlowQueueStations, FlowQueueStationsNext, PortsType DEF IInv
<1>1. ASSUME NEW f \in Flows, f \notin F PROVE FlowQueue(f)' = FlowQueue(f)
  <2>1. CASE f[3] = n
    <3>1. Sent(f, n, HOME) = <<>>
      BY <1>1, <2>1
    <3>2. <<>> \o FlowQueue(f)' = FlowQueue(f)'
      BY <1>t, ConcatEmptySeq
    <3>3. QED  BY <1>0, <2>1, <3>1, <3>2
  <2>2. CASE f[3] # n
    BY <1>0, <2>2
  <2>3. QED  BY <2>1, <2>2
<1>2. ASSUME NEW f \in F
      PROVE  FlowQueue(f) # <<>> /\ FlowQueue(f)' = Tail(FlowQueue(f))
  <2> DEFINE p == Flit(n, f[1], HOME)
             q == FlowQueue(f)
             q1 == FlowQueue(f)'
  <2>1. f[3] = n /\ Sent(f, n, HOME) = <<p>>
    BY DEF Sent, Own
  <2>2. p \in Packets
    <3>1. f[1] \in Types /\ HOME \in Dirs
      BY FlowType DEF Dirs
    <3>2. grant[n][f[1]][HOME] # NULL
      BY DEF Sent, Leaves
    <3>3. QED  BY <3>1, <3>2, GrantedFlit DEF IInv
  <2>3. q = <<p>> \o q1 /\ q1 \in Seq(Packets)
    BY <1>0, <1>t, <2>1
  <2> HIDE DEF p, q, q1
  <2>4. /\ <<p>> \in Seq(Packets) /\ <<p>> # <<>> /\ Tail(<<p>>) = <<>>
    BY <2>2
  <2>5. q # <<>> /\ Tail(q) = Tail(<<p>>) \o q1
    <3> DEFINE o == <<p>>
    <3> HIDE DEF o
    <3>1. o \in Seq(Packets) /\ o # <<>>
      BY <2>4 DEF o
    <3>2. o \o q1 # <<>> /\ Tail(o \o q1) = Tail(o) \o q1
      BY <2>3, <3>1, HeadTailConcat
    <3>3. QED  BY <2>3, <3>2 DEF o
  <2>6. <<>> \o q1 = q1
    BY <2>3, ConcatEmptySeq
  <2>7. q # <<>> /\ q1 = Tail(q)
    BY <2>4, <2>5, <2>6
  <2>8. QED  BY <2>7 DEF q, q1
<1>3. ASSUME NEW f \in F, NEW g \in F, f[1] = g[1] PROVE f = g
  <2>1. f[2] = Flit(n, f[1], HOME).src /\ f[3] = Flit(n, f[1], HOME).dst
    BY DEF Sent, Own
  <2>2. g[2] = Flit(n, g[1], HOME).src /\ g[3] = Flit(n, g[1], HOME).dst
    BY DEF Sent, Own
  <2>3. f = <<f[1], f[2], f[3]>> /\ g = <<g[1], g[2], g[3]>>
    BY FlowType
  <2>4. QED  BY <1>3, <2>1, <2>2, <2>3
<1>4. \A f \in F : f \in Flows /\ f[3] = n
  OBVIOUS
<1> HIDE DEF F
<1>5. CASE F = {}
  BY <1>1, <1>5 DEF Chan
<1>6. CASE F # {}
  <2>1. \A f \in F : f[3] = n /\ Chan[f] # <<>>
    BY <1>2, <1>4 DEF Chan
  <2>2. Chan' = [f \in Flows |-> IF f \in F THEN Tail(Chan[f]) ELSE Chan[f]]
    BY <1>1, <1>2 DEF Chan
  <2>3. Ch!Deliver(n, F)
    BY <1>3, <1>6, <2>1, <2>2 DEF Ch!Deliver, Chan
  <2>4. QED  BY <1>4, <2>3
<1>7. QED  BY <1>5, <1>6

\* A packet accepted by noc_request is one sent.
LEMMA RequestIsSend ==
  ASSUME TypeOK, TypeOK', HomeWireIdle, NEW f \in Flows, NEW v \in Msgs[f], noc_request(f, v)
  PROVE  Ch!Send(f, v)
<1>1. \A e \in Flows :
        FlowQueue(e)' = IF e = f
                        THEN Append(FlowQueue(e), [src |-> f[2], dst |-> f[3], msg |-> v])
                        ELSE FlowQueue(e)
  BY RequestSends
<1>2. QED  BY <1>1 DEF Ch!Send

\* Every step of the network is a step of its channels or none.
LEMMA StepRefines ==
  IInv /\ KeepsPath /\ HomeWireIdle /\ TypeOK' /\ [Next]_vars
    => [Ch!Next]_Chan
<1> SUFFICES ASSUME IInv, KeepsPath, HomeWireIdle, TypeOK', [Next]_vars
             PROVE  [Ch!Next]_Chan
  OBVIOUS
<1>1. ASSUME NEW n \in Nodes, noc_stage(n) PROVE [Ch!Next]_Chan
  <2>1. flit_traverse(n)
    BY <1>1 DEF noc_stage
  <2>2. QED  BY <2>1, StageDelivers DEF Ch!Next
<1>2. ASSUME NEW f \in Flows, NEW v \in Msgs[f], noc_request(f, v)
      PROVE  [Ch!Next]_Chan
  BY <1>2, RequestIsSend DEF Ch!Next, IInv
<1>3. ASSUME NEW n \in Nodes, NEW t \in Types, NEW d \in Links, flit_arrive(n, t, d)
      PROVE  [Ch!Next]_Chan
  <2>1. \A f \in Flows : FlowQueue(f)' = FlowQueue(f)
    BY <1>3, ArriveSame DEF IInv
  <2>2. QED  BY <2>1 DEF Chan
<1>4. CASE UNCHANGED <<ingress, wire>>
  <2>1. ASSUME NEW f \in Flows PROVE FlowQueue(f)' = FlowQueue(f)
    BY <1>4, FlowQueueSame DEF Station, IInv
  <2>2. QED  BY <2>1 DEF Chan
<1>5. QED  BY <1>1, <1>2, <1>3, <1>4, OtherSteps DEF FlitStep

\* An idle network has empty channels.
LEMMA InitRefines == Init => Ch!Init
<1> SUFFICES ASSUME Init, NEW f \in Flows PROVE FlowQueue(f) = <<>>
  BY DEF Ch!Init
<1> DEFINE s == Stations(ingress, wire, f)
<1>0. ingress \in Ports /\ wire \in Ports
  BY InitIInv, PortsType DEF IInv
<1>1. /\ s \in Seq(Seq(Packets)) /\ s # <<>> /\ Len(s) = PathLength(f) + 1
      /\ \A i \in 1 .. PathLength(f) + 1 :
           /\ PathLength(f) + 1 - i \in 0 .. PathLength(f)
           /\ s[i] = OfFlow(f, Station(ingress, wire, f, PathLength(f) + 1 - i))
  BY <1>0, StationsType
<1>2. ASSUME NEW k \in 0 .. PathLength(f)
      PROVE  OfFlow(f, Station(ingress, wire, f, k)) = <<>>
  <2>1. PathNode(f, k) \in Nodes /\ f[1] \in Types /\ PathInput(f, k) \in Dirs
    BY <1>0, StationType
  <2>2. Station(ingress, wire, f, k) = <<>> \o <<>>
    BY <2>1 DEF Station, Init, PortMap
  <2>3. <<>> \o <<>> = <<>>
    OBVIOUS
  <2>4. QED  BY <2>2, <2>3, OfFlowEmpty
<1>3. \A i \in 1 .. Len(s) : s[i] = <<>>
  BY <1>1, <1>2
<1> HIDE DEF s
<1>4. FlattenSeq(s) = <<>>
  BY <1>1, <1>3, FlattenEmpty
<1>5. QED  BY <1>0, <1>4, FlowQueueStations DEF s

\* arbitrate routes along the row first and along the column then, so a flit is
\* only ever found on that one path from its source to its destination, in the
\* buffer or on the wire by which the path comes to the router.
THEOREM FlitsKeepPath == Spec => []KeepsPath
<1>1. Init => IInv /\ KeepsPath
  BY InitIInv, KeepsPathInit
<1>2. IInv /\ KeepsPath /\ [Next]_vars => IInv' /\ KeepsPath'
  BY NextIInv, KeepsPathNext
<1>3. QED  BY <1>1, <1>2, PTL DEF Spec

\* Buffers, wires, routing, credits and arbitration together are, for every mesh,
\* every buffer size and every traffic, a first-in first-out channel per packet
\* type, source and destination: what noc_request accepts enters the queues of
\* its home once, unchanged and in the order in which it was sent.
THEOREM NetworkIsChannels == Spec => ImplementsChannels
<1>1. Init => IInv /\ KeepsPath /\ HomeWireIdle
  BY InitIInv, KeepsPathInit, HomeWireIdleInit
<1>2. IInv /\ KeepsPath /\ HomeWireIdle /\ [Next]_vars
        => IInv' /\ KeepsPath' /\ HomeWireIdle'
  BY NextIInv, KeepsPathNext, HomeWireIdleNext
<1>3. IInv' => TypeOK'
  BY DEF IInv
<1>4. IInv /\ KeepsPath /\ HomeWireIdle /\ [Next]_vars => [Ch!Next]_Chan
  BY <1>2, <1>3, StepRefines
<1>5. QED
  BY <1>1, <1>2, <1>4, InitRefines, PTL DEF Spec, ImplementsChannels, Ch!Spec, Chan
=============================================================================
