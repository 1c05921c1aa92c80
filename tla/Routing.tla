------------------------------ MODULE Routing ------------------------------
(***************************************************************************)
(* DeliveryService.handleCreateLocation: the way from the store to the     *)
(* customer, over the roads the Overpass API returns for the area.  One    *)
(* call is followed from the request to the distance; requestShipper-      *)
(* Locations refuses the order ('Location not valid!') when that is 0.     *)
(*                                                                         *)
(* Distances are natural numbers for the metres of haversine, which only   *)
(* matter by being symmetric and not negative.  Which nodes are nearest to *)
(* the store and to the customer is left open.                             *)
(***************************************************************************)
EXTENDS Integers, Sequences, FiniteSets

CONSTANTS
    Ids,            \* ids of OpenStreetMap nodes
    Ways,           \* the ways there may be: sequences of ids
    Lengths,        \* the distances two nodes may have
    Infinity,
    None            \* the null of prev and of findNearestNode

ASSUME RoutingAssumption ==
    /\ IsFiniteSet(Ids)
    /\ Ways \subseteq Seq(Ids)
    /\ Lengths \subseteq Nat
    /\ Infinity \notin Nat
    /\ None \notin Ids

VARIABLES
    pc,             \* "ask", "search", "walk" or "done"
    graph,          \* [nodes, roads, length]: what buildGraph returns
    start, end,     \* startNode, endNode
    distances, prev, pq,
    u,              \* the node the walk back has come to
    path

vars == <<pc, graph, start, end, distances, prev, pq, u, path>>

----------------------------------------------------------------------------
(* buildGraph *)

\* Mutant: the nodes the answer lacks are linked like the others.
RoadsAcrossGaps(nodes, way) ==
    UNION {{<<way[i], way[i + 1]>>, <<way[i + 1], way[i]>>} : i \in 1 .. Len(way) - 1}

\* Consecutive nodes of a way are linked both ways, unless the answer lacks
\* one of them.
RoadsOf(nodes, way) ==
    UNION {{<<way[i], way[i + 1]>>, <<way[i + 1], way[i]>>} :
              i \in {j \in 1 .. Len(way) - 1 :
                        {way[j], way[j + 1]} \subseteq nodes}}

\* The weights haversine may give the roads.
Haversine(roads) == [{e \in {{r[1], r[2]} : r \in roads} : Cardinality(e) = 2} -> Lengths]

Graphs(nodes, ways) ==
    LET roads == UNION {RoadsOf(nodes, w) : w \in ways}
    IN  {[nodes |-> nodes, roads |-> roads, length |-> l] : l \in Haversine(roads)}

NoGraph == [nodes |-> {}, roads |-> {}, length |-> <<>>]

Length(a, b) == IF a = b THEN 0 ELSE graph.length[{a, b}]

Neighbors(n) == {m \in graph.nodes : <<n, m>> \in graph.roads}

----------------------------------------------------------------------------
(* Arithmetic with Infinity *)

Plus(d, l) == IF d = Infinity THEN Infinity ELSE d + l

Less(a, b) == a # Infinity /\ (b = Infinity \/ a < b)

----------------------------------------------------------------------------

Init ==
    /\ pc = "ask"
    /\ graph = NoGraph
    /\ start = None /\ end = None
    /\ distances = <<>> /\ prev = <<>> /\ pq = {}
    /\ u = None
    /\ path = <<>>

\* The API answers; dijkstra starts from the node nearest to the store.
RoadsFound ==
    /\ pc = "ask"
    /\ \E nodes \in SUBSET Ids \ {{}}, ways \in SUBSET Ways :
          /\ graph' \in Graphs(nodes, ways)
          /\ start' \in nodes
          /\ end' \in nodes
          /\ distances' = [n \in nodes |-> IF n = start' THEN 0 ELSE Infinity]
          /\ prev' = [n \in nodes |-> None]
          /\ pq' = nodes
    /\ pc' = "search"
    /\ UNCHANGED <<u, path>>

\* The API fails, or it has no node: paths is [] and distance is 0.
NoRoads ==
    /\ pc = "ask"
    /\ pc' = "done"
    /\ UNCHANGED <<graph, start, end, distances, prev, pq, u, path>>

\* Mutant: the nodes are taken in the order of the keys.
AnyNode(n) == n \in pq

Closest(n) == n \in pq /\ \A m \in pq : ~Less(distances[m], distances[n])

\* Mutant: the node is not deleted from pq.
AllOfThem(n) == pq

Rest(n) == pq \ {n}

Alt(n, m) == Plus(distances[n], Length(n, m))

\* Mutant: a way of the same length replaces the one found before.
ShortensOrTies(n, m) == m \in Neighbors(n) /\ ~Less(distances[m], Alt(n, m))

Shortens(n, m) == m \in Neighbors(n) /\ Less(Alt(n, m), distances[m])

\* One turn of the loop.  The break at `u === end` is never taken: u is a
\* key of graph, a string, and end a number.
Visit(n) ==
    /\ pc = "search"
    /\ Closest(n)
    /\ pq' = Rest(n)
    /\ distances' = [m \in graph.nodes |->
                        IF Shortens(n, m) THEN Alt(n, m) ELSE distances[m]]
    /\ prev' = [m \in graph.nodes |-> IF Shortens(n, m) THEN n ELSE prev[m]]
    /\ UNCHANGED <<pc, graph, start, end, u, path>>

SearchEnds ==
    /\ pc = "search"
    /\ pq = {}
    /\ pc' = "walk"
    /\ u' = end
    /\ UNCHANGED <<graph, start, end, distances, prev, pq, path>>

WalkBack ==
    /\ pc = "walk"
    /\ u # None
    /\ path' = <<u>> \o path
    /\ u' = prev[u]
    /\ UNCHANGED <<pc, graph, start, end, distances, prev, pq>>

WalkEnds ==
    /\ pc = "walk"
    /\ u = None
    /\ pc' = "done"
    /\ UNCHANGED <<graph, start, end, distances, prev, pq, u, path>>

Next ==
    \/ RoadsFound
    \/ NoRoads
    \/ \E n \in graph.nodes : Visit(n)
    \/ SearchEnds
    \/ WalkBack
    \/ WalkEnds

Spec == Init /\ [][Next]_vars

\* Once the API has answered, the rest runs without an await.  It need not
\* answer: the request has no timeout.
FairSpec == Spec /\ WF_vars(pc # "ask" /\ Next)

----------------------------------------------------------------------------
(* computeTotalDistance *)

\* total[i]: the way over the first i nodes.
TotalDistance(p) ==
    LET total[i \in 0 .. Len(p)] ==
            IF i <= 1 THEN 0 ELSE total[i - 1] + Length(p[i - 1], p[i])
    IN  total[Len(p)]

----------------------------------------------------------------------------
(* Type invariant *)

Distance == Nat \cup {Infinity}

TypeOK ==
    /\ pc \in {"ask", "search", "walk", "done"}
    /\ graph.nodes \subseteq Ids
    /\ graph.roads \subseteq graph.nodes \X graph.nodes
    /\ start \in graph.nodes \cup {None}
    /\ end \in graph.nodes \cup {None}
    /\ distances \in [graph.nodes -> Distance]
    /\ prev \in [graph.nodes -> graph.nodes \cup {None}]
    /\ pq \subseteq graph.nodes
    /\ u \in graph.nodes \cup {None}
    /\ path \in Seq(graph.nodes)

(* Properties *)

\* A node taken from pq keeps its distance: the loop never has to come back
\* to it.
SettledNodesKeepTheirDistance ==
    [][\A n \in graph.nodes \ pq :
          distances'[n] = distances[n] /\ prev'[n] = prev[n]]_<<distances, prev, pq>>

\* What the search leaves behind proves itself: no road shortens a distance,
\* and each distance but the start's is that of prev, already settled, and
\* one road more.
Certificate ==
    pc \in {"walk", "done"} =>
        \A n \in graph.nodes :
            /\ n = start => distances[n] = 0
            /\ \A m \in Neighbors(n) :
                  ~Less(Plus(distances[n], Length(n, m)), distances[m])
            /\ prev[n] # None =>
                  /\ n \in Neighbors(prev[n])
                  /\ distances[n] = Plus(distances[prev[n]], Length(prev[n], n))
            /\ prev[n] = None => n = start \/ distances[n] = Infinity

\* The reference: the ways without a repeated node, and their shortest.
SimplePaths(a, b) ==
    {p \in UNION {[1 .. k -> graph.nodes] : k \in 1 .. Cardinality(graph.nodes)} :
        /\ p[1] = a
        /\ p[Len(p)] = b
        /\ \A i, j \in 1 .. Len(p) : p[i] = p[j] => i = j
        /\ \A i \in 1 .. Len(p) - 1 : p[i + 1] \in Neighbors(p[i])}

\* The paths a customer is shown is a shortest way from the store to him;
\* when no road leads to him it is his own node alone, of distance 0, which
\* the dispatcher takes for an invalid location.
PathIsShortest ==
    pc = "done" /\ graph.nodes # {} =>
        LET ways == SimplePaths(start, end)
        IN  IF ways = {}
            THEN path = <<end>>
            ELSE /\ path \in ways
                 /\ \A w \in ways : TotalDistance(path) <= TotalDistance(w)

\* The way back along prev comes to no node twice, and so to an end.
NoLoopInPath ==
    /\ \A i, j \in DOMAIN path : path[i] = path[j] => i = j
    /\ pc = "walk" => \A i \in DOMAIN path : path[i] # u

\* What is still to do: nodes in pq, nodes the path may come to, and the two
\* loops to leave.
TurnsLeft ==
    Cardinality(pq) + Cardinality(graph.nodes \ {path[i] : i \in DOMAIN path})
        + (CASE pc = "search" -> 2 [] pc = "walk" -> 1 [] OTHER -> 0)

\* Every turn of the search and of the walk back is a step towards the end:
\* a call takes at most two turns for a node, whatever ties and roads of
\* length 0 there are.
NoTurnInVain == [][pc # "ask" => TurnsLeft' = TurnsLeft - 1]_vars

\* Once the roads are known, the search and the walk back end.
RouteEnds == pc = "search" ~> pc = "done"
=============================================================================
