--------------------------- MODULE Routing_proofs ---------------------------
(***************************************************************************)
(* Proofs about Routing: for every road map the distances the search       *)
(* leaves are the shortest ones, and the way back is a shortest way.       *)
(***************************************************************************)
EXTENDS Routing, TLAPS, FiniteSetTheorems, SequenceTheorems, WellFoundedInduction

----------------------------------------------------------------------------
(* Induction, in the form the provers can use: with a set for the property *)

\* The intervals 0 .. x are finite sets, and these are well ordered.
LEMMA LeastElement ==
    ASSUME NEW T \in SUBSET Nat, T # {}
    PROVE  \E x \in T : \A y \in T : x <= y
<1> DEFINE below == {0 .. x : x \in T}
<1>1. \A x \in T : IsFiniteSet(0 .. x) /\ 0 .. x \in SUBSET Nat
  BY FS_Interval
<1>2. below \subseteq FiniteSubsetsOf(Nat) /\ below # {}
  BY <1>1 DEF FiniteSubsetsOf
<1>3. IsWellFoundedOn(StrictSubsetOrdering(Nat), FiniteSubsetsOf(Nat))
  BY FS_StrictSubsetOrderingWellFounded
<1>4. PICK s \in below : \A t \in below : <<t, s>> \notin StrictSubsetOrdering(Nat)
  <2> HIDE DEF below
  <2> QED BY <1>2, <1>3, WFMin, Zenon
<1>5. PICK x \in T : s = 0 .. x
  BY <1>4
<1>6. ASSUME NEW y \in T, y < x PROVE FALSE
  <2>1. 0 .. y \subseteq 0 .. x /\ 0 .. y # 0 .. x
    BY <1>6
  <2>2. <<0 .. y, 0 .. x>> \in StrictSubsetOrdering(Nat)
    BY <2>1, <1>1, <1>5 DEF StrictSubsetOrdering
  <2> QED BY <2>2, <1>4, <1>5
<1> QED BY <1>5, <1>6

\* A set with 0 and with every successor has all naturals.
LEMMA InductionOnNat ==
    ASSUME NEW S \in SUBSET Nat, 0 \in S, \A n \in S : n + 1 \in S
    PROVE  Nat \subseteq S
<1>1. SUFFICES ASSUME Nat \ S # {} PROVE FALSE
  OBVIOUS
<1>2. PICK x \in Nat \ S : \A y \in Nat \ S : x <= y
  BY <1>1, LeastElement
<1>3. x # 0 /\ x - 1 \in Nat /\ x - 1 \in S
  BY <1>2
<1> QED BY <1>2, <1>3

----------------------------------------------------------------------------
(* The graph *)

\* What buildGraph promises the search.
GraphOK ==
    /\ graph.nodes \subseteq Ids
    /\ graph.roads \subseteq graph.nodes \X graph.nodes
    /\ \A n, m \in graph.nodes : m \in Neighbors(n) => Length(n, m) \in Nat

\* A way links nodes of the answer only.
LEMMA RoadsAreBetweenNodes ==
    ASSUME NEW nodes, NEW way PROVE RoadsOf(nodes, way) \subseteq nodes \X nodes
BY DEF RoadsOf

\* Every graph buildGraph can return is one the search can work with.
LEMMA GraphsAreOK ==
    ASSUME NEW nodes \in SUBSET Ids, NEW ways \in SUBSET Ways,
           graph' \in Graphs(nodes, ways)
    PROVE  GraphOK' /\ graph'.nodes = nodes
<1> DEFINE roads == UNION {RoadsOf(nodes, w) : w \in ways}
           pairs == {e \in {{r[1], r[2]} : r \in roads} : Cardinality(e) = 2}
<1>1. PICK l \in Haversine(roads) :
          graph' = [nodes |-> nodes, roads |-> roads, length |-> l]
  BY DEF Graphs
<1>2. graph'.nodes = nodes /\ graph'.roads = roads /\ graph'.length = l
  BY <1>1
<1>3. roads \subseteq nodes \X nodes
  BY RoadsAreBetweenNodes
<1>4. l \in [pairs -> Lengths]
  BY <1>1 DEF Haversine
<1>5. ASSUME NEW n \in nodes, NEW m \in nodes, <<n, m>> \in roads, n # m
      PROVE  l[{n, m}] \in Nat
  <2>1. IsFiniteSet({n}) /\ Cardinality({n}) = 1
    BY FS_Singleton
  <2>2. Cardinality({n} \cup {m}) =
            IF m \in {n} THEN Cardinality({n}) ELSE Cardinality({n}) + 1
    BY <2>1, FS_AddElement
  <2>3. {n} \cup {m} = {n, m} /\ Cardinality({n, m}) = 2
    BY <2>1, <2>2, <1>5
  <2>4. {n, m} \in {{r[1], r[2]} : r \in roads}
    BY <1>5
  <2> QED BY <2>3, <2>4, <1>4, RoutingAssumption
<1> QED BY <1>2, <1>3, <1>5 DEF GraphOK, Neighbors, Length

\* A sequence of one element.
LEMMA SingletonSeq ==
    ASSUME NEW S, NEW x \in S
    PROVE  <<x>> \in Seq(S) /\ Len(<<x>>) = 1 /\ <<x>>[1] = x
<1>1. <<x>> \in Seq(S)
  OBVIOUS
<1>2. Len(<<x>>) = 1 /\ <<x>>[1] = x
  OBVIOUS
<1> QED BY <1>1, <1>2

\* A sequence with one element more in front.
LEMMA Prepended ==
    ASSUME NEW S, NEW x \in S, NEW s \in Seq(S)
    PROVE  /\ Len(<<x>> \o s) = Len(s) + 1
           /\ (<<x>> \o s)[1] = x
           /\ \A i \in 2 .. Len(s) + 1 : (<<x>> \o s)[i] = s[i - 1]
<1>1. <<x>> \in Seq(S) /\ Len(<<x>>) = 1 /\ <<x>>[1] = x
  BY SingletonSeq
<1>2. Len(s) \in Nat
  BY LenProperties
<1>3. /\ Len(<<x>> \o s) = 1 + Len(s)
      /\ \A i \in 1 .. 1 + Len(s) :
            (<<x>> \o s)[i] = IF i <= 1 THEN <<x>>[i] ELSE s[i - 1]
  BY <1>1, ConcatProperties
<1> QED BY <1>1, <1>2, <1>3

----------------------------------------------------------------------------
(* Typing *)

Typed ==
    /\ TypeOK
    /\ GraphOK
    /\ pc = "ask" => graph.nodes = {} /\ path = <<>> /\ u = None
    /\ pc = "search" => path = <<>> /\ u = None /\ end \in graph.nodes
    /\ graph.nodes # {} => start \in graph.nodes /\ end \in graph.nodes

LEMMA InitTyped == Init => Typed
<1> SUFFICES ASSUME Init PROVE Typed
  OBVIOUS
<1>1. graph.nodes = {} /\ graph.roads = {}
  BY DEF Init, NoGraph
<1>2. path \in Seq(graph.nodes)
  BY EmptySeq DEF Init
<1>3. distances \in [graph.nodes -> Distance] /\ prev \in [graph.nodes -> graph.nodes \cup {None}]
  BY <1>1 DEF Init
<1> QED BY <1>1, <1>2, <1>3 DEF Init, Typed, TypeOK, GraphOK

\* A length added to a distance is a distance.
LEMMA AltIsDistance ==
    ASSUME Typed, NEW n \in graph.nodes, NEW m \in Neighbors(n)
    PROVE  Alt(n, m) \in Distance
BY DEF Typed, TypeOK, GraphOK, Neighbors, Alt, Plus, Distance

LEMMA NextTyped == Typed /\ [Next]_vars => Typed'
<1> SUFFICES ASSUME Typed, [Next]_vars PROVE Typed'
  OBVIOUS
<1>1. CASE RoadsFound
  <2>1. PICK nodes \in SUBSET Ids \ {{}}, ways \in SUBSET Ways :
            /\ graph' \in Graphs(nodes, ways)
            /\ start' \in nodes
            /\ end' \in nodes
            /\ distances' = [n \in nodes |-> IF n = start' THEN 0 ELSE Infinity]
            /\ prev' = [n \in nodes |-> None]
            /\ pq' = nodes
    BY <1>1 DEF RoadsFound
  <2>2. GraphOK' /\ graph'.nodes = nodes
    BY <2>1, GraphsAreOK
  <2>3. path' = <<>> /\ u' = None /\ pc' = "search"
    BY <1>1 DEF RoadsFound, Typed
  <2>4. path' \in Seq(nodes)
    BY <2>3, EmptySeq
  <2>5. graph'.roads \subseteq graph'.nodes \X graph'.nodes
    BY <2>2 DEF GraphOK
  <2> QED BY <2>1, <2>2, <2>3, <2>4, <2>5 DEF Typed, TypeOK, Distance
<1>2. CASE NoRoads
  BY <1>2 DEF NoRoads, Typed, TypeOK, GraphOK, Neighbors, Length
<1>3. ASSUME NEW n \in graph.nodes, Visit(n) PROVE Typed'
  <2>1. \A m \in graph.nodes : Shortens(n, m) => Alt(n, m) \in Distance
    BY AltIsDistance DEF Shortens
  <2>2. distances' \in [graph.nodes -> Distance]
    BY <1>3, <2>1 DEF Visit, Typed, TypeOK
  <2>3. prev' \in [graph.nodes -> graph.nodes \cup {None}]
    BY <1>3 DEF Visit, Typed, TypeOK
  <2> QED BY <1>3, <2>2, <2>3 DEF Visit, Rest, Typed, TypeOK, GraphOK, Neighbors, Length
<1>4. CASE SearchEnds
  BY <1>4 DEF SearchEnds, Typed, TypeOK, GraphOK, Neighbors, Length
<1>5. CASE WalkBack
  <2>1. u \in graph.nodes
    BY <1>5 DEF WalkBack, Typed, TypeOK
  <2>a. <<u>> \in Seq(graph.nodes)
    BY <2>1, SingletonSeq
  <2>b. path \in Seq(graph.nodes) /\ path' = <<u>> \o path
    BY <1>5 DEF WalkBack, Typed, TypeOK
  <2>2. path' \in Seq(graph.nodes)
    BY <2>a, <2>b, ConcatProperties
  <2>3. u' \in graph.nodes \cup {None}
    BY <1>5, <2>1 DEF WalkBack, Typed, TypeOK
  <2> QED BY <1>5, <2>2, <2>3 DEF WalkBack, Typed, TypeOK, GraphOK, Neighbors, Length
<1>6. CASE WalkEnds
  BY <1>6 DEF WalkEnds, Typed, TypeOK, GraphOK, Neighbors, Length
<1>7. CASE UNCHANGED vars
  BY <1>7 DEF vars, Typed, TypeOK, GraphOK, Neighbors, Length
<1> QED BY <1>1, <1>2, <1>3, <1>4, <1>5, <1>6, <1>7 DEF Next

\* Every state of the search and of the walk back is well typed, whatever
\* the map service answers.
THEOREM RoutingTypeCorrect == Spec => []TypeOK
<1>1. Spec => []Typed
  BY InitTyped, NextTyped, PTL DEF Spec
<1>2. Typed => TypeOK
  BY DEF Typed
<1> QED BY <1>1, <1>2, PTL

----------------------------------------------------------------------------
(* The search *)

\* No node left in pq is closer than one taken from it.
Ordered ==
    \A n \in graph.nodes \ pq, m \in pq : ~Less(distances[m], distances[n])

\* The roads from a node taken from pq shorten nothing any more.
Relaxed ==
    \A n \in graph.nodes \ pq : \A m \in Neighbors(n) :
        ~Less(Alt(n, m), distances[m])

\* A distance is explained by prev, or is the start's, or unknown.
Explained ==
    \A n \in graph.nodes :
        /\ n = start => distances[n] = 0 /\ prev[n] = None
        /\ prev[n] # None =>
              /\ prev[n] \in graph.nodes \ pq
              /\ n \in Neighbors(prev[n])
              /\ distances[n] = Alt(prev[n], n)
        /\ prev[n] = None => n = start \/ distances[n] = Infinity

SearchInv ==
    /\ Typed
    /\ Ordered
    /\ Relaxed
    /\ Explained
    /\ pc \in {"walk", "done"} => pq = {}
    /\ pc = "ask" => pq = {}

LEMMA InitSearchInv == Init => SearchInv
<1> SUFFICES ASSUME Init PROVE SearchInv
  OBVIOUS
<1>1. Typed
  BY InitTyped
<1>2. graph.nodes = {} /\ pq = {}
  BY DEF Init, NoGraph
<1> QED BY <1>1, <1>2 DEF SearchInv, Ordered, Relaxed, Explained

\* The node taken next keeps its distance, and so does every node taken
\* before: a road from it leads no closer.
LEMMA VisitKeepsSettled ==
    ASSUME SearchInv, NEW n \in graph.nodes, Visit(n)
    PROVE  /\ n \in pq
           /\ \A m \in (graph.nodes \ pq) \cup {n} :
                 ~Shortens(n, m) /\ distances'[m] = distances[m] /\ prev'[m] = prev[m]
<1>1. n \in pq /\ \A m \in pq : ~Less(distances[m], distances[n])
  BY DEF Visit, Closest
<1>2. ASSUME NEW m \in (graph.nodes \ pq) \cup {n}, Shortens(n, m)
      PROVE  FALSE
  <2>1. m \in Neighbors(n) /\ Less(Alt(n, m), distances[m])
    BY <1>2 DEF Shortens
  <2>2. m \in graph.nodes
    BY <1>2
  <2>3. Length(n, m) \in Nat
    BY <2>1, <2>2 DEF SearchInv, Typed, GraphOK
  <2>4. distances[n] \in Distance /\ distances[m] \in Distance
    BY <2>2 DEF SearchInv, Typed, TypeOK
  <2>5. ~Less(distances[n], distances[m])
    BY <1>1, <1>2, <2>4, RoutingAssumption DEF SearchInv, Ordered, Less, Distance
  <2> QED BY <2>1, <2>3, <2>4, <2>5, RoutingAssumption DEF Alt, Plus, Less, Distance
<1>3. \A m \in (graph.nodes \ pq) \cup {n} :
          distances'[m] = distances[m] /\ prev'[m] = prev[m]
  BY <1>2 DEF Visit
<1> QED BY <1>1, <1>2, <1>3

\* A turn of the loop keeps the invariant of the search.
LEMMA VisitSearchInv ==
    ASSUME SearchInv, NEW n \in graph.nodes, Visit(n) PROVE SearchInv'
<1> DEFINE settled == (graph.nodes \ pq) \cup {n}
<1>1. /\ n \in pq
      /\ \A m \in settled :
            ~Shortens(n, m) /\ distances'[m] = distances[m] /\ prev'[m] = prev[m]
  BY VisitKeepsSettled
<1>2. Typed'
  BY NextTyped DEF SearchInv, Next
<1>3. /\ graph' = graph /\ start' = start /\ pc' = "search"
      /\ pq' = pq \ {n}
      /\ graph.nodes \ pq' = settled
  BY <1>1 DEF Visit, Rest
<1>4. /\ \A m \in graph.nodes : distances[m] \in Distance
      /\ \A m \in graph.nodes : distances'[m] \in Distance
  BY <1>2, <1>3 DEF SearchInv, Typed, TypeOK
<1>5. \A m \in graph.nodes :
          /\ distances'[m] = IF Shortens(n, m) THEN Alt(n, m) ELSE distances[m]
          /\ prev'[m] = IF Shortens(n, m) THEN n ELSE prev[m]
  BY DEF Visit
<1>6. \A a, m \in graph.nodes :
          /\ (m \in Neighbors(a))' <=> m \in Neighbors(a)
          /\ Length(a, m)' = Length(a, m)
          /\ m \in Neighbors(a) => Length(a, m) \in Nat
  BY <1>3 DEF SearchInv, Typed, GraphOK, Neighbors, Length
<1>7. \A a \in settled : \A m \in graph.nodes : Alt(a, m)' = Alt(a, m)
  <2> SUFFICES ASSUME NEW a \in settled, NEW m \in graph.nodes
               PROVE  Plus(distances'[a], Length(a, m)') = Plus(distances[a], Length(a, m))
    BY DEF Alt
  <2> QED BY <1>1, <1>6
<1>8. \A m \in graph.nodes : ~Less(distances[m], distances'[m])
  BY <1>4, <1>5, RoutingAssumption DEF Shortens, Less, Distance
<1>9. Ordered'
  <2> SUFFICES ASSUME NEW a \in settled, NEW m \in pq \ {n}
               PROVE  ~Less(distances'[m], distances'[a])
    BY <1>3 DEF Ordered
  <2>1. m \in graph.nodes /\ a \in graph.nodes
    BY DEF SearchInv, Typed, TypeOK
  <2>2. ~Less(distances[m], distances[n]) /\ ~Less(distances[m], distances[a])
    BY <1>1 DEF SearchInv, Ordered, Visit, Closest
  <2>3. ~Less(distances[n], distances[a])
    BY <1>1, <1>4, <2>1, RoutingAssumption DEF SearchInv, Ordered, Less, Distance
  <2>4. CASE Shortens(n, m)
    <3>1. Length(n, m) \in Nat
      BY <2>4, <2>1, <1>6 DEF Shortens
    <3>2. ~Less(Alt(n, m), distances[n])
      BY <3>1, <1>4, RoutingAssumption DEF Alt, Plus, Less, Distance
    <3>3. Alt(n, m) \in Distance
      BY <3>1, <1>4, RoutingAssumption DEF Alt, Plus, Distance
    <3>4. ~Less(Alt(n, m), distances[a])
      BY <3>2, <3>3, <2>3, <2>1, <1>4, RoutingAssumption DEF Less, Distance
    <3> QED BY <3>4, <2>4, <2>1, <1>1, <1>5
  <2>5. CASE ~Shortens(n, m)
    BY <2>5, <2>1, <2>2, <1>1, <1>5
  <2> QED BY <2>4, <2>5
<1>10. Relaxed'
  <2> SUFFICES ASSUME NEW a \in settled, NEW m \in graph.nodes, m \in Neighbors(a)
               PROVE  ~Less(Alt(a, m), distances'[m])
    BY <1>3, <1>6, <1>7 DEF Relaxed, Neighbors
  <2>0. a \in graph.nodes
    BY DEF SearchInv, Typed, TypeOK
  <2>1. Length(a, m) \in Nat /\ distances[a] \in Distance
    BY <1>4, <1>6, <2>0
  <2>2. Alt(a, m) \in Distance
    BY <2>1, RoutingAssumption DEF Alt, Plus, Distance
  <2>3. CASE a = n
    BY <2>2, <2>3, <1>4, <1>5, RoutingAssumption DEF Shortens, Less, Distance
  <2>4. CASE a # n
    <3>1. ~Less(Alt(a, m), distances[m])
      BY <2>4 DEF SearchInv, Relaxed
    <3> QED BY <3>1, <2>2, <1>4, <1>8, RoutingAssumption DEF Less, Distance
  <2> QED BY <2>3, <2>4
<1>11. Explained'
  <2> SUFFICES ASSUME NEW m \in graph.nodes
               PROVE  /\ m = start => distances'[m] = 0 /\ prev'[m] = None
                      /\ prev'[m] # None =>
                            /\ prev'[m] \in settled
                            /\ m \in Neighbors(prev'[m])
                            /\ distances'[m] = Alt(prev'[m], m)
                      /\ prev'[m] = None => m = start \/ distances'[m] = Infinity
    <3>1. prev' \in [graph.nodes -> graph.nodes \cup {None}]
      BY <1>2, <1>3 DEF Typed, TypeOK
    <3>2. ASSUME NEW a \in settled, NEW b \in graph.nodes, b \in Neighbors(a)
          PROVE  (b \in Neighbors(a))' /\ Alt(a, b)' = Alt(a, b)
      <4>1. a \in graph.nodes
        BY DEF SearchInv, Typed, TypeOK
      <4> QED BY <4>1, <3>2, <1>6, <1>7
    <3>3. ASSUME NEW b \in graph.nodes
          PROVE  (/\ b = start => distances[b] = 0 /\ prev[b] = None
                  /\ prev[b] # None =>
                        /\ prev[b] \in graph.nodes \ pq
                        /\ b \in Neighbors(prev[b])
                        /\ distances[b] = Alt(prev[b], b)
                  /\ prev[b] = None => b = start \/ distances[b] = Infinity)'
      <4>1. PICK a : a = prev'[b]
        OBVIOUS
      <4>2. CASE a = None
        BY <4>1, <4>2, <1>3
      <4>3. CASE a # None
        <5>1. a \in settled /\ b \in Neighbors(a) /\ distances'[b] = Alt(a, b)
          BY <4>1, <4>3
        <5>2. (b \in Neighbors(a))' /\ Alt(a, b)' = Alt(a, b)
          BY <5>1, <3>2
        <5>3. b = start => distances'[b] = 0 /\ prev'[b] = None
          OBVIOUS
        <5>4. b \in Neighbors(prev[b])' /\ Alt(prev[b], b)' = Alt(a, b)'
          BY <5>2, <4>1 DEF Neighbors, Alt, Length
        <5> QED BY <5>1, <5>2, <5>3, <5>4, <4>1, <4>3, <1>3
      <4> QED BY <4>2, <4>3
    <3> QED BY <3>3, <1>3 DEF Explained
  <2>1. CASE Shortens(n, m)
    <3>1. distances'[m] = Alt(n, m) /\ prev'[m] = n /\ m \in Neighbors(n)
      BY <2>1, <1>5 DEF Shortens
    <3>2. m # start
      <4>1. Length(n, m) \in Nat
        BY <3>1, <1>6
      <4>2. m = start => distances[m] = 0
        BY DEF SearchInv, Explained
      <4> QED BY <4>1, <4>2, <2>1, <1>4, RoutingAssumption DEF Shortens, Alt, Plus, Less, Distance
    <3>3. n # None
      BY RoutingAssumption DEF SearchInv, Typed, TypeOK
    <3> QED BY <3>1, <3>2, <3>3
  <2>2. CASE ~Shortens(n, m)
    <3>1. distances'[m] = distances[m] /\ prev'[m] = prev[m]
      BY <2>2, <1>5
    <3> QED BY <3>1 DEF SearchInv, Explained
  <2> QED BY <2>1, <2>2
<1> QED BY <1>2, <1>3, <1>9, <1>10, <1>11 DEF SearchInv

LEMMA NextSearchInv == SearchInv /\ [Next]_vars => SearchInv'
<1> SUFFICES ASSUME SearchInv, [Next]_vars PROVE SearchInv'
  OBVIOUS
<1>t. Typed'
  BY NextTyped DEF SearchInv
<1>1. CASE RoadsFound
  <2>1. PICK nodes \in SUBSET Ids \ {{}}, ways \in SUBSET Ways :
            /\ graph' \in Graphs(nodes, ways)
            /\ distances' = [n \in nodes |-> IF n = start' THEN 0 ELSE Infinity]
            /\ prev' = [n \in nodes |-> None]
            /\ pq' = nodes
    BY <1>1 DEF RoadsFound
  <2>2. graph'.nodes = nodes /\ pc' = "search"
    BY <1>1, <2>1, GraphsAreOK DEF RoadsFound
  <2>3. Ordered' /\ Relaxed'
    BY <2>1, <2>2 DEF Ordered, Relaxed
  <2>4. Explained'
    BY <2>1, <2>2 DEF Explained
  <2> QED BY <1>t, <2>2, <2>3, <2>4 DEF SearchInv
<1>2. ASSUME UNCHANGED <<graph, start, distances, prev, pq>>,
             pc' \in {"walk", "done"} => pq = {},
             pc' # "ask"
      PROVE  SearchInv'
  <2>1. Ordered' /\ Relaxed' /\ Explained'
    BY <1>2 DEF SearchInv, Ordered, Relaxed, Explained, Alt, Neighbors, Length
  <2> QED BY <1>t, <1>2, <2>1 DEF SearchInv
<1>3. CASE NoRoads
  BY <1>3, <1>2 DEF NoRoads, SearchInv
<1>4. ASSUME NEW n \in graph.nodes, Visit(n) PROVE SearchInv'
  BY <1>4, VisitSearchInv
<1>5. CASE SearchEnds
  BY <1>5, <1>2 DEF SearchEnds, SearchInv
<1>6. CASE WalkBack
  BY <1>6, <1>2 DEF WalkBack, SearchInv
<1>7. CASE WalkEnds
  BY <1>7, <1>2 DEF WalkEnds, SearchInv
<1>8. CASE UNCHANGED vars
  <2>1. Ordered' /\ Relaxed' /\ Explained'
    BY <1>8 DEF vars, SearchInv, Ordered, Relaxed, Explained, Alt, Neighbors, Length
  <2> QED BY <1>t, <1>8, <2>1 DEF SearchInv, vars
<1> QED BY <1>1, <1>3, <1>4, <1>5, <1>6, <1>7, <1>8 DEF Next

LEMMA SearchInvHolds == Spec => []SearchInv
BY InitSearchInv, NextSearchInv, PTL DEF Spec

\* dijkstra: when the search ends no road shortens a distance, and every
\* distance is explained by prev: the certificate of shortest distances.
THEOREM SearchIsCertified == Spec => []Certificate
<1>1. SearchInv => Certificate
  <2> SUFFICES ASSUME SearchInv, pc \in {"walk", "done"}, NEW n \in graph.nodes
               PROVE  /\ n = start => distances[n] = 0
                      /\ \A m \in Neighbors(n) :
                            ~Less(Plus(distances[n], Length(n, m)), distances[m])
                      /\ prev[n] # None =>
                            /\ n \in Neighbors(prev[n])
                            /\ distances[n] = Plus(distances[prev[n]], Length(prev[n], n))
                      /\ prev[n] = None => n = start \/ distances[n] = Infinity
    BY DEF Certificate
  <2> QED BY DEF SearchInv, Relaxed, Explained, Alt
<1> QED BY <1>1, SearchInvHolds, PTL

\* dijkstra: a node deleted from pq keeps its distance and its prev.
THEOREM SettledNodesAreFinal == Spec => SettledNodesKeepTheirDistance
<1>1. SearchInv /\ [Next]_vars =>
          [\A n \in graph.nodes \ pq :
              distances'[n] = distances[n] /\ prev'[n] = prev[n]]_<<distances, prev, pq>>
  <2> SUFFICES ASSUME SearchInv, [Next]_vars, <<distances, prev, pq>>' # <<distances, prev, pq>>,
                      NEW n \in graph.nodes \ pq
               PROVE  distances'[n] = distances[n] /\ prev'[n] = prev[n]
    OBVIOUS
  <2>1. CASE RoadsFound
    BY <2>1 DEF RoadsFound, SearchInv, Typed
  <2>2. ASSUME NEW m \in graph.nodes, Visit(m)
        PROVE  distances'[n] = distances[n] /\ prev'[n] = prev[n]
    BY <2>2, VisitKeepsSettled
  <2> QED BY <2>1, <2>2 DEF Next, NoRoads, SearchEnds, WalkBack, WalkEnds, vars
<1> QED BY <1>1, SearchInvHolds, PTL DEF Spec, SettledNodesKeepTheirDistance

----------------------------------------------------------------------------
(* The distances are the shortest.  The length of a shortest way from the  *)
(* start is the greatest function that is 0 there and that no road         *)
(* exceeds; by Certificate the distances found are such a function, and no *)
(* other is greater.                                                       *)

\* D is 0 at the start and grows along a road by its length at most.
Feasible(D) ==
    /\ D \in [graph.nodes -> Nat]
    /\ D[start] = 0
    /\ \A n \in graph.nodes : \A m \in Neighbors(n) : D[m] <= D[n] + Length(n, m)

NothingShorter ==
    graph.nodes # {} =>
        \A D : Feasible(D) =>
            \A n \in graph.nodes : distances[n] # Infinity => D[n] <= distances[n]

LEMMA VisitNothingShorter ==
    ASSUME SearchInv, NothingShorter, NEW v \in graph.nodes, Visit(v)
    PROVE  NothingShorter'
<1>1. graph' = graph /\ start' = start
  BY DEF Visit
<1> SUFFICES ASSUME NEW D, Feasible(D), NEW n \in graph.nodes, distances'[n] # Infinity
             PROVE  D[n] <= distances'[n]
  BY <1>1 DEF NothingShorter, Feasible, Neighbors, Length
<1>2. distances'[n] = IF Shortens(v, n) THEN Alt(v, n) ELSE distances[n]
  BY DEF Visit
<1>3. \A m \in graph.nodes : distances[m] # Infinity => D[m] <= distances[m]
  BY DEF NothingShorter
<1>4. CASE Shortens(v, n)
  <2>1. n \in Neighbors(v) /\ Length(v, n) \in Nat
    BY <1>4 DEF Shortens, SearchInv, Typed, GraphOK
  <2>2. distances[v] \in Nat /\ distances'[n] = distances[v] + Length(v, n)
    BY <1>2, <1>4 DEF Shortens, Alt, Plus, Less, SearchInv, Typed, TypeOK, Distance
  <2>3. D[v] <= distances[v] /\ D[n] <= D[v] + Length(v, n) /\ D[v] \in Nat /\ D[n] \in Nat
    BY <1>3, <2>1, <2>2, RoutingAssumption DEF Feasible
  <2> QED BY <2>1, <2>2, <2>3
<1>5. CASE ~Shortens(v, n)
  BY <1>2, <1>3, <1>5
<1> QED BY <1>4, <1>5

\* dijkstra: no distance is longer than need be.  A function that is 0 at
\* the start and grows along a road by its length at most, such as the
\* length of the shortest way, is nowhere below a distance found.
THEOREM DistancesAreShortest == Spec => []NothingShorter
<1>1. Init => NothingShorter
  BY DEF Init, NoGraph, NothingShorter
<1>2. SearchInv /\ NothingShorter /\ [Next]_vars => NothingShorter'
  <2> SUFFICES ASSUME SearchInv, NothingShorter, [Next]_vars PROVE NothingShorter'
    OBVIOUS
  <2>1. CASE RoadsFound
    <3>1. PICK nodes \in SUBSET Ids \ {{}}, ways \in SUBSET Ways :
              /\ graph' \in Graphs(nodes, ways)
              /\ distances' = [n \in nodes |-> IF n = start' THEN 0 ELSE Infinity]
      BY <2>1 DEF RoadsFound
    <3>2. graph'.nodes = nodes
      BY <3>1, GraphsAreOK
    <3> QED BY <3>1, <3>2 DEF NothingShorter, Feasible
  <2>2. ASSUME NEW v \in graph.nodes, Visit(v) PROVE NothingShorter'
    BY <2>2, VisitNothingShorter
  <2>3. CASE UNCHANGED <<graph, start, distances>>
    BY <2>3 DEF NothingShorter, Feasible, Neighbors, Length
  <2> QED BY <2>1, <2>2, <2>3 DEF Next, NoRoads, SearchEnds, WalkBack, WalkEnds, vars
<1> QED BY <1>1, <1>2, SearchInvHolds, PTL DEF Spec

----------------------------------------------------------------------------
(* The way back *)

\* prev leads from a node to one taken from pq before it.
Precedes(rank, k) ==
    /\ \A n \in pq : rank[n] = k
    /\ \A n \in graph.nodes \ pq : rank[n] < k
    /\ \A n \in graph.nodes : prev[n] # None => rank[prev[n]] < rank[n]

\* The nodes of the path were taken from pq in that order, the next one
\* before them.
Ascends(rank) ==
    /\ \A i, j \in 1 .. Len(path) : i < j => rank[path[i]] < rank[path[j]]
    /\ u # None => \A i \in 1 .. Len(path) : rank[u] < rank[path[i]]

LoopInv ==
    \E rank \in [graph.nodes -> Nat], k \in Nat : Precedes(rank, k) /\ Ascends(rank)

LEMMA VisitLoopInv ==
    ASSUME SearchInv, LoopInv, NEW v \in graph.nodes, Visit(v) PROVE LoopInv'
<1>1. PICK rank \in [graph.nodes -> Nat], k \in Nat : Precedes(rank, k) /\ Ascends(rank)
  BY DEF LoopInv
<1>2. /\ v \in pq
      /\ \A m \in (graph.nodes \ pq) \cup {v} : ~Shortens(v, m) /\ prev'[m] = prev[m]
  BY VisitKeepsSettled
<1>3. /\ graph' = graph /\ path' = path /\ u' = u /\ path = <<>> /\ u = None
      /\ pq' = pq \ {v} /\ pq \subseteq graph.nodes
      /\ \A m \in graph.nodes : prev'[m] = IF Shortens(v, m) THEN v ELSE prev[m]
  BY DEF Visit, Rest, SearchInv, Typed, TypeOK
<1> DEFINE next == [m \in graph.nodes |-> IF m \in pq \ {v} THEN k + 1 ELSE rank[m]]
<1>4. next \in [graph.nodes -> Nat] /\ k + 1 \in Nat
  OBVIOUS
<1>5. (\A n \in pq \ {v} : next[n] = k + 1)
      /\ (\A n \in graph.nodes \ (pq \ {v}) : next[n] < k + 1)
  BY <1>1, <1>2, <1>3 DEF Precedes
<1>6. ASSUME NEW m \in graph.nodes, prev'[m] # None
      PROVE  next[prev'[m]] < next[m]
  <2>1. CASE Shortens(v, m)
    <3>1. m \in pq \ {v} /\ prev'[m] = v
      BY <2>1, <1>2, <1>3
    <3> QED BY <3>1, <1>1, <1>2, <1>3 DEF Precedes
  <2>2. CASE ~Shortens(v, m)
    <3>1. prev'[m] = prev[m] /\ prev[m] \in graph.nodes \ pq
      BY <2>2, <1>3, <1>6 DEF SearchInv, Explained
    <3>2. next[prev[m]] = rank[prev[m]] /\ rank[prev[m]] < rank[m] /\ rank[prev[m]] < k
      BY <3>1, <1>1, <1>6 DEF Precedes
    <3> QED BY <3>1, <3>2, <1>1 DEF Precedes
  <2> QED BY <2>1, <2>2
<1>7. Precedes(next, k + 1)'
  BY <1>3, <1>5, <1>6 DEF Precedes
<1>8. Ascends(next)'
  BY <1>3 DEF Ascends
<1> QED BY <1>3, <1>4, <1>7, <1>8 DEF LoopInv

LEMMA WalkBackLoopInv ==
    ASSUME SearchInv, LoopInv, WalkBack PROVE LoopInv'
<1>1. PICK rank \in [graph.nodes -> Nat], k \in Nat : Precedes(rank, k) /\ Ascends(rank)
  BY DEF LoopInv
<1>2. /\ UNCHANGED <<graph, prev, pq>>
      /\ u \in graph.nodes /\ u # None
      /\ path \in Seq(graph.nodes)
      /\ path' = <<u>> \o path /\ u' = prev[u]
  BY DEF WalkBack, SearchInv, Typed, TypeOK
<1>3. /\ Len(path') = Len(path) + 1
      /\ path'[1] = u
      /\ \A i \in 2 .. Len(path') : path'[i] = path[i - 1]
  BY <1>2, Prepended, LenProperties
<1>4. \A i \in 1 .. Len(path) : path[i] \in graph.nodes /\ rank[path[i]] \in Nat
  BY <1>2, ElementOfSeq
<1>5. Len(path) \in Nat /\ rank[u] \in Nat
  BY <1>2, LenProperties
<1>6. \A i, j \in 1 .. Len(path') : i < j => rank[path'[i]] < rank[path'[j]]
  <2> SUFFICES ASSUME NEW i \in 1 .. Len(path'), NEW j \in 1 .. Len(path'), i < j
               PROVE  rank[path'[i]] < rank[path'[j]]
    OBVIOUS
  <2>1. j \in 2 .. Len(path') /\ j - 1 \in 1 .. Len(path) /\ path'[j] = path[j - 1]
    BY <1>3, <1>5
  <2>2. CASE i = 1
    BY <2>1, <2>2, <1>1, <1>2, <1>3 DEF Ascends
  <2>3. CASE i # 1
    <3>1. i - 1 \in 1 .. Len(path) /\ path'[i] = path[i - 1] /\ i - 1 < j - 1
      BY <2>1, <2>3, <1>3, <1>5
    <3> QED BY <3>1, <2>1, <1>1 DEF Ascends
  <2> QED BY <2>2, <2>3
<1>7. ASSUME prev[u] # None, NEW i \in 1 .. Len(path')
      PROVE  rank[prev[u]] < rank[path'[i]]
  <2>1. rank[prev[u]] < rank[u] /\ prev[u] \in graph.nodes /\ rank[prev[u]] \in Nat
    BY <1>1, <1>2, <1>7 DEF Precedes, SearchInv, Explained
  <2>2. CASE i = 1
    BY <2>1, <2>2, <1>3
  <2>3. CASE i # 1
    <3>1. i - 1 \in 1 .. Len(path) /\ path'[i] = path[i - 1]
      BY <2>3, <1>3, <1>5
    <3>2. rank[u] < rank[path[i - 1]]
      BY <3>1, <1>1, <1>2 DEF Ascends
    <3> QED BY <3>1, <3>2, <2>1, <1>4, <1>5
  <2> QED BY <2>2, <2>3
<1>8. Ascends(rank)'
  BY <1>2, <1>6, <1>7 DEF Ascends
<1>9. Precedes(rank, k)'
  BY <1>1, <1>2 DEF Precedes
<1> QED BY <1>1, <1>2, <1>8, <1>9 DEF LoopInv

\* dijkstra: the walk back along prev comes to no node twice, so that the
\* path it builds is finite.
THEOREM PathHasNoLoop == Spec => []NoLoopInPath
<1>1. Init => LoopInv
  <2> SUFFICES ASSUME Init PROVE LoopInv
    OBVIOUS
  <2>1. graph.nodes = {} /\ pq = {} /\ path = <<>> /\ u = None
    BY DEF Init, NoGraph
  <2>2. [n \in {} |-> 0] \in [graph.nodes -> Nat]
    BY <2>1
  <2>3. Precedes([n \in {} |-> 0], 0) /\ Ascends([n \in {} |-> 0])
    BY <2>1 DEF Precedes, Ascends
  <2> QED BY <2>2, <2>3 DEF LoopInv
<1>2. SearchInv /\ LoopInv /\ [Next]_vars => LoopInv'
  <2> SUFFICES ASSUME SearchInv, LoopInv, [Next]_vars PROVE LoopInv'
    OBVIOUS
  <2>1. CASE RoadsFound
    <3>1. PICK nodes \in SUBSET Ids \ {{}}, ways \in SUBSET Ways :
              /\ graph' \in Graphs(nodes, ways)
              /\ prev' = [n \in nodes |-> None]
              /\ pq' = nodes
      BY <2>1 DEF RoadsFound
    <3>2. graph'.nodes = nodes /\ path' = <<>> /\ u' = None
      BY <2>1, <3>1, GraphsAreOK DEF RoadsFound, SearchInv, Typed
    <3> DEFINE rank == [n \in nodes |-> 0]
    <3>3. rank \in [graph'.nodes -> Nat]
      BY <3>2
    <3>4. Precedes(rank, 0)' /\ Ascends(rank)'
      BY <3>1, <3>2 DEF Precedes, Ascends
    <3> QED BY <3>3, <3>4 DEF LoopInv
  <2>2. ASSUME NEW v \in graph.nodes, Visit(v) PROVE LoopInv'
    BY <2>2, VisitLoopInv
  <2>3. CASE SearchEnds
    <3>1. PICK rank \in [graph.nodes -> Nat], k \in Nat : Precedes(rank, k) /\ Ascends(rank)
      BY DEF LoopInv
    <3>2. Precedes(rank, k)' /\ graph' = graph
      BY <2>3, <3>1 DEF SearchEnds, Precedes
    <3>3. Ascends(rank)'
      BY <2>3 DEF SearchEnds, SearchInv, Typed, Ascends
    <3> QED BY <3>2, <3>3 DEF LoopInv
  <2>4. CASE WalkBack
    BY <2>4, WalkBackLoopInv
  <2>5. CASE UNCHANGED <<graph, prev, pq, path, u>>
    BY <2>5 DEF LoopInv, Precedes, Ascends
  <2> QED BY <2>1, <2>2, <2>3, <2>4, <2>5 DEF Next, NoRoads, WalkEnds, vars
<1>3. SearchInv /\ LoopInv => NoLoopInPath
  <2> SUFFICES ASSUME SearchInv, LoopInv PROVE NoLoopInPath
    OBVIOUS
  <2>1. PICK rank \in [graph.nodes -> Nat], k \in Nat : Precedes(rank, k) /\ Ascends(rank)
    BY DEF LoopInv
  <2>2. path \in Seq(graph.nodes)
    BY DEF SearchInv, Typed, TypeOK
  <2>3. /\ DOMAIN path = 1 .. Len(path) /\ Len(path) \in Nat
        /\ \A i \in 1 .. Len(path) : path[i] \in graph.nodes
    BY <2>2, LenProperties, ElementOfSeq
  <2>4. \A i, j \in 1 .. Len(path) : path[i] = path[j] => i = j
    <3> SUFFICES ASSUME NEW i \in 1 .. Len(path), NEW j \in 1 .. Len(path),
                        path[i] = path[j], i # j
                 PROVE  FALSE
      OBVIOUS
    <3>1. rank[path[i]] \in Nat /\ (i < j \/ j < i)
      BY <2>3
    <3> QED BY <3>1, <2>1 DEF Ascends
  <2>5. ASSUME NEW i \in 1 .. Len(path), path[i] = u PROVE FALSE
    <3>1. u # None /\ rank[u] \in Nat
      BY <2>3, <2>5, RoutingAssumption DEF SearchInv, Typed, TypeOK
    <3> QED BY <3>1, <2>1, <2>5 DEF Ascends
  <2> QED BY <2>3, <2>4, <2>5 DEF NoLoopInPath
<1> QED BY <1>1, <1>2, <1>3, SearchInvHolds, PTL DEF Spec

----------------------------------------------------------------------------
(* The length of a path *)

\* What has been added up to each node of p.
Totals(p) == CHOOSE total : total = [i \in 0 .. Len(p) |->
                 IF i <= 1 THEN 0 ELSE total[i - 1] + Length(p[i - 1], p[i])]

LEMMA TotalsDef ==
    ASSUME NEW p PROVE TotalDistance(p) = Totals(p)[Len(p)]
BY DEF TotalDistance, Totals

\* The totals of a path are there, whatever its length.
LEMMA TotalsExist ==
    ASSUME NEW p, Len(p) \in Nat
    PROVE  Totals(p) = [i \in 0 .. Len(p) |->
               IF i <= 1 THEN 0 ELSE Totals(p)[i - 1] + Length(p[i - 1], p[i])]
<1> DEFINE step(t, i) == IF i <= 1 THEN 0 ELSE t[i - 1] + Length(p[i - 1], p[i])
           upto(k) == \E t : t = [i \in 0 .. k |-> step(t, i)]
<1>1. upto(0)
  <2>1. [i \in 0 .. 0 |-> 0] = [i \in 0 .. 0 |-> step([j \in 0 .. 0 |-> 0], i)]
    OBVIOUS
  <2> QED BY <2>1
<1>2. ASSUME NEW k \in Nat, upto(k) PROVE upto(k + 1)
  <2>1. PICK t : t = [i \in 0 .. k |-> step(t, i)]
    BY <1>2
  <2> DEFINE s == [i \in 0 .. k + 1 |-> step(t, i)]
  <2>2. \A i \in 0 .. k : s[i] = t[i]
    BY <2>1
  <2>3. \A i \in 0 .. k + 1 : step(t, i) = step(s, i)
    <3> SUFFICES ASSUME NEW i \in 0 .. k + 1, i > 1 PROVE t[i - 1] = s[i - 1]
      OBVIOUS
    <3>1. i - 1 \in 0 .. k
      OBVIOUS
    <3> HIDE DEF s
    <3> QED BY <3>1, <2>2
  <2>4. s = [i \in 0 .. k + 1 |-> step(s, i)]
    <3> HIDE DEF step
    <3> QED BY <2>3
  <2> QED BY <2>4
<1>3. \A k \in Nat : upto(k)
  <2> DEFINE good == {k \in Nat : upto(k)}
  <2> HIDE DEF upto
  <2>1. good \in SUBSET Nat /\ 0 \in good /\ \A k \in good : k + 1 \in good
    BY <1>1, <1>2
  <2>2. Nat \subseteq good
    <3> HIDE DEF good
    <3> QED BY <2>1, InductionOnNat
  <2> QED BY <2>2
<1>4. \E t : t = [i \in 0 .. Len(p) |-> step(t, i)]
  BY <1>3
<1> DEFINE is(t) == t = [i \in 0 .. Len(p) |-> step(t, i)]
<1>5. is(CHOOSE t : is(t))
  <2>1. \E t : is(t)
    BY <1>4
  <2> HIDE DEF is
  <2> QED BY <2>1
<1> QED BY <1>5, Zenon DEF Totals

\* A path over roads of the graph adds up node by node.
LEMMA TotalsStep ==
    ASSUME SearchInv, NEW p \in Seq(graph.nodes),
           \A i \in 1 .. Len(p) - 1 : p[i + 1] \in Neighbors(p[i])
    PROVE  /\ Len(p) >= 1 => Totals(p)[1] = 0
           /\ \A i \in 1 .. Len(p) - 1 :
                 /\ Totals(p)[i + 1] = Totals(p)[i] + Length(p[i], p[i + 1])
                 /\ Length(p[i], p[i + 1]) \in Nat
                 /\ p[i] \in graph.nodes /\ p[i + 1] \in graph.nodes
           /\ TotalDistance(p) = Totals(p)[Len(p)]
<1>1. Len(p) \in Nat
  BY LenProperties
<1>2. Totals(p) = [i \in 0 .. Len(p) |->
          IF i <= 1 THEN 0 ELSE Totals(p)[i - 1] + Length(p[i - 1], p[i])]
  BY <1>1, TotalsExist
<1> DEFINE t == Totals(p)
<1>3. \A i \in 0 .. Len(p) : t[i] = IF i <= 1 THEN 0 ELSE t[i - 1] + Length(p[i - 1], p[i])
  <2> HIDE DEF t
  <2> QED BY <1>2 DEF t
<1> HIDE DEF t
<1>4. ASSUME NEW i \in 1 .. Len(p) - 1
      PROVE  /\ t[i + 1] = t[i] + Length(p[i], p[i + 1])
             /\ Length(p[i], p[i + 1]) \in Nat
             /\ p[i] \in graph.nodes /\ p[i + 1] \in graph.nodes
  <2>1. i + 1 \in 0 .. Len(p) /\ i + 1 > 1 /\ (i + 1) - 1 = i
    BY <1>1
  <2>2. t[i + 1] = t[i] + Length(p[i], p[i + 1])
    BY <2>1, <1>3
  <2>3. p[i] \in graph.nodes /\ p[i + 1] \in graph.nodes
    BY <1>1, ElementOfSeq
  <2> QED BY <2>2, <2>3 DEF SearchInv, Typed, GraphOK
<1>5. Len(p) >= 1 => t[1] = 0
  BY <1>1, <1>3
<1> QED BY <1>4, <1>5, TotalsDef DEF t

\* Along a way the distances found grow no faster than the way.
LEMMA NoWayIsShorter ==
    ASSUME SearchInv, pc = "done", NEW w \in Seq(graph.nodes), Len(w) >= 1,
           w[1] = start, \A i \in 1 .. Len(w) - 1 : w[i + 1] \in Neighbors(w[i])
    PROVE  /\ distances[w[Len(w)]] \in Nat
           /\ TotalDistance(w) \in Nat
           /\ distances[w[Len(w)]] <= TotalDistance(w)
<1> DEFINE t == Totals(w)
           good == {k \in Nat : k + 1 <= Len(w) =>
                       /\ distances[w[k + 1]] \in Nat
                       /\ t[k + 1] \in Nat
                       /\ distances[w[k + 1]] <= t[k + 1]}
<1>1. Len(w) \in Nat
  BY LenProperties
<1>2. /\ t[1] = 0
      /\ \A i \in 1 .. Len(w) - 1 :
            /\ t[i + 1] = t[i] + Length(w[i], w[i + 1])
            /\ Length(w[i], w[i + 1]) \in Nat
            /\ w[i] \in graph.nodes /\ w[i + 1] \in graph.nodes
      /\ TotalDistance(w) = t[Len(w)]
  BY TotalsStep
<1> HIDE DEF t
<1>3. 0 \in good
  <2>1. w[1] \in graph.nodes
    BY <1>1, ElementOfSeq
  <2>2. distances[w[1]] = 0
    BY <2>1 DEF SearchInv, Explained
  <2> QED BY <2>2, <1>2
<1>4. ASSUME NEW k \in good PROVE k + 1 \in good
  <2> DEFINE i == k + 1
  <2>1. k \in Nat /\ i \in Nat
    OBVIOUS
  <2> SUFFICES ASSUME i + 1 <= Len(w)
               PROVE  /\ distances[w[i + 1]] \in Nat
                      /\ t[i + 1] \in Nat
                      /\ distances[w[i + 1]] <= t[i + 1]
    BY <2>1
  <2>2. i \in 1 .. Len(w) - 1
    BY <2>1, <1>1
  <2>3. distances[w[i]] \in Nat /\ t[i] \in Nat /\ distances[w[i]] <= t[i]
    BY <2>2, <1>1
  <2> HIDE DEF i
  <2>4. /\ w[i] \in graph.nodes /\ w[i + 1] \in graph.nodes /\ w[i + 1] \in Neighbors(w[i])
        /\ Length(w[i], w[i + 1]) \in Nat
        /\ t[i + 1] = t[i] + Length(w[i], w[i + 1])
    BY <2>2, <1>2
  <2>5. ~Less(distances[w[i]] + Length(w[i], w[i + 1]), distances[w[i + 1]])
    <3>1. pq = {}
      BY DEF SearchInv
    <3> QED BY <3>1, <2>3, <2>4, RoutingAssumption DEF SearchInv, Relaxed, Alt, Plus
  <2>6. distances[w[i + 1]] \in Distance
    BY <2>4 DEF SearchInv, Typed, TypeOK
  <2>7. distances[w[i]] + Length(w[i], w[i + 1]) \in Nat
    BY <2>3, <2>4
  <2>8. /\ distances[w[i + 1]] \in Nat
        /\ distances[w[i + 1]] <= distances[w[i]] + Length(w[i], w[i + 1])
    BY <2>5, <2>6, <2>7, RoutingAssumption DEF Less, Distance
  <2> QED BY <2>3, <2>4, <2>8
<1>5. good \in SUBSET Nat
  OBVIOUS
<1>6. Len(w) - 1 \in good
  <2> HIDE DEF good
  <2> QED BY <1>1, <1>3, <1>4, <1>5, InductionOnNat
<1> QED BY <1>1, <1>2, <1>6

----------------------------------------------------------------------------
(* The path *)

\* What has a prev is at a distance from the start.
Reached == \A n \in graph.nodes : prev[n] # None => distances[n] # Infinity

\* The path is what prev has before it, back from the end.
Chained ==
    pc \in {"walk", "done"} /\ graph.nodes # {} =>
        /\ path = <<>> => u = end
        /\ path # <<>> =>
              /\ path[Len(path)] = end
              /\ u = prev[path[1]]
              /\ \A i \in 1 .. Len(path) - 1 : path[i] = prev[path[i + 1]]
        /\ pc = "done" => u = None

PathInv == SearchInv /\ Reached /\ Chained

LEMMA WalkBackChained == ASSUME PathInv, WalkBack PROVE Chained'
<1>1. /\ UNCHANGED <<pc, graph, end, prev>>
      /\ u \in graph.nodes
      /\ path \in Seq(graph.nodes)
      /\ path' = <<u>> \o path /\ u' = prev[u]
      /\ pc = "walk"
  BY DEF WalkBack, PathInv, SearchInv, Typed, TypeOK
<1>2. /\ Len(path') = Len(path) + 1
      /\ path'[1] = u
      /\ \A i \in 2 .. Len(path) + 1 : path'[i] = path[i - 1]
  BY <1>1, Prepended
<1>3. Len(path) \in Nat /\ (path = <<>> <=> Len(path) = 0)
  BY <1>1, LenProperties, EmptySeq
<1>4. path' # <<>>
  BY <1>2, <1>3
<1>5. CASE path = <<>>
  <2>1. u = end /\ Len(path') = 1
    BY <1>1, <1>2, <1>3, <1>5 DEF PathInv, Chained
  <2> QED BY <2>1, <1>1, <1>2, <1>4 DEF Chained
<1>6. CASE path # <<>>
  <2>1. /\ path[Len(path)] = end
        /\ u = prev[path[1]]
        /\ \A i \in 1 .. Len(path) - 1 : path[i] = prev[path[i + 1]]
    BY <1>1, <1>6 DEF PathInv, Chained
  <2>2. path'[Len(path')] = end
    BY <2>1, <1>2, <1>3, <1>6
  <2>3. ASSUME NEW i \in 1 .. Len(path') - 1 PROVE path'[i] = prev[path'[i + 1]]
    <3>1. path'[i + 1] = path[i]
      BY <1>2, <1>3
    <3>2. CASE i = 1
      BY <3>1, <3>2, <1>2, <2>1
    <3>3. CASE i # 1
      <4>1. i - 1 \in 1 .. Len(path) - 1 /\ path'[i] = path[i - 1] /\ (i - 1) + 1 = i
        BY <3>3, <1>2, <1>3
      <4> QED BY <4>1, <3>1, <2>1
    <3> QED BY <3>2, <3>3
  <2> QED BY <2>2, <2>3, <1>1, <1>2, <1>4 DEF Chained
<1> QED BY <1>5, <1>6

LEMMA VisitReached ==
    ASSUME SearchInv, Reached, NEW v \in graph.nodes, Visit(v) PROVE Reached'
<1> SUFFICES ASSUME NEW n \in graph.nodes, prev'[n] # None
             PROVE  distances'[n] # Infinity
  BY DEF Visit, Reached
<1>1. /\ distances'[n] = IF Shortens(v, n) THEN Alt(v, n) ELSE distances[n]
      /\ prev'[n] = IF Shortens(v, n) THEN v ELSE prev[n]
  BY DEF Visit
<1> QED BY <1>1 DEF Reached, Shortens, Less

LEMMA PathInvHolds == Spec => []PathInv
<1>1. Init => Reached /\ Chained
  BY DEF Init, NoGraph, Reached, Chained
<1>2. PathInv /\ [Next]_vars => Reached' /\ Chained'
  <2> SUFFICES ASSUME PathInv, [Next]_vars PROVE Reached' /\ Chained'
    OBVIOUS
  <2>1. CASE RoadsFound
    <3>1. PICK nodes \in SUBSET Ids \ {{}}, ways \in SUBSET Ways :
              graph' \in Graphs(nodes, ways) /\ prev' = [n \in nodes |-> None]
      BY <2>1 DEF RoadsFound
    <3>2. graph'.nodes = nodes /\ pc' = "search"
      BY <2>1, <3>1, GraphsAreOK DEF RoadsFound
    <3> QED BY <3>1, <3>2 DEF Reached, Chained
  <2>2. CASE NoRoads
    BY <2>2 DEF NoRoads, PathInv, SearchInv, Typed, Reached, Chained
  <2>3. ASSUME NEW v \in graph.nodes, Visit(v) PROVE Reached' /\ Chained'
    BY <2>3, VisitReached DEF PathInv, Visit, Chained
  <2>4. CASE SearchEnds
    BY <2>4 DEF SearchEnds, PathInv, SearchInv, Typed, Reached, Chained
  <2>5. CASE WalkBack
    BY <2>5, WalkBackChained DEF WalkBack, PathInv, Reached
  <2>6. CASE WalkEnds
    BY <2>6 DEF WalkEnds, PathInv, Reached, Chained
  <2>7. CASE UNCHANGED vars
    BY <2>7 DEF vars, PathInv, Reached, Chained
  <2> QED BY <2>1, <2>2, <2>3, <2>4, <2>5, <2>6, <2>7 DEF Next
<1> QED BY <1>1, <1>2, SearchInvHolds, PTL DEF Spec, PathInv

\* The path that has been walked.
LEMMA WalkedPath ==
    ASSUME PathInv, pc = "done", graph.nodes # {}
    PROVE  /\ path \in Seq(graph.nodes) /\ Len(path) \in Nat \ {0}
           /\ path[Len(path)] = end /\ prev[path[1]] = None
           /\ \A i \in 1 .. Len(path) : path[i] \in graph.nodes
           /\ \A i \in 1 .. Len(path) - 1 :
                 /\ path[i] = prev[path[i + 1]]
                 /\ path[i + 1] \in Neighbors(path[i])
                 /\ distances[path[i + 1]] = Alt(path[i], path[i + 1])
<1>1. path \in Seq(graph.nodes) /\ end \in graph.nodes /\ None \notin graph.nodes
  BY RoutingAssumption DEF PathInv, SearchInv, Typed, TypeOK
<1>2. path # <<>>
  BY <1>1 DEF PathInv, Chained
<1>3. Len(path) \in Nat \ {0} /\ \A i \in 1 .. Len(path) : path[i] \in graph.nodes
  BY <1>1, <1>2, LenProperties, EmptySeq, ElementOfSeq
<1>4. /\ path[Len(path)] = end /\ prev[path[1]] = None
      /\ \A i \in 1 .. Len(path) - 1 : path[i] = prev[path[i + 1]]
  BY <1>2 DEF PathInv, Chained
<1>5. ASSUME NEW i \in 1 .. Len(path) - 1
      PROVE  /\ path[i + 1] \in Neighbors(path[i])
             /\ distances[path[i + 1]] = Alt(path[i], path[i + 1])
  <2>1. i \in 1 .. Len(path) /\ i + 1 \in 1 .. Len(path)
    BY <1>3
  <2>2. path[i + 1] \in graph.nodes /\ prev[path[i + 1]] # None /\ prev[path[i + 1]] = path[i]
    BY <2>1, <1>1, <1>3, <1>4
  <2> QED BY <2>2 DEF PathInv, SearchInv, Explained
<1> QED BY <1>1, <1>3, <1>4, <1>5

\* Whatever the walk from a node at a distance comes to is at a distance.
LEMMA WalkFromReached ==
    ASSUME PathInv, pc = "done", graph.nodes # {}, distances[end] # Infinity
    PROVE  /\ path[1] = start
           /\ \A i \in 1 .. Len(path) : distances[path[i]] \in Nat
<1> DEFINE n == Len(path)
           good == {k \in Nat : k < n => distances[path[n - k]] # Infinity}
<1>1. /\ n \in Nat \ {0}
      /\ path[n] = end /\ prev[path[1]] = None
      /\ \A i \in 1 .. n : path[i] \in graph.nodes
      /\ \A i \in 1 .. n - 1 : distances[path[i + 1]] = Alt(path[i], path[i + 1])
  BY WalkedPath
<1> HIDE DEF n
<1>2. good \in SUBSET Nat /\ 0 \in good
  BY <1>1
<1>3. ASSUME NEW k \in good PROVE k + 1 \in good
  <2> SUFFICES ASSUME k + 1 < n PROVE distances[path[n - (k + 1)]] # Infinity
    OBVIOUS
  <2> DEFINE i == n - (k + 1)
  <2>1. i \in 1 .. n - 1 /\ i + 1 = n - k /\ k < n
    BY <1>1
  <2>2. distances[path[i + 1]] # Infinity
    BY <2>1
  <2>3. distances[path[i + 1]] = Alt(path[i], path[i + 1])
    BY <1>1, <2>1
  <2> HIDE DEF i
  <2>4. distances[path[i]] # Infinity
    BY <2>2, <2>3 DEF Alt, Plus
  <2> QED BY <2>4 DEF i
<1>4. Nat \subseteq good
  <2> HIDE DEF good
  <2> QED BY <1>2, <1>3, InductionOnNat
<1>5. ASSUME NEW i \in 1 .. n PROVE distances[path[i]] \in Nat
  <2>1. n - i \in Nat /\ n - i < n /\ n - (n - i) = i
    BY <1>1
  <2>2. distances[path[i]] # Infinity
    BY <2>1, <1>4
  <2>3. distances[path[i]] \in Distance
    BY <1>1 DEF PathInv, SearchInv, Typed, TypeOK
  <2> QED BY <2>2, <2>3 DEF Distance
<1>6. path[1] = start
  <2>1. path[1] \in graph.nodes /\ distances[path[1]] \in Nat
    BY <1>1, <1>5
  <2>2. path[1] = start \/ distances[path[1]] = Infinity
    BY <1>1, <2>1 DEF PathInv, SearchInv, Explained
  <2> QED BY <2>1, <2>2, RoutingAssumption
<1> QED BY <1>5, <1>6 DEF n

\* The path adds up to the distance found.
LEMMA PathAddsUp ==
    ASSUME PathInv, pc = "done", graph.nodes # {}, distances[end] # Infinity
    PROVE  TotalDistance(path) = distances[end] /\ distances[end] \in Nat
<1> DEFINE t == Totals(path)
           good == {k \in Nat : k < Len(path) => t[k + 1] = distances[path[k + 1]]}
<1>1. /\ path \in Seq(graph.nodes) /\ Len(path) \in Nat \ {0}
      /\ path[Len(path)] = end
      /\ \A i \in 1 .. Len(path) - 1 :
            /\ path[i + 1] \in Neighbors(path[i])
            /\ distances[path[i + 1]] = Alt(path[i], path[i + 1])
  BY WalkedPath
<1>2. path[1] = start /\ \A i \in 1 .. Len(path) : distances[path[i]] \in Nat
  BY WalkFromReached
<1>3. /\ t[1] = 0
      /\ \A i \in 1 .. Len(path) - 1 : t[i + 1] = t[i] + Length(path[i], path[i + 1])
      /\ TotalDistance(path) = t[Len(path)]
  BY <1>1, TotalsStep DEF PathInv
<1> HIDE DEF t
<1>4. good \in SUBSET Nat /\ 0 \in good
  <2>1. start \in graph.nodes /\ distances[start] = 0
    BY DEF PathInv, SearchInv, Typed, Explained
  <2> QED BY <2>1, <1>2, <1>3
<1>5. ASSUME NEW k \in good PROVE k + 1 \in good
  <2> SUFFICES ASSUME k + 1 < Len(path)
               PROVE  t[(k + 1) + 1] = distances[path[(k + 1) + 1]]
    OBVIOUS
  <2> DEFINE i == k + 1
  <2>1. i \in 1 .. Len(path) - 1 /\ i \in 1 .. Len(path) /\ t[i] = distances[path[i]]
    BY <1>1
  <2> HIDE DEF i
  <2>2. distances[path[i + 1]] = distances[path[i]] + Length(path[i], path[i + 1])
    BY <2>1, <1>1, <1>2, RoutingAssumption DEF Alt, Plus
  <2>3. t[i + 1] = distances[path[i + 1]]
    BY <2>1, <2>2, <1>3
  <2> QED BY <2>3 DEF i
<1>6. Len(path) - 1 \in good
  <2> HIDE DEF good
  <2> QED BY <1>1, <1>4, <1>5, InductionOnNat
<1> QED BY <1>1, <1>2, <1>3, <1>6

\* A way without a repeated node is no longer than there are nodes.
LEMMA SimplePathFits ==
    ASSUME NEW N, IsFiniteSet(N), NEW p \in Seq(N), Len(p) >= 1,
           \A i, j \in 1 .. Len(p) : p[i] = p[j] => i = j
    PROVE  Len(p) \in 1 .. Cardinality(N) /\ p \in [1 .. Len(p) -> N]
<1>1. Len(p) \in Nat /\ p \in [1 .. Len(p) -> N]
  BY LenProperties
<1>2. p \in Injection(1 .. Len(p), N)
  BY <1>1 DEF Injection, IsInjective
<1>3. Cardinality(1 .. Len(p)) <= Cardinality(N)
  BY <1>2, FS_Injection
<1>4. Cardinality(1 .. Len(p)) = Len(p) /\ Cardinality(N) \in Nat
  BY <1>1, FS_Interval, FS_CardinalityType
<1> QED BY <1>1, <1>3, <1>4

\* The ways of the reference, as sequences.
LEMMA SimplePathIsWay ==
    ASSUME NEW a, NEW b, NEW p \in SimplePaths(a, b), IsFiniteSet(graph.nodes)
    PROVE  /\ p \in Seq(graph.nodes) /\ Len(p) >= 1
           /\ p[1] = a /\ p[Len(p)] = b
           /\ \A i \in 1 .. Len(p) - 1 : p[i + 1] \in Neighbors(p[i])
<1>1. PICK k \in 1 .. Cardinality(graph.nodes) : p \in [1 .. k -> graph.nodes]
  BY DEF SimplePaths
<1>2. k \in Nat /\ k >= 1
  BY <1>1, FS_CardinalityType
<1>3. p \in Seq(graph.nodes) /\ Len(p) = k
  BY <1>1, <1>2
<1> QED BY <1>2, <1>3 DEF SimplePaths

\* The path a customer is shown is a shortest way from the store to him,
\* for every map the service answers with; without a way it is his node.
THEOREM PathsAreShortest == Spec => []PathIsShortest
<1>1. PathInv /\ NoLoopInPath => PathIsShortest
  <2> SUFFICES ASSUME PathInv, NoLoopInPath, pc = "done", graph.nodes # {}
               PROVE  IF SimplePaths(start, end) = {}
                      THEN path = <<end>>
                      ELSE /\ path \in SimplePaths(start, end)
                           /\ \A w \in SimplePaths(start, end) :
                                 TotalDistance(path) <= TotalDistance(w)
    BY DEF PathIsShortest
  <2>1. IsFiniteSet(graph.nodes)
    BY RoutingAssumption, FS_Subset DEF PathInv, SearchInv, Typed, TypeOK
  <2>2. ASSUME NEW w \in SimplePaths(start, end)
        PROVE  /\ distances[end] \in Nat /\ TotalDistance(w) \in Nat
               /\ distances[end] <= TotalDistance(w)
    <3>1. /\ w \in Seq(graph.nodes) /\ Len(w) >= 1
          /\ w[1] = start /\ w[Len(w)] = end
          /\ \A i \in 1 .. Len(w) - 1 : w[i + 1] \in Neighbors(w[i])
      BY <2>1, SimplePathIsWay
    <3> QED BY <3>1, NoWayIsShorter DEF PathInv
  <2>3. /\ path \in Seq(graph.nodes) /\ Len(path) \in Nat \ {0}
        /\ path[Len(path)] = end
        /\ \A i \in 1 .. Len(path) : path[i] \in graph.nodes
        /\ \A i \in 1 .. Len(path) - 1 :
              /\ path[i] = prev[path[i + 1]]
              /\ path[i + 1] \in Neighbors(path[i])
    BY WalkedPath
  <2>4. CASE distances[end] = Infinity
    <3>1. SimplePaths(start, end) = {}
      BY <2>2, <2>4, RoutingAssumption
    <3>2. prev[end] = None
      BY <2>4 DEF PathInv, SearchInv, Typed, Reached
    <3>3. Len(path) = 1
      <4> SUFFICES ASSUME Len(path) # 1 PROVE FALSE
        OBVIOUS
      <4> DEFINE n == Len(path)
      <4>0. n \in Nat \ {0} /\ n # 1
        BY <2>3
      <4> HIDE DEF n
      <4>1. n - 1 \in 1 .. n - 1 /\ n - 1 \in 1 .. n /\ (n - 1) + 1 = n
        BY <4>0
      <4>2. path[n - 1] = None /\ path[n - 1] \in graph.nodes
        BY <4>1, <2>3, <3>2 DEF n
      <4> QED BY <4>2, RoutingAssumption DEF PathInv, SearchInv, Typed, TypeOK
    <3>4. path = <<end>>
      BY <3>3, <2>3
    <3> QED BY <3>1, <3>4
  <2>5. CASE distances[end] # Infinity
    <3>1. \A i, j \in 1 .. Len(path) : path[i] = path[j] => i = j
      BY <2>3 DEF NoLoopInPath
    <3>2. Len(path) \in 1 .. Cardinality(graph.nodes) /\ path \in [1 .. Len(path) -> graph.nodes]
      BY <2>1, <2>3, <3>1, SimplePathFits
    <3>3. path[1] = start
      BY <2>5, WalkFromReached
    <3>4. path \in UNION {[1 .. k -> graph.nodes] : k \in 1 .. Cardinality(graph.nodes)}
      BY <3>2
    <3>5. path \in SimplePaths(start, end)
      BY <2>3, <3>1, <3>3, <3>4 DEF SimplePaths
    <3>6. TotalDistance(path) = distances[end]
      BY <2>5, PathAddsUp
    <3> QED BY <3>5, <3>6, <2>2
  <2> QED BY <2>4, <2>5
<1> QED BY <1>1, PathInvHolds, PathHasNoLoop, PTL

----------------------------------------------------------------------------
(* The turns of a call *)

LEMMA OneFewer ==
    ASSUME NEW S, IsFiniteSet(S), NEW x \in S
    PROVE  /\ Cardinality(S) \in Nat
           /\ Cardinality(S \ {x}) = Cardinality(S) - 1
BY FS_CardinalityType, FS_RemoveElement

\* No turn of the search or of the walk back is in vain: what is left falls
\* by one, and never below 0.
THEOREM TurnsAreBounded == Spec => [](TurnsLeft \in Nat) /\ NoTurnInVain
<1> DEFINE Walked == {path[i] : i \in DOMAIN path}
           Ahead == graph.nodes \ Walked
           Loops == CASE pc = "search" -> 2 [] pc = "walk" -> 1 [] OTHER -> 0
<1>1. ASSUME Typed
      PROVE  /\ IsFiniteSet(pq) /\ IsFiniteSet(Ahead)
             /\ Cardinality(pq) \in Nat /\ Cardinality(Ahead) \in Nat
             /\ Loops \in Nat /\ TurnsLeft = Cardinality(pq) + Cardinality(Ahead) + Loops
  <2>1. IsFiniteSet(graph.nodes) /\ pq \subseteq graph.nodes
    BY <1>1, RoutingAssumption, FS_Subset DEF Typed, TypeOK
  <2>2. IsFiniteSet(pq) /\ IsFiniteSet(Ahead)
    BY <2>1, FS_Subset
  <2> QED BY <2>2, FS_CardinalityType DEF TurnsLeft
<1>2. Typed => TurnsLeft \in Nat
  <2> HIDE DEF Walked, Ahead, Loops
  <2> QED BY <1>1
<1>3. Typed /\ NoLoopInPath /\ [Next]_vars => [pc # "ask" => TurnsLeft' = TurnsLeft - 1]_vars
  <2> SUFFICES ASSUME Typed, Typed', NoLoopInPath, Next, pc # "ask"
               PROVE  TurnsLeft' = TurnsLeft - 1
    <3>1. Typed /\ Next => Typed'
      BY NextTyped
    <3> HIDE DEF Walked, Ahead, Loops
    <3> QED BY <3>1
  <2>1. TurnsLeft = Cardinality(pq) + Cardinality(Ahead) + Loops
    BY <1>1
  <2>2. TurnsLeft' = Cardinality(pq)' + Cardinality(Ahead)' + Loops'
    BY DEF TurnsLeft
  <2>3. CASE \E n \in graph.nodes : Visit(n)
    <3>1. PICK n \in graph.nodes : Visit(n) BY <2>3
    <3>2. n \in pq /\ pq' = pq \ {n}
      BY <3>1 DEF Visit, Closest, Rest
    <3>3. Ahead' = Ahead /\ Loops' = Loops
      BY <3>1 DEF Visit
    <3> HIDE DEF Walked, Ahead, Loops
    <3> QED BY <1>1, <2>1, <2>2, <3>2, <3>3, OneFewer
  <2>4. CASE SearchEnds
    <3>1. pq' = pq /\ Ahead' = Ahead /\ Loops = 2 /\ Loops' = 1
      BY <2>4 DEF SearchEnds
    <3> HIDE DEF Walked, Ahead, Loops
    <3> QED BY <1>1, <2>1, <2>2, <3>1
  <2>5. CASE WalkBack
    <3>1. u \in graph.nodes /\ path \in Seq(graph.nodes)
      BY <2>5 DEF WalkBack, Typed, TypeOK
    <3>2. u \in Ahead
      BY <2>5, <3>1 DEF WalkBack, NoLoopInPath
    <3>3. Walked' = Walked \cup {u}
      <4>1. path' = <<u>> \o path /\ Len(path) \in Nat
        BY <2>5, <3>1, LenProperties DEF WalkBack
      <4>2. /\ Len(path') = Len(path) + 1 /\ path'[1] = u
            /\ \A i \in 2 .. Len(path) + 1 : path'[i] = path[i - 1]
        BY <3>1, <4>1, Prepended
      <4>3. DOMAIN path = 1 .. Len(path) /\ DOMAIN path' = 1 .. Len(path) + 1
        <5>1. path' \in Seq(graph.nodes)
          BY <2>5, <3>1 DEF WalkBack, Typed, TypeOK
        <5> QED BY <3>1, <5>1, <4>1, <4>2, LenProperties
      <4>4. \A i \in DOMAIN path : i + 1 \in DOMAIN path' /\ path'[i + 1] = path[i]
        BY <4>1, <4>2, <4>3
      <4>5. \A i \in DOMAIN path' : i = 1 \/ (i - 1 \in DOMAIN path /\ path'[i] = path[i - 1])
        BY <4>1, <4>2, <4>3
      <4>6. 1 \in DOMAIN path'
        BY <4>1, <4>3
      <4> QED BY <4>2, <4>4, <4>5, <4>6
    <3>4. Ahead' = Ahead \ {u}
      BY <2>5, <3>3 DEF WalkBack
    <3>5. pq' = pq /\ Loops' = Loops
      BY <2>5 DEF WalkBack
    <3> HIDE DEF Walked, Ahead, Loops
    <3> QED BY <1>1, <2>1, <2>2, <3>2, <3>4, <3>5, OneFewer
  <2>6. CASE WalkEnds
    <3>1. pq' = pq /\ Ahead' = Ahead /\ Loops = 1 /\ Loops' = 0
      BY <2>6 DEF WalkEnds
    <3> HIDE DEF Walked, Ahead, Loops
    <3> QED BY <1>1, <2>1, <2>2, <3>1
  <2> QED BY <2>3, <2>4, <2>5, <2>6 DEF Next, RoadsFound, NoRoads
<1>4. Spec => []Typed
  BY InitTyped, NextTyped, PTL DEF Spec
<1> QED BY <1>2, <1>3, <1>4, PathHasNoLoop, PTL DEF Spec, NoTurnInVain
=============================================================================
