------------------------------ MODULE MallRoute ------------------------------
(***************************************************************************)
(* The mall map and its route search (internal/mall): the adjacency map    *)
(* that NewGraph builds from the map's nodes and edges, and ShortestPath,  *)
(* Dijkstra's algorithm on a heap with outdated entries, which stops as    *)
(* soon as the target is popped.  A map is a record                        *)
(*   [nodes : set, edges : sequence of [from, to, distance, both],         *)
(*    stores : store name -> node, base : node or NoNode]                  *)
(* read from a file nobody checks, so edges and stores may name nodes that *)
(* are not there.                                                          *)
(***************************************************************************)
EXTENDS Naturals, Sequences, FiniteSets, Functions, FiniteSetsExt

NoNode == "none"
NoRoute == [path |-> <<>>, dist |-> 0]

(* An edge of the adjacency map; a later edge overwrites an earlier one.   *)
Link(adj, u, v, w) ==
    LET row == IF u \in DOMAIN adj THEN adj[u] ELSE <<>> IN
    [x \in DOMAIN adj \cup {u} |->
        IF x = u THEN [y \in DOMAIN row \cup {v} |-> IF y = v THEN w ELSE row[y]]
        ELSE adj[x]]

NewGraph(nodes, edges) ==
    LET adj[i \in 0..Len(edges)] ==
            IF i = 0 THEN [x \in nodes |-> <<>>]
            ELSE LET e == edges[i]
                     there == Link(adj[i - 1], e.from, e.to, e.distance)
                 IN IF e.both THEN Link(there, e.to, e.from, e.distance) ELSE there
    IN adj[Len(edges)]

(* A distance that no path reaches stands for +Inf.                        *)
Infinity(adj) ==
    1 + Cardinality(DOMAIN adj) * Max({0} \cup UNION {Range(adj[u]) : u \in DOMAIN adj})

(* Faulty variant: a node counts as seen once it is on the heap.           *)
RelaxFirstFound(adj, s, u) ==
    LET better == {v \in DOMAIN adj[u] \cap DOMAIN adj :
                      s.dist[v] = Infinity(adj)}
        alt(v) == s.dist[u] + adj[u][v]
    IN [s EXCEPT !.seen = @ \cup {u},
                 !.dist = [v \in DOMAIN adj |-> IF v \in better THEN alt(v) ELSE @[v]],
                 !.prev = [v \in DOMAIN adj |-> IF v \in better THEN u ELSE @[v]],
                 !.heap = @ \cup {<<alt(v), v>> : v \in better}]

(* A neighbour is updated when it is not seen and the way over u shorter.  *)
(* (A node missing from the map has distance 0 there and never is.)        *)
Relax(adj, s, u) ==
    LET alt(v) == s.dist[u] + adj[u][v]
        better == {v \in DOMAIN adj[u] \cap DOMAIN adj :
                      v \notin s.seen /\ alt(v) < s.dist[v]}
    IN [s EXCEPT !.seen = @ \cup {u},
                 !.dist = [v \in DOMAIN adj |-> IF v \in better THEN alt(v) ELSE @[v]],
                 !.prev = [v \in DOMAIN adj |-> IF v \in better THEN u ELSE @[v]],
                 !.heap = @ \cup {<<alt(v), v>> : v \in better}]

(* One round of the main loop, with any of the least entries of the heap.  *)
(* Popping the target leaves the heap empty: the loop is over.             *)
Round(adj, to, s) ==
    LET pop(e) == [s EXCEPT !.heap = @ \ {e}] IN
    IF s.heap = {} THEN {s}
    ELSE {CASE e[2] = to        -> [s EXCEPT !.heap = {}]
            [] e[2] \in s.seen  -> pop(e)
            [] OTHER            -> Relax(adj, pop(e), e[2])
            : e \in {e \in s.heap : \A f \in s.heap : e[1] <= f[1]}}

(* The path is read backwards from the target; a node has at most one      *)
(* predecessor and the start has none.                                     *)
PathsBack(prev, to) ==
    LET back[i \in 0..Cardinality(DOMAIN prev)] ==
            IF i = 0 THEN {<<to>>}
            ELSE {IF prev[Head(p)] = NoNode THEN p ELSE <<prev[Head(p)]>> \o p :
                  p \in back[i - 1]}
    IN back[Cardinality(DOMAIN prev)]

(* The possible results: entries of equal distance leave the heap in any   *)
(* order.  Every edge pushes at most one entry, so that many rounds are    *)
(* enough to empty it.                                                     *)
ShortestPath(adj, from, to) ==
    LET rounds == 1 + Cardinality(DOMAIN adj) * Cardinality(DOMAIN adj)
        start == [dist |-> [v \in DOMAIN adj |-> IF v = from THEN 0 ELSE Infinity(adj)],
                  prev |-> [v \in DOMAIN adj |-> NoNode],
                  heap |-> {<<0, from>>}, seen |-> {}]
        loop[i \in 0..rounds] ==
            IF i = 0 THEN {start} ELSE UNION {Round(adj, to, s) : s \in loop[i - 1]}
        answers(s) == IF s.dist[to] = Infinity(adj) THEN {NoRoute}
                      ELSE {[path |-> p, dist |-> s.dist[to]] : p \in PathsBack(s.prev, to)}
    IN IF ~{from, to} \subseteq DOMAIN adj THEN {NoRoute}
       ELSE IF from = to THEN {[path |-> <<from>>, dist |-> 0]}
       ELSE UNION {answers(s) : s \in loop[rounds]}

(* RoutePlanner.CalculateRoute: both ends must be nodes of the map.        *)
CalculateRoute(map, from, to) ==
    IF {from, to} \subseteq map.nodes
    THEN ShortestPath(NewGraph(map.nodes, map.edges), from, to)
    ELSE {NoRoute}

FindStoreNode(map, store) ==
    IF store \in DOMAIN map.stores /\ map.stores[store] \in map.nodes
    THEN map.stores[store] ELSE NoNode

GetBasePoint(map) == IF map.base \in map.nodes THEN map.base ELSE NoNode

-----------------------------------------------------------------------------
(* The reference: what a route is, whatever computes it. *)

(* The weight of the last edge of the map from u to v, in either reading.  *)
Weights(map, u, v) ==
    LET hits == {i \in DOMAIN map.edges :
                    LET e == map.edges[i] IN
                    (e.from = u /\ e.to = v) \/ (e.both /\ e.from = v /\ e.to = u)}
    IN IF hits = {} THEN {} ELSE {map.edges[Max(hits)].distance}

PathLengths(map, p) ==
    LET len[i \in 1..Len(p)] ==
            IF i = 1 THEN {0}
            ELSE {d + w : d \in len[i - 1], w \in Weights(map, p[i - 1], p[i])}
    IN len[Len(p)]

Places(map) == map.nodes \cup UNION {{e.from, e.to} : e \in Range(map.edges)}

(* What the search takes for granted of a map file, and the loader never   *)
(* checks: finitely many nodes, no empty identifier, no negative length.   *)
IsMap(map) ==
    /\ IsFiniteSet(map.nodes) /\ NoNode \notin Places(map)
    /\ map.edges \in Seq([from : STRING, to : STRING, distance : Nat, both : BOOLEAN])

SimplePaths(map, from, to) ==
    UNION {{p \in [1..n -> Places(map)] : IsInjective(p) /\ p[1] = from /\ p[n] = to} :
           n \in 1..Cardinality(Places(map))}

ShortestRoutes(map, from, to) ==
    LET routes == UNION {{[path |-> p, dist |-> d] : d \in PathLengths(map, p)} :
                         p \in SimplePaths(map, from, to)}
    IN IF routes = {} THEN {NoRoute}
       ELSE {r \in routes : \A s \in routes : r.dist <= s.dist}
==============================================================================
