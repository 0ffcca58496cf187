--------------------------- MODULE MCMallAssistant ---------------------------
(* Instances of MallAssistant: maps of a small mall whose edges matter to  *)
(* the search.                                                             *)
EXTENDS MallAssistant

LOCAL Edge(u, v, d, b) == [from |-> u, to |-> v, distance |-> d, both |-> b]

LOCAL Mall(edges, base) ==
    [nodes |-> {"base", "a", "b", "shop"}, edges |-> edges,
     stores |-> [nike |-> "shop", ghost |-> "closed"], base |-> base]

(* A detour shorter than the direct way, open in one direction or both; a  *)
(* detour that is longer; an edge given twice and a way over a node the    *)
(* map does not list; ways of equal and of no length; no way; no base.     *)
SmallMaps ==
    <<Mall(<<Edge("base", "shop", 5, TRUE), Edge("base", "a", 1, TRUE),
             Edge("a", "b", 1, TRUE), Edge("b", "shop", 1, TRUE)>>, "base"),
      Mall(<<Edge("base", "shop", 5, TRUE), Edge("base", "a", 1, FALSE),
             Edge("a", "b", 3, TRUE), Edge("b", "shop", 1, TRUE)>>, "base"),
      Mall(<<Edge("shop", "base", 1, TRUE), Edge("base", "shop", 4, FALSE),
             Edge("base", "lift", 1, FALSE), Edge("lift", "shop", 1, TRUE)>>, "base"),
      Mall(<<Edge("base", "shop", 0, TRUE), Edge("a", "shop", 1, TRUE),
             Edge("base", "a", 0, TRUE)>>, "base"),
      Mall(<<Edge("shop", "a", 1, FALSE), Edge("base", "b", 1, TRUE)>>, "base"),
      Mall(<<>>, "none")>>

StoreNames == {"nike", "ghost", "unmapped"}
==============================================================================
