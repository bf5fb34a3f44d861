----------------------------- MODULE VoteCount -----------------------------
(***************************************************************************)
(* How the CMS master turns the votes of a round into the new cluster      *)
(* (cms_vote.c): for every node a group of nodes that see each other,      *)
(* grown greedily, and a choice among these groups.                        *)
(***************************************************************************)
EXTENDS Integers, FiniteSets, FiniteSetsExt

CONSTANT N   \* cms_get_gcc_node_count

ASSUME NAssumption == N \in Nat \ {0}

Node == 0 .. N - 1

\* Mutant: who is seen counts, whether it sees the other or not.
Bug_Edges(good) == {e \in Node \X Node : e[2] \in good[e[1]]}

\* cms_get_max_full_connect: the pairs of nodes that see each other; good[i]
\* is the row of node i in all_nodes_vote_msg.
Edges(good) == {e \in Node \X Node : e[2] \in good[e[1]] /\ e[1] \in good[e[2]]}

\* cms_join_node_set: the group of i and j takes in, in ascending order, the
\* nodes behind j that every member sees.
Grown(E, i, j) ==
    LET upTo[m \in j .. N - 1] ==
          IF m = j THEN {i, j}
          ELSE LET g == upTo[m - 1]
               IN  IF \A l \in g : <<l, m>> \in E THEN g \union {m} ELSE g
    IN  upTo[N - 1]

\* The elements of S with the largest value of f.
Tops(S, f(_)) == {x \in S : \A y \in S : f(y) <= f(x)}

\* cms_solve_max_clique: the first largest of the groups grown from i, and
\* no group when i has no valid vote.
GroupOf(E, i) ==
    LET seen == {j \in Node : <<i, j>> \in E}
        size(j) == Cardinality(Grown(E, i, j))
    IN  [index |-> i, nodes |-> IF seen = {} THEN {} ELSE Grown(E, i, Min(Tops(seen, size)))]

\* cms_get_max_num_index: the largest group; among equals the one with most
\* nodes online, then the one with most nodes joined; otherwise that of the
\* smallest index.  Two indices count as two groups also when both have the
\* same one (cms_have_multiple_max_group).
Chosen(groups, online, joined) ==
    LET size(g) == Cardinality(g.nodes)
        on(g) == Cardinality(g.nodes \intersect online)
        in(g) == Cardinality(g.nodes \intersect joined)
        largest == Tops(groups, size)
        mostOnline == Tops(largest, on)
        mostJoined == Tops(mostOnline, in)
        single == {S \in {largest, mostOnline, mostJoined} : Cardinality(S) = 1}
    IN  IF single # {} THEN CHOOSE g \in UNION single : TRUE
        ELSE CHOOSE g \in largest : \A h \in largest : g.index <= h.index

\* cms_get_final_vote_res: new_cluster_bitmap.  E and groups have one value
\* each; bound variables are evaluated only once.
cms_get_max_full_connect(good, online, joined) ==
    {m \in Node : \E groups \in {{GroupOf(E, i) : i \in Node} : E \in {Edges(good)}} :
                     m \in Chosen(groups, online, joined).nodes}

-----------------------------------------------------------------------------
(* What the choice is meant to be. *)

\* The groups of nodes that all see each other.
Cliques(good) == LET E == Edges(good) IN {g \in SUBSET Node : g \X g \subseteq E}

\* "first the group with most nodes; when equal the group with most nodes
\* online; when equal the group with most nodes online and joined" (comments
\* of cms_get_max_num_index).
Best(good, online, joined) ==
    LET on(g) == Cardinality(g \intersect online)
        in(g) == Cardinality(g \intersect joined)
    IN  Tops(Tops(Tops(Cliques(good), Cardinality), on), in)
=============================================================================
