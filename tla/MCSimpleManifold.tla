------------------------- MODULE MCSimpleManifold -------------------------
(* Panes cut from the surface of a pyramid: four triangles around the apex    *)
(* (node 5) and the square base.  Each face is missing, real or ghost; panes  *)
(* pinched at a node, which are no 2-manifolds, are left out.                 *)
EXTENDS SimpleManifold

Faces == <<<<1, 2, 5>>, <<4, 1, 5>>, <<2, 3, 5>>, <<4, 3, 2, 1>>, <<3, 4, 5>>>>

\* The faces at a node, in the order in which they turn around it.
Fans == [v \in 1 .. 5 |->
           CASE v = 1 -> <<1, 4, 2>>
             [] v = 2 -> <<1, 3, 4>>
             [] v = 3 -> <<3, 5, 4>>
             [] v = 4 -> <<5, 2, 4>>
             [] v = 5 -> <<1, 3, 5, 2>>]

\* The chosen faces form one fan at v.
OneFan(v, chosen) ==
  LET n == Len(Fans[v])
  IN  Cardinality({k \in 1 .. n : /\ Fans[v][k] \in chosen
                                  /\ Fans[v][(k % n) + 1] \notin chosen}) <= 1

Manifold(chosen) == \A v \in 1 .. 5 : OneFan(v, chosen)

NodesOf(chosen) == UNION {Range(Faces[f]) : f \in chosen}

\* The place of x among the members of S, and the member at a place.
Rank(x, S) == Cardinality({y \in S : y <= x})
Nth(n, S) == CHOOSE x \in S : Rank(x, S) = n

\* Real nodes first, then ghost nodes; extra real nodes at the end of the real.
Pane(real, ghost, extra, flag) ==
  LET rn    == NodesOf(real)
      gn    == NodesOf(ghost) \ rn
      nrn   == Cardinality(rn) + extra
      nre   == Cardinality(real)
      At(v) == IF v \in rn THEN Rank(v, rn) ELSE nrn + Rank(v, gn)
      Face(n) == Faces[IF n <= nre THEN Nth(n, real) ELSE Nth(n - nre, ghost)]
  IN  [conn  |-> [n \in 1 .. nre + Cardinality(ghost) |->
                    [k \in DOMAIN Face(n) |-> At(Face(n)[k])]],
       nre   |-> nre,
       nrn   |-> nrn,
       nn    |-> nrn + Cardinality(gn),
       ghost |-> flag]

Splits == {s \in (SUBSET (1 .. 5)) \X (SUBSET (1 .. 5)) :
             /\ s[1] # {} /\ s[1] \cap s[2] = {}
             /\ Manifold(s[1]) /\ Manifold(s[2]) /\ Manifold(s[1] \cup s[2])}

AllPanes == {Pane(s[1], s[2], extra, flag) :
               s \in Splits, extra \in {0, 2}, flag \in BOOLEAN}
=============================================================================
