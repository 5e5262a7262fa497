-------------------------- MODULE MCWindowTransfer ----------------------------
(***************************************************************************)
(* TLC: three processes.  Panes 11 and 12 of window 1 belong to process 1, *)
(* pane 13 to process 2; window 2 has one pane in each process.  The       *)
(* subfaces ask for the last entries of panes, for all and for some.  Pane *)
(* 13 has two faces and two destinations, one of which needs face 2 only,  *)
(* so that its faces are sent as they are.                                 *)
(***************************************************************************)
EXTENDS WindowTransfer

Pane(w, r, f, n) == [win |-> w, rank |-> r, nfaces |-> f, nnodes |-> n]
MCPanes == (11 :> Pane(1, 1, 3, 5)) @@ (12 :> Pane(1, 1, 1, 3)) @@ (13 :> Pane(1, 2, 2, 4))
           @@ (21 :> Pane(2, 1, 2, 4)) @@ (22 :> Pane(2, 2, 5, 4)) @@ (23 :> Pane(2, 3, 3, 5))
On(p, f, s) == [pane |-> p, face |-> f, nodes |-> s]
MCOverlay == {<<On(11, 2, {2, 3, 4}), On(22, 1, {1, 2, 3})>>,
              <<On(11, 3, {3, 4, 5}), On(22, 5, {2, 3, 4})>>,
              <<On(12, 1, {1, 2, 3}), On(22, 3, {1, 2, 4})>>,
              <<On(11, 1, {1, 2, 3}), On(21, 1, {1, 2, 3})>>,
              <<On(13, 2, {2, 3, 4}), On(23, 1, {1, 2, 3})>>,
              <<On(13, 2, {2, 3, 4}), On(23, 3, {3, 4, 5})>>,
              <<On(13, 1, {1, 2, 3}), On(21, 2, {2, 3, 4})>>}

From(w, kind, coor) == [op |-> "transfer", win |-> w, kind |-> kind, coor |-> coor]
Reread == [op |-> "read_overlay"]
MCScripts == {<<From(1, "nodal", TRUE), From(2, "facial", FALSE), From(1, "facial", FALSE)>>,
              <<From(2, "nodal", FALSE), Reread, From(2, "facial", TRUE)>>,
              <<From(1, "facial", TRUE), From(1, "nodal", FALSE), From(2, "nodal", TRUE)>>}
==============================================================================
