-------------------------- MODULE GhostConnectivity ---------------------------
(***************************************************************************)
(* Pane_ghost_connectivity: a layer of ghost elements around every pane,   *)
(* made by the processes together with the operations of PaneCommunicator. *)
(*                                                                         *)
(* build_pconn is a sequence of calls: compute_pconn; "order", each node   *)
(* gets its owner pane P, the largest that shares it, and its number N     *)
(* there, which a reduction "max" of n_gorder hands to the other copies;   *)
(* "sizes" and "gelems", every pane sends the elements at a shared node,   *)
(* their nodes named by (P, N), to the pane it is shared with; "finalize", *)
(* ghosts are numbered and pconn gets its other four blocks; and the       *)
(* coordinates of ghost nodes are fetched through the new pconn.           *)
(*                                                                         *)
(* No process is told which number a node has elsewhere: real nodes to     *)
(* send and ghost nodes to receive match because both are sorted by (P, N).*)
(***************************************************************************)
EXTENDS PaneCommunicator

VARIABLES
    p_gorder,       \* pane -> P of each node
    gelem_lists,    \* pane -> what it sends to each communicating pane
    local_nodes,    \* pane -> (P, N) of each node, real nodes and then ghosts
    size_buffer,    \* pane -> how much each communicating pane will send
    recv_info,      \* pane -> what each communicating pane has sent
    gelems          \* pane -> ghost elements, in the order of their ids

ghostVars == <<p_gorder, gelem_lists, local_nodes, size_buffer, recv_info, gelems>>
allVars == <<vars, ghostVars>>

build_pconn == <<"compute_pconn", "order", "max", "ents", "sizes", "gelems", "process", "finalize", "ghost_coords">>

GhostInit ==
    /\ Init
    /\ p_gorder = [p \in Panes |-> <<>>]
    /\ gelem_lists = [p \in Panes |-> <<>>]
    /\ local_nodes = [p \in Panes |-> <<>>]
    /\ size_buffer = [p \in Panes |-> <<>>]
    /\ recv_info = [p \in Panes |-> <<>>]
    /\ gelems = [p \in Panes |-> <<>>]

Calling(r, call) == pc[r] = "idle" /\ done[r] < Len(Calls) /\ Op(r) = call
Finished(r) == pc' = [pc EXCEPT ![r] = "idle"] /\ done' = [done EXCEPT ![r] = @ + 1]

\* get_cpanes: the entries of panes of this window
Shared(p) == SelectSeq(pconn[p]["SHARED_NODE"], LAMBDA e : owner_rank(e.pane) >= 0)

------------------------------------------------------------------------------
(* get_node_total_order *)

OwnerPane(p, n) ==
    Max({p} \cup {Shared(p)[j].pane : j \in {j \in DOMAIN Shared(p) : n \in Range(Shared(p)[j].nodes)}})

Order(r) ==
    /\ Calling(r, "order")
    /\ p_gorder' = [p \in Panes |-> IF Owner[p] # r THEN p_gorder[p]
                                    ELSE [n \in Nodes(mesh, p) |-> OwnerPane(p, n)]]
    /\ data' = [data EXCEPT !.n_gorder = [p \in DOMAIN @ |->
                   IF owner_rank(p) # r THEN @[p]
                   ELSE [n \in Nodes(mesh, p) |-> IF p_gorder'[p][n] = p THEN n ELSE 0]]]
    /\ Finished(r)
    /\ UNCHANGED <<mesh, bnodes, b2v, pconn, eager, reached, net, recvs, start, gelem_lists, local_nodes, size_buffer, recv_info, gelems>>

Key(p, n) == <<p_gorder[p][n], data.n_gorder[p][n]>>

------------------------------------------------------------------------------
(* get_ents_to_send, for the j-th pane that p shares nodes with *)

\* Mutant: only elements with an edge on the border
EdgeNeighbours(p, j) ==
    Sorted({i \in DOMAIN mesh.elems[p] : Cardinality(Range(mesh.elems[p][i]) \cap Range(Shared(p)[j].nodes)) > 1},
           LAMBDA a, b : a < b)
elems_to_send(p, j) ==
    Sorted({i \in DOMAIN mesh.elems[p] : Range(mesh.elems[p][i]) \cap Range(Shared(p)[j].nodes) # {}}, LAMBDA a, b : a < b)

gelem_list(p, j) ==
    LET s == elems_to_send(p, j)
    IN [i \in DOMAIN s |-> [k \in DOMAIN mesh.elems[p][s[i]] |-> Key(p, mesh.elems[p][s[i]][k])]]

nodes_to_send(p, j) ==
    UNION {Range(mesh.elems[p][i]) : i \in Range(elems_to_send(p, j))} \ Range(Shared(p)[j].nodes)

get_ents_to_send(r) ==
    /\ Calling(r, "ents")
    /\ gelem_lists' = [p \in Panes |-> IF Owner[p] # r THEN gelem_lists[p]
                                       ELSE [j \in DOMAIN Shared(p) |-> gelem_list(p, j)]]
    /\ Finished(r)
    /\ UNCHANGED <<mesh, bnodes, b2v, pconn, eager, reached, net, recvs, data, start,
                   p_gorder, local_nodes, size_buffer, recv_info, gelems>>

\* Integers in a list: a type for each element, and two for each node
comm_size(list) == FoldLeft(LAMBDA n, e : n + 1 + 2 * Len(e), 0, list)

------------------------------------------------------------------------------
(* send_pane_info, for the sizes and then for the elements.  There is no   *)
(* barrier, and of the sends only one is waited for.                       *)

Posts(r) ==
    FlattenSeq([i \in DOMAIN Local(r) |->
        [j \in DOMAIN Shared(Local(r)[i]) |->
            [p |-> Local(r)[i], q |-> Shared(Local(r)[i])[j].pane, j |-> j]]])

\* Its tags are not reduced by TagMod.
InfoChannel(p, q) == [Channel(p, q) EXCEPT !.tag = Tag(p, q) + IF Owner[p] = Owner[q] THEN Shift(p > q) ELSE 0]

SendPaneInfo(r) ==
    /\ Calling(r, "sizes") \/ Calling(r, "gelems")
    /\ LET E == Posts(r)
           sizes == Op(r) = "sizes"
           List(e) == gelem_lists[e.p][e.j]
       IN /\ net' = net \o [i \in DOMAIN E |->
                [ch |-> InfoChannel(E[i].p, E[i].q), p |-> E[i].p, q |-> E[i].q, round |-> done[r] + 1,
                 len |-> IF sizes THEN 1 ELSE comm_size(List(E[i])),
                 buf |-> IF sizes THEN <<comm_size(List(E[i]))>> ELSE <<>>,
                 list |-> IF sizes THEN <<>> ELSE List(E[i])]]
          /\ recvs' = [recvs EXCEPT ![r] = [i \in DOMAIN E |->
                [ch |-> InfoChannel(E[i].q, E[i].p), p |-> E[i].p, q |-> E[i].q, nodes |-> <<>>,
                 len |-> IF sizes THEN 1 ELSE size_buffer[E[i].p][E[i].j], got |-> <<>>]]]
    /\ pc' = [pc EXCEPT ![r] = "exchange"]
    /\ UNCHANGED <<mesh, bnodes, b2v, pconn, eager, done, reached, data, start, ghostVars>>

Unsent(r) == {i \in DOMAIN net : net[i].ch.from = r /\ net[i].round = done[r] + 1}

\* All receives have completed, and a send.
WaitPaneInfo(r) ==
    /\ pc[r] = "exchange"
    /\ \A j \in DOMAIN recvs[r] : recvs[r][j].got # <<>>
    /\ eager \/ recvs[r] = <<>> \/ Cardinality(Unsent(r)) < Len(Posts(r))
    /\ LET Mine(p) == SelectSeq(recvs[r], LAMBDA q : q.p = p)
       IN IF Op(r) = "sizes"
          THEN /\ size_buffer' = [p \in Panes |-> IF Owner[p] # r THEN size_buffer[p]
                      ELSE [j \in DOMAIN Mine(p) |-> Mine(p)[j].got[1].buf[1]]]
               /\ UNCHANGED recv_info
          ELSE /\ recv_info' = [p \in Panes |-> IF Owner[p] # r THEN recv_info[p]
                      ELSE [j \in DOMAIN Mine(p) |-> Mine(p)[j].got[1].list]]
               /\ UNCHANGED size_buffer
    /\ recvs' = [recvs EXCEPT ![r] = <<>>]
    /\ Finished(r)
    /\ UNCHANGED <<mesh, bnodes, b2v, pconn, eager, reached, net, data, start, p_gorder, gelem_lists, local_nodes, gelems>>

------------------------------------------------------------------------------
(* process_received_data and finalize_pconn *)

RealKeys(p) == [n \in Nodes(mesh, p) |-> Key(p, n)]
ReceivedKeys(p, j) == FlattenSeq(recv_info[p][j])

\* Where a pane first meets a node, by pane it is received from and place
Met(p, k) ==
    CHOOSE ji \in (DOMAIN recv_info[p]) \X (1..Max({Len(ReceivedKeys(p, j)) : j \in DOMAIN recv_info[p]})) :
        /\ ji[2] <= Len(ReceivedKeys(p, ji[1])) /\ ReceivedKeys(p, ji[1])[ji[2]] = k
        /\ \A j \in 1..ji[1] - 1 : k \notin Range(ReceivedKeys(p, j))
        /\ \A i \in 1..ji[2] - 1 : ReceivedKeys(p, ji[1])[i] # k

\* Ghost nodes get their numbers in the order in which they are met.
process_received_data(r) ==
    /\ Calling(r, "process")
    /\ local_nodes' = [p \in Panes |->
            IF Owner[p] # r THEN local_nodes[p]
            ELSE RealKeys(p) \o Sorted(UNION {Range(ReceivedKeys(p, j)) : j \in DOMAIN recv_info[p]} \ Range(RealKeys(p)),
                                       LAMBDA a, b : Lex(Met(p, a), Met(p, b)))]
    /\ Finished(r)
    /\ UNCHANGED <<mesh, bnodes, b2v, pconn, eager, reached, net, recvs, data, start,
                   p_gorder, gelem_lists, size_buffer, recv_info, gelems>>

LocalNode(p, k) == CHOOSE n \in DOMAIN local_nodes[p] : local_nodes[p][n] = k

nodes_to_recv(p, j) ==
    LET keys == Sorted(Range(ReceivedKeys(p, j)) \ Range(RealKeys(p)), Lex)
    IN [i \in DOMAIN keys |-> LocalNode(p, keys[i])]

\* Ghost elements are numbered by type, and then as they come.
Received(p) == FlattenSeq(recv_info[p])
OfType(s, t) == SelectSeq(s, LAMBDA e : Len(e) = t)
Ranked(p) == OfType(Received(p), 4) \o OfType(Received(p), 5)

elem_renumbering(p, j) ==
    [i \in DOMAIN recv_info[p][j] |->
        LET before == FlattenSeq(SubSeq(recv_info[p], 1, j - 1)) \o SubSeq(recv_info[p][j], 1, i)
            t == Len(recv_info[p][j][i])
        IN Len(mesh.elems[p]) + Len(OfType(before, t)) + IF t = 4 THEN 0 ELSE Len(OfType(Received(p), 4))]

finalize_pconn(p) ==
    LET Block(List(_, _)) == [j \in DOMAIN Shared(p) |-> [pane |-> Shared(p)[j].pane, nodes |-> List(p, j)]]
        ToSend(pp, j) == Sorted(nodes_to_send(pp, j), LAMBDA m, n : Lex(Key(pp, m), Key(pp, n)))
    IN [pconn[p] EXCEPT !["RNS"] = Block(ToSend), !["GNR"] = Block(nodes_to_recv),
                        !["RCS"] = Block(elems_to_send), !["GCR"] = Block(elem_renumbering)]

Extend(s, n) == s \o [i \in 1..n - Len(s) |-> 0]

Finalize(r) ==
    /\ Calling(r, "finalize")
    /\ pconn' = [p \in DOMAIN pconn |-> IF owner_rank(p) = r THEN finalize_pconn(p) ELSE pconn[p]]
    /\ gelems' = [p \in Panes |-> IF Owner[p] # r THEN gelems[p]
                                  ELSE [i \in DOMAIN Ranked(p) |->
                                          [k \in DOMAIN Ranked(p)[i] |-> LocalNode(p, Ranked(p)[i][k])]]]
    /\ data' = [data EXCEPT !.nc = [p \in DOMAIN @ |->
                   IF owner_rank(p) # r THEN @[p] ELSE Extend(@[p], Len(local_nodes[p]))]]
    /\ Finished(r)
    /\ UNCHANGED <<mesh, bnodes, b2v, eager, reached, net, recvs, start, p_gorder, gelem_lists, local_nodes, size_buffer, recv_info>>

------------------------------------------------------------------------------
\* The client makes room for ghosts in its own dataitems.
Resize(r) ==
    /\ Calling(r, "resize")
    /\ data' = [data EXCEPT
           !.val = [p \in DOMAIN @ |-> IF owner_rank(p) # r THEN @[p] ELSE Extend(@[p], Len(data.nc[p]))],
           !.cval = [p \in DOMAIN @ |-> IF owner_rank(p) # r THEN @[p]
                                        ELSE Extend(@[p], Len(mesh.elems[p]) + Len(gelems[p]))]]
    /\ Finished(r)
    /\ UNCHANGED <<mesh, bnodes, b2v, pconn, eager, reached, net, recvs, start, ghostVars>>

GhostStep(r) == Order(r) \/ get_ents_to_send(r) \/ SendPaneInfo(r) \/ WaitPaneInfo(r) \/ process_received_data(r) \/ Finalize(r) \/ Resize(r)

Proc(r) == (Step(r) /\ UNCHANGED ghostVars) \/ GhostStep(r)
Delivery == (\E i \in DOMAIN net : Deliver(i)) /\ UNCHANGED ghostVars

GhostNext == (\E r \in Ranks : Proc(r)) \/ Delivery

\* Processes run, and MPI delivers messages that have a receive.
Fairness == (\A r \in Ranks : WF_allVars(Proc(r))) /\ WF_allVars(Delivery)

Spec == GhostInit /\ [][GhostNext]_allVars /\ Fairness

------------------------------------------------------------------------------
(* Properties *)

\* The buffer of a message whose send nobody has waited for is gone: the one
\* of a size when send_gelem_lists has returned, the one of elements at the
\* end of build_pconn.
Freed(m) ==
    /\ ~eager
    /\ \/ Calls[m.round] = "sizes" /\ Latest(m.ch.from, {"gelems"}) > m.round
       \/ Calls[m.round] = "gelems" /\ Latest(m.ch.from, {"ghost_coords"}) > m.round

\* A message reaches the buffer it is for: the receive it completes was posted
\* by the pane it was sent to for the pane that sent it, and has its size,
\* whatever else is under way between the two processes; and it is sent from
\* a buffer that still exists.
RightBuffer ==
    /\ TypeOK
    /\ \A r \in Ranks : \A j \in DOMAIN recvs[r] :
        LET q == recvs[r][j]
        IN q.got # <<>> => /\ q.got[1].p = q.q /\ q.got[1].q = q.p
                           /\ q.got[1].len = q.len
    /\ \A i \in DOMAIN net : ~Freed(net[i])

\* Where the nodes of an element are
Place(nc, e) == [k \in DOMAIN e |-> nc[e[k]]]
\* Elements <<q, i>> of other panes of the window with a node in pane p
Around(p) ==
    UNION {{<<q, i>> : i \in {i \in DOMAIN mesh.elems[q] :
              \E k \in DOMAIN mesh.elems[q][i] : mesh.pos[q][mesh.elems[q][i][k]] \in Range(mesh.pos[p])}}
           : q \in Panes \ {p}}

\* A pane has one ghost element for each element of another pane that touches
\* it.  After build_pconn they are these elements, with their nodes in their
\* order, and no two nodes of the pane are at one place; after an update, the
\* values of ghost cells are those of these elements when the update began.
GhostLayerExact ==
    \A r \in Ranks : pc[r] = "idle" /\ Latest(r, {"finalize"}) > 0 =>
        \A p \in LocalPanes(r) :
            LET ghosts == [i \in DOMAIN gelems[p] |-> Place(data.nc[p], gelems[p][i])]
                IsAt(g, c) == Place(mesh.pos[c[1]], mesh.elems[c[1]][c[2]]) = ghosts[g]
            IN /\ Len(gelems[p]) = Cardinality(Around(p))
               /\ Latest(r, {"ghost_coords"}) > 0 =>
                    /\ \A c \in Around(p) : \E g \in DOMAIN ghosts : IsAt(g, c)
                    /\ IsInjective(data.nc[p])
                    /\ Calls[done[r]] = "ghost_cells" =>
                        \A c \in Around(p), g \in DOMAIN ghosts :
                            IsAt(g, c) => data.cval[p][Len(mesh.elems[p]) + g] = start[done[r]][c[1]][c[2]]

\* A node coincides with two nodes of one pane of another process.
Doubled ==
    \E k \in DOMAIN Calls : Calls[k] \in PconnCalls /\ \E p, q \in Scope(Calls[k]) :
        /\ Owner[p] # Owner[q]
        /\ \E n \in Nodes(mesh, p) : Cardinality({m \in Nodes(mesh, q) : mesh.pos[q][m] = mesh.pos[p][n]}) > 1

\* All calls return in all processes, with buffered sends and without: no
\* receive waits for a message nobody sends, no send for a receive nobody
\* posts, and no call stops at receives that an earlier one left pending.  The
\* exception are meshes with two nodes of one pane at a place where another
\* process has one, too: there compute_pconn of that process always aborts.
AllReturn ==
    <>IF Doubled THEN \E r \in Ranks : pc[r] = "aborted" ELSE \A r \in Ranks : done[r] = Len(Calls)
==============================================================================
