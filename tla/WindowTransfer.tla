---------------------------- MODULE WindowTransfer ----------------------------
(***************************************************************************)
(* SurfX: how RFC_Window_transfer brings the data of remote panes to the   *)
(* processes whose panes lie opposite to them, when Rocface transfers data *)
(* between the two windows of an overlay.                                  *)
(*                                                                         *)
(* The first transfer from a window asks, in a collective exchange, the    *)
(* owners of the panes a process needs (replicate_metadata).  Every        *)
(* transfer then posts receives and sends (replicate_data), unpacks the    *)
(* received arrays in the order in which they come, waits for the rest,    *)
(* computes, and drops the copies (clear_replicated_data).  There is no    *)
(* barrier: one process may be in the next transfer, from the other window,*)
(* while another is still in this one, on the same communicator.           *)
(*                                                                         *)
(* A value is named by the array, pane and entry it belongs to and by the  *)
(* transfer before which its owner computed it.                            *)
(***************************************************************************)
EXTENDS Integers, Sequences, SequencesExt, FiniteSetsExt

CONSTANTS
    Ranks,          \* processes
    Panes,          \* pane id -> [win, rank, nfaces, nnodes]
    Overlay,        \* subfaces: set of [1 |-> side, 2 |-> side], a side being
                    \* [pane, face, nodes]: the parent face of the subface, and
                    \* the nodes of its parent and of the hosts of its subnodes
    Scripts,        \* what the processes may call: lists of calls
    NRounds         \* how many they call

ASSUME TransferAssumption ==
    /\ NRounds \in Nat
    /\ Ranks \subseteq Int /\ IsFiniteSet(Ranks)
    /\ DOMAIN Panes \subseteq Int /\ IsFiniteSet(DOMAIN Panes)
    /\ \A p \in DOMAIN Panes :
           /\ Panes[p].rank \in Ranks /\ Panes[p].win \in 1..2
           /\ Panes[p].nfaces \in Nat /\ Panes[p].nnodes \in Nat
    /\ \A s \in Overlay, w \in 1..2 :
           /\ s[w].pane \in DOMAIN Panes /\ Panes[s[w].pane].win = w
           /\ s[w].face \in 1..Panes[s[w].pane].nfaces
           /\ s[w].nodes \subseteq 1..Panes[s[w].pane].nnodes
    /\ Scripts \subseteq [1..NRounds -> [op : {"transfer"}, win : 1..2,
                                         kind : {"nodal", "facial"}, coor : BOOLEAN]
                                        \cup [op : {"read_overlay"}]]

VARIABLES
    script,         \* what the processes call
    eager,          \* MPI buffers messages: sends complete at once
    pc, done,       \* where each process is, and the calls it has finished
    asks,           \* the panes each process asked for, one set per exchange
    meta,           \* per process and window: _replicated, _replic_panes, _panes_to_send
    net,            \* messages sent and not yet received, oldest first
    recvs,          \* posted receives
    bufs            \* _data_buf and _coor_buf of the replicated panes

vars == <<script, eager, pc, done, asks, meta, net, recvs, bufs>>

NaN == <<"nan">>
Junk == <<"junk">>
Zero == <<"zero">>
NoMeta == [replicated |-> FALSE, panes |-> {}, to_send |-> {}]
Kinds == {"nodal", "facial"}

Init ==
    /\ script \in Scripts
    /\ eager \in BOOLEAN
    /\ pc = [r \in Ranks |-> "idle"]
    /\ done = [r \in Ranks |-> 0]
    /\ asks = [r \in Ranks |-> <<>>]
    /\ meta = [r \in Ranks |-> [w \in 1..2 |-> NoMeta]]
    /\ net = <<>>
    /\ recvs = [r \in Ranks |-> <<>>]
    /\ bufs = [r \in Ranks |-> <<>>]

Call(r) == script[done[r] + 1]
Win(p) == Panes[p].win
Size(p, kind) == IF kind = "nodal" THEN Panes[p].nnodes ELSE Panes[p].nfaces
PanesOf(w) == {p \in DOMAIN Panes : Win(p) = w}

\* The elements of a finite set from the first to the last: how the loops go
\* through std::set and std::map, and what std::sort makes.
InOrder(S, Before(_, _)) ==
    [i \in 1..Cardinality(S) |-> CHOOSE x \in S : Cardinality({y \in S : Before(y, x)}) = i - 1]

\* The order of nested loops
Lexicographic(a, b) == \E i \in DOMAIN a : a[i] < b[i] /\ \A k \in 1..i - 1 : a[k] = b[k]

------------------------------------------------------------------------------
(* Metadata                                                                *)

\* The subfaces of window w whose counterparts process r owns.
Opposite(r, w) == {s \in Overlay : Panes[s[3 - w].pane].rank = r}

\* incident_faces: the panes of window w that process r needs and does not own
Needs(r, w) == {p \in {s[w].pane : s \in Opposite(r, w)} : Panes[p].rank # r}

\* The faces or nodes of pane p that process r needs
Selected(p, r, kind) ==
    LET S == {s[Win(p)] : s \in {s \in Opposite(r, Win(p)) : s[Win(p)].pane = p}}
    IN IF kind = "nodal" THEN UNION {x.nodes : x \in S} ELSE {x.face : x \in S}

\* _recv_faces and _recv_nodes of the copy of pane p in process r, which are
\* _send_faces[r] and _send_nodes[r] of the pane itself: sorted lists.
Entries ==
    [p \in DOMAIN Panes |-> [r \in Ranks |-> [kind \in Kinds |-> InOrder(Selected(p, r, kind), <)]]]

\* Processes in the maps _send_faces and _send_nodes of a pane
Destinations(p) == {r \in Ranks \ {Panes[p].rank} : p \in Needs(r, Win(p))}

\* Rocface::transfer up to the exchange of replicate_metadata
Begin(r) ==
    /\ pc[r] = "idle" /\ done[r] < NRounds
    /\ Call(r).op = "transfer"
    /\ IF meta[r][Call(r).win].replicated
       THEN pc' = [pc EXCEPT ![r] = "replicate"] /\ UNCHANGED asks
       ELSE /\ pc' = [pc EXCEPT ![r] = "exchange"]
            /\ asks' = [asks EXCEPT ![r] = Append(@, Needs(r, Call(r).win))]
    /\ UNCHANGED <<script, eager, done, meta, net, recvs, bufs>>

\* MPI_Alltoall and MPI_Alltoallv return when all processes have come.
Exchange(r) ==
    LET n == Len(asks[r])
        w == Call(r).win
    IN /\ pc[r] = "exchange"
       /\ \A s \in Ranks : Len(asks[s]) >= n
       /\ meta' = [meta EXCEPT ![r][w] =
              [replicated |-> TRUE,
               panes |-> asks[r][n],
               to_send |-> {x \in Ranks \X PanesOf(w) : Panes[x[2]].rank = r /\ x[2] \in asks[x[1]][n]}]]
       /\ pc' = [pc EXCEPT ![r] = "replicate"]
       /\ UNCHANGED <<script, eager, done, asks, net, recvs, bufs>>

\* read_overlay makes new transfer windows.
ReadOverlay(r) ==
    /\ pc[r] = "idle" /\ done[r] < NRounds
    /\ Call(r).op = "read_overlay"
    /\ meta' = [meta EXCEPT ![r] = [w \in 1..2 |-> NoMeta]]
    /\ bufs' = [bufs EXCEPT ![r] = <<>>]
    /\ done' = [done EXCEPT ![r] = @ + 1]
    /\ UNCHANGED <<script, eager, pc, asks, net, recvs>>

------------------------------------------------------------------------------
(* Data                                                                    *)

\* Values of a pane in the k-th call; its coordinates do not change.
Value(kind, p, n, k) == IF kind = "coor" THEN <<kind, p, n, 0>> ELSE <<kind, p, n, k>>

\* _pane_map: the number of a pane among those of its window and owner
Index(p) == Cardinality({q \in PanesOf(Win(p)) : Panes[q].rank = Panes[p].rank /\ q < p})

Tag(p, what) ==
    100 + Index(p) + IF what = "coor" THEN Cardinality(PanesOf(Win(p))) ELSE 0

\* What is sent of a pane to process r.  The selected entries are copied unless
\* there are as many destinations as entries in the pane.
Copied(p, kind) == Cardinality(Destinations(p)) # Size(p, kind)
SendBuffer(p, r, kind, k) ==
    LET list == Entries[p][r][kind]
    IN IF Copied(p, kind)
       THEN [i \in DOMAIN list |-> Value(kind, p, list[i], k)]
       ELSE [i \in DOMAIN list |-> Value(kind, p, i, k)]

\* Coordinates are sent from the first node on.
CoorBuffer(p, r, kind, k) == [i \in DOMAIN Entries[p][r][kind] |-> Value("coor", p, i, k)]

Received(c) == IF c.coor THEN <<"data", "coor">> ELSE <<"data">>
\* Mutant: coordinates are always sent.
SentCoor(c) == <<"data", "coor">>
\* Mutant: coordinates are never sent.
SentData(c) == <<"data">>
Sent(c) == IF c.coor THEN <<"data", "coor">> ELSE <<"data">>

Send(r, t, p, what) ==
    LET c == Call(r)
    IN [from |-> r, to |-> t, tag |-> Tag(p, what), pane |-> p, what |-> what, round |-> done[r] + 1,
        buf |-> IF what = "data" THEN SendBuffer(p, t, c.kind, done[r] + 1)
                ELSE CoorBuffer(p, t, c.kind, done[r] + 1)]

Receive(r, p, what) ==
    [from |-> Panes[p].rank, to |-> r, tag |-> Tag(p, what), pane |-> p, what |-> what,
     len |-> Len(Entries[p][r][Call(r).kind]), got |-> <<>>]

\* The sends of arrays J to the processes and of the panes in to_send
Slots(to_send, J) == {<<x[1], x[2], j>> : x \in to_send, j \in J}

\* replicate_data up to the loop around MPI_Waitany: all receives, all sends.
Post(r) ==
    LET c == Call(r)
        M == meta[r][c.win]
        R == InOrder(M.panes \X DOMAIN Received(c), Lexicographic)
        S == InOrder(Slots(M.to_send, DOMAIN Sent(c)), Lexicographic)
    IN /\ pc[r] = "replicate"
       /\ recvs' = [recvs EXCEPT ![r] =
              [i \in DOMAIN R |-> Receive(r, R[i][1], Received(c)[R[i][2]])]]
       /\ net' = net \o [i \in DOMAIN S |-> Send(r, S[i][1], S[i][2], Sent(c)[S[i][3]])]
       /\ pc' = [pc EXCEPT ![r] = "receive"]
       /\ UNCHANGED <<script, eager, done, asks, meta, bufs>>

\* MPI: the oldest message of a source, destination and tag goes to the
\* receive for it that was posted first.
Deliver(i) ==
    LET m == net[i]
        Same(x) == x.from = m.from /\ x.to = m.to /\ x.tag = m.tag
        waiting == {j \in DOMAIN recvs[m.to] : Same(recvs[m.to][j]) /\ recvs[m.to][j].got = <<>>}
    IN /\ \A k \in 1..i - 1 : ~Same(net[k])
       /\ waiting # {}
       /\ recvs' = [recvs EXCEPT ![m.to][Min(waiting)].got = <<m>>]
       /\ net' = RemoveAt(net, i)
       /\ UNCHANGED <<script, eager, pc, done, asks, meta, bufs>>

\* The array is resized to n, with NaN; cap is the space reserved.
Resized(buf, n, cap) ==
    [i \in 1..cap |-> IF i \in DOMAIN buf THEN buf[i] ELSE IF i <= n THEN NaN ELSE Junk]

\* The last entry that is where it belongs
InPlace(list) == Max({0} \cup {i \in DOMAIN list : list[i] = i})

\* Mutant: the entries are moved from the first to the last.
DenseAscending(buf, list, n, cap) ==
    LET Move(b, i) == IF list[i] = i THEN b ELSE [b EXCEPT ![list[i]] = b[i], ![i] = NaN]
    IN FoldLeft(Move, Resized(buf, n, cap), [i \in DOMAIN list |-> i])
\* The entries are moved to their places, the last one first, until one is where
\* it belongs.
Dense(buf, list, n, cap) ==
    LET Move(b, i) == [b EXCEPT ![list[i]] = b[i], ![i] = NaN]
        moved[i \in InPlace(list) + 1..Len(list) + 1] ==
            IF i > Len(list) THEN Resized(buf, n, cap) ELSE Move(moved[i + 1], i)
    IN moved[InPlace(list) + 1]

\* One turn of the loop around MPI_Waitany, which is over the data only.
Unpack(r, j) ==
    LET x == recvs[r][j]
        kind == Call(r).kind
        P == Panes[x.pane]
    IN /\ pc[r] = "receive"
       /\ x.what = "data" /\ x.got # <<>>
       /\ bufs' = [bufs EXCEPT ![r] =
              [y \in {<<"data", x.pane>>} \cup DOMAIN @ |->
                  IF y = <<"data", x.pane>>
                  THEN Dense(x.got[1].buf, Entries[x.pane][r][kind], P.nnodes,
                             IF P.nnodes > P.nfaces THEN P.nnodes ELSE P.nfaces)
                  ELSE @[y]]]
       /\ recvs' = [recvs EXCEPT ![r] = RemoveAt(@, j)]
       /\ UNCHANGED <<script, eager, pc, done, asks, meta, net>>

\* Coordinates come to the begin of their array, which has been resized to n.
\* The rest of it is what an earlier transfer left there, or zero.
CoorCopy(old, buf, n) ==
    [i \in 1..n |-> IF i \in DOMAIN buf THEN buf[i] ELSE IF i \in DOMAIN old THEN old[i] ELSE Zero]

\* wait_all: the coordinates have come, and the sends are complete.
WaitAll(r) ==
    /\ pc[r] = "receive"
    /\ \A j \in DOMAIN recvs[r] : recvs[r][j].what = "coor" /\ recvs[r][j].got # <<>>
    /\ eager \/ \A i \in DOMAIN net : net[i].from # r
    /\ LET coors == {<<"coor", recvs[r][j].pane>> : j \in DOMAIN recvs[r]}
       IN bufs' = [bufs EXCEPT ![r] =
              [x \in coors \cup DOMAIN @ |->
                  IF x \in coors
                  THEN LET j == CHOOSE j \in DOMAIN recvs[r] : recvs[r][j].pane = x[2]
                       IN CoorCopy(IF x \in DOMAIN @ THEN @[x] ELSE <<>>, recvs[r][j].got[1].buf,
                                   Size(x[2], Call(r).kind))
                  ELSE @[x]]]
    /\ recvs' = [recvs EXCEPT ![r] = <<>>]
    /\ pc' = [pc EXCEPT ![r] = "compute"]
    /\ UNCHANGED <<script, eager, done, asks, meta, net>>

\* The target panes are computed and the copies of the data dropped.
Clear(r) ==
    /\ pc[r] = "compute"
    /\ bufs' = [bufs EXCEPT ![r] = [x \in {y \in DOMAIN @ : y[1] = "coor"} |-> @[x]]]
    /\ pc' = [pc EXCEPT ![r] = "idle"]
    /\ done' = [done EXCEPT ![r] = @ + 1]
    /\ UNCHANGED <<script, eager, asks, meta, net, recvs>>

Step(r) ==
    \/ Begin(r) \/ Exchange(r) \/ ReadOverlay(r) \/ Post(r)
    \/ \E j \in DOMAIN recvs[r] : Unpack(r, j)
    \/ WaitAll(r) \/ Clear(r)

Next == (\E r \in Ranks : Step(r)) \/ (\E i \in DOMAIN net : Deliver(i))

\* Processes run, and MPI delivers messages that have a receive.
Fairness ==
    /\ \A r \in Ranks : WF_vars(Step(r))
    /\ WF_vars(\E i \in DOMAIN net : Deliver(i))

Spec == Init /\ [][Next]_vars /\ Fairness

------------------------------------------------------------------------------
(* Properties *)

\* A process replicates panes of others only, and has copies of data only while
\* it is in a transfer.
TypeOK ==
    /\ pc \in [Ranks -> {"idle", "exchange", "replicate", "receive", "compute"}]
    /\ done \in [Ranks -> 0..NRounds]
    /\ \A r \in Ranks, w \in 1..2 :
           /\ \A p \in meta[r][w].panes : Win(p) = w /\ Panes[p].rank # r
           /\ \A x \in meta[r][w].to_send : x[1] # r /\ Panes[x[2]].rank = r
    /\ \A r \in Ranks : \A x \in DOMAIN bufs[r] :
           x[1] = "data" => pc[r] \in {"receive", "compute"}

\* A message is received in the transfer in which it was sent, by the copy of
\* the pane it comes from, as data or coordinates as it was sent, and has the
\* length of the receive, although the tags of the two windows overlap and
\* processes are not in step.
RightBuffer ==
    TypeOK /\ \A r \in Ranks : \A j \in DOMAIN recvs[r] :
        LET x == recvs[r][j]
        IN x.got # <<>> => /\ x.got[1].round = done[r] + 1
                           /\ x.got[1].pane = x.pane /\ x.got[1].what = x.what
                           /\ Len(x.got[1].buf) = x.len

\* When a process computes, the data it has of a remote pane are those of this
\* pane and of this transfer: an entry that its subfaces need is the very one of
\* the owner if the selected entries were copied for sending, and some entry of
\* the pane if not; an entry that none of them needs is NaN, up to the number of
\* nodes, to which facial arrays are resized too.  Of the coordinates, where
\* they are replicated, the first ones are there, as many as entries are needed:
\* they are those of the needed nodes only if these are the first.
ReplicasExact ==
    \A r \in Ranks : pc[r] = "compute" =>
        LET c == Call(r)
            k == done[r] + 1
        IN \A p \in Needs(r, c.win) :
               /\ \A n \in 1..Size(p, c.kind) :
                      LET v == bufs[r][<<"data", p>>][n]
                      IN IF \E s \in Opposite(r, c.win) :
                              /\ s[c.win].pane = p
                              /\ IF c.kind = "nodal" THEN n \in s[c.win].nodes ELSE n = s[c.win].face
                         THEN /\ Copied(p, c.kind) => v = Value(c.kind, p, n, k)
                              /\ \E m \in 1..Size(p, c.kind) : v = Value(c.kind, p, m, k)
                         ELSE v = NaN \/ n > Panes[p].nnodes
               /\ c.coor => \A i \in DOMAIN Entries[p][r][c.kind] :
                                bufs[r][<<"coor", p>>][i] = Value("coor", p, i, k)

\* All transfers return in all processes, with buffered sends and without.
AllReturn == <>(\A r \in Ranks : done[r] = NRounds)

==============================================================================
