------------------------- MODULE WindowTransferProofs -------------------------
(***************************************************************************)
(* Proofs about WindowTransfer: for any number of processes, panes and     *)
(* calls, and any overlay, a message is received in the transfer in which  *)
(* it was sent and by the copy of the pane it comes from.                  *)
(*                                                                         *)
(* The invariant relates what every process has done to the script, which  *)
(* they share: the exchanges of panes are the same in all of them, so the  *)
(* lists of panes to receive and to send agree; and a message due in a     *)
(* call is not yet sent, or in flight, or received, in every process that  *)
(* may be ahead or behind.                                                 *)
(***************************************************************************)
EXTENDS WindowTransfer, FiniteSetTheorems, SequenceTheorems, WellFoundedInduction, TLAPS

Whats == {"data", "coor"}
Rounds == 1..NRounds
States == {"idle", "exchange", "replicate", "receive", "compute"}

------------------------------------------------------------------------------
(* The invariant                                                           *)

\* After the first k calls the panes of window w are replicated.
Replicated(w, k) ==
    \E i \in 1..k : /\ script[i].op = "transfer" /\ script[i].win = w
                    /\ \A h \in i + 1..k : script[h].op # "read_overlay"

\* The calls that exchange metadata
Exchanging(k) == script[k].op = "transfer" /\ ~Replicated(script[k].win, k - 1)
NumExchanges(k) == Cardinality({i \in 1..k : Exchanging(i)})

\* The panes of process r that others need from window w
ToSend(r, w) ==
    {x \in Ranks \X PanesOf(w) : Panes[x[2]].rank = r /\ x[2] \in Needs(x[1], w)}

Begun(r) == IF pc[r] = "idle" THEN done[r] ELSE done[r] + 1
Ready(r) == IF pc[r] \in {"idle", "exchange"} THEN done[r] ELSE done[r] + 1

\* The n-th exchange is the same in all processes.
AsksOK(r) ==
    /\ asks[r] \in Seq(SUBSET DOMAIN Panes)
    /\ Len(asks[r]) = NumExchanges(Begun(r))
    /\ \A i \in Rounds :
           Exchanging(i) /\ NumExchanges(i) <= Len(asks[r])
               => asks[r][NumExchanges(i)] = Needs(r, script[i].win)

MetaOK(r, w) ==
    /\ meta[r][w] \in [replicated : BOOLEAN, panes : SUBSET DOMAIN Panes,
                       to_send : SUBSET (Ranks \X DOMAIN Panes)]
    /\ meta[r][w].replicated <=> Replicated(w, Ready(r))
    /\ meta[r][w].panes = IF meta[r][w].replicated THEN Needs(r, w) ELSE {}
    /\ meta[r][w].to_send = IF meta[r][w].replicated THEN ToSend(r, w) ELSE {}

PlaceOK(r) ==
    /\ pc[r] # "idle" => done[r] < NRounds /\ Call(r).op = "transfer"
    /\ pc[r] = "exchange" => Exchanging(done[r] + 1)
    /\ pc[r] \in {"replicate", "receive", "compute"} => meta[r][Call(r).win].replicated

\* What process r has to receive in the k-th call
Due(k, r, p, what) ==
    /\ script[k].op = "transfer"
    /\ p \in Needs(r, script[k].win)
    /\ what = "data" \/ (what = "coor" /\ script[k].coor)

\* The message and the receive for it
Msg(k, r, p, what) ==
    [from |-> Panes[p].rank, to |-> r, tag |-> Tag(p, what), pane |-> p, what |-> what, round |-> k,
     buf |-> IF what = "data" THEN SendBuffer(p, r, script[k].kind, k)
             ELSE CoorBuffer(p, r, script[k].kind, k)]

Rcv(k, r, p, what, got) ==
    [from |-> Panes[p].rank, to |-> r, tag |-> Tag(p, what), pane |-> p, what |-> what,
     len |-> Len(Entries[p][r][script[k].kind]), got |-> got]

Messages == {Msg(k, r, p, what) : k \in Rounds, r \in Ranks, p \in DOMAIN Panes, what \in Whats}
Receives ==
    {Rcv(k, r, p, what, got) : k \in Rounds, r \in Ranks, p \in DOMAIN Panes, what \in Whats,
                               got \in {<<>>} \cup {<<m>> : m \in Messages}}

\* Process r has sent what it had to in the k-th call.
Posted(r, k) == k <= done[r] \/ (k = done[r] + 1 /\ pc[r] \in {"receive", "compute"})

InNet(k, r, p, what) == \E i \in DOMAIN net : net[i] = Msg(k, r, p, what)

Waiting(r, p, what) ==
    \E j \in DOMAIN recvs[r] :
        recvs[r][j].pane = p /\ recvs[r][j].what = what /\ recvs[r][j].got = <<>>

\* Process r has not received what it has to in the k-th call.
Outstanding(k, r, p, what) ==
    \/ ~Posted(r, k)
    \/ k = done[r] + 1 /\ pc[r] = "receive" /\ Waiting(r, p, what)

\* A posted receive is due in the call, and has got nothing or what is due.
RecvOK(r, x) ==
    /\ Due(done[r] + 1, r, x.pane, x.what)
    /\ x.got \in {<<>>, <<Msg(done[r] + 1, r, x.pane, x.what)>>}
    /\ x = Rcv(done[r] + 1, r, x.pane, x.what, x.got)

RecvsOK(r) ==
    /\ recvs[r] \in Seq(Receives)
    /\ pc[r] # "receive" => recvs[r] = <<>>
    /\ \A j \in DOMAIN recvs[r] : RecvOK(r, recvs[r][j])
    /\ \A i, j \in DOMAIN recvs[r] :
           recvs[r][i].pane = recvs[r][j].pane /\ recvs[r][i].what = recvs[r][j].what => i = j

MessageOK(m) ==
    /\ Due(m.round, m.to, m.pane, m.what)
    /\ m = Msg(m.round, m.to, m.pane, m.what)

\* Messages that a receive cannot tell apart are in the order of the calls.
Ordered ==
    \A i, j \in DOMAIN net :
        i < j /\ net[i].from = net[j].from /\ net[i].to = net[j].to /\ net[i].tag = net[j].tag
            => net[i].round < net[j].round

\* What is due is received once the owner of the pane has sent it and it is
\* no longer in flight, and not before.
Settled(k, r, p, what) ==
    /\ InNet(k, r, p, what) => Posted(Panes[p].rank, k)
    /\ Outstanding(k, r, p, what) <=> ~Posted(Panes[p].rank, k) \/ InNet(k, r, p, what)

NetOK ==
    /\ net \in Seq(Messages)
    /\ \A i \in DOMAIN net : MessageOK(net[i])
    /\ Ordered
    /\ \A k \in Rounds, r \in Ranks, p \in DOMAIN Panes, what \in Whats :
           Due(k, r, p, what) => Settled(k, r, p, what)

ControlOK ==
    /\ script \in Scripts
    /\ pc \in [Ranks -> States]
    /\ done \in [Ranks -> 0..NRounds]
    /\ DOMAIN asks = Ranks
    /\ DOMAIN meta = Ranks /\ \A r \in Ranks : DOMAIN meta[r] = 1..2
    /\ DOMAIN recvs = Ranks
    /\ DOMAIN bufs = Ranks

BufsOK(r) ==
    \A x \in DOMAIN bufs[r] : x[1] = "data" => pc[r] \in {"receive", "compute"}

ProcessOK(r) ==
    /\ AsksOK(r)
    /\ PlaceOK(r)
    /\ \A w \in 1..2 : MetaOK(r, w)
    /\ RecvsOK(r)
    /\ BufsOK(r)

IInv ==
    /\ ControlOK
    /\ \A r \in Ranks : ProcessOK(r)
    /\ NetOK

------------------------------------------------------------------------------
(* Lists of the elements of a finite set                                   *)

LEMMA LeastNatural ==
    ASSUME NEW S \in SUBSET Nat, S # {}
    PROVE  \E k \in S : \A l \in S : k <= l
<1>1. PICK k \in S : \A l \in S : <<l, k>> \notin OpToRel(<, Nat)
  BY NatLessThanWellFounded, WFMin, Zenon
<1>2. \A l \in S : ~(l < k)
  BY <1>1 DEF OpToRel
<1> QED
  BY <1>2

\* f lists the elements of S, each once.
Lists(f, S) ==
    /\ f \in [1..Cardinality(S) -> S]
    /\ Cardinality(S) \in Nat
    /\ \A x \in S : \E i \in 1..Cardinality(S) : f[i] = x
    /\ \A i, j \in 1..Cardinality(S) : f[i] = f[j] => i = j

\* lt is a strict total order on S.
Orders(lt, S) ==
    /\ \A x \in S : <<x, x>> \notin lt
    /\ \A x, y, z \in S : <<x, y>> \in lt /\ <<y, z>> \in lt => <<x, z>> \in lt
    /\ \A x, y \in S : x = y \/ <<x, y>> \in lt \/ <<y, x>> \in lt

\* How many elements of S come before x.
Place(S, lt, x) == Cardinality({y \in S : <<y, x>> \in lt})

\* No two elements have the same place, and there are as many places as elements.
LEMMA Places ==
    ASSUME NEW S, IsFiniteSet(S), NEW lt, Orders(lt, S)
    PROVE  /\ Cardinality(S) \in Nat
           /\ \A x \in S : Place(S, lt, x) \in 0..Cardinality(S) - 1
           /\ \A x, y \in S : <<x, y>> \in lt => Place(S, lt, x) < Place(S, lt, y)
           /\ \A x, y \in S : Place(S, lt, x) = Place(S, lt, y) => x = y
           /\ \A k \in 0..Cardinality(S) - 1 : \E x \in S : Place(S, lt, x) = k
<1> DEFINE n == Cardinality(S)
           B(x) == {y \in S : <<y, x>> \in lt}
           place == [x \in S |-> Cardinality(B(x))]
<1>1. n \in Nat
  BY FS_CardinalityType
<1>2. \A x \in S : B(x) \in SUBSET S /\ x \notin B(x)
  BY DEF Orders
<1>3. ASSUME NEW x \in S PROVE IsFiniteSet(B(x)) /\ Cardinality(B(x)) \in 0..n - 1
  <2>1. IsFiniteSet(B(x)) /\ Cardinality(B(x)) <= n /\ (n = Cardinality(B(x)) => S = B(x))
    BY <1>2, FS_Subset
  <2>2. Cardinality(B(x)) \in Nat
    BY <2>1, FS_CardinalityType
  <2>3. S # B(x)
    BY <1>2
  <2> HIDE DEF B, n
  <2> QED
    BY <1>1, <2>1, <2>2, <2>3
<1>4. ASSUME NEW x \in S, NEW y \in S, <<x, y>> \in lt PROVE place[x] < place[y]
  <2>1. B(x) \in SUBSET B(y)
    BY <1>4 DEF Orders
  <2>2. x \in B(y) /\ x \notin B(x)
    BY <1>2, <1>4
  <2>3. IsFiniteSet(B(y))
    BY <1>3
  <2>4. Cardinality(B(x)) <= Cardinality(B(y)) /\ (Cardinality(B(y)) = Cardinality(B(x)) => B(y) = B(x))
    BY <2>1, <2>3, FS_Subset
  <2>5. Cardinality(B(x)) \in Nat /\ Cardinality(B(y)) \in Nat
    BY <1>3, FS_CardinalityType
  <2>6. B(y) # B(x)
    BY <2>2
  <2> HIDE DEF B
  <2> QED
    BY <2>4, <2>5, <2>6
<1>5. \A x \in S : place[x] \in 0..n - 1
  BY <1>3
<1> HIDE DEF place
<1>6. \A x, y \in S : place[x] = place[y] => x = y
  <2> SUFFICES ASSUME NEW x \in S, NEW y \in S, place[x] = place[y] PROVE x = y
    OBVIOUS
  <2>1. ~(<<x, y>> \in lt) /\ ~(<<y, x>> \in lt)
    BY <1>1, <1>4, <1>5
  <2> QED
    BY <2>1 DEF Orders
<1>7. DOMAIN place = S
  BY DEF place
<1>8. place \in Injection(S, 0..n - 1)
  <2>1. place \in [S -> 0..n - 1]
    BY <1>5, <1>7 DEF place
  <2> QED
    BY <1>6, <2>1 DEF Injection, IsInjective
<1>9. IsFiniteSet(0..n - 1) /\ Cardinality(0..n - 1) = n
  <2>1. IsFiniteSet(0..n - 1) /\ Cardinality(0..n - 1) = IF 0 > n - 1 THEN 0 ELSE n - 1 - 0 + 1
    BY <1>1, FS_Interval
  <2> HIDE DEF n
  <2> QED
    BY <1>1, <2>1
<1>10. place \in Surjection(S, 0..n - 1)
  BY <1>8, <1>9, FS_Injection
<1>11. \A k \in 0..n - 1 : \E x \in S : place[x] = k
  BY <1>10 DEF Surjection
<1>12. \A x \in S : place[x] = Place(S, lt, x)
  BY DEF place, Place
<1> QED
  BY <1>1, <1>4, <1>5, <1>6, <1>11, <1>12

\* A list that has each element at its place is sorted.
LEMMA PlacesList ==
    ASSUME NEW S, IsFiniteSet(S), NEW lt, Orders(lt, S), NEW f \in [1..Cardinality(S) -> S],
           \A i \in 1..Cardinality(S) : Place(S, lt, f[i]) = i - 1
    PROVE  /\ Lists(f, S)
           /\ \A i, j \in 1..Cardinality(S) : i < j => <<f[i], f[j]>> \in lt
<1> DEFINE n == Cardinality(S)
<1>1. n \in Nat
  BY Places
<1>2. \A x \in S : Place(S, lt, x) \in 0..n - 1
  BY Places
<1>3. \A x, y \in S : <<x, y>> \in lt => Place(S, lt, x) < Place(S, lt, y)
  BY Places
<1>4. \A x, y \in S : Place(S, lt, x) = Place(S, lt, y) => x = y
  BY Places
<1> HIDE DEF n
<1>5. \A i \in 1..n : f[i] \in S /\ Place(S, lt, f[i]) = i - 1
  BY DEF n
<1>6. \A x \in S : \E i \in 1..n : f[i] = x
  <2> SUFFICES ASSUME NEW x \in S PROVE \E i \in 1..n : f[i] = x
    OBVIOUS
  <2>1. PICK l \in 0..n - 1 : l = Place(S, lt, x)
    BY <1>2
  <2>2. l + 1 \in 1..n /\ (l + 1) - 1 = l
    BY <1>1
  <2>3. f[l + 1] \in S /\ Place(S, lt, f[l + 1]) = Place(S, lt, x)
    BY <1>5, <2>1, <2>2
  <2> QED
    BY <1>4, <2>2, <2>3
<1>7. \A i, j \in 1..n : f[i] = f[j] => i = j
  <2> SUFFICES ASSUME NEW i \in 1..n, NEW j \in 1..n, f[i] = f[j] PROVE i = j
    OBVIOUS
  <2>1. i - 1 = j - 1
    BY <1>5
  <2> QED
    BY <1>1, <2>1
<1>8. \A i, j \in 1..n : i < j => <<f[i], f[j]>> \in lt
  <2> SUFFICES ASSUME NEW i \in 1..n, NEW j \in 1..n, i < j PROVE <<f[i], f[j]>> \in lt
    OBVIOUS
  <2>1. f[i] \in S /\ f[j] \in S /\ Place(S, lt, f[i]) = i - 1 /\ Place(S, lt, f[j]) = j - 1
    BY <1>5
  <2>2. f[i] # f[j]
    BY <1>7
  <2>3. ~(<<f[j], f[i]>> \in lt)
    <3>1. ~(j - 1 < i - 1)
      BY <1>1
    <3> QED
      BY <1>3, <2>1, <3>1
  <2> QED
    BY <2>1, <2>2, <2>3 DEF Orders
<1> QED
  BY <1>1, <1>6, <1>7, <1>8 DEF Lists, n

\* A set of integers, as std::sort leaves the lists of faces and nodes
LEMMA IntsInOrder ==
    ASSUME NEW S, IsFiniteSet(S), \A x \in S : x \in Int
    PROVE  /\ Lists(InOrder(S, <), S)
           /\ \A i, j \in 1..Cardinality(S) : i < j => InOrder(S, <)[i] < InOrder(S, <)[j]
<1> DEFINE lt == {x \in S \X S : x[1] < x[2]}
           f == InOrder(S, <)
<1>1. \A x, y \in S : <<x, y>> \in lt <=> x < y
  OBVIOUS
<1>2. \A x \in S : {y \in S : y < x} = {y \in S : <<y, x>> \in lt}
  BY <1>1
<1>3. \A x \in S : Cardinality({y \in S : y < x}) = Place(S, lt, x)
  BY <1>2 DEF Place
<1> HIDE DEF lt, f
<1>4. Orders(lt, S)
  BY <1>1 DEF Orders
<1>5. Cardinality(S) \in Nat /\ \A k \in 0..Cardinality(S) - 1 : \E x \in S : Place(S, lt, x) = k
  BY <1>4, Places
<1>6. ASSUME NEW i \in 1..Cardinality(S) PROVE f[i] \in S /\ Place(S, lt, f[i]) = i - 1
  <2>1. i - 1 \in 0..Cardinality(S) - 1
    BY <1>5
  <2> DEFINE IsNext(x) == Cardinality({y \in S : y < x}) = i - 1
  <2>2. \E x \in S : IsNext(x)
    BY <1>3, <1>5, <2>1
  <2>3. f[i] = CHOOSE x \in S : IsNext(x)
    BY DEF f, InOrder
  <2>4. \A x \in S : IsNext(x) => Place(S, lt, x) = i - 1
    BY <1>3
  <2> HIDE DEF IsNext
  <2>5. f[i] \in S /\ IsNext(f[i])
    BY <2>2, <2>3, Zenon
  <2> QED
    BY <2>4, <2>5
<1>7. f \in [1..Cardinality(S) -> S]
  BY <1>6 DEF f, InOrder
<1>8. Lists(f, S) /\ \A i, j \in 1..Cardinality(S) : i < j => <<f[i], f[j]>> \in lt
  BY <1>4, <1>6, <1>7, PlacesList
<1>9. \A i, j \in 1..Cardinality(S) : i < j => f[i] < f[j]
  BY <1>1, <1>7, <1>8
<1> QED
  BY <1>8, <1>9 DEF f

\* Tuples of integers, in the order of nested loops
LEMMA TuplesInOrder ==
    ASSUME NEW S, IsFiniteSet(S),
           \A x \in S : ~Lexicographic(x, x),
           \A x, y, z \in S : Lexicographic(x, y) /\ Lexicographic(y, z) => Lexicographic(x, z),
           \A x, y \in S : x = y \/ Lexicographic(x, y) \/ Lexicographic(y, x)
    PROVE  Lists(InOrder(S, Lexicographic), S)
<1> DEFINE lt == {x \in S \X S : Lexicographic(x[1], x[2])}
           f == InOrder(S, Lexicographic)
<1>1. \A x, y \in S : <<x, y>> \in lt <=> Lexicographic(x, y)
  OBVIOUS
<1>2. \A x \in S : {y \in S : Lexicographic(y, x)} = {y \in S : <<y, x>> \in lt}
  BY <1>1
<1>3. \A x \in S : Cardinality({y \in S : Lexicographic(y, x)}) = Place(S, lt, x)
  BY <1>2 DEF Place
<1> HIDE DEF lt
<1>4. Orders(lt, S)
  <2>1. \A x \in S : <<x, x>> \notin lt
    BY <1>1
  <2>2. \A x, y, z \in S : <<x, y>> \in lt /\ <<y, z>> \in lt => <<x, z>> \in lt
    BY <1>1
  <2>3. \A x, y \in S : x = y \/ <<x, y>> \in lt \/ <<y, x>> \in lt
    BY <1>1
  <2> QED
    BY <2>1, <2>2, <2>3 DEF Orders
<1>5. Cardinality(S) \in Nat /\ \A k \in 0..Cardinality(S) - 1 : \E x \in S : Place(S, lt, x) = k
  BY <1>4, Places
<1>6. ASSUME NEW i \in 1..Cardinality(S) PROVE f[i] \in S /\ Place(S, lt, f[i]) = i - 1
  <2>1. i - 1 \in 0..Cardinality(S) - 1
    BY <1>5
  <2> DEFINE IsNext(x) == Cardinality({y \in S : Lexicographic(y, x)}) = i - 1
  <2>2. \E x \in S : IsNext(x)
    BY <1>3, <1>5, <2>1
  <2>3. f[i] = CHOOSE x \in S : IsNext(x)
    BY DEF InOrder
  <2>4. \A x \in S : IsNext(x) => Place(S, lt, x) = i - 1
    BY <1>3
  <2> HIDE DEF IsNext, f
  <2>5. f[i] \in S /\ IsNext(f[i])
    BY <2>2, <2>3, Zenon
  <2> QED
    BY <2>4, <2>5
<1>7. f \in [1..Cardinality(S) -> S]
  BY <1>6 DEF InOrder
<1> HIDE DEF f
<1>8. Lists(f, S)
  BY <1>4, <1>6, <1>7, PlacesList
<1> QED
  BY <1>8 DEF f

LEMMA PairsBefore ==
    ASSUME NEW a1 \in Int, NEW a2 \in Int, NEW b1 \in Int, NEW b2 \in Int
    PROVE  Lexicographic(<<a1, a2>>, <<b1, b2>>) <=> a1 < b1 \/ (a1 = b1 /\ a2 < b2)
BY DEF Lexicographic

LEMMA TriplesBefore ==
    ASSUME NEW a1 \in Int, NEW a2 \in Int, NEW a3 \in Int,
           NEW b1 \in Int, NEW b2 \in Int, NEW b3 \in Int
    PROVE  Lexicographic(<<a1, a2, a3>>, <<b1, b2, b3>>)
               <=> a1 < b1 \/ (a1 = b1 /\ (a2 < b2 \/ (a2 = b2 /\ a3 < b3)))
BY DEF Lexicographic

------------------------------------------------------------------------------
(* The lists of receives, sends and entries                                *)

USE DEF Kinds

LEMMA SelectedInPane ==
    ASSUME NEW p \in DOMAIN Panes, NEW r, NEW kind \in Kinds
    PROVE  /\ Size(p, kind) \in Nat
           /\ \A n \in Selected(p, r, kind) : n \in 1..Size(p, kind)
           /\ IsFiniteSet(Selected(p, r, kind))
<1> DEFINE w == Win(p)
           X == {s[w] : s \in {s \in Opposite(r, w) : s[w].pane = p}}
<1>1. Size(p, kind) \in Nat
  BY TransferAssumption DEF Size
<1>2. w \in 1..2
  BY TransferAssumption DEF Win
<1>3. ASSUME NEW x \in X PROVE x.face \in 1..Panes[p].nfaces /\ x.nodes \subseteq 1..Panes[p].nnodes
  <2>1. PICK s \in Overlay : x = s[w] /\ s[w].pane = p
    BY DEF Opposite
  <2> QED
    BY <1>2, <2>1, TransferAssumption
<1> HIDE DEF X
<1>4. Selected(p, r, kind) = IF kind = "nodal" THEN UNION {x.nodes : x \in X} ELSE {x.face : x \in X}
  BY DEF Selected, X
<1>5. \A n \in Selected(p, r, kind) : n \in 1..Size(p, kind)
  BY <1>3, <1>4 DEF Size
<1>6. IsFiniteSet(1..Size(p, kind))
  BY <1>1, FS_Interval
<1>7. Selected(p, r, kind) \in SUBSET (1..Size(p, kind))
  BY <1>5
<1>8. IsFiniteSet(Selected(p, r, kind))
  BY <1>6, <1>7, FS_Subset
<1> QED
  BY <1>1, <1>5, <1>8

LEMMA EntriesListed ==
    ASSUME NEW p \in DOMAIN Panes, NEW r \in Ranks, NEW kind \in Kinds
    PROVE  /\ Lists(Entries[p][r][kind], Selected(p, r, kind))
           /\ \A i, j \in 1..Cardinality(Selected(p, r, kind)) :
                  i < j => Entries[p][r][kind][i] < Entries[p][r][kind][j]
           /\ Len(Entries[p][r][kind]) = Cardinality(Selected(p, r, kind))
           /\ DOMAIN Entries[p][r][kind] = 1..Cardinality(Selected(p, r, kind))
<1>1. Entries[p][r][kind] = InOrder(Selected(p, r, kind), <)
  BY DEF Entries
<1>2. IsFiniteSet(Selected(p, r, kind)) /\ \A n \in Selected(p, r, kind) : n \in Int
  BY SelectedInPane
<1>3. /\ Lists(InOrder(Selected(p, r, kind), <), Selected(p, r, kind))
      /\ \A i, j \in 1..Cardinality(Selected(p, r, kind)) :
             i < j => InOrder(Selected(p, r, kind), <)[i] < InOrder(Selected(p, r, kind), <)[j]
  BY <1>2, IntsInOrder
<1>4. /\ Lists(Entries[p][r][kind], Selected(p, r, kind))
      /\ \A i, j \in 1..Cardinality(Selected(p, r, kind)) :
             i < j => Entries[p][r][kind][i] < Entries[p][r][kind][j]
  BY <1>1, <1>3
<1> QED
  BY <1>4 DEF Lists

LEMMA IdsAreNumbers ==
    /\ \A r \in Ranks : r \in Int
    /\ \A p \in DOMAIN Panes : p \in Int
BY TransferAssumption

LEMMA ReceivedFacts ==
    ASSUME NEW c, c.coor \in BOOLEAN
    PROVE  /\ Sent(c) = Received(c)
           /\ DOMAIN Received(c) = IF c.coor THEN 1..2 ELSE 1..1
           /\ \A j \in DOMAIN Received(c) : Received(c)[j] = IF j = 1 THEN "data" ELSE "coor"
BY DEF Sent, Received

\* Every array that is due is in the list of receives once.
LEMMA ReceiveSlots ==
    ASSUME NEW P \in SUBSET DOMAIN Panes, NEW m \in 1..2
    PROVE  Lists(InOrder(P \X (1..m), Lexicographic), P \X (1..m))
<1> DEFINE J == 1..m
           S == P \X J
<1>1. IsFiniteSet(P)
  BY TransferAssumption, FS_Subset
<1>2. IsFiniteSet(J)
  BY FS_Interval
<1>3. IsFiniteSet(S)
  BY <1>1, <1>2, FS_Product
<1>4. \A x \in S : x[1] \in Int /\ x[2] \in Int /\ x = <<x[1], x[2]>>
  BY TransferAssumption
<1> HIDE DEF S
<1>5. \A x, y \in S : Lexicographic(x, y) <=> x[1] < y[1] \/ (x[1] = y[1] /\ x[2] < y[2])
  <2> SUFFICES ASSUME NEW x \in S, NEW y \in S
               PROVE  Lexicographic(x, y) <=> x[1] < y[1] \/ (x[1] = y[1] /\ x[2] < y[2])
    OBVIOUS
  <2>1. Lexicographic(<<x[1], x[2]>>, <<y[1], y[2]>>) <=> x[1] < y[1] \/ (x[1] = y[1] /\ x[2] < y[2])
    BY <1>4, PairsBefore
  <2>2. x = <<x[1], x[2]>> /\ y = <<y[1], y[2]>>
    BY <1>4
  <2> QED
    BY <2>1, <2>2, Zenon
<1>6. \A x \in S : ~Lexicographic(x, x)
  BY <1>4, <1>5
<1>7. \A x, y, z \in S : Lexicographic(x, y) /\ Lexicographic(y, z) => Lexicographic(x, z)
  BY <1>4, <1>5
<1>8. \A x, y \in S : x = y \/ Lexicographic(x, y) \/ Lexicographic(y, x)
  <2> SUFFICES ASSUME NEW x \in S, NEW y \in S PROVE x = y \/ Lexicographic(x, y) \/ Lexicographic(y, x)
    OBVIOUS
  <2>1. x[1] \in Int /\ x[2] \in Int /\ y[1] \in Int /\ y[2] \in Int
    BY <1>4
  <2>2. (x[1] = y[1] /\ x[2] = y[2]) \/ Lexicographic(x, y) \/ Lexicographic(y, x)
    BY <1>5, <2>1
  <2>3. x = <<x[1], x[2]>> /\ y = <<y[1], y[2]>>
    BY <1>4
  <2> QED
    BY <2>2, <2>3, Zenon
<1>9. Lists(InOrder(S, Lexicographic), S)
  BY <1>3, <1>6, <1>7, <1>8, TuplesInOrder
<1> QED
  BY <1>9 DEF S

LEMMA SendSlots ==
    ASSUME NEW T \in SUBSET (Ranks \X DOMAIN Panes), NEW m \in 1..2
    PROVE  Lists(InOrder(Slots(T, 1..m), Lexicographic), Slots(T, 1..m))
<1> DEFINE J == 1..m
           S == {<<x[1], x[2], j>> : x \in T, j \in J}
           f == [y \in T \X J |-> <<y[1][1], y[1][2], y[2]>>]
<1>1. IsFiniteSet(T)
  <2>1. IsFiniteSet(Ranks \X DOMAIN Panes)
    BY TransferAssumption, FS_Product
  <2> QED
    BY <2>1, FS_Subset
<1>2. IsFiniteSet(J)
  BY FS_Interval
<1>3. IsFiniteSet(T \X J)
  BY <1>1, <1>2, FS_Product
<1>4. f \in Surjection(T \X J, S)
  <2>1. f \in [T \X J -> S]
    OBVIOUS
  <2>2. ASSUME NEW z \in S PROVE \E y \in T \X J : f[y] = z
    <3>1. PICK x \in T, j \in J : z = <<x[1], x[2], j>>
      OBVIOUS
    <3>2. <<x, j>> \in T \X J /\ f[<<x, j>>] = z
      BY <3>1
    <3> QED
      BY <3>2
  <2> HIDE DEF f, S
  <2> QED
    BY <2>1, <2>2 DEF Surjection
<1>5. IsFiniteSet(S)
  BY <1>3, <1>4, FS_Surjection
<1>6. \A x \in S : x[1] \in Int /\ x[2] \in Int /\ x[3] \in Int /\ x = <<x[1], x[2], x[3]>>
  <2> SUFFICES ASSUME NEW z \in S
               PROVE  z[1] \in Int /\ z[2] \in Int /\ z[3] \in Int /\ z = <<z[1], z[2], z[3]>>
    OBVIOUS
  <2>1. PICK x \in T, j \in J : z = <<x[1], x[2], j>>
    OBVIOUS
  <2>2. x[1] \in Ranks /\ x[2] \in DOMAIN Panes /\ j \in Int
    OBVIOUS
  <2>3. x[1] \in Int /\ x[2] \in Int
    BY <2>2, IdsAreNumbers
  <2> QED
    BY <2>1, <2>2, <2>3
<1> HIDE DEF S
<1>7. \A x, y \in S : Lexicographic(x, y)
          <=> x[1] < y[1] \/ (x[1] = y[1] /\ (x[2] < y[2] \/ (x[2] = y[2] /\ x[3] < y[3])))
  <2> SUFFICES ASSUME NEW x \in S, NEW y \in S
               PROVE  Lexicographic(x, y)
                        <=> x[1] < y[1] \/ (x[1] = y[1] /\ (x[2] < y[2] \/ (x[2] = y[2] /\ x[3] < y[3])))
    OBVIOUS
  <2>1. Lexicographic(<<x[1], x[2], x[3]>>, <<y[1], y[2], y[3]>>)
          <=> x[1] < y[1] \/ (x[1] = y[1] /\ (x[2] < y[2] \/ (x[2] = y[2] /\ x[3] < y[3])))
    BY <1>6, TriplesBefore
  <2>2. x = <<x[1], x[2], x[3]>> /\ y = <<y[1], y[2], y[3]>>
    BY <1>6
  <2> QED
    BY <2>1, <2>2, Zenon
<1>8. \A x \in S : ~Lexicographic(x, x)
  BY <1>6, <1>7
<1>9. \A x, y, z \in S : Lexicographic(x, y) /\ Lexicographic(y, z) => Lexicographic(x, z)
  BY <1>6, <1>7
<1>10. \A x, y \in S : x = y \/ Lexicographic(x, y) \/ Lexicographic(y, x)
  <2> SUFFICES ASSUME NEW x \in S, NEW y \in S PROVE x = y \/ Lexicographic(x, y) \/ Lexicographic(y, x)
    OBVIOUS
  <2>1. /\ x[1] \in Int /\ x[2] \in Int /\ x[3] \in Int
        /\ y[1] \in Int /\ y[2] \in Int /\ y[3] \in Int
    BY <1>6
  <2>2. (x[1] = y[1] /\ x[2] = y[2] /\ x[3] = y[3]) \/ Lexicographic(x, y) \/ Lexicographic(y, x)
    BY <1>7, <2>1
  <2>3. x = <<x[1], x[2], x[3]>> /\ y = <<y[1], y[2], y[3]>>
    BY <1>6
  <2> QED
    BY <2>2, <2>3, Zenon
<1>11. Lists(InOrder(S, Lexicographic), S)
  BY <1>5, <1>8, <1>9, <1>10, TuplesInOrder
<1>12. S = Slots(T, 1..m)
  BY DEF S, Slots
<1> QED
  BY <1>11, <1>12

------------------------------------------------------------------------------
(* Tags                                                                    *)

LEMMA NeedsFacts ==
    ASSUME NEW r, NEW w \in 1..2, NEW p \in Needs(r, w)
    PROVE  p \in DOMAIN Panes /\ Win(p) = w /\ Panes[p].rank # r /\ Panes[p].rank \in Ranks
BY TransferAssumption DEF Needs, Opposite, Win

Offset(index, n, what) == 100 + index + IF what = "coor" THEN n ELSE 0

LEMMA OffsetsDiffer ==
    ASSUME NEW a \in Nat, NEW b \in Nat, NEW n \in Nat, a < n, b < n,
           NEW u \in Whats, NEW v \in Whats,
           Offset(a, n, u) = Offset(b, n, v)
    PROVE  u = v /\ a = b
<1>1. (u = "coor" /\ v = "coor") \/ (u = "coor" /\ v = "data") \/ (u = "data" /\ v = "coor") \/ (u = "data" /\ v = "data")
  BY DEF Whats
<1> QED
  BY <1>1 DEF Offset

\* The tags of the panes of one owner in one window differ, and so do those of
\* the data and the coordinates of a pane.
LEMMA TagsDiffer ==
    ASSUME NEW p \in DOMAIN Panes, NEW q \in DOMAIN Panes,
           Win(p) = Win(q), Panes[p].rank = Panes[q].rank,
           NEW u \in Whats, NEW v \in Whats, Tag(p, u) = Tag(q, v)
    PROVE  p = q /\ u = v
<1> DEFINE W == PanesOf(Win(p))
           E(x) == {y \in W : Panes[y].rank = Panes[p].rank /\ y < x}
           n == Cardinality(W)
<1>1. IsFiniteSet(W) /\ n \in Nat
  <2>1. W \in SUBSET DOMAIN Panes
    BY DEF PanesOf
  <2>2. IsFiniteSet(W)
    BY <2>1, TransferAssumption, FS_Subset
  <2> QED
    BY <2>2, FS_CardinalityType
<1>2. p \in W /\ q \in W /\ p \in Int /\ q \in Int /\ \A x \in W : x \in Int
  BY TransferAssumption DEF PanesOf
<1>3. Index(p) = Cardinality(E(p)) /\ Index(q) = Cardinality(E(q)) /\ PanesOf(Win(q)) = W
  BY DEF Index
<1> HIDE DEF W, n
<1>4. ASSUME NEW x \in W
      PROVE  IsFiniteSet(E(x)) /\ Cardinality(E(x)) \in Nat /\ Cardinality(E(x)) < n
  <2>1. E(x) \in SUBSET W
    OBVIOUS
  <2>2. IsFiniteSet(E(x)) /\ Cardinality(E(x)) <= n /\ (n = Cardinality(E(x)) => W = E(x))
    BY <1>1, <2>1, FS_Subset DEF n
  <2>3. W # E(x)
    BY <1>2
  <2>4. Cardinality(E(x)) \in Nat
    BY <2>2, FS_CardinalityType
  <2> HIDE DEF E
  <2> QED
    BY <1>1, <2>2, <2>3, <2>4
<1>5. ASSUME NEW x \in W, NEW y \in W, Panes[x].rank = Panes[p].rank, x < y
      PROVE  Cardinality(E(x)) < Cardinality(E(y))
  <2>1. E(x) \in SUBSET E(y)
    BY <1>2, <1>5
  <2>2. x \in E(y) /\ x \notin E(x)
    BY <1>2, <1>5
  <2>3. E(x) # E(y)
    BY <2>2
  <2>4. IsFiniteSet(E(y)) /\ Cardinality(E(x)) \in Nat /\ Cardinality(E(y)) \in Nat
    BY <1>4
  <2>5. Cardinality(E(x)) <= Cardinality(E(y)) /\ (Cardinality(E(y)) = Cardinality(E(x)) => E(y) = E(x))
    BY <2>1, <2>4, FS_Subset
  <2> HIDE DEF E
  <2> QED
    BY <2>3, <2>4, <2>5
<1> HIDE DEF E
<1>6. Tag(p, u) = Offset(Cardinality(E(p)), n, u)
  BY <1>3 DEF Tag, Offset, n, W
<1>7. Tag(q, v) = Offset(Cardinality(E(q)), n, v)
  BY <1>3 DEF Tag, Offset, n, W
<1>8. /\ Cardinality(E(p)) \in Nat /\ Cardinality(E(p)) < n
      /\ Cardinality(E(q)) \in Nat /\ Cardinality(E(q)) < n
  BY <1>2, <1>4
<1>9. u = v /\ Cardinality(E(p)) = Cardinality(E(q))
  <2>1. PICK a \in Nat, b \in Nat : a = Cardinality(E(p)) /\ b = Cardinality(E(q))
    BY <1>8
  <2>2. a < n /\ b < n /\ n \in Nat
    BY <1>1, <1>8, <2>1
  <2>3. Offset(a, n, u) = Offset(b, n, v)
    BY <1>6, <1>7, <2>1
  <2>4. u = v /\ a = b
    BY <2>2, <2>3, OffsetsDiffer
  <2> QED
    BY <2>1, <2>4
<1>10. ~(p < q) /\ ~(q < p)
  BY <1>2, <1>5, <1>8, <1>9
<1> QED
  BY <1>2, <1>9, <1>10

------------------------------------------------------------------------------
(* Calls and exchanges                                                     *)

LEMMA CallTypes ==
    ASSUME script \in Scripts, NEW k \in Rounds
    PROVE  /\ script[k].op \in {"transfer", "read_overlay"}
           /\ script[k].op = "transfer" =>
                  script[k].win \in 1..2 /\ script[k].kind \in Kinds /\ script[k].coor \in BOOLEAN
<1>1. script \in [Rounds -> [op : {"transfer"}, win : 1..2, kind : {"nodal", "facial"}, coor : BOOLEAN]
                                \cup [op : {"read_overlay"}]]
  BY TransferAssumption DEF Rounds
<1>2. script[k] \in [op : {"transfer"}, win : 1..2, kind : {"nodal", "facial"}, coor : BOOLEAN]
                        \cup [op : {"read_overlay"}]
  BY <1>1
<1> QED
  BY <1>2

LEMMA ExchangesCounted ==
    ASSUME NEW k \in Nat
    PROVE  /\ NumExchanges(k) \in Nat
           /\ NumExchanges(0) = 0
           /\ Exchanging(k + 1) => NumExchanges(k + 1) = NumExchanges(k) + 1
           /\ ~Exchanging(k + 1) => NumExchanges(k + 1) = NumExchanges(k)
<1> DEFINE E(n) == {i \in 1..n : Exchanging(i)}
<1>1. ASSUME NEW n \in Nat PROVE IsFiniteSet(E(n)) /\ Cardinality(E(n)) \in Nat
  <2>1. IsFiniteSet(1..n)
    BY FS_Interval
  <2>2. E(n) \in SUBSET (1..n)
    OBVIOUS
  <2>3. IsFiniteSet(E(n))
    BY <2>1, <2>2, FS_Subset
  <2> QED
    BY <2>3, FS_CardinalityType
<1>2. E(0) = {}
  OBVIOUS
<1>3. Cardinality(E(0)) = 0
  BY <1>2, FS_EmptySet
<1>4. ASSUME Exchanging(k + 1) PROVE Cardinality(E(k + 1)) = Cardinality(E(k)) + 1
  <2>1. E(k + 1) = E(k) \cup {k + 1} /\ k + 1 \notin E(k)
    BY <1>4
  <2>2. IsFiniteSet(E(k))
    BY <1>1
  <2>3. Cardinality(E(k) \cup {k + 1}) = IF k + 1 \in E(k) THEN Cardinality(E(k)) ELSE Cardinality(E(k)) + 1
    BY <2>2, FS_AddElement
  <2> HIDE DEF E
  <2> QED
    BY <2>1, <2>3
<1>5. ASSUME ~Exchanging(k + 1) PROVE E(k + 1) = E(k)
  BY <1>5
<1> QED
  BY <1>1, <1>3, <1>4, <1>5 DEF NumExchanges

LEMMA ExchangesGrow ==
    ASSUME NEW i \in Nat, NEW k \in Nat, i < k, Exchanging(k)
    PROVE  NumExchanges(i) < NumExchanges(k)
<1> DEFINE E(n) == {j \in 1..n : Exchanging(j)}
<1>1. E(i) \in SUBSET E(k) /\ k \in E(k) /\ k \notin E(i)
  OBVIOUS
<1>2. IsFiniteSet(E(k))
  <2>1. IsFiniteSet(1..k) /\ E(k) \in SUBSET (1..k)
    BY FS_Interval
  <2> QED
    BY <2>1, FS_Subset
<1>3. Cardinality(E(i)) <= Cardinality(E(k)) /\ (Cardinality(E(k)) = Cardinality(E(i)) => E(k) = E(i))
  BY <1>1, <1>2, FS_Subset
<1>4. Cardinality(E(i)) \in Nat /\ Cardinality(E(k)) \in Nat
  BY ExchangesCounted DEF NumExchanges
<1>5. E(k) # E(i)
  BY <1>1
<1>6. NumExchanges(i) = Cardinality(E(i)) /\ NumExchanges(k) = Cardinality(E(k))
  BY DEF NumExchanges
<1> HIDE DEF E
<1> QED
  BY <1>3, <1>4, <1>5, <1>6

\* What a call does to the replicated windows
LEMMA ReplicatedNext ==
    ASSUME NEW k \in Nat, NEW w
    PROVE  /\ ~Replicated(w, 0)
           /\ script[k + 1].op = "read_overlay" => ~Replicated(w, k + 1)
           /\ script[k + 1].op = "transfer" =>
                  (Replicated(w, k + 1) <=> Replicated(w, k) \/ script[k + 1].win = w)
<1>1. ~Replicated(w, 0)
  BY DEF Replicated
<1>2. ASSUME script[k + 1].op = "read_overlay" PROVE ~Replicated(w, k + 1)
  <2> SUFFICES ASSUME NEW i \in 1..k + 1, script[i].op = "transfer",
                      \A h \in i + 1..k + 1 : script[h].op # "read_overlay"
               PROVE  FALSE
    BY DEF Replicated
  <2>1. i # k + 1
    BY <1>2
  <2>2. k + 1 \in i + 1..k + 1
    BY <2>1
  <2> QED
    BY <1>2, <2>2
<1>3. ASSUME script[k + 1].op = "transfer", Replicated(w, k + 1), script[k + 1].win # w PROVE Replicated(w, k)
  <2>1. PICK i \in 1..k + 1 : /\ script[i].op = "transfer" /\ script[i].win = w
                              /\ \A h \in i + 1..k + 1 : script[h].op # "read_overlay"
    BY <1>3 DEF Replicated
  <2>2. i \in 1..k
    BY <1>3, <2>1
  <2>3. \A h \in i + 1..k : script[h].op # "read_overlay"
    BY <2>1
  <2> QED
    BY <2>1, <2>2, <2>3 DEF Replicated
<1>4. ASSUME script[k + 1].op = "transfer", script[k + 1].win = w PROVE Replicated(w, k + 1)
  <2>1. k + 1 \in 1..k + 1 /\ \A h \in k + 1 + 1..k + 1 : script[h].op # "read_overlay"
    OBVIOUS
  <2> QED
    BY <1>4, <2>1 DEF Replicated
<1>5. ASSUME script[k + 1].op = "transfer", Replicated(w, k) PROVE Replicated(w, k + 1)
  <2>1. PICK i \in 1..k : /\ script[i].op = "transfer" /\ script[i].win = w
                          /\ \A h \in i + 1..k : script[h].op # "read_overlay"
    BY <1>5 DEF Replicated
  <2>2. i \in 1..k + 1
    OBVIOUS
  <2>3. ASSUME NEW h \in i + 1..k + 1 PROVE script[h].op # "read_overlay"
    <3>1. CASE h = k + 1
      BY <1>5, <3>1
    <3>2. CASE h \in i + 1..k
      BY <2>1, <3>2
    <3> QED
      BY <3>1, <3>2
  <2> QED
    BY <2>1, <2>2, <2>3 DEF Replicated
<1> QED
  BY <1>1, <1>2, <1>3, <1>4, <1>5

\* The script does not change, and what is said of it does not either.
LEMMA ScriptKept ==
    ASSUME script' = script
    PROVE  /\ \A w, k : Replicated(w, k)' <=> Replicated(w, k)
           /\ \A k : Exchanging(k)' <=> Exchanging(k)
           /\ \A k : NumExchanges(k)' = NumExchanges(k)
           /\ \A k, r, p, what : Due(k, r, p, what)' <=> Due(k, r, p, what)
           /\ \A k, r, p, what : Msg(k, r, p, what)' = Msg(k, r, p, what)
           /\ \A k, r, p, what, got : Rcv(k, r, p, what, got)' = Rcv(k, r, p, what, got)
           /\ Messages' = Messages
           /\ Receives' = Receives
<1>1. \A w, k : Replicated(w, k)' <=> Replicated(w, k)
  BY DEF Replicated
<1>2. \A k : Exchanging(k)' <=> Exchanging(k)
  BY DEF Exchanging, Replicated
<1>3. \A k : NumExchanges(k)' = NumExchanges(k)
  BY DEF NumExchanges, Exchanging, Replicated
<1>4. \A k, r, p, what : Due(k, r, p, what)' <=> Due(k, r, p, what)
  BY DEF Due
<1>5. \A k, r, p, what : Msg(k, r, p, what)' = Msg(k, r, p, what)
  BY DEF Msg
<1>6. \A k, r, p, what, got : Rcv(k, r, p, what, got)' = Rcv(k, r, p, what, got)
  BY DEF Rcv
<1>7. Messages' = Messages
  BY DEF Messages, Msg
<1>8. Receives' = Receives
  BY DEF Receives, Rcv, Messages, Msg
<1> QED
  BY <1>1, <1>2, <1>3, <1>4, <1>5, <1>6, <1>7, <1>8

------------------------------------------------------------------------------
(* Messages and receives                                                   *)

LEMMA MsgFields ==
    ASSUME NEW k, NEW r, NEW p, NEW what
    PROVE  LET m == Msg(k, r, p, what)
           IN /\ m.from = Panes[p].rank /\ m.to = r /\ m.tag = Tag(p, what)
              /\ m.pane = p /\ m.what = what /\ m.round = k
BY DEF Msg

LEMMA RcvFields ==
    ASSUME NEW k, NEW r, NEW p, NEW what, NEW got
    PROVE  LET x == Rcv(k, r, p, what, got)
           IN /\ x.from = Panes[p].rank /\ x.to = r /\ x.tag = Tag(p, what)
              /\ x.pane = p /\ x.what = what /\ x.got = got
              /\ x.len = Len(Entries[p][r][script[k].kind])
BY DEF Rcv

\* A message has the length of the receive for it: both are that of the list of
\* entries, which the owner of the pane and the process that needs it make alike.
LEMMA MsgLength ==
    ASSUME NEW k, NEW r \in Ranks, NEW p \in DOMAIN Panes, NEW what, script[k].kind \in Kinds
    PROVE  Len(Msg(k, r, p, what).buf) = Len(Entries[p][r][script[k].kind])
<1> DEFINE kind == script[k].kind
           list == Entries[p][r][kind]
           n == Cardinality(Selected(p, r, kind))
<1>1. DOMAIN list = 1..n /\ Len(list) = n /\ n \in Nat
  BY EntriesListed DEF Lists
<1> HIDE DEF list, n
<1>2. Len(SendBuffer(p, r, kind, k)) = n
  <2>1. CASE Copied(p, kind)
    <3>1. SendBuffer(p, r, kind, k) = [i \in 1..n |-> Value(kind, p, list[i], k)]
      BY <1>1, <2>1 DEF SendBuffer, list
    <3> QED
      BY <1>1, <3>1
  <2>2. CASE ~Copied(p, kind)
    <3>1. SendBuffer(p, r, kind, k) = [i \in 1..n |-> Value(kind, p, i, k)]
      BY <1>1, <2>2 DEF SendBuffer, list
    <3> QED
      BY <1>1, <3>1
  <2> QED
    BY <2>1, <2>2
<1>3. Len(CoorBuffer(p, r, kind, k)) = n
  <2>1. CoorBuffer(p, r, kind, k) = [i \in 1..n |-> Value("coor", p, i, k)]
    BY <1>1 DEF CoorBuffer, list
  <2> QED
    BY <1>1, <2>1
<1>4. Msg(k, r, p, what).buf = IF what = "data" THEN SendBuffer(p, r, kind, k) ELSE CoorBuffer(p, r, kind, k)
  BY DEF Msg
<1> QED
  BY <1>1, <1>2, <1>3, <1>4 DEF list

LEMMA RemoveAtFacts ==
    ASSUME NEW S, NEW s \in Seq(S), NEW i \in 1..Len(s)
    PROVE  /\ RemoveAt(s, i) \in Seq(S)
           /\ Len(RemoveAt(s, i)) = Len(s) - 1
           /\ \A k \in 1..Len(s) - 1 : RemoveAt(s, i)[k] = IF k < i THEN s[k] ELSE s[k + 1]
<1> DEFINE a == SubSeq(s, 1, i - 1)
           b == SubSeq(s, i + 1, Len(s))
<1>1. a \in Seq(S) /\ Len(a) = i - 1 /\ \A k \in 1..i - 1 : a[k] = s[k]
  OBVIOUS
<1>2. b \in Seq(S) /\ Len(b) = Len(s) - i /\ \A k \in 1..Len(s) - i : b[k] = s[k + i]
  OBVIOUS
<1>3. RemoveAt(s, i) = a \o b
  BY DEF RemoveAt
<1> HIDE DEF a, b
<1>4. a \o b \in Seq(S) /\ Len(a \o b) = Len(s) - 1
  <2>1. a \o b \in Seq(S) /\ Len(a \o b) = Len(a) + Len(b)
    BY <1>1, <1>2, ConcatProperties
  <2>2. Len(s) \in Nat
    OBVIOUS
  <2> QED
    BY <1>1, <1>2, <2>1, <2>2
<1>5. ASSUME NEW k \in 1..Len(s) - 1 PROVE (a \o b)[k] = IF k < i THEN s[k] ELSE s[k + 1]
  <2>1. CASE k < i
    BY <1>1, <1>2, <2>1
  <2>2. CASE ~(k < i)
    <3>1. (a \o b)[k] = b[k - (i - 1)]
      BY <1>1, <1>2, <2>2
    <3>2. k - (i - 1) \in 1..Len(s) - i /\ k - (i - 1) + i = k + 1
      BY <2>2
    <3> QED
      BY <1>2, <2>2, <3>1, <3>2
  <2> QED
    BY <2>1, <2>2
<1> HIDE DEF a, b
<1> DEFINE c == a \o b
<1>6. c \in Seq(S) /\ Len(c) = Len(s) - 1 /\ \A k \in 1..Len(s) - 1 : c[k] = IF k < i THEN s[k] ELSE s[k + 1]
  BY <1>4, <1>5
<1> HIDE DEF c
<1> QED
  BY <1>3, <1>6 DEF c

------------------------------------------------------------------------------
(* What a step leaves alone                                                *)

\* Process s and its part of the state
Kept(s) ==
    /\ pc'[s] = pc[s] /\ done'[s] = done[s] /\ asks'[s] = asks[s]
    /\ meta'[s] = meta[s] /\ recvs'[s] = recvs[s] /\ bufs'[s] = bufs[s]

LEMMA AsksKept ==
    ASSUME NEW s, script' = script, asks'[s] = asks[s], Begun(s)' = Begun(s), AsksOK(s)
    PROVE  AsksOK(s)'
BY ScriptKept DEF AsksOK

LEMMA MetaKept ==
    ASSUME NEW s, NEW w, script' = script, meta'[s][w] = meta[s][w], Ready(s)' = Ready(s), MetaOK(s, w)
    PROVE  MetaOK(s, w)'
BY ScriptKept DEF MetaOK

LEMMA RecvsKept ==
    ASSUME NEW s, script' = script, recvs'[s] = recvs[s], done'[s] = done[s], pc'[s] = pc[s], RecvsOK(s)
    PROVE  RecvsOK(s)'
BY ScriptKept DEF RecvsOK, RecvOK

LEMMA OtherKept ==
    ASSUME NEW s \in Ranks, script' = script, Kept(s), ProcessOK(s)
    PROVE  ProcessOK(s)'
<1>1. /\ pc'[s] = pc[s] /\ done'[s] = done[s] /\ asks'[s] = asks[s]
      /\ meta'[s] = meta[s] /\ recvs'[s] = recvs[s] /\ bufs'[s] = bufs[s]
  BY DEF Kept
<1>2. Begun(s)' = Begun(s) /\ Ready(s)' = Ready(s)
  BY <1>1 DEF Begun, Ready
<1>3. AsksOK(s) /\ PlaceOK(s) /\ (\A w \in 1..2 : MetaOK(s, w)) /\ RecvsOK(s) /\ BufsOK(s)
  BY DEF ProcessOK
<1>4. AsksOK(s)'
  BY <1>1, <1>2, <1>3, AsksKept
<1>5. \A w \in 1..2 : MetaOK(s, w)'
  BY <1>1, <1>2, <1>3, MetaKept
<1>6. RecvsOK(s)'
  BY <1>1, <1>3, RecvsKept
<1>7. PlaceOK(s)'
  BY <1>1, <1>3, ScriptKept DEF PlaceOK, Call
<1>8. BufsOK(s)'
  BY <1>1, <1>3 DEF BufsOK
<1> QED
  BY <1>4, <1>5, <1>6, <1>7, <1>8 DEF ProcessOK

\* Nothing is sent or received, and what is due is as before.
LEMMA NetKept ==
    ASSUME script' = script, net' = net, NetOK,
           \A k \in Rounds, s \in Ranks, p \in DOMAIN Panes, what \in Whats :
               Due(k, s, p, what) => /\ Posted(Panes[p].rank, k)' <=> Posted(Panes[p].rank, k)
                                     /\ Outstanding(k, s, p, what)' <=> Outstanding(k, s, p, what)
    PROVE  NetOK'
<1>1. net \in Seq(Messages) /\ (\A i \in DOMAIN net : MessageOK(net[i])) /\ Ordered
  BY DEF NetOK
<1>2. net' \in Seq(Messages')
  BY <1>1, ScriptKept
<1>3. \A i \in DOMAIN net' : MessageOK(net[i])'
  BY <1>1, ScriptKept DEF MessageOK
<1>4. Ordered'
  BY <1>1 DEF Ordered
<1>5. ASSUME NEW k \in Rounds, NEW s \in Ranks, NEW p \in DOMAIN Panes, NEW what \in Whats, Due(k, s, p, what)'
      PROVE  Settled(k, s, p, what)'
  <2>1. Due(k, s, p, what)
    BY <1>5, ScriptKept
  <2>2. Settled(k, s, p, what)
    BY <2>1 DEF NetOK
  <2>3. InNet(k, s, p, what)' <=> InNet(k, s, p, what)
    BY ScriptKept DEF InNet
  <2>4. Posted(Panes[p].rank, k)' <=> Posted(Panes[p].rank, k)
    BY <2>1
  <2>5. Outstanding(k, s, p, what)' <=> Outstanding(k, s, p, what)
    BY <2>1
  <2> QED
    BY <2>2, <2>3, <2>4, <2>5 DEF Settled
<1> QED
  BY <1>2, <1>3, <1>4, <1>5 DEF NetOK

------------------------------------------------------------------------------
(* The steps of a process                                                  *)

\* A step of process r in its call
LEMMA RoundFacts ==
    ASSUME IInv, NEW r \in Ranks, done[r] < NRounds
    PROVE  /\ done[r] \in Nat /\ done[r] + 1 \in Rounds /\ (done[r] + 1) - 1 = done[r]
           /\ Call(r).op \in {"transfer", "read_overlay"}
           /\ Call(r).op = "transfer" =>
                  Call(r).win \in 1..2 /\ Call(r).kind \in Kinds /\ Call(r).coor \in BOOLEAN
<1>1. done[r] \in 0..NRounds /\ script \in Scripts /\ NRounds \in Nat
  BY TransferAssumption DEF IInv, ControlOK
<1>2. done[r] \in Nat /\ done[r] + 1 \in Rounds /\ (done[r] + 1) - 1 = done[r]
  BY <1>1 DEF Rounds
<1> QED
  BY <1>1, <1>2, CallTypes DEF Call

\* The first part of a call, in a process that has the metadata and in one that
\* has not: the exchanges begun are counted alike.
LEMMA BeginAsks ==
    ASSUME IInv, NEW r \in Ranks, Begin(r)
    PROVE  AsksOK(r)' /\ PlaceOK(r)' /\ \A w \in 1..2 : MetaOK(r, w)'
<1> DEFINE n == done[r]
           c == Call(r)
<1>1. /\ pc[r] = "idle" /\ n < NRounds /\ c.op = "transfer"
      /\ script' = script /\ done' = done /\ meta' = meta
  BY DEF Begin
<1>2. n \in Nat /\ n + 1 \in Rounds /\ (n + 1) - 1 = n /\ c.win \in 1..2 /\ c = script[n + 1]
  BY <1>1, RoundFacts DEF Call
<1>3. /\ pc \in [Ranks -> States] /\ DOMAIN asks = Ranks
      /\ AsksOK(r) /\ \A w \in 1..2 : MetaOK(r, w)
  BY DEF IInv, ControlOK, ProcessOK
<1>4. Begun(r) = n /\ Ready(r) = n
  BY <1>1 DEF Begun, Ready
<1>5. meta[r][c.win].replicated <=> Replicated(c.win, n)
  BY <1>2, <1>3, <1>4 DEF MetaOK
<1>6. Exchanging(n + 1) <=> ~meta[r][c.win].replicated
  BY <1>1, <1>2, <1>5 DEF Exchanging
<1>7. \A w \in 1..2 : Replicated(w, n + 1) <=> Replicated(w, n) \/ c.win = w
  BY <1>1, <1>2, ReplicatedNext
<1>8. \A s : Call(s)' = Call(s)
  BY <1>1 DEF Call
<1>9. CASE meta[r][c.win].replicated
  <2>1. pc' = [pc EXCEPT ![r] = "replicate"] /\ asks' = asks
    BY <1>9 DEF Begin
  <2>2. pc'[r] = "replicate"
    BY <1>3, <2>1
  <2>3. Begun(r)' = n + 1 /\ Ready(r)' = n + 1
    BY <1>1, <2>2 DEF Begun, Ready
  <2>4. NumExchanges(n + 1) = NumExchanges(n)
    BY <1>2, <1>6, <1>9, ExchangesCounted
  <2>5. AsksOK(r)'
    BY <1>1, <1>3, <1>4, <2>1, <2>3, <2>4, ScriptKept DEF AsksOK
  <2>6. \A w \in 1..2 : Replicated(w, n + 1) <=> Replicated(w, n)
    BY <1>5, <1>7, <1>9
  <2>7. \A w \in 1..2 : MetaOK(r, w)'
    BY <1>1, <1>3, <1>4, <2>3, <2>6, ScriptKept DEF MetaOK
  <2>8. PlaceOK(r)'
    BY <1>1, <1>8, <1>9, <2>2 DEF PlaceOK
  <2> QED
    BY <2>5, <2>7, <2>8
<1>10. CASE ~meta[r][c.win].replicated
  <2>1. pc' = [pc EXCEPT ![r] = "exchange"] /\ asks' = [asks EXCEPT ![r] = Append(@, Needs(r, c.win))]
    BY <1>10 DEF Begin
  <2>2. pc'[r] = "exchange" /\ asks'[r] = Append(asks[r], Needs(r, c.win))
    BY <1>3, <2>1
  <2>3. Begun(r)' = n + 1 /\ Ready(r)' = n
    BY <1>1, <2>2 DEF Begun, Ready
  <2>4. NumExchanges(n + 1) = NumExchanges(n) + 1 /\ NumExchanges(n) \in Nat
    BY <1>2, <1>6, <1>10, ExchangesCounted
  <2>5. AsksOK(r)'
    <3>1. asks[r] \in Seq(SUBSET DOMAIN Panes) /\ Len(asks[r]) = NumExchanges(n)
      BY <1>3, <1>4 DEF AsksOK
    <3>2. Needs(r, c.win) \in SUBSET DOMAIN Panes
      BY <1>2, NeedsFacts
    <3> HIDE DEF n, c
    <3>3. asks'[r] \in Seq(SUBSET DOMAIN Panes) /\ Len(asks'[r]) = NumExchanges(n + 1)
      BY <2>2, <2>4, <3>1, <3>2
    <3>4. ASSUME NEW i \in Rounds, Exchanging(i), NumExchanges(i) <= Len(asks'[r])
          PROVE  asks'[r][NumExchanges(i)] = Needs(r, script[i].win)
      <4>1. i \in Nat /\ NumExchanges(i) \in Nat /\ i - 1 \in Nat /\ (i - 1) + 1 = i
        BY ExchangesCounted, TransferAssumption DEF Rounds
      <4>2. NumExchanges(i) >= 1
        <5>1. NumExchanges((i - 1) + 1) = NumExchanges(i - 1) + 1 /\ NumExchanges(i - 1) \in Nat
          BY <3>4, <4>1, ExchangesCounted
        <5> QED
          BY <4>1, <5>1
      <4>3. CASE NumExchanges(i) <= Len(asks[r])
        <5>1. asks[r][NumExchanges(i)] = Needs(r, script[i].win)
          BY <1>3, <3>4, <4>3 DEF AsksOK
        <5>2. NumExchanges(i) \in 1..Len(asks[r])
          BY <3>1, <4>1, <4>2, <4>3
        <5> QED
          BY <2>2, <3>1, <5>1, <5>2
      <4>4. CASE NumExchanges(i) > Len(asks[r])
        <5>1. NumExchanges(i) = NumExchanges(n + 1) /\ NumExchanges(i) = Len(asks[r]) + 1
          BY <2>4, <3>1, <3>3, <3>4, <4>1, <4>4
        <5>2. ~(i < n + 1)
          BY <1>2, <1>6, <1>10, <4>1, <5>1, ExchangesGrow
        <5>3. ~(n + 1 < i)
          BY <1>2, <3>4, <4>1, <5>1, ExchangesGrow
        <5>4. i = n + 1
          BY <1>2, <4>1, <5>2, <5>3
        <5> QED
          BY <1>2, <2>2, <3>1, <5>1, <5>4
      <4> QED
        BY <3>1, <2>4, <4>1, <4>3, <4>4
    <3> QED
      BY <1>1, <2>3, <3>3, <3>4, ScriptKept DEF AsksOK
  <2>6. \A w \in 1..2 : MetaOK(r, w)'
    BY <1>1, <1>3, <1>4, <2>3, MetaKept
  <2>7. PlaceOK(r)'
    BY <1>1, <1>2, <1>6, <1>8, <1>10, <2>2, ScriptKept DEF PlaceOK
  <2> QED
    BY <2>5, <2>6, <2>7
<1> QED
  BY <1>9, <1>10

LEMMA NoRecvs ==
    ASSUME NEW r, recvs'[r] = <<>>
    PROVE  RecvsOK(r)'
<1>1. <<>> \in Seq(Receives') /\ DOMAIN <<>> = {}
  OBVIOUS
<1> QED
  BY <1>1 DEF RecvsOK

\* A step of process r that does not post, unpack or complete anything
LEMMA QuietStep ==
    ASSUME IInv, NEW r \in Ranks, script' = script, net' = net, recvs' = recvs, ControlOK',
           \A s \in Ranks \ {r} : Kept(s),
           AsksOK(r)', PlaceOK(r)', \A w \in 1..2 : MetaOK(r, w)', RecvsOK(r)', BufsOK(r)',
           \A k \in Rounds : script[k].op = "transfer" => (Posted(r, k)' <=> Posted(r, k)),
           pc[r] # "receive", pc'[r] # "receive"
    PROVE  IInv'
<1>1. \A s \in Ranks : ProcessOK(s)'
  <2>1. ProcessOK(r)'
    BY DEF ProcessOK
  <2>2. \A s \in Ranks \ {r} : ProcessOK(s)'
    BY OtherKept DEF IInv
  <2> QED
    BY <2>1, <2>2
<1>2. \A s \in Ranks, k \in Rounds : script[k].op = "transfer" => (Posted(s, k)' <=> Posted(s, k))
  BY DEF Kept, Posted
<1>3. \A s \in Ranks : s # r => done'[s] = done[s] /\ pc'[s] = pc[s]
  BY DEF Kept
<1>4. ASSUME NEW k \in Rounds, NEW s \in Ranks, NEW p \in DOMAIN Panes, NEW what \in Whats, Due(k, s, p, what)
      PROVE  /\ Posted(Panes[p].rank, k)' <=> Posted(Panes[p].rank, k)
             /\ Outstanding(k, s, p, what)' <=> Outstanding(k, s, p, what)
  <2>1. script[k].op = "transfer"
    BY <1>4 DEF Due
  <2>2. Panes[p].rank \in Ranks
    BY TransferAssumption
  <2>3. Posted(s, k)' <=> Posted(s, k)
    BY <1>2, <2>1
  <2>4. Waiting(s, p, what)' <=> Waiting(s, p, what)
    BY DEF Waiting
  <2>5. Outstanding(k, s, p, what)' <=> Outstanding(k, s, p, what)
    <3>1. CASE s = r
      BY <2>3, <2>4, <3>1 DEF Outstanding
    <3>2. CASE s # r
      BY <1>3, <2>3, <2>4, <3>2 DEF Outstanding
    <3> QED
      BY <3>1, <3>2
  <2> QED
    BY <1>2, <2>1, <2>2, <2>5
<1>5. NetOK'
  BY <1>4, NetKept DEF IInv
<1> QED
  BY <1>1, <1>5 DEF IInv

LEMMA BeginStep ==
    ASSUME IInv, NEW r \in Ranks, Begin(r)
    PROVE  IInv'
<1>1. /\ pc[r] = "idle" /\ done[r] < NRounds
      /\ script' = script /\ done' = done /\ meta' = meta /\ net' = net /\ recvs' = recvs /\ bufs' = bufs
  BY DEF Begin
<1>2. \E v \in {"exchange", "replicate"} : pc' = [pc EXCEPT ![r] = v]
  BY DEF Begin
<1>3. DOMAIN asks' = DOMAIN asks /\ \A s \in Ranks \ {r} : asks'[s] = asks[s]
  <2>1. DOMAIN asks = Ranks
    BY DEF IInv, ControlOK
  <2>2. asks' = asks \/ asks' = [asks EXCEPT ![r] = Append(@, Needs(r, Call(r).win))]
    BY DEF Begin
  <2> QED
    BY <2>1, <2>2
<1>4. ControlOK /\ ProcessOK(r)
  BY DEF IInv
<1>5. ControlOK'
  BY <1>1, <1>2, <1>3, <1>4 DEF ControlOK, States
<1>6. \A s \in Ranks \ {r} : Kept(s)
  BY <1>1, <1>2, <1>3, <1>4 DEF ControlOK, Kept
<1>7. pc'[r] \in {"exchange", "replicate"}
  BY <1>2, <1>4 DEF ControlOK
<1>8. recvs'[r] = <<>>
  BY <1>1, <1>4 DEF ProcessOK, RecvsOK
<1>9. RecvsOK(r)'
  BY <1>8, NoRecvs
<1>10. BufsOK(r)'
  BY <1>1, <1>4 DEF ProcessOK, BufsOK
<1>11. \A k \in Rounds : Posted(r, k)' <=> Posted(r, k)
  BY <1>1, <1>7 DEF Posted
<1>12. AsksOK(r)' /\ PlaceOK(r)' /\ \A w \in 1..2 : MetaOK(r, w)'
  BY BeginAsks
<1> QED
  BY <1>1, <1>5, <1>6, <1>7, <1>9, <1>10, <1>11, <1>12, QuietStep

\* The panes that the processes asked for in the same exchange
LEMMA ExchangeMeta ==
    ASSUME IInv, NEW r \in Ranks, Exchange(r)
    PROVE  \A w \in 1..2 : MetaOK(r, w)'
<1> DEFINE n == done[r]
           c == Call(r)
           l == Len(asks[r])
<1>1. /\ pc[r] = "exchange" /\ script' = script /\ done' = done
      /\ pc' = [pc EXCEPT ![r] = "replicate"]
      /\ \A s \in Ranks : Len(asks[s]) >= l
      /\ meta' = [meta EXCEPT ![r][c.win] =
             [replicated |-> TRUE, panes |-> asks[r][l],
              to_send |-> {x \in Ranks \X PanesOf(c.win) : Panes[x[2]].rank = r /\ x[2] \in asks[x[1]][l]}]]
  BY DEF Exchange
<1>2. /\ pc \in [Ranks -> States] /\ DOMAIN meta = Ranks /\ DOMAIN meta[r] = 1..2
      /\ AsksOK(r) /\ PlaceOK(r) /\ \A w \in 1..2 : MetaOK(r, w)
  BY DEF IInv, ControlOK, ProcessOK
<1>3. n < NRounds /\ c.op = "transfer" /\ Exchanging(n + 1)
  BY <1>1, <1>2 DEF PlaceOK
<1>4. n \in Nat /\ n + 1 \in Rounds /\ c.win \in 1..2 /\ c = script[n + 1]
  BY <1>3, RoundFacts DEF Call
<1>5. l = NumExchanges(n + 1)
  BY <1>1, <1>2 DEF AsksOK, Begun
<1>6. ASSUME NEW s \in Ranks PROVE asks[s][l] = Needs(s, c.win)
  <2>1. AsksOK(s)
    BY DEF IInv, ProcessOK
  <2>2. NumExchanges(n + 1) \in Nat
    BY <1>4, ExchangesCounted
  <2>5. Len(asks[s]) >= NumExchanges(n + 1) /\ Len(asks[s]) \in Nat
    BY <1>1, <1>5, <2>1 DEF AsksOK
  <2>3. NumExchanges(n + 1) <= Len(asks[s])
    BY <2>2, <2>5
  <2>4. asks[s][NumExchanges(n + 1)] = Needs(s, script[n + 1].win)
    BY <1>3, <1>4, <2>1, <2>3 DEF AsksOK
  <2> QED
    BY <1>4, <1>5, <2>4
<1>7. asks[r][l] = Needs(r, c.win)
  BY <1>6
<1>8. {x \in Ranks \X PanesOf(c.win) : Panes[x[2]].rank = r /\ x[2] \in asks[x[1]][l]} = ToSend(r, c.win)
  BY <1>6 DEF ToSend
<1>9. PICK v : /\ v = [replicated |-> TRUE, panes |-> Needs(r, c.win), to_send |-> ToSend(r, c.win)]
               /\ meta' = [meta EXCEPT ![r][c.win] = v]
  BY <1>1, <1>7, <1>8
<1>10. pc'[r] = "replicate"
  BY <1>1, <1>2
<1>11. Ready(r) = n /\ Ready(r)' = n + 1
  BY <1>1, <1>10 DEF Ready
<1>12. \A w \in 1..2 : Replicated(w, n + 1) <=> Replicated(w, n) \/ c.win = w
  BY <1>3, <1>4, ReplicatedNext
<1>17. PICK u \in 1..2 : u = c.win
  BY <1>4
<1> HIDE DEF n, c, l
<1>13. meta'[r][u] = [replicated |-> TRUE, panes |-> Needs(r, u), to_send |-> ToSend(r, u)]
  BY <1>2, <1>9, <1>17
<1>14. \A w \in 1..2 : w # u => meta'[r][w] = meta[r][w]
  BY <1>2, <1>9, <1>17
<1>15. MetaOK(r, u)'
  <2>1. Needs(r, u) \in SUBSET DOMAIN Panes
    BY NeedsFacts
  <2>2. ToSend(r, u) \in SUBSET (Ranks \X DOMAIN Panes)
    BY DEF ToSend, PanesOf
  <2>3. meta'[r][u] \in [replicated : BOOLEAN, panes : SUBSET DOMAIN Panes,
                             to_send : SUBSET (Ranks \X DOMAIN Panes)]
    BY <1>13, <2>1, <2>2
  <2>4. Replicated(u, n + 1)
    BY <1>12, <1>17
  <2>5. Replicated(u, Ready(r))'
    BY <1>1, <1>11, <2>4, ScriptKept
  <2>6. meta'[r][u].replicated /\ meta'[r][u].panes = Needs(r, u) /\ meta'[r][u].to_send = ToSend(r, u)
    BY <1>13
  <2> QED
    BY <2>3, <2>5, <2>6 DEF MetaOK
<1>16. \A w \in 1..2 : w # u => MetaOK(r, w)'
  <2> SUFFICES ASSUME NEW w \in 1..2, w # u PROVE MetaOK(r, w)'
    OBVIOUS
  <2>1. MetaOK(r, w) /\ meta'[r][w] = meta[r][w]
    BY <1>2, <1>14
  <2>2. Replicated(w, n + 1) <=> Replicated(w, n)
    BY <1>12, <1>17
  <2> QED
    BY <1>1, <1>11, <2>1, <2>2, ScriptKept DEF MetaOK
<1> QED
  BY <1>15, <1>16

LEMMA ExchangeStep ==
    ASSUME IInv, NEW r \in Ranks, Exchange(r)
    PROVE  IInv'
<1>1. /\ pc[r] = "exchange" /\ pc' = [pc EXCEPT ![r] = "replicate"]
      /\ script' = script /\ done' = done /\ asks' = asks /\ net' = net /\ recvs' = recvs /\ bufs' = bufs
  BY DEF Exchange
<1>2. \E w, v : meta' = [meta EXCEPT ![r][w] = v]
  BY DEF Exchange
<1>3. ControlOK /\ ProcessOK(r)
  BY DEF IInv
<1>4. ControlOK'
  BY <1>1, <1>2, <1>3 DEF ControlOK, States
<1>5. \A s \in Ranks \ {r} : Kept(s)
  BY <1>1, <1>2, <1>3 DEF ControlOK, Kept
<1>6. pc'[r] = "replicate"
  BY <1>1, <1>3 DEF ControlOK
<1>7. \A w \in 1..2 : MetaOK(r, w)'
  BY ExchangeMeta
<1>8. Begun(r)' = Begun(r)
  BY <1>1, <1>6 DEF Begun
<1>9. AsksOK(r)'
  BY <1>1, <1>3, <1>8, AsksKept DEF ProcessOK
<1>10. PlaceOK(r)'
  <2>1. done[r] < NRounds /\ Call(r).op = "transfer"
    BY <1>1, <1>3 DEF ProcessOK, PlaceOK
  <2>2. Call(r)' = Call(r)
    BY <1>1 DEF Call
  <2>3. PICK u \in 1..2 : u = Call(r).win
    BY <2>1, RoundFacts
  <2>4. meta'[r][u].replicated
    <3>1. DOMAIN meta = Ranks /\ DOMAIN meta[r] = 1..2
      BY <1>3 DEF ControlOK
    <3>2. PICK p, t : meta' = [meta EXCEPT ![r][Call(r).win] = [replicated |-> TRUE, panes |-> p, to_send |-> t]]
      BY DEF Exchange
    <3>3. meta'[r][u] = [replicated |-> TRUE, panes |-> p, to_send |-> t]
      BY <2>3, <3>1, <3>2
    <3> QED
      BY <3>3
  <2> QED
    BY <1>1, <1>6, <2>1, <2>2, <2>3, <2>4 DEF PlaceOK
<1>11. recvs'[r] = <<>>
  BY <1>1, <1>3 DEF ProcessOK, RecvsOK
<1>12. RecvsOK(r)'
  BY <1>11, NoRecvs
<1>13. BufsOK(r)'
  BY <1>1, <1>3 DEF ProcessOK, BufsOK
<1>14. \A k \in Rounds : Posted(r, k)' <=> Posted(r, k)
  BY <1>1, <1>6 DEF Posted
<1> QED
  BY <1>1, <1>4, <1>5, <1>6, <1>7, <1>9, <1>10, <1>12, <1>13, <1>14, QuietStep

LEMMA ReadOverlayStep ==
    ASSUME IInv, NEW r \in Ranks, ReadOverlay(r)
    PROVE  IInv'
<1> DEFINE n == done[r]
<1>1. /\ pc[r] = "idle" /\ n < NRounds /\ Call(r).op = "read_overlay"
      /\ meta' = [meta EXCEPT ![r] = [w \in 1..2 |-> NoMeta]]
      /\ bufs' = [bufs EXCEPT ![r] = <<>>]
      /\ done' = [done EXCEPT ![r] = @ + 1]
      /\ script' = script /\ pc' = pc /\ asks' = asks /\ net' = net /\ recvs' = recvs
  BY DEF ReadOverlay
<1>2. ControlOK /\ ProcessOK(r)
  BY DEF IInv
<1>3. n \in Nat /\ n + 1 \in Rounds /\ (n + 1) - 1 = n /\ Call(r) = script[n + 1]
  BY <1>1, RoundFacts DEF Call
<1>4. done'[r] = n + 1 /\ done' \in [Ranks -> 0..NRounds]
  <2>1. done \in [Ranks -> 0..NRounds] /\ NRounds \in Nat
    BY <1>2, TransferAssumption DEF ControlOK
  <2> QED
    BY <1>1, <2>1
<1>5. ControlOK'
  BY <1>1, <1>2, <1>4 DEF ControlOK
<1>6. \A s \in Ranks \ {r} : Kept(s)
  BY <1>1, <1>2 DEF ControlOK, Kept
<1>7. meta'[r] = [w \in 1..2 |-> NoMeta] /\ bufs'[r] = <<>>
  BY <1>1, <1>2 DEF ControlOK
<1>8. ~Exchanging(n + 1) /\ \A w \in 1..2 : ~Replicated(w, n + 1)
  BY <1>1, <1>3, ReplicatedNext DEF Exchanging
<1>9. NumExchanges(n + 1) = NumExchanges(n)
  BY <1>3, <1>8, ExchangesCounted
<1>10. AsksOK(r)'
  <2>1. Begun(r) = n /\ Begun(r)' = n + 1
    BY <1>1, <1>4 DEF Begun
  <2> QED
    BY <1>1, <1>2, <1>9, <2>1, ScriptKept DEF ProcessOK, AsksOK
<1>11. ASSUME NEW w \in 1..2 PROVE MetaOK(r, w)'
  <2>1. Ready(r)' = n + 1
    BY <1>1, <1>4 DEF Ready
  <2>2. ~Replicated(w, Ready(r))'
    BY <1>1, <1>8, <2>1, ScriptKept
  <2>3. meta'[r][w] = [replicated |-> FALSE, panes |-> {}, to_send |-> {}]
    BY <1>7 DEF NoMeta
  <2>4. meta'[r][w] \in [replicated : BOOLEAN, panes : SUBSET DOMAIN Panes,
                         to_send : SUBSET (Ranks \X DOMAIN Panes)]
    BY <2>3
  <2>5. ~meta'[r][w].replicated /\ meta'[r][w].panes = {} /\ meta'[r][w].to_send = {}
    BY <2>3
  <2> QED
    BY <2>2, <2>4, <2>5 DEF MetaOK
<1>12. PlaceOK(r)'
  BY <1>1 DEF PlaceOK
<1>13. recvs'[r] = <<>>
  BY <1>1, <1>2 DEF ProcessOK, RecvsOK
<1>14. RecvsOK(r)'
  BY <1>13, NoRecvs
<1>15. BufsOK(r)'
  <2>1. DOMAIN <<>> = {}
    OBVIOUS
  <2> QED
    BY <1>7, <2>1 DEF BufsOK
<1>16. \A k \in Rounds : script[k].op = "transfer" => (Posted(r, k)' <=> Posted(r, k))
  <2> SUFFICES ASSUME NEW k \in Rounds, script[k].op = "transfer" PROVE Posted(r, k)' <=> Posted(r, k)
    OBVIOUS
  <2>1. k \in Int /\ k # n + 1
    BY <1>1, <1>3 DEF Rounds
  <2>2. k <= n + 1 <=> k <= n
    BY <1>3, <2>1
  <2> QED
    BY <1>1, <1>4, <2>2 DEF Posted
<1> QED
  BY <1>1, <1>5, <1>6, <1>10, <1>11, <1>12, <1>14, <1>15, <1>16, QuietStep

LEMMA ClearStep ==
    ASSUME IInv, NEW r \in Ranks, Clear(r)
    PROVE  IInv'
<1> DEFINE n == done[r]
<1>1. /\ pc[r] = "compute" /\ pc' = [pc EXCEPT ![r] = "idle"]
      /\ bufs' = [bufs EXCEPT ![r] = [x \in {y \in DOMAIN bufs[r] : y[1] = "coor"} |-> bufs[r][x]]]
      /\ done' = [done EXCEPT ![r] = @ + 1]
      /\ script' = script /\ asks' = asks /\ meta' = meta /\ net' = net /\ recvs' = recvs
  BY DEF Clear
<1>2. ControlOK /\ ProcessOK(r)
  BY DEF IInv
<1>3. n < NRounds /\ Call(r).op = "transfer"
  BY <1>1, <1>2 DEF ProcessOK, PlaceOK
<1>4. n \in Nat /\ n + 1 \in Rounds
  BY <1>3, RoundFacts
<1>5. done'[r] = n + 1 /\ pc'[r] = "idle" /\ done' \in [Ranks -> 0..NRounds]
  <2>1. done \in [Ranks -> 0..NRounds] /\ pc \in [Ranks -> States] /\ NRounds \in Nat
    BY <1>2, TransferAssumption DEF ControlOK
  <2> QED
    BY <1>1, <1>3, <2>1
<1>6. ControlOK'
  BY <1>1, <1>2, <1>5 DEF ControlOK, States
<1>7. \A s \in Ranks \ {r} : Kept(s)
  BY <1>1, <1>2 DEF ControlOK, Kept
<1>8. Begun(r)' = Begun(r) /\ Ready(r)' = Ready(r)
  BY <1>1, <1>5 DEF Begun, Ready
<1>9. AsksOK(r)'
  BY <1>1, <1>2, <1>8, AsksKept DEF ProcessOK
<1>10. \A w \in 1..2 : MetaOK(r, w)'
  BY <1>1, <1>2, <1>8, MetaKept DEF ProcessOK
<1>11. PlaceOK(r)'
  BY <1>5 DEF PlaceOK
<1>12. recvs'[r] = <<>>
  BY <1>1, <1>2 DEF ProcessOK, RecvsOK
<1>13. RecvsOK(r)'
  BY <1>12, NoRecvs
<1>14. BufsOK(r)'
  <2>1. bufs'[r] = [x \in {y \in DOMAIN bufs[r] : y[1] = "coor"} |-> bufs[r][x]]
    BY <1>1, <1>2 DEF ControlOK
  <2>2. \A x \in DOMAIN bufs'[r] : x[1] = "coor"
    BY <2>1
  <2> QED
    BY <2>2 DEF BufsOK
<1>15. \A k \in Rounds : Posted(r, k)' <=> Posted(r, k)
  <2> SUFFICES ASSUME NEW k \in Rounds PROVE Posted(r, k)' <=> Posted(r, k)
    OBVIOUS
  <2>1. k \in Int
    BY DEF Rounds
  <2>2. k <= n + 1 <=> k <= n \/ k = n + 1
    BY <1>4, <2>1
  <2> QED
    BY <1>1, <1>5, <2>2 DEF Posted
<1> QED
  BY <1>1, <1>5, <1>6, <1>7, <1>9, <1>10, <1>11, <1>13, <1>14, <1>15, QuietStep

LEMMA RemoveAtElements ==
    ASSUME NEW S, NEW s \in Seq(S), NEW j \in 1..Len(s)
    PROVE  /\ RemoveAt(s, j) \in Seq(S)
           /\ \A h \in DOMAIN s : h # j => \E i \in DOMAIN RemoveAt(s, j) : RemoveAt(s, j)[i] = s[h]
           /\ \A i \in DOMAIN RemoveAt(s, j) : \E h \in DOMAIN s : h # j /\ RemoveAt(s, j)[i] = s[h]
           /\ \A a, b \in DOMAIN RemoveAt(s, j) : a < b =>
                  \E g, h \in DOMAIN s : /\ g < h /\ g # j /\ h # j
                                         /\ RemoveAt(s, j)[a] = s[g] /\ RemoveAt(s, j)[b] = s[h]
<1> DEFINE R == RemoveAt(s, j)
           n == Len(s)
           up(k) == IF k < j THEN k ELSE k + 1
<1>1. R \in Seq(S) /\ Len(R) = n - 1 /\ \A k \in 1..n - 1 : R[k] = IF k < j THEN s[k] ELSE s[k + 1]
  BY RemoveAtFacts
<1>2. n \in Nat /\ DOMAIN s = 1..n
  OBVIOUS
<1> HIDE DEF R
<1>3. DOMAIN R = 1..n - 1
  BY <1>1, <1>2
<1>4. \A k \in 1..n - 1 : up(k) \in 1..n /\ up(k) # j /\ R[k] = s[up(k)]
  BY <1>1, <1>2
<1>5. \A a, b \in 1..n - 1 : a < b => up(a) < up(b)
  BY <1>2
<1>6. ASSUME NEW h \in 1..n, h # j PROVE \E k \in 1..n - 1 : up(k) = h
  <2>1. CASE h < j
    <3>1. h \in 1..n - 1 /\ up(h) = h
      BY <1>2, <2>1
    <3> QED
      BY <3>1
  <2>2. CASE h > j
    <3>1. h - 1 \in 1..n - 1 /\ up(h - 1) = h
      BY <1>2, <2>2
    <3> QED
      BY <3>1
  <2> QED
    BY <1>2, <1>6, <2>1, <2>2
<1> HIDE DEF up, n
<1>7. \A h \in DOMAIN s : h # j => \E i \in DOMAIN R : R[i] = s[h]
  BY <1>2, <1>3, <1>4, <1>6
<1>8. \A i \in DOMAIN R : \E h \in DOMAIN s : h # j /\ R[i] = s[h]
  BY <1>2, <1>3, <1>4
<1>9. \A a, b \in DOMAIN R : a < b =>
          \E g, h \in DOMAIN s : g < h /\ g # j /\ h # j /\ R[a] = s[g] /\ R[b] = s[h]
  BY <1>2, <1>3, <1>4, <1>5
<1> QED
  BY <1>1, <1>7, <1>8, <1>9 DEF R

LEMMA UnpackStep ==
    ASSUME IInv, NEW r \in Ranks, NEW j \in DOMAIN recvs[r], Unpack(r, j)
    PROVE  IInv'
<1>1. /\ pc[r] = "receive" /\ recvs[r][j].got # <<>>
      /\ recvs' = [recvs EXCEPT ![r] = RemoveAt(@, j)]
      /\ script' = script /\ pc' = pc /\ done' = done /\ asks' = asks /\ meta' = meta /\ net' = net
  BY DEF Unpack
<1>2. \E b : bufs' = [bufs EXCEPT ![r] = b]
  BY DEF Unpack
<1>3. ControlOK /\ ProcessOK(r) /\ RecvsOK(r)
  BY DEF IInv, ProcessOK
<1>4. ControlOK'
  BY <1>1, <1>2, <1>3 DEF ControlOK
<1>5. \A s \in Ranks \ {r} : Kept(s)
  BY <1>1, <1>2, <1>3 DEF ControlOK, Kept
<1>6. Begun(r)' = Begun(r) /\ Ready(r)' = Ready(r)
  BY <1>1 DEF Begun, Ready
<1>7. AsksOK(r)'
  BY <1>1, <1>3, <1>6, AsksKept DEF ProcessOK
<1>8. \A w \in 1..2 : MetaOK(r, w)'
  BY <1>1, <1>3, <1>6, MetaKept DEF ProcessOK
<1>9. PlaceOK(r)'
  BY <1>1, <1>3, ScriptKept DEF ProcessOK, PlaceOK, Call
<1>10. BufsOK(r)'
  BY <1>1 DEF BufsOK
<1>20. PICK x, y : x = recvs[r] /\ y = recvs'[r]
  OBVIOUS
<1>11. y = RemoveAt(x, j)
  BY <1>1, <1>3, <1>20 DEF ControlOK
<1>12. x \in Seq(Receives) /\ j \in 1..Len(x)
  BY <1>3, <1>20 DEF RecvsOK
<1>13. /\ y \in Seq(Receives)
       /\ \A h \in DOMAIN x : h # j => \E i \in DOMAIN y : y[i] = x[h]
       /\ \A i \in DOMAIN y : \E h \in DOMAIN x : h # j /\ y[i] = x[h]
       /\ \A a, b \in DOMAIN y : a < b =>
              \E g, h \in DOMAIN x : g < h /\ g # j /\ h # j /\ y[a] = x[g] /\ y[b] = x[h]
  BY <1>11, <1>12, RemoveAtElements
<1>14. RecvsOK(r)'
  <2>1. \A i \in DOMAIN y : RecvOK(r, y[i])
    <3>1. \A h \in DOMAIN x : RecvOK(r, x[h])
      BY <1>3, <1>20 DEF RecvsOK
    <3> QED
      BY <1>13, <3>1
  <2>2. ASSUME NEW a \in DOMAIN y, NEW b \in DOMAIN y, y[a].pane = y[b].pane, y[a].what = y[b].what
        PROVE  a = b
    <3>1. \A g, h \in DOMAIN x : x[g].pane = x[h].pane /\ x[g].what = x[h].what => g = h
      BY <1>3, <1>20 DEF RecvsOK
    <3>2. DOMAIN y = 1..Len(y) /\ DOMAIN x = 1..Len(x) /\ Len(x) \in Nat /\ Len(y) \in Nat
      BY <1>12, <1>13
    <3>3. ASSUME NEW c \in DOMAIN y, NEW d \in DOMAIN y, c < d,
                 y[c].pane = y[d].pane, y[c].what = y[d].what
          PROVE  FALSE
      <4>1. PICK g \in DOMAIN x, h \in DOMAIN x : g < h /\ y[c] = x[g] /\ y[d] = x[h]
        BY <1>13, <3>3
      <4>2. g = h
        BY <3>1, <3>3, <4>1
      <4> QED
        BY <3>2, <4>1, <4>2
    <3>4. ~(a < b) /\ ~(b < a)
      BY <2>2, <3>3
    <3> QED
      BY <3>2, <3>4
  <2>3. \A i \in DOMAIN y : RecvOK(r, y[i])'
    <3> SUFFICES ASSUME NEW i \in DOMAIN y PROVE RecvOK(r, y[i])'
      OBVIOUS
    <3> QED
      BY <1>1, <2>1, ScriptKept DEF RecvOK
  <2> QED
    BY <1>1, <1>13, <1>20, <2>2, <2>3, ScriptKept DEF RecvsOK
<1>15. \A p, what : Waiting(r, p, what)' <=> Waiting(r, p, what)
  <2> SUFFICES ASSUME NEW p, NEW what PROVE Waiting(r, p, what)' <=> Waiting(r, p, what)
    OBVIOUS
  <2>1. Waiting(r, p, what) <=> \E h \in DOMAIN x : x[h].pane = p /\ x[h].what = what /\ x[h].got = <<>>
    BY <1>20 DEF Waiting
  <2>2. Waiting(r, p, what)' <=> \E h \in DOMAIN y : y[h].pane = p /\ y[h].what = what /\ y[h].got = <<>>
    BY <1>20 DEF Waiting
  <2>3. x[j].got # <<>>
    BY <1>1, <1>20
  <2> QED
    BY <1>13, <2>1, <2>2, <2>3
<1>16. \A s \in Ranks, k \in Rounds : \A p, what : Outstanding(k, s, p, what)' <=> Outstanding(k, s, p, what)
  <2> SUFFICES ASSUME NEW s \in Ranks, NEW k \in Rounds, NEW p, NEW what
               PROVE  Outstanding(k, s, p, what)' <=> Outstanding(k, s, p, what)
    OBVIOUS
  <2>1. Waiting(s, p, what)' <=> Waiting(s, p, what)
    <3>1. CASE s = r
      BY <1>15, <3>1
    <3>2. CASE s # r
      BY <1>5, <3>2 DEF Kept, Waiting
    <3> QED
      BY <3>1, <3>2
  <2> QED
    BY <1>1, <2>1 DEF Outstanding, Posted
<1>17. NetOK'
  <2>1. \A s, k : Posted(s, k)' <=> Posted(s, k)
    BY <1>1 DEF Posted
  <2> QED
    BY <1>1, <1>16, <2>1, NetKept DEF IInv
<1>18. \A s \in Ranks \ {r} : ProcessOK(s)'
  BY <1>1, <1>5, OtherKept DEF IInv
<1>19. ProcessOK(r)'
  BY <1>7, <1>8, <1>9, <1>10, <1>14 DEF ProcessOK
<1> QED
  BY <1>4, <1>17, <1>18, <1>19 DEF IInv

LEMMA WaitAllStep ==
    ASSUME IInv, NEW r \in Ranks, WaitAll(r)
    PROVE  IInv'
<1>1. /\ pc[r] = "receive" /\ pc' = [pc EXCEPT ![r] = "compute"]
      /\ \A j \in DOMAIN recvs[r] : recvs[r][j].got # <<>>
      /\ recvs' = [recvs EXCEPT ![r] = <<>>]
      /\ script' = script /\ done' = done /\ asks' = asks /\ meta' = meta /\ net' = net
  BY DEF WaitAll
<1>2. \E b : bufs' = [bufs EXCEPT ![r] = b]
  BY DEF WaitAll
<1>3. ControlOK /\ ProcessOK(r) /\ RecvsOK(r)
  BY DEF IInv, ProcessOK
<1>4. ControlOK'
  BY <1>1, <1>2, <1>3 DEF ControlOK, States
<1>5. \A s \in Ranks \ {r} : Kept(s)
  BY <1>1, <1>2, <1>3 DEF ControlOK, Kept
<1>6. pc'[r] = "compute" /\ recvs'[r] = <<>>
  BY <1>1, <1>3 DEF ControlOK
<1>7. Begun(r)' = Begun(r) /\ Ready(r)' = Ready(r)
  BY <1>1, <1>6 DEF Begun, Ready
<1>8. AsksOK(r)'
  BY <1>1, <1>3, <1>7, AsksKept DEF ProcessOK
<1>9. \A w \in 1..2 : MetaOK(r, w)'
  BY <1>1, <1>3, <1>7, MetaKept DEF ProcessOK
<1>10. PlaceOK(r)'
  BY <1>1, <1>3, <1>6, ScriptKept DEF ProcessOK, PlaceOK, Call
<1>11. BufsOK(r)'
  BY <1>6 DEF BufsOK
<1>12. RecvsOK(r)'
  BY <1>6, NoRecvs
<1>13. \A s \in Ranks, k \in Rounds : Posted(s, k)' <=> Posted(s, k)
  <2> SUFFICES ASSUME NEW s \in Ranks, NEW k \in Rounds PROVE Posted(s, k)' <=> Posted(s, k)
    OBVIOUS
  <2>1. CASE s = r
    BY <1>1, <1>6, <2>1 DEF Posted
  <2>2. CASE s # r
    BY <1>1, <1>5, <2>2 DEF Posted, Kept
  <2> QED
    BY <2>1, <2>2
<1>14. ASSUME NEW s \in Ranks, NEW k \in Rounds, NEW p, NEW what
       PROVE  Outstanding(k, s, p, what)' <=> Outstanding(k, s, p, what)
  <2>1. CASE s = r
    <3>1. ~Waiting(r, p, what)
      BY <1>1 DEF Waiting
    <3> QED
      BY <1>6, <1>13, <2>1, <3>1 DEF Outstanding
  <2>2. CASE s # r
    <3>1. Waiting(s, p, what)' <=> Waiting(s, p, what)
      BY <1>5, <2>2 DEF Kept, Waiting
    <3> QED
      BY <1>5, <1>13, <2>2, <3>1 DEF Outstanding, Kept
  <2> QED
    BY <2>1, <2>2
<1>15. NetOK'
  <2>1. \A p \in DOMAIN Panes : Panes[p].rank \in Ranks
    BY TransferAssumption
  <2> QED
    BY <1>1, <1>13, <1>14, <2>1, NetKept DEF IInv
<1>16. \A s \in Ranks \ {r} : ProcessOK(s)'
  BY <1>1, <1>5, OtherKept DEF IInv
<1>17. ProcessOK(r)'
  BY <1>8, <1>9, <1>10, <1>11, <1>12 DEF ProcessOK
<1> QED
  BY <1>4, <1>15, <1>16, <1>17 DEF IInv

------------------------------------------------------------------------------
(* Delivery                                                                *)

\* The i-th message in flight is what is due to process r of pane p in its
\* k-th call, in which it is, and goes to the q-th receive, which is for it.
Matches(i, k, r, p, what, q) ==
    /\ k \in Rounds /\ r \in Ranks /\ p \in DOMAIN Panes /\ what \in Whats
    /\ net[i] = Msg(k, r, p, what) /\ Due(k, r, p, what)
    /\ k = done[r] + 1 /\ pc[r] = "receive"
    /\ q \in DOMAIN recvs[r] /\ recvs[r][q] = Rcv(k, r, p, what, <<>>)

Completes(i, r, q) == recvs' = [recvs EXCEPT ![r][q].got = <<net[i]>>]

LEMMA MessageParts ==
    ASSUME NetOK, NEW i \in DOMAIN net
    PROVE  \E k \in Rounds, r \in Ranks, p \in DOMAIN Panes, what \in Whats :
               net[i] = Msg(k, r, p, what) /\ Due(k, r, p, what)
<1>1. net[i] \in Messages /\ MessageOK(net[i])
  BY DEF NetOK
<1>2. PICK k \in Rounds, r \in Ranks, p \in DOMAIN Panes, what \in Whats : net[i] = Msg(k, r, p, what)
  BY <1>1 DEF Messages
<1>3. net[i].round = k /\ net[i].to = r /\ net[i].pane = p /\ net[i].what = what
  BY <1>2, MsgFields
<1>4. Due(k, r, p, what)
  BY <1>1, <1>3 DEF MessageOK
<1> QED
  BY <1>2, <1>4

LEMMA ReceiveParts ==
    ASSUME NEW r, RecvsOK(r), NEW j \in DOMAIN recvs[r]
    PROVE  /\ pc[r] = "receive"
           /\ \E p \in DOMAIN Panes, what \in Whats : \E got :
                  /\ recvs[r][j] = Rcv(done[r] + 1, r, p, what, got)
                  /\ Due(done[r] + 1, r, p, what)
                  /\ got \in {<<>>, <<Msg(done[r] + 1, r, p, what)>>}
<1>1. recvs[r][j] \in Receives /\ RecvOK(r, recvs[r][j])
  BY DEF RecvsOK
<1>2. recvs[r] # <<>>
  OBVIOUS
<1>3. pc[r] = "receive"
  BY <1>2 DEF RecvsOK
<1>4. recvs[r][j].pane \in DOMAIN Panes /\ recvs[r][j].what \in Whats
  BY <1>1, RcvFields DEF Receives
<1> QED
  BY <1>1, <1>3, <1>4 DEF RecvOK

LEMMA DeliverMatches ==
    ASSUME IInv, NEW i \in DOMAIN net, Deliver(i)
    PROVE  \E k, r, p, what, q : Matches(i, k, r, p, what, q) /\ Completes(i, r, q)
<1>1. PICK k \in Rounds, r \in Ranks, p \in DOMAIN Panes, what \in Whats :
          net[i] = Msg(k, r, p, what) /\ Due(k, r, p, what)
  BY MessageParts DEF IInv
<1>2. /\ net[i].from = Panes[p].rank /\ net[i].to = r /\ net[i].tag = Tag(p, what) /\ net[i].round = k
  BY <1>1, MsgFields
<1> DEFINE waiting == {j \in DOMAIN recvs[r] :
                          /\ recvs[r][j].from = Panes[p].rank /\ recvs[r][j].to = r
                          /\ recvs[r][j].tag = Tag(p, what) /\ recvs[r][j].got = <<>>}
           q == Min(waiting)
           n == done[r]
           s == Panes[p].rank
<1>3. /\ waiting # {}
      /\ recvs' = [recvs EXCEPT ![r][q].got = <<net[i]>>]
      /\ \A h \in 1..i - 1 : ~(net[h].from = s /\ net[h].to = r /\ net[h].tag = Tag(p, what))
  <2>1. waiting = {j \in DOMAIN recvs[net[i].to] :
                      (/\ recvs[net[i].to][j].from = net[i].from /\ recvs[net[i].to][j].to = net[i].to
                       /\ recvs[net[i].to][j].tag = net[i].tag) /\ recvs[net[i].to][j].got = <<>>}
    BY <1>2
  <2> HIDE DEF waiting
  <2> QED
    BY <1>2, <2>1 DEF Deliver
<1>4. RecvsOK(r) /\ done[r] \in Nat /\ NetOK /\ s \in Ranks /\ done[s] \in Nat
  <2>1. s \in Ranks
    BY TransferAssumption
  <2> QED
    BY <2>1 DEF IInv, ProcessOK, ControlOK
<1>5. q \in waiting
  <2>1. recvs[r] \in Seq(Receives)
    BY <1>4 DEF RecvsOK
  <2>2. waiting \in SUBSET Nat
    BY <2>1
  <2> HIDE DEF waiting
  <2>3. PICK j \in waiting : \A h \in waiting : j <= h
    BY <1>3, <2>2, LeastNatural
  <2> QED
    BY <2>3 DEF Min
<1>6. /\ q \in DOMAIN recvs[r] /\ recvs[r][q].from = s
      /\ recvs[r][q].tag = Tag(p, what) /\ recvs[r][q].got = <<>>
  BY <1>5
<1> HIDE DEF q, waiting
<1>7. pc[r] = "receive"
  BY <1>4, <1>6, ReceiveParts
<1>8. PICK z, u, got :
          z \in DOMAIN Panes /\ u \in Whats /\ recvs[r][q] = Rcv(n + 1, r, z, u, got) /\ Due(n + 1, r, z, u)
  BY <1>4, <1>6, ReceiveParts
<1>9. /\ got = <<>> /\ Panes[z].rank = s /\ Tag(z, u) = Tag(p, what)
      /\ recvs[r][q].pane = z /\ recvs[r][q].what = u
  BY <1>6, <1>8, RcvFields
<1>10. k >= n + 1 /\ Posted(s, k)
  <2>1. InNet(k, r, p, what)
    BY <1>1 DEF InNet
  <2>2. Settled(k, r, p, what)
    BY <1>1, <1>4 DEF NetOK
  <2>3. Posted(s, k) /\ Outstanding(k, r, p, what)
    BY <2>1, <2>2 DEF Settled
  <2>4. ~(k <= n)
    BY <1>4, <2>3 DEF Outstanding, Posted
  <2> QED
    BY <1>4, <2>3, <2>4 DEF Rounds
<1>11. n < NRounds /\ n + 1 \in Rounds
  <2>1. n < NRounds
    BY <1>7 DEF IInv, ProcessOK, PlaceOK
  <2> QED
    BY <1>4, <2>1, RoundFacts
<1>12. k = n + 1
  <2> SUFFICES ASSUME k > n + 1 PROVE FALSE
    BY <1>4, <1>10 DEF Rounds
  <2>1. k \in Int
    BY DEF Rounds
  <2>2. Posted(s, n + 1)
    BY <1>4, <1>10, <2>1 DEF Posted
  <2>3. Waiting(r, z, u)
    BY <1>6, <1>9 DEF Waiting
  <2>4. Outstanding(n + 1, r, z, u)
    BY <1>7, <2>3 DEF Outstanding
  <2>5. Settled(n + 1, r, z, u)
    BY <1>4, <1>8, <1>11 DEF NetOK
  <2>6. InNet(n + 1, r, z, u)
    BY <1>9, <2>2, <2>4, <2>5 DEF Settled
  <2>7. PICK h \in DOMAIN net : net[h] = Msg(n + 1, r, z, u)
    BY <2>6 DEF InNet
  <2>8. net[h].from = s /\ net[h].to = r /\ net[h].tag = Tag(p, what) /\ net[h].round = n + 1
    BY <1>9, <2>7, MsgFields
  <2>9. DOMAIN net = 1..Len(net) /\ Len(net) \in Nat
    BY <1>4 DEF NetOK
  <2>10. h \notin 1..i - 1
    BY <1>3, <2>8
  <2>11. h # i
    BY <1>2, <1>4, <2>1, <2>8
  <2>12. i < h
    BY <2>9, <2>10, <2>11
  <2>13. net[i].round < net[h].round
    BY <1>2, <1>4, <2>8, <2>12 DEF NetOK, Ordered
  <2> QED
    BY <1>2, <1>4, <2>1, <2>8, <2>13
<1>13. z = p /\ u = what
  <2>1. p \in Needs(r, script[k].win) /\ z \in Needs(r, script[k].win) /\ script[k].op = "transfer"
    BY <1>1, <1>8, <1>12 DEF Due
  <2>2. script[k].win \in 1..2
    BY <2>1, CallTypes DEF IInv, ControlOK
  <2>3. Win(z) = Win(p)
    BY <2>1, <2>2, NeedsFacts
  <2> QED
    BY <1>8, <1>9, <2>3, TagsDiffer
<1>14. Matches(i, k, r, p, what, q)
  BY <1>1, <1>6, <1>7, <1>8, <1>9, <1>12, <1>13 DEF Matches
<1>15. Completes(i, r, q)
  BY <1>3 DEF Completes
<1> QED
  BY <1>14, <1>15

LEMMA RcvGot ==
    ASSUME NEW k, NEW r, NEW p, NEW what, NEW got, NEW x, x = Rcv(k, r, p, what, <<>>)
    PROVE  [x EXCEPT !.got = got] = Rcv(k, r, p, what, got)
BY DEF Rcv

\* The receives of the process that gets the message: one of them is complete.
LEMMA DeliverRecvs ==
    ASSUME IInv, NEW i \in DOMAIN net, NEW k, NEW r, NEW p, NEW what, NEW q,
           Deliver(i), Matches(i, k, r, p, what, q), Completes(i, r, q)
    PROVE  /\ RecvsOK(r)'
           /\ \A z, u : Waiting(r, z, u)' <=> Waiting(r, z, u) /\ ~(z = p /\ u = what)
<1>1. /\ k \in Rounds /\ r \in Ranks /\ p \in DOMAIN Panes /\ what \in Whats
      /\ net[i] = Msg(k, r, p, what) /\ Due(k, r, p, what)
      /\ k = done[r] + 1 /\ pc[r] = "receive"
      /\ q \in DOMAIN recvs[r] /\ recvs[r][q] = Rcv(k, r, p, what, <<>>)
  BY DEF Matches
<1>2. /\ RecvsOK(r) /\ DOMAIN recvs = Ranks
      /\ script' = script /\ pc' = pc /\ done' = done
  BY <1>1 DEF IInv, ProcessOK, ControlOK, Deliver
<1>3. PICK x, y, m : x = recvs[r] /\ y = recvs'[r] /\ m = Msg(k, r, p, what)
  OBVIOUS
<1>4. y = [x EXCEPT ![q].got = <<m>>]
  BY <1>1, <1>2, <1>3 DEF Completes
<1>5. /\ x \in Seq(Receives) /\ DOMAIN x = 1..Len(x) /\ Len(x) \in Nat
      /\ \A h \in DOMAIN x : x[h] \in Receives /\ RecvOK(r, x[h])
      /\ \A g, h \in DOMAIN x : x[g].pane = x[h].pane /\ x[g].what = x[h].what => g = h
      /\ q \in DOMAIN x /\ x[q] = Rcv(k, r, p, what, <<>>)
  BY <1>1, <1>2, <1>3 DEF RecvsOK
<1>6. /\ DOMAIN y = DOMAIN x /\ y[q] = [x[q] EXCEPT !.got = <<m>>]
      /\ y = [h \in DOMAIN x |-> IF h = q THEN [x[q] EXCEPT !.got = <<m>>] ELSE x[h]]
  BY <1>4, <1>5
<1>7. y[q] = Rcv(k, r, p, what, <<m>>)
  BY <1>5, <1>6, RcvGot
<1>8. \A h \in DOMAIN x : h # q => y[h] = x[h]
  BY <1>6
<1>9. /\ x[q].pane = p /\ x[q].what = what /\ x[q].got = <<>>
      /\ y[q].pane = p /\ y[q].what = what /\ y[q].got = <<m>>
  BY <1>5, <1>7, RcvFields
<1>10. m \in Messages
  BY <1>1, <1>3 DEF Messages
<1>11. y[q] \in Receives
  BY <1>1, <1>7, <1>10 DEF Receives
<1>12. y \in Seq(Receives)
  <2>1. \A h \in 1..Len(x) : y[h] \in Receives
    BY <1>5, <1>8, <1>11
  <2>2. y = [h \in 1..Len(x) |-> y[h]]
    BY <1>5, <1>6
  <2> QED
    BY <1>5, <2>1, <2>2
<1>13. \A h \in DOMAIN y : RecvOK(r, y[h])
  <2>1. RecvOK(r, y[q])
    BY <1>1, <1>3, <1>7, <1>9 DEF RecvOK
  <2> QED
    BY <1>5, <1>6, <1>8, <2>1
<1>14. \A h \in DOMAIN y : RecvOK(r, y[h])'
  <2> SUFFICES ASSUME NEW h \in DOMAIN y PROVE RecvOK(r, y[h])'
    OBVIOUS
  <2> QED
    BY <1>2, <1>13, ScriptKept DEF RecvOK
<1>15. \A h \in DOMAIN x : y[h].pane = x[h].pane /\ y[h].what = x[h].what
  BY <1>8, <1>9
<1>16. \A g, h \in DOMAIN y : y[g].pane = y[h].pane /\ y[g].what = y[h].what => g = h
  BY <1>5, <1>6, <1>15
<1>17. RecvsOK(r)'
  BY <1>1, <1>2, <1>3, <1>12, <1>14, <1>16, ScriptKept DEF RecvsOK
<1>18. ASSUME NEW z, NEW u PROVE Waiting(r, z, u)' <=> Waiting(r, z, u) /\ ~(z = p /\ u = what)
  <2>1. Waiting(r, z, u) <=> \E h \in DOMAIN x : x[h].pane = z /\ x[h].what = u /\ x[h].got = <<>>
    BY <1>3 DEF Waiting
  <2>2. Waiting(r, z, u)' <=> \E h \in DOMAIN y : y[h].pane = z /\ y[h].what = u /\ y[h].got = <<>>
    BY <1>3 DEF Waiting
  <2>3. y[q].got # <<>>
    BY <1>9
  <2>4. CASE z = p /\ u = what
    <3>1. \A h \in DOMAIN y : y[h].pane = z /\ y[h].what = u => h = q
      BY <1>5, <1>6, <1>9, <1>16, <2>4
    <3> QED
      BY <2>2, <2>3, <2>4, <3>1
  <2>5. CASE ~(z = p /\ u = what)
    <3>1. \A h \in DOMAIN x : x[h].pane = z /\ x[h].what = u => h # q
      BY <1>9, <2>5
    <3>2. \A h \in DOMAIN y : y[h].pane = z /\ y[h].what = u => h # q
      BY <1>9, <2>5
    <3> QED
      BY <1>6, <1>8, <2>1, <2>2, <2>5, <3>1, <3>2
  <2> QED
    BY <2>4, <2>5
<1> QED
  BY <1>17, <1>18

\* The messages in flight without the one that is received, which is there once
LEMMA DeliverNet ==
    ASSUME IInv, NEW i \in DOMAIN net, NEW k, NEW r, NEW p, NEW what,
           Deliver(i), net[i] = Msg(k, r, p, what)
    PROVE  /\ net' \in Seq(Messages)'
           /\ \A h \in DOMAIN net' : MessageOK(net[h])'
           /\ Ordered'
           /\ \A l, t, z, u : InNet(l, t, z, u)'
                  <=> InNet(l, t, z, u) /\ ~(l = k /\ t = r /\ z = p /\ u = what)
<1>1. NetOK /\ net' = RemoveAt(net, i) /\ script' = script
  BY DEF IInv, Deliver
<1>2. PICK x, y : x = net /\ y = net'
  OBVIOUS
<1>3. /\ x \in Seq(Messages) /\ i \in 1..Len(x) /\ i \in DOMAIN x
      /\ DOMAIN x = 1..Len(x) /\ Len(x) \in Nat
      /\ \A h \in DOMAIN x : MessageOK(x[h])
      /\ \A g, h \in DOMAIN x :
             g < h /\ x[g].from = x[h].from /\ x[g].to = x[h].to /\ x[g].tag = x[h].tag
                 => x[g].round < x[h].round
      /\ x[i] = Msg(k, r, p, what)
  BY <1>1, <1>2 DEF NetOK, Ordered
<1>4. y = RemoveAt(x, i)
  BY <1>1, <1>2
<1>5. /\ y \in Seq(Messages)
      /\ \A h \in DOMAIN x : h # i => \E j \in DOMAIN y : y[j] = x[h]
      /\ \A j \in DOMAIN y : \E h \in DOMAIN x : h # i /\ y[j] = x[h]
      /\ \A a, b \in DOMAIN y : a < b =>
             \E g, h \in DOMAIN x : g < h /\ g # i /\ h # i /\ y[a] = x[g] /\ y[b] = x[h]
  <2>1. x \in Seq(Messages) /\ i \in 1..Len(x)
    BY <1>3
  <2> QED
    BY <1>4, <2>1, RemoveAtElements
<1>6. \A h \in DOMAIN x : x[h].round \in Int
  <2> SUFFICES ASSUME NEW h \in DOMAIN x PROVE x[h].round \in Int
    OBVIOUS
  <2>1. x[h] \in Messages
    BY <1>3
  <2>2. PICK l \in Rounds, t \in Ranks, z \in DOMAIN Panes, u \in Whats : x[h] = Msg(l, t, z, u)
    BY <2>1 DEF Messages
  <2> QED
    BY <2>2, MsgFields DEF Rounds
<1>7. \A g, h \in DOMAIN x : x[g] = x[h] => g = h
  BY <1>3, <1>6
<1>8. \A j \in DOMAIN y : MessageOK(y[j])'
  <2> SUFFICES ASSUME NEW j \in DOMAIN y PROVE MessageOK(y[j])'
    OBVIOUS
  <2>1. MessageOK(y[j])
    BY <1>3, <1>5
  <2> QED
    BY <1>1, <2>1, ScriptKept DEF MessageOK
<1>9. \A a, b \in DOMAIN y :
          a < b /\ y[a].from = y[b].from /\ y[a].to = y[b].to /\ y[a].tag = y[b].tag
              => y[a].round < y[b].round
  <2> SUFFICES ASSUME NEW a \in DOMAIN y, NEW b \in DOMAIN y, a < b,
                      y[a].from = y[b].from, y[a].to = y[b].to, y[a].tag = y[b].tag
               PROVE  y[a].round < y[b].round
    OBVIOUS
  <2>1. PICK g \in DOMAIN x, h \in DOMAIN x : g < h /\ y[a] = x[g] /\ y[b] = x[h]
    BY <1>5
  <2> QED
    BY <1>3, <2>1
<1>10. Ordered'
  BY <1>2, <1>9 DEF Ordered
<1>11. ASSUME NEW l, NEW t, NEW z, NEW u
       PROVE  InNet(l, t, z, u)' <=> InNet(l, t, z, u) /\ ~(l = k /\ t = r /\ z = p /\ u = what)
  <2>1. PICK m : m = Msg(l, t, z, u)
    OBVIOUS
  <2>2. m = x[i] <=> (l = k /\ t = r /\ z = p /\ u = what)
    BY <1>3, <2>1, MsgFields
  <2>3. InNet(l, t, z, u) <=> \E h \in DOMAIN x : x[h] = m
    BY <1>2, <2>1 DEF InNet
  <2>4. InNet(l, t, z, u)' <=> \E h \in DOMAIN y : y[h] = m
    BY <1>1, <1>2, <2>1, ScriptKept DEF InNet
  <2>5. (\E h \in DOMAIN y : y[h] = m) <=> (\E h \in DOMAIN x : x[h] = m) /\ m # x[i]
    BY <1>3, <1>5, <1>7
  <2> QED
    BY <2>2, <2>3, <2>4, <2>5
<1>12. net' \in Seq(Messages)'
  BY <1>1, <1>2, <1>5, ScriptKept
<1>13. \A h \in DOMAIN net' : MessageOK(net[h])'
  BY <1>2, <1>8
<1> QED
  BY <1>10, <1>11, <1>12, <1>13

LEMMA DeliverStep ==
    ASSUME IInv, NEW i \in DOMAIN net, Deliver(i)
    PROVE  IInv'
<1>1. /\ net' = RemoveAt(net, i)
      /\ script' = script /\ pc' = pc /\ done' = done /\ asks' = asks /\ meta' = meta /\ bufs' = bufs
  BY DEF Deliver
<1>2. PICK k, r, p, what, q : Matches(i, k, r, p, what, q) /\ Completes(i, r, q)
  BY DeliverMatches
<1>3. /\ k \in Rounds /\ r \in Ranks /\ p \in DOMAIN Panes /\ what \in Whats
      /\ net[i] = Msg(k, r, p, what) /\ k = done[r] + 1 /\ pc[r] = "receive"
      /\ q \in DOMAIN recvs[r] /\ recvs[r][q] = Rcv(k, r, p, what, <<>>)
  BY <1>2 DEF Matches
<1>4. ControlOK /\ ProcessOK(r) /\ NetOK /\ done[r] \in Nat
  BY <1>3 DEF IInv, ControlOK
<1>5. ControlOK'
  BY <1>1, <1>2, <1>4 DEF ControlOK, Completes
<1>6. \A s \in Ranks \ {r} : Kept(s)
  BY <1>1, <1>2, <1>4 DEF ControlOK, Kept, Completes
<1>7. Begun(r)' = Begun(r) /\ Ready(r)' = Ready(r)
  BY <1>1 DEF Begun, Ready
<1>8. AsksOK(r)'
  BY <1>1, <1>4, <1>7, AsksKept DEF ProcessOK
<1>9. \A w \in 1..2 : MetaOK(r, w)'
  BY <1>1, <1>4, <1>7, MetaKept DEF ProcessOK
<1>10. PlaceOK(r)'
  BY <1>1, <1>4, ScriptKept DEF ProcessOK, PlaceOK, Call
<1>11. BufsOK(r)'
  BY <1>1, <1>4 DEF ProcessOK, BufsOK
<1>12. /\ RecvsOK(r)'
       /\ \A z, u : Waiting(r, z, u)' <=> Waiting(r, z, u) /\ ~(z = p /\ u = what)
  BY <1>2, DeliverRecvs
<1>13. /\ net' \in Seq(Messages)'
       /\ \A h \in DOMAIN net' : MessageOK(net[h])'
       /\ Ordered'
       /\ \A l, t, z, u : InNet(l, t, z, u)'
              <=> InNet(l, t, z, u) /\ ~(l = k /\ t = r /\ z = p /\ u = what)
  BY <1>3, DeliverNet
<1>14. \A s, l : Posted(s, l)' <=> Posted(s, l)
  BY <1>1 DEF Posted
<1>15. Posted(r, k)
  BY <1>3 DEF Posted
<1>16. \A t \in Ranks : \A z, u : t # r => (Waiting(t, z, u)' <=> Waiting(t, z, u))
  BY <1>6 DEF Kept, Waiting
<1>17. ASSUME NEW l \in Rounds, NEW t \in Ranks, NEW z \in DOMAIN Panes, NEW u \in Whats, Due(l, t, z, u)'
       PROVE  Settled(l, t, z, u)'
  <2>1. Due(l, t, z, u)
    BY <1>1, <1>17, ScriptKept
  <2>2. Settled(l, t, z, u)
    BY <1>4, <2>1 DEF NetOK
  <2>3. CASE l = k /\ t = r /\ z = p /\ u = what
    <3>1. ~InNet(l, t, z, u)' /\ ~Waiting(r, p, what)'
      BY <1>12, <1>13, <2>3
    <3>2. ~Outstanding(l, t, z, u)'
      BY <1>14, <1>15, <2>3, <3>1 DEF Outstanding
    <3>3. Posted(Panes[p].rank, k)
      <4>1. InNet(k, r, p, what)
        BY <1>3 DEF InNet
      <4> QED
        BY <2>2, <2>3, <4>1 DEF Settled
    <3> QED
      BY <1>14, <2>3, <3>1, <3>2, <3>3 DEF Settled
  <2>4. CASE ~(l = k /\ t = r /\ z = p /\ u = what)
    <3>1. InNet(l, t, z, u)' <=> InNet(l, t, z, u)
      BY <1>13, <2>4
    <3>2. Outstanding(l, t, z, u)' <=> Outstanding(l, t, z, u)
      <4>1. CASE t = r /\ l = k
        <5>1. Waiting(t, z, u)' <=> Waiting(t, z, u)
          BY <1>12, <2>4, <4>1
        <5> QED
          BY <1>1, <1>14, <5>1 DEF Outstanding
      <4>2. CASE t = r /\ l # k
        BY <1>1, <1>3, <1>14, <4>2 DEF Outstanding
      <4>3. CASE t # r
        BY <1>1, <1>14, <1>16, <4>3 DEF Outstanding
      <4> QED
        BY <4>1, <4>2, <4>3
    <3> QED
      BY <1>14, <2>2, <3>1, <3>2 DEF Settled
  <2> QED
    BY <2>3, <2>4
<1>18. NetOK'
  BY <1>13, <1>17 DEF NetOK
<1>19. \A s \in Ranks \ {r} : ProcessOK(s)'
  BY <1>1, <1>6, OtherKept DEF IInv
<1>20. ProcessOK(r)'
  BY <1>8, <1>9, <1>10, <1>11, <1>12 DEF ProcessOK
<1> QED
  BY <1>5, <1>18, <1>19, <1>20 DEF IInv

------------------------------------------------------------------------------
(* Posting                                                                 *)

\* The arrays of a call, in the order in which they are posted
Array(j) == IF j = 1 THEN "data" ELSE "coor"
NumArrays(c) == IF c.coor THEN 2 ELSE 1

LEMMA ArraysOfCall ==
    ASSUME NEW c, c.coor \in BOOLEAN
    PROVE  /\ NumArrays(c) \in 1..2
           /\ DOMAIN Received(c) = 1..NumArrays(c) /\ DOMAIN Sent(c) = 1..NumArrays(c)
           /\ \A j \in 1..NumArrays(c) : Received(c)[j] = Array(j) /\ Sent(c)[j] = Array(j)
<1>1. /\ Sent(c) = Received(c)
      /\ DOMAIN Received(c) = IF c.coor THEN 1..2 ELSE 1..1
      /\ \A j \in DOMAIN Received(c) : Received(c)[j] = IF j = 1 THEN "data" ELSE "coor"
  BY ReceivedFacts
<1>2. NumArrays(c) \in 1..2 /\ DOMAIN Received(c) = 1..NumArrays(c)
  <2>1. CASE c.coor
    <3>1. NumArrays(c) = 2 /\ DOMAIN Received(c) = 1..2
      BY <1>1, <2>1 DEF NumArrays
    <3> QED
      BY <3>1
  <2>2. CASE ~c.coor
    <3>1. NumArrays(c) = 1 /\ DOMAIN Received(c) = 1..1
      BY <1>1, <2>2 DEF NumArrays
    <3> QED
      BY <3>1
  <2> QED
    BY <2>1, <2>2
<1> QED
  BY <1>1, <1>2 DEF Array

LEMMA DueArrays ==
    ASSUME NEW k, NEW r, NEW p, NEW what, script[k].op = "transfer", script[k].coor \in BOOLEAN
    PROVE  Due(k, r, p, what)
               <=> p \in Needs(r, script[k].win) /\ \E j \in 1..NumArrays(script[k]) : what = Array(j)
<1>1. CASE script[k].coor
  <2>1. 1..NumArrays(script[k]) = {1, 2}
    BY <1>1 DEF NumArrays
  <2>2. (\E j \in 1..NumArrays(script[k]) : what = Array(j)) <=> what = "data" \/ what = "coor"
    BY <2>1 DEF Array
  <2> QED
    BY <1>1, <2>2 DEF Due
<1>2. CASE ~script[k].coor
  <2>1. 1..NumArrays(script[k]) = {1}
    BY <1>2 DEF NumArrays
  <2>2. (\E j \in 1..NumArrays(script[k]) : what = Array(j)) <=> what = "data"
    BY <2>1 DEF Array
  <2> QED
    BY <1>2, <2>2 DEF Due
<1> QED
  BY <1>1, <1>2

LEMMA ArraysDiffer ==
    ASSUME NEW m \in 1..2
    PROVE  /\ \A j \in 1..m : Array(j) \in Whats
           /\ \A i, j \in 1..m : Array(i) = Array(j) => i = j
BY DEF Array, Whats

\* Where the process is when it posts, and what it posts for
LEMMA PostFacts ==
    ASSUME IInv, NEW r \in Ranks, Post(r)
    PROVE  \E k \in Rounds, w \in 1..2 : \E c :
               /\ k = done[r] + 1 /\ c = script[k] /\ w = c.win /\ c = Call(r)
               /\ c.op = "transfer" /\ c.kind \in Kinds /\ c.coor \in BOOLEAN
               /\ pc[r] = "replicate"
               /\ meta[r][w].panes = Needs(r, w) /\ meta[r][w].to_send = ToSend(r, w)
<1>1. pc[r] = "replicate"
  BY DEF Post
<1>2. PlaceOK(r) /\ \A w \in 1..2 : MetaOK(r, w)
  BY DEF IInv, ProcessOK
<1>3. done[r] < NRounds /\ Call(r).op = "transfer" /\ meta[r][Call(r).win].replicated
  BY <1>1, <1>2 DEF PlaceOK
<1>4. /\ done[r] + 1 \in Rounds /\ Call(r).win \in 1..2 /\ Call(r).kind \in Kinds
      /\ Call(r).coor \in BOOLEAN /\ Call(r) = script[done[r] + 1]
  BY <1>3, RoundFacts DEF Call
<1>5. PICK k, w, c : k \in Rounds /\ w \in 1..2 /\ k = done[r] + 1 /\ w = Call(r).win /\ c = Call(r)
  BY <1>4
<1>6. meta[r][w].panes = Needs(r, w) /\ meta[r][w].to_send = ToSend(r, w)
  BY <1>2, <1>3, <1>5 DEF MetaOK
<1> QED
  BY <1>1, <1>3, <1>4, <1>5, <1>6

\* Process r posts a receive for everything due to it in the k-th call, once.
LEMMA PostRecvs ==
    ASSUME IInv, NEW r \in Ranks, Post(r), NEW k, k = done[r] + 1
    PROVE  /\ RecvsOK(r)'
           /\ \A p, what : Due(k, r, p, what) => Waiting(r, p, what)'
<1>1. PICK w, c :
          /\ w \in 1..2 /\ k \in Rounds /\ c = script[k] /\ w = c.win /\ c = Call(r)
          /\ c.op = "transfer" /\ c.kind \in Kinds /\ c.coor \in BOOLEAN
          /\ pc[r] = "replicate" /\ meta[r][w].panes = Needs(r, w)
  BY PostFacts
<1>2. /\ script' = script /\ done' = done /\ pc' = [pc EXCEPT ![r] = "receive"]
      /\ pc \in [Ranks -> States] /\ DOMAIN recvs = Ranks
  BY DEF Post, IInv, ControlOK
<1>3. pc'[r] = "receive"
  BY <1>2
<1>4. PICK m \in 1..2 :
          /\ m = NumArrays(c) /\ DOMAIN Received(c) = 1..m
          /\ \A j \in 1..m : Received(c)[j] = Array(j)
  <2>1. c.coor \in BOOLEAN
    BY <1>1, Zenon
  <2>2. /\ NumArrays(c) \in 1..2 /\ DOMAIN Received(c) = 1..NumArrays(c)
        /\ \A j \in 1..NumArrays(c) : Received(c)[j] = Array(j)
    BY <2>1, ArraysOfCall
  <2> QED
    BY <2>2
<1>5. \A j \in 1..m : Array(j) \in Whats
  BY ArraysDiffer
<1>6. \A i, j \in 1..m : Array(i) = Array(j) => i = j
  BY ArraysDiffer
<1>7. \A p, what : Due(k, r, p, what) <=> p \in Needs(r, w) /\ \E j \in 1..m : what = Array(j)
  <2>1. script[k].op = "transfer" /\ script[k].win = w /\ NumArrays(script[k]) = m
    BY <1>1, <1>4
  <2>2. script[k].coor \in BOOLEAN
    BY <1>1, Zenon
  <2>3. ASSUME NEW p, NEW what
        PROVE  Due(k, r, p, what) <=> p \in Needs(r, script[k].win)
                                          /\ \E j \in 1..NumArrays(script[k]) : what = Array(j)
    BY <2>1, <2>2, DueArrays
  <2> QED
    BY <2>1, <2>3
<1>8. Needs(r, w) \in SUBSET DOMAIN Panes
  BY <1>1, NeedsFacts
<1> DEFINE D == Needs(r, w) \X (1..m)
           R == InOrder(D, Lexicographic)
           N == Cardinality(D)
<1>9. Lists(R, D)
  BY <1>8, ReceiveSlots
<1>10. PICK y : y = recvs'[r]
  OBVIOUS
<1>11. y = [i \in DOMAIN R |-> Receive(r, R[i][1], Received(c)[R[i][2]])]
  <2>1. meta[r][Call(r).win].panes \X DOMAIN Received(Call(r)) = D
    BY <1>1, <1>4
  <2>2. recvs' = [recvs EXCEPT ![r] = [i \in DOMAIN R |-> Receive(r, R[i][1], Received(c)[R[i][2]])]]
    BY <1>1, <2>1 DEF Post
  <2> HIDE DEF R
  <2> QED
    BY <1>2, <1>10, <2>2
<1> HIDE DEF R, D, N
<1>12. \A p, what : Receive(r, p, what) = Rcv(k, r, p, what, <<>>)
  BY <1>1 DEF Receive, Rcv
<1>13. /\ N \in Nat /\ DOMAIN R = 1..N /\ \A i \in 1..N : R[i] \in D
       /\ \A x \in D : \E i \in 1..N : R[i] = x
       /\ \A i, j \in 1..N : R[i] = R[j] => i = j
  BY <1>9 DEF Lists, N
<1>14. \A x \in D : x[1] \in Needs(r, w) /\ x[2] \in 1..m /\ x = <<x[1], x[2]>>
  BY DEF D
<1>15. DOMAIN y = 1..N /\ \A i \in 1..N : y[i] = Rcv(k, r, R[i][1], Array(R[i][2]), <<>>)
  BY <1>4, <1>11, <1>12, <1>13, <1>14
<1>16. \A i \in 1..N : y[i].pane = R[i][1] /\ y[i].what = Array(R[i][2]) /\ y[i].got = <<>>
  BY <1>15, RcvFields
<1>17. y \in Seq(Receives)
  <2>1. \A i \in 1..N : y[i] \in Receives
    BY <1>1, <1>5, <1>8, <1>13, <1>14, <1>15 DEF Receives
  <2>2. y = [i \in 1..N |-> y[i]]
    BY <1>11, <1>13, <1>15
  <2> QED
    BY <1>13, <2>1, <2>2
<1>18. \A i \in DOMAIN y : RecvOK(r, y[i])'
  <2> SUFFICES ASSUME NEW i \in 1..N PROVE RecvOK(r, y[i])'
    BY <1>15
  <2>1. PICK p, what : p = R[i][1] /\ what = Array(R[i][2])
    OBVIOUS
  <2>2. Due(k, r, p, what)
    BY <1>7, <1>13, <1>14, <2>1
  <2>3. y[i] = Rcv(k, r, p, what, <<>>) /\ y[i].pane = p /\ y[i].what = what /\ y[i].got = <<>>
    BY <1>15, <1>16, <2>1
  <2> QED
    BY <1>2, <2>2, <2>3, ScriptKept DEF RecvOK
<1>19. ASSUME NEW i \in DOMAIN y, NEW j \in DOMAIN y, y[i].pane = y[j].pane, y[i].what = y[j].what
       PROVE  i = j
  <2>1. i \in 1..N /\ j \in 1..N /\ R[i] \in D /\ R[j] \in D
    BY <1>13, <1>15
  <2>2. R[i][1] = R[j][1] /\ R[i][2] = R[j][2]
    BY <1>6, <1>14, <1>16, <1>19, <2>1
  <2>3. R[i] = R[j]
    BY <1>14, <2>1, <2>2
  <2> QED
    BY <1>13, <2>1, <2>3
<1>20. RecvsOK(r)'
  BY <1>2, <1>3, <1>10, <1>17, <1>18, <1>19, ScriptKept DEF RecvsOK
<1>21. ASSUME NEW p, NEW what, Due(k, r, p, what) PROVE Waiting(r, p, what)'
  <2>1. PICK j \in 1..m : p \in Needs(r, w) /\ what = Array(j)
    BY <1>7, <1>21
  <2>2. <<p, j>> \in D
    BY <2>1 DEF D
  <2>3. PICK i \in 1..N : R[i] = <<p, j>>
    BY <1>13, <2>2
  <2>4. y[i].pane = p /\ y[i].what = what /\ y[i].got = <<>> /\ i \in DOMAIN y
    BY <1>15, <1>16, <2>1, <2>3
  <2> QED
    BY <1>10, <2>4 DEF Waiting
<1> QED
  BY <1>20, <1>21

\* The messages that process r sends in the k-th call: everything due of its
\* panes, once.
Sends(new, r, k) ==
    /\ new \in Seq(Messages)
    /\ \A i \in DOMAIN new : MessageOK(new[i]) /\ new[i].from = r /\ new[i].round = k
    /\ \A i, j \in DOMAIN new : new[i].to = new[j].to /\ new[i].tag = new[j].tag => i = j
    /\ \A t \in Ranks, p \in DOMAIN Panes : \A what :
           Due(k, t, p, what) /\ Panes[p].rank = r => \E i \in DOMAIN new : new[i] = Msg(k, t, p, what)

LEMMA PostSends ==
    ASSUME IInv, NEW r \in Ranks, Post(r), NEW k, k = done[r] + 1
    PROVE  \E new : Sends(new, r, k) /\ net' = net \o new
<1>1. PICK w, c :
          /\ w \in 1..2 /\ k \in Rounds /\ c = script[k] /\ w = c.win /\ c = Call(r)
          /\ c.op = "transfer" /\ c.kind \in Kinds /\ c.coor \in BOOLEAN
          /\ meta[r][w].to_send = ToSend(r, w)
  BY PostFacts
<1>2. PICK m \in 1..2 :
          /\ m = NumArrays(c) /\ DOMAIN Sent(c) = 1..m
          /\ \A j \in 1..m : Sent(c)[j] = Array(j)
  <2>1. c.coor \in BOOLEAN
    BY <1>1, Zenon
  <2>2. /\ NumArrays(c) \in 1..2 /\ DOMAIN Sent(c) = 1..NumArrays(c)
        /\ \A j \in 1..NumArrays(c) : Sent(c)[j] = Array(j)
    BY <2>1, ArraysOfCall
  <2> QED
    BY <2>2
<1>3. \A j \in 1..m : Array(j) \in Whats
  BY ArraysDiffer
<1>4. \A i, j \in 1..m : Array(i) = Array(j) => i = j
  BY ArraysDiffer
<1>5. \A t, p, what : Due(k, t, p, what) <=> p \in Needs(t, w) /\ \E j \in 1..m : what = Array(j)
  <2>1. script[k].op = "transfer" /\ script[k].win = w /\ NumArrays(script[k]) = m
    BY <1>1, <1>2
  <2>2. script[k].coor \in BOOLEAN
    BY <1>1, Zenon
  <2>3. ASSUME NEW t, NEW p, NEW what
        PROVE  Due(k, t, p, what) <=> p \in Needs(t, script[k].win)
                                          /\ \E j \in 1..NumArrays(script[k]) : what = Array(j)
    BY <2>1, <2>2, DueArrays
  <2> QED
    BY <2>1, <2>3
<1> DEFINE T == ToSend(r, w)
           D == Slots(T, 1..m)
           S == InOrder(D, Lexicographic)
           N == Cardinality(D)
           new == [i \in DOMAIN S |-> Send(r, S[i][1], S[i][2], Sent(c)[S[i][3]])]
<1>6. T \in SUBSET (Ranks \X DOMAIN Panes)
  BY DEF ToSend, PanesOf
<1>7. Lists(S, D)
  BY <1>6, SendSlots
<1>8. net' = net \o new
  <2>1. Slots(meta[r][Call(r).win].to_send, DOMAIN Sent(Call(r))) = D
    BY <1>1, <1>2
  <2> HIDE DEF D
  <2> QED
    BY <1>1, <2>1, Zenon DEF Post
<1>9. \A x \in D : /\ x[1] \in Ranks /\ x[2] \in DOMAIN Panes /\ x[3] \in 1..m /\ x = <<x[1], x[2], x[3]>>
                   /\ Panes[x[2]].rank = r /\ Win(x[2]) = w /\ x[2] \in Needs(x[1], w)
  <2> SUFFICES ASSUME NEW y \in T, NEW j \in 1..m
               PROVE  y[1] \in Ranks /\ y[2] \in DOMAIN Panes
                      /\ Panes[y[2]].rank = r /\ Win(y[2]) = w /\ y[2] \in Needs(y[1], w)
    BY DEF Slots
  <2> QED
    BY DEF ToSend, PanesOf
<1>10. ASSUME NEW t \in Ranks, NEW p \in DOMAIN Panes, Panes[p].rank = r, p \in Needs(t, w), NEW j \in 1..m
       PROVE  <<t, p, j>> \in D
  <2>1. Win(p) = w
    BY <1>1, <1>10, NeedsFacts
  <2>2. <<t, p>> \in T
    BY <1>10, <2>1 DEF ToSend, PanesOf
  <2> HIDE DEF T
  <2> QED
    BY <2>2 DEF Slots
<1>11. \A t, p, what : Panes[p].rank = r => Send(r, t, p, what) = Msg(k, t, p, what)
  BY <1>1 DEF Send, Msg
<1> HIDE DEF D, S, N, T
<1>12. /\ N \in Nat /\ DOMAIN S = 1..N /\ \A i \in 1..N : S[i] \in D
       /\ \A x \in D : \E i \in 1..N : S[i] = x
       /\ \A i, j \in 1..N : S[i] = S[j] => i = j
  BY <1>7 DEF Lists, N
<1>13. /\ DOMAIN new = 1..N /\ new = [i \in 1..N |-> new[i]]
       /\ \A i \in 1..N : new[i] = Msg(k, S[i][1], S[i][2], Array(S[i][3]))
  BY <1>2, <1>9, <1>11, <1>12
<1> HIDE DEF new
<1>14. \A i \in 1..N : /\ new[i].from = r /\ new[i].to = S[i][1] /\ new[i].pane = S[i][2]
                       /\ new[i].what = Array(S[i][3]) /\ new[i].round = k
                       /\ new[i].tag = Tag(S[i][2], Array(S[i][3]))
  BY <1>9, <1>12, <1>13, MsgFields
<1>15. new \in Seq(Messages)
  <2>1. \A i \in 1..N : new[i] \in Messages
    BY <1>1, <1>3, <1>9, <1>12, <1>13 DEF Messages
  <2> QED
    BY <1>12, <1>13, <2>1
<1>16. \A i \in DOMAIN new : MessageOK(new[i]) /\ new[i].from = r /\ new[i].round = k
  <2> SUFFICES ASSUME NEW i \in 1..N PROVE MessageOK(new[i])
    BY <1>13, <1>14
  <2>1. Due(k, S[i][1], S[i][2], Array(S[i][3]))
    BY <1>5, <1>9, <1>12
  <2> QED
    BY <1>13, <1>14, <2>1 DEF MessageOK
<1>17. ASSUME NEW i \in DOMAIN new, NEW j \in DOMAIN new, new[i].to = new[j].to, new[i].tag = new[j].tag
       PROVE  i = j
  <2>1. i \in 1..N /\ j \in 1..N /\ S[i] \in D /\ S[j] \in D
    BY <1>12, <1>13
  <2>2. S[i][1] = S[j][1] /\ Tag(S[i][2], Array(S[i][3])) = Tag(S[j][2], Array(S[j][3]))
    BY <1>14, <1>17, <2>1
  <2>3. PICK p \in DOMAIN Panes, q \in DOMAIN Panes, u \in Whats, v \in Whats :
            p = S[i][2] /\ q = S[j][2] /\ u = Array(S[i][3]) /\ v = Array(S[j][3])
    BY <1>3, <1>9, <2>1
  <2>4. Win(p) = Win(q) /\ Panes[p].rank = Panes[q].rank /\ Tag(p, u) = Tag(q, v)
    BY <1>9, <2>1, <2>2, <2>3
  <2>5. p = q /\ u = v
    BY <2>4, TagsDiffer
  <2>6. S[i][3] = S[j][3]
    BY <1>4, <1>9, <2>1, <2>3, <2>5
  <2>7. S[i] = S[j]
    BY <1>9, <2>1, <2>2, <2>3, <2>5, <2>6
  <2> QED
    BY <1>12, <2>1, <2>7
<1>18. ASSUME NEW t \in Ranks, NEW p \in DOMAIN Panes, NEW what, Due(k, t, p, what), Panes[p].rank = r
       PROVE  \E i \in DOMAIN new : new[i] = Msg(k, t, p, what)
  <2>1. PICK j \in 1..m : p \in Needs(t, w) /\ what = Array(j)
    BY <1>5, <1>18
  <2>2. <<t, p, j>> \in D
    BY <1>10, <1>18, <2>1
  <2>3. PICK i \in 1..N : S[i] = <<t, p, j>>
    BY <1>12, <2>2
  <2>4. S[i][1] = t /\ S[i][2] = p /\ S[i][3] = j
    BY <2>3
  <2> QED
    BY <1>13, <2>1, <2>4
<1>19. Sends(new, r, k)
  BY <1>15, <1>16, <1>17, <1>18 DEF Sends
<1> QED
  BY <1>8, <1>19

\* The messages y are those in flight and the new ones.
Joined(y, new) ==
    /\ y \in Seq(Messages)
    /\ \A i \in DOMAIN y : MessageOK(y[i])
    /\ \A i, j \in DOMAIN y :
           i < j /\ y[i].from = y[j].from /\ y[i].to = y[j].to /\ y[i].tag = y[j].tag
               => y[i].round < y[j].round
    /\ \A m : (\E i \in DOMAIN y : y[i] = m)
                  <=> (\E i \in DOMAIN net : net[i] = m) \/ (\E i \in DOMAIN new : new[i] = m)

\* New messages come after those of earlier calls.
LEMMA PostNet ==
    ASSUME IInv, NEW r \in Ranks, Post(r), NEW k, k = done[r] + 1,
           NEW new, Sends(new, r, k), NEW y, y = net \o new
    PROVE  Joined(y, new)
<1>1. PICK x : x = net
  OBVIOUS
<1> DEFINE a == Len(x)
           b == Len(new)
<1>2. /\ x \in Seq(Messages) /\ DOMAIN x = 1..a /\ a \in Nat
      /\ \A i \in DOMAIN x : MessageOK(x[i])
      /\ \A i, j \in DOMAIN x :
             i < j /\ x[i].from = x[j].from /\ x[i].to = x[j].to /\ x[i].tag = x[j].tag
                 => x[i].round < x[j].round
  BY <1>1 DEF IInv, NetOK, Ordered
<1>3. /\ new \in Seq(Messages) /\ DOMAIN new = 1..b /\ b \in Nat
      /\ \A i \in DOMAIN new : MessageOK(new[i]) /\ new[i].from = r /\ new[i].round = k
      /\ \A i, j \in DOMAIN new : new[i].to = new[j].to /\ new[i].tag = new[j].tag => i = j
  BY DEF Sends
<1>4. y \in Seq(Messages) /\ DOMAIN y = 1..a + b
  <2>1. x \in Seq(Messages) /\ new \in Seq(Messages)
    BY <1>2, <1>3
  <2>2. x \o new \in Seq(Messages) /\ Len(x \o new) = a + b
    BY <2>1, ConcatProperties
  <2> QED
    BY <1>1, <2>2
<1>5. \A i \in 1..a : y[i] = x[i]
  <2>1. x \in Seq(Messages) /\ new \in Seq(Messages)
    BY <1>2, <1>3
  <2> QED
    BY <1>1, <1>2, <1>3, <2>1
<1>6. \A i \in a + 1..a + b : i - a \in 1..b /\ y[i] = new[i - a]
  <2>1. x \in Seq(Messages) /\ new \in Seq(Messages) /\ a \in Nat /\ b \in Nat
    BY <1>2, <1>3
  <2> QED
    BY <1>1, <2>1
<1> HIDE DEF a, b
<1>7. \A i \in DOMAIN y : i \in 1..a \/ i \in a + 1..a + b
  BY <1>2, <1>3, <1>4
<1>8. \A i \in DOMAIN y : MessageOK(y[i])
  BY <1>2, <1>3, <1>5, <1>6, <1>7
<1>9. ASSUME NEW i \in 1..a, x[i].from = r PROVE x[i].round < k
  <2>1. i \in DOMAIN net /\ NetOK
    BY <1>1, <1>2 DEF IInv
  <2>2. PICK l \in Rounds, t \in Ranks, p \in DOMAIN Panes, what \in Whats :
            net[i] = Msg(l, t, p, what) /\ Due(l, t, p, what)
    BY <2>1, MessageParts
  <2>3. Panes[p].rank = r /\ x[i].round = l
    BY <1>1, <1>9, <2>2, MsgFields
  <2>4. InNet(l, t, p, what) /\ Settled(l, t, p, what)
    BY <2>1, <2>2 DEF InNet, NetOK
  <2>5. Posted(r, l)
    BY <2>3, <2>4 DEF Settled
  <2>6. pc[r] = "replicate" /\ done[r] \in Nat /\ l \in Int
    <3>1. pc[r] = "replicate"
      BY PostFacts
    <3>2. done[r] \in Nat
      BY DEF IInv, ControlOK
    <3> QED
      BY <3>1, <3>2 DEF Rounds
  <2>7. l <= done[r]
    BY <2>5, <2>6 DEF Posted
  <2> QED
    BY <2>3, <2>6, <2>7
<1>10. ASSUME NEW i \in DOMAIN y, NEW j \in DOMAIN y, i < j,
              y[i].from = y[j].from, y[i].to = y[j].to, y[i].tag = y[j].tag
       PROVE  y[i].round < y[j].round
  <2>1. i \in Int /\ j \in Int
    BY <1>4
  <2>2. CASE j \in 1..a
    <3>1. i \in 1..a
      BY <1>2, <1>4, <1>10, <2>2
    <3> QED
      BY <1>2, <1>5, <1>10, <2>2, <3>1
  <2>3. CASE i \in 1..a /\ j \in a + 1..a + b
    <3>1. y[j].from = r /\ y[j].round = k
      BY <1>3, <1>6, <2>3
    <3>2. y[i] = x[i]
      BY <1>5, <2>3
    <3>3. x[i].round < k
      BY <1>9, <1>10, <2>3, <3>1, <3>2
    <3> QED
      BY <3>1, <3>2, <3>3
  <2>4. CASE i \in a + 1..a + b /\ j \in a + 1..a + b
    <3>1. y[i] = new[i - a] /\ y[j] = new[j - a] /\ i - a \in DOMAIN new /\ j - a \in DOMAIN new
      BY <1>3, <1>6, <2>4
    <3>2. i - a = j - a
      BY <1>3, <1>10, <3>1
    <3> QED
      BY <1>2, <1>10, <2>1, <3>2
  <2>5. CASE i \in a + 1..a + b /\ j \in 1..a
    BY <1>2, <1>10, <2>5
  <2> QED
    BY <1>7, <2>2, <2>3, <2>4
<1>11. ASSUME NEW m
       PROVE  (\E i \in DOMAIN y : y[i] = m)
                  <=> (\E i \in DOMAIN x : x[i] = m) \/ (\E i \in DOMAIN new : new[i] = m)
  <2>1. ASSUME NEW i \in DOMAIN y, y[i] = m
        PROVE  (\E h \in DOMAIN x : x[h] = m) \/ (\E h \in DOMAIN new : new[h] = m)
    BY <1>2, <1>3, <1>5, <1>6, <1>7, <2>1
  <2>2. ASSUME NEW i \in DOMAIN x, x[i] = m PROVE \E h \in DOMAIN y : y[h] = m
    <3>1. i \in DOMAIN y
      BY <1>2, <1>3, <1>4
    <3> QED
      BY <1>2, <1>5, <2>2, <3>1
  <2>3. ASSUME NEW i \in DOMAIN new, new[i] = m PROVE \E h \in DOMAIN y : y[h] = m
    <3>1. a + i \in DOMAIN y /\ a + i \in a + 1..a + b /\ (a + i) - a = i
      BY <1>2, <1>3, <1>4
    <3>2. y[a + i] = new[i]
      BY <1>6, <3>1
    <3> QED
      BY <2>3, <3>1, <3>2
  <2> QED
    BY <2>1, <2>2, <2>3
<1> QED
  BY <1>1, <1>4, <1>8, <1>10, <1>11 DEF Joined

LEMMA PostStep ==
    ASSUME IInv, NEW r \in Ranks, Post(r)
    PROVE  IInv'
<1>1. PICK k \in Rounds : /\ k = done[r] + 1 /\ pc[r] = "replicate"
                          /\ script[k].op = "transfer" /\ script[k].win \in 1..2
  BY PostFacts
<1>2. /\ pc' = [pc EXCEPT ![r] = "receive"] /\ \E v : recvs' = [recvs EXCEPT ![r] = v]
      /\ script' = script /\ done' = done /\ asks' = asks /\ meta' = meta /\ bufs' = bufs
  BY DEF Post
<1>3. ControlOK /\ ProcessOK(r) /\ NetOK /\ done[r] \in Nat
  BY DEF IInv, ControlOK
<1>4. ControlOK'
  BY <1>2, <1>3 DEF ControlOK, States
<1>5. \A s \in Ranks \ {r} : Kept(s)
  BY <1>2, <1>3 DEF ControlOK, Kept
<1>6. pc'[r] = "receive"
  BY <1>2, <1>3 DEF ControlOK
<1>7. Begun(r)' = Begun(r) /\ Ready(r)' = Ready(r)
  BY <1>1, <1>2, <1>6 DEF Begun, Ready
<1>8. AsksOK(r)'
  BY <1>2, <1>3, <1>7, AsksKept DEF ProcessOK
<1>9. \A w \in 1..2 : MetaOK(r, w)'
  BY <1>2, <1>3, <1>7, MetaKept DEF ProcessOK
<1>10. PlaceOK(r)'
  BY <1>1, <1>2, <1>3, <1>6, ScriptKept DEF ProcessOK, PlaceOK, Call
<1>11. BufsOK(r)'
  BY <1>6 DEF BufsOK
<1>12. RecvsOK(r)' /\ \A p, what : Due(k, r, p, what) => Waiting(r, p, what)'
  BY <1>1, PostRecvs
<1>13. PICK new : Sends(new, r, k) /\ net' = net \o new
  BY <1>1, PostSends
<1>14. PICK y : y = net \o new
  OBVIOUS
<1>15. /\ y \in Seq(Messages)
       /\ \A i \in DOMAIN y : MessageOK(y[i])
       /\ \A i, j \in DOMAIN y :
              i < j /\ y[i].from = y[j].from /\ y[i].to = y[j].to /\ y[i].tag = y[j].tag
                  => y[i].round < y[j].round
       /\ \A m : (\E i \in DOMAIN y : y[i] = m)
                     <=> (\E i \in DOMAIN net : net[i] = m) \/ (\E i \in DOMAIN new : new[i] = m)
  <2>1. k = done[r] + 1 /\ Sends(new, r, k) /\ y = net \o new
    BY <1>1, <1>13, <1>14
  <2>2. Joined(y, new)
    BY <2>1, PostNet
  <2> QED
    BY <2>2 DEF Joined
<1>16. y = net'
  BY <1>13, <1>14
<1>17. net' \in Seq(Messages)'
  BY <1>2, <1>15, <1>16, ScriptKept
<1>18. \A i \in DOMAIN net' : MessageOK(net[i])'
  <2>1. \A i \in DOMAIN y : MessageOK(y[i])'
    BY <1>2, <1>15, ScriptKept DEF MessageOK
  <2> QED
    BY <1>16, <2>1
<1>19. Ordered'
  BY <1>15, <1>16 DEF Ordered
<1>20. \A l, t, z, u : InNet(l, t, z, u)'
           <=> InNet(l, t, z, u) \/ (\E i \in DOMAIN new : new[i] = Msg(l, t, z, u))
  <2> SUFFICES ASSUME NEW l, NEW t, NEW z, NEW u
               PROVE  InNet(l, t, z, u)'
                        <=> InNet(l, t, z, u) \/ (\E i \in DOMAIN new : new[i] = Msg(l, t, z, u))
    OBVIOUS
  <2>1. PICK m : m = Msg(l, t, z, u)
    OBVIOUS
  <2>2. InNet(l, t, z, u)' <=> \E i \in DOMAIN y : y[i] = m
    BY <1>2, <1>16, <2>1, ScriptKept DEF InNet
  <2>3. InNet(l, t, z, u) <=> \E i \in DOMAIN net : net[i] = m
    BY <2>1 DEF InNet
  <2> QED
    BY <1>15, <2>1, <2>2, <2>3
<1>21. \A l, t, z, u : ~(l = k /\ Panes[z].rank = r) => (InNet(l, t, z, u)' <=> InNet(l, t, z, u))
  <2> SUFFICES ASSUME NEW l, NEW t, NEW z, NEW u, ~(l = k /\ Panes[z].rank = r), NEW i \in DOMAIN new
               PROVE  new[i] # Msg(l, t, z, u)
    BY <1>20
  <2>1. new[i].from = r /\ new[i].round = k
    BY <1>13 DEF Sends
  <2>2. Msg(l, t, z, u).from = Panes[z].rank /\ Msg(l, t, z, u).round = l
    BY MsgFields
  <2> QED
    BY <2>1, <2>2
<1>22. ~Posted(r, k) /\ Posted(r, k)'
  BY <1>1, <1>2, <1>3, <1>6 DEF Posted
<1>23. \A s \in Ranks, l \in Rounds : ~(s = r /\ l = k) => (Posted(s, l)' <=> Posted(s, l))
  <2> SUFFICES ASSUME NEW s \in Ranks, NEW l \in Rounds, ~(s = r /\ l = k)
               PROVE  Posted(s, l)' <=> Posted(s, l)
    OBVIOUS
  <2>1. CASE s = r
    BY <1>1, <1>2, <2>1 DEF Posted
  <2>2. CASE s # r
    BY <1>2, <1>5, <2>2 DEF Posted, Kept
  <2> QED
    BY <2>1, <2>2
<1>24. \A s \in Ranks, l \in Rounds : \A z, u :
           ~(s = r /\ l = k) => (Outstanding(l, s, z, u)' <=> Outstanding(l, s, z, u))
  <2> SUFFICES ASSUME NEW s \in Ranks, NEW l \in Rounds, NEW z, NEW u, ~(s = r /\ l = k)
               PROVE  Outstanding(l, s, z, u)' <=> Outstanding(l, s, z, u)
    OBVIOUS
  <2>1. Posted(s, l)' <=> Posted(s, l)
    BY <1>23
  <2>2. CASE s = r
    BY <1>1, <1>2, <2>1, <2>2 DEF Outstanding
  <2>3. CASE s # r
    <3>1. pc'[s] = pc[s] /\ recvs'[s] = recvs[s]
      BY <1>5, <2>3 DEF Kept
    <3>2. Waiting(s, z, u)' <=> Waiting(s, z, u)
      BY <3>1 DEF Waiting
    <3> QED
      BY <1>2, <2>1, <3>1, <3>2 DEF Outstanding
  <2> QED
    BY <2>2, <2>3
<1>25. ASSUME NEW l \in Rounds, NEW t \in Ranks, NEW z \in DOMAIN Panes, NEW u \in Whats, Due(l, t, z, u)'
       PROVE  Settled(l, t, z, u)'
  <2>1. Due(l, t, z, u)
    BY <1>2, <1>25, ScriptKept
  <2>2. Settled(l, t, z, u) /\ Panes[z].rank \in Ranks
    BY <1>3, <2>1, TransferAssumption DEF NetOK
  <2>3. l = k => Panes[z].rank # t
    BY <1>1, <2>1, NeedsFacts DEF Due
  <2>4. CASE l = k /\ Panes[z].rank = r
    <3>1. InNet(l, t, z, u)'
      BY <1>13, <1>20, <2>1, <2>4 DEF Sends
    <3>2. Outstanding(l, t, z, u)
      BY <1>22, <2>2, <2>4 DEF Settled
    <3>3. Outstanding(l, t, z, u)'
      BY <1>24, <2>3, <2>4, <3>2
    <3>4. Posted(Panes[z].rank, l)'
      BY <1>22, <2>4
    <3> QED
      BY <3>1, <3>3, <3>4 DEF Settled
  <2>5. CASE l = k /\ t = r
    <3>1. Panes[z].rank # r
      BY <2>3, <2>5
    <3>2. InNet(l, t, z, u)' <=> InNet(l, t, z, u)
      BY <1>21, <3>1
    <3>3. Posted(Panes[z].rank, l)' <=> Posted(Panes[z].rank, l)
      BY <1>23, <2>2, <3>1
    <3>4. Outstanding(l, t, z, u)
      BY <1>22, <2>5 DEF Outstanding
    <3>5. Outstanding(l, t, z, u)'
      <4>1. Waiting(r, z, u)'
        BY <1>12, <2>1, <2>5
      <4> QED
        BY <1>1, <1>2, <1>6, <2>5, <4>1 DEF Outstanding
    <3> QED
      BY <2>2, <3>2, <3>3, <3>4, <3>5 DEF Settled
  <2>6. CASE ~(l = k /\ Panes[z].rank = r) /\ ~(l = k /\ t = r)
    <3>1. InNet(l, t, z, u)' <=> InNet(l, t, z, u)
      BY <1>21, <2>6
    <3>2. Posted(Panes[z].rank, l)' <=> Posted(Panes[z].rank, l)
      BY <1>23, <2>2, <2>6
    <3>3. Outstanding(l, t, z, u)' <=> Outstanding(l, t, z, u)
      BY <1>24, <2>6
    <3> QED
      BY <2>2, <3>1, <3>2, <3>3 DEF Settled
  <2> QED
    BY <2>4, <2>5, <2>6
<1>26. NetOK'
  BY <1>17, <1>18, <1>19, <1>25 DEF NetOK
<1>27. \A s \in Ranks \ {r} : ProcessOK(s)'
  BY <1>2, <1>5, OtherKept DEF IInv
<1>28. ProcessOK(r)'
  BY <1>8, <1>9, <1>10, <1>11, <1>12 DEF ProcessOK
<1> QED
  BY <1>4, <1>26, <1>27, <1>28 DEF IInv

------------------------------------------------------------------------------
(* The theorems                                                            *)

LEMMA InitOK == Init => IInv
<1> SUFFICES ASSUME Init PROVE IInv
  OBVIOUS
<1>1. /\ script \in Scripts
      /\ pc = [r \in Ranks |-> "idle"] /\ done = [r \in Ranks |-> 0]
      /\ asks = [r \in Ranks |-> <<>>] /\ meta = [r \in Ranks |-> [w \in 1..2 |-> NoMeta]]
      /\ net = <<>> /\ recvs = [r \in Ranks |-> <<>>] /\ bufs = [r \in Ranks |-> <<>>]
      /\ NRounds \in Nat
  BY TransferAssumption DEF Init
<1>2. ControlOK
  BY <1>1 DEF ControlOK, States
<1>3. DOMAIN <<>> = {} /\ (\A S : <<>> \in Seq(S)) /\ Len(<<>>) = 0
  OBVIOUS
<1>4. ASSUME NEW r \in Ranks PROVE ProcessOK(r)
  <2>1. /\ pc[r] = "idle" /\ done[r] = 0 /\ asks[r] = <<>> /\ recvs[r] = <<>> /\ bufs[r] = <<>>
        /\ \A w \in 1..2 : meta[r][w] = NoMeta
    BY <1>1
  <2>2. Begun(r) = 0 /\ Ready(r) = 0
    BY <2>1 DEF Begun, Ready
  <2>3. AsksOK(r)
    <3>1. NumExchanges(0) = 0
      BY ExchangesCounted
    <3>2. ASSUME NEW i \in Rounds, Exchanging(i) PROVE ~(NumExchanges(i) <= 0)
      <4>1. i - 1 \in Nat /\ (i - 1) + 1 = i
        BY DEF Rounds
      <4>2. NumExchanges((i - 1) + 1) = NumExchanges(i - 1) + 1 /\ NumExchanges(i - 1) \in Nat
        BY <3>2, <4>1, ExchangesCounted
      <4> QED
        BY <4>1, <4>2
    <3>3. asks[r] \in Seq(SUBSET DOMAIN Panes) /\ Len(asks[r]) = 0
      BY <1>3, <2>1
    <3> QED
      BY <2>2, <3>1, <3>2, <3>3 DEF AsksOK
  <2>4. PlaceOK(r)
    BY <2>1 DEF PlaceOK
  <2>5. ASSUME NEW w \in 1..2 PROVE MetaOK(r, w)
    <3>1. ~Replicated(w, 0)
      BY ReplicatedNext
    <3>2. meta[r][w] = [replicated |-> FALSE, panes |-> {}, to_send |-> {}]
      BY <2>1 DEF NoMeta
    <3>3. meta[r][w] \in [replicated : BOOLEAN, panes : SUBSET DOMAIN Panes,
                          to_send : SUBSET (Ranks \X DOMAIN Panes)]
      BY <3>2
    <3>4. ~meta[r][w].replicated /\ meta[r][w].panes = {} /\ meta[r][w].to_send = {}
      BY <3>2
    <3> QED
      BY <2>2, <3>1, <3>3, <3>4 DEF MetaOK
  <2>6. RecvsOK(r)
    BY <1>3, <2>1 DEF RecvsOK
  <2>7. BufsOK(r)
    BY <1>3, <2>1 DEF BufsOK
  <2> QED
    BY <2>3, <2>4, <2>5, <2>6, <2>7 DEF ProcessOK
<1>5. NetOK
  <2>1. net \in Seq(Messages) /\ DOMAIN net = {}
    BY <1>1, <1>3
  <2>2. ASSUME NEW k \in Rounds, NEW r \in Ranks, NEW p \in DOMAIN Panes, NEW what \in Whats
        PROVE  Settled(k, r, p, what)
    <3>1. Panes[p].rank \in Ranks /\ k \in Int /\ k >= 1
      BY TransferAssumption DEF Rounds
    <3>2. \A s \in Ranks : ~Posted(s, k)
      BY <1>1, <3>1 DEF Posted
    <3>3. ~InNet(k, r, p, what)
      BY <2>1 DEF InNet
    <3> QED
      BY <3>1, <3>2, <3>3 DEF Settled, Outstanding
  <2>3. Ordered
    BY <2>1 DEF Ordered
  <2> QED
    BY <2>1, <2>2, <2>3 DEF NetOK
<1> QED
  BY <1>2, <1>4, <1>5 DEF IInv

LEMMA StutterOK == ASSUME IInv, UNCHANGED vars PROVE IInv'
<1>1. /\ script' = script /\ pc' = pc /\ done' = done /\ asks' = asks /\ meta' = meta /\ net' = net
      /\ recvs' = recvs /\ bufs' = bufs
  BY DEF vars
<1>2. ControlOK'
  BY <1>1 DEF IInv, ControlOK
<1>3. \A s \in Ranks : Kept(s)
  BY <1>1 DEF Kept
<1>4. \A s \in Ranks : ProcessOK(s)'
  BY <1>1, <1>3, OtherKept DEF IInv
<1>5. \A s, k : Posted(s, k)' <=> Posted(s, k)
  BY <1>1 DEF Posted
<1>6. \A k, s, p, what : Outstanding(k, s, p, what)' <=> Outstanding(k, s, p, what)
  BY <1>1, <1>5 DEF Outstanding, Waiting
<1>7. NetOK'
  BY <1>1, <1>5, <1>6, NetKept DEF IInv
<1> QED
  BY <1>2, <1>4, <1>7 DEF IInv

LEMMA NextOK == IInv /\ [Next]_vars => IInv'
<1> SUFFICES ASSUME IInv, [Next]_vars PROVE IInv'
  OBVIOUS
<1>1. ASSUME NEW r \in Ranks, Step(r) PROVE IInv'
  <2>1. CASE Begin(r)
    BY <2>1, BeginStep
  <2>2. CASE Exchange(r)
    BY <2>2, ExchangeStep
  <2>3. CASE ReadOverlay(r)
    BY <2>3, ReadOverlayStep
  <2>4. CASE Post(r)
    BY <2>4, PostStep
  <2>5. CASE \E j \in DOMAIN recvs[r] : Unpack(r, j)
    BY <2>5, UnpackStep
  <2>6. CASE WaitAll(r)
    BY <2>6, WaitAllStep
  <2>7. CASE Clear(r)
    BY <2>7, ClearStep
  <2> QED
    BY <1>1, <2>1, <2>2, <2>3, <2>4, <2>5, <2>6, <2>7 DEF Step
<1>2. ASSUME NEW i \in DOMAIN net, Deliver(i) PROVE IInv'
  BY <1>2, DeliverStep
<1>3. CASE UNCHANGED vars
  BY <1>3, StutterOK
<1> QED
  BY <1>1, <1>2, <1>3 DEF Next

\* The invariant of all steps.
THEOREM Invariance == Spec => []IInv
<1>1. Init => IInv
  BY InitOK
<1>2. IInv /\ [Next]_vars => IInv'
  BY NextOK
<1> QED
  BY <1>1, <1>2, PTL DEF Spec

LEMMA TypesOK == IInv => TypeOK
<1> SUFFICES ASSUME IInv PROVE TypeOK
  OBVIOUS
<1>1. pc \in [Ranks -> {"idle", "exchange", "replicate", "receive", "compute"}] /\ done \in [Ranks -> 0..NRounds]
  BY DEF IInv, ControlOK, States
<1>2. ASSUME NEW r \in Ranks, NEW w \in 1..2
      PROVE  /\ \A p \in meta[r][w].panes : Win(p) = w /\ Panes[p].rank # r
             /\ \A x \in meta[r][w].to_send : x[1] # r /\ Panes[x[2]].rank = r
  <2>1. MetaOK(r, w)
    BY DEF IInv, ProcessOK
  <2>2. \A p \in meta[r][w].panes : p \in Needs(r, w)
    BY <2>1 DEF MetaOK
  <2>3. \A x \in meta[r][w].to_send : x \in ToSend(r, w)
    BY <2>1 DEF MetaOK
  <2>4. ASSUME NEW x \in ToSend(r, w) PROVE x[1] # r /\ Panes[x[2]].rank = r
    <3>1. Panes[x[2]].rank = r /\ x[2] \in Needs(x[1], w)
      BY DEF ToSend
    <3>2. Panes[x[2]].rank # x[1]
      BY <3>1, NeedsFacts
    <3> QED
      BY <3>1, <3>2
  <2> QED
    BY <2>2, <2>3, <2>4, NeedsFacts
<1>3. \A r \in Ranks : \A x \in DOMAIN bufs[r] : x[1] = "data" => pc[r] \in {"receive", "compute"}
  BY DEF IInv, ProcessOK, BufsOK
<1> QED
  BY <1>1, <1>2, <1>3 DEF TypeOK

LEMMA BuffersRight == IInv => RightBuffer
<1> SUFFICES ASSUME IInv PROVE RightBuffer
  OBVIOUS
<1>1. TypeOK
  BY TypesOK
<1>2. ASSUME NEW r \in Ranks, NEW j \in DOMAIN recvs[r], recvs[r][j].got # <<>>
      PROVE  /\ recvs[r][j].got[1].round = done[r] + 1
             /\ recvs[r][j].got[1].pane = recvs[r][j].pane /\ recvs[r][j].got[1].what = recvs[r][j].what
             /\ Len(recvs[r][j].got[1].buf) = recvs[r][j].len
  <2>1. RecvsOK(r) /\ PlaceOK(r)
    BY DEF IInv, ProcessOK
  <2>2. pc[r] = "receive"
    BY <2>1, ReceiveParts
  <2>3. done[r] < NRounds /\ Call(r).op = "transfer"
    BY <2>1, <2>2 DEF PlaceOK
  <2>4. PICK k : k = done[r] + 1
    OBVIOUS
  <2>5. script[k].kind \in Kinds
    BY <2>3, <2>4, RoundFacts DEF Call
  <2>6. PICK p, what, got :
            /\ p \in DOMAIN Panes /\ what \in Whats /\ recvs[r][j] = Rcv(k, r, p, what, got)
            /\ got \in {<<>>, <<Msg(k, r, p, what)>>}
    BY <2>1, <2>4, ReceiveParts
  <2>7. /\ recvs[r][j].pane = p /\ recvs[r][j].what = what /\ recvs[r][j].got = got
        /\ recvs[r][j].len = Len(Entries[p][r][script[k].kind])
    BY <2>6, RcvFields
  <2>8. PICK m : m = Msg(k, r, p, what)
    OBVIOUS
  <2>9. recvs[r][j].got = <<m>>
    BY <1>2, <2>6, <2>7, <2>8
  <2>10. m.round = k /\ m.pane = p /\ m.what = what
    BY <2>8, MsgFields
  <2>11. Len(m.buf) = Len(Entries[p][r][script[k].kind])
    BY <2>5, <2>6, <2>8, MsgLength
  <2> QED
    BY <2>4, <2>7, <2>9, <2>10, <2>11
<1> QED
  BY <1>1, <1>2 DEF RightBuffer

\* A process replicates panes of others only and has copies of data only while
\* it is in a transfer, whatever the overlay and the order of the processes.
THEOREM TypeCorrect == Spec => []TypeOK
<1>1. IInv => TypeOK
  BY TypesOK
<1> QED
  BY <1>1, Invariance, PTL

\* Every message that a posted receive has got was sent in the same transfer,
\* for the same pane and array, with the length that is expected: for any number
\* of processes, panes and calls, although there is no barrier between transfers
\* and the tags of the two windows overlap.
THEOREM RightBufferHolds == Spec => []RightBuffer
<1>1. IInv => RightBuffer
  BY BuffersRight
<1> QED
  BY <1>1, Invariance, PTL

------------------------------------------------------------------------------
(* The moves in the buffer                                                 *)

\* An ascending list of n places in an array of cap entries
Ascending(list, n, cap) ==
    /\ n \in Nat /\ cap \in Nat
    /\ DOMAIN list = 1..n /\ Len(list) = n
    /\ \A i \in 1..n : list[i] \in 1..cap
    /\ \A i, j \in 1..n : i < j => list[i] < list[j]

\* The entries move to higher places, and the first ones do not move.
LEMMA AscendingPlaces ==
    ASSUME NEW list, NEW n, NEW cap, Ascending(list, n, cap)
    PROVE  /\ \A i \in 1..n : list[i] >= i
           /\ \A i \in 1..n : list[i] = i => \A j \in 1..i : list[j] = j
<1>1. /\ n \in Nat /\ \A i \in 1..n : list[i] \in Nat /\ list[i] >= 1
      /\ \A i, j \in 1..n : i < j => list[i] < list[j]
  BY DEF Ascending
<1>2. ASSUME NEW i \in 1..n, list[i] < i PROVE FALSE
  <2> DEFINE Bad == {j \in 1..n : list[j] < j}
  <2>1. Bad \in SUBSET Nat /\ Bad # {}
    BY <1>2
  <2> HIDE DEF Bad
  <2>2. PICK k \in Bad : \A l \in Bad : k <= l
    BY <2>1, LeastNatural
  <2>3. k \in 1..n /\ list[k] < k
    BY DEF Bad
  <2>4. k # 1
    BY <1>1, <2>3
  <2>5. k - 1 \in 1..n /\ k - 1 < k
    BY <1>1, <2>3, <2>4
  <2>6. ~(list[k - 1] < k - 1)
    <3>1. k - 1 \notin Bad
      BY <2>2, <2>3, <2>5
    <3> QED
      BY <2>5, <3>1 DEF Bad
  <2>7. list[k - 1] < list[k]
    BY <1>1, <2>3, <2>5
  <2>8. list[k - 1] \in Nat /\ list[k] \in Nat
    BY <1>1, <2>3, <2>5
  <2> QED
    BY <2>3, <2>6, <2>7, <2>8
<1>3. \A i \in 1..n : list[i] >= i
  BY <1>1, <1>2
<1>4. ASSUME NEW i \in 1..n, list[i] = i, NEW j \in 1..i, list[j] # j PROVE FALSE
  <2> DEFINE Bad == {l \in Nat : i - l \in 1..i /\ list[i - l] # i - l}
  <2>1. Bad \in SUBSET Nat /\ Bad # {}
    <3>1. i - j \in Nat /\ i - (i - j) = j
      OBVIOUS
    <3>2. i - j \in Bad
      BY <1>4, <3>1
    <3> QED
      BY <3>2
  <2> HIDE DEF Bad
  <2>2. PICK l \in Bad : \A k \in Bad : l <= k
    BY <2>1, LeastNatural
  <2>3. PICK g \in 1..i : g = i - l
    BY <2>2 DEF Bad
  <2>4. l \in Nat /\ list[g] # g
    BY <2>2, <2>3 DEF Bad
  <2>5. g # i
    BY <1>4, <2>4
  <2>6. g + 1 \in 1..i /\ g + 1 = i - (l - 1) /\ l - 1 \in Nat /\ l - 1 < l
    BY <1>1, <2>3, <2>4, <2>5
  <2>7. list[g + 1] = g + 1
    <3>1. l - 1 \notin Bad
      BY <2>2, <2>4, <2>6
    <3> QED
      BY <2>6, <3>1 DEF Bad
  <2>8. list[g] < list[g + 1] /\ list[g] >= g /\ list[g] \in Nat
    <3>1. g \in 1..n /\ g + 1 \in 1..n
      BY <1>1, <2>3, <2>6
    <3> QED
      BY <1>1, <1>3, <3>1
  <2> QED
    BY <2>4, <2>7, <2>8
<1> QED
  BY <1>3, <1>4

LEMMA InPlaceFacts ==
    ASSUME NEW list, NEW n, NEW cap, Ascending(list, n, cap)
    PROVE  /\ InPlace(list) \in 0..n
           /\ \A j \in 1..InPlace(list) : list[j] = j
           /\ \A j \in 1..n : j > InPlace(list) => list[j] > j
<1> DEFINE P == {0} \cup {i \in DOMAIN list : list[i] = i}
           B == {l \in Nat : n - l \in P}
<1>1. n \in Nat /\ DOMAIN list = 1..n /\ \A i \in 1..n : list[i] \in Nat
  BY DEF Ascending
<1>2. P \in SUBSET (0..n) /\ 0 \in P
  BY <1>1
<1>3. B \in SUBSET Nat /\ B # {}
  <2>1. n \in B
    BY <1>1, <1>2
  <2> QED
    BY <2>1
<1> HIDE DEF B
<1>4. PICK l \in B : \A k \in B : l <= k
  BY <1>3, LeastNatural
<1>5. l \in Nat /\ n - l \in P
  BY <1>4 DEF B
<1>6. ASSUME NEW y \in P PROVE n - l >= y
  <2>1. y \in Nat /\ y <= n /\ n - y \in Nat /\ n - (n - y) = y
    BY <1>1, <1>2
  <2>2. n - y \in B
    BY <2>1 DEF B
  <2>3. l <= n - y
    BY <1>4, <2>2
  <2> QED
    BY <1>1, <1>5, <2>1, <2>3
<1>7. InPlace(list) = Max(P)
  BY DEF InPlace
<1> HIDE DEF P
<1>8. Max(P) \in P /\ \A y \in P : Max(P) >= y
  BY <1>5, <1>6 DEF Max
<1>9. PICK q : q = InPlace(list) /\ q \in P /\ \A y \in P : q >= y
  BY <1>7, <1>8
<1>10. q \in 0..n
  BY <1>2, <1>9
<1>11. \A j \in 1..q : list[j] = j
  <2>1. q = 0 \/ (q \in 1..n /\ list[q] = q)
    BY <1>1, <1>9 DEF P
  <2> QED
    BY <1>10, <2>1, AscendingPlaces
<1>12. ASSUME NEW j \in 1..n, j > q PROVE list[j] > j
  <2>1. j \notin P
    BY <1>9, <1>10, <1>12
  <2>2. list[j] # j
    BY <1>1, <2>1 DEF P
  <2>3. list[j] >= j /\ list[j] \in Nat
    BY <1>1, AscendingPlaces
  <2> QED
    BY <2>2, <2>3
<1> QED
  BY <1>9, <1>10, <1>11, <1>12

\* Moves(f, ...): the array f[i] is what the moves of the entries n, ..., i make of
\* the array start; the recursion of Dense.
Moves(f, start, list, q, n) ==
    f = [i \in q + 1..n + 1 |->
            IF i > n THEN start ELSE [f[i + 1] EXCEPT ![list[i]] = f[i + 1][i], ![i] = NaN]]

\* What is at place h then
AtPlace(start, list, n, i, h) ==
    IF h < i THEN start[h]
    ELSE IF \E j \in i..n : list[j] = h THEN start[CHOOSE j \in i..n : list[j] = h]
    ELSE IF h <= n THEN NaN ELSE start[h]

LEMMA PlaceFacts ==
    ASSUME NEW list, NEW n, NEW cap, Ascending(list, n, cap), NEW start, NEW i \in 1..n + 1
    PROVE  /\ \A h \in 1..cap : h < i => AtPlace(start, list, n, i, h) = start[h]
           /\ \A j \in i..n : AtPlace(start, list, n, i, list[j]) = start[j]
           /\ \A h \in 1..cap : ~(h < i) /\ (\A j \in i..n : list[j] # h) =>
                  AtPlace(start, list, n, i, h) = IF h <= n THEN NaN ELSE start[h]
<1>1. /\ n \in Nat /\ cap \in Nat /\ \A j \in 1..n : list[j] \in 1..cap /\ list[j] >= j
      /\ \A j, l \in 1..n : j < l => list[j] < list[l]
  BY AscendingPlaces DEF Ascending
<1>2. ASSUME NEW j \in i..n PROVE AtPlace(start, list, n, i, list[j]) = start[j]
  <2>1. j \in 1..n /\ list[j] \in Nat /\ ~(list[j] < i)
    BY <1>1
  <2>2. PICK h : h = list[j]
    OBVIOUS
  <2>3. \E l \in i..n : list[l] = h
    BY <2>2
  <2>4. PICK l \in i..n : l = CHOOSE g \in i..n : list[g] = h
    BY <2>3
  <2>5. list[l] = h
    BY <2>3, <2>4
  <2>6. l \in 1..n /\ list[l] = list[j]
    BY <1>1, <2>2, <2>5
  <2>7. ~(l < j) /\ ~(j < l)
    <3>1. l < j => list[l] < list[j]
      BY <1>1, <2>1, <2>6
    <3>2. j < l => list[j] < list[l]
      BY <1>1, <2>1, <2>6
    <3> QED
      BY <2>1, <2>6, <3>1, <3>2
  <2>8. l = j
    BY <1>1, <2>7
  <2> QED
    BY <2>1, <2>2, <2>3, <2>4, <2>8 DEF AtPlace
<1>3. \A h \in 1..cap : h < i => AtPlace(start, list, n, i, h) = start[h]
  BY DEF AtPlace
<1>4. \A h \in 1..cap : ~(h < i) /\ (\A j \in i..n : list[j] # h) =>
          AtPlace(start, list, n, i, h) = IF h <= n THEN NaN ELSE start[h]
  BY DEF AtPlace
<1> QED
  BY <1>2, <1>3, <1>4

\* What the move of entry i makes of place h
AfterMove(start, list, n, i, h) ==
    IF h = i THEN NaN
    ELSE IF h = list[i] THEN AtPlace(start, list, n, i + 1, i)
    ELSE AtPlace(start, list, n, i + 1, h)

\* The entries to be moved
Movable(list, i, n) == \A j \in i..n : list[j] > j

LEMMA PlacesMove ==
    ASSUME NEW list, NEW n, NEW cap, Ascending(list, n, cap), NEW start, NEW i \in 1..n,
           Movable(list, i, n), NEW h \in 1..cap
    PROVE  AtPlace(start, list, n, i, h) = AfterMove(start, list, n, i, h)
<1> USE DEF AfterMove, Movable
<1>1. /\ n \in Nat /\ cap \in Nat /\ i \in 1..n + 1 /\ i + 1 \in 1..n + 1
      /\ \A j \in 1..n : list[j] \in 1..cap /\ list[j] >= j
  <2>1. n \in Nat /\ cap \in Nat /\ \A j \in 1..n : list[j] \in 1..cap
    BY DEF Ascending
  <2>2. \A j \in 1..n : list[j] >= j
    BY AscendingPlaces
  <2> QED
    BY <2>1, <2>2
<1>2. CASE h = i
  <2>1. ~(h < i) /\ h <= n /\ \A j \in i..n : list[j] # h
    BY <1>1, <1>2
  <2> QED
    BY <1>1, <1>2, <2>1, PlaceFacts
<1>3. CASE h # i /\ h = list[i]
  <2>1. AtPlace(start, list, n, i, h) = start[i]
    <3>1. i \in i..n
      BY <1>1
    <3> QED
      BY <1>1, <1>3, <3>1, PlaceFacts
  <2>2. AtPlace(start, list, n, i + 1, i) = start[i]
    <3>1. i \in 1..cap /\ i < i + 1
      BY <1>1
    <3> QED
      BY <1>1, <3>1, PlaceFacts
  <2> QED
    BY <1>3, <2>1, <2>2
<1>4. CASE h < i
  <2>1. h < i + 1 /\ h # i
    BY <1>1, <1>4
  <2>2. h # list[i]
    BY <1>1, <1>4
  <2>3. AtPlace(start, list, n, i, h) = start[h]
    BY <1>1, <1>4, PlaceFacts
  <2>4. AtPlace(start, list, n, i + 1, h) = start[h]
    BY <1>1, <2>1, PlaceFacts
  <2> QED
    BY <2>1, <2>2, <2>3, <2>4
<1>5. CASE h > i /\ h # list[i]
  <2>1. ~(h < i) /\ ~(h < i + 1) /\ h # i
    BY <1>1, <1>5
  <2>2. CASE \E j \in i..n : list[j] = h
    <3>1. PICK j \in i..n : list[j] = h
      BY <2>2
    <3>2. j \in i + 1..n
      BY <1>1, <1>5, <3>1
    <3>3. AtPlace(start, list, n, i, list[j]) = start[j]
      BY <1>1, PlaceFacts
    <3>4. AtPlace(start, list, n, i + 1, list[j]) = start[j]
      BY <1>1, <3>2, PlaceFacts
    <3> QED
      BY <1>5, <2>1, <3>1, <3>3, <3>4
  <2>3. CASE \A j \in i..n : list[j] # h
    <3>1. \A j \in i + 1..n : list[j] # h
      BY <1>1, <2>3
    <3>2. AtPlace(start, list, n, i, h) = IF h <= n THEN NaN ELSE start[h]
      BY <2>1, <2>3 DEF AtPlace
    <3>3. AtPlace(start, list, n, i + 1, h) = IF h <= n THEN NaN ELSE start[h]
      BY <2>1, <3>1 DEF AtPlace
    <3> QED
      BY <1>5, <2>1, <3>2, <3>3
  <2> QED
    BY <2>2, <2>3
<1> QED
  BY <1>1, <1>2, <1>3, <1>4, <1>5

\* The recursion has a solution, and every one has this array.
Solved(start, list, q, n, cap) ==
    /\ \E f : Moves(f, start, list, q, n)
    /\ \A f : Moves(f, start, list, q, n) =>
           f[q + 1] = [h \in 1..cap |-> AtPlace(start, list, n, q + 1, h)]

LEMMA MovesSolved ==
    ASSUME NEW list, NEW n, NEW cap, Ascending(list, n, cap),
           NEW start, start = [h \in 1..cap |-> start[h]],
           NEW q \in 0..n, Movable(list, q + 1, n)
    PROVE  Solved(start, list, q, n, cap)
<1> DEFINE S == q + 1..n + 1
           row(i) == [h \in 1..cap |-> AtPlace(start, list, n, i, h)]
           g == [i \in S |-> row(i)]
<1>1. n \in Nat /\ cap \in Nat /\ q \in Nat /\ \A j \in 1..n : list[j] \in 1..cap /\ list[j] >= j
  <2>1. n \in Nat /\ cap \in Nat /\ \A j \in 1..n : list[j] \in 1..cap
    BY DEF Ascending
  <2>2. \A j \in 1..n : list[j] >= j
    BY AscendingPlaces
  <2> QED
    BY <2>1, <2>2
<1>2. row(n + 1) = start
  <2>1. ASSUME NEW h \in 1..cap PROVE AtPlace(start, list, n, n + 1, h) = start[h]
    <3>1. n + 1 \in 1..n + 1 /\ \A j \in n + 1..n : list[j] # h
      BY <1>1
    <3>2. CASE h < n + 1
      BY <3>2 DEF AtPlace
    <3>3. CASE ~(h < n + 1)
      <4>1. ~(h <= n) /\ ~(\E j \in n + 1..n : list[j] = h)
        BY <1>1, <3>1, <3>3
      <4> QED
        BY <3>3, <4>1 DEF AtPlace
    <3> QED
      BY <3>2, <3>3
  <2>2. row(n + 1) = [h \in 1..cap |-> start[h]]
    BY <2>1
  <2> QED
    BY <2>2
<1>3. ASSUME NEW i \in q + 1..n
      PROVE  row(i) = [row(i + 1) EXCEPT ![list[i]] = row(i + 1)[i], ![i] = NaN]
  <2>1. /\ i \in 1..n /\ i \in 1..cap /\ list[i] \in 1..cap /\ list[i] # i
        /\ \A j \in i..n : list[j] > j
    BY <1>1 DEF Movable
  <2>2. \A h \in 1..cap : AtPlace(start, list, n, i, h) = AfterMove(start, list, n, i, h)
    <3>1. i \in 1..n /\ Movable(list, i, n)
      BY <2>1 DEF Movable
    <3> QED
      BY <3>1, PlacesMove
  <2>3. PICK b : b = row(i + 1)
    OBVIOUS
  <2>4. DOMAIN b = 1..cap /\ \A h \in 1..cap : b[h] = AtPlace(start, list, n, i + 1, h)
    BY <2>3
  <2>5. row(i) = [h \in 1..cap |-> IF h = i THEN NaN ELSE IF h = list[i] THEN b[i] ELSE b[h]]
    BY <2>1, <2>2, <2>4 DEF AfterMove
  <2>6. [b EXCEPT ![list[i]] = b[i], ![i] = NaN]
            = [h \in 1..cap |-> IF h = i THEN NaN ELSE IF h = list[i] THEN b[i] ELSE b[h]]
    BY <2>1, <2>4
  <2> QED
    BY <2>3, <2>5, <2>6
<1> HIDE DEF row
<1>4. \A i \in S : i > n \/ i \in q + 1..n
  BY <1>1
<1>5. \A i \in S : i > n => i = n + 1
  BY <1>1
<1>6. \A i \in q + 1..n : i + 1 \in S /\ ~(i > n)
  BY <1>1
<1>7. Moves(g, start, list, q, n)
  <2>1. ASSUME NEW i \in S
        PROVE  row(i) = IF i > n THEN start
                        ELSE [g[i + 1] EXCEPT ![list[i]] = g[i + 1][i], ![i] = NaN]
    <3>1. CASE i > n
      BY <1>2, <1>5, <3>1
    <3>2. CASE i \in q + 1..n
      <4>1. g[i + 1] = row(i + 1) /\ ~(i > n)
        BY <1>6, <3>2
      <4> QED
        BY <1>3, <3>2, <4>1
    <3> QED
      BY <1>4, <3>1, <3>2
  <2>2. g = [i \in S |-> IF i > n THEN start
                         ELSE [g[i + 1] EXCEPT ![list[i]] = g[i + 1][i], ![i] = NaN]]
    BY <2>1
  <2> QED
    BY <2>2 DEF Moves
<1> HIDE DEF g
<1>8. ASSUME NEW f, Moves(f, start, list, q, n), NEW i \in S PROVE f[i] = row(i)
  <2>1. f = [j \in S |-> IF j > n THEN start
                         ELSE [f[j + 1] EXCEPT ![list[j]] = f[j + 1][j], ![j] = NaN]]
    BY <1>8 DEF Moves
  <2>2. \A j \in S : f[j] = IF j > n THEN start
                            ELSE [f[j + 1] EXCEPT ![list[j]] = f[j + 1][j], ![j] = NaN]
    BY <2>1
  <2> SUFFICES ASSUME f[i] # row(i) PROVE FALSE
    OBVIOUS
  <2> DEFINE Bad == {l \in Nat : n + 1 - l \in S /\ f[n + 1 - l] # row(n + 1 - l)}
  <2>3. Bad \in SUBSET Nat /\ Bad # {}
    <3>1. PICK l \in Nat : l = n + 1 - i
      BY <1>1
    <3>2. n + 1 - l = i
      BY <1>1, <3>1
    <3>3. l \in Bad
      BY <3>2
    <3> QED
      BY <3>3
  <2> HIDE DEF Bad
  <2>4. PICK l \in Bad : \A k \in Bad : l <= k
    BY <2>3, LeastNatural
  <2>5. PICK j \in S : j = n + 1 - l
    BY <2>4 DEF Bad
  <2>6. l \in Nat /\ f[j] # row(j)
    BY <2>4, <2>5 DEF Bad
  <2>7. CASE j > n
    <3>1. j = n + 1 /\ f[j] = start
      BY <1>5, <2>2, <2>7
    <3> QED
      BY <1>2, <2>6, <3>1
  <2>8. CASE j \in q + 1..n
    <3>1. l - 1 \in Nat /\ l - 1 < l /\ n + 1 - (l - 1) = j + 1 /\ j + 1 \in S /\ ~(j > n)
      BY <1>1, <2>5, <2>6, <2>8
    <3>2. l - 1 \notin Bad
      BY <2>4, <2>6, <3>1
    <3>3. f[j + 1] = row(j + 1)
      BY <3>1, <3>2 DEF Bad
    <3>4. f[j] = [row(j + 1) EXCEPT ![list[j]] = row(j + 1)[j], ![j] = NaN]
      BY <2>2, <3>1, <3>3
    <3> QED
      BY <1>3, <2>6, <2>8, <3>4
  <2> QED
    BY <1>4, <2>7, <2>8
<1>9. q + 1 \in S
  BY <1>1
<1> QED
  BY <1>7, <1>8, <1>9 DEF row, Solved

\* What Dense makes of a buffer: the entries of the list are at their places, and
\* NaN is where none of them is.
Exact(dense, buf, list, n, size, cap) ==
    /\ \A j \in 1..n : dense[list[j]] = buf[j]
    /\ \A h \in 1..cap : (\A j \in 1..n : list[j] # h) => dense[h] = NaN \/ h > size

LEMMA DenseExact ==
    ASSUME NEW list, NEW n, NEW cap, Ascending(list, n, cap), NEW buf, DOMAIN buf = 1..n, NEW size \in Nat
    PROVE  Exact(Dense(buf, list, size, cap), buf, list, n, size, cap)
<1> DEFINE start == Resized(buf, size, cap)
           q == InPlace(list)
           moved[i \in q + 1..n + 1] ==
               IF i > n THEN start ELSE [moved[i + 1] EXCEPT ![list[i]] = moved[i + 1][i], ![i] = NaN]
           A(h) == AtPlace(start, list, n, q + 1, h)
<1>1. /\ n \in Nat /\ cap \in Nat /\ Len(list) = n
      /\ \A j \in 1..n : list[j] \in 1..cap
      /\ \A i, j \in 1..n : i < j => list[i] < list[j]
  BY DEF Ascending
<1>2. \A j \in 1..n : list[j] >= j
  BY AscendingPlaces
<1>3. q \in 0..n /\ (\A j \in 1..q : list[j] = j) /\ \A j \in 1..n : j > q => list[j] > j
  BY InPlaceFacts
<1>4. start = [h \in 1..cap |-> IF h \in 1..n THEN buf[h] ELSE IF h <= size THEN NaN ELSE Junk]
  BY DEF Resized
<1>5. start = [h \in 1..cap |-> start[h]]
  BY <1>4
<1>6. Dense(buf, list, size, cap) = moved[q + 1]
  BY <1>1 DEF Dense
<1> HIDE DEF start, q
<1>7. /\ \E f : Moves(f, start, list, q, n)
      /\ \A f : Moves(f, start, list, q, n) => f[q + 1] = [h \in 1..cap |-> A(h)]
  <2>1. Movable(list, q + 1, n)
    BY <1>1, <1>3 DEF Movable
  <2>2. Solved(start, list, q, n, cap)
    BY <1>3, <1>5, <2>1, MovesSolved
  <2> QED
    BY <2>2 DEF Solved
<1>8. Moves(moved, start, list, q, n)
  BY <1>7 DEF Moves
<1> HIDE DEF moved
<1>9. Dense(buf, list, size, cap) = [h \in 1..cap |-> A(h)]
  BY <1>6, <1>7, <1>8
<1>10. q + 1 \in 1..n + 1 /\ q \in Nat
  BY <1>1, <1>3
<1>11. \A j \in 1..n : j \in 1..cap /\ start[j] = buf[j]
  BY <1>1, <1>2, <1>4
<1>12. ASSUME NEW j \in 1..n PROVE A(list[j]) = buf[j]
  <2>1. CASE j <= q
    <3>1. list[j] = j /\ j < q + 1 /\ j \in 1..cap
      BY <1>3, <1>10, <1>11, <2>1
    <3>2. A(j) = start[j]
      BY <3>1 DEF AtPlace
    <3> QED
      BY <1>11, <3>1, <3>2
  <2>2. CASE j > q
    <3>1. j \in q + 1..n
      BY <1>1, <1>10, <2>2
    <3>2. A(list[j]) = start[j]
      BY <1>10, <3>1, PlaceFacts
    <3> QED
      BY <1>11, <3>2
  <2> QED
    BY <1>10, <2>1, <2>2
<1>13. ASSUME NEW h \in 1..cap, \A j \in 1..n : list[j] # h PROVE A(h) = NaN \/ h > size
  <2>1. ~(h < q + 1)
    BY <1>1, <1>3, <1>10, <1>13
  <2>2. ~(\E j \in q + 1..n : list[j] = h)
    BY <1>1, <1>10, <1>13
  <2>3. A(h) = IF h <= n THEN NaN ELSE start[h]
    BY <2>1, <2>2 DEF AtPlace
  <2>4. ~(h <= n) => start[h] = NaN \/ h > size
    BY <1>1, <1>4
  <2> QED
    BY <2>3, <2>4
<1> HIDE DEF A
<1>14. \A j \in 1..n : Dense(buf, list, size, cap)[list[j]] = buf[j]
  BY <1>1, <1>9, <1>12
<1>15. \A h \in 1..cap : (\A j \in 1..n : list[j] # h) => Dense(buf, list, size, cap)[h] = NaN \/ h > size
  BY <1>9, <1>13
<1> QED
  BY <1>14, <1>15 DEF Exact

------------------------------------------------------------------------------
(* The copies of the data                                                  *)

Capacity(p) == IF Panes[p].nnodes > Panes[p].nfaces THEN Panes[p].nnodes ELSE Panes[p].nfaces

\* The copy of pane p that process r makes in the k-th call
Copy(k, r, p) ==
    Dense(Msg(k, r, p, "data").buf, Entries[p][r][script[k].kind], Panes[p].nnodes, Capacity(p))

\* An array of pane p is still to be taken from its receive, or it is there.
Listed(r, p, what) ==
    /\ pc[r] = "receive"
    /\ \E j \in DOMAIN recvs[r] : recvs[r][j].pane = p /\ recvs[r][j].what = what

Filled(r, p) ==
    <<"data", p>> \in DOMAIN bufs[r] /\ bufs[r][<<"data", p>>] = Copy(done[r] + 1, r, p)

CopiesOK(r) ==
    pc[r] \in {"receive", "compute"} => \A p \in Needs(r, Call(r).win) : Listed(r, p, "data") \/ Filled(r, p)

Copies == \A r \in Ranks : CopiesOK(r)

\* Coordinates are taken from all receives at once, when the process goes on.
CoorFilled(r, p) ==
    \A i \in DOMAIN Entries[p][r][Call(r).kind] :
        bufs[r][<<"coor", p>>][i] = Value("coor", p, i, done[r] + 1)

CoorsOK(r) ==
    Call(r).coor =>
        \A p \in Needs(r, Call(r).win) :
            /\ pc[r] = "receive" => Listed(r, p, "coor")
            /\ pc[r] = "compute" => CoorFilled(r, p)

Coors == \A r \in Ranks : CoorsOK(r)

LEMMA CopyKept ==
    ASSUME script' = script
    PROVE  \A k, r, p : Copy(k, r, p)' = Copy(k, r, p)
BY ScriptKept DEF Copy

LEMMA CopiesKept ==
    ASSUME NEW s, script' = script, Kept(s), CopiesOK(s)
    PROVE  CopiesOK(s)'
<1>1. pc'[s] = pc[s] /\ done'[s] = done[s] /\ recvs'[s] = recvs[s] /\ bufs'[s] = bufs[s]
  BY DEF Kept
<1>2. Call(s)' = Call(s)
  BY <1>1 DEF Call
<1>3. \A p : Listed(s, p, "data")' <=> Listed(s, p, "data")
  BY <1>1 DEF Listed
<1>4. \A p : Filled(s, p)' <=> Filled(s, p)
  BY <1>1, CopyKept DEF Filled
<1> QED
  BY <1>1, <1>2, <1>3, <1>4 DEF CopiesOK

LEMMA MsgBuffers ==
    ASSUME NEW k, NEW r, NEW p
    PROVE  /\ Msg(k, r, p, "data").buf = SendBuffer(p, r, script[k].kind, k)
           /\ Msg(k, r, p, "coor").buf = CoorBuffer(p, r, script[k].kind, k)
BY DEF Msg

LEMMA CoorsKept ==
    ASSUME NEW s, script' = script, Kept(s), CoorsOK(s)
    PROVE  CoorsOK(s)'
<1>1. pc'[s] = pc[s] /\ done'[s] = done[s] /\ recvs'[s] = recvs[s] /\ bufs'[s] = bufs[s]
  BY DEF Kept
<1>2. Call(s)' = Call(s)
  BY <1>1 DEF Call
<1>3. \A p : Listed(s, p, "coor")' <=> Listed(s, p, "coor")
  BY <1>1 DEF Listed
<1>4. \A p : CoorFilled(s, p)' <=> CoorFilled(s, p)
  BY <1>1, <1>2 DEF CoorFilled
<1> QED
  BY <1>1, <1>2, <1>3, <1>4 DEF CoorsOK

\* A step of process r leaves the others alone.
LEMMA OthersKept ==
    ASSUME IInv, NEW r \in Ranks, Step(r)
    PROVE  script' = script /\ \A s \in Ranks \ {r} : Kept(s)
<1>1. ControlOK
  BY DEF IInv
<1>2. CASE Begin(r)
  BY <1>1, <1>2 DEF Begin, ControlOK, Kept
<1>3. CASE Exchange(r)
  BY <1>1, <1>3 DEF Exchange, ControlOK, Kept
<1>4. CASE ReadOverlay(r)
  BY <1>1, <1>4 DEF ReadOverlay, ControlOK, Kept
<1>5. CASE Post(r)
  <2>1. /\ pc' = [pc EXCEPT ![r] = "receive"] /\ \E v : recvs' = [recvs EXCEPT ![r] = v]
        /\ script' = script /\ done' = done /\ asks' = asks /\ meta' = meta /\ bufs' = bufs
    BY <1>5 DEF Post
  <2> QED
    BY <1>1, <2>1 DEF ControlOK, Kept
<1>6. CASE \E j \in DOMAIN recvs[r] : Unpack(r, j)
  <2>1. /\ \E v : recvs' = [recvs EXCEPT ![r] = v]
        /\ \E v : bufs' = [bufs EXCEPT ![r] = v]
        /\ script' = script /\ pc' = pc /\ done' = done /\ asks' = asks /\ meta' = meta
    BY <1>6 DEF Unpack
  <2> QED
    BY <1>1, <2>1 DEF ControlOK, Kept
<1>7. CASE WaitAll(r)
  <2>1. /\ \E v : recvs' = [recvs EXCEPT ![r] = v]
        /\ \E v : bufs' = [bufs EXCEPT ![r] = v]
        /\ \E v : pc' = [pc EXCEPT ![r] = v]
        /\ script' = script /\ done' = done /\ asks' = asks /\ meta' = meta
    BY <1>7 DEF WaitAll
  <2> QED
    BY <1>1, <2>1 DEF ControlOK, Kept
<1>8. CASE Clear(r)
  BY <1>1, <1>8 DEF Clear, ControlOK, Kept
<1> QED
  BY <1>2, <1>3, <1>4, <1>5, <1>6, <1>7, <1>8 DEF Step

LEMMA PostCopies ==
    ASSUME IInv, NEW r \in Ranks, Post(r)
    PROVE  CopiesOK(r)'
<1>1. PICK k \in Rounds, w \in 1..2 :
          k = done[r] + 1 /\ w = Call(r).win /\ Call(r) = script[k] /\ script[k].op = "transfer"
  BY PostFacts
<1>2. /\ script' = script /\ done' = done /\ pc' = [pc EXCEPT ![r] = "receive"]
      /\ pc \in [Ranks -> States]
  BY DEF Post, IInv, ControlOK
<1>3. pc'[r] = "receive" /\ Call(r)' = Call(r)
  BY <1>2 DEF Call
<1>4. \A p, what : Due(k, r, p, what) => Waiting(r, p, what)'
  BY <1>1, PostRecvs
<1>5. \A p \in Needs(r, w) : Due(k, r, p, "data")
  BY <1>1 DEF Due
<1>6. \A p \in Needs(r, w) : Listed(r, p, "data")'
  BY <1>3, <1>4, <1>5 DEF Waiting, Listed
<1> QED
  BY <1>1, <1>3, <1>6 DEF CopiesOK

LEMMA PostCoors ==
    ASSUME IInv, NEW r \in Ranks, Post(r)
    PROVE  CoorsOK(r)'
<1>1. PICK k \in Rounds, w \in 1..2 :
          k = done[r] + 1 /\ w = Call(r).win /\ Call(r) = script[k] /\ script[k].op = "transfer"
  BY PostFacts
<1>2. /\ script' = script /\ done' = done /\ pc' = [pc EXCEPT ![r] = "receive"]
      /\ pc \in [Ranks -> States]
  BY DEF Post, IInv, ControlOK
<1>3. pc'[r] = "receive" /\ Call(r)' = Call(r)
  BY <1>2 DEF Call
<1>4. \A p, what : Due(k, r, p, what) => Waiting(r, p, what)'
  BY <1>1, PostRecvs
<1>5. script[k].coor => \A p \in Needs(r, w) : Due(k, r, p, "coor")
  BY <1>1 DEF Due
<1>6. script[k].coor => \A p \in Needs(r, w) : Listed(r, p, "coor")'
  BY <1>3, <1>4, <1>5 DEF Waiting, Listed
<1> QED
  BY <1>1, <1>3, <1>6 DEF CoorsOK

\* A receive stays in the list when another one is unpacked.
LEMMA UnpackLists ==
    ASSUME IInv, NEW r \in Ranks, NEW j \in DOMAIN recvs[r], Unpack(r, j),
           NEW p, NEW what, p # recvs[r][j].pane \/ what # "data", Listed(r, p, what)
    PROVE  Listed(r, p, what)'
<1>1. /\ pc[r] = "receive" /\ recvs[r][j].what = "data"
      /\ recvs' = [recvs EXCEPT ![r] = RemoveAt(@, j)] /\ pc' = pc
  BY DEF Unpack
<1>2. ControlOK /\ RecvsOK(r)
  BY DEF IInv, ProcessOK
<1>3. PICK x, y : x = recvs[r] /\ y = recvs'[r]
  OBVIOUS
<1>4. y = RemoveAt(x, j)
  BY <1>1, <1>2, <1>3 DEF ControlOK
<1>5. x \in Seq(Receives) /\ j \in 1..Len(x)
  BY <1>2, <1>3 DEF RecvsOK
<1>6. \A h \in DOMAIN x : h # j => \E i \in DOMAIN y : y[i] = x[h]
  BY <1>4, <1>5, RemoveAtElements
<1>7. PICK h \in DOMAIN x : x[h].pane = p /\ x[h].what = what
  BY <1>3 DEF Listed
<1>8. h # j
  BY <1>1, <1>3, <1>7
<1>9. \E i \in DOMAIN y : y[i].pane = p /\ y[i].what = what
  BY <1>6, <1>7, <1>8
<1> QED
  BY <1>1, <1>3, <1>9 DEF Listed

LEMMA UnpackCoors ==
    ASSUME IInv, NEW r \in Ranks, CoorsOK(r), NEW j \in DOMAIN recvs[r], Unpack(r, j)
    PROVE  CoorsOK(r)'
<1>1. pc[r] = "receive" /\ script' = script /\ pc' = pc /\ done' = done
  BY DEF Unpack
<1>2. Call(r)' = Call(r)
  BY <1>1 DEF Call
<1>3. \A p : Listed(r, p, "coor") => Listed(r, p, "coor")'
  BY UnpackLists
<1> QED
  BY <1>1, <1>2, <1>3 DEF CoorsOK

LEMMA UnpackCopies ==
    ASSUME IInv, NEW r \in Ranks, CopiesOK(r), NEW j \in DOMAIN recvs[r], Unpack(r, j)
    PROVE  CopiesOK(r)'
<1> DEFINE z == recvs[r][j].pane
<1>1. /\ pc[r] = "receive" /\ recvs[r][j].what = "data" /\ recvs[r][j].got # <<>>
      /\ recvs' = [recvs EXCEPT ![r] = RemoveAt(@, j)]
      /\ script' = script /\ pc' = pc /\ done' = done
  BY DEF Unpack
<1>2. ControlOK /\ RecvsOK(r) /\ PlaceOK(r)
  BY DEF IInv, ProcessOK
<1>3. PICK k : k = done[r] + 1
  OBVIOUS
<1>4. Call(r) = script[k] /\ Call(r)' = Call(r)
  BY <1>1, <1>3 DEF Call
<1>5. recvs[r][j].got = <<Msg(k, r, z, "data")>>
  BY <1>1, <1>2, <1>3 DEF RecvsOK, RecvOK
<1>6. PICK b : /\ b = Dense(recvs[r][j].got[1].buf, Entries[z][r][Call(r).kind], Panes[z].nnodes, Capacity(z))
               /\ bufs' = [bufs EXCEPT ![r] = [y \in {<<"data", z>>} \cup DOMAIN bufs[r] |->
                                                   IF y = <<"data", z>> THEN b ELSE bufs[r][y]]]
  BY DEF Unpack, Capacity
<1>7. b = Copy(k, r, z)
  <2>1. recvs[r][j].got[1] = Msg(k, r, z, "data")
    BY <1>5
  <2>2. b = Dense(Msg(k, r, z, "data").buf, Entries[z][r][script[k].kind], Panes[z].nnodes, Capacity(z))
    BY <1>4, <1>6, <2>1
  <2> QED
    BY <2>2 DEF Copy
<1>8. PICK e : e = z
  OBVIOUS
<1>9. bufs'[r] = [y \in {<<"data", e>>} \cup DOMAIN bufs[r] |-> IF y = <<"data", e>> THEN b ELSE bufs[r][y]]
  BY <1>2, <1>6, <1>8 DEF ControlOK
<1>10. Filled(r, e)'
  <2>1. <<"data", e>> \in DOMAIN bufs'[r] /\ bufs'[r][<<"data", e>>] = b
    BY <1>9
  <2>2. b = Copy(k, r, e)'
    BY <1>1, <1>7, <1>8, CopyKept
  <2> QED
    BY <1>1, <1>3, <2>1, <2>2 DEF Filled
<1>11. ASSUME NEW p, p # e, Filled(r, p) PROVE Filled(r, p)'
  <2>1. <<"data", p>> # <<"data", e>>
    BY <1>11
  <2>2. <<"data", p>> \in DOMAIN bufs[r] /\ bufs[r][<<"data", p>>] = Copy(k, r, p)
    BY <1>3, <1>11 DEF Filled
  <2>3. <<"data", p>> \in DOMAIN bufs'[r] /\ bufs'[r][<<"data", p>>] = Copy(k, r, p)
    BY <1>9, <2>1, <2>2
  <2> QED
    BY <1>1, <1>3, <2>3, CopyKept DEF Filled
<1>12. ASSUME NEW p, p # e, Listed(r, p, "data") PROVE Listed(r, p, "data")'
  BY <1>8, <1>12, UnpackLists
<1>13. \A p \in Needs(r, Call(r).win) : Listed(r, p, "data") \/ Filled(r, p)
  BY <1>1 DEF CopiesOK
<1>14. \A p \in Needs(r, Call(r).win) : Listed(r, p, "data")' \/ Filled(r, p)'
  BY <1>10, <1>11, <1>12, <1>13
<1> QED
  BY <1>4, <1>14 DEF CopiesOK

LEMMA WaitAllCopies ==
    ASSUME IInv, NEW r \in Ranks, CopiesOK(r), WaitAll(r)
    PROVE  CopiesOK(r)'
<1>1. /\ pc[r] = "receive" /\ \A j \in DOMAIN recvs[r] : recvs[r][j].what = "coor"
      /\ script' = script /\ done' = done
  BY DEF WaitAll
<1> DEFINE C == {<<"coor", recvs[r][j].pane>> : j \in DOMAIN recvs[r]}
           G(x) == LET j == CHOOSE j \in DOMAIN recvs[r] : recvs[r][j].pane = x[2]
                   IN CoorCopy(IF x \in DOMAIN bufs[r] THEN bufs[r][x] ELSE <<>>,
                               recvs[r][j].got[1].buf, Size(x[2], Call(r).kind))
           v == [x \in C \cup DOMAIN bufs[r] |-> IF x \in C THEN G(x) ELSE bufs[r][x]]
<1>2. /\ \A x : <<"data", x>> \notin C
      /\ bufs' = [bufs EXCEPT ![r] = v]
      /\ DOMAIN v = C \cup DOMAIN bufs[r]
      /\ \A x \in DOMAIN bufs[r] : x \notin C => v[x] = bufs[r][x]
  <2>1. bufs' = [bufs EXCEPT ![r] = v]
    BY DEF WaitAll
  <2>2. \A x : <<"data", x>> \notin C
    OBVIOUS
  <2> HIDE DEF C, G
  <2>3. /\ DOMAIN v = C \cup DOMAIN bufs[r]
        /\ \A x \in DOMAIN bufs[r] : x \notin C => v[x] = bufs[r][x]
    OBVIOUS
  <2> QED
    BY <2>1, <2>2, <2>3
<1> HIDE DEF C, G, v
<1>3. bufs'[r] = v
  BY <1>2 DEF IInv, ControlOK
<1>4. Call(r)' = Call(r)
  BY <1>1 DEF Call
<1>5. ASSUME NEW p, Filled(r, p) PROVE Filled(r, p)'
  <2>1. <<"data", p>> \notin C
    BY <1>2
  <2>2. <<"data", p>> \in DOMAIN bufs[r] /\ bufs[r][<<"data", p>>] = Copy(done[r] + 1, r, p)
    BY <1>5 DEF Filled
  <2>3. <<"data", p>> \in DOMAIN v /\ v[<<"data", p>>] = Copy(done[r] + 1, r, p)
    BY <1>2, <2>1, <2>2
  <2> QED
    BY <1>1, <1>3, <2>3, CopyKept DEF Filled
<1>6. \A p : ~Listed(r, p, "data")
  BY <1>1 DEF Listed
<1>7. \A p \in Needs(r, Call(r).win) : Filled(r, p)
  BY <1>1, <1>6 DEF CopiesOK
<1> QED
  BY <1>4, <1>5, <1>7 DEF CopiesOK

\* The coordinates come to the begin of their array.
LEMMA CoorCopyFacts ==
    ASSUME NEW old, NEW buf, NEW n, NEW i, i \in DOMAIN buf, i \in 1..n
    PROVE  CoorCopy(old, buf, n)[i] = buf[i]
BY DEF CoorCopy

\* The entries are not more than the pane has.
LEMMA EntriesFit ==
    ASSUME NEW r \in Ranks, NEW w \in 1..2, NEW p \in Needs(r, w), NEW kind \in Kinds,
           NEW i \in DOMAIN Entries[p][r][kind]
    PROVE  i \in 1..Size(p, kind) /\ Entries[p][r][kind][i] \in 1..Size(p, kind)
<1>1. PICK list, S, n, size :
          /\ list = Entries[p][r][kind] /\ S = Selected(p, r, kind)
          /\ n = Cardinality(S) /\ size = Size(p, kind)
  OBVIOUS
<1>2. p \in DOMAIN Panes /\ Win(p) = w /\ Panes[p].rank # r
  BY NeedsFacts
<1>3. size \in Nat
  BY <1>1, <1>2, TransferAssumption DEF Size
<1>4. /\ Lists(list, S) /\ \A h, j \in 1..n : h < j => list[h] < list[j]
      /\ Len(list) = n /\ DOMAIN list = 1..n
  BY <1>1, <1>2, EntriesListed
<1>5. n \in Nat /\ \A j \in 1..n : list[j] \in S
  BY <1>1, <1>4 DEF Lists
<1>6. \A x \in S : x \in 1..size
  BY <1>1, <1>2, SelectedInPane
<1>7. Ascending(list, n, size)
  BY <1>3, <1>4, <1>5, <1>6 DEF Ascending
<1>8. i \in 1..n /\ list[i] \in 1..size /\ list[i] >= i
  BY <1>1, <1>4, <1>5, <1>6, <1>7, AscendingPlaces
<1>9. i \in 1..size
  BY <1>3, <1>5, <1>8
<1> QED
  BY <1>1, <1>8, <1>9

LEMMA WaitAllCoors ==
    ASSUME IInv, NEW r \in Ranks, CoorsOK(r), WaitAll(r)
    PROVE  CoorsOK(r)'
<1>1. /\ pc[r] = "receive" /\ pc' = [pc EXCEPT ![r] = "compute"]
      /\ \A j \in DOMAIN recvs[r] : recvs[r][j].what = "coor" /\ recvs[r][j].got # <<>>
      /\ script' = script /\ done' = done
  BY DEF WaitAll
<1>2. ControlOK /\ RecvsOK(r) /\ PlaceOK(r)
  BY DEF IInv, ProcessOK
<1>3. pc'[r] = "compute" /\ Call(r)' = Call(r)
  BY <1>1, <1>2 DEF ControlOK, Call
<1>4. PICK k : k = done[r] + 1
  OBVIOUS
<1>5. Call(r) = script[k]
  BY <1>4 DEF Call
<1>6. script \in Scripts /\ k \in Rounds /\ script[k].op = "transfer"
  BY <1>1, <1>2, <1>4, <1>5, TransferAssumption DEF ControlOK, PlaceOK, Rounds
<1>7. PICK w \in 1..2, kind \in Kinds : w = Call(r).win /\ kind = Call(r).kind
  BY <1>5, <1>6, CallTypes
<1> DEFINE C == {<<"coor", recvs[r][j].pane>> : j \in DOMAIN recvs[r]}
           G(x) == LET j == CHOOSE j \in DOMAIN recvs[r] : recvs[r][j].pane = x[2]
                   IN CoorCopy(IF x \in DOMAIN bufs[r] THEN bufs[r][x] ELSE <<>>,
                               recvs[r][j].got[1].buf, Size(x[2], Call(r).kind))
           v == [x \in C \cup DOMAIN bufs[r] |-> IF x \in C THEN G(x) ELSE bufs[r][x]]
<1>8. bufs'[r] = v
  <2>1. bufs' = [bufs EXCEPT ![r] = v]
    BY DEF WaitAll
  <2> HIDE DEF v
  <2> QED
    BY <1>2, <2>1 DEF ControlOK
<1>9. ASSUME Call(r).coor, NEW p \in Needs(r, w), NEW i \in DOMAIN Entries[p][r][kind]
      PROVE  bufs'[r][<<"coor", p>>][i] = Value("coor", p, i, k)
  <2>1. PICK h \in DOMAIN recvs[r] : recvs[r][h].pane = p
    BY <1>1, <1>7, <1>9 DEF CoorsOK, Listed
  <2>2. PICK x : x = <<"coor", p>> /\ x[2] = p
    <3>1. <<"coor", p>>[2] = p
      OBVIOUS
    <3> HIDE DEF C, G
    <3> QED
      BY <3>1
  <2>3. x \in C
    BY <2>1, <2>2
  <2>4. PICK j : j = CHOOSE q \in DOMAIN recvs[r] : recvs[r][q].pane = x[2]
    OBVIOUS
  <2>5. j \in DOMAIN recvs[r] /\ recvs[r][j].pane = p
    BY <2>1, <2>2, <2>4
  <2>6. recvs[r][j].got = <<Msg(k, r, p, "coor")>>
    BY <1>1, <1>2, <1>4, <2>5 DEF RecvsOK, RecvOK
  <2>7. recvs[r][j].got[1].buf = CoorBuffer(p, r, kind, k)
    BY <1>5, <1>7, <2>6, MsgBuffers
  <2>8. PICK old : G(x) = CoorCopy(old, CoorBuffer(p, r, kind, k), Size(p, kind))
    <3>1. G(x) = CoorCopy(IF x \in DOMAIN bufs[r] THEN bufs[r][x] ELSE <<>>,
                          recvs[r][j].got[1].buf, Size(x[2], Call(r).kind))
      BY <2>4
    <3> QED
      BY <1>7, <2>2, <2>7, <3>1
  <2>9. v[x] = G(x)
    <3> HIDE DEF C, G
    <3> QED
      BY <2>3
  <2>10. i \in 1..Size(p, kind)
    BY <1>9, EntriesFit
  <2>11. i \in DOMAIN CoorBuffer(p, r, kind, k) /\ CoorBuffer(p, r, kind, k)[i] = Value("coor", p, i, k)
    BY <1>9 DEF CoorBuffer
  <2>12. G(x)[i] = Value("coor", p, i, k)
    <3> HIDE DEF G
    <3> QED
      BY <2>8, <2>10, <2>11, CoorCopyFacts
  <2> HIDE DEF G, v
  <2> QED
    BY <1>8, <2>2, <2>9, <2>12
<1> HIDE DEF C, G, v
<1>10. Call(r).coor => \A p \in Needs(r, w) : CoorFilled(r, p)'
  BY <1>1, <1>3, <1>4, <1>7, <1>9 DEF CoorFilled
<1> QED
  BY <1>3, <1>7, <1>10 DEF CoorsOK

\* A receive stays in the list when a message is delivered.
LEMMA DeliverLists ==
    ASSUME IInv, NEW i \in DOMAIN net, Deliver(i), NEW s \in Ranks, NEW p, NEW what, Listed(s, p, what)
    PROVE  Listed(s, p, what)'
<1>1. pc' = pc
  BY DEF Deliver
<1>2. PICK r, q : q \in DOMAIN recvs[r] /\ Completes(i, r, q) /\ r \in Ranks
  BY DeliverMatches DEF Matches
<1>3. DOMAIN recvs = Ranks
  BY DEF IInv, ControlOK
<1>4. PICK x, y : x = recvs[s] /\ y = recvs'[s]
  OBVIOUS
<1>5. PICK h \in DOMAIN x : x[h].pane = p /\ x[h].what = what
  BY <1>4 DEF Listed
<1>6. h \in DOMAIN y /\ y[h].pane = p /\ y[h].what = what
  <2>1. CASE s # r
    BY <1>2, <1>3, <1>4, <1>5, <2>1 DEF Completes
  <2>2. CASE s = r
    <3>1. y = [x EXCEPT ![q].got = <<net[i]>>]
      BY <1>2, <1>3, <1>4, <2>2 DEF Completes
    <3>2. RecvsOK(s)
      BY DEF IInv, ProcessOK
    <3>3. x[h] \in Receives
      BY <1>4, <3>2 DEF RecvsOK
    <3>4. PICK l, t, z, u, g : x[h] = Rcv(l, t, z, u, g)
      BY <3>3 DEF Receives
    <3>5. y[h] = x[h] \/ y[h] = [x[h] EXCEPT !.got = <<net[i]>>]
      BY <1>2, <1>4, <2>2, <3>1
    <3>6. y[h].pane = x[h].pane /\ y[h].what = x[h].what
      BY <3>4, <3>5 DEF Rcv
    <3> QED
      BY <1>5, <3>1, <3>6
  <2> QED
    BY <2>1, <2>2
<1> QED
  BY <1>1, <1>4, <1>6 DEF Listed

LEMMA DeliverCopies ==
    ASSUME IInv, Copies, NEW i \in DOMAIN net, Deliver(i)
    PROVE  Copies'
<1>1. script' = script /\ pc' = pc /\ done' = done /\ bufs' = bufs
  BY DEF Deliver
<1>4. \A s \in Ranks : \A p : Listed(s, p, "data") => Listed(s, p, "data")'
  BY DeliverLists
<1>5. \A s \in Ranks : \A p : Filled(s, p) => Filled(s, p)'
  BY <1>1, CopyKept DEF Filled
<1>6. \A s : Call(s)' = Call(s)
  BY <1>1 DEF Call
<1>7. ASSUME NEW s \in Ranks PROVE CopiesOK(s)'
  <2>1. CopiesOK(s)
    BY DEF Copies
  <2> QED
    BY <1>1, <1>4, <1>5, <1>6, <2>1 DEF CopiesOK
<1> QED
  BY <1>7 DEF Copies

LEMMA DeliverCoors ==
    ASSUME IInv, Coors, NEW i \in DOMAIN net, Deliver(i)
    PROVE  Coors'
<1>1. script' = script /\ pc' = pc /\ done' = done /\ bufs' = bufs
  BY DEF Deliver
<1>2. \A s \in Ranks : \A p : Listed(s, p, "coor") => Listed(s, p, "coor")'
  BY DeliverLists
<1>3. \A s : Call(s)' = Call(s)
  BY <1>1 DEF Call
<1>4. \A s, p : CoorFilled(s, p) => CoorFilled(s, p)'
  BY <1>1, <1>3 DEF CoorFilled
<1>5. ASSUME NEW s \in Ranks PROVE CoorsOK(s)'
  <2>1. CoorsOK(s)
    BY DEF Coors
  <2> QED
    BY <1>1, <1>2, <1>3, <1>4, <2>1 DEF CoorsOK
<1> QED
  BY <1>5 DEF Coors

LEMMA CopiesNext == IInv /\ Copies /\ [Next]_vars => Copies'
<1> SUFFICES ASSUME IInv, Copies, [Next]_vars PROVE Copies'
  OBVIOUS
<1>1. ASSUME NEW r \in Ranks, Step(r) PROVE Copies'
  <2>1. script' = script /\ \A s \in Ranks \ {r} : Kept(s)
    BY <1>1, OthersKept
  <2>2. \A s \in Ranks \ {r} : CopiesOK(s)'
    BY <2>1, CopiesKept DEF Copies
  <2>3. CopiesOK(r)
    BY DEF Copies
  <2>4. pc \in [Ranks -> States]
    BY DEF IInv, ControlOK
  <2>5. CopiesOK(r)'
    <3>1. CASE Begin(r)
      <4>1. pc'[r] \in {"exchange", "replicate"}
        BY <2>4, <3>1 DEF Begin
      <4> QED
        BY <4>1 DEF CopiesOK
    <3>2. CASE Exchange(r)
      <4>1. pc'[r] = "replicate"
        BY <2>4, <3>2 DEF Exchange
      <4> QED
        BY <4>1 DEF CopiesOK
    <3>3. CASE ReadOverlay(r)
      <4>1. pc'[r] = "idle"
        BY <3>3 DEF ReadOverlay
      <4> QED
        BY <4>1 DEF CopiesOK
    <3>4. CASE Post(r)
      BY <3>4, PostCopies
    <3>5. CASE \E j \in DOMAIN recvs[r] : Unpack(r, j)
      BY <2>3, <3>5, UnpackCopies
    <3>6. CASE WaitAll(r)
      BY <2>3, <3>6, WaitAllCopies
    <3>7. CASE Clear(r)
      <4>1. pc'[r] = "idle"
        BY <2>4, <3>7 DEF Clear
      <4> QED
        BY <4>1 DEF CopiesOK
    <3> QED
      BY <1>1, <3>1, <3>2, <3>3, <3>4, <3>5, <3>6, <3>7 DEF Step
  <2> QED
    BY <2>2, <2>5 DEF Copies
<1>2. ASSUME NEW i \in DOMAIN net, Deliver(i) PROVE Copies'
  BY <1>2, DeliverCopies
<1>3. CASE UNCHANGED vars
  <2>1. script' = script /\ \A s \in Ranks : Kept(s)
    BY <1>3 DEF vars, Kept
  <2> QED
    BY <2>1, CopiesKept DEF Copies
<1> QED
  BY <1>1, <1>2, <1>3 DEF Next

LEMMA CoorsNext == IInv /\ Coors /\ [Next]_vars => Coors'
<1> SUFFICES ASSUME IInv, Coors, [Next]_vars PROVE Coors'
  OBVIOUS
<1>1. ASSUME NEW r \in Ranks, Step(r) PROVE Coors'
  <2>1. script' = script /\ \A s \in Ranks \ {r} : Kept(s)
    BY <1>1, OthersKept
  <2>2. \A s \in Ranks \ {r} : CoorsOK(s)'
    BY <2>1, CoorsKept DEF Coors
  <2>3. CoorsOK(r)
    BY DEF Coors
  <2>4. pc \in [Ranks -> States]
    BY DEF IInv, ControlOK
  <2>5. CoorsOK(r)'
    <3>1. CASE Begin(r)
      <4>1. pc'[r] \in {"exchange", "replicate"}
        BY <2>4, <3>1 DEF Begin
      <4> QED
        BY <4>1 DEF CoorsOK
    <3>2. CASE Exchange(r)
      <4>1. pc'[r] = "replicate"
        BY <2>4, <3>2 DEF Exchange
      <4> QED
        BY <4>1 DEF CoorsOK
    <3>3. CASE ReadOverlay(r)
      <4>1. pc'[r] = "idle"
        BY <3>3 DEF ReadOverlay
      <4> QED
        BY <4>1 DEF CoorsOK
    <3>4. CASE Post(r)
      BY <3>4, PostCoors
    <3>5. CASE \E j \in DOMAIN recvs[r] : Unpack(r, j)
      BY <2>3, <3>5, UnpackCoors
    <3>6. CASE WaitAll(r)
      BY <2>3, <3>6, WaitAllCoors
    <3>7. CASE Clear(r)
      <4>1. pc'[r] = "idle"
        BY <2>4, <3>7 DEF Clear
      <4> QED
        BY <4>1 DEF CoorsOK
    <3> QED
      BY <1>1, <3>1, <3>2, <3>3, <3>4, <3>5, <3>6, <3>7 DEF Step
  <2> QED
    BY <2>2, <2>5 DEF Coors
<1>2. ASSUME NEW i \in DOMAIN net, Deliver(i) PROVE Coors'
  BY <1>2, DeliverCoors
<1>3. CASE UNCHANGED vars
  <2>1. script' = script /\ \A s \in Ranks : Kept(s)
    BY <1>3 DEF vars, Kept
  <2> QED
    BY <2>1, CoorsKept DEF Coors
<1> QED
  BY <1>1, <1>2, <1>3 DEF Next

\* The buffer holds the values of the entries in the list, if they were copied,
\* or those of the first entries.
LEMMA BufferExact ==
    ASSUME NEW r \in Ranks, NEW w \in 1..2, NEW p \in Needs(r, w), NEW kind \in Kinds, NEW k
    PROVE  LET n == Cardinality(Selected(p, r, kind))
               buf == SendBuffer(p, r, kind, k)
           IN /\ DOMAIN buf = 1..n
              /\ Copied(p, kind) => \A j \in 1..n : buf[j] = Value(kind, p, Entries[p][r][kind][j], k)
              /\ \A j \in 1..n : \E m \in 1..Size(p, kind) : buf[j] = Value(kind, p, m, k)
<1>1. PICK list, n, buf, size :
          /\ list = Entries[p][r][kind] /\ n = Cardinality(Selected(p, r, kind))
          /\ buf = SendBuffer(p, r, kind, k) /\ size = Size(p, kind)
  OBVIOUS
<1>2. p \in DOMAIN Panes /\ Win(p) = w /\ Panes[p].rank # r
  BY NeedsFacts
<1>3. DOMAIN list = 1..n
  BY <1>1, <1>2, EntriesListed
<1>4. buf = IF Copied(p, kind) THEN [i \in 1..n |-> Value(kind, p, list[i], k)]
                               ELSE [i \in 1..n |-> Value(kind, p, i, k)]
  BY <1>1, <1>3 DEF SendBuffer
<1>5. \A j \in 1..n : j \in 1..size /\ list[j] \in 1..size
  BY <1>1, <1>3, EntriesFit
<1>6. /\ DOMAIN buf = 1..n
      /\ Copied(p, kind) => \A j \in 1..n : buf[j] = Value(kind, p, list[j], k)
      /\ ~Copied(p, kind) => \A j \in 1..n : buf[j] = Value(kind, p, j, k)
  BY <1>4
<1>7. ASSUME NEW j \in 1..n PROVE \E m \in 1..size : buf[j] = Value(kind, p, m, k)
  BY <1>5, <1>6
<1> QED
  BY <1>1, <1>6, <1>7

\* The entries that the subfaces of process r need are those of the list.
LEMMA SelectedNeeded ==
    ASSUME NEW r, NEW w, NEW p, Win(p) = w, NEW kind, NEW n
    PROVE  n \in Selected(p, r, kind) <=>
               \E s \in Opposite(r, w) :
                   /\ s[w].pane = p
                   /\ IF kind = "nodal" THEN n \in s[w].nodes ELSE n = s[w].face
<1> DEFINE S == {s[w] : s \in {s \in Opposite(r, w) : s[w].pane = p}}
<1>1. Selected(p, r, kind) = IF kind = "nodal" THEN UNION {x.nodes : x \in S} ELSE {x.face : x \in S}
  BY DEF Selected
<1>2. \A x : x \in S <=> \E s \in Opposite(r, w) : s[w].pane = p /\ x = s[w]
  OBVIOUS
<1> HIDE DEF S
<1>3. CASE kind = "nodal"
  <2>1. n \in Selected(p, r, kind) <=> \E x \in S : n \in x.nodes
    BY <1>1, <1>3
  <2> QED
    BY <1>2, <1>3, <2>1
<1>4. CASE kind # "nodal"
  <2>1. n \in Selected(p, r, kind) <=> \E x \in S : n = x.face
    BY <1>1, <1>4
  <2> QED
    BY <1>2, <1>4, <2>1
<1> QED
  BY <1>3, <1>4

LEMMA CopyExact ==
    ASSUME NEW r \in Ranks, NEW k, script[k].win \in 1..2, script[k].kind \in Kinds,
           NEW p \in Needs(r, script[k].win), NEW h \in 1..Size(p, script[k].kind)
    PROVE  IF h \in Selected(p, r, script[k].kind)
           THEN /\ Copied(p, script[k].kind) => Copy(k, r, p)[h] = Value(script[k].kind, p, h, k)
                /\ \E m \in 1..Size(p, script[k].kind) : Copy(k, r, p)[h] = Value(script[k].kind, p, m, k)
           ELSE Copy(k, r, p)[h] = NaN \/ h > Panes[p].nnodes
<1>1. PICK w \in 1..2, kind \in Kinds : w = script[k].win /\ kind = script[k].kind
  OBVIOUS
<1>2. p \in Needs(r, w) /\ p \in DOMAIN Panes
  BY <1>1, NeedsFacts
<1>3. PICK list, buf, S, n, cap, size :
          /\ list = Entries[p][r][kind] /\ buf = SendBuffer(p, r, kind, k)
          /\ S = Selected(p, r, kind) /\ n = Cardinality(S)
          /\ cap = Capacity(p) /\ size = Panes[p].nnodes
  OBVIOUS
<1>4. Copy(k, r, p) = Dense(buf, list, size, cap)
  <2>1. Msg(k, r, p, "data").buf = SendBuffer(p, r, kind, k)
    BY <1>1 DEF Msg
  <2> QED
    BY <1>1, <1>3, <2>1 DEF Copy
<1>5. size \in Nat /\ cap \in Nat /\ Size(p, kind) \in Nat /\ Size(p, kind) <= cap
  BY <1>2, <1>3, TransferAssumption DEF Capacity, Size
<1>6. /\ DOMAIN buf = 1..n
      /\ Copied(p, kind) => \A j \in 1..n : buf[j] = Value(kind, p, list[j], k)
      /\ \A j \in 1..n : \E m \in 1..Size(p, kind) : buf[j] = Value(kind, p, m, k)
  BY <1>2, <1>3, BufferExact
<1>7. /\ Lists(list, S) /\ \A i, j \in 1..n : i < j => list[i] < list[j]
      /\ Len(list) = n /\ DOMAIN list = 1..n
  BY <1>2, <1>3, EntriesListed
<1>8. /\ n \in Nat /\ (\A j \in 1..n : list[j] \in S) /\ \A x \in S : \E j \in 1..n : list[j] = x
  BY <1>3, <1>7 DEF Lists
<1>9. \A x \in S : x \in 1..Size(p, kind)
  BY <1>2, <1>3, SelectedInPane
<1>10. \A x \in S : x \in 1..cap
  BY <1>5, <1>9
<1>11. Ascending(list, n, cap)
  BY <1>5, <1>7, <1>8, <1>10 DEF Ascending
<1>12. Exact(Dense(buf, list, size, cap), buf, list, n, size, cap)
  BY <1>5, <1>6, <1>11, DenseExact
<1>13. CASE h \in S
  <2>1. PICK j \in 1..n : list[j] = h
    BY <1>8, <1>13
  <2>2. Copy(k, r, p)[h] = buf[j]
    BY <1>4, <1>12, <2>1 DEF Exact
  <2>3. Copied(p, kind) => Copy(k, r, p)[h] = Value(kind, p, h, k)
    BY <1>6, <2>1, <2>2
  <2>4. \E m \in 1..Size(p, kind) : Copy(k, r, p)[h] = Value(kind, p, m, k)
    BY <1>6, <2>2
  <2> QED
    BY <1>1, <1>3, <1>13, <2>3, <2>4
<1>14. CASE h \notin S
  <2>1. h \in 1..cap
    BY <1>1, <1>5
  <2>2. \A j \in 1..n : list[j] # h
    BY <1>8, <1>14
  <2>3. Copy(k, r, p)[h] = NaN \/ h > size
    BY <1>4, <1>12, <2>1, <2>2 DEF Exact
  <2> QED
    BY <1>1, <1>3, <1>14, <2>3
<1> QED
  BY <1>13, <1>14

LEMMA CopiesExact == IInv /\ Copies /\ Coors => ReplicasExact
<1> SUFFICES ASSUME IInv, Copies, Coors PROVE ReplicasExact
  OBVIOUS
<1>1. ASSUME NEW r \in Ranks, pc[r] = "compute",
             NEW p \in Needs(r, Call(r).win), NEW n \in 1..Size(p, Call(r).kind)
      PROVE  LET c == Call(r)
                 v == bufs[r][<<"data", p>>][n]
             IN IF \E s \in Opposite(r, c.win) :
                       /\ s[c.win].pane = p
                       /\ IF c.kind = "nodal" THEN n \in s[c.win].nodes ELSE n = s[c.win].face
                THEN /\ Copied(p, c.kind) => v = Value(c.kind, p, n, done[r] + 1)
                     /\ \E m \in 1..Size(p, c.kind) : v = Value(c.kind, p, m, done[r] + 1)
                ELSE v = NaN \/ n > Panes[p].nnodes
  <2>1. PICK k : k = done[r] + 1
    OBVIOUS
  <2>2. Call(r) = script[k]
    BY <2>1 DEF Call
  <2>3. ControlOK /\ PlaceOK(r) /\ CopiesOK(r)
    BY DEF IInv, ProcessOK, Copies
  <2>4. script \in Scripts /\ k \in Rounds /\ script[k].op = "transfer"
    BY <1>1, <2>1, <2>2, <2>3, TransferAssumption DEF ControlOK, PlaceOK, Rounds
  <2>5. script[k].win \in 1..2 /\ script[k].kind \in Kinds
    BY <2>4, CallTypes
  <2>6. ~Listed(r, p, "data")
    BY <1>1 DEF Listed
  <2>7. Filled(r, p)
    BY <1>1, <2>3, <2>6 DEF CopiesOK
  <2>8. bufs[r][<<"data", p>>] = Copy(k, r, p)
    BY <2>1, <2>7 DEF Filled
  <2>9. PICK w \in 1..2, kind \in Kinds : w = Call(r).win /\ kind = Call(r).kind
    BY <2>2, <2>5
  <2>10. p \in Needs(r, w) /\ Win(p) = w
    BY <1>1, <2>9, NeedsFacts
  <2>11. IF n \in Selected(p, r, kind)
         THEN /\ Copied(p, kind) => Copy(k, r, p)[n] = Value(kind, p, n, k)
              /\ \E m \in 1..Size(p, kind) : Copy(k, r, p)[n] = Value(kind, p, m, k)
         ELSE Copy(k, r, p)[n] = NaN \/ n > Panes[p].nnodes
    BY <1>1, <2>2, <2>5, <2>9, CopyExact
  <2>12. n \in Selected(p, r, kind) <=>
             \E s \in Opposite(r, w) :
                 /\ s[w].pane = p
                 /\ IF kind = "nodal" THEN n \in s[w].nodes ELSE n = s[w].face
    BY <2>10, SelectedNeeded
  <2> QED
    BY <2>1, <2>8, <2>9, <2>11, <2>12
<1>2. ASSUME NEW r \in Ranks, pc[r] = "compute", NEW p \in Needs(r, Call(r).win)
      PROVE  Call(r).coor => \A i \in DOMAIN Entries[p][r][Call(r).kind] :
                                 bufs[r][<<"coor", p>>][i] = Value("coor", p, i, done[r] + 1)
  BY <1>2 DEF Coors, CoorsOK, CoorFilled
<1> QED
  BY <1>1, <1>2 DEF ReplicasExact

LEMMA InitCopies == Init => Copies /\ Coors
BY DEF Init, Copies, CopiesOK, Coors, CoorsOK

\* When a process computes, its copies of the panes of others hold data of this
\* very transfer, the needed entries those of the owner wherever replicate_data
\* copied the selected entries for sending, NaN where no value was needed, and
\* the first coordinates: for any number of processes, panes and calls and for
\* any overlay.
THEOREM ReplicasExactHolds == Spec => []ReplicasExact
<1>1. Init => Copies /\ Coors
  BY InitCopies
<1>2. IInv /\ Copies /\ [Next]_vars => Copies'
  BY CopiesNext
<1>3. IInv /\ Coors /\ [Next]_vars => Coors'
  BY CoorsNext
<1>4. IInv /\ Copies /\ Coors => ReplicasExact
  BY CopiesExact
<1> QED
  BY <1>1, <1>2, <1>3, <1>4, Invariance, PTL DEF Spec
=============================================================================
