------------------------- MODULE DataItemArraysProofs -------------------------
(***************************************************************************)
(* Proofs about dataitem arrays: the storage behind items, and behind the  *)
(* items that use them, is sound for any items, arrays, sizes and          *)
(* sequences of calls.  In the second half, about MeshTables: elements,    *)
(* tables and nodes of the panes agree for any panes and sequences of      *)
(* calls on meshes.                                                        *)
(***************************************************************************)
EXTENDS DataItemArrays, MeshTables, FiniteSetTheorems, SequenceTheorems, WellFoundedInduction, TLAPS

Unset == "NOT_INITIALIZED"
Top == Max({MaxSize, ClientLen})

\* What one DataItem object says about its own array.  An item that uses
\* another has no array, so that whoever asks it is answered by the root.
Own(d) ==
    /\ ~d.exists => d = NoDataItem
    /\ d.parent # NULL => d.status = Unset
    /\ d.status = Unset => d.ptr = NULL
    /\ d.status # Unset => (d.ptr = NULL <=> d.cap = 0)
    /\ d.status = "ALLOCATED" => d.ptr \in Block \cup {NULL}
    /\ d.status \in {"SET", "SET_CONST"} => d.ptr \in ClientArray \cup {NULL}

\* The arrays: those of the client stay as long as they are, those of COM
\* belong to one item each, and all cover the capacity of their items.
Array == Block \cup ClientArray
Heap(h) ==
    /\ h \in [Array -> Seq(Value)]
    /\ \A a \in Array : Len(h[a]) <= Top
    /\ \A a \in ClientArray : Len(h[a]) = ClientLen
Covers == \A i \in Item : item[i].ptr # NULL => item[i].cap <= Len(heap[item[i].ptr])
Owned == \A b \in Block : heap[b] # <<>> =>
            \E i \in Item : item[i].status = "ALLOCATED" /\ item[i].ptr = b
Unshared == \A i, j \in Item :
    /\ item[i].status = "ALLOCATED" /\ item[j].status = "ALLOCATED"
    /\ item[i].ptr = item[j].ptr /\ item[i].ptr # NULL
    => i = j

\* The chains of parents end.
Descends(d) == \A i \in Item : item[i].parent # NULL => d[item[i].parent] < d[i]
Acyclic == \E d \in [Item -> Nat] : Descends(d)

ArraysInv ==
    /\ item \in [Item -> DataItem] /\ overrun = FALSE
    /\ \A i \in Item : Own(item[i])
    /\ Heap(heap) /\ Covers /\ Owned /\ Unshared /\ Acyclic

------------------------------------------------------------------------------
(* Recursion along the parents *)

Follows(f, S, stop, par, base) == f = [i \in S |-> IF i \in stop THEN base[i] ELSE f[par[i]]]

\* A function that follows par until stop exists, whatever par is.
LEMMA ChainFunction ==
    ASSUME NEW S, NEW stop \in SUBSET S, NEW par, \A i \in S \ stop : par[i] \in S, NEW base
    PROVE  \E f : Follows(f, S, stop, par, base)
<1> DEFINE Closed(T) == \A k \in T \ stop : par[k] \in T
           ends(i) == {s \in stop : \A T \in SUBSET S : i \in T /\ Closed(T) => s \in T}
           f == [i \in S |-> base[CHOOSE s : s \in ends(i)]]
<1>1. ASSUME NEW i \in stop PROVE ends(i) = {i}
  <2>1. {i} \in SUBSET S /\ Closed({i})
    BY <1>1
  <2> QED
    BY <1>1, <2>1
<1>2. ASSUME NEW i \in S \ stop PROVE ends(i) = ends(par[i])
  <2>1. ASSUME NEW s \in ends(par[i]) PROVE s \in ends(i)
    BY <1>2, <2>1
  <2>2. ASSUME NEW s \in ends(i) PROVE s \in ends(par[i])
    <3>1. SUFFICES ASSUME NEW T \in SUBSET S, par[i] \in T, Closed(T) PROVE s \in T
      BY <2>2
    <3>2. T \cup {i} \in SUBSET S /\ Closed(T \cup {i})
      BY <1>2, <3>1 DEF Follows
    <3>3. s \in T \cup {i}
      BY <2>2, <3>2
    <3> QED
      BY <1>2, <2>2, <3>3
  <2> QED
    BY <2>1, <2>2
<1> HIDE DEF ends
<1>3. ASSUME NEW i \in stop PROVE f[i] = base[i]
  BY <1>1, <1>3
<1>4. ASSUME NEW i \in S \ stop PROVE f[i] = f[par[i]]
  BY <1>2, <1>4
<1>5. f = [i \in S |-> f[i]]
  OBVIOUS
<1> HIDE DEF f
<1>6. f = [i \in S |-> IF i \in stop THEN base[i] ELSE f[par[i]]]
  BY <1>3, <1>4, <1>5
<1> QED
  BY <1>6 DEF Follows

LEMMA LeastNatural ==
    ASSUME NEW S \in SUBSET Nat, S # {}
    PROVE  \E m \in S : \A k \in S : m <= k
<1>1. PICK m \in S : \A y \in S : ~(<<y, m>> \in OpToRel(<, Nat))
  BY WFMin, NatLessThanWellFounded, Zenon
<1>2. \A k \in S : ~(k < m)
  BY <1>1 DEF OpToRel
<1> QED
  BY <1>2

\* What holds of all k if it holds of those without a parent, and of those
\* whose parent it holds of.
LEMMA AlongParents ==
    ASSUME item \in [Item -> DataItem], Acyclic, NEW G,
           \A k \in Item : item[k].parent = NULL => k \in G,
           \A k \in Item : item[k].parent # NULL /\ item[k].parent \in G => k \in G
    PROVE  \A k \in Item : k \in G
<1>1. PICK d \in [Item -> Nat] : Descends(d)
  BY DEF Acyclic
<1>2. SUFFICES ASSUME NEW k \in Item, k \notin G PROVE FALSE
  OBVIOUS
<1> DEFINE Bad == {d[j] : j \in {j \in Item : j \notin G}}
<1>3. Bad \in SUBSET Nat /\ Bad # {}
  BY <1>2
<1>4. PICK m \in Bad : \A x \in Bad : m <= x
  BY <1>3, LeastNatural
<1>5. PICK j \in Item : j \notin G /\ m = d[j]
  BY <1>4
<1>6. item[j].parent # NULL /\ item[j].parent \in Item /\ item[j].parent \notin G
  BY <1>5 DEF DataItem
<1>7. /\ d[item[j].parent] \in Bad /\ d[item[j].parent] < d[j]
      /\ d[item[j].parent] \in Nat /\ d[j] \in Nat
  BY <1>1, <1>6 DEF Descends
<1> HIDE DEF Bad
<1> QED
  BY <1>4, <1>5, <1>7

\* root() goes from parent to parent, and ends at an item.
RootsFollow == \A k \in Item : /\ Roots[k] \in Item
                               /\ item[k].parent = NULL => Roots[k] = k
                               /\ item[k].parent # NULL => Roots[k] = Roots[item[k].parent]

LEMMA RootsFollowParents == item \in [Item -> DataItem] /\ Acyclic => RootsFollow
<1> SUFFICES ASSUME item \in [Item -> DataItem], Acyclic PROVE RootsFollow
  OBVIOUS
<1> DEFINE stop == {k \in Item : item[k].parent = NULL}
           par == [k \in Item |-> item[k].parent]
           same == [k \in Item |-> k]
<1>1. \A k \in Item \ stop : par[k] \in Item
  BY DEF DataItem
<1>2. \E r : r = [k \in Item |-> IF item[k].parent = NULL THEN k ELSE r[item[k].parent]]
  <2>1. PICK r : Follows(r, Item, stop, par, same)
    <3> HIDE DEF stop, par, same
    <3>1. stop \in SUBSET Item
      BY DEF stop
    <3> QED
      BY <1>1, <3>1, ChainFunction, Zenon
  <2>2. r = [k \in Item |-> IF item[k].parent = NULL THEN k ELSE r[item[k].parent]]
    BY <2>1 DEF Follows
  <2> QED
    BY <2>2
<1>3. Roots = [k \in Item |-> IF item[k].parent = NULL THEN k ELSE Roots[item[k].parent]]
  BY <1>2 DEF Roots
<1> DEFINE R == Roots
<1>4. \A k \in Item : /\ item[k].parent = NULL => R[k] = k
                      /\ item[k].parent # NULL => R[k] = R[item[k].parent]
  BY <1>3
<1> HIDE DEF R
<1>5. \A k \in Item : R[k] \in Item
  <2> DEFINE G == {k \in Item : R[k] \in Item}
  <2>1. \A k \in Item : item[k].parent = NULL => k \in G
    BY <1>4
  <2>2. \A k \in Item : item[k].parent # NULL /\ item[k].parent \in G => k \in G
    BY <1>4
  <2> HIDE DEF G
  <2>3. \A k \in Item : k \in G
    BY <2>1, <2>2, AlongParents
  <2> QED
    BY <2>3 DEF G
<1> QED
  BY <1>4, <1>5 DEF RootsFollow, R

LEMMA RootFacts ==
    ASSUME item \in [Item -> DataItem], Acyclic, NEW i \in Item
    PROVE  root(i) \in Item /\ (item[i].parent = NULL => root(i) = i)
  BY RootsFollowParents DEF RootsFollow, root

\* Uses follows the parents from j up to i.
LEMMA UsesFacts ==
    ASSUME item \in [Item -> DataItem], NEW i \in Item
    PROVE  \A k \in Item : Uses(k, i) <=> k = i \/ (item[k].parent # NULL /\ Uses(item[k].parent, i))
<1> DEFINE stop == {k \in Item : k = i \/ item[k].parent = NULL}
           par == [k \in Item |-> item[k].parent]
           found == [k \in Item |-> k = i]
           Is(u) == u = [k \in Item |-> k = i \/ (item[k].parent # NULL /\ u[item[k].parent])]
<1>1. \A k \in Item \ stop : par[k] \in Item
  BY DEF DataItem
<1>2. PICK r : Follows(r, Item, stop, par, found)
  <2> HIDE DEF stop, par, found
  <2>1. stop \in SUBSET Item
    BY DEF stop
  <2> QED
    BY <1>1, <2>1, ChainFunction, Zenon
<1> DEFINE u == [k \in Item |-> r[k] = TRUE]
<1>3. Is(u)
  <2>1. ASSUME NEW k \in Item
        PROVE  u[k] = (k = i \/ (item[k].parent # NULL /\ u[item[k].parent]))
    <3>1. CASE k = i
      BY <1>2, <3>1 DEF Follows
    <3>2. CASE k # i /\ item[k].parent = NULL
      BY <1>2, <3>2 DEF Follows
    <3>3. CASE k # i /\ item[k].parent # NULL
      <4>1. r[k] = r[item[k].parent] /\ item[k].parent \in Item
        BY <1>1, <1>2, <3>3 DEF Follows
      <4> QED
        BY <3>3, <4>1
    <3> QED
      BY <3>1, <3>2, <3>3
  <2> QED
    BY <2>1
<1> DEFINE v == CHOOSE v : Is(v)
<1>4. Is(v)
  <2> HIDE DEF u
  <2> QED
    BY <1>3
<1>5. \A k : Uses(k, i) = v[k]
  BY DEF Uses
<1>6. \A k \in Item : v[k] = (k = i \/ (item[k].parent # NULL /\ v[item[k].parent]))
  <2> HIDE DEF v
  <2> QED
    BY <1>4
<1> HIDE DEF v
<1> QED
  BY <1>5, <1>6

------------------------------------------------------------------------------
(* One item and the heap *)

LEMMA MaxMin ==
    \A x, y \in Int : /\ Max({x, y}) = IF x >= y THEN x ELSE y
                      /\ Min({x, y}) = IF x <= y THEN x ELSE y
<1> SUFFICES ASSUME NEW x \in Int, NEW y \in Int
             PROVE  /\ Max({x, y}) = IF x >= y THEN x ELSE y
                    /\ Min({x, y}) = IF x <= y THEN x ELSE y
  OBVIOUS
<1>1. \A m : m \in {x, y} /\ (\A z \in {x, y} : m >= z) <=> m = IF x >= y THEN x ELSE y
  OBVIOUS
<1>2. \A m : m \in {x, y} /\ (\A z \in {x, y} : m <= z) <=> m = IF x <= y THEN x ELSE y
  OBVIOUS
<1> QED
  BY <1>1, <1>2 DEF Max, Min

LEMMA TopFacts == Top \in Nat /\ MaxSize <= Top /\ ClientLen <= Top
  BY MaxMin, ArraysAssumption DEF Top

Holds(d, a) == d.status = "ALLOCATED" /\ d.ptr = a

\* Going from heap g to heap h suits an item that goes from e to d: an array
\* stays as long as it is, is the new one of the item or was its old one.
Settled(g, h, e, d) ==
    /\ Heap(h)
    /\ d.ptr # NULL => d.cap <= Len(h[d.ptr])
    /\ \A a \in Array :
          \/ Len(h[a]) = Len(g[a]) /\ (Holds(e, a) => Holds(d, a))
          \/ a \in Block /\ Holds(d, a) /\ Len(g[a]) = 0
          \/ a \in Block /\ Holds(e, a) /\ Len(h[a]) = 0
    /\ d.status = "ALLOCATED" /\ d.ptr # NULL => Holds(e, d.ptr) \/ Len(g[d.ptr]) = 0

\* A step that settles one item keeps the invariant.
LEMMA OneItemStep ==
    ASSUME ArraysInv, NEW i \in Item, NEW d \in DataItem, Own(d), item' = [item EXCEPT ![i] = d],
           Settled(heap, heap', item[i], d), overrun' = FALSE,
           d.parent \in {NULL, item[i].parent} \/ Acyclic'
    PROVE  ArraysInv'
<1>0. /\ item \in [Item -> DataItem] /\ Heap(heap) /\ Covers /\ Owned /\ Unshared /\ Acyclic
      /\ \A j \in Item : Own(item[j])
  BY DEF ArraysInv
<1>1. item' \in [Item -> DataItem] /\ item'[i] = d /\ \A j \in Item : j # i => item'[j] = item[j]
  BY <1>0
<1>2. \A j \in Item : Own(item'[j])
  BY <1>0, <1>1
<1>3. Heap(heap') /\ (d.ptr # NULL => d.cap <= Len(heap'[d.ptr]))
  BY DEF Settled
<1>4. \A a \in Array : heap[a] \in Seq(Value) /\ heap'[a] \in Seq(Value)
  BY <1>0, <1>3 DEF Heap
<1>5. ASSUME NEW j \in Item, item[j].ptr # NULL
      PROVE  /\ item[j].ptr \in Array /\ item[j].cap \in Nat /\ item[j].cap > 0
             /\ item[j].cap <= Len(heap[item[j].ptr]) /\ Len(heap[item[j].ptr]) > 0
             /\ item[j].ptr \in Block => item[j].status = "ALLOCATED"
  <2>1. item[j] \in DataItem /\ Own(item[j]) /\ item[j].cap <= Len(heap[item[j].ptr])
    BY <1>0, <1>5 DEF Covers
  <2>2. /\ item[j].ptr \in Array /\ item[j].cap \in Nat /\ item[j].cap > 0
        /\ item[j].ptr \in Block => item[j].status = "ALLOCATED"
    BY <1>5, <2>1, ArraysAssumption DEF DataItem, Own, Array, Status, Unset
  <2> QED
    BY <1>4, <2>1, <2>2
<1>6. ASSUME NEW j \in Item, j # i, item[j].ptr # NULL
      PROVE  Len(heap'[item[j].ptr]) = Len(heap[item[j].ptr])
  <2>1. ~(item[j].ptr \in Block /\ Holds(d, item[j].ptr) /\ Len(heap[item[j].ptr]) = 0)
    BY <1>5, <1>6
  <2>2. ~(item[j].ptr \in Block /\ Holds(item[i], item[j].ptr))
    BY <1>0, <1>5, <1>6 DEF Holds, Unshared
  <2> QED
    BY <1>5, <1>6, <2>1, <2>2 DEF Settled
<1>7. \A j \in Item : item'[j].ptr # NULL => item'[j].cap <= Len(heap'[item'[j].ptr])
  BY <1>1, <1>3, <1>5, <1>6
<1>8. ASSUME NEW b \in Block, heap'[b] # <<>>
      PROVE  \E j \in Item : item'[j].status = "ALLOCATED" /\ item'[j].ptr = b
  <2>1. b \in Array /\ Len(heap'[b]) # 0
    BY <1>4, <1>8 DEF Array
  <2>2. CASE Holds(d, b)
    BY <1>1, <2>2 DEF Holds
  <2>3. CASE ~Holds(d, b)
    <3>1. Len(heap'[b]) = Len(heap[b]) /\ ~Holds(item[i], b)
      BY <2>1, <2>3 DEF Settled
    <3>2. heap[b] # <<>>
      BY <2>1, <3>1
    <3>3. PICK j \in Item : item[j].status = "ALLOCATED" /\ item[j].ptr = b
      BY <1>0, <3>2 DEF Owned
    <3> QED
      BY <1>1, <3>1, <3>3 DEF Holds
  <2> QED
    BY <2>2, <2>3
<1>9. ASSUME NEW j \in Item, j # i, Holds(item[j], d.ptr), d.status = "ALLOCATED", d.ptr # NULL
      PROVE  FALSE
  <2>1. Holds(item[i], d.ptr) \/ Len(heap[d.ptr]) = 0
    BY <1>9 DEF Settled
  <2> QED
    BY <1>0, <1>5, <1>9, <2>1 DEF Holds, Unshared
<1>10. Unshared'
  BY <1>0, <1>1, <1>9 DEF Unshared, Holds
<1>11. Acyclic'
  <2>1. CASE d.parent \in {NULL, item[i].parent}
    <3>1. \A j \in Item : item'[j].parent # NULL => item'[j].parent = item[j].parent
      BY <1>1, <2>1
    <3> QED
      BY <1>0, <3>1 DEF Acyclic, Descends
  <2> QED
    BY <2>1
<1> QED
  BY <1>1, <1>2, <1>3, <1>7, <1>8, <1>10, <1>11 DEF ArraysInv, Covers, Owned

\* What the heap is after an array is deleted
LEMMA DeleteFacts ==
    ASSUME ArraysInv, NEW i \in Item, NEW d, d.status = item[i].status, d.ptr = item[i].ptr
    PROVE  /\ Heap(Delete(heap, d))
           /\ \A a \in Array : Delete(heap, d)[a] = IF Holds(item[i], a) THEN <<>> ELSE heap[a]
           /\ \A a \in Array : Holds(item[i], a) => a \in Block
<1>1. item[i] \in DataItem /\ Own(item[i]) /\ Heap(heap)
  BY DEF ArraysInv
<1>2. heap \in [Array -> Seq(Value)]
  BY <1>1 DEF Heap
<1>3. \A a \in Array : Holds(item[i], a) => a \in Block
  BY <1>1, ArraysAssumption DEF Own, Holds, Array
<1>4. CASE d.status = "ALLOCATED" /\ d.ptr # NULL
  <2>1. d.ptr \in Array /\ Delete(heap, d) = [heap EXCEPT ![d.ptr] = <<>>]
    BY <1>1, <1>4 DEF Delete, Own, Array
  <2>2. \A a \in Array : Delete(heap, d)[a] = IF Holds(item[i], a) THEN <<>> ELSE heap[a]
    BY <1>2, <1>4, <2>1 DEF Holds
  <2>3. <<>> \in Seq(Value) /\ Len(<<>>) = 0
    OBVIOUS
  <2>4. Delete(heap, d) \in [Array -> Seq(Value)]
    BY <1>2, <2>1, <2>3
  <2>5. \A a \in ClientArray : a \in Array /\ ~Holds(item[i], a)
    BY <1>3, ArraysAssumption DEF Array
  <2> QED
    BY <1>1, <1>3, <2>2, <2>3, <2>4, <2>5, TopFacts DEF Heap
<1>5. CASE ~(d.status = "ALLOCATED" /\ d.ptr # NULL)
  <2>1. Delete(heap, d) = heap
    BY <1>5 DEF Delete
  <2>2. \A a \in Array : ~Holds(item[i], a)
    BY <1>5, ArraysAssumption DEF Holds, Array
  <2> QED
    BY <1>1, <1>3, <2>1, <2>2
<1> QED
  BY <1>4, <1>5

\* An item that gives up its array settles if it deletes it.
LEMMA DeleteSettles ==
    ASSUME ArraysInv, NEW i \in Item, NEW d \in DataItem, d.status # "ALLOCATED",
           d.ptr # NULL => d.ptr \in ClientArray /\ d.cap <= ClientLen
    PROVE  Settled(heap, Delete(heap, item[i]), item[i], d)
<1> DEFINE h == Delete(heap, item[i])
<1>1. /\ Heap(h) /\ \A a \in Array : h[a] = IF Holds(item[i], a) THEN <<>> ELSE heap[a]
      /\ \A a \in Array : Holds(item[i], a) => a \in Block
  BY DeleteFacts
<1>2. Len(<<>>) = 0
  OBVIOUS
<1> HIDE DEF h
<1>3. d.ptr # NULL => d.cap <= Len(h[d.ptr])
  BY <1>1 DEF Heap
<1>4. \A a \in Array : \/ Len(h[a]) = Len(heap[a]) /\ (Holds(item[i], a) => Holds(d, a))
                       \/ a \in Block /\ Holds(item[i], a) /\ Len(h[a]) = 0
  BY <1>1, <1>2
<1> QED
  BY <1>1, <1>3, <1>4 DEF Settled, h

\* An item that keeps its array settles if no array changes its length.
LEMMA KeepSettles ==
    ASSUME ArraysInv, NEW i \in Item, NEW d \in DataItem, d.status = item[i].status,
           d.ptr = item[i].ptr, d.ptr # NULL => d.cap = item[i].cap,
           NEW h, Heap(h), \A a \in Array : Len(h[a]) = Len(heap[a])
    PROVE  Settled(heap, h, item[i], d)
<1>1. item[i] \in DataItem /\ Covers
  BY DEF ArraysInv
<1>2. d.ptr # NULL => d.ptr \in Array
  BY DEF DataItem, Array
<1> QED
  BY <1>1, <1>2 DEF Settled, Covers, Holds

LEMMA SettledOverwritten ==
    ASSUME NEW g, NEW h, NEW f, NEW e, NEW d \in DataItem, Settled(g, h, e, d),
           Heap(f), \A a \in Array : Len(f[a]) = Len(h[a])
    PROVE  Settled(g, f, e, d)
<1>1. d.ptr # NULL => d.ptr \in Array
  BY DEF DataItem, Array
<1> QED
  BY <1>1 DEF Settled

\* Writing values into an array leaves its length as it is.
LEMMA OverwriteFacts ==
    ASSUME NEW h, Heap(h), NEW a \in Array, NEW at \in Int, NEW vs \in Seq(Value)
    PROVE  /\ Heap(Overwrite(h, a, at, vs))
           /\ \A x \in Array : Len(Overwrite(h, a, at, vs)[x]) = Len(h[x])
<1> DEFINE new == [k \in DOMAIN h[a] |-> IF k - at \in DOMAIN vs THEN vs[k - at] ELSE h[a][k]]
<1>1. h \in [Array -> Seq(Value)]
  BY DEF Heap
<1>2. new \in Seq(Value) /\ Len(new) = Len(h[a])
  <2>1. h[a] \in Seq(Value) /\ DOMAIN h[a] = 1..Len(h[a]) /\ Len(h[a]) \in Nat
    BY <1>1
  <2>2. \A k \in DOMAIN h[a] : h[a][k] \in Value
    BY <2>1
  <2>3. \A k \in DOMAIN vs : vs[k] \in Value
    OBVIOUS
  <2>4. new \in [1..Len(h[a]) -> Value]
    BY <2>1, <2>2, <2>3
  <2> QED
    BY <2>1, <2>4
<1>3. Overwrite(h, a, at, vs) = [h EXCEPT ![a] = new]
  BY DEF Overwrite
<1> HIDE DEF new
<1>4. [h EXCEPT ![a] = new] \in [Array -> Seq(Value)]
  BY <1>1, <1>2
<1>5. \A x \in Array : Len([h EXCEPT ![a] = new][x]) = Len(h[x])
  BY <1>1, <1>2
<1> QED
  BY <1>3, <1>4, <1>5 DEF Heap, Array

\* DataItem::allocate settles the item, and its array has the capacity asked for.
LEMMA AllocateSettles ==
    ASSUME ArraysInv, NEW i \in Item, NEW d \in DataItem, NEW b \in Block, NEW c \in 0..MaxSize,
           NEW force \in BOOLEAN, d.exists, d.parent = NULL,
           d.status = item[i].status, d.ptr = item[i].ptr,
           ~force => d.cap = item[i].cap /\ d.status \notin {"SET", "SET_CONST"},
           Reallocates(d, c, force) => FreeBlock(b)
    PROVE  LET r == Allocated(d, b, c, force)
           IN /\ Settled(heap, NewArray(heap, d, b, c, force), item[i], r)
              /\ r \in DataItem /\ Own(r) /\ r.parent = NULL /\ r.nitems = d.nitems
              /\ r.status = "ALLOCATED" /\ c <= r.cap
<1> DEFINE r == Allocated(d, b, c, force)
           h == NewArray(heap, d, b, c, force)
           g == Delete(heap, d)
<1>1. /\ item[i] \in DataItem /\ Own(item[i]) /\ Heap(heap) /\ Covers
      /\ heap \in [Array -> Seq(Value)]
  BY DEF ArraysInv, Heap
<1>2. /\ b \in Array /\ b # NULL /\ c \in Nat /\ MaxSize \in Nat
  BY ArraysAssumption DEF Array
<1>3. CASE ~Reallocates(d, c, force)
  <2>1. r = d /\ h = heap /\ d.status = "ALLOCATED" /\ c <= d.cap /\ ~force /\ d.cap = item[i].cap
    BY <1>2, <1>3 DEF Allocated, NewArray, Reallocates, DataItem, Status
  <2>2. Own(d)
    BY <1>1, <2>1 DEF Own, Unset
  <2>3. Settled(heap, heap, item[i], d)
    BY <1>1, <2>1, KeepSettles
  <2> QED
    BY <2>1, <2>2, <2>3
<1>4. CASE Reallocates(d, c, force)
  <2>1. r = [d EXCEPT !.ptr = IF c = 0 THEN NULL ELSE b,
                      !.cap = c, !.status = "ALLOCATED", !.parent = NULL]
    BY <1>4 DEF Allocated
  <2>2. /\ r \in DataItem /\ r.parent = NULL /\ r.nitems = d.nitems /\ r.exists
        /\ r.status = "ALLOCATED" /\ r.cap = c /\ r.ptr = IF c = 0 THEN NULL ELSE b
    BY <2>1 DEF DataItem, Status
  <2>3. Own(r)
    BY <1>2, <2>2 DEF Own, Unset
  <2>4. /\ Heap(g) /\ \A a \in Array : g[a] = IF Holds(item[i], a) THEN <<>> ELSE heap[a]
        /\ \A a \in Array : Holds(item[i], a) => a \in Block
    BY DeleteFacts
  <2>5. Len(<<>>) = 0 /\ heap[b] = <<>>
    BY <1>4 DEF FreeBlock
  <2>6. CASE c = 0
    <3>1. h = g
      BY <1>4, <2>6 DEF NewArray
    <3>2. \A a \in Array : \/ Len(h[a]) = Len(heap[a]) /\ (Holds(item[i], a) => Holds(r, a))
                           \/ a \in Block /\ Holds(item[i], a) /\ Len(h[a]) = 0
      <4> HIDE DEF h, g, r
      <4> QED
        BY <2>4, <2>5, <3>1
    <3>3. Settled(heap, h, item[i], r)
      <4> HIDE DEF h, g, r
      <4> QED
        BY <2>2, <2>4, <2>6, <3>1, <3>2 DEF Settled
    <3> QED
      BY <2>2, <2>3, <3>3
  <2>7. CASE c # 0
    <3> DEFINE kept == IF d.status = Unset \/ force THEN 0 ELSE Min({d.cap, c})
               new == [k \in 1..c |-> IF k <= kept THEN heap[d.ptr][k] ELSE 0]
    <3>1. h = [g EXCEPT ![b] = new]
      BY <1>4, <2>7 DEF NewArray, Unset
    <3>2. kept \in Nat /\ kept <= d.cap /\ (kept # 0 => ~force /\ d.status = "ALLOCATED" /\ d.cap # 0)
      <4>1. d.cap \in Nat /\ d.status \in Status /\ d.cap \in Int /\ c \in Int
        BY <1>2 DEF DataItem
      <4>2. Min({d.cap, c}) = IF d.cap <= c THEN d.cap ELSE c
        BY <4>1, MaxMin, Zenon
      <4> QED
        BY <1>2, <4>1, <4>2 DEF Status, Unset
    <3> HIDE DEF kept
    <3>3. \A k \in 1..c : k <= kept => heap[d.ptr][k] \in Value
      <4>1. SUFFICES ASSUME NEW k \in 1..c, k <= kept PROVE heap[d.ptr][k] \in Value
        OBVIOUS
      <4>2. ~force /\ d.status = "ALLOCATED" /\ d.cap # 0 /\ d.cap \in Nat /\ k <= d.cap
        BY <3>2, <4>1 DEF DataItem
      <4>3. d.ptr # NULL /\ d.ptr \in Array /\ d.cap <= Len(heap[d.ptr])
        BY <1>1, <4>2 DEF Own, Unset, Covers, DataItem, Array
      <4>4. heap[d.ptr] \in Seq(Value) /\ k \in 1..Len(heap[d.ptr])
        BY <1>1, <4>1, <4>2, <4>3
      <4> QED
        BY <4>4
    <3>4. new \in Seq(Value) /\ Len(new) = c
      <4>1. new \in [1..c -> Value]
        BY <3>3 DEF Value
      <4> HIDE DEF new
      <4> QED
        BY <1>2, <4>1
    <3> HIDE DEF new, g, h, r
    <3>5. g \in [Array -> Seq(Value)]
      BY <2>4 DEF Heap
    <3>6. h \in [Array -> Seq(Value)] /\ h[b] = new /\ \A a \in Array : a # b => h[a] = g[a]
      BY <1>2, <3>1, <3>4, <3>5
    <3>7. b \notin ClientArray
      BY ArraysAssumption
    <3>8. Heap(h)
      BY <1>2, <2>4, <3>4, <3>6, <3>7, TopFacts DEF Heap, Array
    <3>9. Holds(r, b) /\ r.ptr = b /\ r.cap <= Len(h[b]) /\ Len(heap[b]) = 0
      BY <1>2, <2>2, <2>5, <2>7, <3>4, <3>6 DEF Holds
    <3>10. ASSUME NEW a \in Array
           PROVE  \/ Len(h[a]) = Len(heap[a]) /\ (Holds(item[i], a) => Holds(r, a))
                  \/ a \in Block /\ Holds(r, a) /\ Len(heap[a]) = 0
                  \/ a \in Block /\ Holds(item[i], a) /\ Len(h[a]) = 0
      BY <2>4, <2>5, <3>6, <3>9
    <3>11. Settled(heap, h, item[i], r)
      BY <3>8, <3>9, <3>10 DEF Settled
    <3> QED
      BY <1>2, <2>2, <2>3, <3>11 DEF h, r
  <2> QED
    BY <2>6, <2>7
<1> QED
  BY <1>3, <1>4

------------------------------------------------------------------------------
(* What the items answer *)

LEMMA Answers ==
    ASSUME ArraysInv, NEW i \in Item
    PROVE  /\ root(i) \in Item /\ (item[i].parent = NULL => root(i) = i)
           /\ Holder(i) = root(i)
           /\ pointer(i) = item[root(i)].ptr /\ capacity(i) = item[root(i)].cap
           /\ initialized(i) <=> item[root(i)].status # Unset
           /\ size_of_items(i) \in 0..MaxSize
           /\ size_of_items(i) = IF item[root(i)].nitems >= 0 THEN item[root(i)].nitems ELSE 0
           /\ capacity(i) \in 0..MaxSize
           /\ pointer(i) # NULL =>
                 /\ pointer(i) \in Array /\ heap[pointer(i)] \in Seq(Value)
                 /\ initialized(i) /\ capacity(i) # 0
                 /\ capacity(i) <= Len(heap[pointer(i)])
<1>1. /\ item \in [Item -> DataItem] /\ Acyclic /\ Covers /\ heap \in [Array -> Seq(Value)]
      /\ \A j \in Item : Own(item[j])
  BY DEF ArraysInv, Heap
<1>2. root(i) \in Item /\ (item[i].parent = NULL => root(i) = i)
  BY <1>1, RootFacts
<1>3. Holder(i) = root(i)
  BY <1>1, <1>2 DEF Holder, Own, Unset
<1>4. pointer(i) = item[root(i)].ptr /\ capacity(i) = item[root(i)].cap
      /\ (initialized(i) <=> item[root(i)].status # Unset)
  BY <1>3 DEF pointer, capacity, initialized, Unset
<1>5. item[root(i)] \in DataItem /\ Own(item[root(i)]) /\ MaxSize \in Nat
  BY <1>1, <1>2, ArraysAssumption
<1>6. item[root(i)].nitems \in -1..MaxSize /\ item[root(i)].cap \in 0..MaxSize
  BY <1>5 DEF DataItem
<1>7. size_of_items(i) = IF item[root(i)].nitems >= 0 THEN item[root(i)].nitems ELSE 0
  <2>1. Max({0, item[root(i)].nitems}) = IF 0 >= item[root(i)].nitems THEN 0 ELSE item[root(i)].nitems
    BY <1>6, MaxMin
  <2> QED
    BY <1>6, <2>1 DEF size_of_items
<1>8. pointer(i) # NULL => /\ pointer(i) \in Array /\ heap[pointer(i)] \in Seq(Value)
                           /\ initialized(i) /\ capacity(i) # 0
                           /\ capacity(i) <= Len(heap[pointer(i)])
  BY <1>1, <1>2, <1>4, <1>5 DEF Own, Covers, DataItem, Array
<1>9. size_of_items(i) \in 0..MaxSize
  BY <1>5, <1>6, <1>7
<1> QED
  BY <1>2, <1>3, <1>4, <1>6, <1>7, <1>8, <1>9

------------------------------------------------------------------------------
(* The operations *)

LEMMA ItemFacts ==
    ASSUME ArraysInv, NEW i \in Item
    PROVE  /\ item[i] \in DataItem /\ Own(item[i]) /\ Heap(heap) /\ overrun = FALSE
           /\ i \in Existing <=> item[i].exists
           /\ i \notin Existing => item[i] = NoDataItem
  BY DEF ArraysInv, Own, Existing

LEMMA NoItemFacts ==
    /\ NoDataItem \in DataItem /\ Own(NoDataItem) /\ NoDataItem.ptr = NULL
    /\ NoDataItem.parent = NULL /\ NoDataItem.status = Unset /\ ~NoDataItem.exists
<1>1. NewDataItem \in DataItem /\ NewDataItem.ptr = NULL /\ NewDataItem.parent = NULL
      /\ NewDataItem.status = Unset
  BY ArraysAssumption DEF NewDataItem, DataItem, Status, Unset
<1>2. /\ NoDataItem \in DataItem /\ NoDataItem.ptr = NULL
      /\ NoDataItem.parent = NULL /\ NoDataItem.status = Unset /\ ~NoDataItem.exists
  BY <1>1 DEF NoDataItem, DataItem
<1>3. Own(NoDataItem)
  BY <1>2 DEF Own, Unset
<1> QED
  BY <1>2, <1>3

LEMMA ArraysInit == Init => ArraysInv
<1> SUFFICES ASSUME Init PROVE ArraysInv
  OBVIOUS
<1> USE ArraysAssumption DEF Init
<1>1. NoDataItem \in DataItem /\ Own(NoDataItem) /\ NoDataItem.ptr = NULL
      /\ NoDataItem.parent = NULL /\ NoDataItem.status = Unset
  BY NoItemFacts
<1>2. /\ item \in [Item -> DataItem] /\ \A i \in Item : item[i] = NoDataItem
  BY <1>1
<1>3. <<>> \in Seq(Value) /\ Len(<<>>) = 0
  OBVIOUS
<1>4. [k \in 1..ClientLen |-> 0] \in Seq(Value) /\ Len([k \in 1..ClientLen |-> 0]) = ClientLen
  <2>1. [k \in 1..ClientLen |-> 0] \in [1..ClientLen -> Value]
    BY DEF Value
  <2> QED
    BY <2>1
<1>5. \A a \in Array : heap[a] = IF a \in Block THEN <<>> ELSE [k \in 1..ClientLen |-> 0]
  BY DEF Array
<1>6. Heap(heap)
  <2> DEFINE z == [k \in 1..ClientLen |-> 0]
  <2>1. heap = [a \in Array |-> IF a \in Block THEN <<>> ELSE z]
    BY DEF Array
  <2>2. \A a \in ClientArray : a \in Array /\ a \notin Block
    BY DEF Array
  <2> HIDE DEF z
  <2>3. z \in Seq(Value) /\ Len(z) = ClientLen
    BY <1>4 DEF z
  <2>4. heap \in [Array -> Seq(Value)]
    BY <1>3, <2>1, <2>3
  <2> QED
    BY <1>3, <2>1, <2>2, <2>3, <2>4, TopFacts DEF Heap
<1>7. Covers /\ Unshared
  BY <1>1, <1>2 DEF Covers, Unshared
<1>8. Owned
  BY <1>5 DEF Owned, Array
<1>9. Acyclic
  <2>1. [i \in Item |-> 0] \in [Item -> Nat] /\ Descends([i \in Item |-> 0])
    BY <1>1, <1>2 DEF Descends
  <2> QED
    BY <2>1 DEF Acyclic
<1> QED
  BY <1>1, <1>2, <1>6, <1>7, <1>8, <1>9 DEF ArraysInv

LEMMA ArraysOfNew == ASSUME ArraysInv, NEW i \in Item, new_dataitem(i) PROVE ArraysInv'
<1>1. NewDataItem \in DataItem /\ Own(NewDataItem) /\ NewDataItem.parent = NULL
      /\ NewDataItem.status = "NOT_INITIALIZED" /\ NewDataItem.ptr = NULL
  BY ArraysAssumption DEF NewDataItem, DataItem, Status, Own, Unset
<1>2. item[i].status = "NOT_INITIALIZED" /\ item[i].ptr = NULL
  BY ItemFacts DEF new_dataitem, NoDataItem, NewDataItem
<1>3. /\ item' = [item EXCEPT ![i] = NewDataItem] /\ heap' = heap /\ overrun' = FALSE /\ Heap(heap)
  BY ItemFacts DEF new_dataitem
<1>4. Settled(heap, heap', item[i], NewDataItem)
  BY <1>1, <1>2, <1>3, KeepSettles
<1> QED
  BY <1>1, <1>3, <1>4, OneItemStep

LEMMA ArraysOfDelete == ASSUME ArraysInv, NEW i \in Item, delete_dataitem(i) PROVE ArraysInv'
<1>1. NoDataItem \in DataItem /\ Own(NoDataItem) /\ NoDataItem.parent = NULL
      /\ NoDataItem.status # "ALLOCATED" /\ NoDataItem.ptr = NULL
  BY NoItemFacts DEF Unset
<1>2. heap' = Delete(heap, item[i])
  BY ItemFacts DEF delete_dataitem, Own, Unset, Delete
<1>3. item' = [item EXCEPT ![i] = NoDataItem] /\ overrun' = FALSE
  BY ItemFacts DEF delete_dataitem
<1>4. Settled(heap, heap', item[i], NoDataItem)
  BY <1>1, <1>2, DeleteSettles
<1> QED
  BY <1>1, <1>3, <1>4, OneItemStep

LEMMA ArraysOfSetSize ==
    ASSUME ArraysInv, NEW i \in Item, NEW n \in Sizes, set_size(i, n) PROVE ArraysInv'
<1> DEFINE d == [item[i] EXCEPT !.nitems = n]
<1>1. item[i] \in DataItem /\ Own(item[i]) /\ Heap(heap) /\ item[i].exists
  BY ItemFacts DEF set_size
<1>2. n \in -1..MaxSize
  BY ArraysAssumption
<1>3. d \in DataItem /\ d.parent = item[i].parent /\ d.exists /\ d.status = item[i].status
      /\ d.ptr = item[i].ptr /\ d.cap = item[i].cap
  BY <1>1, <1>2 DEF DataItem
<1>4. item' = [item EXCEPT ![i] = d] /\ heap' = heap /\ overrun' = FALSE
  BY ItemFacts DEF set_size
<1> HIDE DEF d
<1>5. Own(d)
  BY <1>1, <1>3 DEF Own
<1>6. Settled(heap, heap', item[i], d)
  BY <1>1, <1>3, <1>4, KeepSettles
<1> QED
  BY <1>3, <1>4, <1>5, <1>6, OneItemStep

LEMMA ArraysOfSetArray ==
    ASSUME ArraysInv, NEW i \in Item, NEW a \in ClientArray, NEW cap \in Caps, NEW const \in BOOLEAN,
           set_array(i, a, cap, const)
    PROVE  ArraysInv'
<1> DEFINE c == IF cap = 0 THEN size_of_items(i) ELSE cap
           p == IF c = 0 THEN NULL ELSE a
           d == [Deallocated(item[i]) EXCEPT !.cap = c, !.ptr = p,
                                             !.status = IF const THEN "SET_CONST" ELSE "SET"]
<1>1. item[i] \in DataItem /\ Own(item[i]) /\ Heap(heap) /\ item[i].exists
  BY ItemFacts DEF set_array
<1>2. c \in 0..MaxSize
  BY Answers, ArraysAssumption
<1>3. /\ item' = [item EXCEPT ![i] = d] /\ heap' = Delete(heap, item[i]) /\ overrun' = FALSE
      /\ item[i].parent = NULL /\ (p # NULL => c <= ClientLen)
  BY ItemFacts DEF set_array
<1>4. p \in ClientArray \cup {NULL} /\ (p = NULL <=> c = 0)
  BY ArraysAssumption
<1>5. /\ Deallocated(item[i]) \in DataItem /\ Deallocated(item[i]).exists
      /\ Deallocated(item[i]).parent = NULL
  BY <1>1, <1>3 DEF Deallocated, DataItem, Status
<1> HIDE DEF c, p
<1>6. /\ d \in DataItem /\ d.exists /\ d.parent = NULL /\ d.cap = c /\ d.ptr = p
      /\ d.status \in {"SET", "SET_CONST"}
  BY <1>2, <1>4, <1>5 DEF DataItem, Status
<1> HIDE DEF d
<1>7. Own(d)
  BY <1>4, <1>6 DEF Own, Unset
<1>8. Settled(heap, heap', item[i], d)
  BY <1>3, <1>4, <1>6, DeleteSettles
<1> QED
  BY <1>3, <1>6, <1>7, <1>8, OneItemStep

LEMMA DefaultCapFacts ==
    ASSUME ArraysInv, NEW i \in Item, NEW cap \in Caps, DefaultCap(i, cap) <= MaxSize
    PROVE  DefaultCap(i, cap) \in 0..MaxSize
<1>1. size_of_items(i) \in 0..MaxSize /\ capacity(i) \in 0..MaxSize
  BY Answers
<1>2. size_of_items(i) \in Nat /\ capacity(i) \in Nat /\ cap \in Nat
  BY <1>1, ArraysAssumption
<1> QED
  BY <1>2, ArraysAssumption DEF DefaultCap

LEMMA ArraysOfAllocate ==
    ASSUME ArraysInv, NEW i \in Item, NEW b \in Block, NEW cap \in Caps, NEW force \in BOOLEAN,
           Allocate(i, b, cap, force)
    PROVE  ArraysInv'
<1> DEFINE c == DefaultCap(i, cap)
           r == Allocated(item[i], b, c, force)
<1>1. item[i] \in DataItem /\ item[i].exists
  BY ItemFacts DEF Allocate
<1>2. /\ item[i].parent = NULL /\ c <= MaxSize
      /\ force \/ item[i].status \notin {"SET", "SET_CONST"}
      /\ Reallocates(item[i], c, force) => FreeBlock(b)
      /\ item' = [item EXCEPT ![i] = r]
      /\ heap' = NewArray(heap, item[i], b, c, force) /\ overrun' = FALSE
  BY ItemFacts DEF Allocate
<1>3. c \in 0..MaxSize
  BY <1>2, DefaultCapFacts
<1> HIDE DEF c
<1>4. /\ Settled(heap, heap', item[i], r) /\ r \in DataItem /\ Own(r) /\ r.parent = NULL
  BY <1>1, <1>2, <1>3, AllocateSettles
<1> HIDE DEF r
<1> QED
  BY <1>2, <1>4, OneItemStep

LEMMA ArraysOfDealloc == ASSUME ArraysInv, NEW i \in Item, dealloc_array(i) PROVE ArraysInv'
<1> DEFINE d == Deallocated(item[i])
<1>1. item[i] \in DataItem /\ item[i].exists /\ Own(item[i])
  BY ItemFacts DEF dealloc_array
<1>2. /\ item' = [item EXCEPT ![i] = d] /\ heap' = Delete(heap, item[i]) /\ overrun' = FALSE
      /\ item[i].status = "ALLOCATED"
  BY ItemFacts DEF dealloc_array
<1>3. d \in DataItem /\ d.exists /\ d.status = Unset /\ d.ptr = NULL /\ d.parent = item[i].parent
  BY <1>1, <1>2 DEF Deallocated, DataItem, Status, Unset
<1> HIDE DEF d
<1>4. Own(d)
  BY <1>3 DEF Own, Unset
<1>5. Settled(heap, heap', item[i], d)
  BY <1>2, <1>3, DeleteSettles DEF Unset
<1> QED
  BY <1>2, <1>3, <1>4, <1>5, OneItemStep

LEMMA OnesFacts ==
    ASSUME NEW n \in Nat PROVE [k \in 1..n |-> 1] \in Seq(Value)
<1>1. [k \in 1..n |-> 1] \in [1..n -> Value]
  BY DEF Value
<1> QED
  BY <1>1

\* The parts of append_array: the item d with its size m, and the capacity c.
Appends(i, b, n, d, c, m) ==
    LET room == Allocated(d, b, c, FALSE)
        h == NewArray(heap, d, b, c, FALSE)
    IN /\ d.nitems = m /\ m = IF item[i].nitems >= 0 THEN item[i].nitems ELSE 0
       /\ d.exists /\ d.parent = NULL /\ item[i].parent = NULL
       /\ d.status = item[i].status /\ d.ptr = item[i].ptr /\ d.cap = item[i].cap
       /\ m + n <= c
       /\ Reallocates(d, c, FALSE) => FreeBlock(b)
       /\ d.status \in {"SET", "SET_CONST"} =>
             item' = [item EXCEPT ![i] = d] /\ heap' = heap /\ overrun' = overrun
       /\ d.status \notin {"SET", "SET_CONST"} =>
             /\ item' = [item EXCEPT ![i] = [room EXCEPT !.nitems = AppendedSize(room, n)]]
             /\ heap' = IF n = 0 THEN h ELSE Overwrite(h, room.ptr, m, [k \in 1..n |-> 1])
             /\ overrun' = (overrun \/ ~Inside(h, room.ptr, m + n))

LEMMA AppendParts ==
    ASSUME ArraysInv, NEW i \in Item, NEW b \in Block, NEW n \in Sizes, append_array(i, b, n)
    PROVE  \E d \in DataItem, c \in 0..MaxSize, m \in Nat : Appends(i, b, n, d, c, m)
<1> DEFINE m == size_of_items(i)
           d == [item[i] EXCEPT !.nitems = m]
           c == DefaultCap(i, m + n)
           room == Allocated(d, b, c, FALSE)
           h == NewArray(heap, d, b, c, FALSE)
<1>1. item[i] \in DataItem /\ item[i].exists
  BY ItemFacts DEF append_array
<1>2. d.nitems = m
  BY <1>1 DEF DataItem
<1>3. /\ item[i].parent = NULL /\ c <= MaxSize /\ (Reallocates(d, c, FALSE) => FreeBlock(b))
      /\ d.status \in {"SET", "SET_CONST"} =>
            item' = [item EXCEPT ![i] = d] /\ heap' = heap /\ overrun' = overrun
      /\ d.status \notin {"SET", "SET_CONST"} =>
            /\ item' = [item EXCEPT ![i] = [room EXCEPT !.nitems = AppendedSize(room, n)]]
            /\ heap' = IF n = 0 THEN h ELSE Overwrite(h, room.ptr, m, [k \in 1..n |-> 1])
            /\ overrun' = (overrun \/ ~Inside(h, room.ptr, m + n))
  BY <1>2 DEF append_array
<1>4. /\ m \in Nat /\ capacity(i) \in Nat /\ n \in Nat /\ MaxSize \in Nat /\ m \in 0..MaxSize
      /\ m = IF item[i].nitems >= 0 THEN item[i].nitems ELSE 0
  <2>1. /\ m \in 0..MaxSize /\ capacity(i) \in 0..MaxSize
        /\ m = IF item[i].nitems >= 0 THEN item[i].nitems ELSE 0
    BY <1>3, Answers
  <2> QED
    BY <2>1, ArraysAssumption
<1>5. c \in 0..MaxSize /\ m + n <= c
  <2>1. c <= MaxSize
    BY <1>3
  <2>2. m + n # 0 => c = m + n
    BY DEF DefaultCap
  <2>3. m + n = 0 => c \in Nat
    BY <1>4 DEF DefaultCap
  <2> HIDE DEF c, m
  <2> QED
    BY <1>4, <2>1, <2>2, <2>3
<1> HIDE DEF m, c
<1>6. /\ d \in DataItem /\ d.exists /\ d.parent = NULL /\ d.status = item[i].status
      /\ d.ptr = item[i].ptr /\ d.cap = item[i].cap
  BY <1>1, <1>3, <1>4 DEF DataItem
<1> HIDE DEF d
<1>7. Appends(i, b, n, d, c, m)
  BY <1>2, <1>3, <1>4, <1>5, <1>6 DEF Appends
<1> QED
  BY <1>4, <1>5, <1>6, <1>7

\* Item i goes over to room, in whose array n values fit after the first m.
HasRoom(i, h, room, m, n) ==
    /\ Settled(heap, h, item[i], room) /\ room \in DataItem /\ Own(room)
    /\ room.parent = NULL /\ room.nitems = m /\ room.status = "ALLOCATED"
    /\ room.cap \in Nat /\ Heap(h)
    /\ m + n # 0 => /\ room.ptr \in Block /\ room.ptr \in Array /\ room.ptr # NULL
                    /\ m + n <= Len(h[room.ptr])
                    /\ room.cap <= Len(h[room.ptr]) /\ Len(h[room.ptr]) \in Nat

LEMMA AppendRoom ==
    ASSUME ArraysInv, NEW i \in Item, NEW b \in Block, NEW n \in Sizes, NEW d \in DataItem,
           NEW c \in 0..MaxSize, NEW m \in Nat, Appends(i, b, n, d, c, m),
           d.status \notin {"SET", "SET_CONST"}
    PROVE  HasRoom(i, NewArray(heap, d, b, c, FALSE), Allocated(d, b, c, FALSE), m, n)
<1> DEFINE room == Allocated(d, b, c, FALSE)
           h == NewArray(heap, d, b, c, FALSE)
<1>1. /\ d.exists /\ d.parent = NULL /\ d.status = item[i].status /\ d.ptr = item[i].ptr
      /\ d.cap = item[i].cap /\ m + n <= c /\ d.nitems = m
      /\ Reallocates(d, c, FALSE) => FreeBlock(b)
  BY DEF Appends
<1>2. FALSE \in BOOLEAN /\ (~FALSE => d.cap = item[i].cap /\ d.status \notin {"SET", "SET_CONST"})
  BY <1>1
<1>3. /\ Settled(heap, h, item[i], room) /\ room \in DataItem /\ Own(room) /\ room.parent = NULL
      /\ room.nitems = d.nitems /\ room.status = "ALLOCATED" /\ c <= room.cap
  BY <1>1, <1>2, AllocateSettles, Zenon
<1> HIDE DEF room, h
<1>4. room.cap \in Nat /\ c \in Nat /\ n \in Nat /\ Heap(h)
  BY <1>3, ArraysAssumption DEF DataItem, Settled
<1>5. ASSUME m + n # 0
      PROVE  /\ room.ptr \in Block /\ room.ptr \in Array /\ room.ptr # NULL
             /\ room.cap <= Len(h[room.ptr])
  <2>1. room.cap # 0
    BY <1>1, <1>3, <1>4, <1>5
  <2>2. room.ptr # NULL
    BY <1>3, <2>1 DEF Own, Unset
  <2> QED
    BY <1>3, <2>2 DEF Own, Settled, Array
<1>6. ASSUME m + n # 0 PROVE Len(h[room.ptr]) \in Nat /\ m + n <= Len(h[room.ptr])
  <2>1. Len(h[room.ptr]) \in Nat
    BY <1>4, <1>5, <1>6 DEF Heap
  <2> QED
    BY <1>1, <1>3, <1>4, <1>5, <1>6, <2>1
<1> QED
  BY <1>1, <1>3, <1>4, <1>5, <1>6 DEF HasRoom, room, h

LEMMA ArraysOfAppend ==
    ASSUME ArraysInv, NEW i \in Item, NEW b \in Block, NEW n \in Sizes, append_array(i, b, n)
    PROVE  ArraysInv'
<1>0. n \in Nat /\ MaxSize \in Nat
  BY ArraysAssumption
<1>1. item[i] \in DataItem /\ Own(item[i]) /\ Heap(heap) /\ overrun = FALSE
  BY ItemFacts
<1>2. PICK d \in DataItem, c \in 0..MaxSize, m \in Nat : Appends(i, b, n, d, c, m)
  BY AppendParts
<1>3. CASE d.status \in {"SET", "SET_CONST"}
  <2>1. /\ item' = [item EXCEPT ![i] = d] /\ heap' = heap /\ overrun' = FALSE
        /\ d.exists /\ d.parent = NULL /\ item[i].parent = NULL
        /\ d.status = item[i].status /\ d.ptr = item[i].ptr /\ d.cap = item[i].cap
    BY <1>1, <1>2, <1>3 DEF Appends
  <2>2. Own(d)
    BY <1>1, <2>1 DEF Own
  <2>3. Settled(heap, heap', item[i], d)
    BY <1>1, <2>1, KeepSettles
  <2> QED
    BY <2>1, <2>2, <2>3, OneItemStep
<1>4. CASE d.status \notin {"SET", "SET_CONST"}
  <2> DEFINE room == Allocated(d, b, c, FALSE)
             h == NewArray(heap, d, b, c, FALSE)
             r == [room EXCEPT !.nitems = m + n]
  <2>1. /\ Settled(heap, h, item[i], room) /\ room \in DataItem /\ Own(room)
        /\ room.parent = NULL /\ room.nitems = m /\ room.status = "ALLOCATED" /\ Heap(h)
        /\ m + n # 0 => /\ room.ptr \in Array /\ room.ptr # NULL
                        /\ m + n <= Len(h[room.ptr])
    <3>1. HasRoom(i, h, room, m, n)
      BY <1>2, <1>4, AppendRoom
    <3> HIDE DEF room, h
    <3> QED
      BY <3>1 DEF HasRoom
  <2>2. /\ item' = [item EXCEPT ![i] = [room EXCEPT !.nitems = AppendedSize(room, n)]]
        /\ heap' = IF n = 0 THEN h ELSE Overwrite(h, room.ptr, m, [k \in 1..n |-> 1])
        /\ overrun' = (overrun \/ ~Inside(h, room.ptr, m + n))
        /\ m + n <= c
    BY <1>2, <1>4 DEF Appends
  <2> HIDE DEF room, h
  <2>3. item' = [item EXCEPT ![i] = r]
    BY <2>1, <2>2 DEF AppendedSize
  <2>4. /\ r \in DataItem /\ r.parent = NULL /\ r.status = room.status /\ r.ptr = room.ptr
        /\ r.cap = room.cap /\ r.exists = room.exists
    <3>1. m + n \in -1..MaxSize
      BY <1>0, <2>2
    <3> QED
      BY <2>1, <3>1 DEF DataItem
  <2>5. room.exists
    BY <2>1, NoItemFacts DEF Own, Unset
  <2> HIDE DEF r
  <2>6. Own(r)
    BY <2>1, <2>4, <2>5 DEF Own
  <2>7. Settled(heap, h, item[i], r)
    BY <2>1, <2>4 DEF Settled, Holds
  <2>8. overrun' = FALSE
    <3>1. Inside(h, room.ptr, m + n)
      BY <2>1 DEF Inside
    <3> QED
      BY <1>1, <2>2, <3>1, Zenon
  <2>9. Settled(heap, heap', item[i], r)
    <3>1. CASE n = 0
      BY <2>2, <2>7, <3>1
    <3>2. CASE n # 0
      <4>1. room.ptr \in Array /\ m \in Int
        BY <1>0, <2>1, <3>2
      <4>2. [k \in 1..n |-> 1] \in Seq(Value)
        BY <1>0, OnesFacts
      <4>3. heap' = Overwrite(h, room.ptr, m, [k \in 1..n |-> 1])
        BY <2>2, <3>2
      <4>4. Heap(heap') /\ \A a \in Array : Len(heap'[a]) = Len(h[a])
        BY <2>1, <4>1, <4>2, <4>3, OverwriteFacts
      <4> QED
        BY <2>4, <2>7, <4>4, SettledOverwritten
    <3> QED
      BY <3>1, <3>2
  <2> QED
    BY <2>3, <2>4, <2>6, <2>8, <2>9, OneItemStep
<1> QED
  BY <1>3, <1>4

LEMMA TargetFacts ==
    ASSUME ArraysInv, NEW i \in Item
    PROVE  /\ Target(i) \in DataItem /\ Target(i).exists
           /\ Target(i).status = item[i].status /\ Target(i).ptr = item[i].ptr
<1>1. NewDataItem \in DataItem /\ NewDataItem.ptr = NULL /\ NewDataItem.status = Unset /\ NewDataItem.exists
  BY ArraysAssumption DEF NewDataItem, DataItem, Status, Unset
<1> QED
  BY <1>1, ItemFacts, NoItemFacts DEF Target

LEMMA ArraysOfUse ==
    ASSUME ArraysInv, NEW i \in Item, NEW j \in Item, use_dataitem(i, j)
    PROVE  ArraysInv'
<1> DEFINE d == [Target(i) EXCEPT !.parent = j, !.cap = item[root(j)].cap]
<1>1. /\ item' = [item EXCEPT ![i] = d] /\ heap' = heap /\ overrun' = FALSE /\ Heap(heap)
      /\ ~Uses(j, i) /\ Target(i).status = Unset
  BY ItemFacts DEF use_dataitem, Unset
<1>2. item[root(j)].cap \in 0..MaxSize
  BY Answers
<1>3. /\ Target(i) \in DataItem /\ Target(i).exists
      /\ Target(i).status = item[i].status /\ Target(i).ptr = item[i].ptr
  BY TargetFacts
<1>4. d \in DataItem /\ d.exists /\ d.parent = j /\ d.status = Unset /\ d.ptr = item[i].ptr
      /\ d.status = item[i].status
  BY <1>1, <1>2, <1>3 DEF DataItem
<1> HIDE DEF d
<1>5. d.ptr = NULL
  BY <1>1, <1>3, <1>4, ItemFacts DEF Own
<1>6. Own(d)
  BY <1>4, <1>5 DEF Own, Unset
<1>7. Settled(heap, heap', item[i], d)
  BY <1>1, <1>4, <1>5, KeepSettles
<1>8. item \in [Item -> DataItem]
  BY DEF ArraysInv
<1>9. PICK f \in [Item -> Nat] : Descends(f)
  BY DEF ArraysInv, Acyclic
<1> DEFINE f2 == [k \in Item |-> IF Uses(k, i) THEN f[k] + f[j] + 1 ELSE f[k]]
<1>10. f2 \in [Item -> Nat]
  BY <1>9
<1>11. \A k \in Item : item'[k].parent # NULL => f2[item'[k].parent] < f2[k]
  <2>1. SUFFICES ASSUME NEW k \in Item, item'[k].parent # NULL PROVE f2[item'[k].parent] < f2[k]
    OBVIOUS
  <2>2. \A x \in Item : Uses(x, i) <=> x = i \/ (item[x].parent # NULL /\ Uses(item[x].parent, i))
    BY <1>8, UsesFacts
  <2>3. CASE k = i
    <3>1. item'[k].parent = j /\ Uses(k, i)
      BY <1>1, <1>4, <1>8, <2>2, <2>3
    <3>2. f2[j] = f[j] /\ f2[k] = f[k] + f[j] + 1 /\ f[k] \in Nat /\ f[j] \in Nat
      BY <1>1, <1>9, <3>1
    <3> QED
      BY <3>1, <3>2
  <2>4. CASE k # i
    <3> DEFINE p == item[k].parent
    <3>1. item'[k].parent = p /\ p # NULL /\ p \in Item
      BY <1>1, <1>8, <2>1, <2>4 DEF DataItem
    <3>2. f[p] < f[k] /\ f[p] \in Nat /\ f[k] \in Nat /\ f[j] \in Nat
      BY <1>9, <3>1 DEF Descends
    <3>3. Uses(k, i) <=> Uses(p, i)
      BY <2>2, <2>4, <3>1
    <3> HIDE DEF p
    <3>4. f2[p] = (IF Uses(p, i) THEN f[p] + f[j] + 1 ELSE f[p])
      BY <3>1
    <3> QED
      BY <3>1, <3>2, <3>3, <3>4
  <2> QED
    BY <2>3, <2>4
<1>12. Acyclic'
  <2> HIDE DEF f2
  <2> QED
    BY <1>10, <1>11 DEF Acyclic, Descends
<1> QED
  BY <1>1, <1>4, <1>6, <1>7, <1>12, OneItemStep

LEMMA ValuesFacts ==
    ASSUME ArraysInv, NEW j \in Item, pointer(j) # NULL, NEW n \in Nat
    PROVE  Values(j, n) \in Seq(Value)
<1> DEFINE s == heap[pointer(j)]
<1>1. s \in Seq(Value) /\ Len(s) \in Nat
  BY Answers
<1>2. Min({n, Len(s)}) = IF n <= Len(s) THEN n ELSE Len(s)
  <2>1. n \in Int /\ Len(s) \in Int
    BY <1>1
  <2> QED
    BY <2>1, MaxMin, Zenon
<1> HIDE DEF s
<1>3. SubSeq(s, 1, Min({n, Len(s)})) \in Seq(Value)
  <2> DEFINE m == Min({n, Len(s)})
  <2>1. m \in Nat /\ m <= Len(s)
    BY <1>1, <1>2
  <2> HIDE DEF m
  <2>2. \A k \in 1..m : s[k] \in Value
    BY <1>1, <2>1
  <2>3. 1 \in Int /\ m \in Int
    BY <2>1
  <2>4. SubSeq(s, 1, m) \in Seq(Value)
    BY <2>2, <2>3, SubSeqProperties, Zenon
  <2> QED
    BY <2>4 DEF m
<1> QED
  BY <1>3 DEF Values, s

\* The parts of clone_dataitem: the item d that is given to allocate, and the size n.
Clones(i, j, b, d, n) ==
    LET new == Allocated(d, b, d.cap, TRUE)
        h == NewArray(heap, d, b, d.cap, TRUE)
    IN /\ d.exists /\ d.parent = NULL /\ d.cap = item[root(j)].cap /\ d.nitems = n
       /\ d.status = item[i].status /\ d.ptr = item[i].ptr
       /\ n = size_of_items(j) /\ FreeBlock(b) /\ ~Uses(j, i)
       /\ d.status # Unset => IF initialized(j) THEN n <= d.cap ELSE d.status = "ALLOCATED"
       /\ ~initialized(j) =>
             item' = [item EXCEPT ![i] = Deallocated(d)] /\ heap' = Delete(heap, d) /\ overrun' = overrun
       /\ initialized(j) /\ ~(n <= d.cap) =>
             item' = [item EXCEPT ![i] = d] /\ heap' = heap /\ overrun' = overrun
       /\ initialized(j) /\ n <= d.cap =>
             /\ item' = [item EXCEPT ![i] = new]
             /\ heap' = IF n = 0 \/ pointer(j) = NULL THEN h
                        ELSE Overwrite(h, new.ptr, 0, Values(j, n))
             /\ overrun' = (overrun \/ (pointer(j) # NULL /\ ~Inside(heap, pointer(j), n)))

LEMMA CloneParts ==
    ASSUME ArraysInv, NEW i \in Item, NEW j \in Item, NEW b \in Block, clone_dataitem(i, j, b)
    PROVE  \E d \in DataItem, n \in 0..MaxSize : Clones(i, j, b, d, n)
<1> DEFINE n == size_of_items(j)
           c == item[root(j)].cap
           t == Target(i)
           d == [t EXCEPT !.cap = c, !.parent = NULL, !.nitems = n]
           h == NewArray(heap, d, b, d.cap, TRUE)
           new == Allocated(d, b, d.cap, TRUE)
<1>1. /\ FreeBlock(b) /\ ~Uses(j, i)
      /\ d.status # Unset => IF initialized(j) THEN n <= d.cap ELSE d.status = "ALLOCATED"
      /\ \/ /\ ~initialized(j)
            /\ item' = [item EXCEPT ![i] = Deallocated(d)]
            /\ heap' = Delete(heap, d)
            /\ overrun' = overrun
         \/ /\ initialized(j) /\ d.cap < n
            /\ item' = [item EXCEPT ![i] = d]
            /\ heap' = heap /\ overrun' = overrun
         \/ /\ initialized(j) /\ n <= d.cap
            /\ item' = [item EXCEPT ![i] = new]
            /\ heap' = IF n = 0 \/ pointer(j) = NULL THEN h
                       ELSE Overwrite(h, new.ptr, 0, Values(j, n))
            /\ overrun' = (overrun \/ (pointer(j) # NULL /\ ~Inside(heap, pointer(j), n)))
  BY DEF clone_dataitem, Unset
<1>2. /\ n \in 0..MaxSize /\ c \in 0..MaxSize /\ MaxSize \in Nat
  BY Answers, ArraysAssumption
<1>3. t \in DataItem /\ t.exists /\ t.status = item[i].status /\ t.ptr = item[i].ptr
  BY TargetFacts
<1> HIDE DEF c, t
<1>4. n = size_of_items(j)
  OBVIOUS
<1> HIDE DEF n
<1>5. n \in -1..MaxSize
  BY <1>2
<1>6. d \in DataItem
  BY <1>2, <1>3, <1>5 DEF DataItem
<1>7. /\ d.exists /\ d.parent = NULL /\ d.cap = c /\ d.nitems = n
      /\ d.status = item[i].status /\ d.ptr = item[i].ptr
  BY <1>3 DEF DataItem
<1> HIDE DEF d
<1>8. d.cap < n <=> ~(n <= d.cap)
  BY <1>2, <1>7
<1> HIDE DEF h, new
<1>9. /\ ~initialized(j) =>
             item' = [item EXCEPT ![i] = Deallocated(d)] /\ heap' = Delete(heap, d) /\ overrun' = overrun
      /\ initialized(j) /\ ~(n <= d.cap) =>
             item' = [item EXCEPT ![i] = d] /\ heap' = heap /\ overrun' = overrun
      /\ initialized(j) /\ n <= d.cap =>
             /\ item' = [item EXCEPT ![i] = new]
             /\ heap' = IF n = 0 \/ pointer(j) = NULL THEN h
                        ELSE Overwrite(h, new.ptr, 0, Values(j, n))
             /\ overrun' = (overrun \/ (pointer(j) # NULL /\ ~Inside(heap, pointer(j), n)))
  BY <1>1, <1>8, Zenon
<1>10. Clones(i, j, b, d, n)
  BY <1>1, <1>4, <1>7, <1>9 DEF Clones, h, new, c
<1> QED
  BY <1>2, <1>6, <1>10

LEMMA ArraysOfClone ==
    ASSUME ArraysInv, NEW i \in Item, NEW j \in Item, NEW b \in Block, clone_dataitem(i, j, b)
    PROVE  ArraysInv'
<1>1. PICK d \in DataItem, n \in 0..MaxSize : Clones(i, j, b, d, n)
  BY CloneParts
<1> DEFINE h == NewArray(heap, d, b, d.cap, TRUE)
           new == Allocated(d, b, d.cap, TRUE)
<1>2. overrun = FALSE /\ Heap(heap) /\ Own(item[i])
  BY ItemFacts
<1>3. /\ capacity(j) = item[root(j)].cap
      /\ pointer(j) # NULL => capacity(j) <= Len(heap[pointer(j)]) /\ Len(heap[pointer(j)]) \in Nat
  BY Answers
<1>4. n \in Nat /\ d.cap \in Nat /\ d.cap \in 0..MaxSize /\ NULL \notin Array
  BY ArraysAssumption DEF Array, DataItem
<1>5. /\ d.exists /\ d.parent = NULL /\ d.cap = item[root(j)].cap
      /\ d.status = item[i].status /\ d.ptr = item[i].ptr /\ FreeBlock(b)
      /\ d.status # Unset => IF initialized(j) THEN n <= d.cap ELSE d.status = "ALLOCATED"
  BY <1>1 DEF Clones
<1>6. CASE ~initialized(j)
  <2> DEFINE e == Deallocated(d)
  <2>1. item' = [item EXCEPT ![i] = e] /\ heap' = Delete(heap, d) /\ overrun' = FALSE
    BY <1>1, <1>2, <1>6 DEF Clones
  <2>2. d.status \in {Unset, "ALLOCATED"}
    BY <1>5, <1>6
  <2>3. d.status = Unset => d.ptr = NULL
    BY <1>2, <1>5 DEF Own
  <2>4. e \in DataItem /\ e.exists /\ e.parent = NULL /\ e.status = Unset /\ e.ptr = NULL
    BY <1>5, <2>2, <2>3 DEF Deallocated, DataItem, Status, Unset
  <2> HIDE DEF e
  <2>5. Own(e)
    BY <2>4 DEF Own, Unset
  <2>6. Delete(heap, d) = Delete(heap, item[i])
    BY <1>5 DEF Delete
  <2>7. Settled(heap, heap', item[i], e)
    BY <2>1, <2>4, <2>6, DeleteSettles DEF Unset
  <2> QED
    BY <2>1, <2>4, <2>5, <2>7, OneItemStep
<1>7. CASE initialized(j) /\ ~(n <= d.cap)
  <2>1. item' = [item EXCEPT ![i] = d] /\ heap' = heap /\ overrun' = FALSE
    BY <1>1, <1>2, <1>7 DEF Clones
  <2>2. d.status = Unset /\ d.ptr = NULL
    BY <1>2, <1>5, <1>7 DEF Own
  <2>3. Own(d)
    BY <1>5, <2>2 DEF Own, Unset
  <2>4. Settled(heap, heap', item[i], d)
    BY <1>2, <1>5, <2>1, <2>2, KeepSettles
  <2> QED
    BY <1>5, <2>1, <2>3, <2>4, OneItemStep
<1>8. CASE initialized(j) /\ n <= d.cap
  <2>1. /\ item' = [item EXCEPT ![i] = new]
        /\ n = 0 \/ pointer(j) = NULL => heap' = h
        /\ ~(n = 0 \/ pointer(j) = NULL) => heap' = Overwrite(h, new.ptr, 0, Values(j, n))
        /\ overrun' = (overrun \/ (pointer(j) # NULL /\ ~Inside(heap, pointer(j), n)))
    BY <1>1, <1>8 DEF Clones
  <2>2. /\ Settled(heap, h, item[i], new) /\ new \in DataItem /\ Own(new) /\ new.parent = NULL
        /\ new.status = "ALLOCATED" /\ d.cap <= new.cap
    <3>1. TRUE \in BOOLEAN /\ (Reallocates(d, d.cap, TRUE) => FreeBlock(b))
          /\ (~TRUE => d.cap = item[i].cap /\ d.status \notin {"SET", "SET_CONST"})
      BY <1>5
    <3> QED
      BY <1>4, <1>5, <3>1, AllocateSettles, Zenon
  <2> HIDE DEF h, new
  <2>3. overrun' = FALSE
    <3>1. pointer(j) # NULL => Inside(heap, pointer(j), n)
      BY <1>3, <1>4, <1>5, <1>8 DEF Inside
    <3> QED
      BY <1>2, <2>1, <3>1, Zenon
  <2>4. Settled(heap, heap', item[i], new)
    <3>1. CASE n = 0 \/ pointer(j) = NULL
      BY <2>1, <2>2, <3>1
    <3>2. CASE ~(n = 0 \/ pointer(j) = NULL)
      <4>1. Values(j, n) \in Seq(Value)
        BY <1>4, <3>2, ValuesFacts
      <4>2. new.ptr # NULL
        <5>1. new.cap \in Nat /\ new.cap # 0
          BY <1>4, <1>8, <2>2, <3>2 DEF DataItem
        <5> QED
          BY <2>2, <5>1 DEF Own, Unset
      <4>3. new.ptr \in Array /\ Heap(h)
        BY <2>2, <4>2 DEF Settled, DataItem, Array
      <4>4. heap' = Overwrite(h, new.ptr, 0, Values(j, n))
        BY <2>1, <3>2
      <4>5. Heap(heap') /\ \A a \in Array : Len(heap'[a]) = Len(h[a])
        BY <4>1, <4>3, <4>4, OverwriteFacts
      <4> QED
        BY <2>2, <4>5, SettledOverwritten
    <3> QED
      BY <3>1, <3>2
  <2> QED
    BY <2>1, <2>2, <2>3, <2>4, OneItemStep
<1> QED
  BY <1>6, <1>7, <1>8

LEMMA ArraysOfCopy ==
    ASSUME ArraysInv, NEW i \in Item, NEW j \in Item, copy_dataitem(i, j)
    PROVE  ArraysInv'
<1> DEFINE n == size_of_items(j)
           d == CopyTarget(i)
<1>1. /\ Ready(j) /\ n > 0 /\ pointer(i) # NULL /\ pointer(j) # NULL
      /\ item' = [item EXCEPT ![i] = d]
      /\ IF d.cap < n THEN heap' = heap /\ overrun' = overrun
         ELSE /\ heap' = Overwrite(heap, pointer(i), 0, Values(j, n))
              /\ overrun' = (overrun \/ ~Inside(heap, pointer(i), n) \/ ~Inside(heap, pointer(j), n))
  BY DEF copy_dataitem
<1>2. overrun = FALSE /\ Heap(heap) /\ Own(item[i]) /\ item[i] \in DataItem /\ MaxSize \in Nat
  BY ItemFacts, ArraysAssumption
<1>3. /\ n \in Nat /\ capacity(j) \in Nat /\ n <= capacity(j)
      /\ capacity(j) <= Len(heap[pointer(j)]) /\ Len(heap[pointer(j)]) \in Nat
  <2>1. /\ n \in 0..MaxSize /\ capacity(j) \in 0..MaxSize /\ initialized(j)
        /\ capacity(j) <= Len(heap[pointer(j)]) /\ Len(heap[pointer(j)]) \in Nat
    BY <1>1, Answers
  <2> QED
    BY <1>1, <1>2, <2>1 DEF Ready
<1>4. /\ item[root(i)].cap \in 0..MaxSize /\ pointer(i) \in Array
      /\ item[root(i)].cap <= Len(heap[pointer(i)]) /\ Len(heap[pointer(i)]) \in Nat
      /\ item[i].parent = NULL => root(i) = i
  BY <1>1, Answers
<1>5. d.cap = item[root(i)].cap
  BY <1>2, <1>4 DEF CopyTarget, Own, Unset, DataItem
<1>6. /\ d \in DataItem /\ d.exists = item[i].exists /\ d.parent = item[i].parent
      /\ d.status = item[i].status /\ d.ptr = item[i].ptr
      /\ d.status # Unset => d = item[i]
  BY <1>2, <1>4 DEF CopyTarget, DataItem, Unset
<1>7. item[i].exists
  BY ItemFacts DEF copy_dataitem
<1> HIDE DEF d, n
<1>8. Own(d)
  BY <1>2, <1>6, <1>7 DEF Own
<1>9. overrun' = FALSE
  <2>1. CASE d.cap < n
    BY <1>1, <1>2, <2>1
  <2>2. CASE ~(d.cap < n)
    <3>1. Inside(heap, pointer(i), n) /\ Inside(heap, pointer(j), n)
      BY <1>1, <1>2, <1>3, <1>4, <1>5, <2>2 DEF Inside
    <3> QED
      BY <1>1, <1>2, <2>2, <3>1, Zenon
  <2> QED
    BY <2>1, <2>2
<1>10. Heap(heap') /\ \A a \in Array : Len(heap'[a]) = Len(heap[a])
  <2>1. CASE d.cap < n
    BY <1>1, <1>2, <2>1
  <2>2. CASE ~(d.cap < n)
    <3>1. Values(j, n) \in Seq(Value) /\ 0 \in Int
      BY <1>1, <1>3, ValuesFacts
    <3>2. heap' = Overwrite(heap, pointer(i), 0, Values(j, n))
      BY <1>1, <2>2
    <3> QED
      BY <1>2, <1>4, <3>1, <3>2, OverwriteFacts, Zenon
  <2> QED
    BY <2>1, <2>2
<1>11. d.ptr # NULL => d.cap = item[i].cap
  BY <1>2, <1>6 DEF Own
<1>12. Settled(heap, heap', item[i], d)
  BY <1>6, <1>10, <1>11, KeepSettles
<1> QED
  BY <1>1, <1>6, <1>8, <1>9, <1>12, OneItemStep

LEMMA ArraysOfCopyOut == ASSUME ArraysInv, NEW i \in Item, copy_array(i) PROVE ArraysInv'
<1>1. item' = item /\ heap' = heap /\ pointer(i) # NULL /\ Ready(i)
      /\ overrun' = (overrun \/ ~Inside(heap, pointer(i), size_of_items(i)))
  BY DEF copy_array
<1>2. /\ overrun = FALSE /\ Heap(heap) /\ Own(item[i]) /\ item[i] \in DataItem /\ MaxSize \in Nat
      /\ item \in [Item -> DataItem]
  BY ItemFacts, ArraysAssumption DEF ArraysInv
<1>3. /\ size_of_items(i) \in 0..MaxSize /\ capacity(i) \in 0..MaxSize /\ initialized(i)
      /\ capacity(i) <= Len(heap[pointer(i)]) /\ Len(heap[pointer(i)]) \in Nat
  BY <1>1, Answers
<1>4. overrun' = FALSE
  <2>1. Inside(heap, pointer(i), size_of_items(i))
    BY <1>1, <1>2, <1>3 DEF Inside, Ready
  <2> QED
    BY <1>1, <1>2, <2>1, Zenon
<1>5. item' = [item EXCEPT ![i] = item[i]]
  BY <1>1, <1>2
<1>6. Settled(heap, heap', item[i], item[i])
  BY <1>1, <1>2, KeepSettles
<1> QED
  BY <1>2, <1>4, <1>5, <1>6, OneItemStep

LEMMA ArraysOfClientWrites == ASSUME ArraysInv, NEW i \in Item, ClientWrites(i) PROVE ArraysInv'
<1> DEFINE n == Min({size_of_items(i), capacity(i)})
<1>1. item' = item /\ overrun' = overrun /\ pointer(i) # NULL
      /\ heap' = Overwrite(heap, pointer(i), 0, [k \in 1..n |-> 1])
  BY DEF ClientWrites
<1>2. /\ overrun = FALSE /\ Heap(heap) /\ Own(item[i]) /\ item[i] \in DataItem
      /\ item \in [Item -> DataItem]
  BY ItemFacts DEF ArraysInv
<1>3. size_of_items(i) \in Nat /\ capacity(i) \in Nat /\ pointer(i) \in Array
  <2>1. size_of_items(i) \in 0..MaxSize /\ capacity(i) \in 0..MaxSize /\ pointer(i) \in Array
    BY <1>1, Answers
  <2> QED
    BY <2>1
<1>4. n \in Nat
  <2>1. size_of_items(i) \in Int /\ capacity(i) \in Int
    BY <1>3
  <2>2. n = IF size_of_items(i) <= capacity(i) THEN size_of_items(i) ELSE capacity(i)
    BY <2>1, MaxMin, Zenon
  <2> QED
    BY <1>3, <2>2
<1> HIDE DEF n
<1>5. Heap(heap') /\ \A a \in Array : Len(heap'[a]) = Len(heap[a])
  <2>1. [k \in 1..n |-> 1] \in Seq(Value) /\ 0 \in Int
    BY <1>4, OnesFacts
  <2> QED
    BY <1>1, <1>2, <1>3, <2>1, OverwriteFacts, Zenon
<1>6. item' = [item EXCEPT ![i] = item[i]]
  BY <1>1, <1>2
<1>7. Settled(heap, heap', item[i], item[i])
  BY <1>2, <1>5, KeepSettles
<1> QED
  BY <1>1, <1>2, <1>6, <1>7, OneItemStep

LEMMA ArraysStep == ArraysInv /\ [Next]_vars => ArraysInv'
<1> SUFFICES ASSUME ArraysInv, [Next]_vars PROVE ArraysInv'
  OBVIOUS
<1>1. CASE UNCHANGED vars
  BY <1>1 DEF vars, ArraysInv, Covers, Owned, Unshared, Acyclic, Descends
<1>2. CASE Next
  <2>1. PICK i \in Item :
          \/ new_dataitem(i)
          \/ delete_dataitem(i)
          \/ \E n \in Sizes : set_size(i, n)
          \/ \E a \in ClientArray, cap \in Caps, const \in BOOLEAN : set_array(i, a, cap, const)
          \/ \E b \in Block, cap \in Caps : alloc_array(i, b, cap)
          \/ \E b \in Block, cap \in Caps : resize_array(i, b, cap)
          \/ \E b \in Block, n \in Sizes : append_array(i, b, n)
          \/ dealloc_array(i)
          \/ \E j \in Item : use_dataitem(i, j)
          \/ \E j \in Item, b \in Block : clone_dataitem(i, j, b)
          \/ \E j \in Item : copy_dataitem(i, j)
          \/ copy_array(i)
          \/ ClientWrites(i)
    BY <1>2 DEF Next
  <2>2. CASE new_dataitem(i) \/ delete_dataitem(i) \/ \E n \in Sizes : set_size(i, n)
    BY <2>2, ArraysOfNew, ArraysOfDelete, ArraysOfSetSize
  <2>3. CASE \E a \in ClientArray, cap \in Caps, const \in BOOLEAN : set_array(i, a, cap, const)
    BY <2>3, ArraysOfSetArray
  <2>4. CASE \/ \E b \in Block, cap \in Caps : alloc_array(i, b, cap)
             \/ \E b \in Block, cap \in Caps : resize_array(i, b, cap)
    <3>1. PICK b \in Block, cap \in Caps, force \in BOOLEAN : Allocate(i, b, cap, force)
      BY <2>4 DEF alloc_array, resize_array
    <3> QED
      BY <3>1, ArraysOfAllocate
  <2>5. CASE \E b \in Block, n \in Sizes : append_array(i, b, n)
    BY <2>5, ArraysOfAppend
  <2>6. CASE dealloc_array(i) \/ \E j \in Item : use_dataitem(i, j)
    BY <2>6, ArraysOfDealloc, ArraysOfUse
  <2>7. CASE \E j \in Item, b \in Block : clone_dataitem(i, j, b)
    BY <2>7, ArraysOfClone
  <2>8. CASE (\E j \in Item : copy_dataitem(i, j)) \/ copy_array(i) \/ ClientWrites(i)
    BY <2>8, ArraysOfCopy, ArraysOfCopyOut, ArraysOfClientWrites
  <2> QED
    BY <2>1, <2>2, <2>3, <2>4, <2>5, <2>6, <2>7, <2>8
<1> QED
  BY <1>1, <1>2

\* The inductive invariant holds of every sequence of calls.
THEOREM ArraysInvariant == Spec => []ArraysInv
  BY ArraysInit, ArraysStep, PTL DEF Spec

\* DataItem and Pane: every array an item answers with is there and as long as
\* it is said to be, COM stays inside the arrays, and no array is leaked or
\* freed twice, for any items, chains of uses, arrays and sizes.
THEOREM StorageSoundHolds == Spec => []StorageSound
<1>1. ASSUME ArraysInv PROVE StorageSound
  <2>1. /\ item \in [Item -> DataItem] /\ overrun = FALSE /\ Heap(heap) /\ Owned /\ Unshared
        /\ heap \in [Array -> Seq(Value)] /\ \A i \in Item : Own(item[i])
    BY <1>1 DEF ArraysInv, Heap
  <2>2. TypeOK
    <3>1. \A a \in Array : heap[a] \in UNION {[1..n -> Value] : n \in 0..Top}
      <4>1. SUFFICES ASSUME NEW a \in Array
                     PROVE  heap[a] \in UNION {[1..n -> Value] : n \in 0..Top}
        OBVIOUS
      <4>2. heap[a] \in Seq(Value) /\ Len(heap[a]) \in 0..Top
        BY <2>1, TopFacts DEF Heap
      <4>3. heap[a] \in [1..Len(heap[a]) -> Value]
        BY <4>2
      <4> QED
        BY <4>2, <4>3
    <3> QED
      BY <2>1, <3>1 DEF TypeOK, Top, Array
  <2>3. BufferCovers
    <3>1. SUFFICES ASSUME NEW i \in Item, pointer(i) # NULL
                   PROVE  heap[pointer(i)] # <<>> /\ capacity(i) <= Len(heap[pointer(i)])
      BY DEF BufferCovers, Existing
    <3>2. /\ capacity(i) \in 0..MaxSize /\ capacity(i) # 0 /\ capacity(i) <= Len(heap[pointer(i)])
          /\ heap[pointer(i)] \in Seq(Value)
      BY <1>1, <3>1, Answers
    <3> QED
      BY <3>2, ArraysAssumption
  <2>4. OneOwner
    <3>1. SUFFICES ASSUME NEW b \in Block, heap[b] # <<>>
                   PROVE  \E i \in Existing :
                             /\ item[i].status = "ALLOCATED" /\ item[i].ptr = b
                             /\ \A j \in Existing : pointer(j) = b => root(j) = i
      BY DEF OneOwner
    <3>2. PICK i \in Item : item[i].status = "ALLOCATED" /\ item[i].ptr = b
      BY <2>1, <3>1 DEF Owned
    <3>3. i \in Existing
      BY <1>1, <3>2, ItemFacts, NoItemFacts DEF Unset
    <3>4. ASSUME NEW j \in Existing, pointer(j) = b PROVE root(j) = i
      <4>1. j \in Item /\ b # NULL /\ b \notin ClientArray
        BY ArraysAssumption DEF Existing
      <4>2. root(j) \in Item /\ item[root(j)].ptr = b
        BY <1>1, <3>4, <4>1, Answers
      <4>3. item[root(j)].status = "ALLOCATED"
        BY <2>1, <4>1, <4>2 DEF Own, DataItem, Status, Unset
      <4> QED
        BY <2>1, <3>2, <4>1, <4>2, <4>3 DEF Unshared
    <3> QED
      BY <3>2, <3>3, <3>4
  <2> QED
    BY <2>1, <2>2, <2>3, <2>4 DEF StorageSound, NoOverrun
<1> QED
  BY <1>1, ArraysInvariant, PTL

------------------------------------------------------------------------------
(* The values *)

LEMMA RootsNow == ArraysInv => RootsFollow
  BY RootsFollowParents DEF ArraysInv

LEMMA RootsAfter == ArraysInv' => RootsFollow'
  BY RootsNow, PTL

\* How many values an item holds, and which: those of its root.
Shorter(x, y) == IF x <= y THEN x ELSE y
Amount(d) == IF d.ptr = NULL \/ d.nitems < 0 THEN 0 ELSE Shorter(d.nitems, d.cap)
DataOfRoot == \A j \in Item :
    /\ Data(j) \in Seq(Value) /\ Len(Data(j)) = Amount(item[Roots[j]])
    /\ Amount(item[Roots[j]]) \in Nat
    /\ \A k \in 1..Amount(item[Roots[j]]) : Data(j)[k] = heap[item[Roots[j]].ptr][k]

LEMMA DataIsRoots == ArraysInv => DataOfRoot
<1> SUFFICES ASSUME ArraysInv, NEW j \in Item
             PROVE  /\ Data(j) \in Seq(Value) /\ Len(Data(j)) = Amount(item[Roots[j]])
                    /\ Amount(item[Roots[j]]) \in Nat
                    /\ \A k \in 1..Amount(item[Roots[j]]) : Data(j)[k] = heap[item[Roots[j]].ptr][k]
  BY DEF DataOfRoot
<1> DEFINE d == item[Roots[j]]
           s == heap[d.ptr]
           m == Min({size_of_items(j), capacity(j)})
<1>1. /\ pointer(j) = d.ptr /\ capacity(j) = d.cap /\ d \in DataItem
      /\ size_of_items(j) = IF d.nitems >= 0 THEN d.nitems ELSE 0
      /\ size_of_items(j) \in 0..MaxSize /\ capacity(j) \in 0..MaxSize
      /\ pointer(j) # NULL => s \in Seq(Value) /\ d.cap <= Len(s)
  BY Answers, ItemFacts DEF root
<1>2. Data(j) = IF d.ptr = NULL THEN <<>> ELSE SubSeq(s, 1, m)
  BY <1>1 DEF Data
<1>3. d.cap \in Nat /\ d.nitems \in Int /\ MaxSize \in Nat
  BY <1>1, ArraysAssumption DEF DataItem
<1>4. m = Shorter(size_of_items(j), capacity(j))
  <2>1. size_of_items(j) \in Int /\ capacity(j) \in Int
    BY <1>1
  <2> QED
    BY <2>1, MaxMin, Zenon DEF Shorter
<1>5. m \in Nat /\ m <= d.cap /\ (d.ptr # NULL => Amount(d) = m)
  BY <1>1, <1>3, <1>4 DEF Shorter, Amount
<1> HIDE DEF d, s, m
<1>6. CASE d.ptr = NULL
  <2>1. Data(j) = <<>> /\ Amount(d) = 0
    BY <1>2, <1>6 DEF Amount
  <2>2. <<>> \in Seq(Value) /\ Len(<<>>) = 0
    OBVIOUS
  <2> QED
    BY <2>1, <2>2 DEF d
<1>7. CASE d.ptr # NULL
  <2>1. s \in Seq(Value) /\ m <= Len(s) /\ Data(j) = SubSeq(s, 1, m) /\ Amount(d) = m
    BY <1>1, <1>2, <1>3, <1>5, <1>7
  <2>2. \A k \in 1..m : s[k] \in Value
    BY <1>5, <2>1
  <2>3. 1 \in Int /\ m \in Int /\ m - 1 + 1 = m
    BY <1>5
  <2>4. SubSeq(s, 1, m) \in Seq(Value) /\ Len(SubSeq(s, 1, m)) = m
        /\ \A k \in 1..m : SubSeq(s, 1, m)[k] = s[k]
    BY <1>5, <2>1
  <2> QED
    BY <1>5, <2>1, <2>4 DEF d, s
<1> QED
  BY <1>6, <1>7

LEMMA DataIsRootsAfter == ArraysInv' => DataOfRoot'
  BY DataIsRoots, PTL

\* Heap g is heap h but for the values of vs in array a.
Written(g, h, a, at, vs) ==
    /\ \A x \in Array : x # a => g[x] = h[x]
    /\ \A k \in 1..Len(h[a]) : g[a][k] = IF k - at \in 1..Len(vs) THEN vs[k - at] ELSE h[a][k]

\* The values in the heap after an array is written to
LEMMA OverwriteValues ==
    ASSUME NEW h, Heap(h), NEW a \in Array, NEW at \in Int, NEW vs \in Seq(Value)
    PROVE  Written(Overwrite(h, a, at, vs), h, a, at, vs)
<1>1. h \in [Array -> Seq(Value)]
  BY DEF Heap
<1>2. DOMAIN h[a] = 1..Len(h[a]) /\ DOMAIN vs = 1..Len(vs)
  BY <1>1
<1> DEFINE new == [k \in DOMAIN h[a] |-> IF k - at \in DOMAIN vs THEN vs[k - at] ELSE h[a][k]]
<1>3. Overwrite(h, a, at, vs) = [h EXCEPT ![a] = new]
  BY DEF Overwrite
<1>4. \A k \in 1..Len(h[a]) : new[k] = IF k - at \in 1..Len(vs) THEN vs[k - at] ELSE h[a][k]
  BY <1>2
<1> HIDE DEF new
<1> QED
  BY <1>1, <1>3, <1>4 DEF Written

\* The values in the heap after DataItem::allocate has got a new array
LEMMA NewArrayValues ==
    ASSUME ArraysInv, NEW i \in Item, NEW d \in DataItem, NEW b \in Block, NEW c \in 0..MaxSize,
           NEW force \in BOOLEAN, d.status = item[i].status, d.ptr = item[i].ptr,
           Reallocates(d, c, force)
    PROVE  LET h == NewArray(heap, d, b, c, force)
           IN /\ \A a \in Array : a # b => h[a] = IF Holds(item[i], a) THEN <<>> ELSE heap[a]
              /\ ~force /\ d.status = "ALLOCATED" /\ c # 0 =>
                    \A k \in 1..c : k <= d.cap => h[b][k] = heap[d.ptr][k]
<1> DEFINE h == NewArray(heap, d, b, c, force)
           g == Delete(heap, d)
           kept == IF d.status = Unset \/ force THEN 0 ELSE Min({d.cap, c})
           new == [k \in 1..c |-> IF k <= kept THEN heap[d.ptr][k] ELSE 0]
<1>1. /\ Heap(g) /\ \A a \in Array : g[a] = IF Holds(item[i], a) THEN <<>> ELSE heap[a]
  BY DeleteFacts
<1>2. g \in [Array -> Seq(Value)] /\ b \in Array /\ d.cap \in Nat /\ c \in Nat /\ MaxSize \in Nat
  BY <1>1, ArraysAssumption DEF Heap, Array, DataItem
<1>3. CASE c = 0
  <2>1. h = g
    BY <1>3 DEF NewArray
  <2> HIDE DEF h, g
  <2> QED
    BY <1>1, <1>3, <2>1 DEF h
<1>4. CASE c # 0
  <2>1. h = [g EXCEPT ![b] = new]
    BY <1>4 DEF NewArray, Unset
  <2>2. ~force /\ d.status = "ALLOCATED" => kept = Shorter(d.cap, c)
    <3>1. d.cap \in Int /\ c \in Int
      BY <1>2
    <3>2. Min({d.cap, c}) = Shorter(d.cap, c)
      BY <3>1, MaxMin, Zenon DEF Shorter
    <3> QED
      BY <3>2 DEF Unset
  <2>3. \A k \in 1..c : k <= kept => new[k] = heap[d.ptr][k]
    OBVIOUS
  <2> HIDE DEF h, g, kept, new
  <2>4. h[b] = new /\ \A a \in Array : a # b => h[a] = g[a]
    BY <1>2, <2>1
  <2>5. ASSUME ~force, d.status = "ALLOCATED", NEW k \in 1..c, k <= d.cap PROVE h[b][k] = heap[d.ptr][k]
    BY <1>2, <2>2, <2>3, <2>4, <2>5 DEF Shorter
  <2> QED
    BY <1>1, <2>4, <2>5 DEF h
<1> QED
  BY <1>3, <1>4

\* An array that another item answers with is not one a step of item i gets or gives up.
LEMMA OthersArray ==
    ASSUME ArraysInv, NEW i \in Item, NEW r \in Item, r # i, item[r].ptr # NULL
    PROVE  /\ item[r].ptr \in Array /\ ~Holds(item[i], item[r].ptr)
           /\ heap[item[r].ptr] # <<>>
<1>1. /\ item[r] \in DataItem /\ Own(item[r]) /\ Unshared /\ item[i] \in DataItem /\ Own(item[i])
      /\ item[r].cap <= Len(heap[item[r].ptr])
  BY DEF ArraysInv, Covers
<1>2. item[r].ptr \in Array /\ item[r].cap \in Nat /\ item[r].cap # 0
  BY <1>1 DEF DataItem, Array, Own
<1>3. ~Holds(item[i], item[r].ptr)
  <2>1. SUFFICES ASSUME Holds(item[i], item[r].ptr) PROVE FALSE
    OBVIOUS
  <2>2. item[r].ptr \in Block /\ item[i].status = "ALLOCATED"
    BY <1>1, <2>1 DEF Holds, Own
  <2>3. item[r].status = "ALLOCATED"
    BY <1>1, <2>2, ArraysAssumption DEF Own, DataItem, Status, Unset
  <2> QED
    BY <1>1, <2>1, <2>2, <2>3 DEF Unshared, Holds
<1>4. Len(<<>>) = 0
  OBVIOUS
<1> QED
  BY <1>1, <1>2, <1>3, <1>4

\* Item i goes over to r and the heap to h: the values of i are there, and those of the others.
Preserves(h, i, r) ==
    /\ item[i].ptr # NULL => r.ptr # NULL /\ item[i].cap <= r.cap
    /\ \A k \in 1..Amount(item[i]) : h[r.ptr][k] = heap[item[i].ptr][k]
    /\ \A q \in Item : q # i /\ item[q].ptr # NULL =>
          h[item[q].ptr] = heap[item[q].ptr] /\ item[q].ptr # r.ptr

\* A root that keeps its first values keeps those of all that use it.
LEMMA GrowthKeeps ==
    ASSUME ArraysInv, ArraysInv', NEW i \in Item, NEW d \in DataItem, item' = [item EXCEPT ![i] = d],
           item[i].parent = NULL, d.parent = NULL, item[i].nitems <= d.nitems, Preserves(heap', i, d)
    PROVE  \A j \in Item : /\ Len(Data(j)) <= Len(Data(j)')
                           /\ \A k \in DOMAIN Data(j) : Data(j)'[k] = Data(j)[k]
<1>1. /\ item \in [Item -> DataItem] /\ item'[i] = d /\ \A k \in Item : k # i => item'[k] = item[k]
  BY DEF ArraysInv
<1>2. RootsFollow /\ RootsFollow' /\ DataOfRoot /\ DataOfRoot'
  BY RootsNow, RootsAfter, DataIsRoots, DataIsRootsAfter
<1>3. \A k \in Item : item'[k].parent = item[k].parent
  BY <1>1
<1> DEFINE G == {k \in Item : Roots'[k] = Roots[k]}
<1>4. \A k \in Item : k \in G
  <2>1. \A k \in Item : item[k].parent = NULL => k \in G
    BY <1>2, <1>3 DEF RootsFollow
  <2>2. \A k \in Item : item[k].parent # NULL /\ item[k].parent \in G => k \in G
    BY <1>2, <1>3 DEF RootsFollow
  <2> HIDE DEF G
  <2> QED
    BY <2>1, <2>2, AlongParents DEF ArraysInv
<1> SUFFICES ASSUME NEW j \in Item
             PROVE  /\ Len(Data(j)) <= Len(Data(j)')
                    /\ \A k \in DOMAIN Data(j) : Data(j)'[k] = Data(j)[k]
  OBVIOUS
<1> DEFINE r == Roots[j]
           e == item[r]
           f == item'[r]
<1>5. r \in Item /\ Roots'[j] = r /\ e \in DataItem /\ f \in DataItem
  BY <1>1, <1>2, <1>4 DEF RootsFollow
<1>6. /\ Data(j) \in Seq(Value) /\ Len(Data(j)) = Amount(e) /\ Amount(e) \in Nat
      /\ \A k \in 1..Amount(e) : Data(j)[k] = heap[e.ptr][k]
  BY <1>2 DEF DataOfRoot
<1>7. /\ Len(Data(j)') = Amount(f) /\ Amount(f) \in Nat
      /\ \A k \in 1..Amount(f) : Data(j)'[k] = heap'[f.ptr][k]
  BY <1>2, <1>5 DEF DataOfRoot
<1>8. DOMAIN Data(j) = 1..Amount(e)
  BY <1>6
<1>9. Amount(e) <= Amount(f) /\ \A k \in 1..Amount(e) : heap'[f.ptr][k] = heap[e.ptr][k]
  <2>1. CASE r = i
    <3>1. e = item[i] /\ f = d
      BY <1>1, <2>1
    <3>2. /\ e.nitems \in Int /\ e.cap \in Nat /\ f.nitems \in Int /\ f.cap \in Nat
      BY <1>5, ArraysAssumption DEF DataItem
    <3> HIDE DEF r, e, f
    <3>3. Amount(e) <= Amount(f)
      <4>1. e.nitems <= f.nitems /\ (e.ptr # NULL => f.ptr # NULL /\ e.cap <= f.cap)
        BY <3>1 DEF Preserves
      <4> QED
        BY <1>6, <1>7, <3>2, <4>1 DEF Amount, Shorter
    <3> QED
      BY <3>1, <3>3 DEF Preserves
  <2>2. CASE r # i
    <3>1. f = e
      BY <1>1, <1>5, <2>2
    <3>2. e.ptr # NULL => heap'[e.ptr] = heap[e.ptr]
      BY <1>5, <2>2 DEF Preserves
    <3> HIDE DEF r, e, f
    <3>3. e.ptr = NULL => Amount(e) = 0
      BY DEF Amount
    <3> QED
      BY <1>6, <3>1, <3>2, <3>3
  <2> QED
    BY <2>1, <2>2
<1> HIDE DEF r, e, f
<1>10. ASSUME NEW k \in DOMAIN Data(j) PROVE Data(j)'[k] = Data(j)[k]
  <2>1. k \in 1..Amount(e) /\ k \in 1..Amount(f)
    BY <1>6, <1>7, <1>8, <1>9
  <2> QED
    BY <1>6, <1>7, <1>9, <2>1
<1> QED
  BY <1>6, <1>7, <1>9, <1>10

\* DataItem::allocate without force copies what is there and leaves the arrays of others.
LEMMA AllocateKeeps ==
    ASSUME ArraysInv, NEW i \in Item, NEW d \in DataItem, NEW b \in Block, NEW c \in 0..MaxSize,
           d.status = item[i].status, d.ptr = item[i].ptr, d.cap = item[i].cap,
           d.status \notin {"SET", "SET_CONST"},
           Reallocates(d, c, FALSE) => FreeBlock(b)
    PROVE  Preserves(NewArray(heap, d, b, c, FALSE), i, Allocated(d, b, c, FALSE))
<1> DEFINE room == Allocated(d, b, c, FALSE)
           h == NewArray(heap, d, b, c, FALSE)
<1>1. /\ item[i] \in DataItem /\ Own(item[i])
  BY ItemFacts
<1>2. /\ d.cap \in Nat /\ c \in Nat /\ MaxSize \in Nat /\ d.status \in {Unset, "ALLOCATED"}
      /\ item[i].nitems \in Int /\ b # NULL
  BY <1>1, ArraysAssumption DEF DataItem, Status, Unset
<1>3. Amount(item[i]) \in Nat /\ Amount(item[i]) <= d.cap /\ (item[i].ptr = NULL => Amount(item[i]) = 0)
  BY <1>1, <1>2 DEF Amount, Shorter
<1>4. item[i].ptr # NULL => d.status = "ALLOCATED"
  BY <1>1, <1>2 DEF Own
<1>5. CASE ~Reallocates(d, c, FALSE)
  <2>1. room = d /\ h = heap /\ d.status = "ALLOCATED"
    BY <1>2, <1>5 DEF Allocated, NewArray, Reallocates, Unset
  <2>2. \A r \in Item : r # i /\ item[r].ptr # NULL => item[r].ptr # d.ptr
    BY <2>1, OthersArray DEF Holds
  <2> HIDE DEF room, h
  <2>3. item[i].ptr # NULL => room.ptr # NULL /\ item[i].cap <= room.cap
    BY <1>2, <2>1
  <2>4. \A k \in 1..Amount(item[i]) : h[room.ptr][k] = heap[item[i].ptr][k]
    BY <2>1
  <2>5. \A r \in Item : r # i /\ item[r].ptr # NULL =>
           h[item[r].ptr] = heap[item[r].ptr] /\ item[r].ptr # room.ptr
    BY <2>1, <2>2
  <2> QED
    BY <2>3, <2>4, <2>5 DEF room, h, Preserves
<1>6. CASE Reallocates(d, c, FALSE)
  <2>1. room.cap = c /\ room.ptr = IF c = 0 THEN NULL ELSE b
    BY <1>6 DEF Allocated, DataItem
  <2>2. d.status = "ALLOCATED" => d.cap < c
    BY <1>6 DEF Reallocates
  <2>3. /\ \A a \in Array : a # b => h[a] = IF Holds(item[i], a) THEN <<>> ELSE heap[a]
        /\ d.status = "ALLOCATED" /\ c # 0 =>
                    \A k \in 1..c : k <= d.cap => h[b][k] = heap[d.ptr][k]
    <3>1. FALSE \in BOOLEAN /\ ~FALSE
      OBVIOUS
    <3> QED
      BY <1>6, <3>1, NewArrayValues, Zenon
  <2>4. heap[b] = <<>>
    BY <1>6 DEF FreeBlock
  <2> HIDE DEF room, h
  <2>5. item[i].ptr # NULL => room.ptr # NULL /\ item[i].cap <= room.cap
    BY <1>2, <1>4, <2>1, <2>2
  <2>6. ASSUME NEW k \in 1..Amount(item[i]) PROVE h[room.ptr][k] = heap[item[i].ptr][k]
    <3>1. item[i].ptr # NULL /\ k \in Nat /\ k <= d.cap /\ k # 0
      BY <1>2, <1>3
    <3>2. d.status = "ALLOCATED" /\ c # 0 /\ k \in 1..c
      BY <1>2, <1>4, <2>2, <3>1
    <3> QED
      BY <2>1, <2>3, <3>1, <3>2
  <2>7. ASSUME NEW r \in Item, r # i, item[r].ptr # NULL
        PROVE  h[item[r].ptr] = heap[item[r].ptr] /\ item[r].ptr # room.ptr
    <3>1. /\ item[r].ptr \in Array /\ ~Holds(item[i], item[r].ptr)
          /\ heap[item[r].ptr] # <<>>
      BY <2>7, OthersArray
    <3> QED
      BY <2>1, <2>3, <2>4, <2>7, <3>1
  <2> QED
    BY <2>5, <2>6, <2>7 DEF room, h, Preserves
<1> QED
  BY <1>5, <1>6

Keeps(j) == /\ Len(Data(j)) <= Len(Data(j)')
            /\ \A k \in DOMAIN Data(j) : Data(j)'[k] = Data(j)[k]

LEMMA ResizeKeeps ==
    ASSUME ArraysInv, ArraysInv', NEW i \in Item, NEW b \in Block, NEW cap \in Caps,
           resize_array(i, b, cap)
    PROVE  \A j \in Item : Keeps(j)
<1>1. PICK d \in DataItem : d = item[i] /\ d.exists
  BY ItemFacts DEF Allocate, resize_array
<1> DEFINE c == DefaultCap(i, cap)
           r == Allocated(d, b, c, FALSE)
           h == NewArray(heap, d, b, c, FALSE)
<1>2. /\ d.parent = NULL /\ c <= MaxSize
      /\ d.status \notin {"SET", "SET_CONST"}
      /\ Reallocates(d, c, FALSE) => FreeBlock(b)
      /\ item' = [item EXCEPT ![i] = r] /\ heap' = h
  BY <1>1 DEF Allocate, resize_array
<1>3. c \in 0..MaxSize
  BY <1>2, DefaultCapFacts
<1> HIDE DEF c
<1>4. /\ d.status = item[i].status /\ d.ptr = item[i].ptr /\ d.cap = item[i].cap
      /\ d.exists /\ d.parent = NULL /\ d.status \notin {"SET", "SET_CONST"}
      /\ Reallocates(d, c, FALSE) => FreeBlock(b)
  BY <1>1, <1>2
<1>5. /\ r \in DataItem /\ r.parent = NULL /\ r.nitems = d.nitems
  <2>1. FALSE \in BOOLEAN /\ (~FALSE => d.cap = item[i].cap /\ d.status \notin {"SET", "SET_CONST"})
    BY <1>4
  <2> QED
    BY <1>3, <1>4, <2>1, AllocateSettles, Zenon
<1>6. Preserves(h, i, r)
  BY <1>3, <1>4, AllocateKeeps, Zenon
<1> HIDE DEF r, h
<1>7. item[i].nitems <= r.nitems
  BY <1>1, <1>5, ArraysAssumption DEF DataItem
<1> QED
  BY <1>1, <1>2, <1>5, <1>6, <1>7, GrowthKeeps DEF Keeps

LEMMA AppendKeeps ==
    ASSUME ArraysInv, ArraysInv', NEW i \in Item, NEW b \in Block, NEW n \in Sizes,
           append_array(i, b, n), item'[i].ptr \in Block
    PROVE  \A j \in Item : Keeps(j)
<1>0. n \in Nat /\ MaxSize \in Nat
  BY ArraysAssumption
<1>1. item[i] \in DataItem /\ Own(item[i]) /\ item \in [Item -> DataItem]
  BY DEF ArraysInv
<1>2. PICK d \in DataItem, c \in 0..MaxSize, m \in Nat : Appends(i, b, n, d, c, m)
  BY AppendParts
<1> DEFINE room == Allocated(d, b, c, FALSE)
           h == NewArray(heap, d, b, c, FALSE)
           r == [room EXCEPT !.nitems = m + n]
           vs == [k \in 1..n |-> 1]
<1>3. /\ d.status = item[i].status /\ d.ptr = item[i].ptr /\ d.cap = item[i].cap
      /\ m + n <= c /\ item[i].parent = NULL /\ (Reallocates(d, c, FALSE) => FreeBlock(b))
      /\ m = IF item[i].nitems >= 0 THEN item[i].nitems ELSE 0
      /\ d.status \in {"SET", "SET_CONST"} => item' = [item EXCEPT ![i] = d]
      /\ d.status \notin {"SET", "SET_CONST"} =>
            /\ item' = [item EXCEPT ![i] = [room EXCEPT !.nitems = AppendedSize(room, n)]]
            /\ heap' = IF n = 0 THEN h ELSE Overwrite(h, room.ptr, m, vs)
  BY <1>2 DEF Appends
<1>4. d.status \notin {"SET", "SET_CONST"}
  <2>1. SUFFICES ASSUME d.status \in {"SET", "SET_CONST"} PROVE FALSE
    OBVIOUS
  <2>2. item'[i] = d
    BY <1>1, <1>3, <2>1
  <2> QED
    BY <1>1, <1>3, <2>1, <2>2, ArraysAssumption DEF Own
<1>5. HasRoom(i, h, room, m, n)
  BY <1>2, <1>4, AppendRoom
<1>6. Preserves(h, i, room)
  <2>1. /\ d.status = item[i].status /\ d.ptr = item[i].ptr /\ d.cap = item[i].cap
        /\ Reallocates(d, c, FALSE) => FreeBlock(b)
    BY <1>3
  <2> QED
    BY <1>4, <2>1, AllocateKeeps, Zenon
<1> HIDE DEF room, h
<1>7. /\ room \in DataItem /\ room.parent = NULL /\ room.nitems = m /\ room.cap \in Nat /\ Heap(h)
      /\ m + n # 0 => /\ room.ptr \in Array /\ room.ptr # NULL
                      /\ room.cap <= Len(h[room.ptr]) /\ Len(h[room.ptr]) \in Nat
  BY <1>5 DEF HasRoom
<1>8. item' = [item EXCEPT ![i] = r]
  BY <1>3, <1>4, <1>7 DEF AppendedSize
<1>9. /\ r \in DataItem /\ r.parent = NULL /\ r.ptr = room.ptr /\ r.cap = room.cap /\ r.nitems = m + n
  <2>1. m + n \in -1..MaxSize
    BY <1>0, <1>3
  <2> QED
    BY <1>7, <2>1 DEF DataItem
<1> HIDE DEF r
<1>10. /\ item[i].nitems <= r.nitems /\ item[i].nitems \in Int /\ item[i].cap \in Nat
  BY <1>0, <1>1, <1>3, <1>9 DEF DataItem
<1>11. vs \in Seq(Value) /\ m \in Int /\ Len(vs) = n
  <2>1. vs \in [1..n -> Value]
    BY DEF Value
  <2> QED
    BY <1>0, <2>1
<1> HIDE DEF vs
\* the new values come after the first m
<1>12. Preserves(heap', i, r)
  <2>1. CASE n = 0
    <3>1. heap' = h
      BY <1>3, <1>4, <2>1
    <3> QED
      BY <1>6, <1>9, <3>1 DEF Preserves
  <2>2. CASE n # 0
    <3>1. heap' = Overwrite(h, room.ptr, m, vs) /\ m + n # 0
      BY <1>0, <1>3, <1>4, <2>2
    <3>2. Written(heap', h, room.ptr, m, vs)
      BY <1>7, <1>11, <3>1, OverwriteValues
    <3>3. ASSUME NEW k \in 1..Amount(item[i]) PROVE heap'[room.ptr][k] = heap[item[i].ptr][k]
      <4>1. Amount(item[i]) \in Nat /\ Amount(item[i]) <= item[i].cap /\ Amount(item[i]) <= m
        BY <1>3, <1>10 DEF Amount, Shorter
      <4>2. item[i].ptr # NULL /\ k \in Nat /\ k # 0
        BY <3>3, <4>1 DEF Amount
      <4>3. item[i].cap <= room.cap /\ h[room.ptr][k] = heap[item[i].ptr][k]
        BY <1>6, <3>3, <4>2 DEF Preserves
      <4>4. k \in 1..Len(h[room.ptr]) /\ ~(k - m \in 1..Len(vs))
        BY <1>0, <1>7, <1>10, <1>11, <3>1, <3>3, <4>1, <4>2, <4>3
      <4> QED
        BY <3>2, <4>3, <4>4 DEF Written
    <3>4. ASSUME NEW q \in Item, q # i, item[q].ptr # NULL
          PROVE  heap'[item[q].ptr] = heap[item[q].ptr] /\ item[q].ptr # room.ptr
      <4>1. item[q].ptr \in Array
        BY <3>4, OthersArray
      <4> QED
        BY <1>6, <3>2, <3>4, <4>1 DEF Preserves, Written
    <3>5. item[i].ptr # NULL => room.ptr # NULL /\ item[i].cap <= room.cap
      BY <1>6 DEF Preserves
    <3> QED
      BY <1>9, <3>3, <3>4, <3>5 DEF Preserves
  <2> QED
    BY <2>1, <2>2
<1> QED
  BY <1>3, <1>8, <1>9, <1>10, <1>12, GrowthKeeps DEF Keeps

LEMMA GrowthStep ==
    ASSUME ArraysInv, ArraysInv', NEW i \in Supplied \cap Existing,
           \/ \E cap \in Caps : resize_array(i, item'[i].ptr, cap)
           \/ \E n \in Sizes : append_array(i, item'[i].ptr, n)
    PROVE  \A j \in Existing : /\ Len(Data(j)) <= Len(Data(j)')
                               /\ \A k \in DOMAIN Data(j) : Data(j)'[k] = Data(j)[k]
<1>1. i \in Item /\ item'[i].ptr \in Block
  BY DEF Supplied
<1>2. PICK b \in Block : b = item'[i].ptr
  BY <1>1
<1>3. \A j \in Item : Keeps(j)
  <2>1. CASE \E cap \in Caps : resize_array(i, b, cap)
    BY <1>1, <2>1, ResizeKeeps
  <2>2. CASE \E n \in Sizes : append_array(i, b, n)
    BY <1>1, <2>2, AppendKeeps
  <2> QED
    BY <1>2, <2>1, <2>2
<1> QED
  BY <1>3 DEF Keeps, Existing

\* The root of an item that does not use i is not i, and stays when only i changes.
LEMMA RootElsewhere ==
    ASSUME ArraysInv, ArraysInv', NEW i \in Item, \A k \in Item : k # i => item'[k] = item[k],
           NEW j \in Item, ~Uses(j, i)
    PROVE  Roots'[j] = Roots[j] /\ Roots[j] # i
<1>1. item \in [Item -> DataItem]
  BY DEF ArraysInv
<1>2. RootsFollow /\ RootsFollow'
  BY RootsNow, RootsAfter
<1>3. \A x \in Item : Uses(x, i) <=> x = i \/ (item[x].parent # NULL /\ Uses(item[x].parent, i))
  BY <1>1, UsesFacts
<1> DEFINE G == {k \in Item : Uses(k, i) \/ (Roots'[k] = Roots[k] /\ Roots[k] # i)}
<1>4. ASSUME NEW k \in Item, item[k].parent = NULL PROVE k \in G
  <2>1. CASE k = i
    BY <1>3, <2>1
  <2>2. CASE k # i
    BY <1>2, <1>4, <2>2 DEF RootsFollow
  <2> QED
    BY <2>1, <2>2
<1>5. ASSUME NEW k \in Item, item[k].parent # NULL, item[k].parent \in G PROVE k \in G
  <2>1. CASE Uses(k, i)
    BY <2>1
  <2>2. CASE ~Uses(k, i)
    <3>1. k # i /\ ~Uses(item[k].parent, i)
      BY <1>3, <1>5, <2>2
    <3>2. Roots'[item[k].parent] = Roots[item[k].parent] /\ Roots[item[k].parent] # i
      BY <1>5, <3>1
    <3> QED
      BY <1>2, <1>5, <3>1, <3>2 DEF RootsFollow
  <2> QED
    BY <2>1, <2>2
<1>6. \A k \in Item : k \in G
  <2> HIDE DEF G
  <2> QED
    BY <1>4, <1>5, AlongParents DEF ArraysInv
<1> QED
  BY <1>6

LEMMA SameValues ==
    ASSUME NEW s \in Seq(Value), NEW t \in Seq(Value), Len(s) = Len(t),
           \A k \in 1..Len(s) : s[k] = t[k]
    PROVE  s = t
  BY SeqEqual

LEMMA CloneStep ==
    ASSUME ArraysInv, ArraysInv', NEW i \in Supplied, NEW j \in Existing, pointer(j) # NULL,
           clone_dataitem(i, j, item'[i].ptr)
    PROVE  Data(j)' = Data(j) /\ Data(i)' = Data(j)
<1>1. i \in Item /\ j \in Item /\ item \in [Item -> DataItem] /\ MaxSize \in Nat
  BY ArraysAssumption DEF Supplied, Existing, ArraysInv
<1>2. PICK b \in Block : b = item'[i].ptr
  BY DEF Supplied
<1>3. PICK d \in DataItem, n \in 0..MaxSize : Clones(i, j, b, d, n)
  BY <1>1, <1>2, CloneParts
<1> DEFINE h == NewArray(heap, d, b, d.cap, TRUE)
           new == Allocated(d, b, d.cap, TRUE)
           p == pointer(j)
           e == item[root(j)]
<1>4. /\ p = e.ptr /\ root(j) \in Item /\ initialized(j) /\ e.cap # 0 /\ e.cap <= Len(heap[p])
      /\ heap[p] \in Seq(Value) /\ p \in Array
      /\ size_of_items(j) = IF e.nitems >= 0 THEN e.nitems ELSE 0
  BY <1>1, Answers
<1>5. n \in Nat /\ e \in DataItem /\ e.cap \in Nat /\ e.nitems \in Int /\ Len(heap[p]) \in Nat
      /\ b \in Array /\ b # NULL
  BY <1>1, <1>4, ArraysAssumption DEF DataItem, Array
<1>6. /\ d.exists /\ d.parent = NULL /\ d.cap = e.cap /\ d.nitems = n
      /\ d.status = item[i].status /\ d.ptr = item[i].ptr /\ FreeBlock(b) /\ ~Uses(j, i)
      /\ n = IF e.nitems >= 0 THEN e.nitems ELSE 0
  BY <1>3, <1>4 DEF Clones
\* the sizes were not refused: the item would still be without an array
<1>7. n <= d.cap
  <2>1. SUFFICES ASSUME ~(n <= d.cap) PROVE FALSE
    OBVIOUS
  <2>2. item' = [item EXCEPT ![i] = d] /\ d.status = Unset
    BY <1>3, <1>4, <2>1 DEF Clones
  <2>3. item'[i] = d /\ d.ptr = NULL
    BY <1>1, <1>6, <2>2, ItemFacts DEF Own
  <2> QED
    BY <1>2, <1>5, <2>3
<1>8. /\ item' = [item EXCEPT ![i] = new]
      /\ heap' = IF n = 0 THEN h ELSE Overwrite(h, new.ptr, 0, Values(j, n))
  BY <1>3, <1>4, <1>7 DEF Clones
<1>9. d.cap \in 0..MaxSize /\ d.cap # 0
  BY <1>4, <1>6 DEF DataItem
<1>10. /\ new.ptr = b /\ new.cap = e.cap /\ new.nitems = n /\ new.parent = NULL
  BY <1>6, <1>9 DEF Allocated, Reallocates, DataItem
<1>11. /\ Settled(heap, h, item[i], new) /\ new \in DataItem
       /\ \A a \in Array : a # b => h[a] = IF Holds(item[i], a) THEN <<>> ELSE heap[a]
  <2>1. /\ TRUE \in BOOLEAN /\ (Reallocates(d, d.cap, TRUE) => FreeBlock(b))
        /\ (~TRUE => d.cap = item[i].cap /\ d.status \notin {"SET", "SET_CONST"})
        /\ Reallocates(d, d.cap, TRUE)
    BY <1>6 DEF Reallocates
  <2>2. d.exists /\ d.parent = NULL /\ d.status = item[i].status /\ d.ptr = item[i].ptr
    BY <1>6
  <2>3. Settled(heap, h, item[i], new) /\ new \in DataItem
    BY <1>1, <1>9, <2>1, <2>2, AllocateSettles, Zenon
  <2>4. \A a \in Array : a # b => h[a] = IF Holds(item[i], a) THEN <<>> ELSE heap[a]
    BY <1>1, <1>9, <2>1, <2>2, NewArrayValues, Zenon
  <2> QED
    BY <2>3, <2>4
<1> HIDE DEF h, new, e
<1>12. /\ Heap(h) /\ e.cap <= Len(h[b]) /\ Len(h[b]) \in Nat
  <2>1. Heap(h) /\ e.cap <= Len(h[b])
    BY <1>5, <1>10, <1>11 DEF Settled
  <2> QED
    BY <1>5, <2>1 DEF Heap
<1>13. /\ Values(j, n) \in Seq(Value) /\ Len(Values(j, n)) = n
       /\ \A k \in 1..n : Values(j, n)[k] = heap[p][k]
  <2> DEFINE s == heap[p]
  <2>1. n <= Len(s)
    BY <1>4, <1>5, <1>6, <1>7
  <2>2. Values(j, n) = SubSeq(s, 1, n)
    <3>1. n \in Int /\ Len(s) \in Int
      BY <1>5
    <3>2. Min({n, Len(s)}) = IF n <= Len(s) THEN n ELSE Len(s)
      BY <3>1, MaxMin, Zenon
    <3> QED
      BY <2>1, <3>2 DEF Values
  <2>3. s \in Seq(Value)
    BY <1>4
  <2> HIDE DEF s
  <2>4. SubSeq(s, 1, n) \in Seq(Value) /\ Len(SubSeq(s, 1, n)) = n
        /\ \A k \in 1..n : SubSeq(s, 1, n)[k] = s[k]
    BY <1>5, <2>1, <2>3
  <2> QED
    BY <2>2, <2>4 DEF s
<1> HIDE DEF p
<1>14. (\A k \in Item : k # i => item'[k] = item[k]) /\ item'[i] = new
  BY <1>1, <1>8
<1>15. Roots'[j] = Roots[j] /\ Roots[j] # i
  BY <1>1, <1>6, <1>14, RootElsewhere
<1>16. /\ \A x \in Array : x # b => heap'[x] = h[x]
       /\ \A k \in 1..n : heap'[b][k] = heap[p][k]
  <2>1. CASE n = 0
    BY <1>8, <2>1
  <2>2. CASE n # 0
    <3>1. heap' = Overwrite(h, b, 0, Values(j, n)) /\ 0 \in Int
      BY <1>8, <1>10, <2>2
    <3>2. Written(heap', h, b, 0, Values(j, n))
      BY <1>5, <1>12, <1>13, <3>1, OverwriteValues
    <3>3. ASSUME NEW k \in 1..n PROVE heap'[b][k] = heap[p][k]
      <4>1. k \in 1..Len(h[b]) /\ k - 0 \in 1..Len(Values(j, n)) /\ k - 0 = k
        BY <1>5, <1>6, <1>7, <1>12, <1>13
      <4> QED
        BY <1>13, <3>2, <3>3, <4>1 DEF Written
    <3> QED
      BY <3>2, <3>3 DEF Written
  <2> QED
    BY <2>1, <2>2
<1>17. heap'[p] = heap[p]
  <2>1. p = item[Roots[j]].ptr /\ Roots[j] \in Item /\ p # NULL
    BY <1>4, ArraysAssumption DEF e, root, Array
  <2>2. ~Holds(item[i], p) /\ heap[p] # <<>>
    BY <1>1, <1>15, <2>1, OthersArray
  <2>3. p # b
    BY <1>6, <2>2 DEF FreeBlock
  <2> QED
    BY <1>4, <1>11, <1>16, <2>2, <2>3
<1>18. DataOfRoot /\ DataOfRoot' /\ RootsFollow' /\ RootsFollow
  BY RootsNow, RootsAfter, DataIsRoots, DataIsRootsAfter
<1>19. Roots'[i] = i
  BY <1>1, <1>10, <1>14, <1>18 DEF RootsFollow
<1>20. Amount(e) = n /\ Amount(new) = n
  <2>1. p # NULL
    BY <1>4, ArraysAssumption DEF Array
  <2> QED
    BY <1>4, <1>5, <1>6, <1>7, <1>10, <2>1 DEF Amount, Shorter
<1>21. /\ item[Roots[j]] = e /\ item'[Roots'[j]] = e /\ item'[Roots'[i]] = new
  BY <1>4, <1>14, <1>15, <1>19 DEF e, root
<1>22. /\ Data(j) \in Seq(Value) /\ Len(Data(j)) = n
       /\ \A k \in 1..n : Data(j)[k] = heap[p][k]
  <2>1. /\ Data(j) \in Seq(Value) /\ Len(Data(j)) = Amount(item[Roots[j]])
        /\ \A k \in 1..Amount(item[Roots[j]]) : Data(j)[k] = heap[item[Roots[j]].ptr][k]
    BY <1>1, <1>18 DEF DataOfRoot
  <2> QED
    BY <1>4, <1>20, <1>21, <2>1
<1>23. /\ Data(j)' \in Seq(Value) /\ Len(Data(j)') = n
       /\ \A k \in 1..n : Data(j)'[k] = heap[p][k]
  <2>1. /\ Data(j)' \in Seq(Value) /\ Len(Data(j)') = Amount(item'[Roots'[j]])
        /\ \A k \in 1..Amount(item'[Roots'[j]]) : Data(j)'[k] = heap'[item'[Roots'[j]].ptr][k]
    BY <1>1, <1>18 DEF DataOfRoot
  <2> QED
    BY <1>4, <1>17, <1>20, <1>21, <2>1
<1>24. /\ Data(i)' \in Seq(Value) /\ Len(Data(i)') = n
       /\ \A k \in 1..n : Data(i)'[k] = heap[p][k]
  <2>1. /\ Data(i)' \in Seq(Value) /\ Len(Data(i)') = Amount(item'[Roots'[i]])
        /\ \A k \in 1..Amount(item'[Roots'[i]]) : Data(i)'[k] = heap'[item'[Roots'[i]].ptr][k]
    BY <1>1, <1>18 DEF DataOfRoot
  <2> QED
    BY <1>10, <1>16, <1>20, <1>21, <2>1
<1> QED
  BY <1>22, <1>23, <1>24, SameValues

\* An array that may be written to is one the client has set, not as constant.
Writable(a) == \E i \in Existing : item[i].ptr = a /\ item[i].status = "SET"

\* The client arrays after an allocation: COM writes to blocks only.
LEMMA AllocateSpares ==
    ASSUME ArraysInv, NEW i \in Item, NEW d \in DataItem, NEW b \in Block, NEW c \in 0..MaxSize,
           NEW force \in BOOLEAN, d.status = item[i].status, d.ptr = item[i].ptr
    PROVE  \A a \in ClientArray : NewArray(heap, d, b, c, force)[a] = heap[a]
<1> DEFINE h == NewArray(heap, d, b, c, force)
<1>1. CASE ~Reallocates(d, c, force)
  BY <1>1 DEF NewArray
<1>2. CASE Reallocates(d, c, force)
  <2>1. \A a \in Array : a # b => h[a] = IF Holds(item[i], a) THEN <<>> ELSE heap[a]
    BY <1>2, NewArrayValues, Zenon
  <2>2. \A a \in ClientArray : a \in Array /\ a # b /\ ~Holds(item[i], a)
    BY ItemFacts, ArraysAssumption DEF Array, Own, Holds
  <2> HIDE DEF h
  <2> QED
    BY <2>1, <2>2 DEF h
<1> QED
  BY <1>1, <1>2

LEMMA DeleteSpares ==
    ASSUME ArraysInv, NEW i \in Item, NEW d, d.status = item[i].status, d.ptr = item[i].ptr
    PROVE  \A a \in ClientArray : Delete(heap, d)[a] = heap[a]
<1>1. /\ \A a \in Array : Delete(heap, d)[a] = IF Holds(item[i], a) THEN <<>> ELSE heap[a]
      /\ \A a \in Array : Holds(item[i], a) => a \in Block
  BY DeleteFacts
<1> QED
  BY <1>1, ArraysAssumption DEF Array

\* What goes through the array of an item that is not constant is allowed.
LEMMA WrittenThrough ==
    ASSUME ArraysInv, NEW i \in Item, pointer(i) # NULL, ~is_const(i), NEW vs \in Seq(Value),
           NEW a \in ClientArray, Overwrite(heap, pointer(i), 0, vs)[a] # heap[a]
    PROVE  Writable(a)
<1> DEFINE e == item[root(i)]
           p == pointer(i)
<1>1. root(i) \in Item /\ p = e.ptr /\ p \in Array /\ e \in DataItem /\ Own(e)
  <2>1. root(i) \in Item /\ p = e.ptr /\ p \in Array
    BY Answers
  <2> QED
    BY <2>1, ItemFacts
<1>2. Heap(heap) /\ 0 \in Int /\ a \in Array
  BY DEF Array, ArraysInv
<1>3. p = a
  <2>1. Written(Overwrite(heap, p, 0, vs), heap, p, 0, vs)
    BY <1>1, <1>2, OverwriteValues, Zenon
  <2> QED
    BY <1>2, <2>1 DEF Written
<1>4. e.status = "SET"
  BY <1>1, <1>3, ArraysAssumption DEF is_const, Own, DataItem, Status, Unset
<1>5. e.exists
  BY <1>1, <1>4, NoItemFacts DEF Own, Unset
<1> QED
  BY <1>1, <1>3, <1>4, <1>5 DEF Writable, Existing, p, e

Spared == \A a \in ClientArray : heap'[a] # heap[a] => Writable(a)

LEMMA SparedByAllocate ==
    ASSUME ArraysInv, NEW i \in Item, NEW b \in Block, NEW cap \in Caps, NEW force \in BOOLEAN,
           Allocate(i, b, cap, force)
    PROVE  Spared
<1>1. PICK d \in DataItem : d = item[i]
  BY ItemFacts
<1> DEFINE c == DefaultCap(i, cap)
<1>2. c <= MaxSize /\ heap' = NewArray(heap, d, b, c, force)
  BY <1>1 DEF Allocate
<1>3. c \in 0..MaxSize
  BY <1>2, DefaultCapFacts
<1> HIDE DEF c
<1>4. \A a \in ClientArray : heap'[a] = heap[a]
  BY <1>1, <1>2, <1>3, AllocateSpares
<1> QED
  BY <1>4 DEF Spared

LEMMA SparedByAppend ==
    ASSUME ArraysInv, NEW i \in Item, NEW b \in Block, NEW n \in Sizes, append_array(i, b, n)
    PROVE  Spared
<1>1. PICK d \in DataItem, c \in 0..MaxSize, m \in Nat : Appends(i, b, n, d, c, m)
  BY AppendParts
<1> DEFINE room == Allocated(d, b, c, FALSE)
           h == NewArray(heap, d, b, c, FALSE)
           vs == [k \in 1..n |-> 1]
<1>2. /\ d.status = item[i].status /\ d.ptr = item[i].ptr
      /\ d.status \in {"SET", "SET_CONST"} => heap' = heap
      /\ d.status \notin {"SET", "SET_CONST"} =>
            heap' = IF n = 0 THEN h ELSE Overwrite(h, room.ptr, m, vs)
  BY <1>1 DEF Appends
<1>3. \A a \in ClientArray : h[a] = heap[a]
  <2>1. FALSE \in BOOLEAN /\ d.status = item[i].status /\ d.ptr = item[i].ptr
    BY <1>2
  <2> QED
    BY <2>1, AllocateSpares, Zenon
<1>4. CASE d.status \in {"SET", "SET_CONST"}
  BY <1>2, <1>4 DEF Spared
<1>5. CASE d.status \notin {"SET", "SET_CONST"}
  <2>1. HasRoom(i, h, room, m, n)
    BY <1>1, <1>5, AppendRoom
  <2> HIDE DEF room, h
  <2>2. CASE n = 0
    BY <1>2, <1>3, <1>5, <2>2 DEF Spared
  <2>3. CASE n # 0
    <3>1. n \in Nat
      BY ArraysAssumption
    <3>2. heap' = Overwrite(h, room.ptr, m, vs) /\ vs \in Seq(Value) /\ m \in Int /\ m + n # 0
      BY <1>2, <1>5, <2>3, <3>1, OnesFacts
    <3>3. room.ptr \in Block /\ room.ptr \in Array /\ Heap(h)
      BY <2>1, <3>2 DEF HasRoom
    <3> HIDE DEF vs
    <3>4. Written(heap', h, room.ptr, m, vs)
      BY <3>2, <3>3, OverwriteValues
    <3> QED
      BY <1>3, <3>3, <3>4, ArraysAssumption DEF Written, Spared, Array
  <2> QED
    BY <2>2, <2>3
<1> QED
  BY <1>4, <1>5

LEMMA SparedByClone ==
    ASSUME ArraysInv, NEW i \in Item, NEW j \in Item, NEW b \in Block, clone_dataitem(i, j, b)
    PROVE  Spared
<1>1. PICK d \in DataItem, n \in 0..MaxSize : Clones(i, j, b, d, n)
  BY CloneParts
<1> DEFINE new == Allocated(d, b, d.cap, TRUE)
           h == NewArray(heap, d, b, d.cap, TRUE)
<1>2. /\ d.exists /\ d.parent = NULL /\ d.status = item[i].status /\ d.ptr = item[i].ptr /\ FreeBlock(b)
      /\ ~initialized(j) => heap' = Delete(heap, d)
      /\ initialized(j) /\ ~(n <= d.cap) => heap' = heap
      /\ initialized(j) /\ n <= d.cap =>
            heap' = IF n = 0 \/ pointer(j) = NULL THEN h ELSE Overwrite(h, new.ptr, 0, Values(j, n))
  BY <1>1 DEF Clones
<1>3. d.cap \in 0..MaxSize /\ n \in Nat /\ MaxSize \in Nat
  BY ArraysAssumption DEF DataItem
<1>4. \A a \in ClientArray : Delete(heap, d)[a] = heap[a]
  BY <1>2, DeleteSpares
<1>5. \A a \in ClientArray : h[a] = heap[a]
  <2>1. TRUE \in BOOLEAN /\ d.status = item[i].status /\ d.ptr = item[i].ptr
    BY <1>2
  <2> QED
    BY <1>3, <2>1, AllocateSpares, Zenon
<1>6. CASE ~initialized(j) \/ ~(n <= d.cap)
  BY <1>2, <1>4, <1>6 DEF Spared
<1>7. CASE initialized(j) /\ n <= d.cap /\ (n = 0 \/ pointer(j) = NULL)
  <2> HIDE DEF h
  <2> QED
    BY <1>2, <1>5, <1>7 DEF Spared
<1>8. CASE initialized(j) /\ n <= d.cap /\ ~(n = 0 \/ pointer(j) = NULL)
  <2>1. /\ Settled(heap, h, item[i], new)
    <3>1. /\ TRUE \in BOOLEAN /\ (Reallocates(d, d.cap, TRUE) => FreeBlock(b))
          /\ (~TRUE => d.cap = item[i].cap /\ d.status \notin {"SET", "SET_CONST"})
          /\ d.exists /\ d.parent = NULL /\ d.status = item[i].status /\ d.ptr = item[i].ptr
      BY <1>2
    <3> QED
      BY <1>3, <3>1, AllocateSettles, Zenon
  <2>2. d.cap # 0
    BY <1>3, <1>8
  <2>3. new.ptr = b
    BY <2>2 DEF Allocated, Reallocates, DataItem
  <2> HIDE DEF h, new
  <2>4. heap' = Overwrite(h, b, 0, Values(j, n)) /\ 0 \in Int /\ b \in Array /\ Heap(h)
    BY <1>2, <1>8, <2>1, <2>3 DEF Array, Settled
  <2>5. Values(j, n) \in Seq(Value)
    BY <1>3, <1>8, ValuesFacts
  <2>6. Written(heap', h, b, 0, Values(j, n))
    BY <2>4, <2>5, OverwriteValues
  <2> QED
    BY <1>5, <2>6, ArraysAssumption DEF Written, Spared, Array
<1> QED
  BY <1>6, <1>7, <1>8

LEMMA SparedByCopy ==
    ASSUME ArraysInv, NEW i \in Item, NEW j \in Item, copy_dataitem(i, j)
    PROVE  Spared
<1> DEFINE n == size_of_items(j)
<1>1. /\ pointer(i) # NULL /\ pointer(j) # NULL /\ ~is_const(i)
      /\ heap' = heap \/ heap' = Overwrite(heap, pointer(i), 0, Values(j, n))
  BY DEF copy_dataitem
<1>2. n \in Nat
  BY Answers, ArraysAssumption
<1> HIDE DEF n
<1>3. Values(j, n) \in Seq(Value)
  BY <1>1, <1>2, ValuesFacts
<1> QED
  BY <1>1, <1>3, WrittenThrough DEF Spared

LEMMA SparedByClient == ASSUME ArraysInv, NEW i \in Item, ClientWrites(i) PROVE Spared
<1> DEFINE n == Min({size_of_items(i), capacity(i)})
           vs == [k \in 1..n |-> 1]
<1>1. pointer(i) # NULL /\ ~is_const(i) /\ heap' = Overwrite(heap, pointer(i), 0, vs)
  BY DEF ClientWrites
<1>2. n \in Nat
  <2>1. size_of_items(i) \in 0..MaxSize /\ capacity(i) \in 0..MaxSize
    BY Answers
  <2>2. size_of_items(i) \in Int /\ capacity(i) \in Int
    BY <2>1
  <2>3. n = IF size_of_items(i) <= capacity(i) THEN size_of_items(i) ELSE capacity(i)
    BY <2>2, MaxMin, Zenon
  <2> QED
    BY <2>1, <2>3
<1> HIDE DEF n
<1>3. vs \in Seq(Value)
  BY <1>2, OnesFacts
<1> HIDE DEF vs
<1> QED
  BY <1>1, <1>3, WrittenThrough DEF Spared

LEMMA SparedStep == ASSUME ArraysInv, Next PROVE Spared
<1>1. PICK i \in Item :
          \/ new_dataitem(i)
          \/ delete_dataitem(i)
          \/ \E n \in Sizes : set_size(i, n)
          \/ \E a \in ClientArray, cap \in Caps, const \in BOOLEAN : set_array(i, a, cap, const)
          \/ \E b \in Block, cap \in Caps : alloc_array(i, b, cap)
          \/ \E b \in Block, cap \in Caps : resize_array(i, b, cap)
          \/ \E b \in Block, n \in Sizes : append_array(i, b, n)
          \/ dealloc_array(i)
          \/ \E j \in Item : use_dataitem(i, j)
          \/ \E j \in Item, b \in Block : clone_dataitem(i, j, b)
          \/ \E j \in Item : copy_dataitem(i, j)
          \/ copy_array(i)
          \/ ClientWrites(i)
  BY DEF Next
<1>2. CASE new_dataitem(i) \/ (\E n \in Sizes : set_size(i, n)) \/ copy_array(i)
           \/ \E j \in Item : use_dataitem(i, j)
  BY <1>2 DEF new_dataitem, set_size, copy_array, use_dataitem, Spared
<1>3. CASE delete_dataitem(i) \/ dealloc_array(i)
           \/ \E a \in ClientArray, cap \in Caps, const \in BOOLEAN : set_array(i, a, cap, const)
  <2>1. heap' = heap \/ heap' = Delete(heap, item[i])
    BY <1>3 DEF delete_dataitem, dealloc_array, set_array
  <2> QED
    BY <2>1, DeleteSpares DEF Spared
<1>4. CASE \/ \E b \in Block, cap \in Caps : alloc_array(i, b, cap)
           \/ \E b \in Block, cap \in Caps : resize_array(i, b, cap)
  <2>1. PICK b \in Block, cap \in Caps, force \in BOOLEAN : Allocate(i, b, cap, force)
    BY <1>4 DEF alloc_array, resize_array
  <2> QED
    BY <2>1, SparedByAllocate
<1>5. CASE \E b \in Block, n \in Sizes : append_array(i, b, n)
  BY <1>5, SparedByAppend
<1>6. CASE \E j \in Item, b \in Block : clone_dataitem(i, j, b)
  BY <1>6, SparedByClone
<1>7. CASE (\E j \in Item : copy_dataitem(i, j)) \/ ClientWrites(i)
  BY <1>7, SparedByCopy, SparedByClient
<1> QED
  BY <1>1, <1>2, <1>3, <1>4, <1>5, <1>6, <1>7

\* DataItem::allocate, Pane::inherit and the copies: values change only where a
\* call says so.  Growing an array keeps them for the item and all that use it, a
\* clone has those of its source and leaves the source alone, and no array that
\* the client registered as constant is written to.
THEOREM ValuesKeptHolds == Spec => ValuesKept
<1>1. ArraysInv /\ ArraysInv' /\ [Next]_vars =>
        [(\E i \in Supplied \cap Existing :
            \/ \E cap \in Caps : resize_array(i, item'[i].ptr, cap)
            \/ \E n \in Sizes : append_array(i, item'[i].ptr, n))
         => \A j \in Existing :
              /\ Len(Data(j)) <= Len(Data(j)')
              /\ \A k \in DOMAIN Data(j) : Data(j)'[k] = Data(j)[k]]_vars
  BY GrowthStep
<1>2. ArraysInv /\ ArraysInv' /\ [Next]_vars =>
        [\A i \in Supplied, j \in {k \in Existing : pointer(k) # NULL} :
           clone_dataitem(i, j, item'[i].ptr) => Data(j)' = Data(j) /\ Data(i)' = Data(j)]_vars
  BY CloneStep
<1>3. ArraysInv /\ ArraysInv' /\ [Next]_vars =>
        [\A a \in ClientArray : heap'[a] # heap[a] =>
            \E i \in Existing : item[i].ptr = a /\ item[i].status = "SET"]_vars
  BY SparedStep DEF Spared, Writable
<1> QED
  BY <1>1, <1>2, <1>3, ArraysInvariant, PTL
     DEF Spec, ValuesKept, GrowthKeepsData, CloneCopies, ConstArraysKept

------------------------------------------------------------------------------
(* Meshes: sums over the tables, of which there are three at most          *)

\* The sum of the first n of three counts
Added(f, n) == (IF n >= 1 THEN f[1] ELSE 0) + (IF n >= 2 THEN f[2] ELSE 0) + IF n >= 3 THEN f[3] ELSE 0

\* g is what the fold over the tables computes for each set of them.
Summing(g, f, S) == g = [s \in SUBSET S |-> IF s = {} THEN 0 ELSE g[s \ {Max(s)}] + f[Max(s)]]

\* What table i adds to the sum over the tables in s
Member(s, f, i) == IF i \in s THEN f[i] ELSE 0

\* The last of at most three tables
LEMMA MaxOfSome ==
    ASSUME NEW s \in SUBSET (1..3), s # {}
    PROVE  /\ Max(s) = IF 3 \in s THEN 3 ELSE IF 2 \in s THEN 2 ELSE 1
           /\ Max(s) \in s
<1> DEFINE m == IF 3 \in s THEN 3 ELSE IF 2 \in s THEN 2 ELSE 1
<1>1. \A x \in s : x = 1 \/ x = 2 \/ x = 3
  OBVIOUS
<1>2. m \in s /\ \A y \in s : m >= y
  <2>1. CASE 3 \in s
    BY <1>1, <2>1
  <2>2. CASE 3 \notin s /\ 2 \in s
    BY <1>1, <2>2
  <2>3. CASE 3 \notin s /\ 2 \notin s
    <3>1. \A x \in s : x = 1
      BY <1>1, <2>3
    <3>2. 1 \in s
      BY <3>1
    <3>3. m = 1
      BY <2>3
    <3> HIDE DEF m
    <3> QED
      BY <3>1, <3>2, <3>3
  <2> QED
    BY <2>1, <2>2, <2>3
<1>3. \A x \in s : (\A y \in s : x >= y) => x = m
  BY <1>1, <1>2
<1>4. Max(s) \in s /\ \A y \in s : Max(s) >= y
  BY <1>2 DEF Max
<1> QED
  BY <1>3, <1>4

\* The fold over at most three tables is defined for every set of them.
LEMMA SummingExists ==
    ASSUME NEW n \in 0..3, NEW f, \A i \in 1..n : f[i] \in Int
    PROVE  \E g : Summing(g, f, 1..n)
<1> DEFINE g == [s \in SUBSET (1..n) |-> Member(s, f, 1) + Member(s, f, 2) + Member(s, f, 3)]
<1>1. ASSUME NEW s \in SUBSET (1..n), s # {} PROVE g[s] = g[s \ {Max(s)}] + f[Max(s)]
  <2>1. s \in SUBSET (1..3)
    BY <1>1
  <2>2. Max(s) \in s /\ Max(s) = IF 3 \in s THEN 3 ELSE IF 2 \in s THEN 2 ELSE 1
    BY <1>1, <2>1, MaxOfSome
  <2>3. PICK m \in s : m = Max(s)
    BY <2>2
  <2>4. s \ {m} \in SUBSET (1..n)
    OBVIOUS
  <2>5. \A i : i \in s => f[i] \in Int
    OBVIOUS
  <2>6. /\ g[s] = Member(s, f, 1) + Member(s, f, 2) + Member(s, f, 3)
        /\ g[s \ {m}] = Member(s \ {m}, f, 1) + Member(s \ {m}, f, 2) + Member(s \ {m}, f, 3)
    BY <2>4
  <2>7. m = 1 \/ m = 2 \/ m = 3
    BY <2>1, <2>3
  <2>8. /\ \A i : Member(s, f, i) \in Int /\ Member(s \ {m}, f, i) \in Int
        /\ \A i : Member(s, f, i) = Member(s \ {m}, f, i) + IF i = m THEN f[m] ELSE 0
    BY <2>3, <2>5 DEF Member
  <2> HIDE DEF g
  <2>9. f[m] \in Int
    BY <2>3, <2>5
  <2>10. g[s] = g[s \ {m}] + f[m]
    <3>1. CASE m = 1
      BY <2>6, <2>8, <2>9, <3>1
    <3>2. CASE m = 2
      BY <2>6, <2>8, <2>9, <3>2
    <3>3. CASE m = 3
      BY <2>6, <2>8, <2>9, <3>3
    <3> QED
      BY <2>7, <3>1, <3>2, <3>3
  <2> QED
    BY <2>3, <2>10
<1>2. g[{}] = 0
  <2>1. {} \in SUBSET (1..n)
    OBVIOUS
  <2> QED
    BY <2>1 DEF Member
<1>3. g = [s \in SUBSET (1..n) |-> g[s]]
  OBVIOUS
<1> HIDE DEF g
<1>4. Summing(g, f, 1..n)
  BY <1>1, <1>2, <1>3 DEF Summing
<1> QED
  BY <1>4

\* Sum, which refresh_connectivity() takes over its tables, adds them all up.
LEMMA SumIs ==
    ASSUME NEW n \in 0..3, NEW f, DOMAIN f = 1..n, \A i \in 1..n : f[i] \in Int
    PROVE  Sum(f) = Added(f, n)
<1> DEFINE iter[s \in SUBSET (1..n)] == IF s = {} THEN 0 ELSE iter[s \ {Max(s)}] + f[Max(s)]
<1>1. Sum(f) = iter[1..n]
  BY DEF Sum, FoldLeft, MapThenFoldSet
<1>2. \E g : Summing(g, f, 1..n)
  BY SummingExists
<1>3. Summing(iter, f, 1..n)
  BY <1>2 DEF Summing
<1> HIDE DEF iter
<1>4. /\ iter[{}] = 0
      /\ \A s \in SUBSET (1..n) : s # {} => iter[s] = iter[s \ {Max(s)}] + f[Max(s)]
  <2>1. {} \in SUBSET (1..n)
    OBVIOUS
  <2> QED
    BY <1>3, <2>1 DEF Summing
<1>5. n >= 1 => iter[1..1] = f[1]
  <2>1. Max(1..1) = 1
    BY MaxOfSome
  <2>2. (1..1) \ {1} = {} /\ 1..1 # {} /\ 1 \in 1..1
    OBVIOUS
  <2>3. n >= 1 => 1..1 \in SUBSET (1..n) /\ f[1] \in Int
    OBVIOUS
  <2>4. n >= 1 => iter[1..1] = iter[{}] + f[1]
    BY <1>4, <2>1, <2>2, <2>3
  <2> QED
    BY <1>4, <2>3, <2>4
<1>6. n >= 2 => iter[1..2] = f[1] + f[2]
  <2>1. Max(1..2) = 2
    BY MaxOfSome
  <2>2. (1..2) \ {2} = 1..1 /\ 1..2 # {} /\ 2 \in 1..2
    OBVIOUS
  <2>3. n >= 2 => 1..2 \in SUBSET (1..n) /\ f[2] \in Int /\ n >= 1
    OBVIOUS
  <2>4. n >= 2 => iter[1..2] = iter[1..1] + f[2]
    BY <1>4, <2>1, <2>2, <2>3
  <2> QED
    BY <1>5, <2>3, <2>4
<1>7. n >= 3 => iter[1..3] = f[1] + f[2] + f[3]
  <2>1. Max(1..3) = 3
    BY MaxOfSome
  <2>2. (1..3) \ {3} = 1..2 /\ 1..3 # {} /\ 3 \in 1..3
    OBVIOUS
  <2>3. n >= 3 => 1..3 \in SUBSET (1..n) /\ f[3] \in Int /\ n >= 2
    OBVIOUS
  <2>4. n >= 3 => iter[1..3] = iter[1..2] + f[3]
    BY <1>4, <2>1, <2>2, <2>3
  <2> QED
    BY <1>6, <2>3, <2>4
<1>8. CASE n = 0
  BY <1>1, <1>4, <1>8 DEF Added
<1>9. CASE n = 1
  BY <1>1, <1>5, <1>9 DEF Added
<1>10. CASE n = 2
  BY <1>1, <1>6, <1>10 DEF Added
<1>11. CASE n = 3
  BY <1>1, <1>7, <1>11 DEF Added
<1> QED
  BY <1>8, <1>9, <1>10, <1>11

------------------------------------------------------------------------------
(* The invariant of meshes *)

\* Types: a table, and a pane with its tables
Kinds == Range(TableNames) \cup {"st2"}
Sizes2 == [nitems : Int, ngitems : Int]
Table == [name : Kinds, nitems : Int, ngitems : Int, dims : Dims \cup {<<>>}, offset : Int]
PaneState == [tables : Seq(Table), parent : Pane \cup {NoPane}, ignore_ghost : BOOLEAN, conn : Sizes2, nc : Sizes2]

\* The sizes of a table suit its kind.
Sized(t) ==
    /\ t.name = "st2" => t.ngitems \in 0..1
    /\ t.name # "st2" => t.nitems \in Nat /\ t.ngitems \in 0..t.nitems
    /\ t.name = "t3" => t.ngitems = 0
    /\ t.name = "v3" => t.ngitems = t.nitems

\* The order in which a client makes tables; one of a structured mesh is alone.
Order(name) == IF name = "t3" THEN 1 ELSE IF name = "q4" THEN 2 ELSE 3
Shaped(ts) ==
    /\ \A k \in DOMAIN ts : Sized(ts[k])
    /\ \A k \in DOMAIN ts : ts[k].name = "st2" => Len(ts) = 1
    /\ \A j, k \in DOMAIN ts : j < k => Order(ts[j].name) < Order(ts[k].name)

\* Elements and ghosts of the tables, as the pane that has them counts
Elements(ts, ignore) == [k \in DOMAIN ts |-> size_of_elements(ts[k], ignore)]
Reals(ts) == [k \in DOMAIN ts |-> real_items(ts[k])]
Ghosts(ts, ignore) == [k \in DOMAIN ts |-> size_of_ghost_elements(ts[k], ts[k], ignore)]

\* Offsets, conn and nc are what refresh_connectivity() makes of the tables.
Counted(P) ==
    LET ts == P.tables
        e == Elements(ts, P.ignore_ghost)
    IN /\ \A k \in DOMAIN ts : ts[k].offset = Added(e, k - 1)
       /\ P.conn = [nitems |-> Added(e, Len(ts)), ngitems |-> Added(Ghosts(ts, P.ignore_ghost), Len(ts))]
       /\ is_structured(P) =>
            P.nc = [nitems |-> NodesWithin(ts[1].dims, 0),
                    ngitems |-> NodesWithin(ts[1].dims, 0) - NodesWithin(ts[1].dims, ts[1].ngitems)]

\* Q has the tables of P, and its ghost layers.
Mirrors(ts, us) ==
    /\ Len(ts) = Len(us)
    /\ \A k \in DOMAIN ts : /\ ts[k].name = us[k].name
                            /\ ts[k].name = "st2" => ts[k].ngitems = us[k].ngitems

\* Nobody ignores ghost layers.
LayersKept(P) == P.ignore_ghost => \A k \in DOMAIN P.tables : P.tables[k].name = "st2" => P.tables[k].ngitems = 0

\* The chains of parents end.
MeshDescends(d) == \A p \in Pane : pane[p].parent # NoPane => d[pane[p].parent] < d[p]
MeshAcyclic == \E d \in [Pane -> Nat] : MeshDescends(d)

\* What a pane says about its own tables
PaneOK(P) ==
    /\ P.tables = <<>> => P = NewPane
    /\ Shaped(P.tables) /\ LayersKept(P)
    /\ P.parent = NoPane => Counted(P)

\* The inductive invariant: each pane is right by itself, one that uses
\* another has its tables, and who uses whom ends at a pane with its own.
MeshInv ==
    /\ pane \in [Pane -> PaneState]
    /\ \A p \in Pane : PaneOK(pane[p])
    /\ \A p \in Pane : pane[p].parent # NoPane => Mirrors(pane[p].tables, pane[pane[p].parent].tables)
    /\ MeshAcyclic

\* There are three tables at most.
LEMMA ShapedLength ==
    ASSUME NEW ts \in Seq(Table), Shaped(ts)
    PROVE  Len(ts) \in 0..3
<1>1. PICK n \in Nat : n = Len(ts)
  OBVIOUS
<1>2. ASSUME n > 3 PROVE FALSE
  <2>1. 1 \in DOMAIN ts /\ 2 \in DOMAIN ts /\ 3 \in DOMAIN ts /\ 4 \in DOMAIN ts
    BY <1>1, <1>2
  <2>2. \A k \in DOMAIN ts : Order(ts[k].name) \in 1..3
    BY DEF Order
  <2>3. /\ Order(ts[1].name) < Order(ts[2].name) /\ Order(ts[2].name) < Order(ts[3].name)
        /\ Order(ts[3].name) < Order(ts[4].name)
    BY <2>1 DEF Shaped
  <2> QED
    BY <2>1, <2>2, <2>3
<1>3. n \in 0..3
  BY <1>2
<1> QED
  BY <1>1, <1>3

\* A step of a client changes one pane, and of a pane in use neither the
\* tables nor the ghost layers.
LEMMA OnePaneStep ==
    ASSUME MeshInv, NEW p \in Pane, NEW P \in PaneState, pane' = [pane EXCEPT ![p] = P],
           pane[p].parent = NoPane, PaneOK(P),
           InUse(p) => Mirrors(pane[p].tables, P.tables),
           P.parent # NoPane => /\ P.parent # p /\ ~InUse(p)
                                /\ Mirrors(P.tables, pane[P.parent].tables)
    PROVE  MeshInv'
<1>0. /\ pane \in [Pane -> PaneState] /\ MeshAcyclic
      /\ \A q \in Pane : PaneOK(pane[q])
      /\ \A q \in Pane : pane[q].parent # NoPane => Mirrors(pane[q].tables, pane[pane[q].parent].tables)
  BY DEF MeshInv
<1>1. pane' \in [Pane -> PaneState] /\ pane'[p] = P /\ \A q \in Pane : q # p => pane'[q] = pane[q]
  BY <1>0
<1>2. \A q \in Pane : PaneOK(pane'[q])
  BY <1>0, <1>1
<1>3. ASSUME NEW q \in Pane, pane'[q].parent # NoPane
      PROVE  Mirrors(pane'[q].tables, pane'[pane'[q].parent].tables)
  <2>1. CASE q = p
    <3>1. P.parent \in Pane /\ P.parent # p
      BY <1>1, <1>3, <2>1 DEF PaneState
    <3> QED
      BY <1>1, <1>3, <2>1, <3>1
  <2>2. CASE q # p /\ pane[q].parent = p
    <3>1. Mirrors(pane[q].tables, pane[p].tables) /\ Mirrors(pane[p].tables, P.tables)
      BY <1>0, <1>1, <1>3, <2>2 DEF InUse
    <3>2. pane[q].tables \in Seq(Table) /\ pane[p].tables \in Seq(Table) /\ P.tables \in Seq(Table)
      BY <1>0 DEF PaneState
    <3>3. Mirrors(pane[q].tables, P.tables)
      BY <3>1, <3>2 DEF Mirrors
    <3> QED
      BY <1>1, <2>2, <3>3
  <2>3. CASE q # p /\ pane[q].parent # p
    <3>1. pane[q].parent # NoPane /\ pane[q].parent \in Pane
      BY <1>0, <1>1, <1>3, <2>3 DEF PaneState
    <3> QED
      BY <1>0, <1>1, <2>3, <3>1
  <2> QED
    BY <2>1, <2>2, <2>3
<1>4. MeshAcyclic'
  <2>1. PICK d \in [Pane -> Nat] : MeshDescends(d)
    BY <1>0 DEF MeshAcyclic
  <2>2. CASE P.parent = NoPane
    <3>1. \A q \in Pane : pane'[q].parent # NoPane => pane'[q].parent = pane[q].parent
      BY <1>1, <2>2
    <3> QED
      BY <2>1, <3>1 DEF MeshAcyclic, MeshDescends
  <2>3. CASE P.parent # NoPane
    <3> DEFINE e == [d EXCEPT ![p] = d[P.parent] + 1]
    <3>1. P.parent \in Pane /\ P.parent # p /\ \A q \in Pane : pane[q].parent # p
      BY <2>3 DEF PaneState, InUse
    <3>2. /\ e \in [Pane -> Nat] /\ e[p] = d[P.parent] + 1 /\ \A q \in Pane : q # p => e[q] = d[q]
      BY <2>1, <3>1
    <3> HIDE DEF e
    <3>3. ASSUME NEW q \in Pane, pane'[q].parent # NoPane PROVE e[pane'[q].parent] < e[q]
      <4>1. CASE q = p
        <5>1. e[pane'[q].parent] = d[P.parent] /\ e[q] = d[P.parent] + 1 /\ d[P.parent] \in Nat
          BY <1>1, <2>1, <3>1, <3>2, <4>1
        <5> QED
          BY <5>1
      <4>2. CASE q # p
        <5>1. pane'[q] = pane[q] /\ pane[q].parent \in Pane /\ pane[q].parent # p /\ pane[q].parent # NoPane
          BY <1>0, <1>1, <3>1, <3>3, <4>2 DEF PaneState
        <5>2. d[pane[q].parent] < d[q]
          BY <2>1, <5>1 DEF MeshDescends
        <5> QED
          BY <3>2, <4>2, <5>1, <5>2
      <4> QED
        BY <4>1, <4>2
    <3> QED
      BY <3>2, <3>3 DEF MeshAcyclic, MeshDescends
  <2> QED
    BY <2>2, <2>3
<1> QED
  BY <1>1, <1>2, <1>3, <1>4 DEF MeshInv

------------------------------------------------------------------------------
(* Along the parents of panes *)

\* What holds of all panes if it holds of those without a parent, and of those
\* whose parent it holds of.
LEMMA AlongMeshes ==
    ASSUME MeshInv, NEW G,
           \A k \in Pane : pane[k].parent = NoPane => k \in G,
           \A k \in Pane : pane[k].parent # NoPane /\ pane[k].parent \in G => k \in G
    PROVE  \A k \in Pane : k \in G
<1>1. PICK d \in [Pane -> Nat] : MeshDescends(d)
  BY DEF MeshInv, MeshAcyclic
<1>2. SUFFICES ASSUME NEW k \in Pane, k \notin G PROVE FALSE
  OBVIOUS
<1> DEFINE Bad == {d[j] : j \in {j \in Pane : j \notin G}}
<1>3. Bad \in SUBSET Nat /\ Bad # {}
  BY <1>2
<1>4. PICK m \in Bad : \A x \in Bad : m <= x
  BY <1>3, LeastNatural
<1>5. PICK j \in Pane : j \notin G /\ m = d[j]
  BY <1>4
<1>6. pane[j].parent # NoPane /\ pane[j].parent \in Pane /\ pane[j].parent \notin G
  BY <1>5 DEF MeshInv, PaneState
<1>7. /\ d[pane[j].parent] \in Bad /\ d[pane[j].parent] < d[j]
      /\ d[pane[j].parent] \in Nat /\ d[j] \in Nat
  BY <1>1, <1>6 DEF MeshDescends
<1> HIDE DEF Bad
<1> QED
  BY <1>4, <1>5, <1>7

\* Root goes from parent to parent.
LEMMA RootOfMesh ==
    ASSUME MeshInv
    PROVE  \A k \in Pane : /\ Root(k) \in Pane
                           /\ pane[k].parent = NoPane => Root(k) = k
                           /\ pane[k].parent # NoPane => Root(k) = Root(pane[k].parent)
<1> DEFINE stop == {k \in Pane : pane[k].parent = NoPane}
           par == [k \in Pane |-> pane[k].parent]
           same == [k \in Pane |-> k]
           Is(r) == r = [k \in Pane |-> IF pane[k].parent = NoPane THEN k ELSE r[pane[k].parent]]
<1>1. \A k \in Pane \ stop : par[k] \in Pane
  BY DEF MeshInv, PaneState
<1>2. PICK f : Follows(f, Pane, stop, par, same)
  <2> HIDE DEF stop, par, same
  <2>1. stop \in SUBSET Pane
    BY DEF stop
  <2> QED
    BY <1>1, <2>1, ChainFunction, Zenon
<1>3. Is(f)
  BY <1>2 DEF Follows
<1> DEFINE R == CHOOSE r : Is(r)
<1>4. Is(R)
  BY <1>3
<1>5. \A k : Root(k) = R[k]
  BY DEF Root
<1>6. \A k \in Pane : /\ pane[k].parent = NoPane => R[k] = k
                      /\ pane[k].parent # NoPane => R[k] = R[pane[k].parent]
  <2> HIDE DEF R
  <2> QED
    BY <1>4
<1> HIDE DEF R
<1>7. \A k \in Pane : R[k] \in Pane
  <2> DEFINE G == {k \in Pane : R[k] \in Pane}
  <2>1. \A k \in Pane : pane[k].parent = NoPane => k \in G
    BY <1>6
  <2>2. \A k \in Pane : pane[k].parent # NoPane /\ pane[k].parent \in G => k \in G
    BY <1>6
  <2> HIDE DEF G
  <2>3. \A k \in Pane : k \in G
    BY <2>1, <2>2, AlongMeshes
  <2> QED
    BY <2>3 DEF G
<1> QED
  BY <1>5, <1>6, <1>7

\* So does Chain, and it keeps the panes it meets.
LEMMA ChainOfMesh ==
    ASSUME MeshInv
    PROVE  \A k \in Pane : Chain(k) = {k} \cup IF pane[k].parent = NoPane THEN {} ELSE Chain(pane[k].parent)
<1> DEFINE Closed(T) == \A x \in T : pane[x].parent # NoPane => pane[x].parent \in T
           above(k) == {y \in Pane : \A T \in SUBSET Pane : k \in T /\ Closed(T) => y \in T}
           f == [k \in Pane |-> above(k)]
           Is(c) == c = [k \in Pane |-> {k} \cup IF pane[k].parent = NoPane THEN {} ELSE c[pane[k].parent]]
<1>0. \A k \in Pane : pane[k].parent # NoPane => pane[k].parent \in Pane
  BY DEF MeshInv, PaneState
<1>1. ASSUME NEW k \in Pane, pane[k].parent = NoPane PROVE above(k) = {k}
  <2>1. {k} \in SUBSET Pane /\ Closed({k})
    BY <1>1
  <2> QED
    BY <1>1, <2>1
<1>2. ASSUME NEW k \in Pane, pane[k].parent # NoPane PROVE above(k) = {k} \cup above(pane[k].parent)
  <2>1. ASSUME NEW y \in above(pane[k].parent) PROVE y \in above(k)
    BY <1>2, <2>1
  <2>2. k \in above(k)
    OBVIOUS
  <2>3. ASSUME NEW y \in above(k), y # k PROVE y \in above(pane[k].parent)
    <3>1. SUFFICES ASSUME NEW T \in SUBSET Pane, pane[k].parent \in T, Closed(T) PROVE y \in T
      BY <2>3
    <3>2. T \cup {k} \in SUBSET Pane /\ Closed(T \cup {k})
      BY <1>2, <3>1
    <3>3. y \in T \cup {k}
      BY <2>3, <3>2
    <3> QED
      BY <2>3, <3>3
  <2> HIDE DEF above
  <2> QED
    BY <2>1, <2>2, <2>3
<1> HIDE DEF above
<1>3. ASSUME NEW k \in Pane
      PROVE  f[k] = {k} \cup IF pane[k].parent = NoPane THEN {} ELSE f[pane[k].parent]
  BY <1>0, <1>1, <1>2
<1>4. f = [k \in Pane |-> f[k]]
  OBVIOUS
<1> HIDE DEF f
<1>5. Is(f)
  BY <1>3, <1>4
<1> DEFINE C == CHOOSE c : Is(c)
<1>6. Is(C)
  BY <1>5
<1>7. \A k : Chain(k) = C[k]
  BY DEF Chain
<1>8. \A k \in Pane : C[k] = {k} \cup IF pane[k].parent = NoPane THEN {} ELSE C[pane[k].parent]
  <2> HIDE DEF C
  <2> QED
    BY <1>6
<1> HIDE DEF C
<1> QED
  BY <1>7, <1>8

\* What a pane knows of the one it goes back to
RootKnown(p) ==
    /\ Root(p) \in Pane /\ pane[Root(p)].parent = NoPane
    /\ Mirrors(pane[p].tables, pane[Root(p)].tables)
    /\ pane[Root(p)].ignore_ghost => Ignores(p)
    /\ Ignores(p) => \A k \in DOMAIN pane[p].tables : pane[p].tables[k].name = "st2" => pane[p].tables[k].ngitems = 0

\* Following the parents leads to the pane with the tables.
LEMMA RootsKnown ==
    ASSUME MeshInv
    PROVE  \A p \in Pane : RootKnown(p)
<1> DEFINE G == {p \in Pane : RootKnown(p)}
<1>0. /\ \A p \in Pane : pane[p] \in PaneState /\ PaneOK(pane[p])
      /\ \A q \in Pane : pane[q].parent # NoPane => Mirrors(pane[q].tables, pane[pane[q].parent].tables)
  BY DEF MeshInv
<1>1. ASSUME NEW p \in Pane, pane[p].parent = NoPane PROVE p \in G
  <2>1. Root(p) = p /\ Chain(p) = {p}
    BY <1>1, RootOfMesh, ChainOfMesh
  <2>2. Ignores(p) <=> pane[p].ignore_ghost
    BY <2>1 DEF Ignores
  <2>3. Mirrors(pane[p].tables, pane[p].tables)
    BY DEF Mirrors
  <2> QED
    BY <1>0, <1>1, <2>1, <2>2, <2>3 DEF RootKnown, PaneOK, LayersKept
<1>2. ASSUME NEW p \in Pane, pane[p].parent # NoPane, pane[p].parent \in G PROVE p \in G
  <2>1. PICK q \in Pane : q = pane[p].parent
    BY <1>2
  <2>2. Root(p) = Root(q) /\ Chain(p) = {p} \cup Chain(q)
    BY <1>2, <2>1, RootOfMesh, ChainOfMesh
  <2>3. RootKnown(q) /\ Mirrors(pane[p].tables, pane[q].tables)
    BY <1>0, <1>2, <2>1
  <2>4. Ignores(p) <=> pane[p].ignore_ghost \/ Ignores(q)
    BY <2>2 DEF Ignores
  <2>5. pane[p].tables \in Seq(Table) /\ pane[q].tables \in Seq(Table)
    BY <1>0 DEF PaneState
  <2>6. pane[Root(q)].tables \in Seq(Table)
    BY <1>0, <2>3 DEF PaneState, RootKnown
  <2>7. Mirrors(pane[p].tables, pane[Root(q)].tables)
    BY <2>3, <2>5, <2>6 DEF Mirrors, RootKnown
  <2>8. ASSUME Ignores(p), NEW k \in DOMAIN pane[p].tables, pane[p].tables[k].name = "st2"
        PROVE  pane[p].tables[k].ngitems = 0
    <3>1. CASE pane[p].ignore_ghost
      BY <1>0, <2>8, <3>1 DEF PaneOK, LayersKept
    <3>2. CASE Ignores(q)
      <4>1. k \in DOMAIN pane[q].tables /\ pane[q].tables[k].name = "st2" /\ pane[p].tables[k].ngitems = pane[q].tables[k].ngitems
        BY <2>3, <2>5, <2>8 DEF Mirrors
      <4> QED
        BY <2>3, <3>2, <4>1 DEF RootKnown
    <3> QED
      BY <2>4, <2>8, <3>1, <3>2
  <2> QED
    BY <2>2, <2>3, <2>4, <2>7, <2>8 DEF RootKnown
<1> HIDE DEF G
<1>3. \A p \in Pane : p \in G
  BY <1>1, <1>2, AlongMeshes
<1> QED
  BY <1>3 DEF G

------------------------------------------------------------------------------
(* Sizes *)

\* Products of sizes
LEMMA Products ==
    ASSUME NEW x \in Int, NEW y \in Int
    PROVE  /\ x * y \in Int
           /\ x > 0 /\ y > 0 => x * y > 0
<1>1. x * y \in Int
  OBVIOUS
<1>2. x > 0 /\ y > 0 => x * y > 0
  OBVIOUS
<1> QED
  BY <1>1, <1>2

\* There are cells and nodes inside of a layer of ghosts, once there is an array.
LEMMA StructuredSizes ==
    ASSUME NEW dims \in Dims \cup {<<>>}, NEW g \in 0..1
    PROVE  /\ Cells(dims, g) \in Nat /\ (Cells(dims, 0) = 0 => Cells(dims, g) = 0)
           /\ NodesWithin(dims, g) \in Nat /\ (NodesWithin(dims, 0) = 0 => NodesWithin(dims, g) = 0)
<1>1. CASE dims = <<>>
  BY <1>1 DEF Cells, NodesWithin
<1>2. CASE dims # <<>>
  <2>1. PICK x \in Nat, y \in Nat : x = dims[1] /\ y = dims[2] /\ x > 3 /\ y > 3
    BY <1>2, MeshAssumption
  <2>2. \A h \in {0, g} : /\ x - 1 - 2 * h \in Int /\ x - 1 - 2 * h > 0 /\ y - 1 - 2 * h \in Int /\ y - 1 - 2 * h > 0
                          /\ x - 2 * h \in Int /\ x - 2 * h > 0 /\ y - 2 * h \in Int /\ y - 2 * h > 0
    BY <2>1
  <2>3. \A h \in {0, g} : /\ (x - 1 - 2 * h) * (y - 1 - 2 * h) \in Int /\ (x - 1 - 2 * h) * (y - 1 - 2 * h) > 0
                          /\ (x - 2 * h) * (y - 2 * h) \in Int /\ (x - 2 * h) * (y - 2 * h) > 0
    BY <2>2, Products
  <2>4. \A z \in Int : z > 0 => Max({0, z}) = z
    BY MaxMin
  <2>5. \A h \in {0, g} : /\ Cells(dims, h) = (x - 1 - 2 * h) * (y - 1 - 2 * h)
                          /\ NodesWithin(dims, h) = (x - 2 * h) * (y - 2 * h)
    BY <1>2, <2>1, <2>3, <2>4 DEF Cells, NodesWithin
  <2> QED
    BY <2>3, <2>5
<1> QED
  BY <1>1, <1>2

\* An unstructured table: its real elements and its ghosts
LEMMA TableSizes ==
    ASSUME NEW t \in Table, Sized(t), t.name # "st2", NEW ignore \in BOOLEAN
    PROVE  /\ real_items(t) \in Nat /\ real_items(t) = t.nitems - t.ngitems
           /\ t.nitems \in Nat /\ t.ngitems \in Nat
           /\ size_of_elements(t, ignore) = IF ignore THEN real_items(t) ELSE t.nitems
           /\ size_of_ghost_elements(t, t, ignore) = IF ignore THEN 0 ELSE t.ngitems
<1>1. t.nitems \in Nat /\ t.ngitems \in 0..t.nitems
  BY DEF Sized
<1>2. real_items(t) = t.nitems - t.ngitems
  BY <1>1 DEF real_items
<1>3. Max({0, t.nitems}) = t.nitems
  BY <1>1, MaxMin
<1> QED
  BY <1>1, <1>2, <1>3 DEF size_of_elements, size_of_ghost_elements, all_items, ghost_items

\* Tables never have a negative number of elements.
LEMMA SizesAreInt ==
    ASSUME NEW t \in Table, Sized(t), NEW ignore \in BOOLEAN
    PROVE  size_of_elements(t, ignore) \in Nat /\ size_of_ghost_elements(t, t, ignore) \in Int
<1>1. CASE t.name = "st2"
  <2>1. t.dims \in Dims \cup {<<>>} /\ t.ngitems \in 0..1 /\ 0 \in 0..1
    BY <1>1 DEF Sized, Table
  <2>2. Cells(t.dims, 0) \in Nat /\ Cells(t.dims, t.ngitems) \in Nat
    BY <2>1, StructuredSizes
  <2> QED
    BY <1>1, <2>2 DEF size_of_elements, size_of_ghost_elements
<1>2. CASE t.name # "st2"
  BY <1>2, TableSizes
<1> QED
  BY <1>1, <1>2

\* Sums of sizes are sizes.
LEMMA AddedIsInt ==
    ASSUME NEW f, NEW n \in 0..3, \A k \in 1..n : f[k] \in Int
    PROVE  Added(f, n) \in Int
  BY DEF Added

\* A new offset changes nothing else of a table.
LEMMA Renumbered ==
    ASSUME NEW t \in Table, NEW o \in Int, NEW u, u = [t EXCEPT !.offset = o]
    PROVE  /\ u \in Table /\ u.offset = o
           /\ u.name = t.name /\ u.nitems = t.nitems /\ u.ngitems = t.ngitems /\ u.dims = t.dims
  BY DEF Table

\* Tables that differ in the offset only
Alike(t, u) == u.name = t.name /\ u.nitems = t.nitems /\ u.ngitems = t.ngitems /\ u.dims = t.dims

\* refresh_connectivity() leaves what the client gave and brings the rest to it.
LEMMA Refreshes ==
    ASSUME NEW P \in PaneState, Shaped(P.tables), NEW Q, Q = refresh_connectivity(P)
    PROVE  /\ Q \in PaneState /\ Counted(Q)
           /\ Q.parent = P.parent /\ Q.ignore_ghost = P.ignore_ghost
           /\ Len(Q.tables) = Len(P.tables)
           /\ \A k \in DOMAIN P.tables : Alike(P.tables[k], Q.tables[k])
<1> DEFINE ts == P.tables
           ign == P.ignore_ghost
           e == Elements(ts, ign)
           g == Ghosts(ts, ign)
<1>1. PICK n \in 0..3 : n = Len(ts)
  BY ShapedLength DEF PaneState
<1>2. ts \in Seq(Table) /\ DOMAIN ts = 1..n /\ ign \in BOOLEAN
  BY <1>1 DEF PaneState
<1>3. /\ DOMAIN e = 1..n /\ \A k \in 1..n : e[k] = size_of_elements(ts[k], ign) /\ e[k] \in Int
      /\ DOMAIN g = 1..n /\ \A k \in 1..n : g[k] = size_of_ghost_elements(ts[k], ts[k], ign) /\ g[k] \in Int
  BY <1>2, SizesAreInt DEF Elements, Ghosts, Shaped
<1>4. /\ Added(e, n) \in Int /\ Added(g, n) \in Int
      /\ Sum(e) = Added(e, n) /\ Sum(g) = Added(g, n)
  BY <1>3, AddedIsInt, SumIs
<1>5. ASSUME NEW k \in 1..n
      PROVE  /\ Sum([j \in 1..k - 1 |-> size_of_elements(ts[j], ign)]) = Added(e, k - 1)
             /\ Added(e, k - 1) \in Int
  <2> DEFINE f == [j \in 1..k - 1 |-> size_of_elements(ts[j], ign)]
  <2>0. k \in Nat /\ n \in Nat /\ k <= n
    OBVIOUS
  <2>1. k - 1 \in 0..3 /\ \A j \in 1..k - 1 : j \in 1..n
    <3>1. n <= 3 /\ 1 <= k
      OBVIOUS
    <3>2. k - 1 \in 0..3
      BY <2>0, <3>1
    <3>3. \A j \in 1..k - 1 : j \in 1..n
      BY <2>0
    <3> QED
      BY <3>2, <3>3
  <2>2. DOMAIN f = 1..k - 1 /\ \A j \in 1..k - 1 : f[j] = e[j] /\ f[j] \in Int
    BY <1>3, <2>1
  <2> HIDE DEF f
  <2>3. Sum(f) = Added(f, k - 1)
    BY <2>1, <2>2, SumIs
  <2>4. Added(f, k - 1) = Added(e, k - 1)
    BY <2>1, <2>2 DEF Added
  <2>5. Added(e, k - 1) \in Int
    BY <1>3, <2>1, AddedIsInt
  <2> QED
    BY <2>3, <2>4, <2>5 DEF f
<1> DEFINE off == [k \in 1..n |-> Added(e, k - 1)]
           us == [k \in 1..n |-> [ts[k] EXCEPT !.offset = off[k]]]
           t1 == ts[1]
           c == [nitems |-> Added(e, n), ngitems |-> Added(g, n)]
           nodes == [nitems |-> NodesWithin(t1.dims, 0),
                     ngitems |-> NodesWithin(t1.dims, 0) - NodesWithin(t1.dims, t1.ngitems)]
<1>6. Offsets(P) = off
  BY <1>2, <1>5 DEF Offsets
<1>7. Q = [P EXCEPT !.tables = us, !.conn = c, !.nc = IF is_structured(P) THEN nodes ELSE @]
  <2>1. Sum([k \in DOMAIN P.tables |-> size_of_elements(P.tables[k], P.ignore_ghost)]) = Added(e, n)
    BY <1>4 DEF Elements
  <2>2. Sum([k \in DOMAIN P.tables |-> size_of_ghost_elements(P.tables[k], P.tables[k], P.ignore_ghost)]) = Added(g, n)
    BY <1>4 DEF Ghosts
  <2> HIDE DEF e, g
  <2> QED
    BY <1>2, <1>6, <2>1, <2>2 DEF refresh_connectivity
<1>8. /\ us \in Seq(Table) /\ Len(us) = n
      /\ \A k \in 1..n : us[k] = [ts[k] EXCEPT !.offset = off[k]] /\ off[k] = Added(e, k - 1) /\ off[k] \in Int
  <2>1. \A k \in 1..n : off[k] = Added(e, k - 1) /\ off[k] \in Int
    BY <1>5
  <2> HIDE DEF off
  <2>2. \A k \in 1..n : us[k] = [ts[k] EXCEPT !.offset = off[k]] /\ ts[k] \in Table
    BY <1>2
  <2>3. DOMAIN us = 1..n /\ us = [k \in 1..n |-> us[k]]
    OBVIOUS
  <2> HIDE DEF us
  <2>4. \A k \in 1..n : us[k] \in Table
    <3> SUFFICES ASSUME NEW k \in 1..n PROVE us[k] \in Table
      OBVIOUS
    <3>1. ts[k] \in Table /\ off[k] \in Int /\ us[k] = [ts[k] EXCEPT !.offset = off[k]]
      BY <2>1, <2>2
    <3> QED
      BY <3>1, Renumbered
  <2>5. us \in [1..n -> Table]
    BY <2>3, <2>4
  <2>6. us \in Seq(Table) /\ Len(us) = n
    BY <1>1, <2>5
  <2> QED
    BY <2>1, <2>2, <2>6
<1>9. is_structured(P) => nodes \in Sizes2
  <2> SUFFICES ASSUME is_structured(P) PROVE nodes \in Sizes2
    OBVIOUS
  <2>1. n = 1 /\ t1.name = "st2" /\ Sized(t1) /\ t1 \in Table
    BY <1>1, <1>2 DEF is_structured, Shaped
  <2>2. t1.dims \in Dims \cup {<<>>} /\ t1.ngitems \in 0..1 /\ 0 \in 0..1
    BY <2>1 DEF Sized, Table
  <2>3. NodesWithin(t1.dims, 0) \in Nat /\ NodesWithin(t1.dims, t1.ngitems) \in Nat
    BY <2>2, StructuredSizes
  <2> QED
    BY <2>3 DEF Sizes2
<1>10. c \in Sizes2
  BY <1>4 DEF Sizes2
<1> HIDE DEF e, g, off, us, c, nodes
<1>11. /\ Q.tables = us /\ Q.conn = c /\ (is_structured(P) => Q.nc = nodes) /\ Q.parent = P.parent /\ Q.ignore_ghost = ign
       /\ Q \in PaneState
  BY <1>7, <1>8, <1>9, <1>10 DEF PaneState
<1>12. Len(Q.tables) = Len(ts) /\ DOMAIN Q.tables = 1..n
  BY <1>1, <1>8, <1>11
<1>13. ASSUME NEW k \in 1..n
       PROVE  /\ us[k].name = ts[k].name /\ us[k].nitems = ts[k].nitems /\ us[k].ngitems = ts[k].ngitems
              /\ us[k].dims = ts[k].dims /\ us[k].offset = off[k]
  <2>1. ts[k] \in Table /\ off[k] \in Int /\ us[k] = [ts[k] EXCEPT !.offset = off[k]]
    BY <1>2, <1>8
  <2> QED
    BY <2>1, Renumbered
<1>14. ASSUME NEW k \in 1..n
       PROVE  /\ size_of_elements(us[k], ign) = size_of_elements(ts[k], ign)
              /\ size_of_ghost_elements(us[k], us[k], ign) = size_of_ghost_elements(ts[k], ts[k], ign)
  BY <1>13 DEF size_of_elements, size_of_ghost_elements, all_items, ghost_items, real_items
<1>15. Elements(us, ign) = e /\ Ghosts(us, ign) = g
  BY <1>2, <1>8, <1>14 DEF e, g, Elements, Ghosts
<1>16. is_structured(Q) => is_structured(P)
  BY <1>1, <1>11, <1>12, <1>13 DEF is_structured
<1>17. is_structured(Q) => n = 1 /\ us[1].dims = t1.dims /\ us[1].ngitems = t1.ngitems
  BY <1>1, <1>12, <1>13 DEF is_structured
<1>18. Counted(Q)
  <2>1. \A k \in DOMAIN Q.tables : Q.tables[k].offset = Added(e, k - 1)
    <3> SUFFICES ASSUME NEW k \in 1..n PROVE us[k].offset = Added(e, k - 1)
      BY <1>11, <1>12
    <3> QED
      BY <1>8, <1>13
  <2>2. Q.conn = [nitems |-> Added(e, Len(us)), ngitems |-> Added(g, Len(us))]
    BY <1>8, <1>11 DEF c
  <2>3. is_structured(Q) =>
          Q.nc = [nitems |-> NodesWithin(us[1].dims, 0),
                  ngitems |-> NodesWithin(us[1].dims, 0) - NodesWithin(us[1].dims, us[1].ngitems)]
    BY <1>11, <1>16, <1>17 DEF nodes
  <2> QED
    BY <1>11, <1>15, <2>1, <2>2, <2>3 DEF Counted
<1>19. \A k \in DOMAIN P.tables : Alike(P.tables[k], Q.tables[k])
  BY <1>2, <1>11, <1>13 DEF Alike
<1> QED
  BY <1>11, <1>12, <1>18, <1>19

------------------------------------------------------------------------------
(* Steps *)

\* A pane has a first table or none.
LEMMA SomeTable ==
    ASSUME NEW ts \in Seq(Table)
    PROVE  ts # <<>> <=> 1 \in DOMAIN ts
<1>1. CASE ts # <<>>
  <2>1. Len(ts) \in Nat \ {0}
    BY <1>1, EmptySeq
  <2> QED
    BY <1>1, <2>1
<1>2. CASE ts = <<>>
  BY <1>2
<1> QED
  BY <1>1, <1>2

\* Using a pane that uses a third shows the tables of the third.
LEMMA MirrorsMirrored ==
    ASSUME NEW ts \in Seq(Table), NEW us \in Seq(Table), NEW vs \in Seq(Table), Mirrors(ts, us), Mirrors(us, vs)
    PROVE  Mirrors(ts, vs)
  BY DEF Mirrors

\* refresh_connectivity() leaves a pane right.
LEMMA RefreshedOK ==
    ASSUME NEW P \in PaneState, P.tables # <<>>, Shaped(P.tables), LayersKept(P), NEW Q, Q = refresh_connectivity(P)
    PROVE  /\ Q \in PaneState /\ PaneOK(Q) /\ Q.parent = P.parent
           /\ Mirrors(P.tables, Q.tables)
<1>1. /\ Q \in PaneState /\ Counted(Q) /\ Q.parent = P.parent /\ Q.ignore_ghost = P.ignore_ghost
      /\ Len(Q.tables) = Len(P.tables)
      /\ \A k \in DOMAIN P.tables : Alike(P.tables[k], Q.tables[k])
  BY Refreshes
<1>2. P.tables \in Seq(Table) /\ Q.tables \in Seq(Table)
  BY <1>1 DEF PaneState
<1>3. DOMAIN Q.tables = DOMAIN P.tables
  <2>1. Len(Q.tables) = Len(P.tables)
    BY <1>1
  <2>2. DOMAIN Q.tables = 1..Len(Q.tables) /\ DOMAIN P.tables = 1..Len(P.tables)
    BY <1>2
  <2> QED
    BY <2>1, <2>2
<1>4. ASSUME NEW k \in DOMAIN P.tables
      PROVE  /\ Q.tables[k].name = P.tables[k].name /\ Q.tables[k].nitems = P.tables[k].nitems
             /\ Q.tables[k].ngitems = P.tables[k].ngitems
  BY <1>1 DEF Alike
<1>5. Shaped(Q.tables)
  BY <1>1, <1>3, <1>4 DEF Shaped, Sized
<1>6. LayersKept(Q)
  BY <1>1, <1>3, <1>4 DEF LayersKept
<1>7. Mirrors(P.tables, Q.tables)
  BY <1>1, <1>4 DEF Mirrors
<1>8. Q.tables # <<>>
  <2>1. 1 \in DOMAIN P.tables
    BY <1>2, SomeTable
  <2> QED
    BY <1>2, <1>3, <2>1, SomeTable
<1> QED
  BY <1>1, <1>5, <1>6, <1>7, <1>8 DEF PaneOK

\* A pane without tables is right.
LEMMA NewPaneOK == NewPane \in PaneState /\ PaneOK(NewPane) /\ NewPane.tables = <<>> /\ NewPane.parent = NoPane
<1>1. NewPane \in PaneState /\ NewPane.tables = <<>> /\ NewPane.parent = NoPane
  BY DEF NewPane, PaneState, Sizes2
<1>2. DOMAIN <<>> = {} /\ Len(<<>>) = 0
  OBVIOUS
<1>3. Shaped(NewPane.tables) /\ LayersKept(NewPane)
  BY <1>1, <1>2 DEF Shaped, LayersKept
<1>4. Counted(NewPane)
  <2>1. ~is_structured(NewPane)
    BY <1>1, <1>2 DEF is_structured
  <2>2. \A f : Added(f, 0) = 0
    BY DEF Added
  <2>3. NewPane.conn = [nitems |-> 0, ngitems |-> 0]
    BY DEF NewPane
  <2> QED
    BY <1>1, <1>2, <2>1, <2>2, <2>3 DEF Counted
<1> QED
  BY <1>1, <1>3, <1>4 DEF PaneOK

\* No pane has a table in the beginning.
LEMMA MeshInitOK == MeshInit => MeshInv
<1> SUFFICES ASSUME MeshInit PROVE MeshInv
  OBVIOUS
<1>1. pane \in [Pane -> PaneState] /\ \A p \in Pane : PaneOK(pane[p]) /\ pane[p].parent = NoPane
  BY NewPaneOK DEF MeshInit
<1>2. MeshAcyclic
  <2>1. [p \in Pane |-> 0] \in [Pane -> Nat]
    OBVIOUS
  <2>2. MeshDescends([p \in Pane |-> 0])
    BY <1>1 DEF MeshDescends
  <2> QED
    BY <2>1, <2>2 DEF MeshAcyclic
<1> QED
  BY <1>1, <1>2 DEF MeshInv

\* Place is the order of the kinds.
LEMMA PlaceIsOrder ==
    ASSUME NEW x \in Range(TableNames), NEW y \in Range(TableNames), Place(x) < Place(y)
    PROVE  Order(x) < Order(y)
<1>1. CASE TableNames = <<"t3", "q4", "v3">>
  <2>1. DOMAIN TableNames = {1, 2, 3} /\ TableNames[1] = "t3" /\ TableNames[2] = "q4" /\ TableNames[3] = "v3"
    BY <1>1
  <2>2. Place("t3") = 1 /\ Place("q4") = 2 /\ Place("v3") = 3
    BY <2>1 DEF Place
  <2>3. x \in {"t3", "q4", "v3"} /\ y \in {"t3", "q4", "v3"}
    BY <2>1 DEF Range
  <2> QED
    BY <2>2, <2>3 DEF Order
<1>2. CASE TableNames = <<"q4", "v3">>
  <2>1. DOMAIN TableNames = {1, 2} /\ TableNames[1] = "q4" /\ TableNames[2] = "v3"
    BY <1>2
  <2>2. Place("q4") = 1 /\ Place("v3") = 2
    BY <2>1 DEF Place
  <2>3. x \in {"q4", "v3"} /\ y \in {"q4", "v3"}
    BY <2>1 DEF Range
  <2> QED
    BY <2>2, <2>3 DEF Order
<1> QED
  BY <1>1, <1>2, MeshAssumption

\* The tables a client may name
LEMMA NamesAreKinds == Range(TableNames) \subseteq {"t3", "q4", "v3"}
<1>1. CASE TableNames = <<"t3", "q4", "v3">>
  BY <1>1 DEF Range
<1>2. CASE TableNames = <<"q4", "v3">>
  BY <1>2 DEF Range
<1> QED
  BY <1>1, <1>2, MeshAssumption

\* What the invariant says of one pane
LEMMA PaneFacts ==
    ASSUME MeshInv, NEW p \in Pane
    PROVE  /\ pane[p] \in PaneState /\ PaneOK(pane[p]) /\ pane[p].tables \in Seq(Table)
           /\ Shaped(pane[p].tables) /\ LayersKept(pane[p])
  BY DEF MeshInv, PaneOK, PaneState

\* A pane in use has tables.
LEMMA UsedIsNotNew ==
    ASSUME MeshInv, NEW p \in Pane, InUse(p)
    PROVE  pane[p] # NewPane
<1>1. PICK q \in Pane : pane[q].parent = p
  BY DEF InUse
<1>2. pane[q].parent # NoPane
  BY <1>1, MeshAssumption
<1>3. Mirrors(pane[q].tables, pane[p].tables) /\ PaneOK(pane[q]) /\ pane[q].tables \in Seq(Table)
  BY <1>1, <1>2, PaneFacts DEF MeshInv
<1>4. pane[q] # NewPane
  BY <1>2, NewPaneOK
<1>5. pane[q].tables # <<>>
  BY <1>3, <1>4 DEF PaneOK
<1>6. Len(pane[q].tables) # 0
  BY <1>3, <1>5
<1>7. Len(pane[p].tables) # Len(<<>>)
  BY <1>3, <1>6 DEF Mirrors
<1> QED
  BY <1>7, NewPaneOK

\* A pane with other tables
LEMMA WithTables ==
    ASSUME NEW P \in PaneState, NEW ts \in Seq(Table), NEW Q, Q = [P EXCEPT !.tables = ts]
    PROVE  /\ Q \in PaneState /\ Q.tables = ts /\ Q.parent = P.parent /\ Q.ignore_ghost = P.ignore_ghost
           /\ Q.conn = P.conn /\ Q.nc = P.nc
  BY DEF PaneState

\* A table just made has no ghosts.
LEMMA NewTableFacts ==
    ASSUME NEW name \in Kinds
    PROVE  NewTable(name) \in Table /\ NewTable(name).name = name /\ NewTable(name).ngitems = 0
  BY DEF NewTable, Table

\* The tables of a pane after connectivity(name, true)
LEMMA InsertedTables ==
    ASSUME MeshInv, NEW p \in Pane, NEW name \in Kinds, NEW P, P = Inserted(pane[p], name)
    PROVE  /\ P \in PaneState /\ P.tables \in Seq(Table) /\ P.parent = pane[p].parent
           /\ P.ignore_ghost = pane[p].ignore_ghost /\ P.conn = pane[p].conn /\ P.nc = pane[p].nc
           /\ \A k \in DOMAIN pane[p].tables : k \in DOMAIN P.tables /\ P.tables[k] = pane[p].tables[k]
           /\ name \in Names(pane[p]) => P.tables = pane[p].tables
           /\ name \notin Names(pane[p]) =>
                /\ Len(P.tables) = Len(pane[p].tables) + 1
                /\ P.tables[Len(P.tables)] = NewTable(name)
<1>1. pane[p] \in PaneState /\ pane[p].tables \in Seq(Table)
  BY PaneFacts
<1>2. CASE name \in Names(pane[p])
  <2>1. P = pane[p]
    BY <1>2 DEF Inserted
  <2> QED
    BY <1>1, <1>2, <2>1
<1>3. CASE name \notin Names(pane[p])
  <2> DEFINE ts == Append(pane[p].tables, NewTable(name))
  <2>1. NewTable(name) \in Table
    BY NewTableFacts
  <2>2. /\ ts \in Seq(Table) /\ Len(ts) = Len(pane[p].tables) + 1 /\ ts[Len(ts)] = NewTable(name)
        /\ \A k \in DOMAIN pane[p].tables : k \in DOMAIN ts /\ ts[k] = pane[p].tables[k]
    BY <1>1, <2>1
  <2>3. P = [pane[p] EXCEPT !.tables = ts]
    BY <1>3 DEF Inserted
  <2> HIDE DEF ts
  <2>4. /\ P \in PaneState /\ P.tables = ts /\ P.parent = pane[p].parent /\ P.ignore_ghost = pane[p].ignore_ghost
        /\ P.conn = pane[p].conn /\ P.nc = pane[p].nc
    BY <1>1, <2>2, <2>3, WithTables
  <2> QED
    BY <1>3, <2>2, <2>4
<1> QED
  BY <1>2, <1>3

\* set_size of a table of an unstructured mesh preserves the invariant.
LEMMA MeshOfTableSize ==
    ASSUME MeshInv, NEW p \in Pane, NEW name \in Range(TableNames), NEW n \in Counts, NEW ng \in 0..n,
           set_table_size(p, name, n, ng)
    PROVE  MeshInv'
<1>1. name \in Kinds /\ name # "st2" /\ n \in Nat /\ ng \in Nat /\ ng <= n
  BY NamesAreKinds, MeshAssumption DEF Kinds
<1>2. /\ pane[p].parent = NoPane /\ MayInsert(p, name)
      /\ name = "t3" => ng = 0
      /\ name = "v3" => ng = n
  BY NamesAreKinds DEF set_table_size
<1> DEFINE ts == pane[p].tables
<1>3. PICK P : P = Inserted(pane[p], name)
  OBVIOUS
<1>4. /\ P \in PaneState /\ P.tables \in Seq(Table) /\ P.parent = NoPane
      /\ \A k \in DOMAIN ts : k \in DOMAIN P.tables /\ P.tables[k] = ts[k]
      /\ name \in Names(pane[p]) => P.tables = ts
      /\ name \notin Names(pane[p]) => Len(P.tables) = Len(ts) + 1 /\ P.tables[Len(P.tables)] = NewTable(name)
  BY <1>1, <1>2, <1>3, InsertedTables
<1>5. PICK us \in Seq(Table) : us = P.tables
  BY <1>4
<1>6. ts \in Seq(Table) /\ Shaped(ts) /\ NewTable(name).name = name
  BY <1>1, PaneFacts, NewTableFacts
<1>7. ASSUME NEW k \in DOMAIN us, k \notin DOMAIN ts
      PROVE  name \notin Names(pane[p]) /\ k = Len(us) /\ us[k].name = name /\ Len(us) = Len(ts) + 1
  <2>1. name \notin Names(pane[p])
    BY <1>4, <1>5, <1>7
  <2>2. Len(us) = Len(ts) + 1 /\ us[Len(us)].name = name
    BY <1>4, <1>5, <1>6, <2>1
  <2> QED
    BY <1>6, <1>7, <2>1, <2>2
<1>8. \A k \in DOMAIN us : us[k].name # "st2"
  <2> SUFFICES ASSUME NEW k \in DOMAIN us, us[k].name = "st2" PROVE FALSE
    OBVIOUS
  <2>1. k \in DOMAIN ts /\ ts[k].name = "st2"
    BY <1>1, <1>4, <1>5, <1>7
  <2>2. Len(ts) = 1 /\ k = 1
    BY <1>6, <2>1 DEF Shaped
  <2>3. name \notin Names(pane[p])
    BY <1>1, <1>6, <2>1, <2>2 DEF Names
  <2> QED
    BY <1>2, <2>1, <2>3 DEF MayInsert
<1>9. \A j, k \in DOMAIN us : j < k => Order(us[j].name) < Order(us[k].name)
  <2> SUFFICES ASSUME NEW j \in DOMAIN us, NEW k \in DOMAIN us, j < k PROVE Order(us[j].name) < Order(us[k].name)
    OBVIOUS
  <2>1. CASE k \in DOMAIN ts
    <3>1. j \in DOMAIN ts
      BY <1>5, <1>6, <2>1
    <3> QED
      BY <1>4, <1>5, <1>6, <2>1, <3>1 DEF Shaped
  <2>2. CASE k \notin DOMAIN ts
    <3>1. name \notin Names(pane[p]) /\ k = Len(us) /\ us[k].name = name /\ Len(us) = Len(ts) + 1
      BY <1>7, <2>2
    <3>2. j \in DOMAIN ts /\ us[j] = ts[j]
      BY <1>4, <1>5, <1>6, <3>1
    <3>3. Place(ts[j].name) < Place(name)
      BY <1>2, <3>1, <3>2 DEF MayInsert
    <3>4. ts[j].name \in Range(TableNames)
      <4>1. ts[j] \in Table /\ ts[j].name # "st2"
        BY <1>6, <1>8, <3>2
      <4> QED
        BY <4>1 DEF Table, Kinds
    <3> QED
      BY <3>1, <3>2, <3>3, <3>4, PlaceIsOrder
  <2> QED
    BY <2>1, <2>2
<1> DEFINE vs == [k \in DOMAIN us |-> IF us[k].name # name THEN us[k] ELSE [us[k] EXCEPT !.nitems = n, !.ngitems = ng]]
<1>10. ASSUME NEW k \in DOMAIN us
       PROVE  vs[k] \in Table /\ vs[k].name = us[k].name /\ Sized(vs[k])
  <2>1. us[k] \in Table
    OBVIOUS
  <2>2. CASE us[k].name # name
    <3>1. vs[k] = us[k]
      BY <2>2
    <3>2. k \in DOMAIN ts /\ us[k] = ts[k]
      BY <1>4, <1>5, <1>7, <2>2
    <3> QED
      BY <1>6, <2>1, <3>1, <3>2 DEF Shaped
  <2>3. CASE us[k].name = name
    <3>1. vs[k] = [us[k] EXCEPT !.nitems = n, !.ngitems = ng]
      BY <2>3
    <3> HIDE DEF vs
    <3>2. /\ vs[k] \in Table /\ vs[k].name = name /\ vs[k].nitems = n /\ vs[k].ngitems = ng
      <4>1. us[k] \in Table /\ us[k].name = name /\ n \in Int /\ ng \in Int
        BY <1>1, <2>1, <2>3
      <4> QED
        BY <3>1, <4>1 DEF Table
    <3> QED
      BY <1>1, <1>2, <2>3, <3>2 DEF Sized
  <2> QED
    BY <2>2, <2>3
<1>11. /\ vs \in Seq(Table) /\ DOMAIN vs = DOMAIN us /\ Len(vs) = Len(us)
  <2>1. DOMAIN us = 1..Len(us) /\ Len(us) \in Nat
    OBVIOUS
  <2>2. vs \in [1..Len(us) -> Table]
    BY <1>10, <2>1
  <2> HIDE DEF vs
  <2> QED
    BY <2>1, <2>2
<1>12. PICK V : V = [P EXCEPT !.tables = vs]
  OBVIOUS
<1>13. pane' = [pane EXCEPT ![p] = refresh_connectivity(V)]
  BY <1>3, <1>5, <1>12 DEF set_table_size
<1> HIDE DEF vs
<1>14. V \in PaneState /\ V.tables = vs /\ V.parent = NoPane
  BY <1>4, <1>11, <1>12, WithTables
<1>15. Shaped(V.tables) /\ LayersKept(V)
  BY <1>8, <1>9, <1>10, <1>11, <1>14 DEF Shaped, LayersKept
<1>16. PICK Q : Q = refresh_connectivity(V)
  OBVIOUS
<1>17. Q \in PaneState /\ PaneOK(Q) /\ Q.parent = NoPane /\ Mirrors(vs, Q.tables)
  <2>1. vs # <<>>
    <3>1. us # <<>>
      <4>1. CASE name \in Names(pane[p])
        BY <1>4, <1>5, <4>1 DEF Names
      <4>2. CASE name \notin Names(pane[p])
        BY <1>4, <1>5, <1>6, <4>2
      <4> QED
        BY <4>1, <4>2
    <3>2. 1 \in DOMAIN us
      BY <3>1, SomeTable
    <3> QED
      BY <1>11, <3>2, SomeTable
  <2> QED
    BY <1>14, <1>15, <1>16, <2>1, RefreshedOK
<1>18. InUse(p) => Mirrors(ts, Q.tables)
  <2> SUFFICES ASSUME InUse(p) PROVE Mirrors(ts, Q.tables)
    OBVIOUS
  <2>1. us = ts
    BY <1>2, <1>4, <1>5 DEF MayInsert
  <2>2. Mirrors(ts, vs)
    BY <1>8, <1>10, <1>11, <2>1 DEF Mirrors
  <2>3. Q.tables \in Seq(Table)
    BY <1>17 DEF PaneState
  <2> QED
    BY <1>6, <1>11, <1>17, <2>2, <2>3, MirrorsMirrored
<1> QED
  BY <1>2, <1>13, <1>16, <1>17, <1>18, OnePaneStep

\* The table of a structured pane after connectivity("st2", true)
LEMMA StructuredTable ==
    ASSUME MeshInv, NEW p \in Pane, StructuredOnly(p), NEW P, P = Inserted(pane[p], "st2")
    PROVE  /\ P \in PaneState /\ P.parent = NoPane /\ P.ignore_ghost = pane[p].ignore_ghost
           /\ P.conn = pane[p].conn /\ P.nc = pane[p].nc
           /\ P.tables[1] \in Table /\ P.tables[1].name = "st2" /\ P.tables[1].ngitems \in 0..1
           /\ P.ignore_ghost => P.tables[1].ngitems = 0
           /\ \/ pane[p] = NewPane /\ P.tables[1] = NewTable("st2")
              \/ P = pane[p] /\ Len(P.tables) = 1
<1>1. pane[p] \in PaneState /\ PaneOK(pane[p]) /\ pane[p].tables \in Seq(Table) /\ pane[p].parent = NoPane
  BY PaneFacts DEF StructuredOnly
<1>2. "st2" \in Kinds
  BY DEF Kinds
<1>3. CASE pane[p].tables = <<>>
  <2>1. pane[p] = NewPane /\ Names(pane[p]) = {}
    BY <1>1, <1>3 DEF PaneOK, Names
  <2>2. /\ P \in PaneState /\ P.parent = NoPane /\ P.ignore_ghost = pane[p].ignore_ghost
        /\ P.conn = pane[p].conn /\ P.nc = pane[p].nc
        /\ Len(P.tables) = Len(pane[p].tables) + 1 /\ P.tables[Len(P.tables)] = NewTable("st2")
    BY <1>1, <1>2, <2>1, InsertedTables
  <2>3. P.tables[1] = NewTable("st2")
    BY <1>3, <2>2
  <2>4. P.tables[1] \in Table /\ P.tables[1].name = "st2" /\ P.tables[1].ngitems = 0
    BY <1>2, <2>3, NewTableFacts
  <2> QED
    BY <2>1, <2>2, <2>3, <2>4
<1>4. CASE pane[p].tables # <<>>
  <2>1. 1 \in DOMAIN pane[p].tables
    BY <1>1, <1>4
  <2>2. pane[p].tables[1] \in Table /\ pane[p].tables[1].name = "st2" /\ "st2" \in Names(pane[p])
    <3>1. pane[p].tables[1] \in Table
      BY <1>1, <2>1
    <3>2. pane[p].tables[1].name \in Names(pane[p])
      BY <2>1 DEF Names
    <3>3. pane[p].tables[1].name = "st2"
      BY <3>2 DEF StructuredOnly
    <3> QED
      BY <3>1, <3>2, <3>3
  <2>3. P = pane[p]
    BY <2>2 DEF Inserted
  <2>4. /\ Len(pane[p].tables) = 1 /\ pane[p].tables[1].ngitems \in 0..1
        /\ pane[p].ignore_ghost => pane[p].tables[1].ngitems = 0
    BY <1>1, <2>1, <2>2 DEF PaneOK, Shaped, Sized, LayersKept
  <2> QED
    BY <1>1, <2>2, <2>3, <2>4
<1> QED
  BY <1>3, <1>4

\* The tables of a structured mesh are one.
LEMMA SingleTable == \A t \in Table : <<t>> \in Seq(Table)
  OBVIOUS

\* A pane that has one table, of a structured mesh
LEMMA OneTable ==
    ASSUME NEW V \in PaneState, NEW t \in Table, t.name = "st2", t.ngitems \in 0..1, V.ignore_ghost => t.ngitems = 0,
           V.tables = <<t>>
    PROVE  /\ Len(V.tables) = 1 /\ DOMAIN V.tables = {1} /\ V.tables[1] = t
           /\ Shaped(V.tables) /\ LayersKept(V)
<1>1. Len(V.tables) = 1 /\ DOMAIN V.tables = {1} /\ V.tables[1] = t
  OBVIOUS
<1>2. Shaped(V.tables)
  BY <1>1 DEF Shaped, Sized
<1>3. LayersKept(V)
  BY <1>1 DEF LayersKept
<1> QED
  BY <1>1, <1>2, <1>3

\* Giving a structured mesh its dimensions preserves the invariant.
LEMMA MeshOfTableArray ==
    ASSUME MeshInv, NEW p \in Pane, NEW dims \in Dims, set_table_array(p, dims)
    PROVE  MeshInv'
<1>1. StructuredOnly(p) /\ pane[p].parent = NoPane /\ pane[p].tables \in Seq(Table)
  BY PaneFacts DEF set_table_array, StructuredOnly
<1>2. PICK P : P = Inserted(pane[p], "st2")
  OBVIOUS
<1>3. /\ P \in PaneState /\ P.parent = NoPane /\ P.ignore_ghost = pane[p].ignore_ghost
      /\ P.tables[1] \in Table /\ P.tables[1].name = "st2" /\ P.tables[1].ngitems \in 0..1
      /\ P.ignore_ghost => P.tables[1].ngitems = 0
      /\ pane[p] = NewPane \/ (P = pane[p] /\ Len(P.tables) = 1)
  BY <1>1, <1>2, StructuredTable
<1> DEFINE t == [P.tables[1] EXCEPT !.nitems = 2, !.dims = dims]
<1>5. t \in Table /\ t.name = "st2" /\ t.ngitems = P.tables[1].ngitems
  <2>1. P.tables[1] \in Table /\ P.tables[1].name = "st2"
    BY <1>3
  <2>2. PICK s \in Table : s = P.tables[1]
    BY <2>1
  <2>3. PICK n \in Int : n = 2
    OBVIOUS
  <2>4. PICK u : u = [s EXCEPT !.nitems = n, !.dims = dims]
    OBVIOUS
  <2>5. u \in Table /\ u.name = s.name /\ u.ngitems = s.ngitems
    BY <2>4 DEF Table
  <2>6. t = u
    BY <2>2, <2>3, <2>4
  <2> HIDE DEF t
  <2> QED
    BY <2>1, <2>2, <2>5, <2>6
<1>6. PICK V : V = [P EXCEPT !.tables = <<t>>]
  OBVIOUS
<1>8. PICK Q : Q = refresh_connectivity(V)
  OBVIOUS
<1>9. pane' = [pane EXCEPT ![p] = Q]
  BY <1>2, <1>6, <1>8 DEF set_table_array
<1> HIDE DEF t
<1>4. t.ngitems \in 0..1 /\ (P.ignore_ghost => t.ngitems = 0) /\ P \in PaneState /\ P.parent = NoPane
  BY <1>3, <1>5
<1>13. t \in Table /\ t.name = "st2"
  BY <1>5
<1>7. V \in PaneState /\ V.parent = NoPane /\ Len(V.tables) = 1 /\ DOMAIN V.tables = {1} /\ V.tables[1] = t
      /\ Shaped(V.tables) /\ LayersKept(V)
  <2>1. /\ V \in PaneState /\ V.parent = P.parent /\ V.ignore_ghost = P.ignore_ghost /\ V.conn = P.conn /\ V.nc = P.nc
        /\ Len(V.tables) = 1 /\ DOMAIN V.tables = {1} /\ V.tables[1] = t
        /\ Shaped(V.tables) /\ LayersKept(V)
    <3>1. PICK vs \in Seq(Table) : vs = <<t>>
      BY <1>13, SingleTable
    <3>2. V = [P EXCEPT !.tables = vs]
      BY <1>6, <3>1
    <3>3. /\ V \in PaneState /\ V.parent = P.parent /\ V.ignore_ghost = P.ignore_ghost /\ V.conn = P.conn /\ V.nc = P.nc
          /\ V.tables = vs
      BY <1>4, <3>2, WithTables
    <3>4. V \in PaneState /\ V.tables = <<t>> /\ (V.ignore_ghost => t.ngitems = 0)
      BY <1>4, <3>1, <3>3
    <3>5. /\ Len(V.tables) = 1 /\ DOMAIN V.tables = {1} /\ V.tables[1] = t
          /\ Shaped(V.tables) /\ LayersKept(V)
      BY <1>4, <1>13, <3>4, OneTable
    <3> QED
      BY <3>3, <3>5
  <2> QED
    BY <1>4, <2>1
<1>10. V.tables # <<>>
  BY <1>7
<1>11. Q \in PaneState /\ PaneOK(Q) /\ Q.parent = NoPane /\ Mirrors(V.tables, Q.tables)
  BY <1>7, <1>8, <1>10, RefreshedOK
<1>12. InUse(p) => Mirrors(pane[p].tables, Q.tables)
  <2> SUFFICES ASSUME InUse(p) PROVE Mirrors(pane[p].tables, Q.tables)
    OBVIOUS
  <2>1. pane[p] # NewPane
    BY UsedIsNotNew
  <2>2. Mirrors(pane[p].tables, V.tables)
    <3>1. Len(pane[p].tables) = 1 /\ pane[p].tables[1] = P.tables[1]
      BY <1>3, <2>1
    <3>2. DOMAIN pane[p].tables = {1}
      BY <1>1, <3>1
    <3>3. Len(V.tables) = 1 /\ V.tables[1] = t /\ t.name = P.tables[1].name /\ t.ngitems = P.tables[1].ngitems
      BY <1>3, <1>5, <1>7
    <3> QED
      BY <3>1, <3>2, <3>3 DEF Mirrors
  <2>3. Q.tables \in Seq(Table) /\ V.tables \in Seq(Table)
    BY <1>7, <1>11 DEF PaneState
  <2> QED
    BY <1>1, <1>11, <2>2, <2>3, MirrorsMirrored
<1> QED
  BY <1>1, <1>9, <1>11, <1>12, OnePaneStep

\* Giving a structured mesh its ghost layers preserves the invariant.
LEMMA MeshOfLayers ==
    ASSUME MeshInv, NEW p \in Pane, NEW g \in 0..1, set_layers(p, g)
    PROVE  MeshInv'
<1>1. /\ StructuredOnly(p) /\ pane[p].parent = NoPane /\ ~InUse(p) /\ (g = 0 \/ ~pane[p].ignore_ghost)
      /\ pane[p] \in PaneState /\ PaneOK(pane[p])
  BY PaneFacts DEF set_layers, StructuredOnly
<1>2. PICK P : P = Inserted(pane[p], "st2")
  OBVIOUS
<1>3. /\ P \in PaneState /\ P.parent = NoPane /\ P.ignore_ghost = pane[p].ignore_ghost
      /\ P.conn = pane[p].conn /\ P.nc = pane[p].nc
      /\ P.tables[1] \in Table /\ P.tables[1].name = "st2" /\ P.tables[1].ngitems \in 0..1
      /\ \/ pane[p] = NewPane /\ P.tables[1] = NewTable("st2")
         \/ P = pane[p] /\ Len(P.tables) = 1
  BY <1>1, <1>2, StructuredTable
<1> DEFINE t == [P.tables[1] EXCEPT !.nitems = 2, !.ngitems = g]
<1>5. t \in Table /\ t.name = "st2" /\ t.ngitems = g /\ t.dims = P.tables[1].dims /\ t.offset = P.tables[1].offset
  <2>1. P.tables[1] \in Table /\ P.tables[1].name = "st2"
    BY <1>3
  <2>2. PICK s \in Table : s = P.tables[1]
    BY <2>1
  <2>3. PICK n \in Int : n = 2
    OBVIOUS
  <2>4. PICK u : u = [s EXCEPT !.nitems = n, !.ngitems = g]
    OBVIOUS
  <2>5. g \in Int
    OBVIOUS
  <2>6. u \in Table /\ u.name = s.name /\ u.ngitems = g /\ u.dims = s.dims /\ u.offset = s.offset
    BY <2>4, <2>5 DEF Table
  <2>7. t = u
    BY <2>2, <2>3, <2>4
  <2> HIDE DEF t
  <2> QED
    BY <2>1, <2>2, <2>6, <2>7
<1>6. PICK V : V = [P EXCEPT !.tables = <<t>>]
  OBVIOUS
<1>9. pane' = [pane EXCEPT ![p] = IF t.dims = <<>> THEN V ELSE refresh_connectivity(V)]
  BY <1>2, <1>6 DEF set_layers
<1> HIDE DEF t
<1>4. t.ngitems \in 0..1 /\ (P.ignore_ghost => t.ngitems = 0) /\ P \in PaneState /\ P.parent = NoPane
  BY <1>1, <1>3, <1>5
<1>12. t \in Table /\ t.name = "st2"
  BY <1>5
<1>7. /\ V \in PaneState /\ V.parent = NoPane /\ V.conn = P.conn /\ V.nc = P.nc /\ V.ignore_ghost = P.ignore_ghost
      /\ Len(V.tables) = 1 /\ DOMAIN V.tables = {1} /\ V.tables[1] = t
      /\ Shaped(V.tables) /\ LayersKept(V)
  <2>1. /\ V \in PaneState /\ V.parent = P.parent /\ V.ignore_ghost = P.ignore_ghost /\ V.conn = P.conn /\ V.nc = P.nc
        /\ Len(V.tables) = 1 /\ DOMAIN V.tables = {1} /\ V.tables[1] = t
        /\ Shaped(V.tables) /\ LayersKept(V)
    <3>1. PICK vs \in Seq(Table) : vs = <<t>>
      BY <1>12, SingleTable
    <3>2. V = [P EXCEPT !.tables = vs]
      BY <1>6, <3>1
    <3>3. /\ V \in PaneState /\ V.parent = P.parent /\ V.ignore_ghost = P.ignore_ghost /\ V.conn = P.conn /\ V.nc = P.nc
          /\ V.tables = vs
      BY <1>4, <3>2, WithTables
    <3>4. V \in PaneState /\ V.tables = <<t>> /\ (V.ignore_ghost => t.ngitems = 0)
      BY <1>4, <3>1, <3>3
    <3>5. /\ Len(V.tables) = 1 /\ DOMAIN V.tables = {1} /\ V.tables[1] = t
          /\ Shaped(V.tables) /\ LayersKept(V)
      BY <1>4, <1>12, <3>4, OneTable
    <3> QED
      BY <3>3, <3>5
  <2> QED
    BY <1>4, <2>1
<1>8. V.tables # <<>>
  BY <1>7
<1>10. CASE t.dims # <<>>
  <2>1. PICK Q : Q = refresh_connectivity(V)
    OBVIOUS
  <2>2. Q \in PaneState /\ PaneOK(Q) /\ Q.parent = NoPane
    BY <1>7, <1>8, <2>1, RefreshedOK
  <2>3. pane' = [pane EXCEPT ![p] = Q]
    BY <1>7, <1>9, <1>10, <2>1
  <2> QED
    BY <1>1, <2>2, <2>3, OnePaneStep
<1>11. CASE t.dims = <<>>
  <2> DEFINE zero == [nitems |-> 0, ngitems |-> 0]
  <2>1. \A h : Cells(<<>>, h) = 0 /\ NodesWithin(<<>>, h) = 0
    BY DEF Cells, NodesWithin
  <2>2. \A f : Added(f, 0) = 0 /\ Added(f, 1) = f[1] + 0 + 0
    BY DEF Added
  <2>3. \A ignore : /\ size_of_elements(t, ignore) = 0 /\ size_of_ghost_elements(t, t, ignore) = 0
    BY <1>5, <1>11, <2>1 DEF size_of_elements, size_of_ghost_elements
  <2>4. V.conn = zero /\ V.nc = zero /\ t.offset = 0
    <3>1. CASE pane[p] = NewPane /\ P.tables[1] = NewTable("st2")
      <4>1. NewPane.conn = zero /\ NewPane.nc = zero /\ NewTable("st2").offset = 0
        BY DEF NewPane, NewTable
      <4> QED
        BY <1>3, <1>5, <1>7, <3>1, <4>1
    <3>2. CASE P = pane[p] /\ Len(P.tables) = 1
      <4>1. PICK s : s = P.tables[1]
        OBVIOUS
      <4>2. s.name = "st2" /\ s.dims = <<>> /\ P.tables \in Seq(Table) /\ DOMAIN P.tables = {1}
        <5>1. P.tables \in Seq(Table)
          BY <1>3 DEF PaneState
        <5>2. DOMAIN P.tables = {1}
          BY <3>2, <5>1
        <5> QED
          BY <1>3, <1>5, <1>11, <4>1, <5>1, <5>2
      <4>3. \A ignore : /\ size_of_elements(s, ignore) = 0 /\ size_of_ghost_elements(s, s, ignore) = 0
        BY <2>1, <4>2 DEF size_of_elements, size_of_ghost_elements
      <4>4. \A ignore : Elements(P.tables, ignore)[1] = 0 /\ Ghosts(P.tables, ignore)[1] = 0
        BY <4>1, <4>2, <4>3 DEF Elements, Ghosts
      <4>5. Counted(P) /\ is_structured(P)
        BY <1>1, <3>2, <4>1, <4>2 DEF PaneOK, is_structured
      <4>6. \A ignore : Added(Elements(P.tables, ignore), 1) = 0 /\ Added(Ghosts(P.tables, ignore), 1) = 0
        BY <2>2, <4>4
      <4>7. P.conn = zero /\ P.nc = zero
        BY <2>1, <3>2, <4>1, <4>2, <4>5, <4>6 DEF Counted
      <4>8. s.offset = 0
        <5>1. s.offset = Added(Elements(P.tables, P.ignore_ghost), 1 - 1)
          BY <4>1, <4>2, <4>5 DEF Counted
        <5> QED
          BY <2>2, <5>1
      <4> QED
        BY <1>5, <1>7, <4>1, <4>7, <4>8
    <3> QED
      BY <1>3, <3>1, <3>2
  <2>5. \A ignore : Elements(V.tables, ignore)[1] = 0 /\ Ghosts(V.tables, ignore)[1] = 0
    BY <1>7, <2>3 DEF Elements, Ghosts
  <2>6. \A ignore : Added(Elements(V.tables, ignore), 1) = 0 /\ Added(Ghosts(V.tables, ignore), 1) = 0
    BY <2>2, <2>5
  <2>7. Counted(V)
    <3>1. \A k \in DOMAIN V.tables : V.tables[k].offset = Added(Elements(V.tables, V.ignore_ghost), k - 1)
      <4>1. 1 - 1 = 0
        OBVIOUS
      <4> QED
        BY <1>7, <2>2, <2>4, <4>1
    <3>2. V.conn = [nitems |-> Added(Elements(V.tables, V.ignore_ghost), Len(V.tables)),
                    ngitems |-> Added(Ghosts(V.tables, V.ignore_ghost), Len(V.tables))]
      BY <1>7, <2>4, <2>6
    <3>3. V.nc = [nitems |-> NodesWithin(V.tables[1].dims, 0),
                  ngitems |-> NodesWithin(V.tables[1].dims, 0) - NodesWithin(V.tables[1].dims, V.tables[1].ngitems)]
      BY <1>7, <1>11, <2>1, <2>4
    <3> QED
      BY <3>1, <3>2, <3>3 DEF Counted
  <2>8. PaneOK(V)
    BY <1>7, <1>8, <2>7 DEF PaneOK
  <2>9. pane' = [pane EXCEPT ![p] = V]
    BY <1>7, <1>9, <1>11
  <2> QED
    BY <1>1, <1>7, <2>8, <2>9, OnePaneStep
<1> QED
  BY <1>10, <1>11

\* The sizes a clone takes from its source, with or without ghosts
LEMMA ClonedSizes ==
    ASSUME NEW d, d.nitems \in Int, d.ngitems \in Int, NEW ignore \in BOOLEAN, NEW withghost \in BOOLEAN,
           NEW c, c = Cloned(d, ignore, withghost)
    PROVE  /\ c \in Sizes2 /\ c.nitems \in Int /\ c.ngitems \in Int
           /\ c.ngitems \in {0, d.ngitems} /\ (~withghost => c.ngitems = 0)
           /\ d.nitems \in Nat /\ d.ngitems \in 0..d.nitems =>
                \/ c.nitems = d.nitems /\ c.ngitems = d.ngitems
                \/ c.nitems = d.nitems - d.ngitems /\ c.ngitems = 0
<1>1. PICK n \in Int, g \in Int : n = d.nitems /\ g = d.ngitems
  OBVIOUS
<1>2. Max({0, n}) = IF n <= 0 THEN 0 ELSE n
  BY MaxMin
<1>3. CASE withghost /\ ~ignore
  <2>1. c = [nitems |-> Max({0, n}), ngitems |-> g]
    BY <1>1, <1>3 DEF Cloned, all_items, ghost_items
  <2>2. PICK m \in Int : m = Max({0, n}) /\ (n \in Nat => m = n)
    BY <1>2
  <2>3. c = [nitems |-> m, ngitems |-> g]
    BY <2>1, <2>2
  <2>4. c \in Sizes2 /\ c.nitems = m /\ c.ngitems = g
    BY <2>3 DEF Sizes2
  <2> QED
    BY <1>1, <1>3, <2>2, <2>4
<1>4. CASE ~withghost \/ ignore
  <2>1. c = [nitems |-> IF n <= 0 THEN 0 ELSE n - g, ngitems |-> 0]
    BY <1>1, <1>4 DEF Cloned, all_items, ghost_items, real_items
  <2> QED
    BY <1>1, <1>4, <2>1 DEF Sizes2
<1> QED
  BY <1>3, <1>4

\* What is known of p and q when p takes over the mesh of q
LEMMA InheritFacts ==
    ASSUME MeshInv, NEW p \in Pane, NEW q \in Pane, NEW withghost \in BOOLEAN, MayInherit(p, q, withghost)
    PROVE  /\ pane[p] \in PaneState /\ pane[p].parent = NoPane /\ p # q /\ ~InUse(p)
           /\ Root(q) \in Pane
           /\ pane[q].tables \in Seq(Table) /\ pane[Root(q)].tables \in Seq(Table)
           /\ pane[Root(q)] \in PaneState
           /\ Shaped(pane[Root(q)].tables)
           /\ Mirrors(pane[q].tables, pane[Root(q)].tables)
           /\ DOMAIN pane[q].tables = DOMAIN pane[Root(q)].tables /\ 1 \in DOMAIN pane[q].tables
           /\ ~withghost => \A k \in DOMAIN pane[q].tables :
                pane[Root(q)].tables[k].name = "st2" => pane[Root(q)].tables[k].ngitems = 0
<1>1. p # q /\ ~InUse(p) /\ pane[p] = NewPane /\ pane[q].tables # <<>>
  BY DEF MayInherit
<1>2. pane[p] \in PaneState /\ pane[p].parent = NoPane
  BY <1>1, NewPaneOK
<1>3. RootKnown(q)
  BY RootsKnown
<1>4. Root(q) \in Pane /\ Mirrors(pane[q].tables, pane[Root(q)].tables)
  BY <1>3 DEF RootKnown
<1>5. /\ pane[q].tables \in Seq(Table) /\ pane[Root(q)].tables \in Seq(Table) /\ Shaped(pane[Root(q)].tables)
      /\ pane[Root(q)] \in PaneState
  BY <1>4, PaneFacts
<1>6. Len(pane[q].tables) = Len(pane[Root(q)].tables)
  BY <1>4 DEF Mirrors
<1>7. DOMAIN pane[q].tables = DOMAIN pane[Root(q)].tables
  BY <1>5, <1>6
<1>8. 1 \in DOMAIN pane[q].tables
  BY <1>1, <1>5, SomeTable
<1>9. ASSUME ~withghost, NEW k \in DOMAIN pane[q].tables, pane[Root(q)].tables[k].name = "st2"
      PROVE  pane[Root(q)].tables[k].ngitems = 0
  <2>1. pane[q].tables[k].name = "st2" /\ pane[q].tables[k].ngitems = pane[Root(q)].tables[k].ngitems
    BY <1>4, <1>9 DEF Mirrors
  <2>2. "st2" \in Names(pane[q])
    BY <2>1 DEF Names
  <2>3. pane[q].tables[1].ngitems = 0
    BY <1>9, <2>2 DEF MayInherit
  <2>4. Len(pane[Root(q)].tables) = 1
    BY <1>5, <1>7, <1>9 DEF Shaped
  <2>5. k = 1
    BY <1>5, <1>7, <2>4
  <2> QED
    BY <2>1, <2>3, <2>5
<1> QED
  BY <1>1, <1>2, <1>4, <1>5, <1>7, <1>8, <1>9

\* Using the mesh of another pane preserves the invariant.
LEMMA MeshOfUse ==
    ASSUME MeshInv, NEW p \in Pane, NEW q \in Pane, NEW withghost \in BOOLEAN, use_mesh(p, q, withghost)
    PROVE  MeshInv'
<1> DEFINE ts == pane[q].tables
           rs == pane[Root(q)].tables
           us == [k \in DOMAIN ts |-> [rs[k] EXCEPT !.offset = ts[k].offset, !.dims = <<>>]]
<1>1. MayInherit(p, q, withghost)
  BY DEF use_mesh
<1>2. /\ pane[p] \in PaneState /\ pane[p].parent = NoPane /\ p # q /\ ~InUse(p)
      /\ ts \in Seq(Table) /\ rs \in Seq(Table) /\ Shaped(rs) /\ Mirrors(ts, rs)
      /\ DOMAIN ts = DOMAIN rs /\ 1 \in DOMAIN ts
      /\ ~withghost => \A k \in DOMAIN ts : rs[k].name = "st2" => rs[k].ngitems = 0
  BY <1>1, InheritFacts
<1>3. ASSUME NEW k \in DOMAIN ts
      PROVE  /\ us[k] \in Table /\ us[k].name = rs[k].name /\ us[k].nitems = rs[k].nitems /\ us[k].ngitems = rs[k].ngitems
  <2>1. PICK r \in Table, o \in Int : r = rs[k] /\ o = ts[k].offset
    <3>1. ts[k] \in Table /\ rs[k] \in Table
      BY <1>2
    <3> QED
      BY <3>1 DEF Table
  <2>2. PICK u : u = [r EXCEPT !.offset = o, !.dims = <<>>]
    OBVIOUS
  <2>3. u \in Table /\ u.name = r.name /\ u.nitems = r.nitems /\ u.ngitems = r.ngitems
    BY <2>2 DEF Table
  <2>4. us[k] = u
    BY <2>1, <2>2
  <2> HIDE DEF us
  <2> QED
    BY <2>1, <2>3, <2>4
<1>4. us \in Seq(Table) /\ DOMAIN us = DOMAIN ts /\ Len(us) = Len(ts)
  <2>1. DOMAIN ts = 1..Len(ts) /\ Len(ts) \in Nat
    BY <1>2
  <2>2. us \in [1..Len(ts) -> Table]
    BY <1>3, <2>1
  <2> HIDE DEF us
  <2> QED
    BY <2>1, <2>2
<1>5. PICK P : P = [pane[p] EXCEPT !.tables = us, !.parent = q, !.ignore_ghost = ~withghost]
  OBVIOUS
<1>6. pane' = [pane EXCEPT ![p] = P]
  BY <1>5 DEF use_mesh
<1> HIDE DEF us
<1>7. P \in PaneState /\ P.tables = us /\ P.parent = q /\ P.ignore_ghost = ~withghost
  <2>1. PICK b \in BOOLEAN : b = ~withghost
    OBVIOUS
  <2>2. P = [pane[p] EXCEPT !.tables = us, !.parent = q, !.ignore_ghost = b]
    BY <1>5, <2>1
  <2>3. P \in PaneState /\ P.tables = us /\ P.parent = q /\ P.ignore_ghost = b
    <3>1. PICK N \in PaneState, vs \in Seq(Table) : N = pane[p] /\ vs = us
      BY <1>2, <1>4
    <3>2. P = [N EXCEPT !.tables = vs, !.parent = q, !.ignore_ghost = b]
      BY <2>2, <3>1
    <3>3. P \in PaneState /\ P.tables = vs /\ P.parent = q /\ P.ignore_ghost = b
      BY <3>2 DEF PaneState
    <3> QED
      BY <3>1, <3>3
  <2> QED
    BY <2>1, <2>3
<1>8. Shaped(us)
  <2>1. Len(us) = Len(rs)
    BY <1>2, <1>4 DEF Mirrors
  <2> QED
    BY <1>2, <1>3, <1>4, <2>1 DEF Shaped, Sized
<1>9. Mirrors(us, ts)
  BY <1>2, <1>3, <1>4 DEF Mirrors
<1>10. LayersKept(P)
  BY <1>2, <1>3, <1>4, <1>7 DEF LayersKept
<1>11. us # <<>>
  BY <1>2, <1>4, SomeTable
<1>12. q # NoPane
  BY MeshAssumption
<1>13. PaneOK(P)
  BY <1>7, <1>8, <1>10, <1>11, <1>12 DEF PaneOK
<1> QED
  BY <1>2, <1>6, <1>7, <1>9, <1>13, OnePaneStep

\* Cloning the mesh of another pane preserves the invariant.
LEMMA MeshOfClone ==
    ASSUME MeshInv, NEW p \in Pane, NEW q \in Pane, NEW withghost \in BOOLEAN, clone_mesh(p, q, withghost)
    PROVE  MeshInv'
<1> DEFINE ts == pane[q].tables
           R == pane[Root(q)]
           rs == R.tables
           C(k) == Cloned(rs[k], Ignores(q), withghost)
           us == [k \in DOMAIN rs |-> [rs[k] EXCEPT !.nitems = C(k).nitems, !.ngitems = C(k).ngitems, !.offset = ts[k].offset]]
<1>1. MayInherit(p, q, withghost)
  BY DEF clone_mesh
<1>2. /\ pane[p] \in PaneState /\ pane[p].parent = NoPane /\ p # q /\ ~InUse(p) /\ Root(q) \in Pane /\ R \in PaneState
      /\ ts \in Seq(Table) /\ rs \in Seq(Table) /\ Shaped(rs)
      /\ DOMAIN ts = DOMAIN rs /\ 1 \in DOMAIN ts
  BY <1>1, InheritFacts
<1>3. Ignores(q) \in BOOLEAN
  BY DEF Ignores
<1>4. ASSUME NEW k \in DOMAIN rs
      PROVE  /\ us[k] \in Table /\ us[k].name = rs[k].name /\ Sized(us[k])
             /\ ~withghost => us[k].ngitems = 0
  <2>1. PICK r \in Table, o \in Int : r = rs[k] /\ o = ts[k].offset /\ Sized(r)
    <3>1. ts[k] \in Table /\ rs[k] \in Table /\ Sized(rs[k])
      BY <1>2 DEF Shaped
    <3> QED
      BY <3>1 DEF Table
  <2>2. PICK c : c = C(k)
    OBVIOUS
  <2>3. r.nitems \in Int /\ r.ngitems \in Int
    BY DEF Table
  <2>4. c = Cloned(r, Ignores(q), withghost)
    BY <2>1, <2>2
  <2>5. /\ c.nitems \in Int /\ c.ngitems \in Int
        /\ c.ngitems \in {0, r.ngitems} /\ (~withghost => c.ngitems = 0)
        /\ r.nitems \in Nat /\ r.ngitems \in 0..r.nitems =>
             \/ c.nitems = r.nitems /\ c.ngitems = r.ngitems
             \/ c.nitems = r.nitems - r.ngitems /\ c.ngitems = 0
    BY <1>3, <2>3, <2>4, ClonedSizes
  <2>6. PICK m \in Int, g \in Int : m = c.nitems /\ g = c.ngitems
    BY <2>5
  <2>7. PICK u : u = [r EXCEPT !.nitems = m, !.ngitems = g, !.offset = o]
    OBVIOUS
  <2>8. u \in Table /\ u.name = r.name /\ u.nitems = m /\ u.ngitems = g
    BY <2>7 DEF Table
  <2>9. us[k] = u
    BY <2>1, <2>2, <2>6, <2>7
  <2>10. Sized(u)
    <3>1. CASE r.name = "st2"
      BY <2>1, <2>5, <2>6, <2>8, <3>1 DEF Sized
    <3>2. CASE r.name # "st2"
      <4>1. /\ r.nitems \in Nat /\ r.ngitems \in 0..r.nitems /\ (r.name = "t3" => r.ngitems = 0)
            /\ r.name = "v3" => r.ngitems = r.nitems
        BY <2>1, <3>2 DEF Sized
      <4>2. CASE m = r.nitems /\ g = r.ngitems
        BY <2>8, <3>2, <4>1, <4>2 DEF Sized
      <4>3. CASE m = r.nitems - r.ngitems /\ g = 0
        <5>1. m \in Nat /\ g \in 0..m /\ (r.name = "v3" => m = 0)
          BY <4>1, <4>3
        <5> QED
          BY <2>8, <3>2, <4>3, <5>1 DEF Sized
      <4> QED
        BY <2>5, <2>6, <4>1, <4>2, <4>3
    <3> QED
      BY <3>1, <3>2
  <2> HIDE DEF us
  <2> QED
    BY <2>1, <2>5, <2>6, <2>8, <2>9, <2>10
<1>5. us \in Seq(Table) /\ DOMAIN us = DOMAIN rs /\ Len(us) = Len(rs)
  <2>1. DOMAIN rs = 1..Len(rs) /\ Len(rs) \in Nat
    BY <1>2
  <2>2. us \in [1..Len(rs) -> Table]
    BY <1>4, <2>1
  <2> HIDE DEF us
  <2> QED
    BY <2>1, <2>2
<1> DEFINE nodes == Cloned(R.nc, Ignores(q), withghost)
<1>6. PICK V : V = [pane[p] EXCEPT !.tables = us, !.ignore_ghost = ~withghost, !.nc = nodes]
  OBVIOUS
<1>7. PICK Q : Q = refresh_connectivity(V)
  OBVIOUS
<1>8. pane' = [pane EXCEPT ![p] = Q]
  BY <1>6, <1>7 DEF clone_mesh
<1> HIDE DEF us
<1>9. nodes \in Sizes2
  <2>1. R.nc.nitems \in Int /\ R.nc.ngitems \in Int
    BY <1>2 DEF PaneState, Sizes2
  <2> QED
    BY <1>3, <2>1, ClonedSizes
<1> HIDE DEF nodes
<1>10. V \in PaneState /\ V.tables = us /\ V.parent = NoPane /\ V.ignore_ghost = ~withghost
  <2>1. PICK b \in BOOLEAN : b = ~withghost
    OBVIOUS
  <2>2. V = [pane[p] EXCEPT !.tables = us, !.ignore_ghost = b, !.nc = nodes]
    BY <1>6, <2>1
  <2>3. V \in PaneState /\ V.tables = us /\ V.parent = pane[p].parent /\ V.ignore_ghost = b
    <3>1. PICK N \in PaneState, vs \in Seq(Table), c \in Sizes2 : N = pane[p] /\ vs = us /\ c = nodes
      BY <1>2, <1>5, <1>9
    <3>2. V = [N EXCEPT !.tables = vs, !.ignore_ghost = b, !.nc = c]
      BY <2>2, <3>1
    <3>3. V \in PaneState /\ V.tables = vs /\ V.parent = N.parent /\ V.ignore_ghost = b
      BY <3>2 DEF PaneState
    <3> QED
      BY <3>1, <3>3
  <2> QED
    BY <1>2, <2>1, <2>3
<1>11. Shaped(us)
  BY <1>2, <1>4, <1>5 DEF Shaped
<1>12. LayersKept(V)
  BY <1>4, <1>5, <1>10 DEF LayersKept
<1>13. us # <<>>
  BY <1>2, <1>5, SomeTable
<1>14. Q \in PaneState /\ PaneOK(Q) /\ Q.parent = NoPane
  BY <1>7, <1>10, <1>11, <1>12, <1>13, RefreshedOK
<1> QED
  BY <1>2, <1>8, <1>14, OnePaneStep

\* Every call on meshes preserves the invariant.
LEMMA MeshStep == MeshInv /\ [MeshNext]_pane => MeshInv'
<1> SUFFICES ASSUME MeshInv, [MeshNext]_pane PROVE MeshInv'
  OBVIOUS
<1>1. CASE UNCHANGED pane
  BY <1>1 DEF MeshInv, MeshAcyclic, MeshDescends
<1>2. CASE MeshNext
  <2>1. PICK p \in Pane :
          \/ \E name \in Range(TableNames), n \in Counts : \E ng \in 0..n : set_table_size(p, name, n, ng)
          \/ \E g \in 0..1 : set_layers(p, g)
          \/ \E dims \in Dims : set_table_array(p, dims)
          \/ \E q \in Pane, withghost \in BOOLEAN : use_mesh(p, q, withghost) \/ clone_mesh(p, q, withghost)
    BY <1>2 DEF MeshNext
  <2> QED
    BY <2>1, MeshOfTableSize, MeshOfLayers, MeshOfTableArray, MeshOfUse, MeshOfClone
<1> QED
  BY <1>1, <1>2

\* Offsets and sizes follow from the tables after every call that sets, uses
\* or clones them (refresh_connectivity, inherit), and users show the tables
\* of the pane they use.
THEOREM MeshInvariant == MeshSpec => []MeshInv
<1> QED
  BY MeshInitOK, MeshStep, PTL DEF MeshSpec

------------------------------------------------------------------------------
(* Elements are numbered through the tables *)

\* Three tables with e elements each, of which r are real and come first.  In
\* a pane that counts all elements, or the real ones, element i is in one table.
LEMMA Tiling ==
    ASSUME NEW e1 \in Nat, NEW e2 \in Nat, NEW e3 \in Nat, NEW r1 \in Nat, NEW r2 \in Nat, NEW r3 \in Nat,
           NEW a1 \in Nat, NEW a2 \in Nat, NEW a3 \in Nat,
           r1 <= e1, r2 <= e2, r3 <= e3, e1 > r1 => r2 = 0 /\ r3 = 0, e2 > r2 => r3 = 0,
           \/ a1 = e1 /\ a2 = e2 /\ a3 = e3
           \/ a1 = r1 /\ a2 = r2 /\ a3 = r3,
           NEW i \in Nat, 1 <= i, i <= a1 + a2 + a3
    PROVE  \/ /\ 0 < i /\ i <= a1 /\ ~(e1 < i /\ i <= e1 + a2) /\ ~(e1 + e2 < i /\ i <= e1 + e2 + a3)
              /\ i <= r1 + r2 + r3 <=> i <= r1
           \/ /\ ~(i <= a1) /\ e1 < i /\ i <= e1 + a2 /\ ~(e1 + e2 < i /\ i <= e1 + e2 + a3)
              /\ i <= r1 + r2 + r3 <=> i - e1 <= r2
           \/ /\ ~(i <= a1) /\ ~(e1 < i /\ i <= e1 + a2) /\ e1 + e2 < i /\ i <= e1 + e2 + a3
              /\ i <= r1 + r2 + r3 <=> i - (e1 + e2) <= r3
<1>1. CASE a1 = e1 /\ a2 = e2 /\ a3 = e3
  BY <1>1
<1>2. CASE a1 = r1 /\ a2 = r2 /\ a3 = r3
  BY <1>2
<1> QED
  BY <1>1, <1>2

\* The numbers n of elements of tables: e as numbered, a as counted, r real
Numbered(n, e, a, r) ==
    /\ \A k \in 1..n : e[k] \in Nat /\ a[k] \in Nat /\ r[k] \in Nat /\ r[k] <= e[k]
    /\ \A j, k \in 1..n : j < k /\ e[j] > r[j] => r[k] = 0
    /\ (\A k \in 1..n : a[k] = e[k]) \/ (\A k \in 1..n : a[k] = r[k])

\* The same of a sequence of tables
LEMMA Tiles ==
    ASSUME NEW n \in 0..3, NEW e, NEW a, NEW r, Numbered(n, e, a, r), NEW i \in Nat, 1 <= i, i <= Added(a, n)
    PROVE  \E k \in 1..n :
             /\ {j \in 1..n : Added(e, j - 1) < i /\ i <= Added(e, j - 1) + a[j]} = {k}
             /\ i <= Added(r, n) <=> i - Added(e, k - 1) <= r[k]
<1> DEFINE S == {j \in 1..n : Added(e, j - 1) < i /\ i <= Added(e, j - 1) + a[j]}
           Pad(f, k) == IF n >= k THEN f[k] ELSE 0
<1>1. /\ n >= 1 => e[1] \in Nat /\ a[1] \in Nat /\ r[1] \in Nat /\ r[1] <= e[1]
      /\ n >= 2 => e[2] \in Nat /\ a[2] \in Nat /\ r[2] \in Nat /\ r[2] <= e[2]
      /\ n >= 3 => e[3] \in Nat /\ a[3] \in Nat /\ r[3] \in Nat /\ r[3] <= e[3]
  BY DEF Numbered
<1>2. /\ n >= 2 => (e[1] > r[1] => r[2] = 0)
      /\ n >= 3 => (e[1] > r[1] => r[3] = 0) /\ (e[2] > r[2] => r[3] = 0)
  BY DEF Numbered
<1>3. PICK e1 \in Nat, e2 \in Nat, e3 \in Nat : e1 = Pad(e, 1) /\ e2 = Pad(e, 2) /\ e3 = Pad(e, 3)
  BY <1>1
<1>4. PICK a1 \in Nat, a2 \in Nat, a3 \in Nat : a1 = Pad(a, 1) /\ a2 = Pad(a, 2) /\ a3 = Pad(a, 3)
  BY <1>1
<1>5. PICK r1 \in Nat, r2 \in Nat, r3 \in Nat : r1 = Pad(r, 1) /\ r2 = Pad(r, 2) /\ r3 = Pad(r, 3)
  BY <1>1
<1>6. Added(a, n) = a1 + a2 + a3 /\ Added(r, n) = r1 + r2 + r3
  BY <1>4, <1>5 DEF Added
<1>7. \/ a1 = e1 /\ a2 = e2 /\ a3 = e3
      \/ a1 = r1 /\ a2 = r2 /\ a3 = r3
  BY <1>3, <1>4, <1>5 DEF Numbered
<1>8. r1 <= e1 /\ r2 <= e2 /\ r3 <= e3 /\ (e1 > r1 => r2 = 0 /\ r3 = 0) /\ (e2 > r2 => r3 = 0)
  BY <1>1, <1>2, <1>3, <1>5
<1>9. /\ n >= 1 => Added(e, 1 - 1) = 0
      /\ n >= 2 => Added(e, 2 - 1) = e1
      /\ n >= 3 => Added(e, 3 - 1) = e1 + e2
  BY <1>1, <1>3 DEF Added
<1>10. \A k \in 1..n : k = 1 \/ k = 2 \/ k = 3
  OBVIOUS
<1>11. /\ n >= 1 => a[1] = a1 /\ r[1] = r1 /\ 1 \in 1..n
       /\ n >= 2 => a[2] = a2 /\ r[2] = r2 /\ 2 \in 1..n
       /\ n >= 3 => a[3] = a3 /\ r[3] = r3 /\ 3 \in 1..n
       /\ ~(n >= 1) => a1 = 0 /\ 1 \notin 1..n
       /\ ~(n >= 2) => a2 = 0 /\ 2 \notin 1..n
       /\ ~(n >= 3) => a3 = 0 /\ 3 \notin 1..n
  BY <1>4, <1>5
<1>12. /\ 1 \in S <=> 0 < i /\ i <= a1
       /\ 2 \in S <=> e1 < i /\ i <= e1 + a2
       /\ 3 \in S <=> e1 + e2 < i /\ i <= e1 + e2 + a3
  <2>1. 1 \in S <=> 0 < i /\ i <= a1
    BY <1>9, <1>11
  <2>2. 2 \in S <=> e1 < i /\ i <= e1 + a2
    BY <1>9, <1>11
  <2>3. 3 \in S <=> e1 + e2 < i /\ i <= e1 + e2 + a3
    BY <1>9, <1>11
  <2> QED
    BY <2>1, <2>2, <2>3
<1>13. \A k \in S : k \in 1..n /\ (k = 1 \/ k = 2 \/ k = 3)
  BY <1>10
<1> HIDE DEF S, Pad
<1>14. \/ /\ 1 \in S /\ 2 \notin S /\ 3 \notin S
          /\ i <= Added(r, n) <=> i <= r1
       \/ /\ 1 \notin S /\ 2 \in S /\ 3 \notin S
          /\ i <= Added(r, n) <=> i - e1 <= r2
       \/ /\ 1 \notin S /\ 2 \notin S /\ 3 \in S
          /\ i <= Added(r, n) <=> i - (e1 + e2) <= r3
  BY <1>6, <1>7, <1>8, <1>12, Tiling
<1>15. CASE 1 \in S /\ 2 \notin S /\ 3 \notin S /\ (i <= Added(r, n) <=> i <= r1)
  <2>1. n >= 1 /\ S = {1}
    <3>1. n >= 1
      BY <1>11, <1>13, <1>15
    <3>2. \A k \in S : k = 1
      BY <1>13, <1>15
    <3>3. S = {1}
      BY <1>15, <3>2
    <3> QED
      BY <3>1, <3>3
  <2>2. i - Added(e, 1 - 1) = i /\ r[1] = r1
    BY <1>9, <1>11, <2>1
  <2>3. S = {1} /\ (i <= Added(r, n) <=> i - Added(e, 1 - 1) <= r[1]) /\ 1 \in 1..n
    BY <1>11, <1>15, <2>1, <2>2
  <2> QED
    BY <2>3 DEF S
<1>16. CASE 1 \notin S /\ 2 \in S /\ 3 \notin S /\ (i <= Added(r, n) <=> i - e1 <= r2)
  <2>1. n >= 2 /\ S = {2}
    <3>1. n >= 2
      BY <1>11, <1>13, <1>16
    <3>2. \A k \in S : k = 2
      BY <1>13, <1>16
    <3>3. S = {2}
      BY <1>16, <3>2
    <3> QED
      BY <3>1, <3>3
  <2>2. Added(e, 2 - 1) = e1 /\ r[2] = r2
    BY <1>9, <1>11, <2>1
  <2>3. S = {2} /\ (i <= Added(r, n) <=> i - Added(e, 2 - 1) <= r[2]) /\ 2 \in 1..n
    BY <1>11, <1>16, <2>1, <2>2
  <2> QED
    BY <2>3 DEF S
<1>17. CASE 1 \notin S /\ 2 \notin S /\ 3 \in S /\ (i <= Added(r, n) <=> i - (e1 + e2) <= r3)
  <2>1. n >= 3 /\ S = {3}
    <3>1. n >= 3
      BY <1>11, <1>13, <1>17
    <3>2. \A k \in S : k = 3
      BY <1>13, <1>17
    <3>3. S = {3}
      BY <1>17, <3>2
    <3> QED
      BY <3>1, <3>3
  <2>2. Added(e, 3 - 1) = e1 + e2 /\ r[3] = r3
    BY <1>9, <1>11, <2>1
  <2>3. S = {3} /\ (i <= Added(r, n) <=> i - Added(e, 3 - 1) <= r[3]) /\ 3 \in 1..n
    BY <1>11, <1>17, <2>1, <2>2
  <2> QED
    BY <2>3 DEF S
<1> QED
  BY <1>14, <1>15, <1>16, <1>17

\* The unstructured tables of a pane that counts its ghosts unless own, seen
\* by one that counts them unless ignore: ghosts come last.
LEMMA TablesNumbered ==
    ASSUME NEW ts \in Seq(Table), Shaped(ts), \A k \in DOMAIN ts : ts[k].name # "st2",
           NEW own \in BOOLEAN, NEW ignore \in BOOLEAN, own => ignore,
           NEW n, n = Len(ts)
    PROVE  LET e == Elements(ts, own)
               a == Elements(ts, ignore)
               g == Ghosts(ts, own)
               r == Reals(ts)
           IN /\ Numbered(n, e, a, r)
              /\ \A k \in 1..n : g[k] \in Nat /\ e[k] = r[k] + g[k]
              /\ ignore => \A k \in 1..n : a[k] = r[k]
              /\ ~ignore => \A k \in 1..n : a[k] = e[k]
<1> DEFINE e == Elements(ts, own)
           a == Elements(ts, ignore)
           g == Ghosts(ts, own)
           r == Reals(ts)
<1>1. DOMAIN ts = 1..n /\ n \in Nat
  OBVIOUS
<1>2. \A k \in 1..n : ts[k] \in Table /\ Sized(ts[k]) /\ ts[k].name # "st2"
  BY <1>1 DEF Shaped
<1>3. \A k \in 1..n : /\ e[k] = size_of_elements(ts[k], own) /\ a[k] = size_of_elements(ts[k], ignore)
                      /\ g[k] = size_of_ghost_elements(ts[k], ts[k], own) /\ r[k] = real_items(ts[k])
  BY <1>1 DEF Elements, Ghosts, Reals
<1> HIDE DEF e, a, g, r
<1>4. ASSUME NEW k \in 1..n
      PROVE  /\ r[k] \in Nat /\ ts[k].nitems \in Nat /\ ts[k].ngitems \in Nat /\ r[k] = ts[k].nitems - ts[k].ngitems
             /\ e[k] = IF own THEN r[k] ELSE ts[k].nitems
             /\ a[k] = IF ignore THEN r[k] ELSE ts[k].nitems
             /\ g[k] = IF own THEN 0 ELSE ts[k].ngitems
  BY <1>2, <1>3, TableSizes
<1>5. ASSUME NEW k \in 1..n
      PROVE  /\ e[k] \in Nat /\ a[k] \in Nat /\ r[k] \in Nat /\ r[k] <= e[k] /\ g[k] \in Nat /\ e[k] = r[k] + g[k]
             /\ ignore => a[k] = r[k]
             /\ ~ignore => a[k] = e[k]
  <2>1. CASE own
    BY <1>4, <2>1
  <2>2. CASE ~own /\ ignore
    BY <1>4, <2>2
  <2>3. CASE ~own /\ ~ignore
    BY <1>4, <2>3
  <2> QED
    BY <2>1, <2>2, <2>3
<1>6. ASSUME NEW j \in 1..n, NEW k \in 1..n, j < k, e[j] > r[j] PROVE r[k] = 0
  <2>1. ts[j].ngitems > 0
    BY <1>4, <1>6
  <2>2. ts[j].name # "t3"
    <3>1. ts[j].name = "t3" => ts[j].ngitems = 0
      BY <1>2 DEF Sized
    <3> QED
      BY <2>1, <3>1
  <2>3. Order(ts[j].name) < Order(ts[k].name)
    BY <1>1, <1>6 DEF Shaped
  <2>4. ts[k].name = "v3"
    <3>1. ts[k].name \in {"t3", "q4", "v3"}
      <4>1. ts[k] \in Table /\ ts[k].name # "st2"
        BY <1>2
      <4> QED
        BY <4>1, NamesAreKinds DEF Table, Kinds
    <3> QED
      BY <2>2, <2>3, <3>1 DEF Order
  <2>5. ts[k].ngitems = ts[k].nitems
    BY <1>2, <2>4 DEF Sized
  <2> QED
    BY <1>4, <2>5
<1>7. Numbered(n, e, a, r)
  <2>1. (\A k \in 1..n : a[k] = e[k]) \/ (\A k \in 1..n : a[k] = r[k])
    BY <1>5
  <2> QED
    BY <1>5, <1>6, <2>1 DEF Numbered
<1> QED
  BY <1>5, <1>7 DEF e, a, g, r

\* What MeshExact says of the elements of an unstructured pane: of its own
\* tables ts, of R, to which it goes back, and of whether it ignores ghosts
LEMMA UnstructuredExact ==
    ASSUME NEW R \in PaneState, PaneOK(R), R.parent = NoPane, ~is_structured(R),
           NEW ignore \in BOOLEAN, R.ignore_ghost => ignore
    PROVE  LET n == Len(R.tables)
               all == all_items(R.conn, ignore)
               real == real_items(R.conn)
           IN /\ all - real = ghost_items(R.conn, ignore)
              /\ real = Sum(Reals(R.tables))
              /\ \A i \in 1..all : \E k \in 1..n :
                   /\ {j \in 1..n : R.tables[j].offset < i /\ i <= R.tables[j].offset + size_of_elements(R.tables[j], ignore)} = {k}
                   /\ i <= real <=> i - R.tables[k].offset <= real_items(R.tables[k])
<1>1. PICK ts \in Seq(Table), own \in BOOLEAN : ts = R.tables /\ own = R.ignore_ghost
  BY DEF PaneState
<1>2. Shaped(ts) /\ Counted(R) /\ (own => ignore)
  BY <1>1 DEF PaneOK
<1>3. PICK n \in 0..3 : n = Len(ts)
  BY <1>2, ShapedLength
<1>4. DOMAIN ts = 1..n
  BY <1>3
<1>5. \A k \in DOMAIN ts : ts[k].name # "st2"
  <2> SUFFICES ASSUME NEW k \in DOMAIN ts, ts[k].name = "st2" PROVE FALSE
    OBVIOUS
  <2>1. Len(ts) = 1
    BY <1>2 DEF Shaped
  <2>2. k = 1
    BY <2>1
  <2> QED
    BY <1>1, <2>1, <2>2 DEF is_structured
<1> DEFINE e == Elements(ts, own)
           a == Elements(ts, ignore)
           g == Ghosts(ts, own)
           r == Reals(ts)
<1>6. /\ Numbered(n, e, a, r)
      /\ \A k \in 1..n : g[k] \in Nat /\ e[k] = r[k] + g[k]
      /\ ignore => \A k \in 1..n : a[k] = r[k]
      /\ ~ignore => \A k \in 1..n : a[k] = e[k]
  BY <1>2, <1>3, <1>5, TablesNumbered
<1>7. /\ \A k \in 1..n : ts[k].offset = Added(e, k - 1)
      /\ R.conn = [nitems |-> Added(e, n), ngitems |-> Added(g, n)]
  BY <1>1, <1>2, <1>3, <1>4 DEF Counted
<1>8. \A k \in 1..n : a[k] = size_of_elements(ts[k], ignore) /\ r[k] = real_items(ts[k])
  BY <1>4 DEF Elements, Reals
<1>9. DOMAIN r = 1..n
  BY <1>4 DEF Reals
<1> HIDE DEF e, a, g, r
<1>10. \A k \in 1..n : e[k] \in Nat /\ a[k] \in Nat /\ r[k] \in Nat /\ g[k] \in Nat /\ e[k] = r[k] + g[k]
  BY <1>6 DEF Numbered
<1>11. Sum(r) = Added(r, n)
  <2>1. \A k \in 1..n : r[k] \in Int
    BY <1>10
  <2> QED
    BY <1>9, <2>1, SumIs
<1>12. /\ Added(e, n) \in Nat /\ Added(r, n) \in Nat /\ Added(g, n) \in Nat
       /\ Added(e, n) = Added(r, n) + Added(g, n)
  <2>1. /\ n >= 1 => e[1] \in Nat /\ r[1] \in Nat /\ g[1] \in Nat /\ e[1] = r[1] + g[1]
        /\ n >= 2 => e[2] \in Nat /\ r[2] \in Nat /\ g[2] \in Nat /\ e[2] = r[2] + g[2]
        /\ n >= 3 => e[3] \in Nat /\ r[3] \in Nat /\ g[3] \in Nat /\ e[3] = r[3] + g[3]
    BY <1>10
  <2>2. n = 0 \/ n = 1 \/ n = 2 \/ n = 3
    OBVIOUS
  <2>3. CASE n = 0
    BY <2>3 DEF Added
  <2>4. CASE n = 1
    BY <2>1, <2>4 DEF Added
  <2>5. CASE n = 2
    <3>1. \A f : Added(f, n) = f[1] + f[2] + 0
      BY <2>5 DEF Added
    <3>2. e[1] \in Nat /\ r[1] \in Nat /\ g[1] \in Nat /\ e[2] \in Nat /\ r[2] \in Nat /\ g[2] \in Nat
      BY <2>1, <2>5
    <3>3. e[1] = r[1] + g[1] /\ e[2] = r[2] + g[2]
      BY <2>1, <2>5
    <3>4. Added(e, n) = e[1] + e[2] + 0 /\ Added(r, n) = r[1] + r[2] + 0 /\ Added(g, n) = g[1] + g[2] + 0
      BY <3>1
    <3>5. PICK r1 \in Nat, g1 \in Nat, r2 \in Nat, g2 \in Nat : r1 = r[1] /\ g1 = g[1] /\ r2 = r[2] /\ g2 = g[2]
      BY <3>2
    <3>6. Added(r, n) = r1 + r2 + 0 /\ Added(g, n) = g1 + g2 + 0
      BY <3>4, <3>5
    <3>7. Added(e, n) = (r1 + g1) + (r2 + g2) + 0
      BY <3>3, <3>4, <3>5
    <3> QED
      BY <3>6, <3>7
  <2>6. CASE n = 3
    <3>1. \A f : Added(f, n) = f[1] + f[2] + f[3]
      BY <2>6 DEF Added
    <3>2. e[1] \in Nat /\ r[1] \in Nat /\ g[1] \in Nat /\ e[2] \in Nat /\ r[2] \in Nat /\ g[2] \in Nat /\ e[3] \in Nat /\ r[3] \in Nat /\ g[3] \in Nat
      BY <2>1, <2>6
    <3>3. e[1] = r[1] + g[1] /\ e[2] = r[2] + g[2] /\ e[3] = r[3] + g[3]
      BY <2>1, <2>6
    <3>4. Added(e, n) = e[1] + e[2] + e[3] /\ Added(r, n) = r[1] + r[2] + r[3] /\ Added(g, n) = g[1] + g[2] + g[3]
      BY <3>1
    <3>5. PICK r1 \in Nat, g1 \in Nat, r2 \in Nat, g2 \in Nat, r3 \in Nat, g3 \in Nat : r1 = r[1] /\ g1 = g[1] /\ r2 = r[2] /\ g2 = g[2] /\ r3 = r[3] /\ g3 = g[3]
      BY <3>2
    <3>6. Added(r, n) = r1 + r2 + r3 /\ Added(g, n) = g1 + g2 + g3
      BY <3>4, <3>5
    <3>7. Added(e, n) = (r1 + g1) + (r2 + g2) + (r3 + g3)
      BY <3>3, <3>4, <3>5
    <3> QED
      BY <3>6, <3>7
  <2> QED
    BY <2>2, <2>3, <2>4, <2>5, <2>6
<1>13. (ignore => Added(a, n) = Added(r, n)) /\ (~ignore => Added(a, n) = Added(e, n))
  <2>1. ASSUME NEW f, NEW h, \A k \in 1..n : f[k] = h[k] PROVE Added(f, n) = Added(h, n)
    <3>1. (n >= 1 => f[1] = h[1]) /\ (n >= 2 => f[2] = h[2]) /\ (n >= 3 => f[3] = h[3])
      BY <2>1
    <3> QED
      BY <3>1 DEF Added
  <2>2. CASE ignore
    BY <1>6, <2>1, <2>2
  <2>3. CASE ~ignore
    BY <1>6, <2>1, <2>3
  <2> QED
    BY <2>2, <2>3
<1>14. R.conn.nitems = Added(e, n) /\ R.conn.ngitems = Added(g, n)
  BY <1>7
<1>15. real_items(R.conn) = Added(r, n)
  BY <1>12, <1>14 DEF real_items
<1>16. all_items(R.conn, ignore) = Added(a, n)
  <2>1. Max({0, Added(e, n)}) = Added(e, n)
    BY <1>12, MaxMin
  <2>2. CASE ignore
    BY <1>13, <1>15, <2>2 DEF all_items
  <2>3. CASE ~ignore
    BY <1>13, <1>14, <2>1, <2>3 DEF all_items
  <2> QED
    BY <2>2, <2>3
<1>17. ghost_items(R.conn, ignore) = IF ignore THEN 0 ELSE Added(g, n)
  BY <1>14 DEF ghost_items
<1>18. all_items(R.conn, ignore) - real_items(R.conn) = ghost_items(R.conn, ignore)
  BY <1>12, <1>13, <1>15, <1>16, <1>17
<1>19. ASSUME NEW i \in 1..all_items(R.conn, ignore)
       PROVE  \E k \in 1..n :
                /\ {j \in 1..n : ts[j].offset < i /\ i <= ts[j].offset + size_of_elements(ts[j], ignore)} = {k}
                /\ i <= real_items(R.conn) <=> i - ts[k].offset <= real_items(ts[k])
  <2>1. i \in Nat /\ 1 <= i /\ i <= Added(a, n)
    BY <1>12, <1>13, <1>16
  <2>2. PICK k \in 1..n :
             /\ {j \in 1..n : Added(e, j - 1) < i /\ i <= Added(e, j - 1) + a[j]} = {k}
             /\ i <= Added(r, n) <=> i - Added(e, k - 1) <= r[k]
    BY <1>6, <2>1, Tiles
  <2>3. {j \in 1..n : ts[j].offset < i /\ i <= ts[j].offset + size_of_elements(ts[j], ignore)}
          = {j \in 1..n : Added(e, j - 1) < i /\ i <= Added(e, j - 1) + a[j]}
    BY <1>7, <1>8
  <2>4. i <= real_items(R.conn) <=> i - ts[k].offset <= real_items(ts[k])
    BY <1>7, <1>8, <1>15, <2>2
  <2> QED
    BY <2>2, <2>3, <2>4
<1> QED
  BY <1>1, <1>3, <1>11, <1>15, <1>18, <1>19 DEF r

\* The same of a structured pane, and of its nodes
LEMMA StructuredExact ==
    ASSUME NEW R \in PaneState, PaneOK(R), R.parent = NoPane, is_structured(R),
           NEW ignore \in BOOLEAN, ignore => R.tables[1].ngitems = 0
    PROVE  LET t == R.tables[1]
               all == all_items(R.conn, ignore)
               real == real_items(R.conn)
           IN /\ all - real = ghost_items(R.conn, ignore)
              /\ real = Cells(t.dims, t.ngitems) /\ real \in Nat
              /\ t.offset = 0 /\ all = size_of_elements(t, ignore) /\ all \in Nat
              /\ all_items(R.nc, ignore) = NodesWithin(t.dims, 0)
              /\ real_items(R.nc) = NodesWithin(t.dims, t.ngitems)
<1>1. R.tables \in Seq(Table) /\ Shaped(R.tables) /\ Counted(R) /\ Len(R.tables) = 1 /\ R.tables[1].name = "st2"
  BY DEF PaneState, PaneOK, is_structured
<1>2. DOMAIN R.tables = {1}
  BY <1>1
<1>3. PICK t \in Table : t = R.tables[1]
  BY <1>1, <1>2
<1>4. t.name = "st2" /\ t.ngitems \in 0..1 /\ 0 \in 0..1 /\ t.dims \in Dims \cup {<<>>}
  BY <1>1, <1>2, <1>3 DEF Shaped, Sized, Table
<1>5. PICK c \in Nat, d \in Nat, m \in Nat, l \in Nat :
        /\ c = Cells(t.dims, 0) /\ d = Cells(t.dims, t.ngitems) /\ (c = 0 => d = 0)
        /\ m = NodesWithin(t.dims, 0) /\ l = NodesWithin(t.dims, t.ngitems) /\ (m = 0 => l = 0)
  BY <1>4, StructuredSizes
<1>6. ignore => d = c /\ l = m
  BY <1>3, <1>5
<1>7. \A b : size_of_elements(t, b) = c /\ size_of_ghost_elements(t, t, b) = c - d
  BY <1>4, <1>5 DEF size_of_elements, size_of_ghost_elements
<1>8. \A b : Elements(R.tables, b)[1] = c /\ Ghosts(R.tables, b)[1] = c - d
  BY <1>2, <1>3, <1>7 DEF Elements, Ghosts
<1>9. /\ \A b : Added(Elements(R.tables, b), 1) = c /\ Added(Ghosts(R.tables, b), 1) = c - d
      /\ \A f : Added(f, 1 - 1) = 0
  <2>1. \A f : Added(f, 1) = f[1] + 0 + 0
    BY DEF Added
  <2>2. \A f : Added(f, 1 - 1) = 0
    BY DEF Added
  <2>3. c + 0 + 0 = c /\ (c - d) + 0 + 0 = c - d
    OBVIOUS
  <2> QED
    BY <1>8, <2>1, <2>2, <2>3
<1>10. R.conn = [nitems |-> c, ngitems |-> c - d] /\ R.nc = [nitems |-> m, ngitems |-> m - l] /\ t.offset = 0
  BY <1>1, <1>2, <1>3, <1>5, <1>9 DEF Counted
<1>11. R.conn.nitems = c /\ R.conn.ngitems = c - d /\ R.nc.nitems = m /\ R.nc.ngitems = m - l
  BY <1>10
<1>12. real_items(R.conn) = d /\ real_items(R.nc) = l
  BY <1>5, <1>11 DEF real_items
<1>13. all_items(R.conn, ignore) = c /\ all_items(R.nc, ignore) = m
  <2>1. Max({0, c}) = c /\ Max({0, m}) = m
    BY MaxMin
  <2> QED
    BY <1>6, <1>11, <1>12, <2>1 DEF all_items
<1>14. ghost_items(R.conn, ignore) = c - d
  BY <1>6, <1>11 DEF ghost_items
<1> QED
  BY <1>3, <1>5, <1>7, <1>10, <1>12, <1>13, <1>14

\* The invariant says of every pane what MeshExact says.
LEMMA MeshInvExact == MeshInv => MeshExact
<1> SUFFICES ASSUME MeshInv, NEW p \in Pane
             PROVE  LET R == pane[Root(p)]
                        ign == Ignores(p)
                        n == all_items(R.conn, ign)
                        real == real_items(R.conn)
                        Real(k) == size_of_real_elements(pane[p].tables[k], R.tables[k])
                    IN /\ n - real = ghost_items(R.conn, ign)
                       /\ real = Sum([k \in DOMAIN pane[p].tables |-> Real(k)])
                       /\ \A i \in 1..n : /\ Cardinality(Tables(p, i)) = 1
                                          /\ ~is_structured(R) => \A k \in Tables(p, i) : i <= real <=> i - index_offset(p, k) <= Real(k)
                       /\ is_structured(R) =>
                            LET dims == R.tables[1].dims
                            IN /\ all_items(R.nc, ign) = NodesWithin(dims, 0)
                               /\ real_items(R.nc) = NodesWithin(dims, pane[p].tables[1].ngitems)
  BY DEF MeshExact
<1> DEFINE R == pane[Root(p)]
           ign == Ignores(p)
           ps == pane[p].tables
           real == real_items(R.conn)
           Real(k) == size_of_real_elements(ps[k], R.tables[k])
<1>1. RootKnown(p)
  BY RootsKnown
<1>2. Root(p) \in Pane
  BY <1>1 DEF RootKnown
<1>3. R \in PaneState /\ PaneOK(R) /\ R.tables \in Seq(Table) /\ Shaped(R.tables) /\ ps \in Seq(Table)
  BY <1>2, PaneFacts
<1>4. R.parent = NoPane /\ Mirrors(ps, R.tables) /\ (R.ignore_ghost => ign)
  BY <1>1 DEF RootKnown
<1>5. ign \in BOOLEAN
  BY DEF Ignores
<1>6. Len(ps) = Len(R.tables)
  BY <1>4 DEF Mirrors
<1>7. DOMAIN ps = 1..Len(R.tables) /\ DOMAIN R.tables = 1..Len(R.tables)
  BY <1>3, <1>6
<1>8. \A k : index_offset(p, k) = R.tables[k].offset
  BY DEF index_offset
<1>9. \A i : Tables(p, i) = {k \in 1..Len(R.tables) :
                              R.tables[k].offset < i /\ i <= R.tables[k].offset + size_of_elements(R.tables[k], ign)}
  BY <1>7, <1>8 DEF Tables
<1>10. \A k : Cardinality({k}) = 1
  BY FS_Singleton
<1>11. CASE ~is_structured(R)
  <2>1. \A k \in DOMAIN ps : R.tables[k].name # "st2"
    <3> SUFFICES ASSUME NEW k \in DOMAIN ps, R.tables[k].name = "st2" PROVE FALSE
      OBVIOUS
    <3>1. Len(R.tables) = 1
      BY <1>3, <1>7 DEF Shaped
    <3>2. k = 1
      BY <1>7, <3>1
    <3> QED
      BY <1>11, <3>1, <3>2 DEF is_structured
  <2>2. \A k \in DOMAIN ps : Real(k) = real_items(R.tables[k])
    BY <2>1 DEF size_of_real_elements
  <2>3. [k \in DOMAIN ps |-> Real(k)] = Reals(R.tables)
    BY <1>7, <2>2 DEF Reals
  <2>4. /\ all_items(R.conn, ign) - real = ghost_items(R.conn, ign)
        /\ real = Sum(Reals(R.tables))
        /\ \A i \in 1..all_items(R.conn, ign) : \E k \in 1..Len(R.tables) :
             /\ {j \in 1..Len(R.tables) :
                   R.tables[j].offset < i /\ i <= R.tables[j].offset + size_of_elements(R.tables[j], ign)} = {k}
             /\ i <= real <=> i - R.tables[k].offset <= real_items(R.tables[k])
    <3> HIDE DEF R, ign
    <3> QED
      BY <1>3, <1>4, <1>5, <1>11, UnstructuredExact DEF real
  <2>5. ASSUME NEW i \in 1..all_items(R.conn, ign)
        PROVE  /\ Cardinality(Tables(p, i)) = 1
               /\ \A k \in Tables(p, i) : i <= real <=> i - index_offset(p, k) <= Real(k)
    <3>1. PICK k \in 1..Len(R.tables) :
             /\ Tables(p, i) = {k}
             /\ i <= real <=> i - R.tables[k].offset <= real_items(R.tables[k])
      BY <1>9, <2>4
    <3> HIDE DEF R, ign, real, Real
    <3> QED
      BY <1>7, <1>8, <1>10, <2>2, <3>1
  <2> HIDE DEF R, ign, real, Real
  <2>6. real = Sum([k \in DOMAIN ps |-> Real(k)])
    BY <2>3, <2>4
  <2> QED
    BY <1>11, <2>4, <2>5, <2>6 DEF R, ign, real, Real
<1>12. CASE is_structured(R)
  <2>1. Len(R.tables) = 1 /\ R.tables[1].name = "st2"
    BY <1>12 DEF is_structured
  <2>2. 1 \in DOMAIN ps /\ DOMAIN ps = 1..1 /\ 1..1 = {1}
    BY <1>7, <2>1
  <2>3. ps[1].name = "st2" /\ ps[1].ngitems = R.tables[1].ngitems
    BY <1>4, <2>1, <2>2 DEF Mirrors
  <2>4. ign => R.tables[1].ngitems = 0
    BY <1>1, <2>2, <2>3 DEF RootKnown
  <2>5. LET t == R.tables[1]
        IN /\ all_items(R.conn, ign) - real = ghost_items(R.conn, ign)
           /\ real = Cells(t.dims, t.ngitems) /\ real \in Nat
           /\ t.offset = 0 /\ all_items(R.conn, ign) = size_of_elements(t, ign) /\ all_items(R.conn, ign) \in Nat
           /\ all_items(R.nc, ign) = NodesWithin(t.dims, 0)
           /\ real_items(R.nc) = NodesWithin(t.dims, t.ngitems)
    <3> HIDE DEF R, ign
    <3> QED
      BY <1>3, <1>4, <1>5, <1>12, <2>4, StructuredExact DEF real
  <2>6. Real(1) = real
    BY <2>1, <2>3, <2>5 DEF size_of_real_elements
  <2>7. real = Sum([k \in DOMAIN ps |-> Real(k)])
    <3>1. PICK f : f = [k \in DOMAIN ps |-> Real(k)]
      OBVIOUS
    <3>2. DOMAIN f = 1..1 /\ f[1] = real
      BY <2>2, <2>6, <3>1
    <3>3. \A k \in 1..1 : f[k] \in Int
      BY <2>2, <2>5, <3>2
    <3>4. Sum(f) = Added(f, 1)
      BY <3>2, <3>3, SumIs
    <3>5. Added(f, 1) = f[1] + 0 + 0
      BY DEF Added
    <3> HIDE DEF real, Real
    <3> QED
      BY <2>5, <3>1, <3>2, <3>4, <3>5
  <2>8. ASSUME NEW i \in 1..all_items(R.conn, ign) PROVE Cardinality(Tables(p, i)) = 1
    <3>1. Tables(p, i) = {k \in 1..1 : R.tables[k].offset < i /\ i <= R.tables[k].offset + size_of_elements(R.tables[k], ign)}
      BY <1>9, <2>1
    <3>2. R.tables[1].offset < i /\ i <= R.tables[1].offset + size_of_elements(R.tables[1], ign)
      BY <2>5
    <3>3. Tables(p, i) = {1}
      BY <2>2, <3>1, <3>2
    <3> QED
      BY <1>10, <3>3
  <2> HIDE DEF R, ign, real, Real
  <2> QED
    BY <1>12, <2>3, <2>5, <2>7, <2>8 DEF R, ign, real, Real
<1> QED
  BY <1>11, <1>12

\* Elements, tables and nodes of all panes agree (refresh_connectivity and
\* index_offset()), for any panes, sizes and sequences of calls.
THEOREM MeshExactHolds == MeshSpec => []MeshExact
<1> QED
  BY MeshInvariant, MeshInvExact, PTL
=============================================================================
