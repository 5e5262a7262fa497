-------------------------- MODULE DDGSchedulerProofs --------------------------
(***************************************************************************)
(* Proofs about the data-dependency scheduler, for any number of actions   *)
(* and declarations: the links of buildDDG agree, the passes respect the   *)
(* data flow, and schedule() keeps the contract of SchedulerContract.      *)
(***************************************************************************)
EXTENDS DDGScheduler, SequenceTheorems, WellFoundedInduction, TLAPS

(* What buildDDG keeps true of the links.  The definitions take the two    *)
(* sides of the links as parameters, because SetOutput is SetInput with    *)
(* the sides exchanged.                                                    *)

Shaped(R, In) ==
    \A i \in Item : /\ DOMAIN In[i] = DOMAIN R[i] /\ Distinct(R[i])
                    /\ \A k \in DOMAIN In[i] : In[i][k] \in Item \cup {NULL}

Agrees(R, W, In, Out) ==
    \A i, j \in Item : \A k \in DOMAIN In[i] : In[i][k] = j =>
        \E l \in DOMAIN Out[j] : Out[j][l] = i /\ W[j][l] = R[i][k]

\* A key that is linked has one writer or one reader.
Determined(R, W, In) ==
    \A i \in Item : \A k \in DOMAIN In[i] : In[i][k] # NULL =>
        \/ \A j \in Item : \A l \in DOMAIN W[j] : W[j][l] = R[i][k] => j = In[i][k]
        \/ \A j \in Item : \A l \in DOMAIN R[j] : R[j][l] = R[i][k] => j = i

Linked(R, W, In, Out) ==
    /\ Shaped(R, In) /\ Shaped(W, Out)
    /\ Agrees(R, W, In, Out) /\ Agrees(W, R, Out, In)
    /\ Determined(R, W, In) /\ Determined(W, R, Out)

Unused == \A i \in Item : i > n => DOMAIN reads[i] = {} /\ DOMAIN writes[i] = {}

Unlinked == \A i \in Item : /\ \A k \in DOMAIN input[i] : input[i][k] = NULL
                            /\ \A k \in DOMAIN output[i] : output[i][k] = NULL
Complete == \A i \in Item : fulfilled(i)

\* What each phase of the scheduler can rely on
Control ==
    /\ pc = "idle" /\ ~scheduled => pool = <<>> /\ sort = <<>> /\ roots = <<>> /\ Unlinked
    /\ pc = "build" /\ pool = <<>> => n = 0
    /\ pc \in {"build", "check"} => sort = <<>>
    /\ pc \in {"build", "check", "sort"} => ~scheduled
    /\ pc \in {"init", "run", "finalize"} => scheduled
    /\ inited => scheduled
    /\ error = "graph" => ~scheduled

\* Only an item with all its links is outside the pool of buildDDG.
Pooled ==
    /\ pc = "build" => \A i \in Item : fulfilled(i) \/ i \in Elements(pool)
    /\ pc \in {"check", "sort"} \/ scheduled => Complete

Injective(s) == \A p, q \in DOMAIN s : s[p] = s[q] => p = q

\* Each item of sort comes after the ones it is linked to.
Ordered(s, In) == \A p \in DOMAIN s : \A k \in DOMAIN In[s[p]] :
                     \E q \in 1..(p - 1) : s[q] = In[s[p]][k]

Sorted ==
    /\ Injective(sort) /\ Ordered(sort, input)
    /\ pc = "sort" =>
          /\ Injective(pool) /\ Len(pool) + Len(sort) = n
          /\ \A i \in 1..n : i \in Elements(pool) <=> i \notin Elements(sort)
    /\ scheduled => Len(sort) = n /\ \A i \in 1..n : i \in Elements(sort)

DDGInv == /\ TypeOK /\ Linked(reads, writes, input, output) /\ Unused
          /\ Control /\ Pooled /\ Sorted

------------------------------------------------------------------------------
(* Lemmas about the model's operators *)

LEMMA LeastNatural ==
    ASSUME NEW S \in SUBSET Nat, S # {}
    PROVE  \E k \in S : \A l \in S : k <= l
<1>1. PICK k \in S : \A l \in S : <<l, k>> \notin OpToRel(<, Nat)
  BY NatLessThanWellFounded, WFMin, Zenon
<1>2. \A l \in S : ~(l < k)
  BY <1>1 DEF OpToRel
<1> QED
  BY <1>2

\* The loops that look for the first empty link find one if there is one.
LEMMA FirstEmptyFound ==
    ASSUME NEW link \in Links, HasEmpty(link)
    PROVE  FirstEmpty(link) \in DOMAIN link /\ link[FirstEmpty(link)] = NULL
<1> DEFINE E == {k \in DOMAIN link : link[k] = NULL}
<1>1. PICK m \in 0..MaxSlots : link \in [1..m -> Item \cup {NULL}]
  BY DEF Links
<1>2. m \in Nat /\ DOMAIN link = 1..m
  BY <1>1, SchedulerAssumption
<1>3. E \in SUBSET Nat /\ E # {}
  BY <1>2 DEF HasEmpty
<1>4. PICK k \in E : \A l \in E : k <= l
  BY <1>3, LeastNatural
<1>5. k \in DOMAIN link /\ link[k] = NULL /\ \A l \in 1..(k - 1) : link[l] # NULL
  BY <1>2, <1>4
<1> QED
  BY <1>5 DEF FirstEmpty

\* hasInput and hasOutput give a position of the key.
LEMMA PositionFound ==
    ASSUME NEW d \in Declaration, NEW key
    PROVE  /\ Position(d, key) # 0 <=> \E k \in DOMAIN d : d[k] = key
           /\ Position(d, key) # 0 => Position(d, key) \in DOMAIN d /\ d[Position(d, key)] = key
<1> DEFINE E == {k \in DOMAIN d : d[k] = key}
<1>1. PICK m \in 0..MaxSlots : d \in [1..m -> Keys]
  BY DEF Declaration
<1>2. m \in Nat /\ DOMAIN d = 1..m
  BY <1>1, SchedulerAssumption
<1>3. CASE E = {}
  BY <1>3 DEF Position
<1>4. CASE E # {}
  <2>1. E \in SUBSET Nat
    BY <1>2
  <2>2. PICK k \in E : \A l \in E : k <= l
    BY <1>4, <2>1, LeastNatural
  <2>3. k \in DOMAIN d /\ d[k] = key /\ \A l \in DOMAIN d : d[l] = key => k <= l
    BY <2>2
  <2>4. Position(d, key) \in DOMAIN d /\ d[Position(d, key)] = key
    BY <2>3 DEF Position
  <2> QED
    BY <1>2, <2>3, <2>4
<1> QED
  BY <1>3, <1>4

\* Erasing the element at a position
LEMMA SeqRemoveFacts ==
    ASSUME NEW S, NEW s \in Seq(S), NEW p \in 1..Len(s)
    PROVE  /\ SeqRemove(s, p) \in Seq(S) /\ Len(SeqRemove(s, p)) = Len(s) - 1
           /\ \A q \in 1..(Len(s) - 1) : SeqRemove(s, p)[q] = IF q < p THEN s[q] ELSE s[q + 1]
<1> DEFINE L == Len(s)
           a == SubSeq(s, 1, p - 1)
           b == SubSeq(s, p + 1, L)
<1>1. L \in Nat /\ p \in 1..L /\ \A q \in 1..L : s[q] \in S
  BY LenProperties
<1>2. /\ a \in Seq(S) /\ Len(a) = p - 1
      /\ \A q \in 1..(p - 1) : a[q] = s[q]
  BY <1>1, SubSeqProperties
<1>3. b \in Seq(S) /\ Len(b) = L - p /\ \A q \in 1..(L - p) : b[q] = s[p + q]
  <2>1. p + 1 \in Int /\ L \in Int /\ \A q \in (p + 1)..L : s[q] \in S
    BY <1>1
  <2>2. /\ b \in Seq(S) /\ Len(b) = IF p + 1 <= L THEN L - (p + 1) + 1 ELSE 0
        /\ \A q \in 1..(L - (p + 1) + 1) : b[q] = s[(p + 1) + q - 1]
    BY <2>1, SubSeqProperties
  <2> QED
    BY <1>1, <2>2
<1> HIDE DEF a, b, L
<1>4. /\ a \o b \in Seq(S) /\ Len(a \o b) = (p - 1) + (L - p)
      /\ \A q \in 1..((p - 1) + (L - p)) : (a \o b)[q] = IF q <= p - 1 THEN a[q] ELSE b[q - (p - 1)]
  <2>1. a \in Seq(S) /\ b \in Seq(S)
    BY <1>2, <1>3
  <2>2. /\ a \o b \in Seq(S) /\ Len(a \o b) = Len(a) + Len(b)
        /\ \A q \in 1..(Len(a) + Len(b)) :
              (a \o b)[q] = IF q <= Len(a) THEN a[q] ELSE b[q - Len(a)]
    BY <2>1, ConcatProperties, Zenon
  <2>3. Len(a) = p - 1 /\ Len(b) = L - p
    BY <1>2, <1>3
  <2> QED
    BY <2>2, <2>3, Zenon
<1>5. SeqRemove(s, p) = a \o b
  BY DEF SeqRemove, a, b, L
<1>6. ASSUME NEW q \in 1..(L - 1) PROVE (a \o b)[q] = IF q < p THEN s[q] ELSE s[q + 1]
  <2>1. CASE q < p
    BY <1>1, <1>2, <1>4, <2>1
  <2>2. CASE q >= p
    <3>1. (a \o b)[q] = b[q - (p - 1)] /\ q - (p - 1) \in 1..(L - p)
      BY <1>1, <1>4, <2>2
    <3>2. b[q - (p - 1)] = s[p + (q - (p - 1))] /\ p + (q - (p - 1)) = q + 1
      BY <1>1, <1>3, <3>1
    <3> QED
      BY <1>1, <2>2, <3>1, <3>2
  <2>3. q < p \/ q >= p
    BY <1>1
  <2> QED
    BY <2>1, <2>2, <2>3
<1> QED
  BY <1>1, <1>4, <1>5, <1>6 DEF L

\* Setting one link
LEMMA SetLink ==
    ASSUME NEW In \in [Item -> Links], NEW i \in Item, NEW k \in DOMAIN In[i], NEW a \in Item,
           NEW In2, In2 = [In EXCEPT ![i][k] = a]
    PROVE  /\ In2 \in [Item -> Links]
           /\ \A x \in Item : DOMAIN In2[x] = DOMAIN In[x]
           /\ \A x \in Item : \A y \in DOMAIN In[x] :
                 In2[x][y] = IF x = i /\ y = k THEN a ELSE In[x][y]
<1> DEFINE f == In[i]
           g == [f EXCEPT ![k] = a]
<1>1. PICK m \in 0..MaxSlots : f \in [1..m -> Item \cup {NULL}]
  BY DEF Links
<1>2. /\ g \in [1..m -> Item \cup {NULL}] /\ DOMAIN g = DOMAIN f
      /\ \A y \in DOMAIN f : g[y] = IF y = k THEN a ELSE f[y]
  BY <1>1
<1>3. g \in Links
  BY <1>1, <1>2 DEF Links
<1>4. In2 = [In EXCEPT ![i] = g]
  OBVIOUS
<1> HIDE DEF g
<1> QED
  BY <1>2, <1>3, <1>4

\* A visit that finds a as the one item of the pool P with the key of slot k
\* of item i, in slot o of a, links the two slots.
LinksSlots(R, W, In, Out, In2, Out2, P, i, k, a, o) ==
    /\ i \in Item /\ k \in DOMAIN In[i] /\ a \in Item /\ o \in DOMAIN Out[a]
    /\ In[i][k] = NULL /\ Out[a][o] = NULL /\ W[a][o] = R[i][k]
    /\ \A j \in P : \A l \in DOMAIN W[j] : W[j][l] = R[i][k] => j = a
    /\ \A j \in Item : j \in P \/ \A l \in DOMAIN Out[j] : Out[j][l] # NULL
    /\ \A x \in Item : DOMAIN In2[x] = DOMAIN In[x] /\ DOMAIN Out2[x] = DOMAIN Out[x]
    /\ \A x \in Item : \A y \in DOMAIN In[x] :
          In2[x][y] = IF x = i /\ y = k THEN a ELSE In[x][y]
    /\ \A x \in Item : \A y \in DOMAIN Out[x] :
          Out2[x][y] = IF x = a /\ y = o THEN i ELSE Out[x][y]

\* Linking two slots keeps what the links promise.
LEMMA LinkStep ==
    ASSUME NEW R, NEW W, NEW In, NEW Out, NEW In2, NEW Out2, NEW P, NEW i, NEW k, NEW a, NEW o,
           Linked(R, W, In, Out), LinksSlots(R, W, In, Out, In2, Out2, P, i, k, a, o)
    PROVE  Linked(R, W, In2, Out2)
<1> DEFINE K == R[i][k]
<1> USE DEF LinksSlots
<1>1. NULL \notin Item
  BY SchedulerAssumption
<1>2. /\ \A x \in Item : DOMAIN In[x] = DOMAIN R[x] /\ DOMAIN Out[x] = DOMAIN W[x]
      /\ \A x \in Item : Distinct(R[x]) /\ Distinct(W[x])
      /\ \A x \in Item : \A y \in DOMAIN In[x] : In[x][y] \in Item \cup {NULL}
      /\ \A x \in Item : \A y \in DOMAIN Out[x] : Out[x][y] \in Item \cup {NULL}
  BY DEF Linked, Shaped
<1>3. /\ Agrees(R, W, In, Out) /\ Agrees(W, R, Out, In)
      /\ Determined(R, W, In) /\ Determined(W, R, Out)
  BY DEF Linked
<1>4. ASSUME NEW j \in Item, NEW l \in DOMAIN W[j], W[j][l] = K PROVE j = a
  <2>1. CASE j \in P
    BY <1>4, <2>1
  <2>2. CASE j \notin P /\ j # a
    <3> DEFINE r == Out[j][l]
    <3>1. r \in Item
      BY <1>2, <2>2
    <3>2. PICK m \in DOMAIN In[r] : In[r][m] = j /\ R[r][m] = K
      BY <1>2, <1>3, <1>4, <3>1 DEF Agrees
    <3>3. In[r][m] # NULL
      BY <1>1, <3>2
    <3>4. \/ \A jj \in Item : \A ll \in DOMAIN W[jj] : W[jj][ll] = K => jj = j
          \/ \A jj \in Item : \A ll \in DOMAIN R[jj] : R[jj][ll] = K => jj = r
      BY <1>3, <3>1, <3>2, <3>3 DEF Determined
    <3>5. \A jj \in Item : \A ll \in DOMAIN R[jj] : R[jj][ll] = K => jj = r
      BY <1>2, <2>2, <3>4
    <3>6. i = r
      BY <1>2, <3>5
    <3>7. m = k
      BY <1>2, <3>2, <3>6 DEF Distinct
    <3> QED
      BY <3>3, <3>6, <3>7
  <2> QED
    BY <2>1, <2>2
<1>5. Shaped(R, In2) /\ Shaped(W, Out2)
  BY <1>2 DEF Shaped
<1>6. Agrees(R, W, In2, Out2)
  <2> SUFFICES ASSUME NEW x \in Item, NEW j \in Item, NEW y \in DOMAIN In[x], In2[x][y] = j
               PROVE  \E l \in DOMAIN Out[j] : Out2[j][l] = x /\ W[j][l] = R[x][y]
    BY DEF Agrees
  <2>1. CASE x = i /\ y = k
    BY <2>1
  <2>2. CASE ~(x = i /\ y = k)
    <3>1. In[x][y] = j
      BY <2>2
    <3>2. PICK l \in DOMAIN Out[j] : Out[j][l] = x /\ W[j][l] = R[x][y]
      BY <1>3, <3>1 DEF Agrees
    <3> QED
      BY <1>1, <3>2
  <2> QED
    BY <2>1, <2>2
<1>7. Agrees(W, R, Out2, In2)
  <2> SUFFICES ASSUME NEW x \in Item, NEW j \in Item, NEW y \in DOMAIN Out[x], Out2[x][y] = j
               PROVE  \E l \in DOMAIN In[j] : In2[j][l] = x /\ R[j][l] = W[x][y]
    BY DEF Agrees
  <2>1. CASE x = a /\ y = o
    BY <2>1
  <2>2. CASE ~(x = a /\ y = o)
    <3>1. Out[x][y] = j
      BY <2>2
    <3>2. PICK l \in DOMAIN In[j] : In[j][l] = x /\ R[j][l] = W[x][y]
      BY <1>3, <3>1 DEF Agrees
    <3> QED
      BY <1>1, <3>2
  <2> QED
    BY <2>1, <2>2
<1>8. Determined(R, W, In2)
  <2> SUFFICES ASSUME NEW x \in Item, NEW y \in DOMAIN In[x], In2[x][y] # NULL
               PROVE  \/ \A j \in Item : \A l \in DOMAIN W[j] : W[j][l] = R[x][y] => j = In2[x][y]
                      \/ \A j \in Item : \A l \in DOMAIN R[j] : R[j][l] = R[x][y] => j = x
    BY DEF Determined
  <2>1. CASE x = i /\ y = k
    BY <1>4, <2>1
  <2>2. CASE ~(x = i /\ y = k)
    BY <1>3, <2>2 DEF Determined
  <2> QED
    BY <2>1, <2>2
<1>9. Determined(W, R, Out2)
  <2> SUFFICES ASSUME NEW x \in Item, NEW y \in DOMAIN Out[x], Out2[x][y] # NULL
               PROVE  \/ \A j \in Item : \A l \in DOMAIN R[j] : R[j][l] = W[x][y] => j = Out2[x][y]
                      \/ \A j \in Item : \A l \in DOMAIN W[j] : W[j][l] = W[x][y] => j = x
    BY DEF Determined
  <2>1. CASE x = a /\ y = o
    BY <1>4, <2>1
  <2>2. CASE ~(x = a /\ y = o)
    BY <1>3, <2>2 DEF Determined
  <2> QED
    BY <2>1, <2>2
<1> QED
  BY <1>5, <1>6, <1>7, <1>8, <1>9 DEF Linked

\* When every link is set, the links are exactly the data flow: the writer
\* and the reader of a key are linked to each other.
LEMMA LinksAreFlow ==
    ASSUME NEW R, NEW W, NEW In, NEW Out, Linked(R, W, In, Out),
           \A x \in Item : /\ \A y \in DOMAIN In[x] : In[x][y] # NULL
                           /\ \A y \in DOMAIN Out[x] : Out[x][y] # NULL,
           NEW i \in Item, NEW j \in Item, NEW k \in DOMAIN R[i], NEW l \in DOMAIN W[j],
           W[j][l] = R[i][k]
    PROVE  In[i][k] = j /\ Out[j][l] = i
<1> DEFINE w == In[i][k]
           r == Out[j][l]
<1>1. /\ DOMAIN In[i] = DOMAIN R[i] /\ DOMAIN Out[j] = DOMAIN W[j]
      /\ Distinct(R[i]) /\ Distinct(W[j])
      /\ \A x \in Item : DOMAIN In[x] = DOMAIN R[x] /\ DOMAIN Out[x] = DOMAIN W[x]
  BY DEF Linked, Shaped
<1>2. w \in Item /\ r \in Item
  BY DEF Linked, Shaped
<1>3. PICK l2 \in DOMAIN Out[w] : Out[w][l2] = i /\ W[w][l2] = R[i][k]
  <2>1. Agrees(R, W, In, Out) /\ k \in DOMAIN In[i]
    BY <1>1 DEF Linked
  <2> QED
    BY <1>2, <2>1 DEF Agrees
<1>4. PICK m \in DOMAIN In[r] : In[r][m] = j /\ R[r][m] = W[j][l]
  <2>1. Agrees(W, R, Out, In) /\ l \in DOMAIN Out[j]
    BY <1>1 DEF Linked
  <2> QED
    BY <1>2, <2>1 DEF Agrees
<1>5. \/ \A jj \in Item : \A ll \in DOMAIN W[jj] : W[jj][ll] = R[i][k] => jj = w
      \/ \A jj \in Item : \A ll \in DOMAIN R[jj] : R[jj][ll] = R[i][k] => jj = i
  BY <1>1 DEF Linked, Determined
<1>6. CASE j = w
  <2>1. l2 = l
    BY <1>1, <1>3, <1>6 DEF Distinct
  <2> QED
    BY <1>3, <1>6, <2>1
<1>7. CASE r = i
  <2>1. m = k
    BY <1>1, <1>4, <1>7 DEF Distinct
  <2> QED
    BY <1>4, <1>7, <2>1
<1> QED
  BY <1>1, <1>2, <1>4, <1>5, <1>6, <1>7

\* The list of all items, with which both loops start
LEMMA AllItems ==
    ASSUME NEW m \in Nat, NEW s, s = [i \in 1..m |-> i]
    PROVE  /\ s \in Seq(1..m) /\ Len(s) = m /\ DOMAIN s = 1..m
           /\ \A i \in 1..m : s[i] = i
           /\ Injective(s) /\ \A i \in 1..m : i \in Elements(s)
<1>1. s \in Seq(1..m) /\ Len(s) = m /\ DOMAIN s = 1..m /\ \A i \in 1..m : s[i] = i
  OBVIOUS
<1> QED
  BY <1>1 DEF Injective, Elements

\* There are no roots among no actions.
LEMMA NoRoots == ASSUME n = 0 PROVE Roots[n] = <<>>
<1> DEFINE Step(f, k) == IF k = 0 THEN <<>>
                         ELSE IF DOMAIN reads[k] = {} THEN Append(f[k - 1], k) ELSE f[k - 1]
           g == [k \in 0..n |-> <<>>]
<1>1. g = [k \in 0..n |-> Step(g, k)]
  OBVIOUS
<1>2. Roots = CHOOSE f : f = [k \in 0..n |-> Step(f, k)]
  BY DEF Roots
<1>3. \E f : f = [k \in 0..n |-> Step(f, k)]
  BY <1>1
<1>4. Roots = [k \in 0..n |-> Step(Roots, k)]
  BY <1>2, <1>3
<1> QED
  BY <1>4

------------------------------------------------------------------------------
(* The invariant, action by action *)

\* Links that are all empty keep every promise.
LEMMA NothingLinked ==
    ASSUME NEW R, NEW W, NEW In, NEW Out, Shaped(R, In), Shaped(W, Out),
           \A i \in Item : /\ \A k \in DOMAIN In[i] : In[i][k] = NULL
                           /\ \A k \in DOMAIN Out[i] : Out[i][k] = NULL
    PROVE  Linked(R, W, In, Out)
<1>1. NULL \notin Item
  BY SchedulerAssumption
<1> QED
  BY <1>1 DEF Linked, Agrees, Determined

\* What the declarations say of the links, as far as the graph goes
Graph == /\ n \in 0..MaxItems
         /\ reads \in [Item -> Declaration] /\ writes \in [Item -> Declaration]
         /\ input \in [Item -> Links] /\ output \in [Item -> Links]
         /\ \A i \in Item : DOMAIN input[i] = DOMAIN reads[i] /\ DOMAIN output[i] = DOMAIN writes[i]

Lists == /\ pool \in Seq(1..n) /\ sort \in Seq(1..n) /\ roots \in Seq(1..n)
         /\ act \in Nat /\ walked \in 0..Len(sort)
         /\ pc = "build" /\ pool # <<>> => act \in DOMAIN pool

Flags == /\ scheduled \in BOOLEAN /\ inited \in BOOLEAN /\ pc \in Phases
         /\ error \in {"none", "misuse", "graph"}

LEMMA TypeParts == /\ TypeOK <=> Graph /\ Lists /\ Flags
                   /\ TypeOK' <=> Graph' /\ Lists' /\ Flags'
  BY DEF TypeOK, Graph, Lists, Flags

\* Steps that leave declarations and links alone
LEMMA GraphKept ==
    ASSUME DDGInv, UNCHANGED <<n, reads, writes, input, output>>
    PROVE  /\ Graph' /\ Linked(reads, writes, input, output)' /\ Unused'
           /\ Complete' = Complete /\ \A i \in Item : fulfilled(i)' = fulfilled(i)
<1>1. Graph'
  BY TypeParts DEF DDGInv, Graph
<1>2. Linked(reads, writes, input, output)' /\ Unused'
  BY DEF DDGInv, Unused
<1>3. \A i \in Item : fulfilled(i)' = fulfilled(i)
  BY DEF fulfilled
<1> QED
  BY <1>1, <1>2, <1>3 DEF Complete

LEMMA DDGInit == Init => DDGInv
<1> SUFFICES ASSUME Init PROVE DDGInv
  OBVIOUS
<1>1. /\ n = 0 /\ pool = <<>> /\ sort = <<>> /\ roots = <<>> /\ walked = 0 /\ act = 1
      /\ scheduled = FALSE /\ inited = FALSE /\ pc = "idle" /\ error = "none"
      /\ reads = [i \in Item |-> <<>>] /\ writes = [i \in Item |-> <<>>]
      /\ input = [i \in Item |-> <<>>] /\ output = [i \in Item |-> <<>>]
  BY DEF Init
<1>2. <<>> \in Declaration /\ <<>> \in Links /\ DOMAIN <<>> = {}
  <2>1. <<>> \in [1..0 -> Keys] /\ <<>> \in [1..0 -> Item \cup {NULL}] /\ DOMAIN <<>> = {}
    OBVIOUS
  <2>2. 0 \in 0..MaxSlots
    BY SchedulerAssumption
  <2> QED
    BY <2>1, <2>2 DEF Declaration, Links
<1>3. \A i \in Item : /\ DOMAIN reads[i] = {} /\ DOMAIN writes[i] = {}
                      /\ DOMAIN input[i] = {} /\ DOMAIN output[i] = {}
  BY <1>1, <1>2
<1>4. Graph
  BY <1>1, <1>2, <1>3, SchedulerAssumption DEF Graph
<1>5. Lists /\ Flags
  <2>1. \A S : <<>> \in Seq(S) /\ Len(<<>>) = 0
    OBVIOUS
  <2>2. Lists
    BY <1>1, <2>1 DEF Lists
  <2> QED
    BY <1>1, <2>2 DEF Flags, Phases
<1>6. Linked(reads, writes, input, output) /\ Unlinked /\ Unused
  <2>1. Shaped(reads, input) /\ Shaped(writes, output)
    BY <1>3 DEF Shaped, Distinct
  <2>2. Unlinked
    BY <1>3 DEF Unlinked
  <2> QED
    BY <1>3, <2>1, <2>2, NothingLinked DEF Unlinked, Unused
<1>7. Control /\ Pooled
  BY <1>1, <1>6 DEF Control, Pooled
<1>8. Sorted
  <2>1. DOMAIN sort = {}
    BY <1>1
  <2> QED
    BY <1>1, <2>1 DEF Sorted, Injective, Ordered
<1> QED
  BY <1>4, <1>5, <1>6, <1>7, <1>8, TypeParts DEF DDGInv

\* An abort leaves everything as it is.
LEMMA DDGOfAbort ==
    ASSUME DDGInv, NEW why \in {"misuse", "graph"}, COM_abort_msg(why), why = "graph" => ~scheduled
    PROVE  DDGInv'
<1>1. /\ error' = why
      /\ UNCHANGED <<n, reads, writes, input, output, pool, act, sort, roots,
                     scheduled, inited, pc, walked>>
  BY DEF COM_abort_msg
<1>2. Graph' /\ Lists' /\ Flags'
  BY <1>1, TypeParts DEF DDGInv, Graph, Lists, Flags
<1>3. Control'
  BY <1>1 DEF DDGInv, Control, Unlinked
<1>4. Pooled'
  BY <1>1, GraphKept DEF DDGInv, Pooled
<1>5. Sorted'
  BY <1>1 DEF DDGInv, Sorted
<1> QED
  BY <1>1, <1>2, <1>3, <1>4, <1>5, GraphKept, TypeParts DEF DDGInv

LEMMA DDGOfAdd ==
    ASSUME DDGInv, add_action PROVE DDGInv'
<1>1. PICK rs, ws \in Declaration : Distinct(rs) /\ Distinct(ws) /\ AddItem(rs, ws)
  BY DEF add_action
<1> DEFINE m == n + 1
           nr == [k \in DOMAIN rs |-> NULL]
           nw == [k \in DOMAIN ws |-> NULL]
<1>2. /\ error = "none" /\ pc = "idle" /\ ~scheduled /\ n < MaxItems /\ n' = m
      /\ reads' = [reads EXCEPT ![m] = rs] /\ writes' = [writes EXCEPT ![m] = ws]
      /\ input' = [input EXCEPT ![m] = nr] /\ output' = [output EXCEPT ![m] = nw]
      /\ UNCHANGED <<pool, act, sort, roots, scheduled, inited, pc, walked, error>>
  BY <1>1 DEF AddItem, At
<1>3. Graph /\ Lists /\ Flags /\ pool = <<>> /\ sort = <<>> /\ roots = <<>> /\ Unlinked
  BY <1>2, TypeParts DEF DDGInv, Control
<1>4. m \in Item /\ m \in 0..MaxItems /\ n \in Nat
  BY <1>2, <1>3, SchedulerAssumption DEF Graph, Item
<1>5. ASSUME NEW d \in Declaration, NEW link, link = [k \in DOMAIN d |-> NULL]
      PROVE  link \in Links /\ DOMAIN link = DOMAIN d /\ \A k \in DOMAIN link : link[k] = NULL
  <2>1. PICK c \in 0..MaxSlots : d \in [1..c -> Keys]
    BY DEF Declaration
  <2>2. link \in [1..c -> Item \cup {NULL}]
    BY <1>5, <2>1
  <2> QED
    BY <1>5, <2>1, <2>2 DEF Links
<1>6. /\ nr \in Links /\ DOMAIN nr = DOMAIN rs /\ \A k \in DOMAIN nr : nr[k] = NULL
      /\ nw \in Links /\ DOMAIN nw = DOMAIN ws /\ \A k \in DOMAIN nw : nw[k] = NULL
  BY <1>5
<1> HIDE DEF m, nr, nw
<1>7. /\ reads' \in [Item -> Declaration] /\ writes' \in [Item -> Declaration]
      /\ input' \in [Item -> Links] /\ output' \in [Item -> Links]
      /\ \A i \in Item : /\ reads'[i] = IF i = m THEN rs ELSE reads[i]
                         /\ writes'[i] = IF i = m THEN ws ELSE writes[i]
                         /\ input'[i] = IF i = m THEN nr ELSE input[i]
                         /\ output'[i] = IF i = m THEN nw ELSE output[i]
  BY <1>2, <1>3, <1>6 DEF Graph
<1>8. Graph'
  BY <1>2, <1>3, <1>4, <1>6, <1>7 DEF Graph
<1>9. Lists' /\ Flags'
  <2>1. \A S : <<>> \in Seq(S)
    OBVIOUS
  <2> QED
    BY <1>2, <1>3, <2>1 DEF Lists, Flags
<1>10. Unlinked'
  BY <1>3, <1>6, <1>7 DEF Unlinked
<1>11. Linked(reads', writes', input', output')
  <2>1. Shaped(reads, input) /\ Shaped(writes, output)
    BY DEF DDGInv, Linked
  <2>2. Shaped(reads', input')
    BY <1>1, <1>6, <1>7, <1>10, <2>1 DEF Shaped, Unlinked
  <2>3. Shaped(writes', output')
    BY <1>1, <1>6, <1>7, <1>10, <2>1 DEF Shaped, Unlinked
  <2> QED
    BY <1>10, <2>2, <2>3, NothingLinked DEF Unlinked
<1>12. Unused'
  BY <1>2, <1>4, <1>7 DEF DDGInv, Unused, m, Item
<1>13. Control' /\ Pooled'
  BY <1>2, <1>3, <1>10 DEF DDGInv, Control, Pooled
<1>14. Sorted'
  <2>1. DOMAIN sort' = {}
    BY <1>2, <1>3
  <2> QED
    BY <1>2, <2>1 DEF Sorted, Injective, Ordered
<1> QED
  BY <1>8, <1>9, <1>11, <1>12, <1>13, <1>14, TypeParts DEF DDGInv

LEMMA DDGOfSchedule ==
    ASSUME DDGInv, schedule PROVE DDGInv'
<1>1. CASE scheduled
  BY <1>1, DDGOfAbort DEF schedule
<1>2. CASE ~scheduled
  <2>1. /\ pc = "idle" /\ pc' = "build" /\ pool' = [i \in 1..n |-> i] /\ act' = 1
        /\ UNCHANGED <<n, reads, writes, input, output, sort, roots,
                       scheduled, inited, walked, error>>
    BY <1>2 DEF schedule, At
  <2>2. Graph /\ Lists /\ Flags /\ sort = <<>> /\ n \in Nat
    BY <1>2, <2>1, TypeParts DEF DDGInv, Control, Graph
  <2>3. /\ pool' \in Seq(1..n) /\ Len(pool') = n /\ DOMAIN pool' = 1..n
        /\ \A i \in 1..n : i \in Elements(pool')
    BY <2>1, <2>2, AllItems
  <2>4. pool' # <<>> => 1 \in DOMAIN pool'
    <3>1. n = 0 => pool' = <<>>
      BY <2>3
    <3> QED
      BY <2>2, <2>3, <3>1
  <2>5. Graph' /\ Lists' /\ Flags'
    BY <2>1, <2>2, <2>3, <2>4, GraphKept DEF Lists, Flags, Phases
  <2>6. Control'
    <3>1. pool' = <<>> => n = 0
      BY <2>2, <2>3
    <3> QED
      BY <1>2, <2>1, <2>2, <3>1 DEF DDGInv, Control
  <2>7. Pooled'
    <3>1. \A i \in Item : i \notin 1..n => fulfilled(i)
      BY <2>2 DEF DDGInv, Unused, fulfilled, Graph, Item
    <3> QED
      BY <1>2, <2>1, <2>3, <3>1, GraphKept DEF Pooled
  <2>8. Sorted'
    <3>1. DOMAIN sort' = {}
      BY <2>1, <2>2
    <3> QED
      BY <1>2, <2>1, <3>1 DEF Sorted, Injective, Ordered
  <2> QED
    BY <2>1, <2>5, <2>6, <2>7, <2>8, GraphKept, TypeParts DEF DDGInv
<1> QED
  BY <1>1, <1>2

\* A visit's link, from either end: links are only added.
LEMMA DDGOfLinking ==
    ASSUME DDGInv, pc = "build",
           input' \in [Item -> Links], output' \in [Item -> Links],
           \A x \in Item : DOMAIN input'[x] = DOMAIN input[x] /\ DOMAIN output'[x] = DOMAIN output[x],
           \A x \in Item : \A y \in DOMAIN input[x] : input[x][y] # NULL => input'[x][y] # NULL,
           \A x \in Item : \A y \in DOMAIN output[x] : output[x][y] # NULL => output'[x][y] # NULL,
           Linked(reads, writes, input', output'),
           UNCHANGED <<n, reads, writes, pool, act, sort, roots,
                       scheduled, inited, pc, walked, error>>
    PROVE  DDGInv'
<1>1. Graph' /\ Lists' /\ Flags'
  BY TypeParts DEF DDGInv, Graph, Lists, Flags
<1>2. Linked(reads, writes, input, output)' /\ Unused'
  BY DEF DDGInv, Unused
<1>3. sort = <<>> /\ ~scheduled
  BY DEF DDGInv, Control
<1>4. Control'
  BY <1>3 DEF DDGInv, Control
<1>5. Pooled'
  <2>1. \A x \in Item : fulfilled(x) => fulfilled(x)'
    BY DEF fulfilled
  <2> QED
    BY <1>3, <2>1 DEF DDGInv, Pooled
<1>6. Sorted'
  <2>1. DOMAIN sort' = {}
    BY <1>3
  <2> QED
    BY <1>3, <2>1 DEF Sorted, Injective, Ordered
<1> QED
  BY <1>1, <1>2, <1>4, <1>5, <1>6, TypeParts DEF DDGInv

LEMMA DDGOfSetInput ==
    ASSUME DDGInv, pc = "build", NEW i \in Item, NEW k \in DOMAIN input[i], input[i][k] = NULL,
           SetInput(i, k)
    PROVE  DDGInv'
<1> DEFINE K == reads[i][k]
           matches == {a \in Elements(pool) : hasOutput(a, K) # 0}
<1>1. CASE COM_abort_msg("graph")
  BY <1>1, DDGOfAbort DEF DDGInv, Control
<1>2. ASSUME NEW a \in matches, matches = {a}, output[a][hasOutput(a, K)] = NULL,
             input' = [input EXCEPT ![i][k] = a],
             output' = [output EXCEPT ![a][hasOutput(a, K)] = i],
             UNCHANGED <<n, reads, writes, pool, act, sort, roots,
                         scheduled, inited, pc, walked, error>>
      PROVE  DDGInv'
  <2> DEFINE o == hasOutput(a, K)
  <2>1. Graph /\ Lists /\ a \in Elements(pool) /\ o # 0
    BY TypeParts DEF DDGInv
  <2>2. \A j \in Elements(pool) : j \in Item
    BY <2>1, SchedulerAssumption DEF Lists, Elements, Graph, Item
  <2>3. a \in Item /\ o \in DOMAIN writes[a] /\ writes[a][o] = K
    BY <2>1, <2>2, PositionFound DEF hasOutput, Graph
  <2>4. \A j \in Elements(pool) : \A l \in DOMAIN writes[j] : writes[j][l] = K => j = a
    <3> SUFFICES ASSUME NEW j \in Elements(pool), NEW l \in DOMAIN writes[j], writes[j][l] = K
                 PROVE  j = a
      OBVIOUS
    <3>1. writes[j] \in Declaration
      BY <2>1, <2>2 DEF Graph
    <3>2. hasOutput(j, K) # 0
      BY <3>1, PositionFound DEF hasOutput
    <3> QED
      BY <1>2, <3>2
  <2>5. \A j \in Item : j \in Elements(pool) \/ \A l \in DOMAIN output[j] : output[j][l] # NULL
    BY DEF DDGInv, Pooled, fulfilled
  <2>6. /\ output[a][o] = NULL /\ input' = [input EXCEPT ![i][k] = a]
        /\ output' = [output EXCEPT ![a][o] = i] /\ o \in DOMAIN output[a]
    BY <1>2, <2>1, <2>3 DEF Graph
  <2> HIDE DEF o, matches
  <2>7. /\ input' \in [Item -> Links]
        /\ \A x \in Item : DOMAIN input'[x] = DOMAIN input[x]
        /\ \A x \in Item : \A y \in DOMAIN input[x] :
              input'[x][y] = IF x = i /\ y = k THEN a ELSE input[x][y]
    BY <2>1, <2>3, <2>6, SetLink DEF Graph
  <2>8. /\ output' \in [Item -> Links]
        /\ \A x \in Item : DOMAIN output'[x] = DOMAIN output[x]
        /\ \A x \in Item : \A y \in DOMAIN output[x] :
              output'[x][y] = IF x = a /\ y = o THEN i ELSE output[x][y]
    BY <2>1, <2>3, <2>6, SetLink DEF Graph
  <2>9. Linked(reads, writes, input, output)
    BY DEF DDGInv
  <2>10. Linked(reads, writes, input', output')
    <3>1. LinksSlots(reads, writes, input, output, input', output', Elements(pool), i, k, a, o)
      BY <2>3, <2>4, <2>5, <2>6, <2>7, <2>8 DEF LinksSlots
    <3> QED
      BY <2>9, <3>1, LinkStep, Zenon
  <2>11. a # NULL /\ i # NULL
    BY <2>3, SchedulerAssumption
  <2> QED
    BY <1>2, <2>7, <2>8, <2>10, <2>11, DDGOfLinking
<1> QED
  BY <1>1, <1>2 DEF SetInput

LEMMA DDGOfSetOutput ==
    ASSUME DDGInv, pc = "build", NEW i \in Item, NEW k \in DOMAIN output[i], output[i][k] = NULL,
           SetOutput(i, k)
    PROVE  DDGInv'
<1> DEFINE K == writes[i][k]
           matches == {a \in Elements(pool) : hasInput(a, K) # 0}
<1>1. CASE COM_abort_msg("graph")
  BY <1>1, DDGOfAbort DEF DDGInv, Control
<1>2. ASSUME NEW a \in matches, matches = {a}, input[a][hasInput(a, K)] = NULL,
             output' = [output EXCEPT ![i][k] = a],
             input' = [input EXCEPT ![a][hasInput(a, K)] = i],
             UNCHANGED <<n, reads, writes, pool, act, sort, roots,
                         scheduled, inited, pc, walked, error>>
      PROVE  DDGInv'
  <2> DEFINE o == hasInput(a, K)
  <2>1. Graph /\ Lists /\ a \in Elements(pool) /\ o # 0
    BY TypeParts DEF DDGInv
  <2>2. \A j \in Elements(pool) : j \in Item
    BY <2>1, SchedulerAssumption DEF Lists, Elements, Graph, Item
  <2>3. a \in Item /\ o \in DOMAIN reads[a] /\ reads[a][o] = K
    BY <2>1, <2>2, PositionFound DEF hasInput, Graph
  <2>4. \A j \in Elements(pool) : \A l \in DOMAIN reads[j] : reads[j][l] = K => j = a
    <3> SUFFICES ASSUME NEW j \in Elements(pool), NEW l \in DOMAIN reads[j], reads[j][l] = K
                 PROVE  j = a
      OBVIOUS
    <3>1. reads[j] \in Declaration
      BY <2>1, <2>2 DEF Graph
    <3>2. hasInput(j, K) # 0
      BY <3>1, PositionFound DEF hasInput
    <3> QED
      BY <1>2, <3>2
  <2>5. \A j \in Item : j \in Elements(pool) \/ \A l \in DOMAIN input[j] : input[j][l] # NULL
    BY DEF DDGInv, Pooled, fulfilled
  <2>6. /\ input[a][o] = NULL /\ output' = [output EXCEPT ![i][k] = a]
        /\ input' = [input EXCEPT ![a][o] = i] /\ o \in DOMAIN input[a]
    BY <1>2, <2>1, <2>3 DEF Graph
  <2> HIDE DEF o, matches
  <2>7. /\ output' \in [Item -> Links]
        /\ \A x \in Item : DOMAIN output'[x] = DOMAIN output[x]
        /\ \A x \in Item : \A y \in DOMAIN output[x] :
              output'[x][y] = IF x = i /\ y = k THEN a ELSE output[x][y]
    BY <2>1, <2>3, <2>6, SetLink DEF Graph
  <2>8. /\ input' \in [Item -> Links]
        /\ \A x \in Item : DOMAIN input'[x] = DOMAIN input[x]
        /\ \A x \in Item : \A y \in DOMAIN input[x] :
              input'[x][y] = IF x = a /\ y = o THEN i ELSE input[x][y]
    BY <2>1, <2>3, <2>6, SetLink DEF Graph
  <2>9. Linked(writes, reads, output, input)
    BY DEF DDGInv, Linked
  <2>10. Linked(writes, reads, output', input')
    <3>1. LinksSlots(writes, reads, output, input, output', input', Elements(pool), i, k, a, o)
      BY <2>3, <2>4, <2>5, <2>6, <2>7, <2>8 DEF LinksSlots
    <3> QED
      BY <2>9, <3>1, LinkStep, Zenon
  <2>11. Linked(reads, writes, input', output')
    BY <2>10 DEF Linked
  <2>12. a # NULL /\ i # NULL
    BY <2>3, SchedulerAssumption
  <2> QED
    BY <1>2, <2>7, <2>8, <2>11, <2>12, DDGOfLinking
<1> QED
  BY <1>1, <1>2 DEF SetOutput

\* The item of a visit and its first empty link
LEMMA Visited ==
    ASSUME DDGInv, pc = "build", pool # <<>>
    PROVE  /\ act \in 1..Len(pool) /\ pool[act] \in 1..n /\ pool[act] \in Item
           /\ input[pool[act]] \in Links /\ output[pool[act]] \in Links
<1>1. /\ n \in 0..MaxItems /\ pool \in Seq(1..n) /\ act \in DOMAIN pool
      /\ input \in [Item -> Links] /\ output \in [Item -> Links]
  BY DEF DDGInv, TypeOK
<1>2. act \in 1..Len(pool) /\ pool[act] \in 1..n
  BY <1>1
<1>3. pool[act] \in Item
  BY <1>1, <1>2, SchedulerAssumption DEF Item
<1> QED
  BY <1>1, <1>2, <1>3

LEMMA DDGOfFill ==
    ASSUME DDGInv, Fill PROVE DDGInv'
<1> DEFINE i == pool[act]
<1>1. /\ pc = "build" /\ pool # <<>>
      /\ \/ HasEmpty(input[i]) /\ SetInput(i, FirstEmpty(input[i]))
         \/ HasEmpty(output[i]) /\ SetOutput(i, FirstEmpty(output[i]))
  BY DEF Fill, At
<1>2. i \in Item /\ input[i] \in Links /\ output[i] \in Links
  BY <1>1, Visited
<1> HIDE DEF i
<1> QED
  BY <1>1, <1>2, FirstEmptyFound, DDGOfSetInput, DDGOfSetOutput

\* Erasing an element leaves the others.
LEMMA ElementsAfterRemove ==
    ASSUME NEW S, NEW s \in Seq(S), NEW p \in 1..Len(s), NEW x \in Elements(s), x # s[p]
    PROVE  x \in Elements(SeqRemove(s, p))
<1>1. PICK q \in 1..Len(s) : x = s[q]
  BY DEF Elements
<1>2. /\ SeqRemove(s, p) \in Seq(S) /\ Len(SeqRemove(s, p)) = Len(s) - 1
      /\ \A y \in 1..(Len(s) - 1) : SeqRemove(s, p)[y] = IF y < p THEN s[y] ELSE s[y + 1]
  BY SeqRemoveFacts
<1> DEFINE t == SeqRemove(s, p)
<1>3. Len(s) \in Nat /\ p \in Nat /\ q \in Nat /\ q # p /\ DOMAIN t = 1..(Len(s) - 1)
  BY <1>1, <1>2
<1> HIDE DEF t
<1>4. CASE q < p
  <2>1. q \in 1..(Len(s) - 1) /\ t[q] = s[q]
    BY <1>1, <1>2, <1>3, <1>4 DEF t
  <2> QED
    BY <1>1, <1>3, <2>1 DEF Elements, t
<1>5. CASE q > p
  <2>1. q - 1 \in 1..(Len(s) - 1) /\ t[q - 1] = s[q]
    BY <1>1, <1>2, <1>3, <1>5 DEF t
  <2> QED
    BY <1>1, <1>3, <2>1 DEF Elements, t
<1> QED
  BY <1>3, <1>4, <1>5

LEMMA DDGOfAdvance ==
    ASSUME DDGInv, Advance PROVE DDGInv'
<1> DEFINE i == pool[act]
           L == Len(pool)
<1>0. /\ pc = "build" /\ pool # <<>>
      /\ UNCHANGED <<n, reads, writes, input, output, sort, roots, scheduled, inited, walked, error>>
      /\ \/ fulfilled(i) /\ L = 1 /\ pc' = "check" /\ UNCHANGED <<pool, act>>
         \/ fulfilled(i) /\ L # 1 /\ pool' = SeqRemove(pool, act)
            /\ act' = (IF act = L THEN 1 ELSE act) /\ UNCHANGED pc
         \/ act' = (IF act = L THEN 1 ELSE act + 1) /\ UNCHANGED <<pool, pc>>
  BY DEF Advance, At, Leaves, NextPosition
<1>1. Graph /\ Lists /\ Flags /\ ~scheduled /\ sort = <<>> /\ pool \in Seq(1..n)
  BY <1>0, TypeParts DEF DDGInv, Control, Lists
<1>2. act \in 1..L /\ L \in Nat /\ i \in Item /\ i \in 1..n
  BY <1>0, <1>1, Visited
<1>3. \A j \in Item : fulfilled(j) \/ j \in Elements(pool)
  BY <1>0 DEF DDGInv, Pooled
<1>4. /\ Graph' /\ Linked(reads, writes, input, output)' /\ Unused'
      /\ \A j \in Item : fulfilled(j)' = fulfilled(j)
  BY <1>0, GraphKept
<1>5. Sorted'
  <2>1. DOMAIN sort' = {} /\ pc' # "sort" /\ ~scheduled'
    BY <1>0, <1>1
  <2> QED
    BY <2>1 DEF Sorted, Injective, Ordered
<1>6. CASE fulfilled(i) /\ L = 1 /\ pc' = "check" /\ UNCHANGED <<pool, act>>
  <2>1. \A j \in Elements(pool) : j = i
    BY <1>1, <1>2, <1>6 DEF Elements
  <2>2. Complete'
    BY <1>3, <1>4, <1>6, <2>1 DEF Complete
  <2>3. Lists' /\ Flags' /\ Control'
    BY <1>0, <1>1, <1>6 DEF DDGInv, Lists, Flags, Phases, Control
  <2>4. Pooled'
    BY <1>6, <2>2 DEF Pooled
  <2> QED
    BY <1>4, <1>5, <2>3, <2>4, TypeParts DEF DDGInv
<1>7. CASE fulfilled(i) /\ L # 1 /\ pool' = SeqRemove(pool, act)
           /\ act' = (IF act = L THEN 1 ELSE act) /\ UNCHANGED pc
  <2>1. pool' \in Seq(1..n) /\ Len(pool') = L - 1
    BY <1>1, <1>2, <1>7, SeqRemoveFacts
  <2>2. act' \in Nat /\ act' \in DOMAIN pool'
    <3>1. DOMAIN pool' = 1..(L - 1) /\ L >= 2
      BY <1>2, <1>7, <2>1
    <3> QED
      BY <1>2, <1>7, <3>1
  <2>3. Lists' /\ Flags' /\ Control'
    <3>1. pool' # <<>>
      BY <2>2
    <3> QED
      BY <1>0, <1>1, <1>7, <2>1, <2>2, <3>1 DEF DDGInv, Lists, Flags, Control
  <2>4. \A j \in Item : fulfilled(j) \/ j \in Elements(pool')
    BY <1>1, <1>2, <1>3, <1>7, ElementsAfterRemove
  <2>5. Pooled'
    BY <1>0, <1>1, <1>4, <1>7, <2>4 DEF Pooled
  <2> QED
    BY <1>4, <1>5, <2>3, <2>5, TypeParts DEF DDGInv
<1>8. CASE act' = (IF act = L THEN 1 ELSE act + 1) /\ UNCHANGED <<pool, pc>>
  <2>1. act' \in Nat /\ act' \in DOMAIN pool'
    BY <1>1, <1>2, <1>8
  <2>2. Lists' /\ Flags' /\ Control'
    BY <1>0, <1>1, <1>8, <2>1 DEF DDGInv, Lists, Flags, Control
  <2>3. Pooled'
    BY <1>0, <1>1, <1>3, <1>4, <1>8 DEF Pooled
  <2> QED
    BY <1>4, <1>5, <2>2, <2>3, TypeParts DEF DDGInv
<1> QED
  BY <1>0, <1>6, <1>7, <1>8

LEMMA DDGOfBuildNothing ==
    ASSUME DDGInv, BuildNothing PROVE DDGInv'
<1>0. /\ pc = "build" /\ pool = <<>> /\ pc' = "check" /\ roots' = Roots[n]
      /\ UNCHANGED <<n, reads, writes, input, output, pool, act, sort, scheduled, inited, walked, error>>
  BY DEF BuildNothing, At
<1>1. Graph /\ Lists /\ Flags /\ ~scheduled /\ sort = <<>>
  BY <1>0, TypeParts DEF DDGInv, Control
<1>2. \A j \in Item : fulfilled(j)
  <2>1. Elements(pool) = {}
    BY <1>0 DEF Elements
  <2> QED
    BY <1>0, <2>1 DEF DDGInv, Pooled
<1>3. /\ Graph' /\ Linked(reads, writes, input, output)' /\ Unused' /\ Complete'
  BY <1>0, <1>2, GraphKept DEF Complete

<1>4. roots' = <<>>
  BY <1>0, NoRoots DEF DDGInv, Control
<1>5. Lists' /\ Flags' /\ Control'
  <2>1. <<>> \in Seq(1..n)
    OBVIOUS
  <2> QED
    BY <1>0, <1>1, <1>4, <2>1 DEF DDGInv, Lists, Flags, Phases, Control
<1>6. Pooled'
  BY <1>0, <1>3 DEF Pooled
<1>7. Sorted'
  <2>1. DOMAIN sort' = {} /\ pc' # "sort" /\ ~scheduled'
    BY <1>0, <1>1
  <2> QED
    BY <2>1 DEF Sorted, Injective, Ordered
<1> QED
  BY <1>3, <1>5, <1>6, <1>7, TypeParts DEF DDGInv

LEMMA DDGOfSanityCheck ==
    ASSUME DDGInv, sanityCheck PROVE DDGInv'
<1>1. CASE COM_abort_msg("graph")
  BY <1>1, DDGOfAbort DEF DDGInv, Control, sanityCheck, At
<1>2. CASE ~COM_abort_msg("graph")
  <2>0. /\ pc = "check" /\ pc' = "sort" /\ pool' = [i \in 1..n |-> i]
        /\ UNCHANGED <<n, reads, writes, input, output, act, sort, roots,
                       scheduled, inited, walked, error>>
    BY <1>2 DEF sanityCheck, At
  <2>1. Graph /\ Lists /\ Flags /\ ~scheduled /\ sort = <<>> /\ Complete /\ n \in Nat
    BY <2>0, TypeParts DEF DDGInv, Control, Pooled, Graph
  <2>2. /\ pool' \in Seq(1..n) /\ Len(pool') = n /\ Injective(pool')
        /\ \A i \in 1..n : i \in Elements(pool')
    BY <2>0, <2>1, AllItems
  <2>3. Lists' /\ Flags' /\ Control'
    BY <2>0, <2>1, <2>2 DEF DDGInv, Lists, Flags, Phases, Control
  <2>4. Pooled'
    BY <2>0, <2>1, GraphKept DEF Pooled
  <2>5. Sorted'
    <3>1. DOMAIN sort' = {} /\ Len(sort') = 0 /\ Elements(sort') = {}
      BY <2>0, <2>1 DEF Elements
    <3> QED
      BY <2>0, <2>1, <2>2, <3>1 DEF Sorted, Injective, Ordered
  <2> QED
    BY <2>0, <2>3, <2>4, <2>5, GraphKept, TypeParts DEF DDGInv
<1> QED
  BY <1>1, <1>2

\* Moving a ready item from the pool to the end of sort
LEMMA DDGOfMove ==
    ASSUME DDGInv, pc = "sort", NEW p \in DOMAIN pool, Ready(pool[p]),
           sort' = Append(sort, pool[p]), pool' = SeqRemove(pool, p),
           UNCHANGED <<n, reads, writes, input, output, act, roots,
                       scheduled, inited, pc, walked, error>>
    PROVE  DDGInv'
<1> DEFINE x == pool[p]
           L == Len(pool)
           S == Len(sort)
<1>1. /\ Graph /\ Lists /\ Flags /\ ~scheduled /\ Complete
      /\ pool \in Seq(1..n) /\ sort \in Seq(1..n) /\ walked \in 0..S
  BY TypeParts DEF DDGInv, Control, Pooled, Lists
<1>2. p \in 1..L /\ L \in Nat /\ S \in Nat /\ x \in 1..n /\ DOMAIN sort = 1..S
  <2>1. DOMAIN pool = 1..L /\ L \in Nat /\ S \in Nat /\ DOMAIN sort = 1..S
    BY <1>1, LenProperties
  <2>2. p \in 1..L
    BY <2>1
  <2> QED
    BY <1>1, <2>1, <2>2, ElementOfSeq
<1>3. /\ Injective(pool) /\ L + S = n /\ Injective(sort) /\ Ordered(sort, input)
      /\ \A i \in 1..n : i \in Elements(pool) <=> i \notin Elements(sort)
  BY DEF DDGInv, Sorted
<1>4. /\ pool' \in Seq(1..n) /\ Len(pool') = L - 1 /\ DOMAIN pool' = 1..(L - 1)
      /\ \A q \in 1..(L - 1) : pool'[q] = IF q < p THEN pool[q] ELSE pool[q + 1]
  <2>1. /\ pool' \in Seq(1..n) /\ Len(pool') = L - 1
        /\ \A q \in 1..(L - 1) : pool'[q] = IF q < p THEN pool[q] ELSE pool[q + 1]
    BY <1>1, <1>2, SeqRemoveFacts
  <2> QED
    BY <2>1
<1>5. /\ sort' \in Seq(1..n) /\ Len(sort') = S + 1 /\ DOMAIN sort' = 1..(S + 1)
      /\ sort'[S + 1] = x /\ \A q \in 1..S : sort'[q] = sort[q]
  BY <1>1, <1>2
<1>6. x \in Elements(pool) /\ x \notin Elements(sort)
  <2>1. x \in Elements(pool)
    BY DEF Elements
  <2> QED
    BY <1>2, <1>3, <2>1
<1> HIDE DEF x, L, S
<1>7. Lists' /\ Flags' /\ Control'
  <2>1. walked' \in 0..Len(sort')
    BY <1>1, <1>2, <1>5
  <2> QED
    BY <1>1, <1>4, <1>5, <2>1 DEF DDGInv, Lists, Flags, Control
<1>8. Pooled'
  BY <1>1, GraphKept DEF Pooled
<1>9. Injective(sort')
  <2>1. \A q \in 1..S : sort'[q] # x
    BY <1>2, <1>5, <1>6 DEF Elements
  <2>2. \A q, r \in 1..S : sort'[q] = sort'[r] => q = r
    BY <1>2, <1>3, <1>5 DEF Injective
  <2> QED
    BY <1>2, <1>5, <2>1, <2>2 DEF Injective
<1>10. Ordered(sort', input)
  <2> SUFFICES ASSUME NEW q \in 1..(S + 1), NEW k \in DOMAIN input[sort'[q]]
               PROVE  \E r \in 1..(q - 1) : sort'[r] = input[sort'[q]][k]
    BY <1>5 DEF Ordered
  <2>1. CASE q \in 1..S
    <3>1. PICK r \in 1..(q - 1) : sort[r] = input[sort[q]][k]
      BY <1>2, <1>3, <1>5, <2>1 DEF Ordered
    <3> QED
      BY <1>2, <1>5, <2>1, <3>1
  <2>2. CASE q = S + 1
    <3>1. input[x][k] \in Elements(sort)
      BY <1>5, <2>2 DEF Ready, x
    <3>2. PICK r \in 1..S : sort[r] = input[x][k]
      BY <1>2, <3>1 DEF Elements
    <3> QED
      BY <1>2, <1>5, <2>2, <3>2
  <2> QED
    BY <1>2, <2>1, <2>2
<1>11. Injective(pool')
  <2>1. \A q, r \in 1..L : pool[q] = pool[r] => q = r
    BY <1>1, <1>3 DEF Injective, L
  <2> SUFFICES ASSUME NEW q \in 1..(L - 1), NEW r \in 1..(L - 1), pool'[q] = pool'[r] PROVE q = r
    BY <1>4 DEF Injective
  <2> DEFINE old(y) == IF y < p THEN y ELSE y + 1
  <2>2. old(q) \in 1..L /\ old(r) \in 1..L /\ (old(q) = old(r) => q = r)
    BY <1>2
  <2>3. pool[old(q)] = pool[old(r)]
    BY <1>4
  <2> QED
    BY <2>1, <2>2, <2>3
<1>12. \A i \in 1..n : i \in Elements(pool') <=> i \notin Elements(sort')
  <2> SUFFICES ASSUME NEW i \in 1..n
               PROVE  i \in Elements(pool') <=> i \notin Elements(sort')
    OBVIOUS
  <2>1. i \in Elements(sort') <=> i \in Elements(sort) \/ i = x
    <3>1. Elements(sort') = {sort'[q] : q \in 1..(S + 1)} /\ Elements(sort) = {sort[q] : q \in 1..S}
      BY <1>2, <1>5 DEF Elements
    <3>2. x = sort'[S + 1] /\ S + 1 \in 1..(S + 1) /\ \A q \in 1..S : q \in 1..(S + 1)
      BY <1>2, <1>5
    <3>3. \A q \in 1..(S + 1) : q = S + 1 \/ q \in 1..S
      BY <1>2
    <3>4. i \in Elements(sort') => i \in Elements(sort) \/ i = x
      BY <1>5, <3>1, <3>3
    <3>5. i \in Elements(sort) => i \in Elements(sort')
      BY <1>5, <3>1, <3>2
    <3>6. x \in Elements(sort')
      BY <3>1, <3>2
    <3> QED
      BY <3>4, <3>5, <3>6
  <2>2. i \in Elements(pool) /\ i # x => i \in Elements(pool')
    BY <1>1, <1>2, ElementsAfterRemove DEF x, L
  <2>3. i \in Elements(pool') => i \in Elements(pool) /\ i # x
    <3> SUFFICES ASSUME NEW q \in 1..(L - 1), i = pool'[q] PROVE i \in Elements(pool) /\ i # x
      BY <1>4 DEF Elements
    <3> DEFINE r == IF q < p THEN q ELSE q + 1
    <3>1. r \in 1..L /\ r # p /\ i = pool[r] /\ DOMAIN pool = 1..L
      BY <1>1, <1>2, <1>4 DEF L
    <3> QED
      BY <1>2, <1>3, <3>1 DEF Injective, Elements, x
  <2> QED
    BY <1>3, <2>1, <2>2, <2>3
<1>13. Sorted'
  <2>1. Len(pool') + Len(sort') = n
    BY <1>2, <1>3, <1>4, <1>5
  <2> QED
    BY <1>1, <1>9, <1>10, <1>11, <1>12, <2>1 DEF Sorted
<1> QED
  BY <1>7, <1>8, <1>13, GraphKept, TypeParts DEF DDGInv

LEMMA DDGOfSort ==
    ASSUME DDGInv, topological_sort PROVE DDGInv'
<1>1. pc = "sort" /\ ~scheduled
  BY DEF topological_sort, At, DDGInv, Control
<1>2. CASE COM_abort_msg("graph")
  BY <1>1, <1>2, DDGOfAbort
<1>3. CASE ~COM_abort_msg("graph")
  BY <1>1, <1>3, DDGOfMove DEF topological_sort
<1> QED
  BY <1>2, <1>3

LEMMA DDGOfScheduleReturn ==
    ASSUME DDGInv, schedule_return PROVE DDGInv'
<1>0. /\ pc = "sort" /\ pool = <<>> /\ error = "none" /\ scheduled' = TRUE /\ pc' = "idle"
      /\ UNCHANGED <<n, reads, writes, input, output, pool, act, sort, roots,
                     inited, walked, error>>
  BY DEF schedule_return, At
<1>1. Graph /\ Lists /\ Flags /\ Complete
  BY <1>0, TypeParts DEF DDGInv, Pooled
<1>2. Lists' /\ Flags' /\ Control'
  BY <1>0, <1>1 DEF Lists, Flags, Phases, Control
<1>3. Pooled'
  BY <1>0, <1>1, GraphKept DEF Pooled
<1>4. Sorted'
  <2>1. Len(pool) = 0 /\ Elements(pool) = {}
    BY <1>0 DEF Elements
  <2>2. Len(sort) = n
    BY <1>0, <1>1, <2>1 DEF DDGInv, Sorted, Lists, Graph
  <2>3. \A i \in 1..n : i \in Elements(sort)
    BY <1>0, <2>1 DEF DDGInv, Sorted
  <2> QED
    BY <1>0, <2>2, <2>3 DEF DDGInv, Sorted
<1> QED
  BY <1>0, <1>2, <1>3, <1>4, GraphKept, TypeParts DEF DDGInv

\* A pass only walks; restarting only forgets that init_actions was called.
LEMMA DDGOfPass ==
    ASSUME DDGInv, error = "none", pc \in {"idle", "init", "run", "finalize"},
           pc' \in {"idle", "init", "run", "finalize"},
           walked' \in 0..Len(sort), inited' \in BOOLEAN,
           scheduled \/ (pc' = pc /\ inited' = FALSE),
           UNCHANGED <<n, reads, writes, input, output, pool, act, sort, roots, scheduled, error>>
    PROVE  DDGInv'
<1>1. Graph /\ Lists /\ Flags
  BY TypeParts DEF DDGInv
<1>2. Lists' /\ Flags'
  BY <1>1 DEF Lists, Flags, Phases
<1>3. Control'
  BY DEF DDGInv, Control, Unlinked
<1>4. Pooled' /\ Sorted'
  BY GraphKept DEF DDGInv, Pooled, Sorted
<1> QED
  BY <1>2, <1>3, <1>4, GraphKept, TypeParts DEF DDGInv

LEMMA DDGOfPasses ==
    ASSUME DDGInv,
           \/ init_actions \/ run_actions \/ finalize_actions
           \/ CallAction \/ EndPass \/ restarting
    PROVE  DDGInv'
<1>1. /\ walked \in 0..Len(sort) /\ Len(sort) \in Nat /\ inited \in BOOLEAN
      /\ inited => scheduled
      /\ pc \in {"init", "run", "finalize"} => scheduled
  BY DEF DDGInv, TypeOK, Control
<1>2. CASE COM_abort_msg("misuse")
  BY <1>2, DDGOfAbort
<1>3. CASE ~COM_abort_msg("misuse")
  <2>1. CASE init_actions \/ run_actions \/ finalize_actions
    <3>1. /\ error = "none" /\ pc = "idle" /\ scheduled
          /\ pc' \in {"init", "run", "finalize"} /\ walked' = 0
          /\ UNCHANGED <<n, reads, writes, input, output, pool, act, sort, roots,
                         scheduled, inited, error>>
      BY <1>1, <1>3, <2>1 DEF init_actions, run_actions, finalize_actions, Begin, At
    <3> QED
      BY <1>1, <3>1, DDGOfPass
  <2>2. CASE CallAction
    <3>1. walked' \in 0..Len(sort)
      BY <1>1, <2>2 DEF CallAction
    <3> QED
      BY <1>1, <2>2, <3>1, DDGOfPass DEF CallAction
  <2>3. CASE EndPass
    <3>1. inited' \in BOOLEAN
      BY <2>3, Zenon DEF EndPass
    <3>2. /\ error = "none" /\ pc \in {"init", "run", "finalize"} /\ pc' = "idle" /\ walked' = 0
          /\ UNCHANGED <<n, reads, writes, input, output, pool, act, sort, roots, scheduled, error>>
      BY <2>3 DEF EndPass
    <3>3. /\ walked' \in 0..Len(sort) /\ scheduled
          /\ pc \in {"idle", "init", "run", "finalize"} /\ pc' \in {"idle", "init", "run", "finalize"}
      BY <1>1, <3>2
    <3> QED
      BY <3>1, <3>2, <3>3, DDGOfPass, Zenon
  <2>4. CASE restarting
    BY <1>1, <2>4, DDGOfPass DEF restarting, At
  <2> QED
    BY <2>1, <2>2, <2>3, <2>4
<1> QED
  BY <1>2, <1>3

LEMMA DDGStep == DDGInv /\ [Next]_vars => DDGInv'
<1> SUFFICES ASSUME DDGInv, [Next]_vars PROVE DDGInv'
  OBVIOUS
<1>1. CASE Client
  BY <1>1, DDGOfAdd, DDGOfSchedule, DDGOfPasses DEF Client
<1>2. CASE Scheduling
  BY <1>2, DDGOfFill, DDGOfAdvance, DDGOfBuildNothing, DDGOfSanityCheck, DDGOfSort,
     DDGOfScheduleReturn DEF Scheduling
<1>3. CASE CallAction \/ EndPass
  BY <1>3, DDGOfPasses
<1>4. CASE UNCHANGED vars
  <2>1. UNCHANGED <<n, reads, writes, input, output, pool, act, sort, roots,
                    scheduled, inited, pc, walked, error>>
    BY <1>4 DEF vars
  <2>2. Lists' /\ Flags' /\ Control' /\ Sorted'
    BY <2>1, TypeParts DEF DDGInv, Lists, Flags, Control, Sorted, Unlinked
  <2>3. Pooled'
    BY <2>1, GraphKept DEF DDGInv, Pooled
  <2> QED
    BY <2>1, <2>2, <2>3, GraphKept, TypeParts DEF DDGInv
<1> QED
  BY <1>1, <1>2, <1>3, <1>4 DEF Next

\* The inductive invariant of the scheduler holds in every state.
THEOREM DDGInvariant == Spec => []DDGInv
  BY DDGInit, DDGStep, PTL DEF Spec

\* Both ends of every link agree and name the same key, however many passes
\* over the pool buildDDG has made and from whichever end it linked.
THEOREM LinksAgreeHolds == Spec => []LinksAgree
<1>1. DDGInv => LinksAgree
  BY DEF DDGInv, Linked, Agrees, LinksAgree
<1> QED
  BY <1>1, DDGInvariant, PTL

\* Once the graph is complete an item is fed by exactly those it is linked to.
LEMMA FeedsIsLinked ==
    ASSUME DDGInv, Complete, NEW i \in Item, NEW j \in Item
    PROVE  Contract!Feeds(j, i) <=> \E k \in DOMAIN input[i] : input[i][k] = j
<1>1. /\ Linked(reads, writes, input, output)
      /\ \A x \in Item : /\ \A y \in DOMAIN input[x] : input[x][y] # NULL
                         /\ \A y \in DOMAIN output[x] : output[x][y] # NULL
      /\ \A x \in Item : DOMAIN input[x] = DOMAIN reads[x] /\ DOMAIN output[x] = DOMAIN writes[x]
  BY DEF DDGInv, Complete, fulfilled, TypeOK
<1>2. ASSUME NEW k \in DOMAIN writes[j], NEW l \in DOMAIN reads[i], writes[j][k] = reads[i][l]
      PROVE  input[i][l] = j
  BY <1>1, <1>2, LinksAreFlow
<1>3. ASSUME NEW k \in DOMAIN input[i], input[i][k] = j PROVE Contract!Feeds(j, i)
  <2>1. PICK l \in DOMAIN output[j] : output[j][l] = i /\ writes[j][l] = reads[i][k]
    BY <1>1, <1>3 DEF Linked, Agrees
  <2> QED
    BY <1>1, <2>1 DEF Contract!Feeds
<1> QED
  BY <1>1, <1>2, <1>3 DEF Contract!Feeds

\* After schedule() the sorted list is a topological order of the actions.
LEMMA SortIsTopological ==
    ASSUME DDGInv, Complete, Len(sort) = n
    PROVE  Contract!IsTopologicalOrder(sort)
<1>1. sort \in Seq(1..n) /\ n \in Nat /\ n <= MaxItems /\ Injective(sort) /\ Ordered(sort, input)
  BY DEF DDGInv, TypeOK, Sorted
<1>2. sort \in [1..n -> 1..n] /\ DOMAIN sort = 1..n /\ \A p \in 1..n : sort[p] \in Item
  BY <1>1, SchedulerAssumption DEF Item
<1>3. ASSUME NEW p \in 1..n, NEW q \in 1..n, Contract!Feeds(sort[p], sort[q]) PROVE p < q
  <2>1. PICK k \in DOMAIN input[sort[q]] : input[sort[q]][k] = sort[p]
    BY <1>2, <1>3, FeedsIsLinked
  <2>2. PICK r \in 1..(q - 1) : sort[r] = sort[p]
    BY <1>1, <1>2, <2>1 DEF Ordered
  <2> QED
    BY <1>1, <1>2, <2>2 DEF Injective
<1> QED
  BY <1>1, <1>2, <1>3 DEF Contract!IsTopologicalOrder, Injective

\* In an init or run pass no action is called before the ones whose output it
\* reads, in a finalize pass none before its readers.
THEOREM DataflowOrderHolds == Spec => []DataflowOrder
<1>1. ASSUME DDGInv PROVE DataflowOrder
  <2> SUFFICES ASSUME pc \in {"init", "run", "finalize"} PROVE DataflowOrder
    BY DEF DataflowOrder
  <2>1. Complete /\ Len(sort) = n /\ \A i \in 1..n : i \in Elements(sort)
    BY <1>1 DEF DDGInv, Control, Pooled, Sorted
  <2>2. /\ n \in Nat /\ walked \in 0..n /\ sort \in [1..n -> 1..n]
        /\ \A p, q \in 1..n : Contract!Feeds(sort[p], sort[q]) => p < q
    BY <1>1, <2>1, SortIsTopological DEF DDGInv, TypeOK, Contract!IsTopologicalOrder
  <2>3. \A i \in 1..n : \E p \in 1..n : sort[p] = i
    BY <2>1, <2>2 DEF Elements
  <2>4. CASE pc \in {"init", "run"}
    <3>1. Called = {sort[p] : p \in 1..walked}
      BY <2>4 DEF Called
    <3>2. ASSUME NEW p \in 1..walked, NEW j \in 1..n, Contract!Feeds(j, sort[p])
          PROVE  j \in Called
      <4>1. PICK q \in 1..n : sort[q] = j
        BY <2>3
      <4>2. q < p
        BY <2>2, <3>2, <4>1
      <4> QED
        BY <2>2, <3>1, <4>1, <4>2
    <3> QED
      BY <2>4, <3>1, <3>2 DEF DataflowOrder
  <2>5. CASE pc = "finalize"
    <3>1. Called = {sort[p] : p \in (n - walked + 1)..n}
      BY <2>1, <2>5 DEF Called
    <3>2. ASSUME NEW p \in (n - walked + 1)..n, NEW j \in 1..n, Contract!Feeds(sort[p], j)
          PROVE  j \in Called
      <4>1. PICK q \in 1..n : sort[q] = j
        BY <2>3
      <4>2. p < q
        BY <2>2, <3>2, <4>1
      <4> QED
        BY <2>2, <3>1, <4>1, <4>2
    <3> QED
      BY <2>5, <3>1, <3>2 DEF DataflowOrder
  <2> QED
    BY <2>4, <2>5
<1> QED
  BY <1>1, DDGInvariant, PTL

------------------------------------------------------------------------------
(* The scheduler implements its contract.                                  *)

\* The conditions of the contract, slot by slot
Matched(R, W) ==
    \A i \in Item : \A k \in DOMAIN R[i] :
        \E a \in Item : \E o \in DOMAIN W[a] :
            /\ W[a][o] = R[i][k]
            /\ \A b \in Item : \A p \in DOMAIN W[b] : W[b][p] = R[i][k] => b = a /\ p = o

\* The same with slots as pairs, as the contract has them
AreSlots(D, S) ==
    /\ \A i \in Item : \A k \in DOMAIN D[i] : <<i, k>> \in S
    /\ \A s \in S : s[1] \in Item /\ s[2] \in DOMAIN D[s[1]] /\ s = <<s[1], s[2]>>
SlotsMatched(R, W, A, B) ==
    \A r \in A : \E w \in B : /\ W[w[1]][w[2]] = R[r[1]][r[2]]
                             /\ \A v \in B : W[v[1]][v[2]] = R[r[1]][r[2]] => v = w

LEMMA SlotsOf ==
    ASSUME NEW D \in [Item -> Declaration],
           NEW S, S = {s \in Item \X (1..MaxSlots) : s[2] \in DOMAIN D[s[1]]}
    PROVE  AreSlots(D, S)
<1>1. ASSUME NEW i \in Item, NEW k \in DOMAIN D[i] PROVE <<i, k>> \in S
  <2>1. PICK m \in 0..MaxSlots : D[i] \in [1..m -> Keys]
    BY DEF Declaration
  <2>2. k \in 1..MaxSlots
    BY <2>1, SchedulerAssumption
  <2> QED
    BY <2>2
<1> QED
  BY <1>1 DEF AreSlots

LEMMA ContractConditions ==
    ASSUME DDGInv
    PROVE  /\ Contract!ReadsMatched <=> Matched(reads, writes)
           /\ Contract!WritesMatched <=> Matched(writes, reads)
<1> DEFINE RS == Contract!ReadSlot
           WS == Contract!WriteSlot
<1>1. /\ RS = {s \in Item \X (1..MaxSlots) : s[2] \in DOMAIN reads[s[1]]}
      /\ WS = {s \in Item \X (1..MaxSlots) : s[2] \in DOMAIN writes[s[1]]}
  BY DEF Contract!ReadSlot, Contract!WriteSlot, Contract!Item, Item
<1>2. AreSlots(reads, RS) /\ AreSlots(writes, WS)
  <2>1. reads \in [Item -> Declaration] /\ writes \in [Item -> Declaration]
    BY DEF DDGInv, TypeOK
  <2> HIDE DEF RS, WS
  <2> QED
    BY <1>1, <2>1, SlotsOf
<1>3. /\ Contract!ReadsMatched <=> SlotsMatched(reads, writes, RS, WS)
      /\ Contract!WritesMatched <=> SlotsMatched(writes, reads, WS, RS)
  BY DEF Contract!ReadsMatched, Contract!WritesMatched, Contract!ReadKey, Contract!WriteKey,
         SlotsMatched
<1> HIDE DEF RS, WS
<1>4. ASSUME NEW R, NEW W, NEW A, NEW B, AreSlots(R, A), AreSlots(W, B)
      PROVE  SlotsMatched(R, W, A, B) <=> Matched(R, W)
  <2>1. ASSUME SlotsMatched(R, W, A, B), NEW i \in Item, NEW k \in DOMAIN R[i]
        PROVE  \E a \in Item : \E o \in DOMAIN W[a] :
                  /\ W[a][o] = R[i][k]
                  /\ \A b \in Item : \A p \in DOMAIN W[b] : W[b][p] = R[i][k] => b = a /\ p = o
    <3>1. <<i, k>> \in A /\ <<i, k>>[1] = i /\ <<i, k>>[2] = k
      BY <1>4 DEF AreSlots
    <3>2. PICK w \in B : /\ W[w[1]][w[2]] = R[i][k]
                         /\ \A v \in B : W[v[1]][v[2]] = R[i][k] => v = w
      BY <2>1, <3>1 DEF SlotsMatched
    <3>3. w[1] \in Item /\ w[2] \in DOMAIN W[w[1]]
      BY <1>4, <3>2 DEF AreSlots
    <3>4. ASSUME NEW b \in Item, NEW p \in DOMAIN W[b], W[b][p] = R[i][k]
          PROVE  b = w[1] /\ p = w[2]
      <4>1. <<b, p>> \in B /\ <<b, p>>[1] = b /\ <<b, p>>[2] = p
        BY <1>4 DEF AreSlots
      <4>2. <<b, p>> = w
        BY <3>2, <3>4, <4>1
      <4> QED
        BY <4>1, <4>2
    <3> QED
      BY <3>2, <3>3, <3>4
  <2>2. ASSUME Matched(R, W), NEW r \in A
        PROVE  \E w \in B : /\ W[w[1]][w[2]] = R[r[1]][r[2]]
                            /\ \A v \in B : W[v[1]][v[2]] = R[r[1]][r[2]] => v = w
    <3>1. r[1] \in Item /\ r[2] \in DOMAIN R[r[1]]
      BY <1>4 DEF AreSlots
    <3>2. PICK a \in Item : \E o \in DOMAIN W[a] :
              /\ W[a][o] = R[r[1]][r[2]]
              /\ \A b \in Item : \A p \in DOMAIN W[b] : W[b][p] = R[r[1]][r[2]] => b = a /\ p = o
      BY <2>2, <3>1 DEF Matched
    <3>3. PICK o \in DOMAIN W[a] :
              /\ W[a][o] = R[r[1]][r[2]]
              /\ \A b \in Item : \A p \in DOMAIN W[b] : W[b][p] = R[r[1]][r[2]] => b = a /\ p = o
      BY <3>2
    <3>4. <<a, o>> \in B /\ <<a, o>>[1] = a /\ <<a, o>>[2] = o
      BY <1>4 DEF AreSlots
    <3>5. ASSUME NEW v \in B, W[v[1]][v[2]] = R[r[1]][r[2]] PROVE v = <<a, o>>
      <4>1. v[1] \in Item /\ v[2] \in DOMAIN W[v[1]] /\ v = <<v[1], v[2]>>
        BY <1>4 DEF AreSlots
      <4>2. v[1] = a /\ v[2] = o
        BY <3>3, <3>5, <4>1
      <4> QED
        BY <4>1, <4>2
    <3> QED
      BY <3>3, <3>4, <3>5
  <2> QED
    BY <2>1, <2>2 DEF Matched, SlotsMatched
<1>5. Contract!ReadsMatched <=> Matched(reads, writes)
  BY <1>2, <1>3, <1>4, Zenon
<1>6. Contract!WritesMatched <=> Matched(writes, reads)
  BY <1>2, <1>3, <1>4, Zenon
<1> QED
  BY <1>5, <1>6

\* A complete graph meets the first two conditions.
LEMMA CompleteIsMatched ==
    ASSUME NEW R, NEW W, NEW In, NEW Out, Linked(R, W, In, Out),
           \A x \in Item : /\ \A y \in DOMAIN In[x] : In[x][y] # NULL
                           /\ \A y \in DOMAIN Out[x] : Out[x][y] # NULL
    PROVE  Matched(R, W)
<1> SUFFICES ASSUME NEW i \in Item, NEW k \in DOMAIN R[i]
             PROVE  \E a \in Item : \E o \in DOMAIN W[a] :
                       /\ W[a][o] = R[i][k]
                       /\ \A b \in Item : \A p \in DOMAIN W[b] :
                             W[b][p] = R[i][k] => b = a /\ p = o
  BY DEF Matched
<1> DEFINE a == In[i][k]
<1>1. /\ \A x \in Item : DOMAIN In[x] = DOMAIN R[x] /\ DOMAIN Out[x] = DOMAIN W[x] /\ Distinct(W[x])
      /\ k \in DOMAIN In[i] /\ a \in Item /\ Agrees(R, W, In, Out)
  BY DEF Linked, Shaped
<1>2. PICK o \in DOMAIN Out[a] : Out[a][o] = i /\ W[a][o] = R[i][k]
  BY <1>1 DEF Agrees
<1>3. ASSUME NEW b \in Item, NEW p \in DOMAIN W[b], W[b][p] = R[i][k] PROVE b = a /\ p = o
  <2>1. b = a
    BY <1>3, LinksAreFlow
  <2> QED
    BY <1>1, <1>2, <1>3, <2>1 DEF Distinct
<1> QED
  BY <1>1, <1>2, <1>3

LEMMA CompleteIsSchedulable ==
    ASSUME DDGInv, Complete, Len(sort) = n, \A i \in 1..n : i \in Elements(sort)
    PROVE  Contract!Schedulable
<1>1. Contract!ReadsMatched /\ Contract!WritesMatched
  <2>1. /\ Linked(reads, writes, input, output) /\ Linked(writes, reads, output, input)
        /\ \A x \in Item : /\ \A y \in DOMAIN input[x] : input[x][y] # NULL
                           /\ \A y \in DOMAIN output[x] : output[x][y] # NULL
    BY DEF DDGInv, Linked, Complete, fulfilled
  <2>2. Matched(reads, writes)
    BY <2>1, CompleteIsMatched
  <2>3. Matched(writes, reads)
    BY <2>1, CompleteIsMatched
  <2> QED
    BY <2>2, <2>3, ContractConditions
<1>2. ASSUME NEW S \in SUBSET (1..n), S # {} PROVE \E i \in S : \A j \in S : ~Contract!Feeds(j, i)
  <2> DEFINE T == {p \in 1..n : sort[p] \in S}
  <2>1. /\ sort \in [1..n -> 1..n] /\ \A p, q \in 1..n : Contract!Feeds(sort[p], sort[q]) => p < q
    BY SortIsTopological DEF Contract!IsTopologicalOrder
  <2>2. ASSUME NEW j \in S PROVE \E q \in T : sort[q] = j
    <3>1. DOMAIN sort = 1..n /\ j \in 1..n /\ j \in Elements(sort)
      BY <1>2, <2>1, <2>2
    <3>2. PICK q \in 1..n : j = sort[q]
      BY <3>1 DEF Elements
    <3> QED
      BY <2>2, <3>2
  <2>3. T \in SUBSET Nat /\ T # {}
    <3>1. n \in Nat /\ \E j : j \in S
      BY <1>2 DEF DDGInv, TypeOK
    <3> QED
      BY <2>2, <3>1
  <2>4. PICK p \in T : \A q \in T : p <= q
    BY <2>3, LeastNatural
  <2>5. ASSUME NEW j \in S PROVE ~Contract!Feeds(j, sort[p])
    <3>1. PICK q \in T : sort[q] = j
      BY <2>2
    <3> QED
      BY <2>1, <2>4, <3>1
  <2> QED
    BY <2>4, <2>5
<1> QED
  BY <1>1, <1>2 DEF Contract!Schedulable, Contract!Acyclic

\* While a graph that meets the conditions is being built, the one item with
\* the key of an empty slot is in the pool and its own slot is empty.
Building(R, W, In, Out, P) ==
    /\ Linked(R, W, In, Out) /\ Matched(R, W) /\ Matched(W, R)
    /\ \A j \in Item : j \in P \/ \A l \in DOMAIN Out[j] : Out[j][l] # NULL
Partner(R, W, Out, P, i, k, a, o) ==
    /\ a \in P /\ Out[a][o] = NULL /\ W[a][o] = R[i][k]
    /\ \A b \in Item : \A p \in DOMAIN W[b] : W[b][p] = R[i][k] => b = a /\ p = o

LEMMA PartnerIsThere ==
    ASSUME NEW R, NEW W, NEW In, NEW Out, NEW P, Building(R, W, In, Out, P)
    PROVE  \A i \in Item : \A k \in DOMAIN In[i] : In[i][k] = NULL =>
              \E a \in Item : \E o \in DOMAIN W[a] : Partner(R, W, Out, P, i, k, a, o)
<1> SUFFICES ASSUME NEW i \in Item, NEW k \in DOMAIN In[i], In[i][k] = NULL
             PROVE  \E a \in Item : \E o \in DOMAIN W[a] : Partner(R, W, Out, P, i, k, a, o)
  OBVIOUS
<1> USE DEF Building
<1>1. /\ \A x \in Item : DOMAIN In[x] = DOMAIN R[x] /\ DOMAIN Out[x] = DOMAIN W[x]
      /\ \A x \in Item : \A y \in DOMAIN Out[x] : Out[x][y] \in Item \cup {NULL}
      /\ Agrees(W, R, Out, In) /\ NULL \notin Item /\ k \in DOMAIN R[i]
  BY SchedulerAssumption DEF Linked, Shaped
<1>2. PICK a \in Item : \E o \in DOMAIN W[a] :
            /\ W[a][o] = R[i][k]
            /\ \A b \in Item : \A p \in DOMAIN W[b] : W[b][p] = R[i][k] => b = a /\ p = o
  BY <1>1 DEF Matched
<1>3. PICK o \in DOMAIN W[a] :
            /\ W[a][o] = R[i][k]
            /\ \A b \in Item : \A p \in DOMAIN W[b] : W[b][p] = R[i][k] => b = a /\ p = o
  BY <1>2
<1>4. \A b, c \in Item : \A p \in DOMAIN R[b], q \in DOMAIN R[c] :
         R[b][p] = W[a][o] /\ R[c][q] = W[a][o] => b = c /\ p = q
  <2>1. PICK c \in Item : \E q \in DOMAIN R[c] :
            \A b \in Item : \A p \in DOMAIN R[b] : R[b][p] = W[a][o] => b = c /\ p = q
    BY DEF Matched
  <2> QED
    BY <2>1
<1>5. Out[a][o] = NULL
  <2> SUFFICES ASSUME Out[a][o] # NULL PROVE FALSE
    OBVIOUS
  <2>1. Out[a][o] \in Item /\ o \in DOMAIN Out[a]
    BY <1>1
  <2>2. PICK m \in DOMAIN In[Out[a][o]] : In[Out[a][o]][m] = a /\ R[Out[a][o]][m] = W[a][o]
    BY <1>1, <2>1 DEF Agrees
  <2>3. Out[a][o] = i /\ m = k
    BY <1>1, <1>3, <1>4, <2>1, <2>2
  <2> QED
    BY <1>1, <2>2, <2>3
<1>6. a \in P
  BY <1>1, <1>5
<1> QED
  BY <1>3, <1>5, <1>6 DEF Partner

\* schedule() aborts only on a graph that violates the conditions: a visit
\* that finds no partner, two, or one that is taken.
LEMMA InputRejected ==
    ASSUME DDGInv, pc = "build", NEW i \in Item, NEW k \in DOMAIN input[i], input[i][k] = NULL,
           NEW m, m = {a \in Elements(pool) : hasOutput(a, reads[i][k]) # 0},
           ~\E a \in m : m = {a} /\ output[a][hasOutput(a, reads[i][k])] = NULL
    PROVE  ~Contract!Schedulable
<1> SUFFICES ASSUME Contract!Schedulable PROVE FALSE
  OBVIOUS
<1> DEFINE K == reads[i][k]
<1>1. /\ Linked(reads, writes, input, output) /\ Graph /\ Lists
      /\ \A j \in Item : j \in Elements(pool) \/ \A l \in DOMAIN output[j] : output[j][l] # NULL
  BY TypeParts DEF DDGInv, Pooled, fulfilled
<1>2. Matched(reads, writes) /\ Matched(writes, reads)
  BY ContractConditions DEF Contract!Schedulable
<1>3. PICK a \in Item : \E o \in DOMAIN writes[a] :
            Partner(reads, writes, output, Elements(pool), i, k, a, o)
  <2>1. Building(reads, writes, input, output, Elements(pool))
    BY <1>1, <1>2 DEF Building
  <2> QED
    BY <2>1, PartnerIsThere, Zenon
<1>4. PICK o \in DOMAIN writes[a] :
            /\ a \in Elements(pool) /\ output[a][o] = NULL /\ writes[a][o] = K
            /\ \A b \in Item : \A p \in DOMAIN writes[b] : writes[b][p] = K => b = a /\ p = o
  BY <1>3 DEF Partner
<1>5. \A b \in Elements(pool) : b \in Item
  BY <1>1, SchedulerAssumption DEF Lists, Elements, Graph, Item
<1>6. \A b \in Item : hasOutput(b, K) # 0 =>
         hasOutput(b, K) \in DOMAIN writes[b] /\ writes[b][hasOutput(b, K)] = K
  BY <1>1, PositionFound DEF hasOutput, Graph
<1>7. hasOutput(a, K) # 0
  BY <1>1, <1>4, PositionFound DEF hasOutput, Graph
<1>8. hasOutput(a, K) = o
  BY <1>4, <1>6, <1>7
<1>9. \A b \in m : b = a
  BY <1>4, <1>5, <1>6
<1>10. m = {a}
  BY <1>4, <1>7, <1>9
<1> QED
  BY <1>4, <1>8, <1>10

LEMMA OutputRejected ==
    ASSUME DDGInv, pc = "build", NEW i \in Item, NEW k \in DOMAIN output[i], output[i][k] = NULL,
           NEW m, m = {a \in Elements(pool) : hasInput(a, writes[i][k]) # 0},
           ~\E a \in m : m = {a} /\ input[a][hasInput(a, writes[i][k])] = NULL
    PROVE  ~Contract!Schedulable
<1> SUFFICES ASSUME Contract!Schedulable PROVE FALSE
  OBVIOUS
<1> DEFINE K == writes[i][k]
<1>1. /\ Linked(writes, reads, output, input) /\ Graph /\ Lists
      /\ \A j \in Item : j \in Elements(pool) \/ \A l \in DOMAIN input[j] : input[j][l] # NULL
  BY TypeParts DEF DDGInv, Linked, Pooled, fulfilled
<1>2. Matched(reads, writes) /\ Matched(writes, reads)
  BY ContractConditions DEF Contract!Schedulable
<1>3. PICK a \in Item : \E o \in DOMAIN reads[a] :
            Partner(writes, reads, input, Elements(pool), i, k, a, o)
  <2>1. Building(writes, reads, output, input, Elements(pool))
    BY <1>1, <1>2 DEF Building
  <2> QED
    BY <2>1, PartnerIsThere, Zenon
<1>4. PICK o \in DOMAIN reads[a] :
            /\ a \in Elements(pool) /\ input[a][o] = NULL /\ reads[a][o] = K
            /\ \A b \in Item : \A p \in DOMAIN reads[b] : reads[b][p] = K => b = a /\ p = o
  BY <1>3 DEF Partner
<1>5. \A b \in Elements(pool) : b \in Item
  BY <1>1, SchedulerAssumption DEF Lists, Elements, Graph, Item
<1>6. \A b \in Item : hasInput(b, K) # 0 =>
         hasInput(b, K) \in DOMAIN reads[b] /\ reads[b][hasInput(b, K)] = K
  BY <1>1, PositionFound DEF hasInput, Graph
<1>7. hasInput(a, K) # 0
  BY <1>1, <1>4, PositionFound DEF hasInput, Graph
<1>8. hasInput(a, K) = o
  BY <1>4, <1>6, <1>7
<1>9. \A b \in m : b = a
  BY <1>4, <1>5, <1>6
<1>10. m = {a}
  BY <1>4, <1>7, <1>9
<1> QED
  BY <1>4, <1>8, <1>10

\* ... or a sort that finds no ready item, which is a cycle.
LEMMA CycleRejected ==
    ASSUME DDGInv, pc = "sort", pool # <<>>, \A p \in DOMAIN pool : ~Ready(pool[p])
    PROVE  ~Contract!Schedulable
<1> DEFINE S == Elements(pool)
<1>1. /\ Graph /\ Lists /\ Complete /\ Unused /\ Linked(reads, writes, input, output)
      /\ \A i \in 1..n : i \in Elements(pool) <=> i \notin Elements(sort)
  BY TypeParts DEF DDGInv, Pooled, Sorted
<1>2. S \in SUBSET (1..n) /\ S # {} /\ n \in Nat /\ n <= MaxItems /\ \A i \in S : i \in Item
  <2>1. n \in Nat /\ n <= MaxItems /\ pool \in Seq(1..n)
    BY <1>1, SchedulerAssumption DEF Lists, Graph
  <2>2. DOMAIN pool # {} /\ \A p \in DOMAIN pool : pool[p] \in 1..n
    <3>1. Len(pool) \in Nat \ {0} /\ DOMAIN pool = 1..Len(pool)
      BY <2>1, EmptySeq, LenProperties
    <3>2. 1 \in DOMAIN pool
      BY <3>1
    <3> QED
      BY <2>1, <3>1, <3>2, ElementOfSeq
  <2>3. S \in SUBSET (1..n) /\ S # {}
    BY <2>2 DEF Elements
  <2> QED
    BY <2>1, <2>3, SchedulerAssumption DEF Item
<1>3. ASSUME NEW i \in S PROVE \E j \in S : Contract!Feeds(j, i)
  <2>1. PICK k \in DOMAIN input[i] : input[i][k] \notin Elements(sort)
    BY <1>3 DEF Elements, Ready
  <2> DEFINE j == input[i][k]
  <2>2. j \in Item /\ i \in Item
    BY <1>1, <1>2, <1>3 DEF Linked, Shaped, Complete, fulfilled
  <2>3. Contract!Feeds(j, i)
    BY <1>1, <2>2, FeedsIsLinked
  <2>4. j \in 1..n
    BY <1>1, <1>2, <2>2, <2>3 DEF Unused, Contract!Feeds, Item
  <2> QED
    BY <1>1, <2>1, <2>3, <2>4
<1> QED
  BY <1>2, <1>3 DEF Contract!Schedulable, Contract!Acyclic

\* Steps that change nothing a client sees of schedule() stutter.
LEMMA Unseen ==
    ASSUME UNCHANGED <<n, reads, writes, Outcome, Order>>
    PROVE  UNCHANGED Contract!cvars
  BY DEF Contract!cvars

LEMMA ContractOfReject ==
    ASSUME DDGInv, error = "none", ~scheduled, COM_abort_msg("graph"), ~Contract!Schedulable
    PROVE  Contract!Reject
<1>1. /\ error' = "graph" /\ UNCHANGED <<n, reads, writes, scheduled, sort>>
  BY DEF COM_abort_msg
<1>2. Outcome = "none" /\ Outcome' = "rejected" /\ Order' = Order
  BY <1>1 DEF Outcome, Order
<1> QED
  BY <1>1, <1>2 DEF Contract!Reject

LEMMA ContractOfFill ==
    ASSUME DDGInv, Fill PROVE Contract!CNext \/ UNCHANGED Contract!cvars
<1> DEFINE i == pool[act]
<1>1. /\ error = "none" /\ pc = "build" /\ pool # <<>>
      /\ \/ HasEmpty(input[i]) /\ SetInput(i, FirstEmpty(input[i]))
         \/ HasEmpty(output[i]) /\ SetOutput(i, FirstEmpty(output[i]))
  BY DEF Fill, At
<1>2. i \in Item /\ input[i] \in Links /\ output[i] \in Links /\ ~scheduled
  BY <1>1, Visited DEF DDGInv, Control
<1> HIDE DEF i
<1>3. CASE UNCHANGED <<n, reads, writes, sort, scheduled, error>>
  BY <1>3, Unseen DEF Outcome, Order
<1>4. CASE HasEmpty(input[i]) /\ SetInput(i, FirstEmpty(input[i]))
  <2> DEFINE k == FirstEmpty(input[i])
             m == {a \in Elements(pool) : hasOutput(a, reads[i][k]) # 0}
  <2>1. k \in DOMAIN input[i] /\ input[i][k] = NULL
    BY <1>2, <1>4, FirstEmptyFound
  <2>2. CASE /\ ~\E a \in m : m = {a} /\ output[a][hasOutput(a, reads[i][k])] = NULL
             /\ COM_abort_msg("graph")
    BY <1>1, <1>2, <2>1, <2>2, InputRejected, ContractOfReject DEF Contract!CNext
  <2>3. CASE ~(/\ ~\E a \in m : m = {a} /\ output[a][hasOutput(a, reads[i][k])] = NULL
               /\ COM_abort_msg("graph"))
    BY <1>3, <1>4, <2>3 DEF SetInput
  <2> QED
    BY <2>2, <2>3
<1>5. CASE HasEmpty(output[i]) /\ SetOutput(i, FirstEmpty(output[i]))
  <2> DEFINE k == FirstEmpty(output[i])
             m == {a \in Elements(pool) : hasInput(a, writes[i][k]) # 0}
  <2>1. k \in DOMAIN output[i] /\ output[i][k] = NULL
    BY <1>2, <1>5, FirstEmptyFound
  <2>2. CASE /\ ~\E a \in m : m = {a} /\ input[a][hasInput(a, writes[i][k])] = NULL
             /\ COM_abort_msg("graph")
    BY <1>1, <1>2, <2>1, <2>2, OutputRejected, ContractOfReject DEF Contract!CNext
  <2>3. CASE ~(/\ ~\E a \in m : m = {a} /\ input[a][hasInput(a, writes[i][k])] = NULL
               /\ COM_abort_msg("graph"))
    BY <1>3, <1>5, <2>3 DEF SetOutput
  <2> QED
    BY <2>2, <2>3
<1> QED
  BY <1>1, <1>4, <1>5

LEMMA ContractOfScheduling ==
    ASSUME DDGInv, Scheduling PROVE Contract!CNext \/ UNCHANGED Contract!cvars
<1>1. CASE Fill
  BY <1>1, ContractOfFill
<1>2. CASE UNCHANGED <<n, reads, writes, scheduled, error>> /\ ~scheduled
  BY <1>2, Unseen DEF Outcome, Order
<1>3. CASE Advance \/ BuildNothing
  BY <1>2, <1>3 DEF Advance, BuildNothing, At, DDGInv, Control
<1>4. CASE sanityCheck
  <2>1. \A i \in 1..n : fulfilled(i)
    BY <1>4, SchedulerAssumption DEF sanityCheck, At, DDGInv, Pooled, Complete, Item, TypeOK
  <2> QED
    BY <1>2, <1>4, <2>1 DEF sanityCheck, At, DDGInv, Control
<1>5. CASE topological_sort
  <2>1. error = "none" /\ pc = "sort" /\ pool # <<>> /\ ~scheduled
    BY <1>5 DEF topological_sort, At, DDGInv, Control
  <2>2. CASE (\A p \in DOMAIN pool : ~Ready(pool[p])) /\ COM_abort_msg("graph")
    BY <2>1, <2>2, CycleRejected, ContractOfReject DEF Contract!CNext
  <2> QED
    BY <1>2, <1>5, <2>1, <2>2 DEF topological_sort
<1>6. CASE schedule_return
  <2>1. /\ pc = "sort" /\ pool = <<>> /\ error = "none" /\ scheduled' = TRUE /\ ~scheduled
        /\ UNCHANGED <<n, reads, writes, sort, error>>
    BY <1>6 DEF schedule_return, At, DDGInv, Control
  <2>2. Complete /\ Len(sort) = n /\ \A i \in 1..n : i \in Elements(sort)
    <3>1. Len(pool) = 0 /\ Elements(pool) = {} /\ Len(sort) \in Nat /\ n \in Nat
      BY <2>1 DEF Elements, DDGInv, TypeOK
    <3> QED
      BY <2>1, <3>1 DEF DDGInv, Pooled, Sorted
  <2>3. Contract!Schedulable /\ Contract!IsTopologicalOrder(sort)
    BY <2>2, CompleteIsSchedulable, SortIsTopological
  <2>4. Outcome = "none" /\ Outcome' = "ok" /\ Order' = sort
    BY <2>1 DEF Outcome, Order
  <2>5. Contract!Accept
    BY <2>1, <2>3, <2>4 DEF Contract!Accept
  <2> QED
    BY <2>5 DEF Contract!CNext
<1> QED
  BY <1>1, <1>3, <1>4, <1>5, <1>6 DEF Scheduling

LEMMA ContractOfAdd ==
    ASSUME DDGInv, add_action PROVE Contract!Add
<1>1. PICK rs, ws \in Declaration : AddItem(rs, ws)
  BY DEF add_action
<1>2. /\ error = "none" /\ ~scheduled /\ n < MaxItems /\ n' = n + 1
      /\ reads' = [reads EXCEPT ![n + 1] = rs] /\ writes' = [writes EXCEPT ![n + 1] = ws]
      /\ UNCHANGED <<sort, scheduled, error>>
  BY <1>1 DEF AddItem, At
<1>3. Outcome = "none" /\ UNCHANGED <<Outcome, Order>>
  BY <1>2 DEF Outcome, Order
<1>4. rs \in Contract!Declaration /\ ws \in Contract!Declaration
  BY DEF Contract!Declaration, Declaration
<1> QED
  BY <1>2, <1>3, <1>4 DEF Contract!Add

LEMMA ContractStep ==
    DDGInv /\ [Next]_vars => [Contract!CNext]_(Contract!cvars)
<1> SUFFICES ASSUME DDGInv, [Next]_vars PROVE Contract!CNext \/ UNCHANGED Contract!cvars
  OBVIOUS
<1>1. CASE UNCHANGED <<n, reads, writes, sort, scheduled, error>>
  BY <1>1, Unseen DEF Outcome, Order
<1>2. CASE error = "none" /\ COM_abort_msg("misuse")
  <2>1. UNCHANGED <<n, reads, writes, sort, scheduled>> /\ error' = "misuse"
    BY <1>2 DEF COM_abort_msg
  <2>2. UNCHANGED <<Outcome, Order>>
    BY <1>2, <2>1 DEF Outcome, Order
  <2> QED
    BY <2>1, <2>2, Unseen
<1>3. CASE add_action
  BY <1>3, ContractOfAdd DEF Contract!CNext
<1>4. CASE schedule
  BY <1>1, <1>2, <1>4 DEF schedule, At
<1>5. CASE init_actions \/ run_actions \/ finalize_actions
  BY <1>1, <1>2, <1>5 DEF init_actions, run_actions, finalize_actions, Begin, At
<1>6. CASE restarting \/ CallAction \/ EndPass
  BY <1>1, <1>6 DEF restarting, CallAction, EndPass
<1>7. CASE Scheduling
  BY <1>7, ContractOfScheduling
<1>8. CASE UNCHANGED vars
  BY <1>1, <1>8 DEF vars
<1> QED
  BY <1>3, <1>4, <1>5, <1>6, <1>7, <1>8 DEF Next, Client

\* DDGScheduler keeps its contract for every set of declarations: schedule()
\* accepts only acyclic graphs in which every read has one writer and every
\* write one reader, aborts only on others, whatever the order of add_action,
\* and the order it fixes is topological.
THEOREM ContractImplemented == Spec => ImplementsContract
<1>1. Init => Contract!CInit
  BY DEF Init, Contract!CInit, Outcome, Order, Contract!Item, Item
<1> QED
  BY <1>1, ContractStep, DDGInvariant, PTL DEF Spec, ImplementsContract, Contract!CSpec
=============================================================================
