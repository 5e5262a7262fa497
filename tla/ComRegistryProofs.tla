-------------------------- MODULE ComRegistryProofs --------------------------
(***************************************************************************)
(* For every set of names and panes and every bound: the dataitem registry *)
(* of a window stays consistent under the operations of ComRegistry!Next.  *)
(*                                                                         *)
(* The inductive invariant adds to the checked properties that every slot  *)
(* above the keywords belongs to a registered item, and that an item which *)
(* got the id of the last keyword (after init_done on an emptied window)   *)
(* has one component.  It is stated of a registry given by its parts,      *)
(* because growing an item deletes it first and constructs it in the       *)
(* result.                                                                 *)
(***************************************************************************)
EXTENDS ComRegistry, TLAPS

USE DEF COM_NUM_KEYWORDS, COM_ALL, KeywordTop

Ncomp(am, vec, a) == vec[Dummy].slot[am[a]].ncomp
End(am, vec, a) == am[a] + Extent(Ncomp(am, vec, a))

\* A vector that holds every keyword but perhaps the last, the items in am and,
\* above the keywords, nothing else.
GoodSet(am, vec, s) ==
    /\ s \in AttrSet
    /\ s.size >= COM_ALL
    /\ \A i \in 0..(COM_ALL - 1) : s.slot[i] = KeywordSlot(i)
    /\ \A a \in Names : am[a] # NULL => Holds(s, a, am[a], Ncomp(am, vec, a))
    /\ \A i \in Index : i >= COM_NUM_KEYWORDS /\ s.slot[i] # NULL
          => \E a \in Names : am[a] # NULL /\ am[a] <= i /\ i < End(am, vec, a)

Consistent(am, vec, P, li) ==
    /\ am \in [Names -> Index \cup {NULL}]
    /\ vec \in [{Dummy} \cup PaneIds -> AttrSet]
    /\ Dummy \in P /\ P \subseteq {Dummy} \cup PaneIds
    /\ li \in COM_ALL..MaxId
    /\ vec[Dummy].size >= COM_NUM_KEYWORDS
    /\ \A a \in Names : am[a] # NULL =>
          /\ Ncomp(am, vec, a) \in Nat \ {0}
          /\ am[a] >= COM_ALL
          /\ am[a] >= COM_NUM_KEYWORDS \/ Ncomp(am, vec, a) = 1
          /\ End(am, vec, a) <= li
    /\ \A a, b \in Names : am[a] # NULL /\ am[b] # NULL /\ a # b =>
          End(am, vec, a) <= am[b] \/ End(am, vec, b) <= am[a]
    /\ \A p \in P : GoodSet(am, vec, vec[p])

IInv ==
    /\ Consistent(attr_map, attr_set, Panes, last_id)
    /\ pane_map \subseteq PaneIds
    /\ status \in {"SHRUNK", "CHANGED", "NOCHANGE"}
    /\ halted \in BOOLEAN

------------------------------------------------------------------------------
(* The operators on one vector.                                            *)

LEMMA ExtentFact ==
    ASSUME NEW n \in Nat \ {0}
    PROVE  Extent(n) \in Nat /\ Extent(n) >= 1 /\ Extent(n) >= n
BY DEF Extent

LEMMA ResizeType ==
    ASSUME NEW s \in AttrSet, NEW n \in 0..MaxId
    PROVE  /\ Resize(s, n) \in AttrSet
           /\ Resize(s, n).size = n
           /\ \A i \in Index : Resize(s, n).slot[i] = IF i < n THEN s.slot[i] ELSE NULL
BY DEF Resize, AttrSet, Slot

LEMMA ItemSlotType ==
    ASSUME NEW a \in Names, NEW id \in Nat, NEW n \in Nat, NEW i \in Nat, i >= id
    PROVE  ItemSlot(a, id, n, i) \in DataItem
BY DEF ItemSlot, DataItem

LEMMA WithItemType ==
    ASSUME NEW s \in AttrSet, NEW a \in Names, NEW id \in Nat, NEW n \in Nat \ {0},
           id + Extent(n) <= MaxId
    PROVE  /\ WithItem(s, a, id, n) \in AttrSet
           /\ WithItem(s, a, id, n).size = (IF s.size <= id THEN id + Extent(n) ELSE s.size)
           /\ \A i \in Index : WithItem(s, a, id, n).slot[i] =
                 IF id <= i /\ i < id + Extent(n) THEN ItemSlot(a, id, n, i) ELSE s.slot[i]
<1> DEFINE w == WithItem(s, a, id, n)
<1>1. Extent(n) \in Nat
  BY ExtentFact
<1>2. \A i \in Index : i \in SlotRange(id, n) <=> id <= i /\ i < id + Extent(n)
  BY <1>1, RegistryAssumption DEF SlotRange, Index
<1>3. \A i \in Index : i \in SlotRange(id, n) => ItemSlot(a, id, n, i) \in Slot
  BY <1>1, ItemSlotType, RegistryAssumption DEF SlotRange, Index, Slot
<1>4. w.slot = [i \in Index |-> IF i \in SlotRange(id, n)
                                THEN ItemSlot(a, id, n, i) ELSE s.slot[i]]
  BY DEF WithItem
<1>5. w.size = (IF s.size <= id THEN id + Extent(n) ELSE s.size)
  BY DEF WithItem
<1>6. w = [size |-> w.size, slot |-> w.slot]
  BY DEF WithItem
<1>7. s.size \in Nat /\ s.slot \in [Index -> Slot]
  BY DEF AttrSet
<1>8. w.slot \in [Index -> Slot]
  BY <1>3, <1>4, <1>7
<1>9. w.size \in 0..MaxId
  BY <1>1, <1>5, RegistryAssumption DEF AttrSet
<1>10. w \in AttrSet
  BY <1>6, <1>8, <1>9 DEF AttrSet
<1> QED
  BY <1>2, <1>4, <1>5, <1>10

------------------------------------------------------------------------------
(* The operations on a registry given by its parts.                        *)

\* new_dataitem under the next free id keeps the registry consistent.
LEMMA ConstructKeeps ==
    ASSUME NEW am, NEW vec, NEW P, NEW li, Consistent(am, vec, P, li),
           NEW a \in Names, am[a] = NULL, NEW n \in Nat \ {0},
           li + Extent(n) <= MaxId,
           \A p \in P : CanConstruct(vec[p], li, n)
    PROVE  Consistent([am EXCEPT ![a] = li],
                      [p \in DOMAIN vec |-> IF p \in P THEN WithItem(vec[p], a, li, n) ELSE vec[p]],
                      P, li + Extent(n))
<1> DEFINE am2 == [am EXCEPT ![a] = li]
           vec2 == [p \in DOMAIN vec |-> IF p \in P THEN WithItem(vec[p], a, li, n) ELSE vec[p]]
           li2 == li + Extent(n)
<1>1. /\ Extent(n) \in Nat /\ Extent(n) >= 1 /\ li \in Nat /\ li >= COM_ALL
      /\ MaxId \in Nat /\ li2 \in Nat /\ li2 = li + Extent(n) /\ li2 <= MaxId /\ li \in Index
      /\ am \in [Names -> Index \cup {NULL}] /\ DOMAIN vec = {Dummy} \cup PaneIds
      /\ P \subseteq DOMAIN vec /\ Dummy \in P
  BY ExtentFact, RegistryAssumption DEF Consistent, COM_NUM_KEYWORDS, Index
<1>2. \A p \in P : vec[p] \in AttrSet /\ vec[p].size \in Nat
  BY DEF Consistent, AttrSet
<1>3. \A b \in Names : am[b] # NULL =>
         /\ am[b] \in Nat /\ am[b] >= COM_ALL
         /\ Ncomp(am, vec, b) \in Nat \ {0}
         /\ am[b] >= COM_NUM_KEYWORDS \/ Ncomp(am, vec, b) = 1
         /\ Extent(Ncomp(am, vec, b)) \in Nat /\ Extent(Ncomp(am, vec, b)) >= 1
         /\ am[b] < End(am, vec, b) /\ End(am, vec, b) <= li /\ End(am, vec, b) \in Nat
  BY <1>1, ExtentFact, RegistryAssumption DEF Consistent, Index, End
<1>4. ASSUME NEW p \in P PROVE vec[p].size <= li \/ (li = COM_ALL /\ n = 1)
  <2> SUFFICES ASSUME li < vec[p].size, ~(li = COM_ALL /\ n = 1) PROVE FALSE
    BY <1>1, <1>2
  <2> DEFINE i == IF li = COM_ALL THEN COM_NUM_KEYWORDS ELSE li
  <2>1. i \in SlotRange(li, n) /\ i >= COM_NUM_KEYWORDS /\ i >= li /\ i \in Nat
    <3>1. CASE li = COM_ALL
      BY <1>1, <3>1 DEF SlotRange, Extent
    <3>2. CASE li # COM_ALL
      BY <1>1, <3>2 DEF SlotRange
    <3> QED
      BY <3>1, <3>2
  <2> HIDE DEF i
  <2>2. i \in Index /\ vec[p].slot[i] # NULL
    BY <2>1 DEF CanConstruct, IsItem
  <2>3. PICK b \in Names : am[b] # NULL /\ am[b] <= i /\ i < End(am, vec, b)
    BY <2>1, <2>2 DEF Consistent, GoodSet
  <2> QED
    BY <1>1, <1>3, <2>1, <2>3
<1>5. ASSUME NEW p \in P
      PROVE  /\ vec2[p] \in AttrSet
             /\ vec2[p].size >= li2
             /\ vec2[p].size >= vec[p].size /\ vec2[p].size \in Nat
             /\ \A i \in Index : vec2[p].slot[i] =
                   IF li <= i /\ i < li2 THEN ItemSlot(a, li, n, i) ELSE vec[p].slot[i]
  <2>1. vec2[p] = WithItem(vec[p], a, li, n)
    BY <1>1
  <2>2. /\ vec2[p] \in AttrSet
        /\ vec2[p].size = (IF vec[p].size <= li THEN li2 ELSE vec[p].size)
        /\ \A i \in Index : vec2[p].slot[i] =
              IF li <= i /\ i < li2 THEN ItemSlot(a, li, n, i) ELSE vec[p].slot[i]
    BY <1>1, <1>2, <2>1, WithItemType
  <2>3. n = 1 => Extent(n) = 1
    BY DEF Extent
  <2>4. vec[p].size \in Nat /\ (vec[p].size <= li \/ (li = COM_ALL /\ n = 1))
    BY <1>2, <1>4
  <2> HIDE DEF vec2
  <2>5. /\ vec2[p].size >= li2
        /\ vec2[p].size >= vec[p].size /\ vec2[p].size \in Nat
    <3>1. CASE vec[p].size <= li
      BY <1>1, <2>2, <2>4, <3>1
    <3>2. CASE ~(vec[p].size <= li)
      BY <1>1, <2>2, <2>3, <2>4, <3>2
    <3> QED
      BY <3>1, <3>2
  <2> QED
    BY <2>2, <2>5
<1>6. am2 \in [Names -> Index \cup {NULL}] /\ am2[a] = li /\ li # NULL
      /\ \A b \in Names : b # a => am2[b] = am[b]
  BY <1>1, PointersAssumption
<1>11. vec2 \in [{Dummy} \cup PaneIds -> AttrSet]
  <2>1. \A p \in DOMAIN vec : vec2[p] \in AttrSet
    BY <1>1, <1>5 DEF Consistent
  <2> QED
    BY <1>1, <2>1
<1> HIDE DEF am2, vec2, li2
<1>7. Ncomp(am2, vec2, a) = n
  <2>1. vec2[Dummy].slot[li] = ItemSlot(a, li, n, li)
    BY <1>1, <1>5
  <2> QED
    BY <1>6, <2>1 DEF Ncomp, ItemSlot
<1>8. ASSUME NEW b \in Names, am[b] # NULL
      PROVE  b # a /\ Ncomp(am2, vec2, b) = Ncomp(am, vec, b) /\ End(am2, vec2, b) = End(am, vec, b)
  <2>1. b # a /\ am2[b] = am[b] /\ am[b] < li /\ am[b] \in Index
    BY <1>1, <1>3, <1>6, <1>8
  <2>2. vec2[Dummy].slot[am[b]] = vec[Dummy].slot[am[b]]
    BY <1>1, <1>3, <1>5, <1>8, <2>1
  <2> QED
    BY <2>1, <2>2 DEF Ncomp, End
<1>9. End(am2, vec2, a) = li2
  BY <1>1, <1>6, <1>7 DEF End
<1>10. ASSUME NEW p \in P PROVE GoodSet(am2, vec2, vec2[p])
  <2>1. vec2[p].size >= COM_ALL
    BY <1>1, <1>5
  <2>2. \A i \in 0..(COM_ALL - 1) : vec2[p].slot[i] = KeywordSlot(i)
    BY <1>1, <1>5 DEF Consistent, GoodSet, COM_ALL, COM_NUM_KEYWORDS, Index
  <2>3. ASSUME NEW b \in Names, am2[b] # NULL
        PROVE  Holds(vec2[p], b, am2[b], Ncomp(am2, vec2, b))
    <3>1. CASE b = a
      BY <1>1, <1>5, <1>6, <1>7, <3>1 DEF Holds, SlotRange, Index
    <3>2. CASE b # a
      <4>1. am[b] # NULL /\ am2[b] = am[b] /\ Ncomp(am2, vec2, b) = Ncomp(am, vec, b)
        BY <1>6, <1>8, <2>3, <3>2
      <4>2. Holds(vec[p], b, am[b], Ncomp(am, vec, b)) /\ End(am, vec, b) <= li
        BY <1>3, <4>1 DEF Consistent, GoodSet
      <4>3. \A i \in SlotRange(am[b], Ncomp(am, vec, b)) :
               i \in Index /\ i < li
        BY <1>1, <1>3, <4>1, <4>2 DEF SlotRange, Index, End
      <4>4. am[b] + Extent(Ncomp(am, vec, b)) <= vec2[p].size
        BY <1>1, <1>3, <1>5, <4>1, <4>2 DEF End
      <4>5. \A i \in SlotRange(am[b], Ncomp(am, vec, b)) :
               vec2[p].slot[i] = ItemSlot(b, am[b], Ncomp(am, vec, b), i)
        <5> TAKE i \in SlotRange(am[b], Ncomp(am, vec, b))
        <5>1. vec2[p].slot[i] = vec[p].slot[i]
          BY <1>1, <1>5, <4>3 DEF Index
        <5> QED
          BY <4>2, <5>1 DEF Holds
      <4> QED
        BY <4>1, <4>4, <4>5 DEF Holds
    <3> QED
      BY <3>1, <3>2
  <2>4. ASSUME NEW i \in Index, i >= COM_NUM_KEYWORDS, vec2[p].slot[i] # NULL
        PROVE  \E b \in Names : am2[b] # NULL /\ am2[b] <= i /\ i < End(am2, vec2, b)
    <3>1. CASE li <= i /\ i < li2
      BY <1>6, <1>9, <3>1
    <3>2. CASE ~(li <= i /\ i < li2)
      <4>1. vec[p].slot[i] # NULL
        BY <1>5, <2>4, <3>2
      <4>2. PICK b \in Names : am[b] # NULL /\ am[b] <= i /\ i < End(am, vec, b)
        BY <2>4, <4>1 DEF Consistent, GoodSet
      <4> QED
        BY <1>6, <1>8, <4>2
    <3> QED
      BY <3>1, <3>2
  <2> QED
    BY <1>5, <2>1, <2>2, <2>3, <2>4 DEF GoodSet
<1>12. ASSUME NEW b \in Names, am2[b] # NULL
       PROVE  /\ Ncomp(am2, vec2, b) \in Nat \ {0}
              /\ am2[b] >= COM_ALL
              /\ am2[b] >= COM_NUM_KEYWORDS \/ Ncomp(am2, vec2, b) = 1
              /\ End(am2, vec2, b) <= li2
  <2>1. CASE b = a
    <3>1. vec[Dummy].size >= COM_NUM_KEYWORDS
      BY DEF Consistent
    <3>2. li >= COM_NUM_KEYWORDS \/ n = 1
      BY <1>1, <1>2, <1>4, <3>1
    <3> QED
      BY <1>1, <1>6, <1>7, <1>9, <2>1, <3>2
  <2>2. CASE b # a
    BY <1>1, <1>3, <1>6, <1>8, <1>12, <2>2
  <2> QED
    BY <2>1, <2>2
<1>13. ASSUME NEW b \in Names, NEW c \in Names, am2[b] # NULL, am2[c] # NULL, b # c
       PROVE  End(am2, vec2, b) <= am2[c] \/ End(am2, vec2, c) <= am2[b]
  <2>1. CASE b = a
    BY <1>3, <1>6, <1>8, <1>13, <2>1
  <2>2. CASE c = a
    BY <1>3, <1>6, <1>8, <1>13, <2>2
  <2>3. CASE b # a /\ c # a
    BY <1>6, <1>8, <1>13, <2>3 DEF Consistent
  <2> QED
    BY <2>1, <2>2, <2>3
<1>14. /\ li2 \in COM_ALL..MaxId /\ Dummy \in P /\ P \subseteq {Dummy} \cup PaneIds
       /\ vec2[Dummy].size >= COM_NUM_KEYWORDS
  <2>1. vec[Dummy].size >= COM_NUM_KEYWORDS
    BY DEF Consistent
  <2> QED
    BY <1>1, <1>2, <1>5, <2>1
<1>15. Consistent(am2, vec2, P, li2)
  BY <1>6, <1>10, <1>11, <1>12, <1>13, <1>14 DEF Consistent
<1> QED
  BY <1>15 DEF am2, vec2, li2

\* What Pane::delete_dataitem leaves of a vector none of whose other slots
\* lies in the deleted block.
LEMMA WithoutItemFact ==
    ASSUME NEW s \in AttrSet, NEW a \in Names, NEW id \in Index, id >= COM_NUM_KEYWORDS,
           NEW n \in Nat \ {0}, Holds(s, a, id, n), id + Extent(n) <= MaxId,
           \A i \in Index : i >= COM_NUM_KEYWORDS /\ IsItem(s.slot[i]) /\ s.slot[i].base = id
                            => id <= i /\ i < id + Extent(n)
    PROVE  /\ WithoutItem(s, id) \in AttrSet
           /\ WithoutItem(s, id).size = (IF id + Extent(n) = s.size THEN id ELSE s.size)
           /\ \A i \in Index : WithoutItem(s, id).slot[i] =
                 IF \/ id <= i /\ i < id + Extent(n)
                    \/ id + Extent(n) = s.size /\ i >= id
                 THEN NULL ELSE s.slot[i]
<1>1. id \in Nat /\ Extent(n) \in Nat /\ Extent(n) >= 1 /\ MaxId \in Nat
  BY ExtentFact, RegistryAssumption DEF Index
<1>2. s.slot[id] = ItemSlot(a, id, n, id)
  BY <1>1 DEF Holds, SlotRange
<1>3. s.slot[id].ncomp = n
  BY <1>2 DEF ItemSlot
<1>4. s.size \in Nat /\ s.slot \in [Index -> Slot] /\ s = [size |-> s.size, slot |-> s.slot]
  BY DEF AttrSet
<1> DEFINE reset == [i \in Index |->
              CASE i \in SlotRange(id, n) -> NULL
                [] i \notin SlotRange(id, n) /\ IsItem(s.slot[i])
                   /\ i >= COM_NUM_KEYWORDS /\ s.slot[i].base = id -> Freed
                [] OTHER -> s.slot[i]]
           t == [s EXCEPT !.slot = reset]
<1>5. ASSUME NEW i \in Index
      PROVE  reset[i] = IF id <= i /\ i < id + Extent(n) THEN NULL ELSE s.slot[i]
  <2>1. i \in SlotRange(id, n) <=> id <= i /\ i < id + Extent(n)
    BY <1>1 DEF SlotRange, Index
  <2>2. CASE i \in SlotRange(id, n)
    BY <2>1, <2>2
  <2>3. CASE i \notin SlotRange(id, n)
    <3>1. ~(IsItem(s.slot[i]) /\ i >= COM_NUM_KEYWORDS /\ s.slot[i].base = id)
      BY <2>1, <2>3
    <3> QED
      BY <2>1, <2>3, <3>1
  <2> QED
    BY <2>2, <2>3
<1>6. reset \in [Index -> Slot]
  <2>1. \A i \in Index : reset[i] \in Slot
    BY <1>4, <1>5 DEF Slot
  <2> QED
    BY <2>1
<1>7. t.size = s.size /\ t.slot = reset /\ t \in AttrSet
  BY <1>4, <1>6 DEF AttrSet
<1>8. WithoutItem(s, id) = IF id + Extent(n) = s.size THEN Resize(t, id) ELSE t
  BY <1>3 DEF WithoutItem
<1> HIDE DEF reset, t
<1>9. CASE id + Extent(n) = s.size
  <2>1. /\ Resize(t, id) \in AttrSet /\ Resize(t, id).size = id
        /\ \A i \in Index : Resize(t, id).slot[i] = IF i < id THEN t.slot[i] ELSE NULL
    <3>1. id \in 0..MaxId
      BY <1>1 DEF Index
    <3> QED
      BY <1>7, <3>1, ResizeType
  <2> QED
    BY <1>1, <1>5, <1>7, <1>8, <1>9, <2>1 DEF Index
<1>10. CASE id + Extent(n) # s.size
  BY <1>5, <1>7, <1>8, <1>10
<1> QED
  BY <1>9, <1>10

\* delete_dataitem keeps the registry consistent.
LEMMA DeleteKeeps ==
    ASSUME NEW am, NEW vec, NEW P, NEW li, Consistent(am, vec, P, li),
           NEW a \in Names, am[a] # NULL, am[a] >= COM_NUM_KEYWORDS
    PROVE  Consistent([am EXCEPT ![a] = NULL],
                      [p \in DOMAIN vec |-> IF p \in P THEN WithoutItem(vec[p], am[a]) ELSE vec[p]],
                      P, IF li = End(am, vec, a) THEN am[a] ELSE li)
<1> DEFINE am2 == [am EXCEPT ![a] = NULL]
           vec2 == [p \in DOMAIN vec |-> IF p \in P THEN WithoutItem(vec[p], am[a]) ELSE vec[p]]
           li2 == IF li = End(am, vec, a) THEN am[a] ELSE li
           id == am[a]
           n == Ncomp(am, vec, a)
<1>1. /\ li \in Nat /\ li >= COM_ALL /\ li <= MaxId /\ MaxId \in Nat
      /\ am \in [Names -> Index \cup {NULL}] /\ DOMAIN vec = {Dummy} \cup PaneIds
      /\ P \subseteq DOMAIN vec /\ Dummy \in P
  BY RegistryAssumption DEF Consistent
<1>2. \A b \in Names : am[b] # NULL =>
         /\ am[b] \in Index /\ am[b] \in Nat /\ am[b] >= COM_ALL
         /\ am[b] >= COM_NUM_KEYWORDS \/ Ncomp(am, vec, b) = 1
         /\ Ncomp(am, vec, b) \in Nat \ {0}
         /\ Extent(Ncomp(am, vec, b)) \in Nat /\ Extent(Ncomp(am, vec, b)) >= 1
         /\ am[b] < End(am, vec, b) /\ End(am, vec, b) <= li /\ End(am, vec, b) \in Nat
         /\ End(am, vec, b) = am[b] + Extent(Ncomp(am, vec, b))
  BY <1>1, ExtentFact DEF Consistent, Index, End
<1>3. \A b \in Names : am[b] # NULL /\ b # a =>
         End(am, vec, a) <= am[b] \/ End(am, vec, b) <= am[a]
  BY DEF Consistent
<1>4. ASSUME NEW p \in P
      PROVE  /\ vec2[p] \in AttrSet
             /\ vec2[p].size = (IF End(am, vec, a) = vec[p].size THEN id ELSE vec[p].size)
             /\ \A i \in Index : vec2[p].slot[i] =
                   IF \/ id <= i /\ i < End(am, vec, a)
                      \/ End(am, vec, a) = vec[p].size /\ i >= id
                   THEN NULL ELSE vec[p].slot[i]
  <2>1. vec2[p] = WithoutItem(vec[p], id)
    BY <1>1
  <2>2. GoodSet(am, vec, vec[p])
    BY DEF Consistent
  <2>3. ASSUME NEW i \in Index, i >= COM_NUM_KEYWORDS, IsItem(vec[p].slot[i]), vec[p].slot[i].base = id
        PROVE  id <= i /\ i < id + Extent(n)
    <3>1. PICK b \in Names : am[b] # NULL /\ am[b] <= i /\ i < End(am, vec, b)
      BY <2>2, <2>3 DEF GoodSet, IsItem
    <3>2. i \in SlotRange(am[b], Ncomp(am, vec, b))
      BY <1>2, <3>1 DEF SlotRange, Index
    <3>3. vec[p].slot[i] = ItemSlot(b, am[b], Ncomp(am, vec, b), i)
      BY <2>2, <3>1, <3>2 DEF GoodSet, Holds
    <3>4. am[b] = id
      BY <2>3, <3>3 DEF ItemSlot
    <3>5. b = a
      BY <1>2, <1>3, <3>1, <3>4
    <3> QED
      BY <1>2, <3>1, <3>5
  <2>4. /\ vec[p] \in AttrSet /\ Holds(vec[p], a, id, n) /\ id \in Index
        /\ id >= COM_NUM_KEYWORDS /\ n \in Nat \ {0} /\ id + Extent(n) <= MaxId
        /\ End(am, vec, a) = id + Extent(n)
    BY <1>1, <1>2, <2>2 DEF GoodSet
  <2> HIDE DEF id, n, vec2
  <2> QED
    BY <2>1, <2>3, <2>4, WithoutItemFact
<1>5. am2 \in [Names -> Index \cup {NULL}] /\ am2[a] = NULL
      /\ \A b \in Names : b # a => am2[b] = am[b]
  BY <1>1
<1>6. vec2 \in [{Dummy} \cup PaneIds -> AttrSet]
  <2>1. \A p \in DOMAIN vec : vec2[p] \in AttrSet
    BY <1>1, <1>4 DEF Consistent
  <2> QED
    BY <1>1, <2>1
<1>7. li2 = IF li = End(am, vec, a) THEN id ELSE li
  OBVIOUS
<1> HIDE DEF am2, vec2, li2
<1>8. ASSUME NEW p \in P, NEW b \in Names, am[b] # NULL, b # a,
             NEW i \in Index, am[b] <= i, i < End(am, vec, b)
      PROVE  vec2[p].slot[i] = vec[p].slot[i]
  <2>1. Holds(vec[p], b, am[b], Ncomp(am, vec, b)) /\ vec[p].size \in Nat
    BY <1>8 DEF Consistent, GoodSet, AttrSet
  <2>2. End(am, vec, b) <= vec[p].size
    BY <1>2, <1>8, <2>1 DEF Holds
  <2> QED
    BY <1>2, <1>3, <1>4, <1>8, <2>1, <2>2 DEF Index
<1>9. ASSUME NEW b \in Names, am2[b] # NULL
      PROVE  /\ b # a /\ am2[b] = am[b] /\ am[b] # NULL
             /\ Ncomp(am2, vec2, b) = Ncomp(am, vec, b) /\ End(am2, vec2, b) = End(am, vec, b)
  <2>1. b # a /\ am2[b] = am[b] /\ am[b] # NULL
    BY <1>5, <1>9
  <2>2. vec2[Dummy].slot[am[b]] = vec[Dummy].slot[am[b]]
    BY <1>1, <1>2, <1>8, <2>1
  <2> QED
    BY <2>1, <2>2 DEF Ncomp, End
<1>10. ASSUME NEW p \in P PROVE GoodSet(am2, vec2, vec2[p])
  <2>1. GoodSet(am, vec, vec[p]) /\ vec[p].size \in Nat
    BY DEF Consistent, GoodSet, AttrSet
  <2>2. vec2[p].size >= COM_ALL
    BY <1>2, <1>4, <2>1 DEF GoodSet
  <2>3. \A i \in 0..(COM_ALL - 1) : vec2[p].slot[i] = KeywordSlot(i)
    BY <1>1, <1>2, <1>4, <2>1 DEF GoodSet, Index
  <2>4. ASSUME NEW b \in Names, am2[b] # NULL
        PROVE  Holds(vec2[p], b, am2[b], Ncomp(am2, vec2, b))
    <3>1. /\ b # a /\ am2[b] = am[b] /\ am[b] # NULL /\ Ncomp(am2, vec2, b) = Ncomp(am, vec, b)
      BY <1>9, <2>4
    <3>2. Holds(vec[p], b, am[b], Ncomp(am, vec, b))
      BY <2>1, <3>1 DEF GoodSet
    <3>3. End(am, vec, b) <= vec[p].size
      BY <1>2, <3>1, <3>2 DEF Holds
    <3>4. End(am, vec, b) <= vec2[p].size
      BY <1>2, <1>3, <1>4, <2>1, <3>1, <3>3
    <3>5. ASSUME NEW i \in SlotRange(am[b], Ncomp(am, vec, b))
          PROVE  vec2[p].slot[i] = ItemSlot(b, am[b], Ncomp(am, vec, b), i)
      <4>1. i \in Index /\ am[b] <= i /\ i < End(am, vec, b)
        BY <1>1, <1>2, <3>1 DEF SlotRange, Index
      <4>2. vec2[p].slot[i] = vec[p].slot[i]
        BY <1>8, <3>1, <4>1
      <4> QED
        BY <3>2, <4>2 DEF Holds
    <3> QED
      BY <1>2, <3>1, <3>4, <3>5 DEF Holds
  <2>5. ASSUME NEW i \in Index, i >= COM_NUM_KEYWORDS, vec2[p].slot[i] # NULL
        PROVE  \E b \in Names : am2[b] # NULL /\ am2[b] <= i /\ i < End(am2, vec2, b)
    <3>1. vec[p].slot[i] # NULL /\ ~(id <= i /\ i < End(am, vec, a))
      BY <1>4, <2>5
    <3>2. PICK b \in Names : am[b] # NULL /\ am[b] <= i /\ i < End(am, vec, b)
      BY <2>1, <2>5, <3>1 DEF GoodSet
    <3>3. b # a
      BY <3>1, <3>2
    <3> QED
      BY <1>5, <1>9, <3>2, <3>3
  <2> QED
    BY <1>4, <2>2, <2>3, <2>4, <2>5 DEF GoodSet
<1>11. ASSUME NEW b \in Names, am2[b] # NULL
       PROVE  /\ Ncomp(am2, vec2, b) \in Nat \ {0}
              /\ am2[b] >= COM_ALL
              /\ am2[b] >= COM_NUM_KEYWORDS \/ Ncomp(am2, vec2, b) = 1
              /\ End(am2, vec2, b) <= li2
  BY <1>1, <1>2, <1>3, <1>7, <1>9, <1>11
<1>12. ASSUME NEW b \in Names, NEW c \in Names, am2[b] # NULL, am2[c] # NULL, b # c
       PROVE  End(am2, vec2, b) <= am2[c] \/ End(am2, vec2, c) <= am2[b]
  BY <1>9, <1>12 DEF Consistent
<1>13. /\ li2 \in COM_ALL..MaxId /\ Dummy \in P /\ P \subseteq {Dummy} \cup PaneIds
       /\ vec2[Dummy].size >= COM_NUM_KEYWORDS
  <2>1. vec[Dummy].size >= COM_NUM_KEYWORDS
    BY DEF Consistent
  <2> QED
    BY <1>1, <1>2, <1>4, <1>7, <2>1 DEF Index
<1>14. Consistent(am2, vec2, P, li2)
  BY <1>5, <1>6, <1>10, <1>11, <1>12, <1>13 DEF Consistent
<1> QED
  BY <1>14 DEF am2, vec2, li2

\* Reconstructing an item in place with the components it has changes nothing.
LEMMA WithItemSame ==
    ASSUME NEW s \in AttrSet, NEW a \in Names, NEW id \in Nat, NEW n \in Nat \ {0},
           Holds(s, a, id, n), id + Extent(n) <= MaxId
    PROVE  WithItem(s, a, id, n) = s
<1>1. Extent(n) \in Nat /\ Extent(n) >= 1 /\ s.size \in Nat /\ s.slot \in [Index -> Slot]
      /\ s = [size |-> s.size, slot |-> s.slot]
  BY ExtentFact DEF AttrSet
<1>2. ~(s.size <= id)
  BY <1>1 DEF Holds
<1>3. \A i \in Index : i \in SlotRange(id, n) => ItemSlot(a, id, n, i) = s.slot[i]
  BY DEF Holds
<1>4. [i \in Index |-> IF i \in SlotRange(id, n) THEN ItemSlot(a, id, n, i) ELSE s.slot[i]] = s.slot
  BY <1>1, <1>3
<1> QED
  BY <1>1, <1>2, <1>4 DEF WithItem

\* Which slots of a good vector hold what.
LEMMA GoodSlot ==
    ASSUME NEW am, NEW vec, NEW P, NEW li, Consistent(am, vec, P, li), NEW p \in P,
           NEW i \in Index, i >= COM_NUM_KEYWORDS, vec[p].slot[i] # NULL
    PROVE  \E b \in Names :
              /\ am[b] # NULL /\ am[b] \in Nat /\ am[b] >= COM_NUM_KEYWORDS
              /\ Ncomp(am, vec, b) \in Nat \ {0}
              /\ Extent(Ncomp(am, vec, b)) \in Nat /\ Extent(Ncomp(am, vec, b)) >= 1
              /\ am[b] <= i /\ i < am[b] + Extent(Ncomp(am, vec, b))
              /\ i \in SlotRange(am[b], Ncomp(am, vec, b))
              /\ vec[p].slot[i] = ItemSlot(b, am[b], Ncomp(am, vec, b), i)
              /\ vec[p].slot[am[b]] = ItemSlot(b, am[b], Ncomp(am, vec, b), am[b])
              /\ am[b] + Extent(Ncomp(am, vec, b)) <= vec[p].size
<1>1. GoodSet(am, vec, vec[p])
  BY DEF Consistent
<1>2. PICK b \in Names : am[b] # NULL /\ am[b] <= i /\ i < End(am, vec, b)
  BY <1>1 DEF GoodSet
<1>3. am[b] \in Nat /\ am[b] >= COM_NUM_KEYWORDS /\ Ncomp(am, vec, b) \in Nat \ {0}
  <2>1. /\ am[b] \in Nat /\ am[b] >= COM_ALL /\ Ncomp(am, vec, b) \in Nat \ {0}
        /\ am[b] >= COM_NUM_KEYWORDS \/ Ncomp(am, vec, b) = 1
    BY <1>2, RegistryAssumption DEF Consistent, Index
  <2>2. CASE am[b] = COM_ALL
    <3>1. End(am, vec, b) = COM_NUM_KEYWORDS
      BY <2>1, <2>2 DEF End, Extent
    <3> QED
      BY <1>2, <3>1 DEF Index
  <2> QED
    BY <2>1, <2>2
<1>4. Extent(Ncomp(am, vec, b)) \in Nat /\ Extent(Ncomp(am, vec, b)) >= 1
  BY <1>3, ExtentFact
<1>5. /\ i < am[b] + Extent(Ncomp(am, vec, b))
      /\ i \in SlotRange(am[b], Ncomp(am, vec, b))
      /\ am[b] \in SlotRange(am[b], Ncomp(am, vec, b))
  BY <1>2, <1>3, <1>4 DEF SlotRange, Index, End
<1>6. Holds(vec[p], b, am[b], Ncomp(am, vec, b))
  BY <1>1, <1>2 DEF GoodSet
<1> QED
  BY <1>2, <1>3, <1>4, <1>5, <1>6 DEF Holds

\* A pane created now gets exactly what the dummy pane holds.
LEMMA CopyOfDummy ==
    ASSUME NEW am, NEW vec, NEW P, NEW li, Consistent(am, vec, P, li)
    PROVE  CopyOf(vec[Dummy]) = vec[Dummy]
<1> DEFINE s == vec[Dummy]
<1>1. Dummy \in P /\ GoodSet(am, vec, s)
  BY DEF Consistent
<1>2. s.slot \in [Index -> Slot] /\ s = [size |-> s.size, slot |-> s.slot]
  BY <1>1 DEF GoodSet, AttrSet
<1>3. ASSUME NEW i \in Index, i >= COM_NUM_KEYWORDS, IsItem(s.slot[i]), ~Covered(s, i)
      PROVE  [s.slot[i] EXCEPT !.base = i] = s.slot[i]
  <2>1. PICK b \in Names :
              /\ am[b] # NULL /\ am[b] \in Nat /\ am[b] >= COM_NUM_KEYWORDS
              /\ Ncomp(am, vec, b) \in Nat \ {0}
              /\ am[b] <= i /\ i < am[b] + Extent(Ncomp(am, vec, b))
              /\ i \in SlotRange(am[b], Ncomp(am, vec, b))
              /\ s.slot[i] = ItemSlot(b, am[b], Ncomp(am, vec, b), i)
              /\ s.slot[am[b]] = ItemSlot(b, am[b], Ncomp(am, vec, b), am[b])
    BY <1>1, <1>3, GoodSlot DEF IsItem
  <2>2. CASE am[b] = i
    BY <2>1, <2>2 DEF ItemSlot
  <2>3. CASE am[b] # i
    <3>1. ItemSlot(b, am[b], Ncomp(am, vec, b), am[b]) \in DataItem
      BY <2>1, ItemSlotType
    <3>2. IsItem(s.slot[am[b]])
      BY <2>1, <3>1, PointersAssumption DEF IsItem
    <3>3. s.slot[am[b]].comp = 0 /\ s.slot[am[b]].ncomp = Ncomp(am, vec, b)
      BY <2>1 DEF ItemSlot
    <3>4. am[b] \in COM_NUM_KEYWORDS..(i - 1)
      BY <2>1, <2>3 DEF Index
    <3> QED
      BY <1>3, <2>1, <3>2, <3>3, <3>4 DEF Covered
  <2> QED
    BY <2>2, <2>3
<1>4. [i \in Index |-> IF i < COM_NUM_KEYWORDS \/ ~IsItem(s.slot[i]) \/ Covered(s, i)
                       THEN s.slot[i] ELSE [s.slot[i] EXCEPT !.base = i]] = s.slot
  <2>1. \A i \in Index : i < COM_NUM_KEYWORDS \/ i >= COM_NUM_KEYWORDS
    BY RegistryAssumption DEF Index
  <2> QED
    BY <1>2, <1>3, <2>1
<1> QED
  BY <1>2, <1>4 DEF CopyOf

\* Shrinking a vector to an id at or above every item keeps it good.
LEMMA ResizeKeeps ==
    ASSUME NEW am, NEW vec, NEW P, NEW li, Consistent(am, vec, P, li), NEW p \in P,
           NEW k \in 0..MaxId, k >= COM_ALL,
           \A a \in Names : am[a] # NULL => End(am, vec, a) <= k
    PROVE  GoodSet(am, vec, Resize(vec[p], k))
<1> DEFINE r == Resize(vec[p], k)
<1>1. GoodSet(am, vec, vec[p]) /\ vec[p] \in AttrSet
  BY DEF Consistent, GoodSet
<1>2. /\ r \in AttrSet /\ r.size = k
      /\ \A i \in Index : r.slot[i] = IF i < k THEN vec[p].slot[i] ELSE NULL
  BY <1>1, ResizeType
<1> HIDE DEF r
<1>3. \A i \in 0..(COM_ALL - 1) : r.slot[i] = KeywordSlot(i)
  BY <1>1, <1>2, RegistryAssumption DEF GoodSet, Index
<1>4. ASSUME NEW a \in Names, am[a] # NULL
      PROVE  Holds(r, a, am[a], Ncomp(am, vec, a))
  <2>1. am[a] \in Nat /\ am[a] \in Index /\ Ncomp(am, vec, a) \in Nat \ {0}
    BY <1>4, RegistryAssumption DEF Consistent, Index
  <2>2. /\ Extent(Ncomp(am, vec, a)) \in Nat /\ Extent(Ncomp(am, vec, a)) >= 1
        /\ End(am, vec, a) <= MaxId
    BY <1>4, <2>1, ExtentFact, RegistryAssumption DEF Consistent, End
  <2>3. \A i \in SlotRange(am[a], Ncomp(am, vec, a)) : i \in Index /\ i < k
    BY <1>4, <2>1, <2>2, RegistryAssumption DEF SlotRange, Index, End
  <2>4. Holds(vec[p], a, am[a], Ncomp(am, vec, a))
    BY <1>1, <1>4 DEF GoodSet
  <2>5. am[a] + Extent(Ncomp(am, vec, a)) <= r.size
    BY <1>2, <1>4 DEF End
  <2>6. \A i \in SlotRange(am[a], Ncomp(am, vec, a)) : r.slot[i] = vec[p].slot[i]
    BY <1>2, <2>3
  <2> QED
    BY <2>4, <2>5, <2>6 DEF Holds
<1>5. ASSUME NEW i \in Index, i >= COM_NUM_KEYWORDS, r.slot[i] # NULL
      PROVE  \E a \in Names : am[a] # NULL /\ am[a] <= i /\ i < End(am, vec, a)
  BY <1>1, <1>2, <1>5 DEF GoodSet
<1> QED
  BY <1>2, <1>3, <1>4, <1>5 DEF GoodSet, r

------------------------------------------------------------------------------
(* The inductive invariant.                                                *)

LEMMA InitIInv == Init => IInv
<1> SUFFICES ASSUME Init PROVE IInv
  OBVIOUS
<1>0. /\ attr_map = [a \in Names |-> NULL] /\ pane_map = {} /\ halted = FALSE
      /\ attr_set = [p \in {Dummy} \cup PaneIds |->
                        IF p = Dummy THEN KeywordAttrSet ELSE EmptyAttrSet]
      /\ last_id = COM_NUM_KEYWORDS /\ status = "NOCHANGE"
  BY DEF Init
<1>1. KeywordAttrSet \in AttrSet /\ EmptyAttrSet \in AttrSet
  <2>1. \A i \in Index : KeywordSlot(i) \in DataItem
    BY RegistryAssumption DEF KeywordSlot, DataItem, Index
  <2> QED
    BY <2>1, RegistryAssumption DEF KeywordAttrSet, EmptyAttrSet, AttrSet, Slot
<1>2. Panes = {Dummy} /\ attr_set[Dummy] = KeywordAttrSet
  BY <1>0 DEF Panes
<1>3. GoodSet(attr_map, attr_set, KeywordAttrSet)
  BY <1>0, <1>1, RegistryAssumption DEF GoodSet, KeywordAttrSet, Index
<1>4. attr_set \in [{Dummy} \cup PaneIds -> AttrSet]
  BY <1>0, <1>1
<1> QED
  <2>1. \A a \in Names : attr_map[a] = NULL
    BY <1>0
  <2>2. /\ attr_map \in [Names -> Index \cup {NULL}] /\ last_id \in COM_ALL..MaxId
        /\ attr_set[Dummy].size >= COM_NUM_KEYWORDS
    BY <1>0, <1>2, RegistryAssumption DEF KeywordAttrSet
  <2>3. Consistent(attr_map, attr_set, Panes, last_id)
    BY <1>2, <1>3, <1>4, <2>1, <2>2 DEF Consistent
  <2> QED
    BY <1>0, <2>3 DEF IInv


\* What Construct does, in the two outcomes.
LEMMA ConstructFact ==
    ASSUME NEW vec, NEW a, NEW id, NEW n, NEW li, NEW st, Construct(vec, a, id, n, li, st)
    PROVE  \/ Halt
           \/ /\ \A p \in Panes : CanConstruct(vec[p], id, n)
              /\ attr_map' = [attr_map EXCEPT ![a] = id]
              /\ attr_set' = [p \in DOMAIN vec |->
                                IF p \in Panes THEN WithItem(vec[p], a, id, n) ELSE vec[p]]
              /\ last_id' = li /\ status' = st
              /\ pane_map' = pane_map /\ Panes' = Panes /\ halted' = halted
BY DEF Construct, Panes

LEMMA HaltIInv == IInv /\ Halt => IInv'
BY DEF IInv, Halt, Consistent, GoodSet, Holds, Ncomp, End, Panes

LEMMA TouchedType == IInv => Touched \in {"SHRUNK", "CHANGED", "NOCHANGE"}
BY DEF IInv, Touched

LEMMA NewDataitemIInv ==
    ASSUME IInv, NEW a \in Names, NEW n \in 1..MaxComp, NewDataitem(a, n)
    PROVE  IInv'
<1>1. n \in Nat \ {0}
  BY RegistryAssumption
<1>2. CASE Halt
  BY <1>2, HaltIInv
<1>3. CASE ~Halt
  <2>1. /\ \A p \in Panes : CanConstruct(attr_set[p], last_id, n)
        /\ attr_map' = [attr_map EXCEPT ![a] = last_id]
        /\ attr_set' = [p \in DOMAIN attr_set |->
                          IF p \in Panes THEN WithItem(attr_set[p], a, last_id, n) ELSE attr_set[p]]
        /\ last_id' = last_id + Extent(n) /\ status' = Touched
        /\ pane_map' = pane_map /\ Panes' = Panes /\ halted' = halted
    BY <1>3, ConstructFact DEF NewDataitem
  <2>2. Consistent(attr_map', attr_set', Panes', last_id')
    BY <1>1, <2>1, ConstructKeeps DEF IInv, NewDataitem
  <2>3. Consistent(attr_map, attr_set, Panes, last_id)'
    BY <2>2 DEF Consistent, GoodSet, Ncomp, End, Holds, Panes
  <2> QED
    BY <2>1, <2>3, TouchedType DEF IInv
<1> QED
  BY <1>2, <1>3

LEMMA RedefineDataitemIInv ==
    ASSUME IInv, NEW a \in Names, attr_map[a] # NULL, RedefineDataitem(a, ItemOf(a).ncomp)
    PROVE  IInv'
<1> DEFINE n == Ncomp(attr_map, attr_set, a)
<1>1. n = ItemOf(a).ncomp
  BY DEF Ncomp, ItemOf
<1>2. CASE Halt
  BY <1>2, HaltIInv
<1>3. CASE ~Halt
  <2>1. /\ attr_map' = [attr_map EXCEPT ![a] = attr_map[a]]
        /\ attr_set' = [p \in DOMAIN attr_set |->
               IF p \in Panes THEN WithItem(attr_set[p], a, attr_map[a], n) ELSE attr_set[p]]
        /\ last_id' = last_id /\ status' = Touched
        /\ pane_map' = pane_map /\ Panes' = Panes /\ halted' = halted
    BY <1>1, <1>3, ConstructFact DEF RedefineDataitem
  <2>2. Consistent(attr_map, attr_set, Panes, last_id)
    BY DEF IInv
  <2>3. /\ attr_map[a] \in Nat /\ n \in Nat \ {0} /\ attr_map[a] + Extent(n) <= MaxId
    <3>1. attr_map[a] \in Nat /\ n \in Nat \ {0} /\ End(attr_map, attr_set, a) <= last_id /\ last_id \in COM_ALL..MaxId
      BY <2>2 DEF Consistent, Index
    <3> QED
      BY <3>1, ExtentFact, RegistryAssumption DEF End
  <2>4. \A p \in Panes : WithItem(attr_set[p], a, attr_map[a], n) = attr_set[p]
    <3>1. \A p \in Panes : attr_set[p] \in AttrSet /\ Holds(attr_set[p], a, attr_map[a], n)
      BY <2>2 DEF Consistent, GoodSet
    <3> HIDE DEF n
    <3> QED
      BY <2>3, <3>1, WithItemSame
  <2>5. attr_set' = attr_set /\ attr_map' = attr_map
    BY <2>1, <2>2, <2>4 DEF Consistent
  <2>6. Consistent(attr_map', attr_set', Panes', last_id')
    BY <2>1, <2>2, <2>5
  <2>7. Consistent(attr_map, attr_set, Panes, last_id)'
    BY <2>6 DEF Consistent, GoodSet, Holds, Ncomp, End, Panes
  <2> QED
    BY <2>1, <2>7, TouchedType DEF IInv
<1> QED
  BY <1>2, <1>3

\* LastIdWithout and StatusWithout, read on the parts of the registry.
LEMMA WithoutFact ==
    ASSUME IInv, NEW a \in Names
    PROVE  /\ LastIdWithout(a) = IF last_id = End(attr_map, attr_set, a)
                                 THEN attr_map[a] ELSE last_id
           /\ StatusWithout(a) \in {"SHRUNK", "CHANGED", "NOCHANGE"}
BY TouchedType DEF LastIdWithout, StatusWithout, IsLast, End, Ncomp, ItemOf

LEMMA GrowDataitemIInv ==
    ASSUME IInv, NEW a \in Names, NEW n \in 1..MaxComp, GrowDataitem(a, n)
    PROVE  IInv'
<1> DEFINE am == [attr_map EXCEPT ![a] = NULL]
           vec == DeletedFromPanes(attr_map[a])
           id == LastIdWithout(a)
<1>1. n \in Nat \ {0} /\ attr_map[a] # NULL /\ id + Extent(n) <= MaxId
  BY RegistryAssumption DEF GrowDataitem
<1>2. CASE Halt
  BY <1>2, HaltIInv
<1>3. CASE ~Halt
  <2>0. attr_map[a] >= COM_NUM_KEYWORDS
    BY <1>3 DEF GrowDataitem
  <2>1. /\ \A p \in Panes : CanConstruct(vec[p], id, n)
        /\ attr_map' = [attr_map EXCEPT ![a] = id]
        /\ attr_set' = [p \in DOMAIN vec |->
                          IF p \in Panes THEN WithItem(vec[p], a, id, n) ELSE vec[p]]
        /\ last_id' = id + Extent(n) /\ status' = StatusWithout(a)
        /\ pane_map' = pane_map /\ Panes' = Panes /\ halted' = halted
    BY <1>3, ConstructFact DEF GrowDataitem
  <2>2. Consistent(am, vec, Panes, id)
    BY <1>1, <2>0, DeleteKeeps, WithoutFact DEF IInv, DeletedFromPanes
  <2>3. am[a] = NULL /\ attr_map' = [am EXCEPT ![a] = id]
    BY <2>1 DEF IInv, Consistent
  <2> HIDE DEF am, vec, id
  <2>4. Consistent([am EXCEPT ![a] = id],
                   [p \in DOMAIN vec |-> IF p \in Panes THEN WithItem(vec[p], a, id, n) ELSE vec[p]],
                   Panes, id + Extent(n))
    <3>1. \A p \in Panes : CanConstruct(vec[p], id, n)
      BY <2>1
    <3> QED
      BY ONLY <1>1, <2>2, <2>3, <3>1, a \in Names, ConstructKeeps
  <2>5. Consistent(attr_map', attr_set', Panes', last_id')
    BY <2>1, <2>3, <2>4
  <2>6. Consistent(attr_map, attr_set, Panes, last_id)'
    BY <2>5 DEF Consistent, GoodSet, Ncomp, End, Holds, Panes
  <2> QED
    BY <2>1, <2>6, WithoutFact DEF IInv
<1> QED
  BY <1>2, <1>3

LEMMA DeleteDataitemIInv ==
    ASSUME IInv, NEW a \in Names, DeleteDataitem(a)
    PROVE  IInv'
<1>0. attr_map[a] # NULL /\ attr_map[a] >= COM_NUM_KEYWORDS
  BY DEF DeleteDataitem
<1>1. CASE Halt
  BY <1>1, HaltIInv
<1>2. CASE ~Halt
  <2>1. /\ attr_map[a] # NULL
        /\ attr_set' = DeletedFromPanes(attr_map[a])
        /\ attr_map' = [attr_map EXCEPT ![a] = NULL]
        /\ last_id' = LastIdWithout(a) /\ status' = StatusWithout(a)
        /\ pane_map' = pane_map /\ Panes' = Panes /\ halted' = halted
    BY <1>2 DEF DeleteDataitem, Panes
  <2>4. Consistent([attr_map EXCEPT ![a] = NULL], DeletedFromPanes(attr_map[a]), Panes,
                   LastIdWithout(a))
    BY <1>0, DeleteKeeps, WithoutFact DEF IInv, DeletedFromPanes
  <2>2. Consistent(attr_map', attr_set', Panes', last_id')
    BY <2>1, <2>4
  <2>3. Consistent(attr_map, attr_set, Panes, last_id)'
    BY <2>2 DEF Consistent, GoodSet, Ncomp, End, Holds, Panes
  <2> QED
    BY <2>1, <2>3, WithoutFact DEF IInv
<1> QED
  BY <1>1, <1>2

\* delete_dataitem("data") keeps the items under the ids of the keywords: they
\* have one component and stay below COM_NUM_KEYWORDS.
LEMMA DeleteDataIInv == ASSUME IInv, DeleteData PROVE IInv'
<1>1. Consistent(attr_map, attr_set, Panes, last_id)
  BY DEF IInv
<1>0. \A a \in Names : attr_map[a] # NULL =>
         /\ attr_map[a] \in Nat /\ attr_map[a] \in Index /\ attr_map[a] >= COM_ALL
         /\ Ncomp(attr_map, attr_set, a) \in Nat \ {0}
         /\ attr_map[a] >= COM_NUM_KEYWORDS \/ Ncomp(attr_map, attr_set, a) = 1
         /\ End(attr_map, attr_set, a) = attr_map[a] + Extent(Ncomp(attr_map, attr_set, a))
         /\ Extent(Ncomp(attr_map, attr_set, a)) \in Nat
         /\ Extent(Ncomp(attr_map, attr_set, a)) >= 1
         /\ Ncomp(attr_map, attr_set, a) = 1 => Extent(Ncomp(attr_map, attr_set, a)) = 1
         /\ End(attr_map, attr_set, a) <= last_id /\ last_id \in Nat
  BY <1>1, ExtentFact, RegistryAssumption DEF Consistent, Index, End, Extent
<1>2. \A a \in Names : attr_map'[a] # NULL =>
         /\ attr_map[a] # NULL /\ attr_map'[a] = attr_map[a] /\ attr_map[a] = COM_ALL
         /\ Ncomp(attr_map, attr_set, a) = 1 /\ End(attr_map, attr_set, a) = COM_NUM_KEYWORDS
  <2>1. CASE last_id > COM_NUM_KEYWORDS
    BY <1>0, <2>1, PointersAssumption DEF DeleteData
  <2>2. CASE ~(last_id > COM_NUM_KEYWORDS)
    BY <1>0, <2>2 DEF DeleteData
  <2> QED
    BY <2>1, <2>2
<1>3. /\ attr_set' = [p \in DOMAIN attr_set |->
                        IF p \in Panes THEN Resize(attr_set[p], COM_NUM_KEYWORDS) ELSE attr_set[p]]
      /\ pane_map' = pane_map /\ Panes' = Panes /\ halted' = halted
      /\ last_id' \in COM_ALL..MaxId
      /\ status' \in {"SHRUNK", "CHANGED", "NOCHANGE"}
      /\ attr_map' \in [Names -> Index \cup {NULL}]
  BY <1>1, RegistryAssumption DEF DeleteData, Panes, IInv, Consistent
<1>9. \A a \in Names : attr_map'[a] # NULL => COM_NUM_KEYWORDS <= last_id'
  BY <1>0, <1>2 DEF DeleteData
<1>4. ASSUME NEW p \in Panes
      PROVE  /\ attr_set'[p] \in AttrSet /\ attr_set'[p].size = COM_NUM_KEYWORDS
             /\ \A i \in Index : attr_set'[p].slot[i] =
                   IF i < COM_NUM_KEYWORDS THEN attr_set[p].slot[i] ELSE NULL
  <2>1. attr_set[p] \in AttrSet /\ attr_set'[p] = Resize(attr_set[p], COM_NUM_KEYWORDS)
    BY <1>1, <1>3 DEF Consistent
  <2> QED
    BY <2>1, ResizeType, RegistryAssumption
<1>10. COM_ALL \in Index /\ Dummy \in Panes
  BY RegistryAssumption DEF Index, Panes
<1>11. ASSUME NEW a \in Names, attr_map'[a] # NULL
       PROVE  /\ attr_map'[a] = COM_ALL
              /\ Ncomp(attr_map', attr_set', a) = 1
              /\ End(attr_map', attr_set', a) = COM_NUM_KEYWORDS
  <2>1. attr_set'[Dummy].slot[COM_ALL] = attr_set[Dummy].slot[COM_ALL]
    BY <1>4, <1>10
  <2> QED
    BY <1>2, <1>11, <2>1 DEF Ncomp, End, Extent
<1>5. ASSUME NEW p \in Panes PROVE GoodSet(attr_map', attr_set', attr_set'[p])
  <2>0. GoodSet(attr_map, attr_set, attr_set[p])
    BY <1>1 DEF Consistent
  <2>1. \A i \in 0..(COM_ALL - 1) : attr_set'[p].slot[i] = KeywordSlot(i)
    BY <1>4, <2>0, RegistryAssumption DEF GoodSet, Index
  <2>2. \A i \in Index : ~(i >= COM_NUM_KEYWORDS /\ attr_set'[p].slot[i] # NULL)
    BY <1>4 DEF Index
  <2>3. ASSUME NEW a \in Names, attr_map'[a] # NULL
        PROVE  Holds(attr_set'[p], a, attr_map'[a], Ncomp(attr_map', attr_set', a))
    <3>1. Holds(attr_set[p], a, COM_ALL, 1)
      BY <1>2, <2>0, <2>3 DEF GoodSet
    <3>2. SlotRange(COM_ALL, 1) = {COM_ALL}
      BY DEF SlotRange, Extent
    <3>3. Holds(attr_set'[p], a, COM_ALL, 1)
      BY <1>4, <1>10, <3>1, <3>2 DEF Holds, Extent
    <3> QED
      BY <1>11, <2>3, <3>3
  <2> QED
    BY <1>4, <2>1, <2>2, <2>3 DEF GoodSet
<1>6. attr_set' \in [{Dummy} \cup PaneIds -> AttrSet]
  BY <1>1, <1>3, <1>4 DEF Consistent
<1>12. \A a, b \in Names : attr_map'[a] # NULL /\ attr_map'[b] # NULL => a = b
  <2> SUFFICES ASSUME NEW a \in Names, NEW b \in Names,
                      attr_map'[a] # NULL, attr_map'[b] # NULL, a # b
               PROVE  FALSE
    OBVIOUS
  <2>1. \/ End(attr_map, attr_set, a) <= attr_map[b]
        \/ End(attr_map, attr_set, b) <= attr_map[a]
    BY <1>1, <1>2 DEF Consistent
  <2> QED
    BY <1>2, <2>1
<1>7. Consistent(attr_map', attr_set', Panes', last_id')
  <2>1. attr_set'[Dummy].size >= COM_NUM_KEYWORDS
    BY <1>4, <1>10
  <2>2. \A a \in Names : attr_map'[a] # NULL =>
          /\ Ncomp(attr_map', attr_set', a) \in Nat \ {0}
          /\ attr_map'[a] >= COM_ALL
          /\ attr_map'[a] >= COM_NUM_KEYWORDS \/ Ncomp(attr_map', attr_set', a) = 1
          /\ End(attr_map', attr_set', a) <= last_id'
    BY <1>9, <1>11
  <2>3. Dummy \in Panes' /\ Panes' \subseteq {Dummy} \cup PaneIds
    BY <1>1, <1>3 DEF Consistent
  <2>4. \A p \in Panes' : GoodSet(attr_map', attr_set', attr_set'[p])
    BY <1>3, <1>5
  <2> QED
    BY <1>3, <1>6, <1>12, <2>1, <2>2, <2>3, <2>4 DEF Consistent
<1>8. Consistent(attr_map, attr_set, Panes, last_id)'
  BY <1>7 DEF Consistent, GoodSet, Ncomp, End, Holds, Panes
<1> QED
  BY <1>3, <1>8 DEF IInv

LEMMA NewPaneIInv == ASSUME IInv, NEW p \in PaneIds, NewPane(p) PROVE IInv'
<1>1. Consistent(attr_map, attr_set, Panes, last_id) /\ p # Dummy
  BY RegistryAssumption DEF IInv
<1>2. /\ attr_set' = [attr_set EXCEPT ![p] = attr_set[Dummy]]
      /\ pane_map' = pane_map \cup {p}
      /\ UNCHANGED <<attr_map, last_id, status, halted>>
  BY <1>1, CopyOfDummy DEF NewPane
<1>3. /\ attr_set'[p] = attr_set[Dummy] /\ attr_set'[Dummy] = attr_set[Dummy]
      /\ \A q \in Panes : q # p => attr_set'[q] = attr_set[q]
      /\ Panes' = Panes \cup {p} /\ Dummy \in Panes
      /\ attr_set' \in [{Dummy} \cup PaneIds -> AttrSet]
  BY <1>1, <1>2 DEF Consistent, Panes
<1>4. \A a : /\ Ncomp(attr_map', attr_set', a) = Ncomp(attr_map, attr_set, a)
             /\ End(attr_map', attr_set', a) = End(attr_map, attr_set, a)
  BY <1>2, <1>3 DEF Ncomp, End
<1>5. ASSUME NEW q \in Panes' PROVE GoodSet(attr_map', attr_set', attr_set'[q])
  <2>1. PICK r \in Panes : attr_set'[q] = attr_set[r]
    BY <1>3
  <2>2. GoodSet(attr_map, attr_set, attr_set[r])
    BY <1>1 DEF Consistent
  <2> QED
    BY <1>2, <1>4, <2>1, <2>2 DEF GoodSet
<1>6. Consistent(attr_map', attr_set', Panes', last_id')
  BY <1>1, <1>2, <1>3, <1>4, <1>5 DEF Consistent
<1>7. Consistent(attr_map, attr_set, Panes, last_id)'
  BY <1>6 DEF Consistent, GoodSet, Ncomp, End, Holds, Panes
<1> QED
  BY <1>2, <1>7 DEF IInv

LEMMA DeletePanesIInv ==
    ASSUME IInv, NEW Q \in SUBSET pane_map, DeletePanes(Q)
    PROVE  IInv'
<1>1. Consistent(attr_map, attr_set, Panes, last_id) /\ Q \subseteq PaneIds /\ Dummy \notin Q
  BY RegistryAssumption DEF IInv
<1>2. /\ attr_set' = [q \in DOMAIN attr_set |-> IF q \in Q THEN EmptyAttrSet ELSE attr_set[q]]
      /\ pane_map' = pane_map \ Q
      /\ UNCHANGED <<attr_map, last_id, status, halted>>
  BY DEF DeletePanes
<1>3. /\ attr_set'[Dummy] = attr_set[Dummy]
      /\ Panes' = Panes \ Q /\ Dummy \in Panes'
      /\ \A q \in Panes' : attr_set'[q] = attr_set[q]
  BY <1>1, <1>2 DEF Consistent, Panes
<1>4. attr_set' \in [{Dummy} \cup PaneIds -> AttrSet]
  <2>1. EmptyAttrSet \in AttrSet
    BY RegistryAssumption DEF EmptyAttrSet, AttrSet, Slot
  <2> QED
    BY <1>1, <1>2, <2>1 DEF Consistent
<1>5. \A a : /\ Ncomp(attr_map', attr_set', a) = Ncomp(attr_map, attr_set, a)
             /\ End(attr_map', attr_set', a) = End(attr_map, attr_set, a)
  BY <1>2, <1>3 DEF Ncomp, End
<1>6. ASSUME NEW q \in Panes' PROVE GoodSet(attr_map', attr_set', attr_set'[q])
  <2>1. GoodSet(attr_map, attr_set, attr_set[q]) /\ attr_set'[q] = attr_set[q]
    BY <1>1, <1>3 DEF Consistent
  <2> QED
    BY <1>2, <1>5, <2>1 DEF GoodSet
<1>7. Consistent(attr_map', attr_set', Panes', last_id')
  BY <1>1, <1>2, <1>3, <1>4, <1>5, <1>6 DEF Consistent
<1>8. Consistent(attr_map, attr_set, Panes, last_id)'
  BY <1>7 DEF Consistent, GoodSet, Ncomp, End, Holds, Panes
<1> QED
  BY <1>2, <1>8 DEF IInv

\* With no item left the maximum over _attr_map is COM_ALL, below the keywords.
LEMMA InitDoneIInv ==
    ASSUME IInv, InitDone
    PROVE  IInv'
<1>1. Consistent(attr_map, attr_set, Panes, last_id) /\ last_id \in Nat /\ last_id <= MaxId
      /\ last_id >= COM_ALL /\ MaxId \in Nat
  BY RegistryAssumption DEF IInv, Consistent
<1>2. PICK k \in KeywordTop..MaxId :
         /\ IsMaxId(k)
         /\ last_id' = CompactedLastId(k)
         /\ attr_set' = [p \in DOMAIN attr_set |->
                           IF p \in pane_map THEN Resize(attr_set[p], CompactedLastId(k))
                           ELSE attr_set[p]]
         /\ status' = "NOCHANGE"
         /\ UNCHANGED <<attr_map, pane_map, halted>>
  BY DEF InitDone
<1> DEFINE li == CompactedLastId(k)
<1>3. \A a \in Names : attr_map[a] # NULL =>
         /\ attr_map[a] \in Nat /\ attr_map[a] >= COM_ALL
         /\ Extent(Ncomp(attr_map, attr_set, a)) \in Nat
         /\ Extent(Ncomp(attr_map, attr_set, a)) >= 1
         /\ End(attr_map, attr_set, a) = attr_map[a] + Extent(Ncomp(attr_map, attr_set, a))
         /\ End(attr_map, attr_set, a) <= last_id
  BY <1>1, ExtentFact, RegistryAssumption DEF Consistent, Index, End
<1>4. \A a \in Names : attr_map[a] # NULL => End(attr_map, attr_set, a) <= k
  BY <1>2 DEF IsMaxId, Registered, End, Ncomp, ItemOf
<1>5. li \in Nat /\ li >= COM_ALL /\ li <= MaxId
  BY <1>1, <1>2 DEF CompactedLastId
<1>6. \A a \in Names : attr_map[a] # NULL => End(attr_map, attr_set, a) <= li
  BY <1>3, <1>4 DEF CompactedLastId
<1>7. /\ attr_set'[Dummy] = attr_set[Dummy] /\ Panes' = Panes /\ Dummy \in Panes
      /\ \A p \in pane_map : attr_set'[p] = Resize(attr_set[p], li)
      /\ pane_map \subseteq Panes /\ Panes \subseteq DOMAIN attr_set /\ DOMAIN attr_set' = DOMAIN attr_set
  <2>1. Dummy \notin pane_map
    BY RegistryAssumption DEF IInv
  <2> QED
    BY <1>1, <1>2, <2>1 DEF Consistent, Panes
<1> HIDE DEF li
<1>8. \A a : /\ Ncomp(attr_map', attr_set', a) = Ncomp(attr_map, attr_set, a)
             /\ End(attr_map', attr_set', a) = End(attr_map, attr_set, a)
  BY <1>2, <1>7 DEF Ncomp, End
<1>9. ASSUME NEW p \in Panes PROVE GoodSet(attr_map, attr_set, attr_set'[p])
  <2>1. CASE p \in pane_map
    BY <1>1, <1>5, <1>6, <1>7, <2>1, ResizeKeeps
  <2>2. CASE p \notin pane_map
    BY <1>1, <1>7, <2>2 DEF Consistent, Panes
  <2> QED
    BY <2>1, <2>2
<1>10. ASSUME NEW p \in Panes PROVE GoodSet(attr_map', attr_set', attr_set'[p])
  BY <1>2, <1>8, <1>9 DEF GoodSet
<1>11. attr_set' \in [{Dummy} \cup PaneIds -> AttrSet]
  <2>1. \A p \in DOMAIN attr_set : attr_set'[p] \in AttrSet
    <3>1. \A p \in Panes : attr_set'[p] \in AttrSet
      BY <1>9 DEF GoodSet
    <3>2. \A p \in DOMAIN attr_set : p \notin pane_map => attr_set'[p] = attr_set[p]
      BY <1>2
    <3> QED
      BY <1>1, <1>7, <3>1, <3>2 DEF Consistent
  <2> QED
    BY <1>1, <1>2, <2>1 DEF Consistent
<1>12. last_id' = li
  BY <1>2 DEF li
<1>13. Consistent(attr_map', attr_set', Panes', last_id')
  <2>1. /\ attr_map' \in [Names -> Index \cup {NULL}] /\ last_id' \in COM_ALL..MaxId
        /\ attr_set'[Dummy].size >= COM_NUM_KEYWORDS
        /\ Dummy \in Panes' /\ Panes' \subseteq {Dummy} \cup PaneIds
    BY <1>1, <1>2, <1>5, <1>7, <1>12 DEF Consistent
  <2>2. \A a \in Names : attr_map'[a] # NULL =>
          /\ Ncomp(attr_map', attr_set', a) \in Nat \ {0}
          /\ attr_map'[a] >= COM_ALL
          /\ attr_map'[a] >= COM_NUM_KEYWORDS \/ Ncomp(attr_map', attr_set', a) = 1
          /\ End(attr_map', attr_set', a) <= last_id'
    BY <1>1, <1>2, <1>6, <1>8, <1>12 DEF Consistent
  <2>3. \A a, b \in Names : attr_map'[a] # NULL /\ attr_map'[b] # NULL /\ a # b =>
          \/ End(attr_map', attr_set', a) <= attr_map'[b]
          \/ End(attr_map', attr_set', b) <= attr_map'[a]
    BY <1>1, <1>2, <1>8 DEF Consistent
  <2>4. \A p \in Panes' : GoodSet(attr_map', attr_set', attr_set'[p])
    BY <1>7, <1>10
  <2> QED
    BY <1>11, <2>1, <2>2, <2>3, <2>4 DEF Consistent
<1>14. Consistent(attr_map, attr_set, Panes, last_id)'
  BY <1>13 DEF Consistent, GoodSet, Ncomp, End, Holds, Panes
<1> QED
  BY <1>2, <1>14 DEF IInv

LEMMA NextIInv == IInv /\ [Next]_vars => IInv'
<1> SUFFICES ASSUME IInv, [Next]_vars PROVE IInv'
  OBVIOUS
<1>1. CASE UNCHANGED vars
  <2>1. /\ attr_map' = attr_map /\ attr_set' = attr_set /\ Panes' = Panes
        /\ last_id' = last_id /\ pane_map' = pane_map /\ status' = status /\ halted' = halted
    BY <1>1 DEF vars, Panes
  <2>2. Consistent(attr_map', attr_set', Panes', last_id')
    BY <2>1 DEF IInv
  <2>3. Consistent(attr_map, attr_set, Panes, last_id)'
    BY <2>2 DEF Consistent, GoodSet, Ncomp, End, Holds, Panes
  <2> QED
    BY <2>1, <2>3 DEF IInv
<1>2. ASSUME NEW a \in Names, NEW n \in 1..MaxComp, NewDataitem(a, n) PROVE IInv'
  BY <1>2, NewDataitemIInv
<1>3. ASSUME NEW a \in Names, attr_map[a] # NULL, RedefineDataitem(a, ItemOf(a).ncomp) PROVE IInv'
  BY <1>3, RedefineDataitemIInv
<1>4. ASSUME NEW a \in Names, NEW n \in 1..MaxComp, GrowDataitem(a, n) PROVE IInv'
  BY <1>4, GrowDataitemIInv
<1>5. ASSUME NEW a \in Names, DeleteDataitem(a) PROVE IInv'
  BY <1>5, DeleteDataitemIInv
<1>6. ASSUME DeleteData PROVE IInv'
  BY <1>6, DeleteDataIInv
<1>7. ASSUME NEW p \in PaneIds, NewPane(p) PROVE IInv'
  BY <1>7, NewPaneIInv
<1>8. ASSUME NEW Q \in SUBSET pane_map, DeletePanes(Q) PROVE IInv'
  BY <1>8, DeletePanesIInv
<1>9. ASSUME InitDone PROVE IInv'
  BY <1>9, InitDoneIInv
<1> QED
  BY <1>1, <1>2, <1>3, <1>4, <1>5, <1>6, <1>7, <1>8, <1>9 DEF Next

\* The registry is consistent in every reachable state.
THEOREM RegistryInductive == Spec => []IInv
BY InitIInv, NextIInv, PTL DEF Spec

\* Every variable of the registry keeps its type, and no slot or id leaves the bound.
THEOREM RegistryTypeOK == Spec => []TypeOK
<1>1. IInv => TypeOK
  BY RegistryAssumption DEF IInv, Consistent, TypeOK
<1> QED
  BY <1>1, RegistryInductive, PTL

\* The slots of two registered items never overlap and lie below _last_id
\* (new_dataitem, delete_dataitem and init_done together).
THEOREM RegistryItemsDoNotOverlap == Spec => []ItemsDoNotOverlap
<1>1. IInv => ItemsDoNotOverlap
  BY DEF IInv, Consistent, ItemsDoNotOverlap, Registered, ItemOf, End, Ncomp
<1> QED
  BY <1>1, RegistryInductive, PTL

\* Every pane holds every registered item under the id the window has for it,
\* whether the pane was created before or after the item.
THEOREM RegistryPanesAgree == Spec => []PanesAgree
<1>1. IInv => PanesAgree
  BY DEF IInv, Consistent, GoodSet, PanesAgree, Registered, ItemOf, Ncomp
<1> QED
  BY <1>1, RegistryInductive, PTL

HoldsKeywords(s) ==
    s.size >= COM_NUM_KEYWORDS /\ \A i \in 0..COM_ALL : s.slot[i] = KeywordSlot(i)

\* As long as the keywords are held, no item is registered under one of their ids.
LEMMA ItemsAboveKeywords ==
    ASSUME IInv, KeywordsHeld, NEW a \in Names, attr_map[a] # NULL
    PROVE  /\ attr_map[a] \in Index /\ attr_map[a] \in Nat /\ attr_map[a] >= COM_NUM_KEYWORDS
           /\ Ncomp(attr_map, attr_set, a) \in Nat \ {0}
           /\ Extent(Ncomp(attr_map, attr_set, a)) \in Nat
           /\ Extent(Ncomp(attr_map, attr_set, a)) >= 1
           /\ End(attr_map, attr_set, a) <= last_id /\ last_id <= MaxId /\ last_id \in Nat
           /\ \A p \in Panes : Holds(attr_set[p], a, attr_map[a], Ncomp(attr_map, attr_set, a))
<1> DEFINE id == attr_map[a]
           n == Ncomp(attr_map, attr_set, a)
<1>1. /\ id \in Index /\ id \in Nat /\ id >= COM_ALL /\ n \in Nat \ {0} /\ Dummy \in Panes
      /\ End(attr_map, attr_set, a) <= last_id /\ last_id <= MaxId /\ last_id \in Nat
      /\ \A p \in Panes : Holds(attr_set[p], a, id, n)
  BY RegistryAssumption DEF IInv, Consistent, GoodSet, Index
<1>2. Extent(n) \in Nat /\ Extent(n) >= 1
  BY <1>1, ExtentFact
<1>3. attr_set[Dummy].slot[id] = ItemSlot(a, id, n, id)
  BY <1>1, <1>2 DEF Holds, SlotRange
<1>4. attr_set[Dummy].slot[id].name = a /\ a # Keyword
  BY <1>3, RegistryAssumption DEF ItemSlot
<1>5. attr_set[Dummy].slot[COM_ALL] = KeywordSlot(COM_ALL)
  BY <1>1 DEF KeywordsHeld
<1>6. KeywordSlot(COM_ALL).name = Keyword
  BY DEF KeywordSlot
<1>7. id # COM_ALL
  BY <1>4, <1>5, <1>6
<1> QED
  BY <1>1, <1>2, <1>7

\* Constructing or deleting an item above the keywords leaves them alone.
LEMMA WithItemKeywords ==
    ASSUME NEW s \in AttrSet, HoldsKeywords(s), NEW a \in Names, NEW id \in Nat,
           id >= COM_NUM_KEYWORDS, NEW n \in Nat \ {0}, id + Extent(n) <= MaxId
    PROVE  HoldsKeywords(WithItem(s, a, id, n))
<1>1. Extent(n) \in Nat /\ s.size \in Nat /\ MaxId \in Nat /\ MaxId >= COM_NUM_KEYWORDS
  BY ExtentFact, RegistryAssumption DEF AttrSet
<1>2. /\ WithItem(s, a, id, n).size = (IF s.size <= id THEN id + Extent(n) ELSE s.size)
      /\ \A i \in Index : WithItem(s, a, id, n).slot[i] =
            IF id <= i /\ i < id + Extent(n) THEN ItemSlot(a, id, n, i) ELSE s.slot[i]
  BY WithItemType
<1> QED
  BY <1>1, <1>2 DEF HoldsKeywords, Index

LEMMA WithoutItemKeywords ==
    ASSUME NEW s \in AttrSet, HoldsKeywords(s), NEW id \in Index, id >= COM_NUM_KEYWORDS,
           s.slot[id].ncomp \in Nat \ {0}
    PROVE  HoldsKeywords(WithoutItem(s, id))
<1> DEFINE n == s.slot[id].ncomp
           reset == [i \in Index |->
              CASE i \in SlotRange(id, n) -> NULL
                [] i \notin SlotRange(id, n) /\ IsItem(s.slot[i])
                   /\ i >= COM_NUM_KEYWORDS /\ s.slot[i].base = id -> Freed
                [] OTHER -> s.slot[i]]
           t == [s EXCEPT !.slot = reset]
<1>1. /\ id \in Nat /\ MaxId \in Nat /\ s.size \in Nat /\ id < MaxId
      /\ s = [size |-> s.size, slot |-> s.slot]
  BY RegistryAssumption DEF Index, AttrSet
<1>0. Extent(n) \in Nat
  BY ExtentFact
<1>2. \A i \in 0..COM_ALL : i \in Index /\ reset[i] = s.slot[i]
  BY <1>0, <1>1 DEF SlotRange, Index
<1>3. t.size = s.size /\ t.slot = reset
  BY <1>1
<1>4. WithoutItem(s, id) = IF id + Extent(n) = s.size THEN Resize(t, id) ELSE t
  BY DEF WithoutItem
<1> HIDE DEF reset, t, n
<1>5. CASE id + Extent(n) = s.size
  <2>1. /\ Resize(t, id).size = id
        /\ \A i \in Index : Resize(t, id).slot[i] = IF i < id THEN t.slot[i] ELSE NULL
    BY DEF Resize
  <2> QED
    BY <1>1, <1>2, <1>3, <1>4, <1>5, <2>1 DEF HoldsKeywords
<1>6. CASE id + Extent(n) # s.size
  BY <1>2, <1>3, <1>4, <1>6 DEF HoldsKeywords
<1> QED
  BY <1>5, <1>6

\* The keywords keep their ids and slots through every operation but one: init_done
\* on a window all of whose items were deleted, one out of order, compacts _last_id
\* to COM_ALL, below the keywords.
THEOREM RegistryKeywordsKept == Spec => KeywordsKept
<1>1. IInv /\ [Next]_vars =>
        [KeywordsHeld =>
           \/ KeywordsHeld'
           \/ EmptiedOutOfOrder /\ status' = "NOCHANGE" /\ last_id' = COM_ALL]_vars
  <2> SUFFICES ASSUME IInv, Next, KeywordsHeld,
                      ~(EmptiedOutOfOrder /\ status' = "NOCHANGE" /\ last_id' = COM_ALL)
               PROVE  KeywordsHeld'
    OBVIOUS
  <2>0. /\ Dummy \in Panes /\ Panes \subseteq DOMAIN attr_set /\ DOMAIN attr_set = {Dummy} \cup PaneIds
        /\ pane_map \subseteq PaneIds /\ Dummy \notin pane_map /\ Dummy \notin PaneIds
        /\ last_id \in Nat /\ last_id >= COM_NUM_KEYWORDS /\ MaxId \in Nat /\ last_id <= MaxId
        /\ \A p \in Panes : attr_set[p] \in AttrSet /\ HoldsKeywords(attr_set[p])
    <3>1. Consistent(attr_map, attr_set, Panes, last_id) /\ pane_map \subseteq PaneIds
      BY DEF IInv
    <3>2. Dummy \notin PaneIds /\ MaxId \in Nat
      BY RegistryAssumption
    <3>3. Dummy \in Panes /\ Panes \subseteq {Dummy} \cup PaneIds
          /\ last_id \in COM_ALL..MaxId /\ attr_set \in [{Dummy} \cup PaneIds -> AttrSet]
      BY <3>1 DEF Consistent
    <3>4. last_id >= COM_NUM_KEYWORDS /\ \A p \in Panes : HoldsKeywords(attr_set[p])
      BY DEF KeywordsHeld, HoldsKeywords
    <3> QED
      BY <3>1, <3>2, <3>3, <3>4
  <2>1. SUFFICES /\ last_id' >= COM_NUM_KEYWORDS
                 /\ \A p \in Panes' : HoldsKeywords(attr_set'[p])
    BY DEF KeywordsHeld, HoldsKeywords
  <2>2. CASE Halt
    BY <2>0, <2>2 DEF Halt, Panes
  <2>3. ASSUME NEW a \in Names, NEW n \in 1..MaxComp, NewDataitem(a, n), ~Halt
        PROVE  last_id' >= COM_NUM_KEYWORDS /\ \A p \in Panes' : HoldsKeywords(attr_set'[p])
    <3>1. /\ attr_set' = [p \in DOMAIN attr_set |->
                IF p \in Panes THEN WithItem(attr_set[p], a, last_id, n) ELSE attr_set[p]]
          /\ last_id' = last_id + Extent(n) /\ Panes' = Panes /\ last_id + Extent(n) <= MaxId
      BY <2>3, ConstructFact DEF NewDataitem
    <3>2. n \in Nat \ {0} /\ Extent(n) \in Nat
      BY ExtentFact, RegistryAssumption
    <3> QED
      BY <2>0, <3>1, <3>2, WithItemKeywords
  <2>4. ASSUME NEW a \in Names, attr_map[a] # NULL, RedefineDataitem(a, ItemOf(a).ncomp), ~Halt
        PROVE  last_id' >= COM_NUM_KEYWORDS /\ \A p \in Panes' : HoldsKeywords(attr_set'[p])
    <3> DEFINE n == Ncomp(attr_map, attr_set, a)
    <3>1. /\ attr_set' = [p \in DOMAIN attr_set |->
                IF p \in Panes THEN WithItem(attr_set[p], a, attr_map[a], n) ELSE attr_set[p]]
          /\ last_id' = last_id /\ Panes' = Panes
      BY <2>4, ConstructFact DEF RedefineDataitem, Ncomp, ItemOf
    <3>2. /\ attr_map[a] \in Nat /\ attr_map[a] >= COM_NUM_KEYWORDS /\ n \in Nat \ {0}
          /\ attr_map[a] + Extent(n) <= MaxId
      BY <2>4, ItemsAboveKeywords, RegistryAssumption DEF End
    <3> HIDE DEF n
    <3> QED
      BY <2>0, <3>1, <3>2, WithItemKeywords
  <2>5. ASSUME NEW a \in Names, attr_map[a] # NULL
        PROVE  /\ \A p \in Panes : /\ DeletedFromPanes(attr_map[a])[p] \in AttrSet
                                   /\ HoldsKeywords(DeletedFromPanes(attr_map[a])[p])
               /\ LastIdWithout(a) \in Nat /\ LastIdWithout(a) >= COM_NUM_KEYWORDS
               /\ DOMAIN DeletedFromPanes(attr_map[a]) = DOMAIN attr_set
    <3> DEFINE n == Ncomp(attr_map, attr_set, a)
    <3>1. /\ attr_map[a] \in Index /\ attr_map[a] \in Nat /\ attr_map[a] >= COM_NUM_KEYWORDS
          /\ n \in Nat \ {0} /\ Extent(n) \in Nat /\ Extent(n) >= 1
          /\ \A p \in Panes : Holds(attr_set[p], a, attr_map[a], n)
      BY <2>5, ItemsAboveKeywords
    <3>2. ASSUME NEW p \in Panes PROVE attr_set[p].slot[attr_map[a]].ncomp = n
      <4>1. attr_set[p].slot[attr_map[a]] = ItemSlot(a, attr_map[a], n, attr_map[a])
        BY <3>1 DEF Holds, SlotRange
      <4> QED
        BY <4>1 DEF ItemSlot
    <3>3. \A p \in Panes : DeletedFromPanes(attr_map[a])[p] = WithoutItem(attr_set[p], attr_map[a])
      BY <2>0 DEF DeletedFromPanes
    <3>4. Consistent([attr_map EXCEPT ![a] = NULL], DeletedFromPanes(attr_map[a]), Panes,
                     LastIdWithout(a))
      BY <2>5, <3>1, DeleteKeeps, WithoutFact DEF IInv, DeletedFromPanes
    <3>5. LastIdWithout(a) \in Nat /\ LastIdWithout(a) >= COM_NUM_KEYWORDS
      BY <2>0, <3>1, WithoutFact
    <3>6. \A p \in Panes : DeletedFromPanes(attr_map[a])[p] \in AttrSet
      BY <2>0, <3>4 DEF Consistent
    <3>7. DOMAIN DeletedFromPanes(attr_map[a]) = DOMAIN attr_set
      BY DEF DeletedFromPanes
    <3> HIDE DEF n
    <3>8. \A p \in Panes : HoldsKeywords(DeletedFromPanes(attr_map[a])[p])
      BY <2>0, <3>1, <3>2, <3>3, WithoutItemKeywords
    <3> QED
      BY <3>5, <3>6, <3>7, <3>8
  <2>6. ASSUME NEW a \in Names, NEW n \in 1..MaxComp, GrowDataitem(a, n), ~Halt
        PROVE  last_id' >= COM_NUM_KEYWORDS /\ \A p \in Panes' : HoldsKeywords(attr_set'[p])
    <3> DEFINE vec == DeletedFromPanes(attr_map[a])
               id == LastIdWithout(a)
    <3>1. /\ attr_set' = [p \in DOMAIN vec |->
                IF p \in Panes THEN WithItem(vec[p], a, id, n) ELSE vec[p]]
          /\ last_id' = id + Extent(n) /\ Panes' = Panes /\ id + Extent(n) <= MaxId
          /\ attr_map[a] # NULL
      BY <2>6, ConstructFact DEF GrowDataitem
    <3>2. n \in Nat \ {0} /\ Extent(n) \in Nat
      BY ExtentFact, RegistryAssumption
    <3>3. /\ \A p \in Panes : vec[p] \in AttrSet /\ HoldsKeywords(vec[p])
          /\ id \in Nat /\ id >= COM_NUM_KEYWORDS /\ DOMAIN vec = DOMAIN attr_set
      BY <2>5, <3>1
    <3> HIDE DEF vec, id
    <3> QED
      BY <2>0, <3>1, <3>2, <3>3, WithItemKeywords
  <2>7. ASSUME NEW a \in Names, DeleteDataitem(a), ~Halt
        PROVE  last_id' >= COM_NUM_KEYWORDS /\ \A p \in Panes' : HoldsKeywords(attr_set'[p])
    <3>1. /\ attr_set' = DeletedFromPanes(attr_map[a]) /\ attr_map[a] # NULL
          /\ last_id' = LastIdWithout(a) /\ Panes' = Panes
      BY <2>7 DEF DeleteDataitem, Panes
    <3> QED
      BY <2>5, <3>1
  <2>8. ASSUME NEW k \in COM_NUM_KEYWORDS..MaxId, NEW p \in Panes
        PROVE  HoldsKeywords(Resize(attr_set[p], k))
    <3>1. attr_set[p] \in AttrSet /\ HoldsKeywords(attr_set[p]) /\ k \in 0..MaxId
      BY <2>0
    <3>2. /\ Resize(attr_set[p], k).size = k
          /\ \A i \in Index : Resize(attr_set[p], k).slot[i] = IF i < k THEN attr_set[p].slot[i] ELSE NULL
      BY <3>1, ResizeType
    <3> QED
      BY <2>0, <3>1, <3>2 DEF HoldsKeywords, Index
  <2>9. CASE DeleteData
    <3>1. /\ attr_set' = [p \in DOMAIN attr_set |->
                IF p \in Panes THEN Resize(attr_set[p], COM_NUM_KEYWORDS) ELSE attr_set[p]]
          /\ Panes' = Panes /\ last_id' >= COM_NUM_KEYWORDS
      BY <2>0, <2>9 DEF DeleteData, Panes
    <3> QED
      BY <2>0, <2>8, <3>1
  <2>10. ASSUME NEW p \in PaneIds, NewPane(p)
         PROVE  last_id' >= COM_NUM_KEYWORDS /\ \A q \in Panes' : HoldsKeywords(attr_set'[q])
    <3>1. CopyOf(attr_set[Dummy]) = attr_set[Dummy]
      BY CopyOfDummy DEF IInv
    <3> QED
      BY <2>0, <2>10, <3>1 DEF NewPane, Panes
  <2>11. ASSUME NEW Q \in SUBSET pane_map, DeletePanes(Q)
         PROVE  last_id' >= COM_NUM_KEYWORDS /\ \A q \in Panes' : HoldsKeywords(attr_set'[q])
    BY <2>0, <2>11 DEF DeletePanes, Panes
  <2>12. CASE InitDone
    <3>1. PICK k \in KeywordTop..MaxId :
         /\ IsMaxId(k)
         /\ last_id' = CompactedLastId(k)
         /\ attr_set' = [p \in DOMAIN attr_set |->
                           IF p \in pane_map THEN Resize(attr_set[p], CompactedLastId(k))
                           ELSE attr_set[p]]
         /\ status' = "NOCHANGE"
         /\ UNCHANGED <<attr_map, pane_map, halted>>
      BY <2>12 DEF InitDone
    <3>2. CASE CompactedLastId(k) >= COM_NUM_KEYWORDS
      <4>1. CompactedLastId(k) \in COM_NUM_KEYWORDS..MaxId
        BY <2>0, <3>2 DEF CompactedLastId
      <4> HIDE DEF CompactedLastId
      <4> QED
        BY <2>0, <2>8, <3>1, <3>2, <4>1 DEF Panes
    <3>3. CASE ~(CompactedLastId(k) >= COM_NUM_KEYWORDS)
      <4>1. status = "SHRUNK" /\ k = COM_ALL /\ last_id' = COM_ALL
        BY <2>0, <3>1, <3>3 DEF CompactedLastId
      <4>2. ASSUME NEW a \in Registered PROVE FALSE
        <5>1. a \in Names /\ attr_map[a] # NULL /\ k >= attr_map[a] + Extent(Ncomp(attr_map, attr_set, a))
          BY <3>1 DEF IsMaxId, Registered, Ncomp, ItemOf
        <5> QED
          BY <4>1, <5>1, ItemsAboveKeywords
      <4> QED
        BY <3>1, <4>1, <4>2 DEF EmptiedOutOfOrder
    <3> QED
      BY <3>2, <3>3
  <2> QED
    BY <2>2, <2>3, <2>4, <2>6, <2>7, <2>9, <2>10, <2>11, <2>12 DEF Next
<1> QED
  BY <1>1, RegistryInductive, PTL DEF Spec, KeywordsKept

\* Pane::dataitems lists exactly the registered items: this needs that every
\* slot above the keywords belongs to an item.
THEOREM RegistryOnlyRegisteredListed == Spec => []OnlyRegisteredListed
<1>1. ASSUME IInv PROVE OnlyRegisteredListed
  <2> SUFFICES ASSUME NEW p \in Panes
               PROVE  Dataitems(attr_set[p]) = {attr_map[a] : a \in Registered} \ 0..COM_ALL
    BY DEF OnlyRegisteredListed
  <2> DEFINE s == attr_set[p]
  <2>1. Consistent(attr_map, attr_set, Panes, last_id) /\ GoodSet(attr_map, attr_set, s)
        /\ s.size \in Nat /\ s.size <= MaxId
    BY <1>1, RegistryAssumption DEF IInv, Consistent, GoodSet, AttrSet
  <2>2. ASSUME NEW i \in Dataitems(s)
        PROVE  i \in {attr_map[a] : a \in Registered} \ 0..COM_ALL
    <3>1. i >= COM_NUM_KEYWORDS /\ i < s.size /\ i \in Int /\ IsItem(s.slot[i]) /\ ~Covered(s, i)
      BY <2>1 DEF Dataitems
    <3>2. i \in Index
      BY <2>1, <3>1, RegistryAssumption DEF Index
    <3>3. PICK b \in Names :
              /\ attr_map[b] # NULL /\ attr_map[b] \in Nat /\ attr_map[b] >= COM_NUM_KEYWORDS
              /\ Ncomp(attr_map, attr_set, b) \in Nat \ {0}
              /\ attr_map[b] <= i
              /\ i \in SlotRange(attr_map[b], Ncomp(attr_map, attr_set, b))
              /\ s.slot[attr_map[b]] =
                    ItemSlot(b, attr_map[b], Ncomp(attr_map, attr_set, b), attr_map[b])
      BY <2>1, <3>1, <3>2, GoodSlot DEF IsItem
    <3>4. CASE attr_map[b] = i
      BY <3>1, <3>3, <3>4 DEF Registered
    <3>5. CASE attr_map[b] # i
      <4>1. ItemSlot(b, attr_map[b], Ncomp(attr_map, attr_set, b), attr_map[b]) \in DataItem
        BY <3>3, ItemSlotType
      <4>2. IsItem(s.slot[attr_map[b]])
        BY <3>3, <4>1, PointersAssumption DEF IsItem
      <4>3. s.slot[attr_map[b]].comp = 0 /\ s.slot[attr_map[b]].ncomp = Ncomp(attr_map, attr_set, b)
        BY <3>3 DEF ItemSlot
      <4>4. attr_map[b] \in COM_NUM_KEYWORDS..(i - 1)
        BY <3>1, <3>3, <3>5
      <4> QED
        BY <3>1, <3>3, <4>2, <4>3, <4>4 DEF Covered
    <3> QED
      BY <3>4, <3>5
  <2>3. ASSUME NEW a \in Registered, attr_map[a] \notin 0..COM_ALL
        PROVE  attr_map[a] \in Dataitems(s)
    <3> DEFINE id == attr_map[a]
               n == Ncomp(attr_map, attr_set, a)
    <3>1. /\ a \in Names /\ id # NULL /\ id \in Nat /\ id \in Index /\ id >= COM_NUM_KEYWORDS
          /\ n \in Nat \ {0} /\ Holds(s, a, id, n)
      BY <2>1, <2>3, RegistryAssumption DEF Registered, Consistent, GoodSet, Index
    <3>2. Extent(n) \in Nat /\ Extent(n) >= 1 /\ id + Extent(n) <= s.size
      BY <3>1, ExtentFact DEF Holds
    <3>3. s.slot[id] = ItemSlot(a, id, n, id) /\ ItemSlot(a, id, n, id) \in DataItem
      BY <3>1, <3>2, ItemSlotType DEF Holds, SlotRange
    <3>4. IsItem(s.slot[id])
      BY <3>3, PointersAssumption DEF IsItem
    <3>5. ASSUME Covered(s, id) PROVE FALSE
      <4>1. PICK j \in COM_NUM_KEYWORDS..(id - 1) :
               IsItem(s.slot[j]) /\ s.slot[j].comp = 0 /\ id \in SlotRange(j, s.slot[j].ncomp)
        BY <3>5 DEF Covered
      <4>2. j \in Index /\ j >= COM_NUM_KEYWORDS /\ j < id
        BY <3>1, RegistryAssumption DEF Index
      <4>3. PICK b \in Names :
              /\ attr_map[b] # NULL /\ attr_map[b] \in Nat
              /\ Ncomp(attr_map, attr_set, b) \in Nat \ {0}
              /\ Extent(Ncomp(attr_map, attr_set, b)) \in Nat
              /\ attr_map[b] <= j
              /\ s.slot[j] = ItemSlot(b, attr_map[b], Ncomp(attr_map, attr_set, b), j)
        BY <2>1, <4>1, <4>2, GoodSlot DEF IsItem
      <4>4. attr_map[b] = j
        <5>1. s.slot[j].comp = j - attr_map[b]
          BY <4>3 DEF ItemSlot
        <5> QED
          BY <4>1, <4>2, <4>3, <5>1 DEF Index
      <4>5. s.slot[j].ncomp = Ncomp(attr_map, attr_set, b)
        BY <4>3, <4>4 DEF ItemSlot
      <4>6. id < End(attr_map, attr_set, b) /\ b # a
        BY <3>1, <4>1, <4>2, <4>3, <4>4, <4>5 DEF SlotRange, End
      <4>7. End(attr_map, attr_set, b) <= id \/ End(attr_map, attr_set, a) <= attr_map[b]
        BY <2>1, <3>1, <4>3, <4>6 DEF Consistent
      <4>8. End(attr_map, attr_set, b) \in Nat /\ End(attr_map, attr_set, a) = id + Extent(n)
        BY <4>3 DEF End
      <4> QED
        BY <3>1, <3>2, <4>2, <4>4, <4>6, <4>7, <4>8
    <3> QED
      BY <2>1, <3>1, <3>2, <3>4, <3>5 DEF Dataitems
  <2> QED
    BY <2>2, <2>3
<1> QED
  BY <1>1, RegistryInductive, PTL

------------------------------------------------------------------------------
(* The ids of items that stay.                                             *)

\* new_dataitem that grows an item constructs it with the components asked for.
LEMMA GrownItem ==
    ASSUME IInv, NEW a \in Names, NEW n \in 1..MaxComp, GrowDataitem(a, n), ~Halt
    PROVE  ItemOf(a)'.ncomp = n
<1> DEFINE vec == DeletedFromPanes(attr_map[a])
           id == LastIdWithout(a)
<1>1. /\ n \in Nat \ {0} /\ attr_map[a] # NULL /\ id + Extent(n) <= MaxId
      /\ attr_map[a] >= COM_NUM_KEYWORDS
  BY RegistryAssumption DEF GrowDataitem
<1>2. /\ attr_map' = [attr_map EXCEPT ![a] = id]
      /\ attr_set' = [p \in DOMAIN vec |->
                        IF p \in Panes THEN WithItem(vec[p], a, id, n) ELSE vec[p]]
  BY ConstructFact DEF GrowDataitem
<1>3. Consistent([attr_map EXCEPT ![a] = NULL], vec, Panes, id)
  BY <1>1, DeleteKeeps, WithoutFact DEF IInv, DeletedFromPanes
<1>4. attr_map \in [Names -> Index \cup {NULL}]
  BY DEF IInv, Consistent
<1> HIDE DEF vec, id
<1>5. vec[Dummy] \in AttrSet /\ Dummy \in DOMAIN vec /\ Dummy \in Panes /\ id \in Nat
  BY <1>3, RegistryAssumption DEF Consistent
<1>6. Extent(n) \in Nat /\ Extent(n) >= 1
  BY <1>1, ExtentFact
<1>7. id \in Index
  BY <1>1, <1>5, <1>6, RegistryAssumption DEF Index
<1>8. WithItem(vec[Dummy], a, id, n).slot[id] = ItemSlot(a, id, n, id)
  BY <1>1, <1>5, <1>6, <1>7, WithItemType
<1>9. attr_map'[a] = id /\ attr_set'[Dummy] = WithItem(vec[Dummy], a, id, n)
  BY <1>2, <1>4, <1>5
<1>10. ItemSlot(a, id, n, id).ncomp = n
  BY DEF ItemSlot
<1> QED
  BY <1>8, <1>9, <1>10 DEF ItemOf

\* The id of an item that stays registered changes only when new_dataitem grows
\* it: neither delete_dataitem of others nor the compaction of init_done moves it.
THEOREM RegistryIdStable == Spec => IdStable
<1>1. IInv /\ [Next]_vars =>
        [\A a \in Names :
           (attr_map[a] # NULL /\ attr_map'[a] # NULL /\ attr_map'[a] # attr_map[a])
           => ItemOf(a)'.ncomp > ItemOf(a).ncomp]_vars
  <2> SUFFICES ASSUME IInv, Next, NEW a \in Names,
                      attr_map[a] # NULL, attr_map'[a] # NULL, attr_map'[a] # attr_map[a]
               PROVE  ItemOf(a)'.ncomp > ItemOf(a).ncomp
    OBVIOUS
  <2>0. attr_map \in [Names -> Index \cup {NULL}]
    BY DEF IInv, Consistent
  <2>1. ~Halt /\ attr_map' # attr_map
    BY DEF Halt
  <2>2. ASSUME NEW b \in Names, NEW n \in 1..MaxComp, NewDataitem(b, n) PROVE FALSE
    BY <2>0, <2>1, <2>2, ConstructFact DEF NewDataitem
  <2>3. ASSUME NEW b \in Names, RedefineDataitem(b, ItemOf(b).ncomp) PROVE FALSE
    BY <2>0, <2>1, <2>3, ConstructFact DEF RedefineDataitem
  <2>4. ASSUME NEW b \in Names, NEW n \in 1..MaxComp, GrowDataitem(b, n)
        PROVE  ItemOf(a)'.ncomp > ItemOf(a).ncomp
    <3>1. attr_map' = [attr_map EXCEPT ![b] = LastIdWithout(b)]
      BY <2>1, <2>4, ConstructFact DEF GrowDataitem
    <3>2. b = a
      BY <2>0, <3>1
    <3>3. n > ItemOf(a).ncomp
      BY <2>4, <3>2 DEF GrowDataitem
    <3> QED
      BY <2>1, <2>4, <3>2, <3>3, GrownItem
  <2>5. ASSUME NEW b \in Names, DeleteDataitem(b) PROVE FALSE
    BY <2>0, <2>1, <2>5 DEF DeleteDataitem
  <2>6. ~DeleteData
    BY <2>1 DEF DeleteData
  <2>7. ASSUME NEW p \in PaneIds, NewPane(p) PROVE FALSE
    BY <2>1, <2>7 DEF NewPane
  <2>8. ASSUME NEW Q, DeletePanes(Q) PROVE FALSE
    BY <2>1, <2>8 DEF DeletePanes
  <2>9. ~InitDone
    BY <2>1 DEF InitDone
  <2> QED
    BY <2>2, <2>3, <2>4, <2>5, <2>6, <2>7, <2>8, <2>9 DEF Next
<1> QED
  BY <1>1, RegistryInductive, PTL DEF Spec, IdStable
=============================================================================
