---------------------------- MODULE ComBaseProofs -----------------------------
(***************************************************************************)
(* Proofs about COM_base: the tables of the maps agree, handles lead where *)
(* they should, no library is closed under its own code and the profile is *)
(* exact, for any number of windows, libraries, handles and nested calls.  *)
(***************************************************************************)
EXTENDS ComBase, SequenceTheorems, FiniteSetTheorems, WellFoundedInduction, TLAPS

------------------------------------------------------------------------------
(* COM_map *)

Index(Names) == UNION {[D -> Nat] : D \in SUBSET Names}
IsTable(m, Names, Objs) ==
    /\ m \in [i2o : Seq(Objs), names : Seq(Names), n2i : Index(Names)]
    /\ Agree(m)

LEMMA IndexDef ==
    ASSUME NEW Names, NEW f
    PROVE  f \in Index(Names) <=> DOMAIN f \subseteq Names /\ f \in [DOMAIN f -> Nat]
  BY DEF Index

LEMMA HasName ==
    ASSUME NEW Names, NEW Objs, NEW m, IsTable(m, Names, Objs), NEW x
    PROVE  /\ Has(m, x) <=> x \in DOMAIN m.n2i
           /\ Has(m, x) => /\ x \in Names /\ find(m, x) = m.n2i[x] /\ find(m, x) \in Nat
                           /\ find(m, x) + 1 \in 1..Len(m.i2o) /\ m.names[find(m, x) + 1] = x
                           /\ Object(m, x) \in Objs
           /\ ~Has(m, x) => find(m, x) = -1
<1> USE IndexDef DEF IsTable
<1>1. m.n2i \in [DOMAIN m.n2i -> Nat] /\ DOMAIN m.n2i \subseteq Names
  OBVIOUS
<1>2. CASE x \in DOMAIN m.n2i
  <2>1. /\ find(m, x) = m.n2i[x] /\ find(m, x) \in Nat /\ find(m, x) + 1 \in 1..Len(m.i2o)
        /\ m.names[find(m, x) + 1] = x
    BY <1>1, <1>2 DEF find, Agree
  <2>2. Object(m, x) \in Objs
    BY <2>1 DEF Object
  <2> QED
    BY <1>1, <1>2, <2>1, <2>2 DEF Has
<1>3. CASE x \notin DOMAIN m.n2i
  BY <1>3 DEF find, Has
<1> QED
  BY <1>2, <1>3

\* No two names lead to one index.
LEMMA IndexInjective ==
    ASSUME NEW Names, NEW Objs, NEW m, IsTable(m, Names, Objs), NEW x, NEW y,
           Has(m, x), Has(m, y), find(m, x) = find(m, y)
    PROVE  x = y
  BY HasName

LEMMA EmptyTable ==
    ASSUME NEW Names, NEW Objs
    PROVE  IsTable(EmptyMap, Names, Objs) /\ DOMAIN EmptyMap.n2i = {}
<1>1. <<>> \in Seq(Nat) /\ DOMAIN <<>> = {} /\ <<>> \in [{} -> Nat]
  OBVIOUS
<1>2. EmptyMap.n2i \in Index(Names) /\ DOMAIN EmptyMap.n2i = {}
  BY <1>1, IndexDef DEF EmptyMap
<1> QED
  BY <1>2 DEF IsTable, EmptyMap, Agree

\* What add_object does with a new name: the old ones are where they were.
LEMMA AddNew ==
    ASSUME NEW Names, NEW Objs, NEW m, IsTable(m, Names, Objs),
           NEW name \in Names, NEW t \in Objs, ~Has(m, name)
    PROVE  LET r == add_object(m, name, t)
           IN /\ IsTable(r, Names, Objs)
              /\ \A x : Has(r, x) <=> Has(m, x) \/ x = name
              /\ \A x : Has(m, x) => find(r, x) = find(m, x) /\ Object(r, x) = Object(m, x)
              /\ find(r, name) = Len(m.i2o) /\ Object(r, name) = t
<1> DEFINE r == add_object(m, name, t)
           f == [x \in DOMAIN m.n2i \cup {name} |-> IF x = name THEN Len(m.i2o) ELSE m.n2i[x]]
           n == Len(m.i2o)
<1>1. find(m, name) = -1 /\ name \notin DOMAIN m.n2i
  BY HasName
<1>2. /\ m.i2o \in Seq(Objs) /\ m.names \in Seq(Names) /\ Len(m.names) = n /\ n \in Nat
      /\ m.n2i \in [DOMAIN m.n2i -> Nat] /\ DOMAIN m.n2i \subseteq Names
  BY IndexDef DEF IsTable, Agree
<1>3. r = [i2o |-> Append(m.i2o, t), names |-> Append(m.names, name), n2i |-> f]
  BY <1>1 DEF add_object
<1> HIDE DEF r
<1>4. /\ r.i2o = Append(m.i2o, t) /\ r.names = Append(m.names, name) /\ r.n2i = f
      /\ r.i2o \in Seq(Objs) /\ r.names \in Seq(Names)
      /\ Len(r.i2o) = n + 1 /\ Len(r.names) = n + 1
  BY <1>2, <1>3
<1>5. r.n2i \in Index(Names)
  BY <1>2, <1>4, IndexDef
<1>6. /\ \A p \in 1..n : r.i2o[p] = m.i2o[p] /\ r.names[p] = m.names[p]
      /\ r.i2o[n + 1] = t /\ r.names[n + 1] = name
  BY <1>2, <1>4
<1>7. /\ DOMAIN r.n2i = DOMAIN m.n2i \cup {name} /\ r.n2i[name] = n
      /\ \A x \in DOMAIN m.n2i : r.n2i[x] = m.n2i[x]
  BY <1>1, <1>4
<1>8. Agree(r)
  <2>1. \A x \in DOMAIN m.n2i : m.n2i[x] + 1 \in 1..n /\ m.names[m.n2i[x] + 1] = x
    BY <1>2 DEF IsTable, Agree
  <2>2. \A x \in DOMAIN r.n2i : r.n2i[x] + 1 \in DOMAIN r.names /\ r.names[r.n2i[x] + 1] = x
    <3>1. \A x \in DOMAIN m.n2i : r.n2i[x] + 1 \in 1..n /\ r.names[r.n2i[x] + 1] = x
      BY <1>6, <1>7, <2>1
    <3>2. r.n2i[name] + 1 = n + 1 /\ r.names[n + 1] = name
      BY <1>6, <1>7
    <3>3. DOMAIN r.names = 1..(n + 1)
      BY <1>4
    <3> QED
      BY <1>2, <1>7, <3>1, <3>2, <3>3
  <2>3. \A p \in 1..n : m.names[p] \in DOMAIN m.n2i /\ m.n2i[m.names[p]] = p - 1
    BY <1>2 DEF IsTable, Agree, find
  <2>4. \A p \in 1..n : find(r, r.names[p]) = p - 1
    BY <1>6, <1>7, <2>3 DEF find
  <2>5. find(r, r.names[n + 1]) = n
    BY <1>6, <1>7 DEF find
  <2>6. \A p \in 1..(n + 1) : find(r, r.names[p]) = p - 1
    BY <1>2, <2>4, <2>5
  <2>7. Len(r.i2o) = Len(r.names) /\ DOMAIN r.names = 1..(n + 1)
    BY <1>4
  <2> HIDE DEF n
  <2> QED
    BY <2>2, <2>6, <2>7 DEF Agree
<1>9. IsTable(r, Names, Objs)
  BY <1>3, <1>4, <1>5, <1>8 DEF IsTable
<1>10. \A x : Has(r, x) <=> Has(m, x) \/ x = name
  BY <1>7, <1>9, HasName
<1>11. \A x : Has(m, x) => find(r, x) = find(m, x) /\ Object(r, x) = Object(m, x)
  <2> SUFFICES ASSUME NEW x, Has(m, x) PROVE find(r, x) = find(m, x) /\ Object(r, x) = Object(m, x)
    OBVIOUS
  <2>1. x \in DOMAIN m.n2i /\ find(m, x) = m.n2i[x] /\ find(m, x) + 1 \in 1..n
    BY HasName
  <2>2. find(r, x) = find(m, x)
    BY <1>7, <2>1 DEF find
  <2> QED
    BY <1>6, <2>1, <2>2 DEF Object
<1>12. find(r, name) = n /\ Object(r, name) = t
  BY <1>6, <1>7 DEF find, Object
<1> QED
  BY <1>9, <1>10, <1>11, <1>12 DEF r

\* What the assignment to an object that is there does.
LEMMA SetObject ==
    ASSUME NEW Names, NEW Objs, NEW m, IsTable(m, Names, Objs),
           NEW name, NEW t \in Objs, Has(m, name)
    PROVE  LET r == Recorded(m, name, t)
           IN /\ IsTable(r, Names, Objs)
              /\ \A x : (Has(r, x) <=> Has(m, x)) /\ find(r, x) = find(m, x)
              /\ \A x : Has(m, x) /\ x # name => Object(r, x) = Object(m, x)
              /\ Object(r, name) = t
<1> DEFINE i == find(m, name)
           r == [m EXCEPT !.i2o[i + 1] = t]
<1>1. i \in Nat /\ i + 1 \in 1..Len(m.i2o)
  BY HasName
<1>2. m \in [i2o : Seq(Objs), names : Seq(Names), n2i : Index(Names)]
  BY DEF IsTable
<1>0. Recorded(m, name, t) = r
  BY DEF Recorded
<1> HIDE DEF i
<1>3. /\ r.names = m.names /\ r.n2i = m.n2i /\ r.i2o = [m.i2o EXCEPT ![i + 1] = t]
      /\ r = [i2o |-> r.i2o, names |-> m.names, n2i |-> m.n2i]
  <2> DEFINE o == [m.i2o EXCEPT ![i + 1] = t]
  <2>1. r = [m EXCEPT !.i2o = o]
    OBVIOUS
  <2> HIDE DEF o, r
  <2>2. r = [i2o |-> o, names |-> m.names, n2i |-> m.n2i]
    BY <1>2, <2>1
  <2> QED
    BY <2>2 DEF o
<1> HIDE DEF r
<1>4. /\ r.i2o \in Seq(Objs) /\ Len(r.i2o) = Len(m.i2o) /\ r.i2o[i + 1] = t
      /\ \A p \in 1..Len(m.i2o) : p # i + 1 => r.i2o[p] = m.i2o[p]
  BY <1>1, <1>2, <1>3
<1>5. \A x : find(r, x) = find(m, x)
  BY <1>3 DEF find
<1>6. Agree(r)
  BY <1>3, <1>4, <1>5 DEF IsTable, Agree
<1>7. IsTable(r, Names, Objs)
  BY <1>2, <1>3, <1>4, <1>6 DEF IsTable
<1>8. \A x : Has(m, x) /\ x # name => Object(r, x) = Object(m, x)
  <2> SUFFICES ASSUME NEW x, Has(m, x), x # name PROVE Object(r, x) = Object(m, x)
    OBVIOUS
  <2>1. find(m, x) \in Nat /\ find(m, x) + 1 \in 1..Len(m.i2o) /\ find(m, x) # i
    BY HasName, IndexInjective DEF i
  <2> QED
    BY <1>1, <1>4, <1>5, <2>1 DEF Object
<1>9. Object(r, name) = t
  BY <1>4, <1>5 DEF Object, i
<1> QED
  BY <1>0, <1>5, <1>7, <1>8, <1>9 DEF Has

\* add_object with a name whose index is not 0
LEMMA AddOld ==
    ASSUME NEW Names, NEW Objs, NEW m, IsTable(m, Names, Objs),
           NEW name, NEW t \in Objs, find(m, name) > 0
    PROVE  LET r == add_object(m, name, t)
           IN /\ IsTable(r, Names, Objs)
              /\ \A x : (Has(r, x) <=> Has(m, x)) /\ find(r, x) = find(m, x)
              /\ \A x : Has(m, x) /\ x # name => Object(r, x) = Object(m, x)
              /\ Object(r, name) = t
<1>1. Has(m, name)
  BY HasName
<1>2. add_object(m, name, t) = Recorded(m, name, t)
  BY DEF add_object, Recorded
<1> QED
  BY <1>1, <1>2, SetObject

LEMMA EraseFacts ==
    ASSUME NEW S, NEW s \in Seq(S), NEW p \in 1..Len(s)
    PROVE  /\ Erase(s, p) \in Seq(S)
           /\ Len(Erase(s, p)) = Len(s) - 1
           /\ \A q \in 1..(Len(s) - 1) : Erase(s, p)[q] = IF q < p THEN s[q] ELSE s[q + 1]
<1> DEFINE u == SubSeq(s, 1, p - 1)
           v == SubSeq(s, p + 1, Len(s))
<1>1. /\ u \in Seq(S) /\ Len(u) = p - 1 /\ \A q \in 1..(p - 1) : u[q] = s[q]
  OBVIOUS
<1>2. /\ v \in Seq(S) /\ Len(v) = Len(s) - p /\ \A q \in 1..(Len(s) - p) : v[q] = s[p + q]
  OBVIOUS
<1>3. Erase(s, p) = u \o v
  BY DEF Erase
<1> HIDE DEF u, v
<1>4. u \o v \in Seq(S) /\ Len(u \o v) = Len(s) - 1
  BY <1>1, <1>2
<1>5. \A q \in 1..(Len(s) - 1) : (u \o v)[q] = IF q < p THEN s[q] ELSE s[q + 1]
  <2> SUFFICES ASSUME NEW q \in 1..(Len(s) - 1)
               PROVE  (u \o v)[q] = IF q < p THEN s[q] ELSE s[q + 1]
    OBVIOUS
  <2>1. CASE q < p
    BY <1>1, <1>2, <2>1
  <2>2. CASE ~(q < p)
    <3>1. (u \o v)[q] = v[q - (p - 1)]
      BY <1>1, <1>2, <2>2
    <3>2. q - (p - 1) \in 1..(Len(s) - p) /\ p + (q - (p - 1)) = q + 1
      BY <2>2
    <3> QED
      BY <1>2, <2>2, <3>1, <3>2
  <2> QED
    BY <2>1, <2>2
<1> QED
  BY <1>3, <1>4, <1>5

\* What remove_object does: the objects behind the removed one move down, and
\* every other name still leads to its object.
LEMMA RemoveObject ==
    ASSUME NEW Names, NEW Objs, NEW m, IsTable(m, Names, Objs), NEW name, Has(m, name)
    PROVE  LET r == remove_object(m, name)
           IN /\ IsTable(r, Names, Objs)
              /\ \A x : Has(r, x) <=> Has(m, x) /\ x # name
              /\ \A x : Has(r, x) => Object(r, x) = Object(m, x)
<1> DEFINE i == find(m, name)
           n == Len(m.i2o)
           f == [x \in DOMAIN m.n2i \ {name} |-> IF m.n2i[x] > i THEN m.n2i[x] - 1 ELSE m.n2i[x]]
           r == remove_object(m, name)
<1>1. i \in Nat /\ i + 1 \in 1..n /\ m.names[i + 1] = name /\ name \in DOMAIN m.n2i /\ m.n2i[name] = i
  BY HasName
<1>2. /\ m.i2o \in Seq(Objs) /\ m.names \in Seq(Names) /\ Len(m.names) = n /\ n \in Nat
      /\ m.n2i \in [DOMAIN m.n2i -> Nat] /\ DOMAIN m.n2i \subseteq Names
  BY IndexDef DEF IsTable, Agree
<1>3. r = [i2o |-> Erase(m.i2o, i + 1), names |-> Erase(m.names, i + 1), n2i |-> f]
  BY DEF remove_object
<1> HIDE DEF r, i
<1>4. /\ r.i2o \in Seq(Objs) /\ r.names \in Seq(Names)
      /\ Len(r.i2o) = n - 1 /\ Len(r.names) = n - 1
  BY <1>1, <1>2, <1>3, EraseFacts
<1>5. \A q \in 1..(n - 1) : /\ r.i2o[q] = IF q < i + 1 THEN m.i2o[q] ELSE m.i2o[q + 1]
                            /\ r.names[q] = IF q < i + 1 THEN m.names[q] ELSE m.names[q + 1]
  <2>1. r.i2o = Erase(m.i2o, i + 1) /\ r.names = Erase(m.names, i + 1)
    BY <1>3
  <2>2. i + 1 \in 1..Len(m.i2o) /\ i + 1 \in 1..Len(m.names)
    BY <1>1, <1>2
  <2>3. \A q \in 1..(Len(m.i2o) - 1) : r.i2o[q] = IF q < i + 1 THEN m.i2o[q] ELSE m.i2o[q + 1]
    BY <1>2, <2>1, <2>2, EraseFacts
  <2>4. \A q \in 1..(Len(m.names) - 1) : r.names[q] = IF q < i + 1 THEN m.names[q] ELSE m.names[q + 1]
    BY <1>2, <2>1, <2>2, EraseFacts
  <2> QED
    BY <1>2, <2>3, <2>4
<1>6. \A x \in DOMAIN m.n2i : /\ m.n2i[x] \in Nat /\ m.n2i[x] + 1 \in 1..n
                              /\ m.names[m.n2i[x] + 1] = x
  BY <1>2 DEF IsTable, Agree
<1>7. ASSUME NEW x \in DOMAIN m.n2i, x # name PROVE m.n2i[x] # i
  <2>1. m.names[m.n2i[x] + 1] = x
    BY <1>6
  <2> QED
    BY <1>1, <1>7, <2>1
<1>8. /\ DOMAIN r.n2i = DOMAIN m.n2i \ {name}
      /\ \A x \in DOMAIN m.n2i : x # name =>
            r.n2i[x] = IF m.n2i[x] > i THEN m.n2i[x] - 1 ELSE m.n2i[x]
  BY <1>3
<1>9. \A x \in DOMAIN m.n2i : x # name =>
         /\ r.n2i[x] \in Nat /\ r.n2i[x] + 1 \in 1..(n - 1)
         /\ r.names[r.n2i[x] + 1] = x /\ r.i2o[r.n2i[x] + 1] = m.i2o[m.n2i[x] + 1]
  <2> SUFFICES ASSUME NEW x \in DOMAIN m.n2i, x # name
               PROVE  /\ r.n2i[x] \in Nat /\ r.n2i[x] + 1 \in 1..(n - 1)
                      /\ r.names[r.n2i[x] + 1] = x /\ r.i2o[r.n2i[x] + 1] = m.i2o[m.n2i[x] + 1]
    OBVIOUS
  <2> DEFINE j == m.n2i[x]
  <2>1. j \in Nat /\ j + 1 \in 1..n /\ j # i /\ m.names[j + 1] = x
    BY <1>6, <1>7
  <2>2. r.n2i[x] = IF j > i THEN j - 1 ELSE j
    BY <1>8
  <2> HIDE DEF j, n
  <2>3. CASE j > i
    <3>1. r.n2i[x] = j - 1 /\ j \in 1..(n - 1) /\ ~(j < i + 1) /\ (j - 1) + 1 = j
      BY <1>1, <1>2, <2>1, <2>2, <2>3
    <3>2. r.names[j] = m.names[j + 1] /\ r.i2o[j] = m.i2o[j + 1]
      BY <1>5, <3>1
    <3> QED
      BY <2>1, <3>1, <3>2 DEF j
  <2>4. CASE j < i
    <3>1. r.n2i[x] = j /\ j + 1 \in 1..(n - 1) /\ j + 1 < i + 1
      BY <1>1, <1>2, <2>1, <2>2, <2>4
    <3>2. r.names[j + 1] = m.names[j + 1] /\ r.i2o[j + 1] = m.i2o[j + 1]
      BY <1>5, <3>1
    <3> QED
      BY <2>1, <3>1, <3>2 DEF j
  <2> QED
    BY <1>1, <2>1, <2>3, <2>4
<1>10. r.n2i \in Index(Names)
  <2>1. DOMAIN f = DOMAIN m.n2i \ {name} /\ r.n2i = f
    BY <1>3
  <2>2. r.n2i = [x \in DOMAIN m.n2i \ {name} |-> r.n2i[x]]
    BY <2>1
  <2>3. r.n2i \in [DOMAIN m.n2i \ {name} -> Nat]
    BY <1>9, <2>2
  <2> QED
    BY <1>2, <1>8, <2>3, IndexDef
<1>11. Agree(r)
  <2>1. \A p \in 1..n : m.names[p] \in DOMAIN m.n2i /\ m.n2i[m.names[p]] = p - 1
    BY <1>2 DEF IsTable, Agree, find
  <2>2. ASSUME NEW q \in 1..(n - 1) PROVE find(r, r.names[q]) = q - 1
    <3> DEFINE p == IF q < i + 1 THEN q ELSE q + 1
    <3>1. p \in 1..n /\ p # i + 1 /\ r.names[q] = m.names[p]
      BY <1>1, <1>2, <1>5
    <3>2. m.names[p] \in DOMAIN m.n2i /\ m.n2i[m.names[p]] = p - 1
      BY <2>1, <3>1
    <3>3. m.names[p] # name
      BY <1>1, <3>1, <3>2
    <3>4. r.n2i[m.names[p]] = IF p - 1 > i THEN p - 2 ELSE p - 1
      BY <1>8, <3>1, <3>2, <3>3
    <3>5. r.n2i[m.names[p]] = q - 1
      BY <1>1, <1>2, <3>4
    <3> HIDE DEF p
    <3> QED
      BY <1>8, <3>1, <3>2, <3>3, <3>5 DEF find
  <2>3. DOMAIN r.names = 1..(n - 1) /\ Len(r.i2o) = Len(r.names)
    BY <1>4
  <2> HIDE DEF n, f
  <2> QED
    BY <1>8, <1>9, <2>2, <2>3 DEF Agree
<1>12. IsTable(r, Names, Objs)
  BY <1>3, <1>4, <1>10, <1>11 DEF IsTable
<1>13. \A x : Has(r, x) <=> Has(m, x) /\ x # name
  BY <1>8, <1>12, HasName
<1>14. \A x : Has(r, x) => Object(r, x) = Object(m, x)
  <2> SUFFICES ASSUME NEW x, Has(r, x) PROVE Object(r, x) = Object(m, x)
    OBVIOUS
  <2>1. x \in DOMAIN m.n2i /\ x # name /\ find(m, x) = m.n2i[x] /\ find(r, x) = r.n2i[x]
    BY <1>12, <1>13, HasName
  <2> QED
    BY <1>9, <2>1 DEF Object
<1> QED
  BY <1>12, <1>13, <1>14 DEF r

------------------------------------------------------------------------------
(* The inductive invariant *)

ItemNames == (Wins \X BOOLEAN) \cup {NoName}
FunctionNames == Wins \cup {NoName}

\* The library that made a window, by the tables m of windows and s of makers
Origin(m, s, w) == s[Object(m, w)]

\* The tables, and that index 0 of the tables of handles is of no client.
Tables ==
    /\ IsTable(module_map, Libs, SUBSET Wins)
    /\ IsTable(window_map, Wins, Objects)
    /\ IsTable(attr_map, ItemNames, Objects) /\ find(attr_map, NoName) = 0
    /\ IsTable(func_map, FunctionNames, Objects) /\ find(func_map, NoName) = 0
    /\ made \in Seq(Libs \cup {Client}) /\ Len(made) <= MaxObjects
    /\ fresh \subseteq Wins \cup (Wins \X BOOLEAN)
    /\ \A w : Has(window_map, w) => Object(window_map, w) \in 1..Len(made)

\* The calls under way, as deep as _depth says and begun in the past.
Calls ==
    /\ stack \in Seq([wf : Wins, lib : Libs, t : Nat])
    /\ depth = Len(stack)
    /\ \A k \in 1..Len(stack) : stack[k].t <= clock
    /\ timer \in Seq(Nat)
    /\ profile \in [on : BOOLEAN, self : [Wins -> Int], total : Nat]
    /\ clock \in 0..MaxClock

\* A function handle is asked for of a window that a library made.
Handles == FreshHandles /\ \A w \in Wins : w \in fresh => Origin(window_map, made, w) # Client

\* A window whose function is running is still that of the library it was
\* called in.
Running ==
    \A k \in 1..Len(stack) : Has(window_map, stack[k].wf) /\ Origin(window_map, made, stack[k].wf) = stack[k].lib

\* A window that is being unloaded is there and of that library, once, and none of
\* the calls under way when that began is of one of its functions.
UnloadFrame ==
    [lib : Libs, win : Wins, wname : Wins \cup {NoName}, dodl : BOOLEAN,
     obj : Nat, dangling : BOOLEAN, at : Nat]
Unloading ==
    /\ unloads \in Seq(UnloadFrame) /\ strayed \in BOOLEAN
    /\ \A j \in 1..Len(unloads) :
          /\ Has(window_map, unloads[j].win)
          /\ Origin(window_map, made, unloads[j].win) = unloads[j].lib
          /\ unloads[j].wname \in {unloads[j].win, NoName}
          /\ unloads[j].at <= Len(stack)
          /\ \A k \in 1..unloads[j].at : stack[k].wf # unloads[j].win
    /\ \A i, j \in 1..Len(unloads) : i # j => unloads[i].win # unloads[j].win

\* The first part of LibrariesOpen, from which the others follow
Open ==
    ~strayed => \A w : Has(window_map, w) /\ Origin(window_map, made, w) # Client =>
        /\ Has(module_map, Origin(window_map, made, w))
        /\ w \in Object(module_map, Origin(window_map, made, w))

BaseInv == Tables /\ Calls /\ Handles /\ Running /\ Unloading /\ Open

LEMMA BaseInit == Init => BaseInv
<1> SUFFICES ASSUME Init PROVE BaseInv
  OBVIOUS
<1>1. /\ IsTable(module_map, Libs, SUBSET Wins) /\ \A x : ~Has(module_map, x)
      /\ IsTable(window_map, Wins, Objects) /\ \A x : ~Has(window_map, x)
  BY EmptyTable, HasName DEF Init
<1>2. /\ IsTable(attr_map, ItemNames, Objects) /\ find(attr_map, NoName) = 0
      /\ IsTable(func_map, FunctionNames, Objects) /\ find(func_map, NoName) = 0
  <2>1. 0 \in Objects /\ NoName \in ItemNames /\ NoName \in FunctionNames /\ Len(EmptyMap.i2o) = 0
    BY BaseAssumption DEF Objects, ItemNames, FunctionNames, EmptyMap
  <2>2. /\ IsTable(EmptyMap, ItemNames, Objects) /\ IsTable(EmptyMap, FunctionNames, Objects)
        /\ ~Has(EmptyMap, NoName)
    BY EmptyTable, HasName
  <2>3. IsTable(HandleTable, ItemNames, Objects) /\ find(HandleTable, NoName) = 0
    BY <2>1, <2>2, AddNew DEF HandleTable
  <2>4. IsTable(HandleTable, FunctionNames, Objects)
    BY <2>1, <2>2, AddNew DEF HandleTable
  <2> QED
    BY <2>3, <2>4 DEF Init
<1>3. made = <<>> /\ fresh = {} /\ stack = <<>>
  BY DEF Init
<1>4. Tables
  BY <1>1, <1>2, <1>3, BaseAssumption DEF Tables
<1>5. Calls
  BY BaseAssumption DEF Calls, Init
<1>6. Handles
  BY <1>3 DEF Handles, FreshHandles
<1>7. Running /\ Unloading /\ Open
  <2>1. unloads = <<>> /\ strayed = FALSE
    BY DEF Init
  <2>2. 1..Len(unloads) = {} /\ 1..Len(stack) = {}
    BY <1>3, <2>1
  <2>3. \A w : ~Has(window_map, w)
    BY <1>1
  <2>4. Running
    BY <2>2 DEF Running
  <2>5. unloads \in Seq(UnloadFrame)
    BY <2>1
  <2>6. Unloading
    BY <2>1, <2>2, <2>5 DEF Unloading
  <2>7. Open
    BY <2>2, <2>3 DEF Open
  <2> QED
    BY <2>4, <2>6, <2>7
<1> QED
  BY <1>4, <1>5, <1>6, <1>7 DEF BaseInv

\* All of a sequence but its last element.
LEMMA FrontOf ==
    ASSUME NEW S, NEW s \in Seq(S), s # <<>>
    PROVE  /\ SubSeq(s, 1, Len(s) - 1) \in Seq(S) /\ Len(SubSeq(s, 1, Len(s) - 1)) = Len(s) - 1
           /\ \A j \in 1..(Len(s) - 1) : SubSeq(s, 1, Len(s) - 1)[j] = s[j]
<1>1. Len(s) \in Nat /\ Len(s) # 0
  OBVIOUS
<1>2. Len(s) - 1 \in Nat /\ Len(s) - 1 <= Len(s)
  BY <1>1
<1>3. \A k \in Nat : k <= Len(s) =>
        /\ SubSeq(s, 1, k) \in Seq(S) /\ Len(SubSeq(s, 1, k)) = k
        /\ \A j \in 1..k : SubSeq(s, 1, k)[j] = s[j]
  OBVIOUS
<1> QED
  BY <1>2, <1>3

\* What is left of the fresh names is of other windows.
LEMMA NotOfFacts ==
    ASSUME NEW w, NEW x, x \in NotOf(w)
    PROVE  x \in fresh /\ x # w /\ \A c \in BOOLEAN : x # <<w, c>>
  BY DEF NotOf

\* Fresh handles stay so when other windows keep their objects and libraries.
LEMMA HandlesKept ==
    ASSUME BaseInv, NEW w \in Wins, fresh' = NotOf(w), UNCHANGED <<attr_map, func_map>>,
           \A x : Has(window_map, x) /\ x # w =>
              /\ Has(window_map', x) /\ Object(window_map', x) = Object(window_map, x)
              /\ made'[Object(window_map, x)] = made[Object(window_map, x)]
    PROVE  Handles' /\ fresh' \subseteq Wins \cup (Wins \X BOOLEAN)
<1>1. \A v \in Wins, c \in BOOLEAN : <<v, c>> \in fresh' => <<v, c>> \in fresh /\ v # w
  BY NotOfFacts
<1>2. \A v \in Wins : v \in fresh' => v \in fresh /\ v # w
  BY NotOfFacts
<1>3. FreshHandles'
  BY <1>1, <1>2 DEF FreshHandles, BaseInv, Handles
<1>4. \A v \in Wins : v \in fresh' => Origin(window_map', made', v) # Client
  <2> SUFFICES ASSUME NEW v \in Wins, v \in fresh' PROVE Origin(window_map', made', v) # Client
    OBVIOUS
  <2>1. v \in fresh /\ v # w /\ Has(window_map, v) /\ Origin(window_map, made, v) # Client
    BY <1>2 DEF BaseInv, Handles, FreshHandles
  <2> QED
    BY <2>1 DEF Origin
<1>5. fresh' \subseteq fresh
  BY NotOfFacts
<1> QED
  BY <1>3, <1>4, <1>5 DEF Handles, BaseInv, Tables

LEMMA MakeWindowFacts ==
    ASSUME BaseInv, NEW w \in Wins, NEW lib \in Libs \cup {Client}, ~Has(window_map, w),
           MakeWindow(w, lib)
    PROVE  /\ IsTable(window_map', Wins, Objects)
           /\ \A x : Has(window_map', x) <=> Has(window_map, x) \/ x = w
           /\ \A x : Has(window_map, x) =>
                 /\ Object(window_map', x) = Object(window_map, x) /\ Origin(window_map', made', x) = Origin(window_map, made, x)
                 /\ made'[Object(window_map, x)] = made[Object(window_map, x)]
           /\ Origin(window_map', made', w) = lib
           /\ made' \in Seq(Libs \cup {Client}) /\ Len(made') <= MaxObjects
           /\ \A x : Has(window_map', x) => Object(window_map', x) \in 1..Len(made')
           /\ fresh' = NotOf(w)
<1> DEFINE n == Len(made)
<1>1. /\ n < MaxObjects /\ window_map' = add_object(window_map, w, n + 1)
      /\ made' = Append(made, lib) /\ fresh' = NotOf(w)
  BY DEF MakeWindow
<1>2. /\ IsTable(window_map, Wins, Objects) /\ made \in Seq(Libs \cup {Client}) /\ n \in Nat
      /\ \A x : Has(window_map, x) => Object(window_map, x) \in 1..n
  BY DEF BaseInv, Tables
<1>3. n + 1 \in Objects
  BY <1>1, <1>2, BaseAssumption DEF Objects
<1> HIDE DEF n
<1>4. /\ IsTable(window_map', Wins, Objects)
      /\ \A x : Has(window_map', x) <=> Has(window_map, x) \/ x = w
      /\ \A x : Has(window_map, x) => Object(window_map', x) = Object(window_map, x)
      /\ Object(window_map', w) = n + 1
  BY <1>1, <1>2, <1>3, AddNew
<1>5. /\ made' \in Seq(Libs \cup {Client}) /\ Len(made') = n + 1 /\ made'[n + 1] = lib
      /\ \A p \in 1..n : made'[p] = made[p]
  BY <1>1, <1>2 DEF n
<1>6. Origin(window_map', made', w) = lib
  BY <1>4, <1>5 DEF Origin
<1>7. \A x : Has(window_map, x) => Origin(window_map', made', x) = Origin(window_map, made, x) /\ made'[Object(window_map, x)] = made[Object(window_map, x)]
  BY <1>2, <1>4, <1>5 DEF Origin
<1>8. \A x : Has(window_map', x) => Object(window_map', x) \in 1..Len(made')
  BY <1>2, <1>4, <1>5
<1>9. Len(made') <= MaxObjects
  BY <1>1, <1>2, <1>5, BaseAssumption
<1> QED
  BY <1>1, <1>4, <1>5, <1>6, <1>7, <1>8, <1>9

LEMMA RemoveWindowFacts ==
    ASSUME BaseInv, NEW w \in Wins, Has(window_map, w),
           window_map' = remove_object(window_map, w), made' = made
    PROVE  /\ IsTable(window_map', Wins, Objects)
           /\ \A x : Has(window_map', x) <=> Has(window_map, x) /\ x # w
           /\ \A x : Has(window_map', x) =>
                 /\ Object(window_map', x) = Object(window_map, x) /\ Origin(window_map', made', x) = Origin(window_map, made, x)
                 /\ made'[Object(window_map, x)] = made[Object(window_map, x)]
                 /\ Object(window_map', x) \in 1..Len(made')
<1>1. /\ IsTable(window_map', Wins, Objects)
      /\ \A x : Has(window_map', x) <=> Has(window_map, x) /\ x # w
      /\ \A x : Has(window_map', x) => Object(window_map', x) = Object(window_map, x)
  BY RemoveObject DEF BaseInv, Tables
<1>2. \A x : Has(window_map', x) => Origin(window_map', made', x) = Origin(window_map, made, x) /\ Object(window_map', x) \in 1..Len(made')
  BY <1>1 DEF Origin, BaseInv, Tables
<1> QED
  BY <1>1, <1>2

LEMMA Frame ==
    ASSUME BaseInv, NEW k \in 1..Len(stack)
    PROVE  stack[k] \in [wf : Wins, lib : Libs, t : Nat]
<1>1. stack \in Seq([wf : Wins, lib : Libs, t : Nat])
  BY DEF BaseInv, Calls
<1> DEFINE F == [wf : Wins, lib : Libs, t : Nat]
<1> HIDE DEF F
<1>2. stack \in Seq(F)
  BY <1>1 DEF F
<1>3. stack[k] \in F
  BY <1>2
<1> QED
  BY <1>3 DEF F

LEMMA CallsKept == ASSUME BaseInv, UNCHANGED calls PROVE Calls'
  BY DEF BaseInv, Calls, calls

LEMMA UnloadFrameOf ==
    ASSUME BaseInv, NEW j \in 1..Len(unloads)
    PROVE  /\ unloads[j] \in UnloadFrame /\ unloads[j].lib \in Libs /\ unloads[j].win \in Wins
           /\ unloads[j].at \in Nat /\ unloads[j].lib # Client
<1>1. unloads \in Seq(UnloadFrame)
  BY DEF BaseInv, Unloading
<1>2. unloads[j] \in UnloadFrame
  BY <1>1
<1> QED
  BY <1>2, BaseAssumption DEF UnloadFrame

\* What is running and being unloaded stays so when the windows of modules stay.
LEMMA RunningKept ==
    ASSUME BaseInv, UNCHANGED <<stack, strayed>>,
           \A x : Has(window_map, x) /\ Origin(window_map, made, x) # Client =>
              /\ Has(window_map', x)
              /\ Origin(window_map', made', x) = Origin(window_map, made, x),
           unloads' \in Seq(UnloadFrame), Len(unloads') = Len(unloads),
           \A j \in 1..Len(unloads) :
              /\ unloads'[j].win = unloads[j].win /\ unloads'[j].lib = unloads[j].lib
              /\ unloads'[j].at = unloads[j].at /\ unloads'[j].wname = unloads[j].wname
    PROVE  Running' /\ Unloading'
<1>1. ASSUME NEW k \in 1..Len(stack)
      PROVE  Has(window_map', stack[k].wf) /\ Origin(window_map', made', stack[k].wf) = stack[k].lib
  <2>1. Has(window_map, stack[k].wf) /\ Origin(window_map, made, stack[k].wf) = stack[k].lib
    BY DEF BaseInv, Running
  <2>2. stack[k].lib \in Libs
    BY Frame
  <2> QED
    BY <2>1, <2>2, BaseAssumption
<1>2. ASSUME NEW j \in 1..Len(unloads)
      PROVE  /\ Has(window_map', unloads[j].win)
             /\ Origin(window_map', made', unloads[j].win) = unloads[j].lib
  BY UnloadFrameOf DEF BaseInv, Unloading
<1>3. Running'
  BY <1>1 DEF Running
<1>4. Unloading'
  BY <1>2 DEF BaseInv, Unloading
<1> QED
  BY <1>3, <1>4

\* No library is closed when the records only grow.
LEMMA OpenKept ==
    ASSUME BaseInv, strayed' = strayed,
           \A x : Has(window_map', x) /\ Origin(window_map', made', x) # Client =>
              \/ Has(window_map, x) /\ Origin(window_map', made', x) = Origin(window_map, made, x)
              \/ /\ Has(module_map', Origin(window_map', made', x))
                 /\ x \in Object(module_map', Origin(window_map', made', x)),
           \A y : Has(module_map, y) =>
              Has(module_map', y) /\ Object(module_map, y) \subseteq Object(module_map', y)
    PROVE  Open'
  BY DEF BaseInv, Open

LEMMA UnloadsKept ==
    ASSUME BaseInv, UNCHANGED unloads
    PROVE  /\ unloads' \in Seq(UnloadFrame) /\ Len(unloads') = Len(unloads)
           /\ \A j \in 1..Len(unloads) :
                 /\ unloads'[j].win = unloads[j].win /\ unloads'[j].lib = unloads[j].lib
                 /\ unloads'[j].at = unloads[j].at /\ unloads'[j].wname = unloads[j].wname
  BY DEF BaseInv, Unloading

LEMMA BaseOfNewWindow ==
    ASSUME BaseInv, NEW w \in Wins, new_window(w) PROVE BaseInv'
<1>1. ~Has(window_map, w) /\ MakeWindow(w, Client)
      /\ UNCHANGED <<module_map, attr_map, func_map, unloads, strayed, calls>>
  BY DEF new_window, unloading
<1>2. Tables' /\ Handles'
  <2>1. Handles' /\ fresh' \subseteq Wins \cup (Wins \X BOOLEAN)
    BY <1>1, MakeWindowFacts, HandlesKept
  <2> QED
    BY <1>1, <2>1, MakeWindowFacts DEF BaseInv, Tables
<1>3. /\ \A x : Has(window_map', x) <=> Has(window_map, x) \/ x = w
      /\ \A x : Has(window_map, x) => Origin(window_map', made', x) = Origin(window_map, made, x)
      /\ Origin(window_map', made', w) = Client
  <2>1. Client \in Libs \cup {Client}
    OBVIOUS
  <2> QED
    BY <1>1, <2>1, MakeWindowFacts
<1>4. Running' /\ Unloading'
  <2>1. stack' = stack
    BY <1>1 DEF calls
  <2> QED
    BY <1>1, <1>3, <2>1, RunningKept, UnloadsKept
<1>5. Open'
  BY <1>1, <1>3, OpenKept
<1> QED
  BY <1>1, <1>2, <1>4, <1>5, CallsKept DEF BaseInv

LEMMA BaseOfDeleteWindow ==
    ASSUME BaseInv, NEW w \in Wins, delete_window(w) PROVE BaseInv'
<1>1. /\ Has(window_map, w) /\ Origin(window_map, made, w) = Client /\ window_map' = remove_object(window_map, w)
      /\ made' = made /\ fresh' = NotOf(w)
      /\ UNCHANGED <<module_map, attr_map, func_map, unloads, strayed, calls>>
  BY DEF delete_window, Lib, Origin, unloading
<1>2. Tables' /\ Handles'
  <2>1. Handles' /\ fresh' \subseteq Wins \cup (Wins \X BOOLEAN)
    BY <1>1, RemoveWindowFacts, HandlesKept
  <2> QED
    BY <1>1, <2>1, RemoveWindowFacts DEF BaseInv, Tables
<1>3. /\ \A x : Has(window_map', x) <=> Has(window_map, x) /\ x # w
      /\ \A x : Has(window_map', x) => Origin(window_map', made', x) = Origin(window_map, made, x)
  BY <1>1, RemoveWindowFacts
<1>4. Running' /\ Unloading'
  <2>1. stack' = stack
    BY <1>1 DEF calls
  <2> QED
    BY <1>1, <1>3, <2>1, RunningKept, UnloadsKept
<1>5. Open'
  BY <1>1, <1>3, OpenKept
<1> QED
  BY <1>1, <1>2, <1>4, <1>5, CallsKept DEF BaseInv

\* A name that is not the empty one is never at index 0 of a table of handles.
LEMMA AddHandle ==
    ASSUME NEW Names, NEW Objs, NEW m, IsTable(m, Names, Objs), find(m, NoName) = 0,
           NEW name \in Names, name # NoName, NEW t \in Objs
    PROVE  LET r == add_object(m, name, t)
           IN /\ IsTable(r, Names, Objs) /\ find(r, NoName) = 0
              /\ \A x : Has(m, x) => Has(r, x) /\ find(r, x) = find(m, x)
              /\ \A x : Has(m, x) /\ x # name => Object(r, x) = Object(m, x)
              /\ find(r, name) > 0 /\ Object(r, name) = t
<1>1. Has(m, NoName)
  BY DEF Has
<1>2. Len(m.i2o) > 0
  BY <1>1, HasName
<1>3. CASE Has(m, name)
  <2>1. find(m, name) > 0
    BY <1>1, <1>3, HasName, IndexInjective
  <2> QED
    BY <1>1, <1>3, <2>1, AddOld
<1>4. CASE ~Has(m, name)
  BY <1>1, <1>2, <1>4, AddNew
<1> QED
  BY <1>3, <1>4

LEMMA BaseOfGetDataitemHandle ==
    ASSUME BaseInv, NEW w \in Wins, NEW c \in BOOLEAN, get_dataitem_handle(w, c) PROVE BaseInv'
<1>1. /\ Has(window_map, w) /\ attr_map' = add_object(attr_map, <<w, c>>, Object(window_map, w))
      /\ fresh' = fresh \cup {<<w, c>>}
      /\ UNCHANGED <<module_map, window_map, func_map, made, unloads, strayed, calls>>
  BY DEF get_dataitem_handle, unloading
<1>2. <<w, c>> \in ItemNames /\ <<w, c>> # NoName /\ Object(window_map, w) \in Objects
  BY <1>1, HasName DEF ItemNames, NoName, BaseInv, Tables
<1>3. /\ IsTable(attr_map', ItemNames, Objects) /\ find(attr_map', NoName) = 0
      /\ \A x : Has(attr_map, x) => Has(attr_map', x) /\ find(attr_map', x) = find(attr_map, x)
      /\ \A x : Has(attr_map, x) /\ x # <<w, c>> => Object(attr_map', x) = Object(attr_map, x)
      /\ find(attr_map', <<w, c>>) > 0 /\ Object(attr_map', <<w, c>>) = Object(window_map, w)
  BY <1>1, <1>2, AddHandle DEF BaseInv, Tables
<1>4. Tables'
  BY <1>1, <1>3 DEF BaseInv, Tables
<1>5. Handles'
  <2>1. ASSUME NEW v \in Wins, NEW d \in BOOLEAN, <<v, d>> \in fresh'
        PROVE  /\ Has(window_map, v) /\ find(attr_map', <<v, d>>) > 0
               /\ Object(attr_map', <<v, d>>) = Object(window_map, v)
    <3>1. CASE <<v, d>> = <<w, c>>
      BY <1>1, <1>3, <3>1
    <3>2. CASE <<v, d>> # <<w, c>>
      <4>1. /\ Has(window_map, v) /\ find(attr_map, <<v, d>>) > 0
            /\ Object(attr_map, <<v, d>>) = Object(window_map, v)
        BY <1>1, <2>1, <3>2 DEF BaseInv, Handles, FreshHandles
      <4>2. Has(attr_map, <<v, d>>)
        BY <4>1, HasName DEF BaseInv, Tables
      <4> QED
        BY <1>3, <3>2, <4>1, <4>2
    <3> QED
      BY <3>1, <3>2
  <2>2. \A v \in Wins : v \in fresh' => v \in fresh
    BY <1>1, BaseAssumption
  <2>3. FreshHandles'
    BY <1>1, <2>1, <2>2 DEF BaseInv, Handles, FreshHandles
  <2> QED
    BY <1>1, <2>2, <2>3 DEF BaseInv, Handles, Origin
<1>6. Running' /\ Unloading' /\ Open'
  BY <1>1 DEF BaseInv, Running, Unloading, Open, Origin, calls
<1> QED
  BY <1>1, <1>4, <1>5, <1>6, CallsKept DEF BaseInv

LEMMA BaseOfGetFunctionHandle ==
    ASSUME BaseInv, NEW w \in Wins, get_function_handle(w) PROVE BaseInv'
<1>1. /\ Has(window_map, w) /\ Origin(window_map, made, w) # Client
      /\ func_map' = add_object(func_map, w, Object(window_map, w)) /\ fresh' = fresh \cup {w}
      /\ UNCHANGED <<module_map, window_map, attr_map, made, unloads, strayed, calls>>
  BY DEF get_function_handle, Lib, Origin, unloading
<1>2. w \in FunctionNames /\ w # NoName /\ Object(window_map, w) \in Objects
  BY <1>1, HasName, BaseAssumption DEF FunctionNames, NoName, BaseInv, Tables
<1>3. /\ IsTable(func_map', FunctionNames, Objects) /\ find(func_map', NoName) = 0
      /\ \A x : Has(func_map, x) => Has(func_map', x) /\ find(func_map', x) = find(func_map, x)
      /\ \A x : Has(func_map, x) /\ x # w => Object(func_map', x) = Object(func_map, x)
      /\ find(func_map', w) > 0 /\ Object(func_map', w) = Object(window_map, w)
  BY <1>1, <1>2, AddHandle DEF BaseInv, Tables
<1>4. Tables'
  BY <1>1, <1>3 DEF BaseInv, Tables
<1>5. Handles'
  <2>1. ASSUME NEW v \in Wins, v \in fresh'
        PROVE  /\ Has(window_map, v) /\ find(func_map', v) > 0
               /\ Object(func_map', v) = Object(window_map, v)
    <3>1. CASE v = w
      BY <1>1, <1>3, <3>1
    <3>2. CASE v # w
      <4>1. /\ Has(window_map, v) /\ find(func_map, v) > 0
            /\ Object(func_map, v) = Object(window_map, v)
        BY <1>1, <2>1, <3>2 DEF BaseInv, Handles, FreshHandles
      <4>2. Has(func_map, v)
        BY <4>1, HasName DEF BaseInv, Tables
      <4> QED
        BY <1>3, <3>2, <4>1, <4>2
    <3> QED
      BY <3>1, <3>2
  <2>2. \A v \in Wins, d \in BOOLEAN : <<v, d>> \in fresh' => <<v, d>> \in fresh
    BY <1>1, BaseAssumption
  <2>3. FreshHandles'
    BY <1>1, <2>1, <2>2 DEF BaseInv, Handles, FreshHandles
  <2> QED
    BY <1>1, <2>3 DEF BaseInv, Handles, Origin
<1>6. Running' /\ Unloading' /\ Open'
  BY <1>1 DEF BaseInv, Running, Unloading, Open, Origin, calls
<1> QED
  BY <1>1, <1>4, <1>5, <1>6, CallsKept DEF BaseInv

\* An open library keeps its record, a library just opened has none, and the
\* window that is loaded is on record whatever comes of it.
LEMMA RecordedForFacts ==
    ASSUME BaseInv, NEW lib \in Libs, NEW w \in Wins, module_map' = RecordedFor(lib, w)
    PROVE  /\ IsTable(module_map', Libs, SUBSET Wins)
           /\ Has(module_map', lib) /\ w \in Object(module_map', lib)
           /\ \A y : Has(module_map, y) =>
                 Has(module_map', y) /\ Object(module_map, y) \subseteq Object(module_map', y)
<1> DEFINE m == Opened(lib)
           W == Object(m, lib) \cup {w}
<1>1. IsTable(module_map, Libs, SUBSET Wins)
  BY DEF BaseInv, Tables
<1>2. /\ IsTable(m, Libs, SUBSET Wins) /\ Has(m, lib) /\ Object(m, lib) \in SUBSET Wins
      /\ \A y : Has(module_map, y) => Has(m, y) /\ Object(m, y) = Object(module_map, y)
  <2>1. CASE Has(module_map, lib)
    <3>1. Object(module_map, lib) \in SUBSET Wins
      BY <1>1, <2>1, HasName
    <3> QED
      BY <1>1, <2>1, <3>1 DEF Opened
  <2>2. CASE ~Has(module_map, lib)
    <3>1. Opened(lib) = add_object(module_map, lib, {}) /\ {} \in SUBSET Wins
      BY <2>2 DEF Opened
    <3> QED
      BY <1>1, <2>2, <3>1, AddNew
  <2> QED
    BY <2>1, <2>2
<1>3. W \in SUBSET Wins /\ module_map' = Recorded(m, lib, W)
  BY <1>2 DEF RecordedFor
<1> HIDE DEF m, W
<1> DEFINE r == Recorded(m, lib, W)
<1>4. /\ IsTable(r, Libs, SUBSET Wins)
      /\ \A x : (Has(r, x) <=> Has(m, x)) /\ find(r, x) = find(m, x)
      /\ \A x : Has(m, x) /\ x # lib => Object(r, x) = Object(m, x)
      /\ Object(r, lib) = W
  BY <1>2, <1>3, SetObject
<1>5. module_map' = r
  BY <1>3
<1> HIDE DEF r
<1>6. w \in W /\ Object(m, lib) \subseteq W
  BY DEF W
<1>7. ASSUME NEW y, Has(module_map, y)
      PROVE  Has(module_map', y) /\ Object(module_map, y) \subseteq Object(module_map', y)
  BY <1>2, <1>4, <1>5, <1>6, <1>7
<1> QED
  BY <1>2, <1>4, <1>5, <1>6, <1>7

LEMMA ReferencesFacts ==
    ASSUME BaseInv, NEW lib, References(lib)
    PROVE  /\ unloads' \in Seq(UnloadFrame) /\ Len(unloads') = Len(unloads)
           /\ \A j \in 1..Len(unloads) :
                 /\ unloads'[j].win = unloads[j].win /\ unloads'[j].lib = unloads[j].lib
                 /\ unloads'[j].at = unloads[j].at /\ unloads'[j].wname = unloads[j].wname
<1>1. CASE UNCHANGED unloads
  BY <1>1, UnloadsKept
<1>2. CASE unloads' = [k \in DOMAIN unloads |-> [unloads[k] EXCEPT !.dangling = TRUE]]
  <2>1. DOMAIN unloads = 1..Len(unloads) /\ Len(unloads) \in Nat
    BY DEF BaseInv, Unloading
  <2>2. ASSUME NEW j \in 1..Len(unloads)
        PROVE  /\ [unloads[j] EXCEPT !.dangling = TRUE] \in UnloadFrame
               /\ unloads'[j].win = unloads[j].win /\ unloads'[j].lib = unloads[j].lib
               /\ unloads'[j].at = unloads[j].at /\ unloads'[j].wname = unloads[j].wname
    BY <1>2, <2>1, UnloadFrameOf DEF UnloadFrame
  <2>3. unloads' \in [1..Len(unloads) -> UnloadFrame]
    BY <1>2, <2>1, <2>2
  <2>4. unloads' \in Seq(UnloadFrame) /\ Len(unloads') = Len(unloads)
    <3> DEFINE F == UnloadFrame
               n == Len(unloads)
    <3>1. unloads' \in [1..n -> F] /\ n \in Nat
      BY <2>1, <2>3
    <3> HIDE DEF F, n
    <3>2. unloads' \in Seq(F) /\ Len(unloads') = n
      BY <3>1
    <3> QED
      BY <3>2 DEF F, n
  <2> QED
    BY <2>2, <2>4
<1> QED
  BY <1>1, <1>2 DEF References

LEMMA BaseOfLoadModule ==
    ASSUME BaseInv, NEW w \in Wins, NEW lib \in Libs, load_module(lib, w) PROVE BaseInv'
<1>1. /\ ~Has(window_map, w) /\ MakeWindow(w, lib) /\ module_map' = RecordedFor(lib, w)
      /\ References(lib) /\ UNCHANGED <<attr_map, func_map, strayed, calls>>
  BY DEF load_module
<1>2. /\ IsTable(module_map', Libs, SUBSET Wins)
      /\ Has(module_map', lib) /\ w \in Object(module_map', lib)
      /\ \A y : Has(module_map, y) =>
            Has(module_map', y) /\ Object(module_map, y) \subseteq Object(module_map', y)
  BY <1>1, RecordedForFacts
<1>3. /\ IsTable(window_map', Wins, Objects)
      /\ \A x : Has(window_map', x) <=> Has(window_map, x) \/ x = w
      /\ \A x : Has(window_map, x) =>
            /\ Object(window_map', x) = Object(window_map, x)
            /\ Origin(window_map', made', x) = Origin(window_map, made, x)
            /\ made'[Object(window_map, x)] = made[Object(window_map, x)]
      /\ Origin(window_map', made', w) = lib
      /\ made' \in Seq(Libs \cup {Client}) /\ Len(made') <= MaxObjects
      /\ \A x : Has(window_map', x) => Object(window_map', x) \in 1..Len(made')
      /\ fresh' = NotOf(w)
  BY <1>1, MakeWindowFacts
<1>4. Handles' /\ fresh' \subseteq Wins \cup (Wins \X BOOLEAN)
  BY <1>1, <1>3, HandlesKept
<1>5. Tables'
  BY <1>1, <1>2, <1>3, <1>4 DEF BaseInv, Tables
<1>6. Running' /\ Unloading'
  <2>1. stack' = stack
    BY <1>1 DEF calls
  <2> QED
    BY <1>1, <1>3, <2>1, ReferencesFacts, RunningKept
<1>7. Open'
  BY <1>1, <1>2, <1>3, OpenKept
<1> QED
  BY <1>1, <1>4, <1>5, <1>6, <1>7, CallsKept DEF BaseInv

LEMMA BaseOfFailedLoad ==
    ASSUME BaseInv, NEW w \in Wins, NEW lib \in Libs, load_module_fails(lib, w) PROVE BaseInv'
<1>1. /\ module_map' = RecordedFor(lib, w) /\ References(lib)
      /\ UNCHANGED <<window_map, attr_map, func_map, made, fresh, strayed, calls>>
  BY DEF load_module_fails
<1>2. /\ IsTable(module_map', Libs, SUBSET Wins)
      /\ \A y : Has(module_map, y) =>
            Has(module_map', y) /\ Object(module_map, y) \subseteq Object(module_map', y)
  BY <1>1, RecordedForFacts
<1>3. Tables' /\ Handles'
  BY <1>1, <1>2 DEF BaseInv, Tables, Handles, FreshHandles, Origin
<1>4. Running' /\ Unloading'
  <2>1. stack' = stack
    BY <1>1 DEF calls
  <2>2. \A x : Has(window_map, x) =>
           Has(window_map', x) /\ Origin(window_map', made', x) = Origin(window_map, made, x)
    BY <1>1 DEF Origin
  <2> QED
    BY <1>1, <2>1, <2>2, ReferencesFacts, RunningKept
<1>5. Open'
  BY <1>1, <1>2 DEF BaseInv, Open, Origin
<1> QED
  BY <1>1, <1>3, <1>4, <1>5, CallsKept DEF BaseInv

LEMMA BaseOfUnloadModule ==
    ASSUME BaseInv, NEW w \in Wins, NEW lib \in Libs, NEW wname \in {w, NoName},
           NEW dodl \in BOOLEAN, unload_module(lib, w, wname, dodl)
    PROVE  BaseInv'
<1> DEFINE F == UnloadFrame
           n == Len(unloads)
           u == [lib |-> lib, win |-> w, wname |-> wname, dodl |-> dodl,
                 obj |-> find(module_map, lib) + 1, dangling |-> FALSE, at |-> Len(stack)]
<1>1. /\ Has(module_map, lib) /\ Has(window_map, w) /\ Origin(window_map, made, w) = lib
      /\ Idle(w) /\ unloads' = Append(unloads, u)
      /\ UNCHANGED <<module_map, window_map, attr_map, func_map, made, fresh, strayed, calls>>
  BY DEF unload_module, Lib, Origin
<1>2. /\ unloads \in Seq(F) /\ DOMAIN unloads = 1..n /\ n \in Nat
      /\ stack' = stack /\ Len(stack) \in Nat /\ DOMAIN stack = 1..Len(stack)
  BY <1>1 DEF BaseInv, Unloading, Calls, calls
<1>3. find(module_map, lib) \in Nat
  <2>1. IsTable(module_map, Libs, SUBSET Wins)
    BY DEF BaseInv, Tables
  <2> QED
    BY <1>1, <2>1, HasName
<1>4. /\ u \in F /\ u.win = w /\ u.lib = lib /\ u.at = Len(stack) /\ u.wname = wname
  BY <1>2, <1>3 DEF UnloadFrame
<1> HIDE DEF u, F
<1>5. /\ unloads' \in Seq(F) /\ Len(unloads') = n + 1 /\ unloads'[n + 1] = u
      /\ \A j \in 1..n : unloads'[j] = unloads[j]
  BY <1>1, <1>2, <1>4
<1>6. /\ \A k \in 1..Len(stack) : stack[k].wf # w
      /\ \A j \in 1..n : unloads[j].win # w
  BY <1>1, <1>2 DEF Idle
<1>7. ASSUME NEW j \in 1..(n + 1)
      PROVE  /\ Has(window_map, unloads'[j].win)
             /\ Origin(window_map, made, unloads'[j].win) = unloads'[j].lib
             /\ unloads'[j].wname \in {unloads'[j].win, NoName}
             /\ unloads'[j].at <= Len(stack)
             /\ \A k \in 1..unloads'[j].at : stack[k].wf # unloads'[j].win
  <2>1. CASE j = n + 1
    BY <1>1, <1>2, <1>4, <1>5, <1>6, <2>1
  <2>2. CASE j # n + 1
    <3>1. j \in 1..n /\ unloads'[j] = unloads[j]
      BY <1>2, <1>5, <2>2
    <3> QED
      BY <3>1 DEF BaseInv, Unloading, n
  <2> QED
    BY <2>1, <2>2
<1>8. ASSUME NEW i \in 1..(n + 1), NEW j \in 1..(n + 1), i # j
      PROVE  unloads'[i].win # unloads'[j].win
  <2>1. i \in 1..n \/ i = n + 1
    BY <1>2
  <2>2. j \in 1..n \/ j = n + 1
    BY <1>2
  <2>3. \A a, b \in 1..n : a # b => unloads[a].win # unloads[b].win
    BY DEF BaseInv, Unloading, n
  <2> QED
    BY <1>4, <1>5, <1>6, <1>8, <2>1, <2>2, <2>3
<1>9. Unloading'
  <2>1. strayed' \in BOOLEAN /\ unloads' \in Seq(UnloadFrame)
    BY <1>1, <1>5 DEF BaseInv, Unloading, F
  <2> QED
    BY <1>1, <1>2, <1>5, <1>7, <1>8, <2>1 DEF Unloading, Origin
<1>10. Tables' /\ Handles' /\ Running' /\ Open'
  BY <1>1, <1>2 DEF BaseInv, Tables, Handles, FreshHandles, Running, Open, Origin
<1> QED
  BY <1>1, <1>9, <1>10, CallsKept DEF BaseInv

LEMMA BaseOfUnloadReturns ==
    ASSUME BaseInv, unload_returns PROVE BaseInv'
<1> DEFINE F == UnloadFrame
           n == Len(unloads)
           u == unloads[n]
           there == ~u.dangling /\ u.obj \in DOMAIN module_map.names
           other == module_map.names[u.obj]
           W == Object(module_map, other) \ {u.wname}
           m == IF there THEN Recorded(module_map, other, W) ELSE module_map
           w == u.win
<1>1. /\ unloads # <<>> /\ Len(stack) = u.at /\ unloads' = SubSeq(unloads, 1, n - 1)
      /\ strayed' = (strayed \/ ~there \/ u.obj # find(module_map, u.lib) + 1)
      /\ window_map' = remove_object(window_map, w) /\ fresh' = NotOf(w) /\ made' = made
      /\ UNCHANGED <<attr_map, func_map, calls>>
  BY DEF unload_returns
<1>2. PICK W2 \in IF there THEN {W} ELSE {{}, {u.win}} :
         module_map' = IF Closes(W2, u.dodl) /\ Has(m, u.lib) THEN remove_object(m, u.lib) ELSE m
  BY DEF unload_returns
<1>3. /\ unloads \in Seq(F) /\ n \in Nat /\ n >= 1 /\ stack' = stack
  BY <1>1 DEF BaseInv, Unloading, calls
<1>4. /\ u.lib \in Libs /\ w \in Wins /\ u.lib # Client /\ Has(window_map, w)
      /\ Origin(window_map, made, w) = u.lib /\ u.wname \in {w, NoName}
      /\ \A k \in 1..Len(stack) : stack[k].wf # w
      /\ \A j \in 1..(n - 1) : unloads[j].win # w
  <2>1. n \in 1..Len(unloads)
    BY <1>3
  <2>2. \A j \in 1..(n - 1) : j \in 1..Len(unloads) /\ j # n
    BY <1>3
  <2> QED
    BY <1>1, <2>1, <2>2, UnloadFrameOf DEF BaseInv, Unloading
<1> HIDE DEF F
<1>5. /\ unloads' \in Seq(F) /\ Len(unloads') = n - 1
      /\ \A j \in 1..(n - 1) : unloads'[j] = unloads[j]
  BY <1>1, <1>3, FrontOf
<1>6. IsTable(module_map, Libs, SUBSET Wins)
  BY DEF BaseInv, Tables
<1>7. there => /\ Has(module_map, other) /\ W \in SUBSET Wins
               /\ (u.obj = find(module_map, u.lib) + 1 => other = u.lib \/ ~Has(module_map, u.lib))
  <2> SUFFICES ASSUME there
               PROVE  /\ Has(module_map, other) /\ W \in SUBSET Wins
                      /\ (u.obj = find(module_map, u.lib) + 1 => other = u.lib \/ ~Has(module_map, u.lib))
    OBVIOUS
  <2>1. find(module_map, other) = u.obj - 1 /\ u.obj \in Nat \ {0}
    BY <1>6 DEF IsTable, Agree
  <2>2. Has(module_map, other)
    BY <2>1 DEF Has
  <2>3. Object(module_map, other) \in SUBSET Wins
    BY <1>6, <2>2, HasName
  <2>4. ASSUME u.obj = find(module_map, u.lib) + 1, Has(module_map, u.lib) PROVE other = u.lib
    <3>1. find(module_map, u.lib) = u.obj - 1 /\ find(module_map, u.lib) = find(module_map, other)
      BY <1>6, <2>1, <2>4, HasName
    <3>2. u.lib \in DOMAIN module_map.n2i /\ find(module_map, u.lib) = module_map.n2i[u.lib]
      BY <1>6, <2>4, HasName
    <3> QED
      BY <1>6, <2>4, <3>2 DEF IsTable, Agree
  <2> QED
    BY <2>2, <2>3, <2>4
<1> HIDE DEF W, other, there, u, w
<1>8. /\ IsTable(m, Libs, SUBSET Wins) /\ \A x : Has(m, x) <=> Has(module_map, x)
      /\ \A x : Has(module_map, x) /\ ~(there /\ x = other) => Object(m, x) = Object(module_map, x)
      /\ there => Object(m, other) = W
  <2>1. CASE there
    <3> DEFINE r == Recorded(module_map, other, W)
    <3>1. m = r
      BY <2>1
    <3>2. /\ IsTable(r, Libs, SUBSET Wins)
          /\ \A x : (Has(r, x) <=> Has(module_map, x)) /\ find(r, x) = find(module_map, x)
          /\ \A x : Has(module_map, x) /\ x # other => Object(r, x) = Object(module_map, x)
          /\ Object(r, other) = W
      BY <1>6, <1>7, <2>1, SetObject
    <3> HIDE DEF r, m
    <3> QED
      BY <2>1, <3>1, <3>2
  <2>2. CASE ~there
    BY <1>6, <2>2
  <2> QED
    BY <2>1, <2>2
<1> HIDE DEF m
<1>9. /\ IsTable(module_map', Libs, SUBSET Wins)
      /\ \A x : Has(module_map', x) => Has(m, x) /\ Object(module_map', x) = Object(m, x)
      /\ \A x : Has(m, x) /\ x # u.lib => Has(module_map', x) /\ Object(module_map', x) = Object(m, x)
      /\ Has(m, u.lib) /\ ~Has(module_map', u.lib) => W2 = {}
  <2>1. CASE Closes(W2, u.dodl) /\ Has(m, u.lib)
    <3>1. module_map' = remove_object(m, u.lib)
      BY <1>2, <2>1
    <3>2. W2 = {}
      BY <2>1 DEF Closes
    <3> QED
      BY <1>8, <2>1, <3>1, <3>2, RemoveObject
  <2>2. CASE ~(Closes(W2, u.dodl) /\ Has(m, u.lib))
    <3>1. module_map' = m
      BY <1>2, <2>2
    <3> QED
      BY <1>8, <3>1
  <2> QED
    BY <2>1, <2>2
<1>10. /\ IsTable(window_map', Wins, Objects)
       /\ \A x : Has(window_map', x) <=> Has(window_map, x) /\ x # w
       /\ \A x : Has(window_map', x) =>
             /\ Object(window_map', x) = Object(window_map, x)
             /\ Origin(window_map', made', x) = Origin(window_map, made, x)
             /\ made'[Object(window_map, x)] = made[Object(window_map, x)]
             /\ Object(window_map', x) \in 1..Len(made')
  BY <1>1, <1>4, RemoveWindowFacts
<1>11. Handles' /\ fresh' \subseteq Wins \cup (Wins \X BOOLEAN)
  BY <1>1, <1>4, <1>10, HandlesKept
<1>12. Tables'
  BY <1>1, <1>9, <1>10, <1>11 DEF BaseInv, Tables
<1>13. Running'
  <2>1. \A k \in 1..Len(stack) :
           Has(window_map, stack[k].wf) /\ Origin(window_map, made, stack[k].wf) = stack[k].lib
    BY DEF BaseInv, Running
  <2>2. \A k \in 1..Len(stack) :
           Has(window_map', stack[k].wf) /\ Origin(window_map', made', stack[k].wf) = stack[k].lib
    BY <1>4, <1>10, <2>1
  <2> QED
    BY <1>3, <2>2 DEF Running
<1>14. Unloading'
  <2>1. ASSUME NEW j \in 1..(n - 1)
        PROVE  /\ Has(window_map', unloads[j].win)
               /\ Origin(window_map', made', unloads[j].win) = unloads[j].lib
               /\ unloads[j].wname \in {unloads[j].win, NoName}
               /\ unloads[j].at <= Len(stack)
               /\ \A k \in 1..unloads[j].at : stack[k].wf # unloads[j].win
    <3>1. j \in 1..n
      BY <1>3
    <3>2. Has(window_map, unloads[j].win) /\ unloads[j].win # w
      BY <1>4, <3>1 DEF BaseInv, Unloading, n
    <3> QED
      BY <1>10, <3>1, <3>2 DEF BaseInv, Unloading, n
  <2>2. \A i, j \in 1..(n - 1) : i # j => unloads[i].win # unloads[j].win
    <3>1. \A j \in 1..(n - 1) : j \in 1..n
      BY <1>3
    <3> QED
      BY <3>1 DEF BaseInv, Unloading, n
  <2>3. strayed' \in BOOLEAN /\ unloads' \in Seq(UnloadFrame)
    BY <1>1, <1>5 DEF BaseInv, Unloading, F
  <2> HIDE DEF n
  <2> QED
    BY <1>3, <1>5, <2>1, <2>2, <2>3 DEF Unloading
<1>15. Open'
  <2> SUFFICES ASSUME ~strayed', NEW x, Has(window_map', x),
                      Origin(window_map', made', x) # Client
               PROVE  /\ Has(module_map', Origin(window_map', made', x))
                      /\ x \in Object(module_map', Origin(window_map', made', x))
    BY DEF Open
  <2> DEFINE lib == Origin(window_map, made, x)
  <2>1. /\ Has(window_map, x) /\ x # w /\ Origin(window_map', made', x) = lib /\ lib # Client
    BY <1>10
  <2>2. ~strayed /\ there /\ u.obj = find(module_map, u.lib) + 1
    BY <1>1 DEF BaseInv, Unloading
  <2>3. Has(module_map, lib) /\ x \in Object(module_map, lib) /\ Has(module_map, u.lib)
    BY <1>4, <2>1, <2>2 DEF BaseInv, Open
  <2>4. other = u.lib /\ W2 = W
    BY <1>2, <1>7, <2>2, <2>3
  <2>5. x \in Wins
    BY <2>1, HasName DEF BaseInv, Tables
  <2> HIDE DEF lib
  <2>6. x # u.wname
    BY <1>4, <2>1, <2>5, BaseAssumption DEF NoName
  <2>7. x \in Object(m, lib)
    <3>1. CASE lib = other
      BY <1>8, <2>2, <2>3, <2>6, <3>1 DEF W
    <3>2. CASE lib # other
      BY <1>8, <2>3, <3>2
    <3> QED
      BY <3>1, <3>2
  <2>8. Has(m, lib)
    BY <1>8, <2>3
  <2>9. Has(module_map', lib)
    <3>1. CASE lib = u.lib
      <4>1. x \in W2
        BY <1>8, <2>2, <2>4, <2>7, <3>1
      <4> QED
        BY <1>9, <2>8, <3>1, <4>1
    <3>2. CASE lib # u.lib
      BY <1>9, <2>8, <3>2
    <3> QED
      BY <3>1, <3>2
  <2> QED
    BY <1>9, <2>1, <2>7, <2>9
<1> QED
  BY <1>1, <1>11, <1>12, <1>13, <1>14, <1>15, CallsKept DEF BaseInv

\* Calls leave the tables alone.
LEMMA TablesKept ==
    ASSUME BaseInv, UNCHANGED tables
    PROVE  Tables' /\ Handles'
<1>1. Tables'
  BY DEF BaseInv, Tables, tables
<1>2. Handles'
  BY DEF BaseInv, Handles, FreshHandles, Origin, tables
<1> QED
  BY <1>1, <1>2

LEMMA BaseOfCallFunction ==
    ASSUME BaseInv, NEW w \in Wins, call_function(w) PROVE BaseInv'
<1> DEFINE F == [wf : Wins, lib : Libs, t : Nat]
           f == [wf |-> w, lib |-> made[Object(func_map, w)], t |-> IF profile.on THEN clock ELSE 0]
           n == Len(stack)
<1>1. /\ w \in fresh /\ stack' = Append(stack, f) /\ depth' = depth + 1
      /\ UNCHANGED <<tables, timer, profile, clock, spent>>
  BY DEF call_function
<1>2. /\ Has(window_map, w) /\ Origin(window_map, made, w) # Client
      /\ Object(func_map, w) = Object(window_map, w)
  BY <1>1 DEF BaseInv, Handles, FreshHandles
<1>3. made[Object(func_map, w)] \in Libs /\ made[Object(func_map, w)] = Origin(window_map, made, w)
  <2>1. Object(window_map, w) \in 1..Len(made) /\ made \in Seq(Libs \cup {Client})
    BY <1>2 DEF BaseInv, Tables
  <2>2. made[Object(window_map, w)] \in Libs \cup {Client}
    BY <2>1
  <2> QED
    BY <1>2, <2>2 DEF Origin
<1>4. clock \in Nat /\ stack \in Seq(F) /\ n \in Nat
  BY BaseAssumption DEF BaseInv, Calls
<1>5. f \in F /\ f.t <= clock /\ f.wf = w /\ f.lib = Origin(window_map, made, w)
  BY <1>3, <1>4
<1> HIDE DEF f, F
<1>6. /\ stack' \in Seq(F) /\ Len(stack') = n + 1 /\ stack'[n + 1] = f
      /\ \A k \in 1..n : stack'[k] = stack[k]
  BY <1>1, <1>4, <1>5
<1> HIDE DEF n
<1>7. Calls'
  <2>1. \A k \in 1..n : stack[k].t <= clock
    BY DEF BaseInv, Calls, n
  <2>2. \A k \in 1..(n + 1) : stack'[k].t <= clock
    BY <1>4, <1>5, <1>6, <2>1
  <2>3. depth' = n + 1
    BY <1>1 DEF BaseInv, Calls, n
  <2> QED
    BY <1>1, <1>6, <2>2, <2>3 DEF BaseInv, Calls, F
<1>8. Running' /\ Unloading' /\ Open'
  <2>1. UNCHANGED <<module_map, window_map, made, unloads, strayed>>
    BY <1>1 DEF tables
  <2>2. \A k \in 1..n : Has(window_map, stack[k].wf) /\ Origin(window_map, made, stack[k].wf) = stack[k].lib
    BY DEF BaseInv, Running, n
  <2>3. \A k \in 1..(n + 1) : Has(window_map, stack'[k].wf) /\ Origin(window_map, made, stack'[k].wf) = stack'[k].lib
    BY <1>2, <1>4, <1>5, <1>6, <2>2
  <2>4. Running' /\ Open'
    BY <1>6, <2>1, <2>3 DEF BaseInv, Running, Open, Origin
  <2>5. ASSUME NEW j \in 1..Len(unloads)
        PROVE  unloads[j].at <= n + 1 /\ \A k \in 1..unloads[j].at : stack'[k].wf # unloads[j].win
    <3>1. /\ unloads[j].at <= n /\ unloads[j].at \in Nat
          /\ \A k \in 1..unloads[j].at : stack[k].wf # unloads[j].win
      BY UnloadFrameOf DEF BaseInv, Unloading, n
    <3> QED
      BY <1>4, <1>6, <3>1
  <2>6. Unloading'
    BY <1>6, <2>1, <2>5 DEF BaseInv, Unloading, Origin
  <2> QED
    BY <2>4, <2>6
<1> QED
  BY <1>1, <1>7, <1>8, TablesKept DEF BaseInv

LEMMA TimerAfterType ==
    ASSUME NEW s \in Seq(Nat), NEW n \in Nat, NEW sec \in Nat
    PROVE  TimerAfter(s, n, sec) \in Seq(Nat)
<1> DEFINE r == Resize(s, n)
<1>1. r \in [1..n -> Nat]
  BY DEF Resize
<1>2. r \in Seq(Nat) /\ Len(r) = n
  BY <1>1
<1> HIDE DEF r
<1>3. CASE n > 0
  <2>1. TimerAfter(s, n, sec) = [r EXCEPT ![n] = r[n] + sec]
    BY <1>3 DEF TimerAfter, r
  <2>2. r[n] + sec \in Nat /\ n \in 1..n
    BY <1>1, <1>3
  <2> QED
    BY <1>2, <2>1, <2>2
<1>4. CASE ~(n > 0)
  BY <1>2, <1>4 DEF TimerAfter, r
<1> QED
  BY <1>3, <1>4

LEMMA BaseOfReturn ==
    ASSUME BaseInv, Return PROVE BaseInv'
<1> DEFINE F == [wf : Wins, lib : Libs, t : Nat]
           n == Len(stack)
           frame == stack[n]
           sec == clock - frame.t
           inner == IF Len(timer) > depth - 1 THEN timer[(depth - 1) + 1] ELSE 0
<1>1. /\ stack # <<>> /\ stack' = SubSeq(stack, 1, n - 1) /\ depth' = depth - 1
      /\ IF profile.on
         THEN /\ timer' = TimerAfter(timer, depth - 1, sec)
              /\ profile' = [profile EXCEPT !.self[frame.wf] = @ + sec - inner,
                                            !.total = IF depth - 1 = 0 THEN @ + sec ELSE @]
         ELSE UNCHANGED <<timer, profile>>
      /\ UNCHANGED <<tables, clock, spent>>
      /\ \A j \in DOMAIN unloads : unloads[j].at < n
  BY DEF Return, ReturnedDepth
<1>2. /\ stack \in Seq(F) /\ depth = n /\ timer \in Seq(Nat) /\ clock \in Nat
      /\ \A k \in 1..n : stack[k].t <= clock
  BY BaseAssumption DEF BaseInv, Calls
<1> HIDE DEF F
<1>3. n \in Nat /\ n > 0
  BY <1>1, <1>2
<1>4. frame \in F /\ sec \in Nat
  <2>1. frame \in F /\ frame.t <= clock
    BY <1>2, <1>3
  <2>2. frame.t \in Nat
    BY <2>1 DEF F
  <2> QED
    BY <1>2, <2>1, <2>2
<1>5. /\ stack' \in Seq(F) /\ Len(stack') = n - 1 /\ \A k \in 1..(n - 1) : stack'[k] = stack[k]
  BY <1>1, <1>2, <1>3
<1>6. inner \in Int
  BY <1>2, <1>3
<1> HIDE DEF n, frame, sec, inner
<1>7. timer' \in Seq(Nat)
  <2>1. timer' = TimerAfter(timer, depth - 1, sec) \/ timer' = timer
    BY <1>1
  <2>2. depth - 1 \in Nat
    BY <1>2, <1>3
  <2> QED
    BY <1>2, <1>4, <2>1, <2>2, TimerAfterType
<1>8. profile' \in [on : BOOLEAN, self : [Wins -> Int], total : Nat]
  <2>1. profile \in [on : BOOLEAN, self : [Wins -> Int], total : Nat] /\ frame.wf \in Wins
    BY <1>4 DEF BaseInv, Calls, F
  <2>2. CASE profile.on
    <3> DEFINE s == [profile.self EXCEPT ![frame.wf] = profile.self[frame.wf] + sec - inner]
               t == IF depth - 1 = 0 THEN profile.total + sec ELSE profile.total
    <3>1. s \in [Wins -> Int]
      BY <1>4, <1>6, <2>1
    <3>2. t \in Nat
      BY <1>4, <2>1
    <3>3. profile' = [profile EXCEPT !.self = s, !.total = t]
      BY <1>1, <2>1, <2>2
    <3> HIDE DEF s, t
    <3> QED
      BY <2>1, <3>1, <3>2, <3>3
  <2>3. CASE ~profile.on
    BY <1>1, <2>1, <2>3
  <2> QED
    BY <2>2, <2>3
<1>9. Calls'
  <2>1. depth' = Len(stack') /\ clock' = clock
    BY <1>1, <1>2, <1>5
  <2>2. \A k \in 1..Len(stack') : stack'[k].t <= clock'
    <3>1. 1..Len(stack') = 1..(n - 1) /\ \A k \in 1..(n - 1) : k \in 1..n
      BY <1>3, <1>5
    <3> QED
      BY <1>2, <1>5, <2>1, <3>1
  <2>3. clock \in 0..MaxClock
    BY DEF BaseInv, Calls
  <2> QED
    BY <1>5, <1>7, <1>8, <2>1, <2>2, <2>3 DEF Calls, F
<1>10. Running' /\ Unloading' /\ Open'
  <2>1. UNCHANGED <<module_map, window_map, made, unloads, strayed>>
    BY <1>1 DEF tables
  <2>2. \A k \in 1..n : Has(window_map, stack[k].wf) /\ Origin(window_map, made, stack[k].wf) = stack[k].lib
    BY DEF BaseInv, Running, n
  <2>3. \A k \in 1..(n - 1) : Has(window_map, stack'[k].wf) /\ Origin(window_map, made, stack'[k].wf) = stack'[k].lib
    BY <1>3, <1>5, <2>2
  <2>4. Running' /\ Open'
    BY <1>5, <2>1, <2>3 DEF BaseInv, Running, Open, Origin
  <2>5. ASSUME NEW j \in 1..Len(unloads)
        PROVE  unloads[j].at <= n - 1 /\ \A k \in 1..unloads[j].at : stack'[k].wf # unloads[j].win
    <3>1. /\ unloads[j].at \in Nat /\ j \in DOMAIN unloads
          /\ \A k \in 1..unloads[j].at : stack[k].wf # unloads[j].win
      BY UnloadFrameOf DEF BaseInv, Unloading
    <3>2. unloads[j].at < n
      BY <1>1, <3>1
    <3> QED
      BY <1>3, <1>5, <3>1, <3>2
  <2>6. Unloading'
    BY <1>5, <2>1, <2>5 DEF BaseInv, Unloading, Origin
  <2> QED
    BY <2>4, <2>6
<1> QED
  BY <1>1, <1>9, <1>10, TablesKept DEF BaseInv

LEMMA BaseOfProfiling ==
    ASSUME BaseInv, Tick \/ \E on \in BOOLEAN : set_profiling(on) PROVE BaseInv'
<1>1. UNCHANGED <<tables, stack, depth, timer>>
  BY DEF Tick, set_profiling
<1>2. Running' /\ Unloading' /\ Open'
  BY <1>1 DEF BaseInv, Running, Unloading, Open, Origin, tables
<1>3. Calls'
  <2>1. CASE Tick
    <3>1. clock' \in 0..MaxClock /\ clock' = clock + 1 /\ profile' = profile
      BY <2>1, BaseAssumption DEF Tick, BaseInv, Calls
    <3>2. \A k \in 1..Len(stack) : stack[k].t <= clock + 1
      <4>1. \A k \in 1..Len(stack) : stack[k].t <= clock /\ stack[k].t \in Nat
        BY Frame DEF BaseInv, Calls
      <4> QED
        BY <4>1 DEF BaseInv, Calls
    <3> QED
      BY <1>1, <3>1, <3>2 DEF BaseInv, Calls
  <2>2. CASE \E on \in BOOLEAN : set_profiling(on)
    BY <1>1, <2>2 DEF set_profiling, BaseInv, Calls
  <2> QED
    BY <2>1, <2>2
<1> QED
  BY <1>1, <1>2, <1>3, TablesKept DEF BaseInv

LEMMA BaseStep == BaseInv /\ [Next]_vars => BaseInv'
<1> SUFFICES ASSUME BaseInv, [Next]_vars PROVE BaseInv'
  OBVIOUS
<1>1. CASE UNCHANGED vars
  <2>1. UNCHANGED <<tables, calls>>
    BY <1>1 DEF vars, tables, calls
  <2>2. Running' /\ Unloading' /\ Open'
    BY <2>1 DEF BaseInv, Running, Unloading, Open, Origin, tables, calls
  <2> QED
    BY <2>1, <2>2, CallsKept, TablesKept DEF BaseInv
<1>2. CASE Next
  BY <1>2, BaseOfNewWindow, BaseOfDeleteWindow, BaseOfGetDataitemHandle,
     BaseOfGetFunctionHandle, BaseOfLoadModule, BaseOfFailedLoad, BaseOfUnloadModule,
     BaseOfUnloadReturns, BaseOfCallFunction,
     BaseOfReturn, BaseOfProfiling DEF Next
<1> QED
  BY <1>1, <1>2

\* The inductive invariant of COM_base holds of every sequence of calls.
THEOREM BaseInvariant == Spec => []BaseInv
<1>1. BaseInv /\ [Next]_vars => BaseInv'
  BY BaseStep
<1> QED
  BY <1>1, BaseInit, PTL DEF Spec

\* COM_map: names, indices and objects agree in every table, whatever was
\* added, replaced and removed, for any number of names.
THEOREM TablesAgreeHolds == Spec => []TablesAgree
<1>1. BaseInv => TablesAgree
  <2> SUFFICES ASSUME BaseInv PROVE TablesAgree
    OBVIOUS
  <2>1. ASSUME NEW m, NEW Names, NEW Objs, IsTable(m, Names, Objs)
        PROVE  IsMap(m, Names, Objs) /\ Agree(m)
    BY <2>1, IndexDef DEF IsTable, IsMap
  <2>2. TypeOK
    BY <2>1 DEF BaseInv, Tables, Calls, Unloading, TypeOK, ItemNames, FunctionNames
  <2> QED
    BY <2>1, <2>2 DEF BaseInv, Tables, TablesAgree
<1> QED
  BY <1>1, BaseInvariant, PTL

\* get_dataitem_handle and get_function_handle: a handle asked for since its
\* window was made leads to the item or function of the window there is now,
\* and is never 0.
THEOREM FreshHandlesHold == Spec => []FreshHandles
<1>1. BaseInv => FreshHandles
  BY DEF BaseInv, Handles
<1> QED
  BY <1>1, BaseInvariant, PTL

\* load_module, unload_module and close_module: as long as the reference that
\* unload_module keeps was never to another record, no library is closed under a
\* window, a running function or a running unload function of its own, and its
\* windows are on record.
THEOREM LibrariesOpenHolds == Spec => []LibrariesOpen
<1>1. BaseInv => LibrariesOpen
  <2> SUFFICES ASSUME BaseInv, ~strayed PROVE LibrariesOpen
    BY DEF LibrariesOpen
  <2>1. \A w : Lib(w) = Origin(window_map, made, w)
    BY DEF Lib, Origin
  <2>2. \A w : Has(window_map, w) /\ Origin(window_map, made, w) # Client =>
            /\ Has(module_map, Origin(window_map, made, w))
            /\ w \in Object(module_map, Origin(window_map, made, w))
    BY DEF BaseInv, Open
  <2>3. ASSUME NEW k \in DOMAIN stack PROVE Has(module_map, stack[k].lib)
    <3>1. k \in 1..Len(stack)
      BY DEF BaseInv, Calls
    <3>2. stack[k].lib \in Libs
      BY <3>1, Frame
    <3>3. stack[k].lib # Client
      BY <3>2, BaseAssumption
    <3> QED
      BY <2>2, <3>1, <3>3 DEF BaseInv, Running
  <2>4. ASSUME NEW k \in DOMAIN unloads PROVE Has(module_map, unloads[k].lib)
    <3>1. k \in 1..Len(unloads)
      BY DEF BaseInv, Unloading
    <3> QED
      BY <2>2, <3>1, UnloadFrameOf DEF BaseInv, Unloading
  <2> QED
    BY <2>1, <2>2, <2>3, <2>4 DEF LibrariesOpen
<1> QED
  BY <1>1, BaseInvariant, PTL

------------------------------------------------------------------------------
(* Sums over a function: FoldFunction goes through the subsets of the      *)
(* domain and takes an element from each; the sum is the same function of  *)
(* the subsets whatever is summed, so sums are compared subset by subset.  *)

Pick(s) == CHOOSE x \in s : TRUE

Sums(g, f, D) ==
    g = [s \in D |-> IF s = {} THEN 0 ELSE f[Pick(s)] + g[s \ {Pick(s)}]]

Upto(S, n) == {s \in SUBSET S : Cardinality(s) <= n}

LEMMA LeastNatural ==
    ASSUME NEW S \in SUBSET Nat, S # {}
    PROVE  \E k \in S : \A l \in S : k <= l
<1>1. PICK k \in S : \A l \in S : <<l, k>> \notin OpToRel(<, Nat)
  BY NatLessThanWellFounded, WFMin, Zenon
<1>2. \A l \in S : ~(l < k)
  BY <1>1 DEF OpToRel
<1> QED
  BY <1>2

LEMMA Rest ==
    ASSUME NEW S, IsFiniteSet(S), NEW s \in SUBSET S
    PROVE  /\ IsFiniteSet(s) /\ Cardinality(s) \in Nat
           /\ Cardinality(s) = 0 <=> s = {}
           /\ s # {} => /\ Pick(s) \in s /\ s \ {Pick(s)} \in SUBSET S
                        /\ Cardinality(s \ {Pick(s)}) = Cardinality(s) - 1
<1>1. IsFiniteSet(s)
  BY FS_Subset
<1>2. Cardinality(s) \in Nat /\ (Cardinality(s) = 0 <=> s = {})
  BY <1>1, FS_CardinalityType, FS_EmptySet
<1>3. s # {} => Pick(s) \in s
  BY DEF Pick
<1>4. s # {} => Cardinality(s \ {Pick(s)}) = Cardinality(s) - 1
  BY <1>1, <1>3, FS_RemoveElement
<1> QED
  BY <1>1, <1>2, <1>3, <1>4

\* The recursive function in FoldFunction exists.
LEMMA SumsExist ==
    ASSUME NEW S, IsFiniteSet(S), NEW f
    PROVE  \E g : Sums(g, f, SUBSET S)
<1> DEFINE Bad == {n \in Nat : ~\E g : Sums(g, f, Upto(S, n))}
<1>1. ASSUME Bad # {} PROVE FALSE
  <2>1. PICK n \in Bad : \A l \in Bad : n <= l
    BY <1>1, LeastNatural
  <2>2. CASE n = 0
    <3> DEFINE g == [s \in Upto(S, 0) |-> 0]
    <3>1. ASSUME NEW s \in Upto(S, 0) PROVE s = {}
      <4>1. s \in SUBSET S /\ Cardinality(s) <= 0
        BY DEF Upto
      <4>2. Cardinality(s) \in Nat /\ (Cardinality(s) = 0 <=> s = {})
        BY <4>1, Rest
      <4> QED
        BY <4>1, <4>2
    <3>2. Sums(g, f, Upto(S, 0))
      BY <3>1 DEF Sums
    <3> QED
      BY <2>1, <2>2, <3>2
  <2>3. CASE n # 0
    <3>1. n - 1 \in Nat /\ n - 1 \notin Bad
      BY <2>1, <2>3
    <3>2. PICK g : Sums(g, f, Upto(S, n - 1))
      BY <3>1
    <3> DEFINE h == [s \in Upto(S, n) |-> IF s = {} THEN 0 ELSE f[Pick(s)] + g[s \ {Pick(s)}]]
    <3>3. \A s \in Upto(S, n - 1) : g[s] = IF s = {} THEN 0 ELSE f[Pick(s)] + g[s \ {Pick(s)}]
      BY <3>2 DEF Sums
    <3>4. ASSUME NEW s \in Upto(S, n), s # {}
          PROVE  s \ {Pick(s)} \in Upto(S, n - 1) /\ s \ {Pick(s)} \in Upto(S, n)
      <4>1. s \in SUBSET S /\ Cardinality(s) <= n
        BY DEF Upto
      <4>2. s \ {Pick(s)} \in SUBSET S /\ Cardinality(s \ {Pick(s)}) = Cardinality(s) - 1 /\ Cardinality(s) \in Nat
        BY <3>4, <4>1, Rest
      <4>3. Cardinality(s \ {Pick(s)}) <= n - 1 /\ Cardinality(s \ {Pick(s)}) <= n
        BY <4>1, <4>2, <3>1
      <4> QED
        BY <4>2, <4>3 DEF Upto
    <3>5. ASSUME NEW s \in Upto(S, n), s # {} PROVE h[s \ {Pick(s)}] = g[s \ {Pick(s)}]
      BY <3>3, <3>4, <3>5
    <3>6. \A s \in Upto(S, n) : h[s] = IF s = {} THEN 0 ELSE f[Pick(s)] + h[s \ {Pick(s)}]
      BY <3>5
    <3>7. h = [s \in Upto(S, n) |-> h[s]]
      OBVIOUS
    <3> HIDE DEF h
    <3>8. Sums(h, f, Upto(S, n))
      BY <3>6, <3>7 DEF Sums
    <3> QED
      BY <2>1, <3>8
  <2> QED
    BY <2>2, <2>3
<1>2. Cardinality(S) \in Nat
  BY FS_CardinalityType
<1>3. \E g : Sums(g, f, Upto(S, Cardinality(S)))
  BY <1>1, <1>2
<1>4. Upto(S, Cardinality(S)) = SUBSET S
  BY FS_Subset DEF Upto
<1> QED
  BY <1>3, <1>4

\* More at one place is as much more in the sum.
More(e, f, S, w, d) ==
    /\ f \in [S -> Int] /\ e \in [S -> Int]
    /\ \A x \in S : e[x] = f[x] + IF x = w THEN d ELSE 0

LEMMA SumsAdd ==
    ASSUME NEW S, IsFiniteSet(S), NEW w \in S, NEW d \in Int, NEW f, NEW e, More(e, f, S, w, d),
           NEW g, Sums(g, f, SUBSET S), NEW h, Sums(h, e, SUBSET S)
    PROVE  \A s \in SUBSET S : g[s] \in Int /\ h[s] = g[s] + IF w \in s THEN d ELSE 0
<1> DEFINE Good(s) == g[s] \in Int /\ h[s] = g[s] + IF w \in s THEN d ELSE 0
           Bad == {Cardinality(s) : s \in {t \in SUBSET S : ~Good(t)}}
<1>1. /\ \A s \in SUBSET S : g[s] = IF s = {} THEN 0 ELSE f[Pick(s)] + g[s \ {Pick(s)}]
      /\ \A s \in SUBSET S : h[s] = IF s = {} THEN 0 ELSE e[Pick(s)] + h[s \ {Pick(s)}]
  BY DEF Sums
<1>2. ASSUME NEW s \in SUBSET S, s # {}, Good(s \ {Pick(s)}) PROVE Good(s)
  <2>1. Pick(s) \in s
    BY <1>2, Rest
  <2>2. PICK x \in S : x = Pick(s)
    BY <2>1
  <2>3. g[s] = f[x] + g[s \ {x}] /\ h[s] = e[x] + h[s \ {x}]
    BY <1>1, <1>2, <2>2
  <2>4. g[s \ {x}] \in Int /\ h[s \ {x}] = g[s \ {x}] + IF w \in s \ {x} THEN d ELSE 0
    BY <1>2, <2>2
  <2>5. f[x] \in Int /\ e[x] = f[x] + IF x = w THEN d ELSE 0
    BY DEF More
  <2>6. CASE x = w
    BY <2>1, <2>2, <2>3, <2>4, <2>5, <2>6
  <2>7. CASE x # w
    BY <2>1, <2>2, <2>3, <2>4, <2>5, <2>7
  <2> QED
    BY <2>6, <2>7
<1>3. Good({})
  <2>1. {} \in SUBSET S
    OBVIOUS
  <2>2. g[{}] = 0 /\ h[{}] = 0
    BY <1>1, <2>1
  <2> QED
    BY <2>2
<1>4. ASSUME NEW t \in SUBSET S, ~Good(t) PROVE FALSE
  <2>1. Bad \in SUBSET Nat
    <3>1. \A s \in SUBSET S : Cardinality(s) \in Nat
      BY Rest
    <3> QED
      BY <3>1
  <2>2. Bad # {}
    BY <1>4
  <2>3. PICK n \in Bad : \A l \in Bad : n <= l
    BY <2>1, <2>2, LeastNatural
  <2>4. PICK s \in SUBSET S : ~Good(s) /\ Cardinality(s) = n
    BY <2>3
  <2>5. s # {}
    BY <1>3, <2>4
  <2>6. s \ {Pick(s)} \in SUBSET S /\ Cardinality(s \ {Pick(s)}) = n - 1 /\ n \in Nat
    BY <2>4, <2>5, Rest
  <2>7. n - 1 \notin Bad
    BY <2>3, <2>6
  <2>8. Good(s \ {Pick(s)})
    BY <2>6, <2>7
  <2> QED
    BY <1>2, <2>4, <2>5, <2>8
<1> QED
  BY <1>4

Total(f) == FoldFunction(+, 0, f)

LEMMA TotalIsSum ==
    ASSUME NEW S, IsFiniteSet(S), NEW f, DOMAIN f = S
    PROVE  \E g : Sums(g, f, SUBSET S) /\ Total(f) = g[S]
<1> DEFINE iter[s \in SUBSET S] == IF s = {} THEN 0 ELSE f[Pick(s)] + iter[s \ {Pick(s)}]
<1>1. Total(f) = iter[S]
  BY DEF Total, FoldFunction, FoldFunctionOnSet, MapThenFoldSet, Pick
<1>2. \E g : Sums(g, f, SUBSET S)
  BY SumsExist
<1>3. Sums(iter, f, SUBSET S)
  BY <1>2 DEF Sums
<1> HIDE DEF iter
<1> QED
  BY <1>1, <1>3

LEMMA TotalAdd ==
    ASSUME NEW S, IsFiniteSet(S), NEW w \in S, NEW d \in Int, NEW f, NEW e, More(e, f, S, w, d)
    PROVE  Total(f) \in Int /\ Total(e) = Total(f) + d
<1>1. PICK g : Sums(g, f, SUBSET S) /\ Total(f) = g[S]
  BY TotalIsSum DEF More
<1>2. PICK h : Sums(h, e, SUBSET S) /\ Total(e) = h[S]
  BY TotalIsSum DEF More
<1>3. \A s \in SUBSET S : g[s] \in Int /\ h[s] = g[s] + IF w \in s THEN d ELSE 0
  BY <1>1, <1>2, SumsAdd
<1> QED
  BY <1>1, <1>2, <1>3

LEMMA TotalZero ==
    ASSUME NEW S, IsFiniteSet(S)
    PROVE  Total([x \in S |-> 0]) = 0
<1> DEFINE f == [x \in S |-> 0]
<1>1. PICK g : Sums(g, f, SUBSET S) /\ Total(f) = g[S]
  BY TotalIsSum
<1> DEFINE Bad == {Cardinality(s) : s \in {t \in SUBSET S : g[t] # 0}}
<1>2. \A s \in SUBSET S : g[s] = IF s = {} THEN 0 ELSE f[Pick(s)] + g[s \ {Pick(s)}]
  BY <1>1 DEF Sums
<1>3. ASSUME g[S] # 0 PROVE FALSE
  <2>1. Bad \in SUBSET Nat /\ Bad # {}
    <3>1. \A s \in SUBSET S : Cardinality(s) \in Nat
      BY Rest
    <3>2. S \in SUBSET S
      OBVIOUS
    <3> QED
      BY <1>3, <3>1, <3>2
  <2>2. PICK n \in Bad : \A l \in Bad : n <= l
    BY <2>1, LeastNatural
  <2>3. PICK s \in SUBSET S : g[s] # 0 /\ Cardinality(s) = n
    BY <2>2
  <2>4. s # {}
    BY <1>2, <2>3
  <2>5. s \ {Pick(s)} \in SUBSET S /\ Cardinality(s \ {Pick(s)}) = n - 1 /\ n \in Nat /\ Pick(s) \in S
    BY <2>3, <2>4, Rest
  <2>6. n - 1 \notin Bad
    BY <2>2, <2>5
  <2>7. g[s \ {Pick(s)}] = 0
    BY <2>5, <2>6
  <2>8. f[Pick(s)] = 0
    BY <2>5
  <2>9. g[s] = 0
    BY <1>2, <2>4, <2>7, <2>8
  <2> QED
    BY <2>3, <2>9
<1> QED
  BY <1>1, <1>3

------------------------------------------------------------------------------
(* The profile *)

\* The time the k-th call under way has spent in calls that have returned, and
\* the time it has spent itself
Inner(k) == IF k <= Len(timer) THEN timer[k] ELSE 0
Until(k) == IF k = Len(stack) THEN clock ELSE stack[k + 1].t
Own(k) == Until(k) - stack[k].t - Inner(k)

\* What the profile would say if the innermost calls, down from the k-th, had
\* been taken out: the first is what it says, the last what it ought to say.
Account(e) ==
    /\ e \in [0..Len(stack) -> [Wins -> Int]]
    /\ e[0] = profile.self /\ e[Len(stack)] = spent
    /\ \A k \in 1..Len(stack), w \in Wins :
           e[k][w] = e[k - 1][w] + IF stack[k].wf = w THEN Own(k) ELSE 0

Elapsed == IF stack = <<>> THEN 0 ELSE clock - stack[1].t

Nothing == [w \in Wins |-> 0]

ProfileInv ==
    /\ spent \in [Wins -> Int]
    /\ Len(timer) <= Len(stack)
    /\ ~profile.on => timer = <<>> /\ profile.self = Nothing /\ profile.total = 0 /\ spent = Nothing
    /\ profile.on => (\E e : Account(e)) /\ Total(spent) = profile.total + Elapsed

LEMMA ProfileKept == ASSUME ProfileInv, UNCHANGED calls PROVE ProfileInv'
<1>1. /\ stack' = stack /\ timer' = timer /\ profile' = profile /\ clock' = clock /\ spent' = spent
  BY DEF calls
<1>2. \A k : Own(k)' = Own(k)
  BY <1>1 DEF Own, Until, Inner
<1>3. \A e : Account(e) => Account(e)'
  BY <1>1, <1>2 DEF Account
<1>4. Elapsed' = Elapsed
  BY <1>1 DEF Elapsed
<1> QED
  BY <1>1, <1>3, <1>4 DEF ProfileInv

\* The types of what the profile is made of
LEMMA ProfileTypes ==
    ASSUME Calls
    PROVE  /\ stack \in Seq([wf : Wins, lib : Libs, t : Nat]) /\ Len(stack) \in Nat
           /\ \A k \in 1..Len(stack) : stack[k].wf \in Wins /\ stack[k].t \in Nat
           /\ clock \in Nat /\ timer \in Seq(Nat) /\ Len(timer) \in Nat
           /\ \A k \in 1..Len(stack) : Inner(k) \in Nat /\ Own(k) \in Int
           /\ profile \in [on : BOOLEAN, self : [Wins -> Int], total : Nat]
<1>1. /\ stack \in Seq([wf : Wins, lib : Libs, t : Nat]) /\ Len(stack) \in Nat
      /\ clock \in Nat /\ timer \in Seq(Nat) /\ Len(timer) \in Nat
      /\ profile \in [on : BOOLEAN, self : [Wins -> Int], total : Nat]
  BY BaseAssumption DEF Calls
<1>2. \A k \in 1..Len(stack) : stack[k] \in [wf : Wins, lib : Libs, t : Nat]
  <2> DEFINE F == [wf : Wins, lib : Libs, t : Nat]
  <2> HIDE DEF F
  <2>1. stack \in Seq(F)
    BY <1>1 DEF F
  <2>2. \A k \in 1..Len(stack) : stack[k] \in F
    BY <2>1
  <2> QED
    BY <2>2 DEF F
<1>3. \A k \in 1..Len(stack) : stack[k].wf \in Wins /\ stack[k].t \in Nat
  BY <1>2
<1>4. \A k \in 1..Len(stack) : Inner(k) \in Nat
  BY <1>1 DEF Inner
<1>5. ASSUME NEW k \in 1..Len(stack) PROVE Until(k) \in Nat
  <2>1. k # Len(stack) => k + 1 \in 1..Len(stack)
    BY <1>1
  <2> QED
    BY <1>1, <1>3, <2>1 DEF Until
<1>6. \A k \in 1..Len(stack) : Own(k) \in Int
  BY <1>3, <1>4, <1>5 DEF Own
<1> QED
  BY <1>1, <1>3, <1>4, <1>6

LEMMA ProfileOfCall ==
    ASSUME Calls, ProfileInv, NEW w \in Wins, call_function(w) PROVE ProfileInv'
<1>1. PICK n, f : n = Len(stack) /\ f = [wf |-> w, lib |-> made[Object(func_map, w)],
                                         t |-> IF profile.on THEN clock ELSE 0]
  OBVIOUS
<1>2. /\ stack' = Append(stack, f)
      /\ timer' = timer /\ profile' = profile /\ clock' = clock /\ spent' = spent
  BY <1>1 DEF call_function
<1>3. /\ n \in Nat /\ clock \in Nat /\ Len(timer) <= n /\ Len(timer) \in Nat
      /\ \A k \in 1..n : stack[k].t \in Nat /\ Inner(k) \in Nat
      /\ profile.self \in [Wins -> Int]
  BY <1>1, ProfileTypes DEF ProfileInv
<1>4. Len(stack') = n + 1 /\ stack'[n + 1] = f /\ \A k \in 1..n : stack'[k] = stack[k]
  BY <1>1, <1>2, ProfileTypes
<1>5. CASE profile.on
  <2>1. f.t = clock /\ f.wf = w
    BY <1>1, <1>5
  <2>2. PICK e : Account(e)
    BY <1>5 DEF ProfileInv
  <2>3. \A k : Inner(k)' = Inner(k)
    BY <1>2 DEF Inner
  <2>4. ASSUME NEW k \in 1..n PROVE Own(k)' = Own(k)
    <3>1. Until(k)' = Until(k)
      BY <1>1, <1>2, <1>3, <1>4, <2>1 DEF Until
    <3>2. stack'[k].t = stack[k].t
      BY <1>4
    <3> QED
      BY <2>3, <3>1, <3>2 DEF Own
  <2>5. Own(n + 1)' = 0
    <3>1. Until(n + 1)' = clock
      BY <1>2, <1>4 DEF Until
    <3>2. Inner(n + 1)' = 0
      BY <1>3, <2>3 DEF Inner
    <3>3. stack'[n + 1].t = clock
      BY <1>4, <2>1
    <3> QED
      BY <1>3, <3>1, <3>2, <3>3 DEF Own
  <2> DEFINE g == [k \in 0..n + 1 |-> IF k = n + 1 THEN e[n] ELSE e[k]]
  <2>6. /\ e \in [0..n -> [Wins -> Int]] /\ e[0] = profile.self /\ e[n] = spent
        /\ \A k \in 1..n, x \in Wins : e[k][x] = e[k - 1][x] + IF stack[k].wf = x THEN Own(k) ELSE 0
    BY <1>1, <2>2 DEF Account
  <2>7. spent \in [Wins -> Int]
    BY DEF ProfileInv
  <2>8. g \in [0..n + 1 -> [Wins -> Int]] /\ g[0] = profile.self /\ g[n + 1] = spent
    BY <1>3, <2>6, <2>7
  <2>9. \A k \in 0..n : g[k] = e[k]
    BY <1>3
  <2> HIDE DEF g
  <2>10. ASSUME NEW k \in 1..n + 1, NEW x \in Wins
         PROVE  g[k][x] = g[k - 1][x] + IF stack'[k].wf = x THEN Own(k)' ELSE 0
    <3>1. CASE k \in 1..n
      <4>1. g[k] = e[k] /\ g[k - 1] = e[k - 1]
        BY <1>3, <2>9, <3>1
      <4>2. stack'[k].wf = stack[k].wf /\ Own(k)' = Own(k)
        BY <1>4, <2>4, <3>1
      <4> QED
        BY <2>6, <3>1, <4>1, <4>2
    <3>2. CASE k = n + 1
      <4>1. g[k] = spent /\ g[k - 1] = spent
        BY <1>3, <2>6, <2>8, <2>9, <3>2
      <4>2. Own(k)' = 0 /\ spent[x] \in Int
        BY <2>5, <2>7, <3>2
      <4> QED
        BY <4>1, <4>2
    <3> QED
      BY <1>3, <3>1, <3>2
  <2>11. Account(g)'
    <3>1. Len(stack)' = n + 1
      BY <1>4
    <3>2. profile'.self = profile.self /\ spent' = spent
      BY <1>2
    <3> QED
      BY <2>8, <2>10, <3>1, <3>2 DEF Account
  <2>12. Elapsed' = Elapsed
    <3>1. stack' # <<>>
      BY <1>3, <1>4
    <3>2. CASE stack = <<>>
      <4>1. n = 0
        BY <1>1, <3>2
      <4>2. stack'[1].t = clock
        BY <1>4, <2>1, <4>1
      <4> QED
        BY <1>2, <1>3, <3>1, <3>2, <4>2 DEF Elapsed
    <3>3. CASE stack # <<>>
      <4>1. 1 \in 1..n
        BY <1>1, <1>3, <3>3, ProfileTypes
      <4>2. stack'[1] = stack[1]
        BY <1>4, <4>1
      <4> QED
        BY <1>2, <3>1, <3>3, <4>2 DEF Elapsed
    <3> QED
      BY <3>2, <3>3
  <2> QED
    BY <1>2, <1>3, <1>4, <1>5, <2>11, <2>12 DEF ProfileInv
<1>6. CASE ~profile.on
  BY <1>2, <1>3, <1>4, <1>6 DEF ProfileInv
<1> QED
  BY <1>5, <1>6

LEMMA ProfileOfTick ==
    ASSUME Calls, ProfileInv, Tick PROVE ProfileInv'
<1>1. /\ clock' = clock + 1 /\ stack' = stack /\ timer' = timer /\ profile' = profile
      /\ spent' = IF stack = <<>> \/ ~profile.on THEN spent
                  ELSE [spent EXCEPT ![stack[Len(stack)].wf] = @ + 1]
  BY DEF Tick
<1>2. PICK n : n = Len(stack)
  OBVIOUS
<1>3. /\ n \in Nat /\ clock \in Nat /\ spent \in [Wins -> Int]
      /\ \A k \in 1..n : stack[k].wf \in Wins /\ stack[k].t \in Nat /\ Inner(k) \in Nat /\ Own(k) \in Int
      /\ profile.total \in Nat
  BY <1>2, ProfileTypes DEF ProfileInv
<1>4. CASE ~profile.on
  BY <1>1, <1>4 DEF ProfileInv
<1>5. CASE profile.on /\ stack = <<>>
  <2>1. spent' = spent /\ n = 0
    BY <1>1, <1>2, <1>5
  <2>2. \A e : Account(e) => Account(e)'
    BY <1>1, <1>2, <2>1 DEF Account
  <2>3. Elapsed' = Elapsed
    BY <1>1, <1>5 DEF Elapsed
  <2> QED
    BY <1>1, <1>5, <2>1, <2>2, <2>3 DEF ProfileInv
<1>6. CASE profile.on /\ stack # <<>>
  <2>1. n \in 1..n /\ 1 \in 1..n
    BY <1>2, <1>3, <1>6, ProfileTypes
  <2>2. PICK v \in Wins : v = stack[n].wf
    BY <1>3, <2>1
  <2>3. spent' = [spent EXCEPT ![v] = spent[v] + 1]
    BY <1>1, <1>2, <1>6, <2>2
  <2>4. spent' \in [Wins -> Int] /\ \A x \in Wins : spent'[x] = spent[x] + IF x = v THEN 1 ELSE 0
    BY <1>3, <2>3
  <2>5. \A k : Inner(k)' = Inner(k)
    BY <1>1 DEF Inner
  <2>6. \A k \in 1..n : k # n => Own(k)' = Own(k)
    BY <1>1, <1>2, <2>5 DEF Own, Until
  <2>7. Own(n)' = Own(n) + 1
    <3>1. Until(n) = clock /\ Until(n)' = clock + 1
      BY <1>1, <1>2 DEF Until
    <3>2. stack'[n].t = stack[n].t /\ stack[n].t \in Nat /\ Inner(n) \in Nat
      BY <1>1, <1>3, <2>1
    <3> QED
      BY <1>3, <2>5, <3>1, <3>2 DEF Own
  <2>8. PICK e : Account(e)
    BY <1>6 DEF ProfileInv
  <2>9. /\ e \in [0..n -> [Wins -> Int]] /\ e[0] = profile.self /\ e[n] = spent
        /\ \A k \in 1..n, x \in Wins : e[k][x] = e[k - 1][x] + IF stack[k].wf = x THEN Own(k) ELSE 0
    BY <1>2, <2>8 DEF Account
  <2>10. PICK s : s = spent'
    OBVIOUS
  <2> DEFINE g == [k \in 0..n |-> IF k = n THEN s ELSE e[k]]
  <2>11. g \in [0..n -> [Wins -> Int]] /\ g[0] = profile.self /\ g[n] = s
    BY <1>3, <2>1, <2>4, <2>9, <2>10
  <2>12. \A k \in 0..n : k # n => g[k] = e[k]
    BY <1>3
  <2> HIDE DEF g
  <2>13. ASSUME NEW k \in 1..n, NEW x \in Wins
         PROVE  g[k][x] = g[k - 1][x] + IF stack[k].wf = x THEN Own(k)' ELSE 0
    <3>1. g[k - 1] = e[k - 1]
      BY <1>3, <2>12
    <3>2. e[k][x] = e[k - 1][x] + IF stack[k].wf = x THEN Own(k) ELSE 0
      BY <2>9
    <3>3. CASE k # n
      <4>1. g[k] = e[k] /\ Own(k)' = Own(k)
        BY <1>3, <2>6, <2>12, <3>3
      <4> QED
        BY <3>1, <3>2, <4>1
    <3>4. CASE k = n
      <4>1. e[k - 1][x] \in Int /\ Own(n) \in Int
        BY <1>3, <2>1, <2>9
      <4>2. g[n][x] = spent[x] + IF x = v THEN 1 ELSE 0
        <5>1. s[x] = spent[x] + IF x = v THEN 1 ELSE 0
          BY <2>4, <2>10
        <5> QED
          BY <2>11, <5>1
      <4>3. spent[x] = e[n - 1][x] + IF v = x THEN Own(n) ELSE 0
        BY <2>2, <2>9, <3>2, <3>4
      <4> QED
        BY <2>2, <2>7, <3>1, <3>4, <4>1, <4>2, <4>3
    <3> QED
      BY <3>3, <3>4
  <2>14. Account(g)'
    BY <1>1, <1>2, <2>10, <2>11, <2>13 DEF Account
  <2>15. Elapsed' = Elapsed + 1 /\ Elapsed \in Int
    BY <1>1, <1>3, <1>6, <2>1 DEF Elapsed
  <2>16. Total(spent) \in Int /\ Total(s) = Total(spent) + 1
    <3>1. More(s, spent, Wins, v, 1)
      BY <1>3, <2>4, <2>10 DEF More
    <3>2. IsFiniteSet(Wins) /\ 1 \in Int
      BY BaseAssumption
    <3> QED
      BY <3>1, <3>2, TotalAdd
  <2>17. Total(spent)' = Total(s)
    BY <2>10
  <2>18. Total(spent) = profile.total + Elapsed
    BY <1>6 DEF ProfileInv
  <2>19. Total(spent)' = (profile.total + Elapsed)'
    BY <1>1, <1>3, <2>15, <2>16, <2>17, <2>18
  <2> QED
    BY <1>1, <1>6, <2>4, <2>14, <2>19 DEF ProfileInv
<1> QED
  BY <1>4, <1>5, <1>6

\* The timers after a return to depth n: those of the calls under way, the last
\* of them with the time of the call that returned.
Timers(t, s, n, sec) ==
    /\ Len(t) = n
    /\ \A k \in 1..n : t[k] = (IF k <= Len(s) THEN s[k] ELSE 0) + IF k = n THEN sec ELSE 0

LEMMA TimerAfterFacts ==
    ASSUME NEW s \in Seq(Nat), NEW n \in Nat, NEW sec \in Nat
    PROVE  Timers(TimerAfter(s, n, sec), s, n, sec)
<1> DEFINE r == Resize(s, n)
<1>1. r = [k \in 1..n |-> IF k <= Len(s) THEN s[k] ELSE 0]
  BY DEF Resize
<1>2. r \in Seq(Nat) /\ Len(r) = n /\ \A k \in 1..n : r[k] = (IF k <= Len(s) THEN s[k] ELSE 0) /\ r[k] \in Nat
  BY <1>1
<1> HIDE DEF r
<1>3. CASE n > 0
  <2>1. TimerAfter(s, n, sec) = [r EXCEPT ![n] = r[n] + sec]
    BY <1>3 DEF TimerAfter, r
  <2>2. Len([r EXCEPT ![n] = r[n] + sec]) = n
    BY <1>2
  <2>3. ASSUME NEW k \in 1..n PROVE [r EXCEPT ![n] = r[n] + sec][k] = r[k] + IF k = n THEN sec ELSE 0
    BY <1>2
  <2> QED
    BY <1>2, <2>1, <2>2, <2>3 DEF Timers
<1>4. CASE n = 0
  BY <1>2, <1>4 DEF TimerAfter, r, Timers
<1> QED
  BY <1>3, <1>4

LEMMA ProfileOfReturn ==
    ASSUME Calls, ProfileInv, Return PROVE ProfileInv'
<1>1. PICK n, v, sec, inner :
          /\ n = Len(stack) /\ v = stack[n].wf /\ sec = clock - stack[n].t
          /\ inner = IF Len(timer) > n - 1 THEN timer[(n - 1) + 1] ELSE 0
  OBVIOUS
<1>2. /\ stack # <<>> /\ stack' = SubSeq(stack, 1, n - 1) /\ depth = n
      /\ clock' = clock /\ spent' = spent
  BY <1>1 DEF Return, Calls
<1>3. IF profile.on
      THEN /\ timer' = TimerAfter(timer, n - 1, sec)
           /\ profile' = [profile EXCEPT !.self[v] = @ + sec - inner,
                                         !.total = IF n - 1 = 0 THEN @ + sec ELSE @]
      ELSE UNCHANGED <<timer, profile>>
  BY <1>1, <1>2 DEF Return, ReturnedDepth
<1>4. /\ n \in Nat /\ clock \in Nat /\ spent \in [Wins -> Int] /\ timer \in Seq(Nat) /\ Len(timer) \in Nat
      /\ \A k \in 1..n : stack[k].wf \in Wins /\ stack[k].t \in Nat /\ Inner(k) \in Nat /\ Own(k) \in Int
      /\ \A k \in 1..n : stack[k].t <= clock
      /\ profile \in [on : BOOLEAN, self : [Wins -> Int], total : Nat]
      /\ Len(timer) <= n
  BY <1>1, ProfileTypes DEF ProfileInv, Calls
<1>5. n \in 1..n /\ 1 \in 1..n /\ n - 1 \in Nat
  BY <1>1, <1>2, <1>4, ProfileTypes
<1>6. Len(stack') = n - 1 /\ \A k \in 1..n - 1 : stack'[k] = stack[k]
  BY <1>1, <1>2, <1>5, ProfileTypes
<1>7. CASE ~profile.on
  <2>1. timer' = timer /\ profile' = profile /\ timer = <<>>
    BY <1>3, <1>7 DEF ProfileInv
  <2>2. Len(timer') <= Len(stack')
    BY <1>5, <1>6, <2>1
  <2> QED
    BY <1>2, <1>7, <2>1, <2>2 DEF ProfileInv
<1>8. CASE profile.on
  <2>1. v \in Wins /\ sec \in Nat
    BY <1>1, <1>4, <1>5
  <2>2. inner = Inner(n) /\ Own(n) = sec - inner /\ inner \in Nat
    <3>1. Len(timer) > n - 1 <=> n <= Len(timer)
      BY <1>4
    <3>2. inner = Inner(n)
      BY <1>1, <1>4, <3>1 DEF Inner
    <3>3. Until(n) = clock
      BY <1>1 DEF Until
    <3> QED
      BY <1>1, <1>4, <1>5, <3>2, <3>3 DEF Own
  <2>3. /\ Len(timer') = n - 1
        /\ \A k \in 1..n - 1 : timer'[k] = (IF k <= Len(timer) THEN timer[k] ELSE 0) + IF k = n - 1 THEN sec ELSE 0
    <3>1. PICK t : t = TimerAfter(timer, n - 1, sec) /\ timer' = t
      BY <1>3, <1>8
    <3>2. Timers(t, timer, n - 1, sec)
      BY <1>4, <1>5, <2>1, <3>1, TimerAfterFacts
    <3> QED
      BY <3>1, <3>2 DEF Timers
  <2>4. \A k \in 1..n - 1 : Inner(k)' = Inner(k) + IF k = n - 1 THEN sec ELSE 0
    BY <1>5, <2>3 DEF Inner
  <2>5. ASSUME NEW k \in 1..n - 1 PROVE Own(k)' = Own(k)
    <3>1. k \in 1..n /\ k # n /\ stack'[k].t = stack[k].t
      BY <1>5, <1>6
    <3>2. Until(k) = stack[k + 1].t
      BY <1>1, <3>1 DEF Until
    <3>3. Inner(k) \in Nat /\ stack[k].t \in Nat
      BY <1>4, <3>1
    <3>4. CASE k = n - 1
      <4>1. k + 1 = n
        BY <1>5, <3>4
      <4>2. Until(k) = stack[n].t /\ Until(k)' = clock
        BY <1>2, <1>6, <3>2, <3>4, <4>1 DEF Until
      <4>3. Inner(k)' = Inner(k) + (clock - stack[n].t)
        BY <1>1, <2>4, <3>4
      <4>4. stack[n].t \in Nat
        BY <1>4, <1>5
      <4>5. Own(k)' = Own(k)
        <5>1. Own(k) = stack[n].t - stack[k].t - Inner(k)
          BY <4>2 DEF Own
        <5>2. Own(k)' = clock - stack[k].t - (Inner(k) + (clock - stack[n].t))
          BY <3>1, <4>2, <4>3 DEF Own
        <5>3. \A a, b, c, d \in Nat : c - b - (d + (c - a)) = a - b - d
          OBVIOUS
        <5>4. clock \in Nat
          BY <1>4
        <5> QED
          BY <3>3, <4>4, <5>1, <5>2, <5>3, <5>4
      <4> QED
        BY <4>5
    <3>5. CASE k # n - 1
      <4>1. k + 1 \in 1..n - 1
        BY <1>5, <3>5
      <4>2. Until(k)' = Until(k)
        <5>1. stack'[k + 1] = stack[k + 1] /\ Len(stack)' # k
          BY <1>6, <3>5, <4>1
        <5>2. Until(k)' = stack'[k + 1].t
          BY <5>1 DEF Until
        <5> QED
          BY <3>2, <5>1, <5>2
      <4>3. Inner(k)' = Inner(k)
        BY <2>4, <3>3, <3>5
      <4> QED
        BY <3>1, <4>2, <4>3 DEF Own
    <3> QED
      BY <3>4, <3>5
  <2>6. PICK e : Account(e)
    BY <1>8 DEF ProfileInv
  <2>7. /\ e \in [0..n -> [Wins -> Int]] /\ e[0] = profile.self /\ e[n] = spent
        /\ \A k \in 1..n, x \in Wins : e[k][x] = e[k - 1][x] + IF stack[k].wf = x THEN Own(k) ELSE 0
    BY <1>1, <2>6 DEF Account
  <2>8. PICK own : own = Own(n) /\ own = sec - inner /\ own \in Int
    BY <2>1, <2>2
  <2> DEFINE g == [k \in 0..n - 1 |-> [x \in Wins |-> e[k][x] + IF v = x THEN own ELSE 0]]
  <2>9. \A k \in 0..n - 1, x \in Wins : e[k][x] \in Int
    <3>1. \A k \in 0..n - 1 : k \in 0..n
      BY <1>5
    <3>2. \A k \in 0..n - 1 : e[k] \in [Wins -> Int]
      BY <2>7, <3>1
    <3> QED
      BY <3>2
  <2>10. g \in [0..n - 1 -> [Wins -> Int]]
    BY <2>8, <2>9
  <2>11. \A k \in 0..n - 1, x \in Wins : g[k][x] = e[k][x] + IF v = x THEN own ELSE 0
    OBVIOUS
  <2> HIDE DEF g
  <2>12. /\ profile'.on = profile.on
         /\ profile'.self = [profile.self EXCEPT ![v] = profile.self[v] + sec - inner]
         /\ profile'.total = IF n - 1 = 0 THEN profile.total + sec ELSE profile.total
    BY <1>3, <1>4, <1>8
  <2>13. g[0] = profile'.self
    <3>1. g[0] \in [Wins -> Int] /\ profile'.self \in [Wins -> Int]
      <4>1. 0 \in 0..n - 1
        BY <1>5
      <4>2. g[0] \in [Wins -> Int]
        BY <2>10, <4>1
      <4>3. profile.self[v] \in Int /\ profile.self \in [Wins -> Int]
        BY <1>4, <2>1
      <4>4. sec - inner \in Int /\ profile.self[v] + sec - inner \in Int
        BY <1>4, <2>1, <2>2, <2>8, <4>3
      <4>5. [profile.self EXCEPT ![v] = profile.self[v] + sec - inner] \in [Wins -> Int]
        BY <4>3, <4>4
      <4> QED
        BY <2>12, <4>2, <4>5
    <3>2. ASSUME NEW x \in Wins PROVE g[0][x] = profile'.self[x]
      <4>1. g[0][x] = profile.self[x] + IF v = x THEN own ELSE 0
        BY <1>5, <2>7, <2>11
      <4>2. profile.self[x] \in Int
        BY <1>4
      <4>3. profile'.self[x] = IF v = x THEN profile.self[x] + sec - inner ELSE profile.self[x]
        BY <1>4, <2>12
      <4> QED
        BY <2>1, <2>2, <2>8, <4>1, <4>2, <4>3
    <3> QED
      BY <3>1, <3>2
  <2>14. g[n - 1] = spent
    <3>1. g[n - 1] \in [Wins -> Int]
      BY <1>5, <2>10
    <3>2. ASSUME NEW x \in Wins PROVE g[n - 1][x] = spent[x]
      <4>1. spent[x] = e[n - 1][x] + IF stack[n].wf = x THEN Own(n) ELSE 0
        BY <1>5, <2>7
      <4>2. g[n - 1][x] = e[n - 1][x] + IF v = x THEN own ELSE 0
        BY <1>5, <2>11
      <4> QED
        BY <1>1, <2>8, <4>1, <4>2
    <3> QED
      BY <1>4, <3>1, <3>2
  <2>15. ASSUME NEW k \in 1..n - 1, NEW x \in Wins
         PROVE  g[k][x] = g[k - 1][x] + IF stack'[k].wf = x THEN Own(k)' ELSE 0
    <3>1. k \in 0..n - 1 /\ k - 1 \in 0..n - 1 /\ k \in 1..n
      BY <1>5
    <3>2. /\ g[k][x] = e[k][x] + IF v = x THEN own ELSE 0
          /\ g[k - 1][x] = e[k - 1][x] + IF v = x THEN own ELSE 0
      BY <2>11, <3>1
    <3>3. e[k][x] = e[k - 1][x] + IF stack[k].wf = x THEN Own(k) ELSE 0
      BY <2>7, <3>1
    <3>4. e[k - 1][x] \in Int /\ Own(k) \in Int
      BY <1>4, <2>9, <3>1
    <3>5. stack'[k].wf = stack[k].wf /\ Own(k)' = Own(k)
      BY <1>6, <2>5
    <3> QED
      BY <2>8, <3>2, <3>3, <3>4, <3>5
  <2>16. Account(g)'
    <3>1. Len(stack)' = n - 1 /\ spent' = spent
      BY <1>2, <1>6
    <3> QED
      BY <2>10, <2>13, <2>14, <2>15, <3>1 DEF Account
  <2>17. (profile.total + Elapsed)' = profile.total + Elapsed
    <3>1. profile.total \in Nat /\ Elapsed = clock - stack[1].t /\ stack[1].t \in Nat
      BY <1>2, <1>4, <1>5 DEF Elapsed
    <3>2. CASE n = 1
      <4>1. stack' = <<>>
        BY <1>2, <3>2
      <4>2. Elapsed' = 0 /\ profile'.total = profile.total + (clock - stack[1].t)
        BY <1>1, <2>12, <3>2, <4>1 DEF Elapsed
      <4> QED
        BY <1>4, <3>1, <4>2
    <3>3. CASE n # 1
      <4>1. 1 \in 1..n - 1
        BY <1>5, <3>3
      <4>2. stack' # <<>> /\ stack'[1] = stack[1]
        <5>1. Len(stack') # 0
          BY <1>5, <1>6, <3>3
        <5> QED
          BY <1>6, <4>1, <5>1
      <4>3. Elapsed' = clock - stack[1].t /\ profile'.total = profile.total
        BY <1>2, <1>5, <2>12, <3>3, <4>2 DEF Elapsed
      <4> QED
        BY <3>1, <4>3
    <3> QED
      BY <3>2, <3>3
  <2>18. Total(spent)' = Total(spent)
    BY <1>2
  <2>19. Total(spent) = profile.total + Elapsed
    BY <1>8 DEF ProfileInv
  <2>20. Len(timer') <= Len(stack')
    BY <1>5, <1>6, <2>3
  <2> QED
    BY <1>2, <1>4, <1>8, <2>12, <2>16, <2>17, <2>18, <2>19, <2>20 DEF ProfileInv
<1> QED
  BY <1>7, <1>8

LEMMA ProfileOfSetting ==
    ASSUME Calls, ProfileInv, NEW on \in BOOLEAN, set_profiling(on) PROVE ProfileInv'
<1>1. /\ stack = <<>> /\ stack' = stack /\ timer' = timer /\ clock' = clock
      /\ profile'.on = on /\ profile'.self = Nothing /\ profile'.total = 0 /\ spent' = Nothing
  BY DEF set_profiling, Nothing
<1>2. Nothing \in [Wins -> Int]
  BY DEF Nothing
<1>3. timer = <<>> /\ Len(timer) <= Len(stack)
  BY <1>1, ProfileTypes DEF ProfileInv
<1>4. PICK z : z = Nothing
  OBVIOUS
<1> DEFINE g == [k \in 0..0 |-> z]
<1>5. g \in [0..0 -> [Wins -> Int]] /\ g[0] = z
  BY <1>2, <1>4
<1> HIDE DEF g
<1>6. Account(g)'
  <2>1. Len(stack)' = 0 /\ profile'.self = z /\ spent' = z /\ 1..0 = {}
    BY <1>1, <1>4
  <2> QED
    BY <1>5, <2>1 DEF Account
<1>7. Total(spent)' = 0
  <2>1. Total(Nothing) = 0
    BY BaseAssumption, TotalZero DEF Nothing
  <2> QED
    BY <1>1, <2>1
<1>8. Elapsed' = 0
  BY <1>1 DEF Elapsed
<1>9. Total(spent)' = (profile.total + Elapsed)'
  BY <1>1, <1>7, <1>8
<1> QED
  BY <1>1, <1>2, <1>3, <1>6, <1>9 DEF ProfileInv

LEMMA ProfileInit == Init => ProfileInv
<1> SUFFICES ASSUME Init PROVE ProfileInv
  OBVIOUS
<1>1. /\ stack = <<>> /\ timer = <<>> /\ spent = Nothing
      /\ profile.on = FALSE /\ profile.self = Nothing /\ profile.total = 0
  BY DEF Init, Nothing
<1>2. Nothing \in [Wins -> Int]
  BY DEF Nothing
<1> QED
  BY <1>1, <1>2 DEF ProfileInv

LEMMA ProfileStep == BaseInv /\ ProfileInv /\ [Next]_vars => ProfileInv'
<1> SUFFICES ASSUME BaseInv, ProfileInv, [Next]_vars PROVE ProfileInv'
  OBVIOUS
<1>1. Calls
  BY DEF BaseInv
<1>2. CASE UNCHANGED calls
  BY <1>2, ProfileKept
<1>3. CASE \E w \in Wins : call_function(w)
  BY <1>1, <1>3, ProfileOfCall
<1>4. CASE Return
  BY <1>1, <1>4, ProfileOfReturn
<1>5. CASE \E on \in BOOLEAN : set_profiling(on)
  BY <1>1, <1>5, ProfileOfSetting
<1>6. CASE Tick
  BY <1>1, <1>6, ProfileOfTick
<1>7. ASSUME NEW w \in Wins,
             \/ new_window(w) \/ delete_window(w) \/ get_function_handle(w)
             \/ \E const \in BOOLEAN : get_dataitem_handle(w, const)
             \/ \E lib \in Libs : load_module(lib, w) \/ load_module_fails(lib, w)
             \/ \E lib \in Libs, wname \in {w, NoName}, dodl \in BOOLEAN :
                   unload_module(lib, w, wname, dodl)
      PROVE  UNCHANGED calls
  BY <1>7 DEF new_window, delete_window, get_function_handle, get_dataitem_handle,
              load_module, load_module_fails, unload_module
<1>9. CASE unload_returns
  BY <1>2, <1>9 DEF unload_returns
<1>8. CASE UNCHANGED vars
  BY <1>2, <1>8 DEF vars, calls
<1> QED
  BY <1>2, <1>3, <1>4, <1>5, <1>6, <1>7, <1>8, <1>9 DEF Next

\* call_function and set_profiling: when no call is under way, the time on
\* record for each function is the time it ran itself, without the functions it
\* called, and the total is the sum of these, for any functions and any nesting
\* of the calls, whenever profiling was switched on or off.
THEOREM ProfileExactHolds == Spec => []ProfileExact
<1>1. BaseInv /\ ProfileInv => ProfileExact
  <2> SUFFICES ASSUME BaseInv, ProfileInv, stack = <<>>
               PROVE  depth = 0 /\ profile.self = spent /\ profile.total = FoldFunction(+, 0, spent)
    BY DEF ProfileExact
  <2>1. Calls /\ depth = 0
    BY DEF BaseInv, Calls
  <2>2. profile \in [on : BOOLEAN, self : [Wins -> Int], total : Nat]
    BY <2>1, ProfileTypes
  <2>3. CASE profile.on
    <3>1. PICK e : Account(e)
      BY <2>3 DEF ProfileInv
    <3>2. e[0] = profile.self /\ e[0] = spent
      BY <3>1 DEF Account
    <3>3. Total(spent) = profile.total + 0
      BY <2>3 DEF ProfileInv, Elapsed
    <3>4. profile.total = Total(spent)
      BY <2>2, <3>3
    <3> QED
      BY <2>1, <3>2, <3>4 DEF Total
  <2>4. CASE ~profile.on
    <3>1. profile.self = Nothing /\ spent = Nothing /\ profile.total = 0
      BY <2>4 DEF ProfileInv
    <3>2. Total(Nothing) = 0
      BY BaseAssumption, TotalZero DEF Nothing
    <3>3. profile.total = Total(spent)
      BY <3>1, <3>2
    <3> QED
      BY <2>1, <3>1, <3>3 DEF Total
  <2> QED
    BY <2>3, <2>4
<1>2. Init => ProfileInv
  BY ProfileInit
<1>3. BaseInv /\ ProfileInv /\ [Next]_vars => ProfileInv'
  BY ProfileStep
<1> QED
  BY <1>1, <1>2, <1>3, BaseInvariant, PTL DEF Spec
=============================================================================
