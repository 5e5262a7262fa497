--------------------------- MODULE RocinReadProofs ---------------------------
(* Proofs about writing and reading a window in parallel, for any number of   *)
(* processes, any data sets, control files and materials.  The inductive      *)
(* invariant says what each process has of a window when it has come to a     *)
(* place in the code, in terms of the data set alone (Expected, LocalOf,      *)
(* Loads): the collective calls carry nothing else from one process to the    *)
(* other, so the order in which the processes run does not matter.            *)
EXTENDS RocinRead, FiniteSetTheorems, SequenceTheorems, WellFoundedInduction, TLAPS

------------------------------------------------------------------------------
(* Sequences *)

\* A set of numbers has a least one.
LEMMA LeastNatural ==
    ASSUME NEW S \in SUBSET Nat, S # {}
    PROVE  \E m \in S : \A k \in S : m <= k
<1>1. PICK m \in S : \A y \in S : ~(<<y, m>> \in OpToRel(<, Nat))
  BY WFMin, NatLessThanWellFounded, Zenon
<1>2. \A k \in S : ~(k < m)
  BY <1>1 DEF OpToRel
<1> QED
  BY <1>2

\* g[i] is the first i sequences of s, one after the other.
Joins(g, s, n) == g = [i \in 1..n |-> IF i = 1 THEN s[i] ELSE g[i - 1] \o s[i]]

\* They exist: this stands for an induction on n.
LEMMA JoinsExist ==
    ASSUME NEW s, NEW n \in Nat
    PROVE  \E g : Joins(g, s, n)
<1> SUFFICES ASSUME ~\E g : Joins(g, s, n) PROVE FALSE
  OBVIOUS
<1> DEFINE Bad == {m \in Nat : ~\E g : Joins(g, s, m)}
<1>1. PICK m \in Bad : \A k \in Bad : m <= k
  BY LeastNatural
<1>2. m # 0
  <2> DEFINE e == [i \in 1..0 |-> 0]
  <2>1. e = [i \in 1..0 |-> IF i = 1 THEN s[i] ELSE e[i - 1] \o s[i]]
    OBVIOUS
  <2> QED
    BY <2>1 DEF Joins
<1>3. PICK h : Joins(h, s, m - 1)
  <2>1. m - 1 \in Nat /\ ~(m <= m - 1)
    BY <1>2
  <2> QED
    BY <1>1, <2>1
<1> DEFINE top == IF m = 1 THEN s[m] ELSE h[m - 1] \o s[m]
           g == [i \in 1..m |-> IF i = m THEN top ELSE h[i]]
<1>4. \A i \in 1..m : g[i] = IF i = 1 THEN s[i] ELSE g[i - 1] \o s[i]
  <2> SUFFICES ASSUME NEW i \in 1..m PROVE g[i] = IF i = 1 THEN s[i] ELSE g[i - 1] \o s[i]
    OBVIOUS
  <2>1. CASE i = m
    <3>1. m # 1 => m - 1 \in 1..m /\ m - 1 # m
      BY <1>2
    <3>2. m # 1 => g[m - 1] = h[m - 1]
      BY <3>1
    <3> QED
      BY <2>1, <3>2
  <2>2. CASE i # m
    <3>1. i \in 1..m - 1
      BY <2>2
    <3>2. h[i] = IF i = 1 THEN s[i] ELSE h[i - 1] \o s[i]
      BY <1>3, <3>1 DEF Joins
    <3>3. i # 1 => g[i - 1] = h[i - 1]
      BY <3>1
    <3> QED
      BY <2>2, <3>2, <3>3
  <2> QED
    BY <2>1, <2>2
<1>5. g = [i \in 1..m |-> g[i]]
  OBVIOUS
<1> HIDE DEF g
<1>6. Joins(g, s, m)
  BY <1>4, <1>5 DEF Joins
<1> QED
  BY <1>1, <1>6

\* What FlattenSeq makes of a sequence of sequences has their elements.
LEMMA Flattened ==
    ASSUME NEW T, NEW s \in Seq(Seq(T))
    PROVE  /\ FlattenSeq(s) \in Seq(T)
           /\ Range(FlattenSeq(s)) = UNION {Range(s[j]) : j \in DOMAIN s}
<1> DEFINE n == Len(s)
           flatten[i \in 1..n] == IF i = 1 THEN s[i] ELSE flatten[i - 1] \o s[i]
<1>1. n \in Nat /\ DOMAIN s = 1..n /\ \A j \in 1..n : s[j] \in Seq(T)
  OBVIOUS
<1>2. CASE n = 0
  <2>1. s = <<>> /\ FlattenSeq(s) = s
    BY <1>2 DEF FlattenSeq
  <2>2. <<>> \in Seq(T) /\ DOMAIN s = {} /\ Range(<<>>) = {}
    BY <1>1, <1>2 DEF Range
  <2>3. {Range(s[j]) : j \in DOMAIN s} = {}
    BY <2>2
  <2> QED
    BY <2>1, <2>2, <2>3
<1>3. CASE n # 0
  <2>1. FlattenSeq(s) = flatten[n]
    BY <1>3 DEF FlattenSeq
  <2>2. Joins(flatten, s, n)
    <3>1. \E g : Joins(g, s, n)
      BY <1>1, JoinsExist
    <3> QED
      BY <3>1 DEF Joins
  <2> HIDE DEF flatten, n
  <2>3. \A i \in 1..n : flatten[i] = IF i = 1 THEN s[i] ELSE flatten[i - 1] \o s[i]
    BY <2>2 DEF Joins
  <2> DEFINE Good(i) == flatten[i] \in Seq(T) /\ Range(flatten[i]) = UNION {Range(s[j]) : j \in 1..i}
             Bad == {i \in 1..n : ~Good(i)}
  <2>4. Bad = {}
    <3> SUFFICES ASSUME Bad # {} PROVE FALSE
      OBVIOUS
    <3>1. PICK i \in Bad : \A k \in Bad : i <= k
      <4>1. Bad \in SUBSET Nat
        BY <1>1
      <4> QED
        BY <4>1, LeastNatural
    <3>2. i \in 1..n /\ ~Good(i)
      OBVIOUS
    <3>3. i # 1
      <4>1. Good(1)
        <5>1. flatten[1] = s[1] /\ 1 \in 1..n
          BY <1>1, <1>3, <2>3
        <5>2. UNION {Range(s[j]) : j \in 1..1} = Range(s[1])
          OBVIOUS
        <5> QED
          BY <1>1, <5>1, <5>2
      <4> QED
        BY <3>2, <4>1
    <3>4. i - 1 \in 1..n /\ ~(i <= i - 1)
      BY <1>1, <3>2, <3>3
    <3>5. Good(i - 1)
      BY <3>1, <3>4
    <3>6. flatten[i] = flatten[i - 1] \o s[i] /\ s[i] \in Seq(T)
      BY <1>1, <2>3, <3>2, <3>3
    <3>7. flatten[i] \in Seq(T)
      BY <3>5, <3>6
    <3>8. Range(flatten[i]) = Range(flatten[i - 1]) \cup Range(s[i])
      BY <3>5, <3>6, RangeConcatenation
    <3>9. {Range(s[j]) : j \in 1..i} = {Range(s[j]) : j \in 1..i - 1} \cup {Range(s[i])}
      BY <1>1, <3>2, <3>3
    <3> QED
      BY <3>2, <3>5, <3>7, <3>8, <3>9
  <2>5. Good(n)
    <3>1. n \in 1..n
      BY <1>1, <1>3
    <3> HIDE DEF Good
    <3> QED
      BY <2>4, <3>1
  <2>6. {Range(s[j]) : j \in 1..n} = {Range(s[j]) : j \in DOMAIN s}
    BY <1>1
  <2> QED
    BY <2>1, <2>5, <2>6
<1> QED
  BY <1>2, <1>3

\* Keep leaves the blocks that are in S.
LEMMA Kept ==
    ASSUME NEW T, NEW bs \in Seq(T), NEW S
    PROVE  Keep(bs, S) \in Seq(T) /\ Range(Keep(bs, S)) = Range(bs) \cap S
<1> DEFINE s == [n \in DOMAIN bs |-> IF bs[n] \in S THEN <<bs[n]>> ELSE <<>>]
<1>1. s \in Seq(Seq(T)) /\ DOMAIN s = DOMAIN bs
  <2>1. Len(bs) \in Nat /\ DOMAIN bs = 1..Len(bs) /\ \A n \in DOMAIN bs : bs[n] \in T
    OBVIOUS
  <2>2. \A n \in DOMAIN bs : s[n] \in Seq(T)
    BY <2>1
  <2> HIDE DEF s
  <2>3. s \in [1..Len(bs) -> Seq(T)]
    BY <2>1, <2>2 DEF s
  <2> QED
    BY <2>1, <2>3
<1>2. \A n \in DOMAIN bs : Range(s[n]) = IF bs[n] \in S THEN {bs[n]} ELSE {}
  BY DEF Range
<1>3. Keep(bs, S) = FlattenSeq(s)
  BY DEF Keep
<1> HIDE DEF s
<1>4. Keep(bs, S) \in Seq(T) /\ Range(Keep(bs, S)) = UNION {Range(s[j]) : j \in DOMAIN s}
  BY <1>1, <1>3, Flattened
<1>5. ASSUME NEW x PROVE x \in UNION {Range(s[j]) : j \in DOMAIN s} <=> x \in Range(bs) /\ x \in S
  <2>1. x \in UNION {Range(s[j]) : j \in DOMAIN s} <=> \E n \in DOMAIN bs : x \in Range(s[n])
    BY <1>1
  <2>2. (\E n \in DOMAIN bs : x \in Range(s[n])) <=> \E n \in DOMAIN bs : bs[n] = x /\ x \in S
    BY <1>2
  <2> QED
    BY <2>1, <2>2 DEF Range
<1> QED
  BY <1>4, <1>5

\* Distinct loses no name.
LEMMA DistinctNames ==
    ASSUME NEW names \in Seq(Names)
    PROVE  Distinct[names] \in Seq(Names) /\ Range(Distinct[names]) = Range(names)
<1> DEFINE Again(n) == \E m \in 1..n - 1 : names[m] = names[n]
           s == [n \in DOMAIN names |-> IF Again(n) THEN <<>> ELSE <<names[n]>>]
<1>1. Len(names) \in Nat /\ DOMAIN names = 1..Len(names) /\ \A n \in DOMAIN names : names[n] \in Names
  OBVIOUS
<1>2. Distinct[names] = FlattenSeq(s)
  BY DEF Distinct
<1>3. \A n \in DOMAIN names : s[n] = IF Again(n) THEN <<>> ELSE <<names[n]>>
  OBVIOUS
<1>4. DOMAIN s = DOMAIN names
  OBVIOUS
<1>5. s \in Seq(Seq(Names))
  <2>1. \A n \in 1..Len(names) : s[n] \in Seq(Names)
    <3> SUFFICES ASSUME NEW n \in 1..Len(names) PROVE s[n] \in Seq(Names)
      OBVIOUS
    <3>1. s[n] = <<>> \/ s[n] = <<names[n]>>
      BY <1>1, <1>3
    <3> HIDE DEF s
    <3>2. <<names[n]>> \in Seq(Names) /\ <<>> \in Seq(Names)
      BY <1>1
    <3> QED
      BY <3>1, <3>2
  <2>2. s \in [1..Len(names) -> Seq(Names)]
    BY <1>1, <2>1
  <2> HIDE DEF s
  <2> QED
    BY <1>1, <2>2
<1> HIDE DEF s
<1>6. Distinct[names] \in Seq(Names) /\ Range(Distinct[names]) = UNION {Range(s[j]) : j \in DOMAIN s}
  BY <1>2, <1>5, Flattened
<1>7. ASSUME NEW x, x \in UNION {Range(s[j]) : j \in DOMAIN s} PROVE x \in Range(names)
  <2>1. PICK n \in DOMAIN names : x \in Range(s[n])
    BY <1>4, <1>7
  <2>2. s[n] = <<>> \/ s[n] = <<names[n]>>
    BY <1>3
  <2>3. x = names[n]
    BY <2>1, <2>2 DEF Range
  <2> QED
    BY <2>3 DEF Range
<1>8. ASSUME NEW x, x \in Range(names) PROVE x \in UNION {Range(s[j]) : j \in DOMAIN s}
  <2> DEFINE At == {n \in DOMAIN names : names[n] = x}
  <2>1. At # {} /\ At \in SUBSET Nat
    BY <1>1, <1>8 DEF Range
  <2>2. PICK n \in At : \A m \in At : n <= m
    BY <2>1, LeastNatural
  <2>3. ~Again(n)
    <3>1. \A m \in 1..n - 1 : m \in DOMAIN names /\ ~(n <= m)
      BY <1>1
    <3> QED
      BY <2>2, <3>1
  <2> HIDE DEF Again
  <2>4. s[n] = <<x>>
    BY <1>3, <2>3
  <2>5. x \in Range(s[n])
    BY <2>4 DEF Range
  <2> QED
    BY <1>4, <2>5
<1> QED
  BY <1>6, <1>7, <1>8

\* The names of the dataitems of some blocks
LEMMA NamesOfBlocks ==
    ASSUME NEW bs \in Seq(Blocks)
    PROVE  /\ ItemNames[bs] \in Seq(Names)
           /\ Range(ItemNames[bs]) = UNION {Range(bs[n].items) : n \in DOMAIN bs}
<1> DEFINE s == [n \in DOMAIN bs |-> bs[n].items]
<1>1. ItemNames[bs] = Distinct[FlattenSeq(s)]
  BY DEF ItemNames
<1>2. s \in Seq(Seq(Names)) /\ DOMAIN s = DOMAIN bs
  <2>1. Len(bs) \in Nat /\ DOMAIN bs = 1..Len(bs)
    OBVIOUS
  <2>2. \A n \in 1..Len(bs) : bs[n] \in Blocks
    OBVIOUS
  <2>3. \A n \in 1..Len(bs) : bs[n].items \in Seq(Names)
    BY <2>2 DEF Blocks
  <2>4. s \in [1..Len(bs) -> Seq(Names)]
    BY <2>1, <2>3
  <2> QED
    BY <2>1, <2>4
<1>3. {Range(s[j]) : j \in DOMAIN s} = {Range(bs[n].items) : n \in DOMAIN bs}
  OBVIOUS
<1> HIDE DEF s
<1>4. FlattenSeq(s) \in Seq(Names) /\ Range(FlattenSeq(s)) = UNION {Range(s[j]) : j \in DOMAIN s}
  BY <1>2, Flattened
<1> QED
  BY <1>1, <1>3, <1>4, DistinctNames

------------------------------------------------------------------------------
(* What is on disk *)

\* What process 0 lists: the panes of each process, and where it finds them.
Listed ==
    [k \in 1..NProcs |-> [proc  |-> k - 1,
                          files |-> IF PanesOf(k - 1) = {} THEN {} ELSE Matching(k - 1),
                          sec   |-> ListedPanes(k - 1)]]

\* Panes that their process has put into a file
Out == {p \in DOMAIN disk.owner :
           ~(pc[disk.owner[p]] = "write" /\ p \in out[disk.owner[p]].todo)}

\* The file that a pane is written to
FileOf(p) == get_fname(disk.owner[p], p)

\* A file has only blocks of panes that belong there and all that were
\* written; the writer knows which files it has begun.
WriteOK ==
    /\ disk.owner = <<>> => \A r \in Ranks : pc[r] \notin WriteLabels
    /\ disk.owner # <<>> =>
         /\ disk.mats = <<>> /\ disk.time \in {NoTime, Level}
         /\ Len(disk.files) = NProcs * Len(disk.owner)
         /\ disk.rw = 0 /\ disk.pw = 0 => \A p, q \in DOMAIN disk.owner : disk.owner[p] = disk.owner[q]
         /\ \A f \in DOMAIN disk.files : \A b \in Range(disk.files[f]) :
              \E p \in DOMAIN disk.owner : b = PaneBlock(p) /\ FileOf(p) = f
         /\ \A p \in Out : PaneBlock(p) \in Range(disk.files[FileOf(p)])
         /\ \A r \in Ranks :
              /\ out[r].todo \in SUBSET PanesOf(r)
              /\ pc[r] = "write" => out[r].written = {FileOf(p) : p \in PanesOf(r) \ out[r].todo}
         /\ pc[0] \notin {"write", "control"} => disk.control = Listed

\* The data set is well formed, also while it is written.
DiskOK ==
    /\ disk \in DataSet
    /\ disk.mats # <<>> => disk.control = <<>> /\ All \notin Range(disk.mats)
    /\ out \in [Ranks -> [todo : SUBSET Int, written : SUBSET Int]]

------------------------------------------------------------------------------
(* What a process reads *)

\* An empty section that is not the last: the files of the block are ignored.
Ignored(r) ==
    LET b == disk.control[MyBlock(r)]
    IN MyBlock(r) < Len(disk.control) /\ b.sec.kind = "explicit" /\ b.sec.ids = {}

\* The blocks that process r has of all windows, and its rule
Mine(r) ==
    IF disk.mats # <<>> THEN scan_files(disk.patterns[r])
    ELSE IF MyBlock(r) = 0 \/ Ignored(r) THEN <<>> ELSE scan_files(disk.control[MyBlock(r)].files)

MyRule(r) ==
    IF disk.mats # <<>> \/ MyBlock(r) = 0 \/ Ignored(r) THEN NoRule
    ELSE SectionRule(disk.control[MyBlock(r)].sec, r)

\* Of one window: its blocks, the local panes, whether the window is skipped
\* and whether the window data is loaded
MineOf(r, w) == OfWindow(Mine(r), w)
LocalOf(r, w) == {MineOf(r, w)[n].pane : n \in {m \in DOMAIN MineOf(r, w) : IsLocal(MyRule(r), MineOf(r, w)[m].pane, r)}}
Skipped(r, w) == disk.mats # <<>> /\ MineOf(r, w) = <<>>
Loads(r, w) == LoadsWindowData(MineOf(r, w), LocalOf(r, w))

\* What all processes together have of a window
Expected(w) == Distinct[FlattenSeq([n \in 1..NProcs |-> ItemNames[MineOf(n - 1, w)]])]
\* The processes with a block, and whether there is window data to send
Full(w) == {q \in Ranks : MineOf(q, w) # <<>>}
Sends(w) == Full(w) # Ranks /\ "w" \in Range(Expected(w))

------------------------------------------------------------------------------
(* The inductive invariant *)

\* The types of the variables
Ops == {"items", "empty", "bcast", "init_done"}
Values == Seq(Names) \cup BOOLEAN \cup [root : Int, data : {Unset, Written}] \cup SUBSET Int
Messages == [op : Ops, win : Range(Windows), val : Values]
WindowStates == [items : Seq(Names), panes : SUBSET Int, data : {Unset, Written}]

Types ==
    /\ pc \in [Ranks -> Labels]
    /\ wi \in [Ranks -> Nat]
    /\ \A r \in Ranks : wi[r] \in 1..Len(Windows) + 1
    /\ DOMAIN rule = Ranks /\ DOMAIN blocks = Ranks
    /\ \A r \in Ranks : rule[r].kind \in {"none", "explicit", "cyclic", "blockcyclic"}
    /\ win \in [Ranks -> [Range(Windows) -> WindowStates]]
    /\ posted \in [Ranks -> Seq(Messages)]

\* Nobody reads before all have written.
Phase == \A r, q \in Ranks : pc[r] \in WriteLabels => pc[q] \in WriteLabels

\* The window a process is at, and those it is through with
Current(r) == Windows[wi[r]]
Behind(r, w) == \E n \in 1..wi[r] - 1 : Windows[n] = w
\* The process is through with w, or is at it and has come to one of the labels.
Past(r, w, labels) == Behind(r, w) \/ (pc[r] \in labels /\ w = Current(r))

\* A process that has not begun to read
Fresh(r) == wi[r] = 1 /\ posted[r] = <<>> /\ \A w \in Range(Windows) : win[r][w] = NoWindow

Unread(r) == rule[r] = NoRule /\ blocks[r] = <<>>

\* The labels at which a process is in a window
InWindow == {"items", "register", "fault", "load", "empty", "bcast", "init_done"}

\* What a process knows by where it is
ControlOK(r) ==
    /\ pc[r] \in WriteLabels \cup {"start", "gaveup"} => Fresh(r) /\ Unread(r)
    /\ pc[r] \in InWindow \cup {"next"} => blocks[r] = Mine(r) /\ rule[r] = MyRule(r)
    /\ pc[r] \in InWindow => wi[r] <= Len(Windows) /\ ~Skipped(r, Current(r))
    /\ pc[r] = "done" => wi[r] = Len(Windows) + 1

\* A window gets its items, its panes and its data in this order, and each is
\* what all processes together have, or what the rule keeps.
WindowOK(r, w) ==
    /\ Skipped(r, w) => win[r][w].items = <<>>
    /\ ~Skipped(r, w) /\ Past(r, w, InWindow \ {"items"}) => win[r][w].items = Expected(w)
    /\ win[r][w].panes = {} \/ win[r][w].panes = LocalOf(r, w)
    /\ Past(r, w, {"load", "empty", "bcast", "init_done"}) => win[r][w].panes = LocalOf(r, w)
    /\ pc[r] \in {"empty", "bcast"} /\ w = Current(r) /\ Loads(r, w) => win[r][w].data = Written
    /\ ~Skipped(r, w) /\ Past(r, w, {"init_done"}) /\ Loads(IF Sends(w) THEN Root(Full(w)) ELSE r, w) => win[r][w].data = Written

\* After "empty" all make the same call.
AfterEmpty(r, n) ==
    LET c == posted[r][n]
        w == posted[r][n - 1].win
    IN /\ c.win = w
       /\ \A q \in Ranks : Len(posted[q]) >= n - 1 /\ posted[q][n - 1].op = "empty" /\ posted[q][n - 1].win = w
       /\ Sends(w) => /\ c.op = "bcast" /\ c.val \in [root : {Root(Full(w))}, data : {Unset, Written}]
                      /\ Loads(r, w) => c.val.data = Written
       /\ ~Sends(w) => c.op = "init_done"

\* What a process contributes to a call does not depend on when it makes it.
CallOK(r, n) ==
    LET c == posted[r][n]
    IN /\ c.op = "items" => c.val = ItemNames[MineOf(r, c.win)]
       /\ c.op = "empty" => c.val = (MineOf(r, c.win) = <<>>)
       /\ c.op = "bcast" => n > 1 /\ posted[r][n - 1].op = "empty"
       /\ n > 1 /\ posted[r][n - 1].op = "empty" => AfterEmpty(r, n)

\* The label at which a process waits in its latest call
LatestOK(r) ==
    LET c == posted[r][Len(posted[r])]
    IN /\ pc[r] \in InWindow =>
            /\ posted[r] # <<>> /\ c.win = Current(r)
            /\ c.op = IF pc[r] \in Ops THEN pc[r] ELSE "items"
       /\ pc[r] = "next" /\ posted[r] # <<>> => c.op = "init_done"

\* All that is known of one process
ProcessOK(r) ==
    /\ ControlOK(r)
    /\ \A w \in Range(Windows) : WindowOK(r, w)
    /\ \A n \in DOMAIN posted[r] : CallOK(r, n)
    /\ LatestOK(r)

\* The inductive invariant
IInv == DiskOK /\ WriteOK /\ Types /\ Phase /\ \A r \in Ranks : ProcessOK(r)

------------------------------------------------------------------------------
(* Facts about the definitions *)

\* While nobody writes, nothing changes of what there is to read.
DiskSame ==
    /\ Windows' = Windows
    /\ \A r : Mine(r)' = Mine(r) /\ MyRule(r)' = MyRule(r) /\ MyBlock(r)' = MyBlock(r) /\ GivesUp(r)' = GivesUp(r)
    /\ \A r, w : MineOf(r, w)' = MineOf(r, w) /\ LocalOf(r, w)' = LocalOf(r, w)
    /\ \A r, w : (Skipped(r, w)' <=> Skipped(r, w)) /\ (Loads(r, w)' <=> Loads(r, w))
    /\ \A w : Expected(w)' = Expected(w) /\ Full(w)' = Full(w) /\ (Sends(w)' <=> Sends(w))

\* So it is.
LEMMA DiskKept == disk' = disk => DiskSame
<1> SUFFICES ASSUME disk' = disk PROVE DiskSame
  OBVIOUS
<1>1. Windows' = Windows
  BY DEF Windows
<1>2. \A names : scan_files(names)' = scan_files(names)
  BY DEF scan_files, Grouped, Found, TimeLevel, Keep
<1>3. \A r : MyBlock(r)' = MyBlock(r)
  BY DEF MyBlock
<1>4. \A r : GivesUp(r)' = GivesUp(r)
  BY DEF GivesUp
<1>5. \A r : Ignored(r)' = Ignored(r)
  BY <1>3 DEF Ignored
<1>6. \A r : Mine(r)' = Mine(r)
  BY <1>2, <1>3, <1>5 DEF Mine
<1>7. \A r : MyRule(r)' = MyRule(r)
  BY <1>3, <1>5 DEF MyRule
<1>8. \A r, w : MineOf(r, w)' = MineOf(r, w)
  BY <1>6 DEF MineOf, OfWindow, Keep
<1>9. \A r, w : LocalOf(r, w)' = LocalOf(r, w)
  BY <1>7, <1>8 DEF LocalOf
<1>10. \A r, w : Skipped(r, w)' <=> Skipped(r, w)
  BY <1>8 DEF Skipped
<1>11. \A r, w : Loads(r, w)' <=> Loads(r, w)
  BY <1>8, <1>9 DEF Loads, LoadsWindowData
<1>12. \A w : Expected(w)' = Expected(w)
  BY <1>8 DEF Expected
<1>13. \A w : Full(w)' = Full(w)
  BY <1>8 DEF Full
<1>14. \A w : Sends(w)' <=> Sends(w)
  BY <1>12, <1>13 DEF Sends
<1> QED
  BY <1>1, <1>3, <1>4, <1>6, <1>7, <1>8, <1>9, <1>10, <1>11, <1>12, <1>13, <1>14 DEF DiskSame

\* The fields of a data set
LEMMA DataSetFields ==
    ASSUME disk \in DataSet
    PROVE  /\ disk.files \in Seq(Seq(Blocks)) /\ disk.control \in Seq(ControlBlocks) /\ disk.mats \in Seq(Names)
           /\ disk.patterns \in [Ranks -> SUBSET Int] /\ disk.time \in Int /\ disk.owner \in Seq(Ranks)
           /\ disk.rw \in Nat /\ disk.pw \in Nat
  BY DEF DataSet

\* There is at least one window; with a control file it is the window of all.
LEMMA WindowList ==
    ASSUME disk \in DataSet
    PROVE  /\ Windows \in Seq(Names) /\ Len(Windows) \in Nat \ {0}
           /\ DOMAIN Windows = 1..Len(Windows)
           /\ Range(Windows) = {Windows[n] : n \in 1..Len(Windows)}
           /\ Range(Windows) \in SUBSET Names
           /\ disk.mats = <<>> => Windows = <<All>> /\ Len(Windows) = 1 /\ Range(Windows) = {All}
<1>1. disk.mats \in Seq(Names)
  BY DataSetFields
<1>2. CASE disk.mats = <<>>
  <2>1. Windows = <<All>>
    BY <1>2 DEF Windows
  <2>2. All \in Names
    BY DataSetsAssumption
  <2>3. PICK a : a = All
    OBVIOUS
  <2>4. Windows = <<a>> /\ a \in Names
    BY <2>1, <2>2, <2>3, Zenon
  <2>5. Windows \in Seq(Names) /\ Len(Windows) = 1 /\ DOMAIN Windows = 1..1 /\ Windows[1] = a
    BY <2>4
  <2>6. Range(Windows) = {a}
    BY <2>5 DEF Range
  <2>7. {Windows[n] : n \in 1..Len(Windows)} = {a}
    BY <2>5
  <2>8. Windows = <<All>>
    BY <1>2, Zenon DEF Windows
  <2>9. /\ Windows \in Seq(Names) /\ Len(Windows) \in Nat \ {0}
        /\ DOMAIN Windows = 1..Len(Windows)
        /\ Range(Windows) = {Windows[n] : n \in 1..Len(Windows)} /\ Range(Windows) \in SUBSET Names
        /\ Len(Windows) = 1
    BY <2>4, <2>5, <2>6, <2>7
  <2> QED
    BY <2>3, <2>6, <2>8, <2>9
<1>3. CASE disk.mats # <<>>
  <2>1. Windows = disk.mats
    BY <1>3 DEF Windows
  <2> QED
    BY <1>1, <1>3, <2>1 DEF Range
<1> QED
  BY <1>2, <1>3

\* Scanning finds the blocks of the files that are named.
LEMMA FoundBlocks ==
    ASSUME disk \in DataSet, NEW names
    PROVE  /\ Found(names) \in Seq(Blocks)
           /\ Range(Found(names)) = UNION {Range(disk.files[f]) : f \in names \cap DOMAIN disk.files}
<1> DEFINE s == [f \in DOMAIN disk.files |-> IF f \in names THEN disk.files[f] ELSE <<>>]
<1>1. Found(names) = FlattenSeq(s)
  BY DEF Found
<1>2. PICK F : F = disk.files
  OBVIOUS
<1>3. F \in Seq(Seq(Blocks))
  BY <1>2, DataSetFields
<1> DEFINE B == Blocks
<1> HIDE DEF B
<1>4. F \in Seq(Seq(B))
  BY <1>3 DEF B
<1>5. s \in Seq(Seq(B)) /\ DOMAIN s = DOMAIN F
  <2>1. Len(F) \in Nat /\ DOMAIN F = 1..Len(F) /\ \A f \in 1..Len(F) : F[f] \in Seq(B)
    BY <1>4
  <2>2. \A f \in 1..Len(F) : (IF f \in names THEN F[f] ELSE <<>>) \in Seq(B)
    BY <2>1
  <2>3. s = [f \in 1..Len(F) |-> IF f \in names THEN F[f] ELSE <<>>]
    BY <1>2, <2>1
  <2>4. s \in [1..Len(F) -> Seq(B)]
    BY <2>2, <2>3
  <2> HIDE DEF s
  <2> QED
    BY <2>1, <2>4
<1>6. \A f \in DOMAIN F : s[f] = IF f \in names THEN F[f] ELSE <<>>
  BY <1>2
<1> HIDE DEF s
<1>7. FlattenSeq(s) \in Seq(B) /\ Range(FlattenSeq(s)) = UNION {Range(s[f]) : f \in DOMAIN s}
  BY <1>5, Flattened
<1>8. Range(<<>>) = {}
  BY DEF Range
<1>9. UNION {Range(s[f]) : f \in DOMAIN s} = UNION {Range(F[f]) : f \in names \cap DOMAIN F}
  <2>1. ASSUME NEW x PROVE (\E f \in DOMAIN F : x \in Range(s[f])) <=> \E f \in names \cap DOMAIN F : x \in Range(F[f])
    BY <1>6, <1>8
  <2> QED
    BY <1>5, <2>1
<1> QED
  BY <1>1, <1>2, <1>7, <1>9 DEF B

\* Grouping by material loses no block of the time level.
LEMMA ScannedBlocks ==
    ASSUME disk \in DataSet, NEW names
    PROVE  /\ scan_files(names) \in Seq(Blocks)
           /\ Range(scan_files(names)) =
                {b \in Range(Found(names)) : b.time = TimeLevel(Found(names)) /\ b.mat \in Range(MatOrder)}
<1> DEFINE B == Blocks
<1>1. PICK found : found = Found(names)
  OBVIOUS
<1>2. PICK level : level = TimeLevel(found)
  OBVIOUS
<1>3. found \in Seq(B)
  BY <1>1, FoundBlocks
<1> DEFINE S(n) == {b \in Range(found) : b.time = level /\ b.mat = MatOrder[n]}
           s == [n \in DOMAIN MatOrder |-> Keep(found, S(n))]
<1>4. scan_files(names) = FlattenSeq(s)
  BY <1>1, <1>2, <1>3 DEF scan_files, Grouped
<1> HIDE DEF B, S
<1>5. \A n : Keep(found, S(n)) \in Seq(B) /\ Range(Keep(found, S(n))) = Range(found) \cap S(n)
  BY <1>3, Kept
<1>6. s \in Seq(Seq(B)) /\ DOMAIN s = DOMAIN MatOrder /\ \A n \in DOMAIN s : s[n] = Keep(found, S(n))
  <2>1. Len(MatOrder) \in Nat /\ DOMAIN MatOrder = 1..Len(MatOrder)
    BY DataSetsAssumption
  <2>2. s \in [1..Len(MatOrder) -> Seq(B)]
    BY <1>5, <2>1
  <2> QED
    BY <2>1, <2>2
<1> HIDE DEF s
<1>7. FlattenSeq(s) \in Seq(B) /\ Range(FlattenSeq(s)) = UNION {Range(s[n]) : n \in DOMAIN s}
  BY <1>6, Flattened
<1>8. ASSUME NEW b
      PROVE  b \in UNION {Range(s[n]) : n \in DOMAIN s} <=>
                 b \in Range(found) /\ b.time = level /\ b.mat \in Range(MatOrder)
  <2>1. b \in UNION {Range(s[n]) : n \in DOMAIN s} <=> \E n \in DOMAIN MatOrder : b \in Range(found) \cap S(n)
    BY <1>5, <1>6
  <2>2. \A n : b \in Range(found) \cap S(n) <=> b \in Range(found) /\ b.time = level /\ b.mat = MatOrder[n]
    BY DEF S
  <2>3. b.mat \in Range(MatOrder) <=> \E n \in DOMAIN MatOrder : b.mat = MatOrder[n]
    BY DEF Range
  <2> QED
    BY <2>1, <2>2, <2>3
<1> QED
  BY <1>1, <1>2, <1>4, <1>7, <1>8 DEF B

\* The block of a process is the first that mentions it.
LEMMA MyBlockFacts ==
    ASSUME disk \in DataSet, NEW r
    PROVE  /\ MyBlock(r) \in {0} \cup DOMAIN disk.control
           /\ MyBlock(r) \in Nat
           /\ MyBlock(r) # 0 => disk.control[MyBlock(r)] \in ControlBlocks
                             /\ disk.control[MyBlock(r)].proc \in {r, AnyProc}
                             /\ \A k \in DOMAIN disk.control : disk.control[k].proc = r => MyBlock(r) <= k
           /\ (\E k \in DOMAIN disk.control : disk.control[k].proc \in {r, AnyProc}) => MyBlock(r) # 0
<1> DEFINE mine == {k \in DOMAIN disk.control : disk.control[k].proc \in {r, AnyProc}}
<1> DEFINE CB == ControlBlocks
<1> HIDE DEF CB
<1>1. disk.control \in Seq(CB)
  BY DataSetFields DEF CB
<1>2. DOMAIN disk.control \in SUBSET (Nat \ {0}) /\ \A k \in DOMAIN disk.control : disk.control[k] \in CB
  BY <1>1
<1>3. MyBlock(r) = IF mine = {} THEN 0 ELSE CHOOSE k \in mine : \A m \in mine : k <= m
  BY DEF MyBlock
<1>4. mine # {} => \E k \in mine : \A m \in mine : k <= m
  <2>1. mine \in SUBSET Nat
    BY <1>2
  <2> QED
    BY <2>1, LeastNatural
<1>5. mine # {} => MyBlock(r) \in mine /\ \A m \in mine : MyBlock(r) <= m
  BY <1>3, <1>4
<1>6. mine = {} => MyBlock(r) = 0
  BY <1>3
<1> QED
  BY <1>2, <1>5, <1>6 DEF CB

\* What a process has of a window
LEMMA MineTypes ==
    ASSUME disk \in DataSet, NEW r \in Ranks, NEW w
    PROVE  /\ Mine(r) \in Seq(Blocks) /\ MineOf(r, w) \in Seq(Blocks)
           /\ ItemNames[MineOf(r, w)] \in Seq(Names)
           /\ LocalOf(r, w) \in SUBSET Int
           /\ MineOf(r, w) = <<>> => LocalOf(r, w) = {}
           /\ w = All => MineOf(r, w) = Mine(r)
           /\ w # All => Range(MineOf(r, w)) = {b \in Range(Mine(r)) : b.mat = w}
<1> DEFINE B == Blocks
<1>1. \A names : scan_files(names) \in Seq(B)
  BY ScannedBlocks
<1>2. Mine(r) \in Seq(B)
  <2> HIDE DEF B
  <2>1. <<>> \in Seq(B)
    OBVIOUS
  <2> QED
    BY <1>1, <2>1 DEF Mine
<1>3. w = All => MineOf(r, w) = Mine(r)
  BY DEF MineOf, OfWindow
<1>4. w # All => MineOf(r, w) = Keep(Mine(r), {b \in Range(Mine(r)) : b.mat = w})
  BY DEF MineOf, OfWindow
<1> HIDE DEF B
<1>5. w # All => MineOf(r, w) \in Seq(B) /\ Range(MineOf(r, w)) = Range(Mine(r)) \cap {b \in Range(Mine(r)) : b.mat = w}
  BY <1>2, <1>4, Kept
<1>6. MineOf(r, w) \in Seq(B)
  BY <1>2, <1>3, <1>5
<1>7. ItemNames[MineOf(r, w)] \in Seq(Names)
  BY <1>6, NamesOfBlocks DEF B
<1>8. \A n \in DOMAIN MineOf(r, w) : MineOf(r, w)[n] \in B
  BY <1>6
<1>9. \A b \in B : b.pane \in Int
  BY DEF B, Blocks
<1>10. LocalOf(r, w) \in SUBSET Int
  BY <1>8, <1>9 DEF LocalOf
<1>11. MineOf(r, w) = <<>> => LocalOf(r, w) = {}
  BY DEF LocalOf
<1> QED
  BY <1>2, <1>3, <1>5, <1>6, <1>7, <1>10, <1>11 DEF B

\* All names that some process has
LEMMA ExpectedNames ==
    ASSUME disk \in DataSet, NEW w
    PROVE  /\ Expected(w) \in Seq(Names)
           /\ Range(Expected(w)) = UNION {Range(ItemNames[MineOf(q, w)]) : q \in Ranks}
<1> DEFINE s == [n \in 1..NProcs |-> ItemNames[MineOf(n - 1, w)]]
<1>1. \A n \in 1..NProcs : n - 1 \in Ranks
  BY NProcsAssumption DEF Ranks
<1>2. \A n \in 1..NProcs : ItemNames[MineOf(n - 1, w)] \in Seq(Names)
  BY <1>1, MineTypes
<1>3. s \in Seq(Seq(Names)) /\ DOMAIN s = 1..NProcs
  <2>1. s \in [1..NProcs -> Seq(Names)]
    BY <1>2
  <2> QED
    BY <2>1, NProcsAssumption
<1>4. Expected(w) = Distinct[FlattenSeq(s)]
  BY DEF Expected
<1>5. \A n \in 1..NProcs : s[n] = ItemNames[MineOf(n - 1, w)]
  OBVIOUS
<1> HIDE DEF s
<1>6. FlattenSeq(s) \in Seq(Names) /\ Range(FlattenSeq(s)) = UNION {Range(s[n]) : n \in DOMAIN s}
  BY <1>3, Flattened
<1>7. ASSUME NEW x
      PROVE  x \in UNION {Range(s[n]) : n \in DOMAIN s} <=> x \in UNION {Range(ItemNames[MineOf(q, w)]) : q \in Ranks}
  <2>1. x \in UNION {Range(s[n]) : n \in DOMAIN s} <=> \E n \in 1..NProcs : x \in Range(ItemNames[MineOf(n - 1, w)])
    BY <1>3, <1>5
  <2>2. \A q \in Ranks : q + 1 \in 1..NProcs /\ (q + 1) - 1 = q
    BY NProcsAssumption DEF Ranks
  <2>3. (\E n \in 1..NProcs : x \in Range(ItemNames[MineOf(n - 1, w)])) <=> \E q \in Ranks : x \in Range(ItemNames[MineOf(q, w)])
    BY <1>1, <2>2
  <2> QED
    BY <2>1, <2>3
<1> QED
  BY <1>4, <1>6, <1>7, DistinctNames

\* The root is one of the processes with blocks.
LEMMA RootOfSome ==
    ASSUME NEW full \in SUBSET Ranks, full # {}
    PROVE  Root(full) \in full
<1> DEFINE S == {NProcs - q : q \in full}
<1>1. S \in SUBSET Nat /\ S # {}
  BY NProcsAssumption DEF Ranks
<1>2. PICK m \in S : \A k \in S : m <= k
  BY <1>1, LeastNatural
<1>3. PICK q \in full : m = NProcs - q
  OBVIOUS
<1>4. \A p \in full : p <= q
  <2> SUFFICES ASSUME NEW p \in full PROVE p <= q
    OBVIOUS
  <2>1. m <= NProcs - p
    BY <1>2
  <2>2. p \in Int /\ q \in Int
    BY DEF Ranks
  <2> QED
    BY <1>3, <2>1, <2>2, NProcsAssumption
<1> QED
  BY <1>4 DEF Root

\* When there is window data to send, somebody can send it.
LEMMA Sender ==
    ASSUME disk \in DataSet, NEW w, Sends(w)
    PROVE  Root(Full(w)) \in Ranks /\ Root(Full(w)) \in Full(w)
<1>1. PICK q \in Ranks : "w" \in Range(ItemNames[MineOf(q, w)])
  BY ExpectedNames DEF Sends
<1>2. MineOf(q, w) \in Seq(Blocks)
  BY MineTypes
<1>3. "w" \in UNION {Range(MineOf(q, w)[n].items) : n \in DOMAIN MineOf(q, w)}
  BY <1>1, <1>2, NamesOfBlocks
<1>4. MineOf(q, w) # <<>>
  BY <1>3
<1>5. Full(w) \in SUBSET Ranks /\ Full(w) # {}
  BY <1>4 DEF Full
<1> QED
  BY <1>5, RootOfSome

------------------------------------------------------------------------------
(* Steps of a reading process *)

\* Process r takes a step: the others are as they were, and it has made its
\* calls in the order in which they are listed.
Alone(r) ==
    /\ \A q \in Ranks \ {r} :
         /\ pc'[q] = pc[q] /\ rule'[q] = rule[q] /\ blocks'[q] = blocks[q]
         /\ wi'[q] = wi[q] /\ win'[q] = win[q] /\ posted'[q] = posted[q]
    /\ Len(posted'[r]) >= Len(posted[r])
    /\ \A n \in 1..Len(posted[r]) : posted'[r][n] = posted[r][n]

\* The lists of calls are sequences.
LEMMA ListLengths ==
    ASSUME Types, NEW r \in Ranks
    PROVE  /\ Len(posted[r]) \in Nat /\ DOMAIN posted[r] = 1..Len(posted[r])
           /\ \A n \in 1..Len(posted[r]) : posted[r][n] \in Messages
<1> DEFINE M == Messages
<1> HIDE DEF M
<1>1. posted[r] \in Seq(M)
  BY DEF Types, M
<1> QED
  BY <1>1 DEF M

\* Calls stay where they are in the lists.
Longer ==
    \A p \in Ranks : /\ Len(posted'[p]) >= Len(posted[p])
                     /\ \A n \in 1..Len(posted[p]) : posted'[p][n] = posted[p][n]

\* A step of one process only adds calls.
LEMMA AloneLonger ==
    ASSUME Types, NEW r \in Ranks, Alone(r)
    PROVE  Longer
<1> SUFFICES ASSUME NEW p \in Ranks
             PROVE  /\ Len(posted'[p]) >= Len(posted[p])
                    /\ \A n \in 1..Len(posted[p]) : posted'[p][n] = posted[p][n]
  BY DEF Longer
<1>1. CASE p = r
  BY <1>1 DEF Alone
<1>2. CASE p # r
  BY <1>2, ListLengths DEF Alone
<1> QED
  BY <1>1, <1>2

\* What is known of a call stays true.
LEMMA CallsKept ==
    ASSUME Types, NEW q \in Ranks, NEW n \in 1..Len(posted[q]), CallOK(q, n), disk' = disk, Longer
    PROVE  CallOK(q, n)'
<1>1. /\ \A p, w : MineOf(p, w)' = MineOf(p, w) /\ (Loads(p, w)' <=> Loads(p, w))
      /\ \A w : Full(w)' = Full(w) /\ (Sends(w)' <=> Sends(w))
  BY DiskKept DEF DiskSame
<1>2. n \in Nat /\ posted'[q][n] = posted[q][n] /\ (n > 1 => posted'[q][n - 1] = posted[q][n - 1])
  BY ListLengths DEF Longer
<1>3. n > 1 /\ AfterEmpty(q, n) => AfterEmpty(q, n)'
  <2> SUFFICES ASSUME n > 1, AfterEmpty(q, n) PROVE AfterEmpty(q, n)'
    OBVIOUS
  <2>1. PICK c, w : c = posted[q][n] /\ w = posted[q][n - 1].win
    OBVIOUS
  <2>2. \A p \in Ranks : Len(posted'[p]) >= n - 1 /\ posted'[p][n - 1] = posted[p][n - 1]
    <3> SUFFICES ASSUME NEW p \in Ranks PROVE Len(posted'[p]) >= n - 1 /\ posted'[p][n - 1] = posted[p][n - 1]
      OBVIOUS
    <3>1. Len(posted[p]) >= n - 1 /\ Len(posted[p]) \in Nat
      BY ListLengths DEF AfterEmpty
    <3>2. n - 1 \in 1..Len(posted[p])
      BY <1>2, <3>1
    <3>3. Len(posted'[p]) >= Len(posted[p])
      BY DEF Longer
    <3>4. posted'[p][n - 1] = posted[p][n - 1]
      BY <3>2 DEF Longer
    <3> QED
      BY <1>2, <3>1, <3>3, <3>4
  <2>3. posted'[q][n] = c /\ posted'[q][n - 1].win = w
    BY <1>2, <2>1
  <2> QED
    BY <1>1, <2>1, <2>2, <2>3 DEF AfterEmpty
<1>4. PICK c : c = posted[q][n]
  OBVIOUS
<1>5. posted'[q][n] = c
  BY <1>2, <1>4
<1> QED
  BY <1>1, <1>2, <1>3, <1>4, <1>5 DEF CallOK

\* A step of r leaves what is known of the others.
LEMMA OthersKept ==
    ASSUME Types, \A q \in Ranks : ProcessOK(q), disk' = disk, NEW r \in Ranks, Alone(r)
    PROVE  \A q \in Ranks \ {r} : ProcessOK(q)'
<1> SUFFICES ASSUME NEW q \in Ranks, q # r PROVE ProcessOK(q)'
  OBVIOUS
<1>1. /\ pc'[q] = pc[q] /\ rule'[q] = rule[q] /\ blocks'[q] = blocks[q]
      /\ wi'[q] = wi[q] /\ win'[q] = win[q] /\ posted'[q] = posted[q]
  BY DEF Alone
<1>2. /\ Windows' = Windows
      /\ Mine(q)' = Mine(q) /\ MyRule(q)' = MyRule(q)
      /\ \A p, w : MineOf(p, w)' = MineOf(p, w) /\ LocalOf(p, w)' = LocalOf(p, w)
      /\ \A p, w : (Skipped(p, w)' <=> Skipped(p, w)) /\ (Loads(p, w)' <=> Loads(p, w))
      /\ \A w : Expected(w)' = Expected(w) /\ Full(w)' = Full(w) /\ (Sends(w)' <=> Sends(w))
  BY DiskKept DEF DiskSame
<1>3. Current(q)' = Current(q) /\ \A w : Behind(q, w)' <=> Behind(q, w)
  BY <1>1, <1>2 DEF Current, Behind
<1>4. ControlOK(q)'
  <2>1. ControlOK(q)
    BY DEF ProcessOK
  <2>2. PICK w : w = Current(q)
    OBVIOUS
  <2>3. Skipped(q, Current(q))' <=> Skipped(q, w)
    BY <1>2, <1>3, <2>2
  <2> QED
    BY <1>1, <1>2, <2>1, <2>2, <2>3 DEF ControlOK, Fresh, Unread
<1>5. ASSUME NEW w \in Range(Windows) PROVE WindowOK(q, w)'
  <2>1. WindowOK(q, w)
    BY DEF ProcessOK
  <2>2. \A L : Past(q, w, L)' <=> Past(q, w, L)
    BY <1>1, <1>3 DEF Past
  <2>3. Loads(IF Sends(w) THEN Root(Full(w)) ELSE q, w)' <=> Loads(IF Sends(w) THEN Root(Full(w)) ELSE q, w)
    BY <1>2
  <2> QED
    BY <1>1, <1>2, <1>3, <2>1, <2>2, <2>3 DEF WindowOK
<1>6. ASSUME NEW n \in DOMAIN posted[q] PROVE CallOK(q, n)'
  BY CallsKept, AloneLonger, ListLengths DEF ProcessOK
<1>7. LatestOK(q)'
  <2>1. LatestOK(q)
    BY DEF ProcessOK
  <2> QED
    BY <1>1, <1>3, <2>1 DEF LatestOK
<1> QED
  BY <1>1, <1>2, <1>4, <1>5, <1>6, <1>7 DEF ProcessOK

\* The labels of reading processes
Reads == Labels \ WriteLabels

\* A reading step leaves the data set, and nobody writes.
LEMMA ReadFrame ==
    ASSUME IInv, NEW r \in Ranks, NEW l \in Reads, pc[r] \notin WriteLabels,
           pc' = [pc EXCEPT ![r] = l], disk' = disk, out' = out
    PROVE  DiskOK' /\ WriteOK' /\ Phase' /\ pc' \in [Ranks -> Labels]
<1>1. pc \in [Ranks -> Labels] /\ Phase
  BY DEF IInv, Types
<1>2. \A q \in Ranks : pc[q] \notin WriteLabels /\ pc'[q] \notin WriteLabels
  BY <1>1 DEF Phase, Reads
<1>3. pc' \in [Ranks -> Labels]
  BY <1>1 DEF Reads
<1>4. Phase'
  BY <1>2 DEF Phase
<1>5. DiskOK'
  BY DEF IInv, DiskOK
<1>6. WriteOK'
  <2>1. WriteOK /\ disk \in DataSet
    BY DEF IInv, DiskOK
  <2>2. \A p \in DOMAIN disk.owner : disk.owner[p] \in Ranks
    <3>1. PICK o : o = disk.owner
      OBVIOUS
    <3>2. o \in Seq(Ranks)
      BY <2>1, <3>1, DataSetFields
    <3> QED
      BY <3>1, <3>2
  <2>3. Out' = Out
    BY <1>2, <2>2 DEF Out, WriteLabels
  <2>4. 0 \in Ranks
    BY NProcsAssumption DEF Ranks
  <2>5. pc[0] \notin {"write", "control"} /\ \A q \in Ranks : pc'[q] # "write"
    BY <1>2, <2>4 DEF WriteLabels
  <2>6. /\ \A p : FileOf(p)' = FileOf(p) /\ PaneBlock(p)' = PaneBlock(p)
        /\ Listed' = Listed /\ \A q : PanesOf(q)' = PanesOf(q)
    BY DEF FileOf, get_fname, PaneBlock, Listed, Matching, ListedPanes, PanesOf
  <2> QED
    BY <1>2, <2>1, <2>3, <2>5, <2>6 DEF WriteOK
<1> QED
  BY <1>3, <1>4, <1>5, <1>6

\* The rest of the invariant, which a step of r has to show.
LEMMA ReadStep ==
    ASSUME IInv, NEW r \in Ranks, NEW l \in Reads, pc[r] \notin WriteLabels,
           pc' = [pc EXCEPT ![r] = l], disk' = disk, out' = out,
           Alone(r), Types', ProcessOK(r)'
    PROVE  IInv'
<1>1. DiskOK' /\ WriteOK' /\ Phase'
  BY ReadFrame
<1>2. \A q \in Ranks \ {r} : ProcessOK(q)'
  BY OthersKept DEF IInv
<1> QED
  BY <1>1, <1>2 DEF IInv

\* What a step of r finds.
LEMMA Given0 ==
    ASSUME IInv, NEW r \in Ranks
    PROVE  /\ disk \in DataSet /\ Types /\ ProcessOK(r) /\ ControlOK(r) /\ LatestOK(r)
           /\ \A w \in Range(Windows) : WindowOK(r, w)
           /\ \A n \in 1..Len(posted[r]) : CallOK(r, n)
           /\ pc[r] \in Labels /\ wi[r] \in 1..Len(Windows) + 1
           /\ wi[r] <= Len(Windows) => Current(r) \in Range(Windows)
<1>1. disk \in DataSet /\ Types /\ ProcessOK(r)
  BY DEF IInv, DiskOK
<1>2. DOMAIN posted[r] = 1..Len(posted[r])
  BY <1>1, ListLengths
<1>3. pc[r] \in Labels /\ wi[r] \in 1..Len(Windows) + 1
  BY <1>1 DEF Types
<1>4. wi[r] <= Len(Windows) => Current(r) \in Range(Windows)
  BY <1>1, <1>3, WindowList DEF Current
<1> QED
  BY <1>1, <1>2, <1>3, <1>4 DEF ProcessOK

\* The rule that a section gives is one of four kinds.
LEMMA RuleKinds ==
    ASSUME disk \in DataSet, NEW r
    PROVE  MyRule(r).kind \in {"none", "explicit", "cyclic", "blockcyclic"} /\ NoRule.kind = "none"
<1>1. NoRule.kind = "none"
  BY DEF NoRule
<1>2. ASSUME NEW sec \in Sections PROVE SectionRule(sec, r).kind \in {"none", "explicit", "cyclic", "blockcyclic"}
  <2>1. \A ids : ExplicitRule(ids).kind = "explicit"
    BY DEF ExplicitRule, NoRule
  <2>2. \A base, off : BlockCyclicRule(base, off).kind = "blockcyclic"
    BY DEF BlockCyclicRule, NoRule
  <2>3. BlockRule(sec, r).kind = "blockcyclic"
    BY <2>2 DEF BlockRule
  <2>4. \A off : [NoRule EXCEPT !.kind = "cyclic", !.off = off].kind = "cyclic"
    BY DEF NoRule
  <2>5. sec.kind \in {"all", "cyclic", "blockcyclic", "block", "explicit", "absent"}
    BY DEF Sections
  <2>6. CASE sec.kind = "all"
    BY <1>1, <2>6 DEF SectionRule
  <2>7. CASE sec.kind = "cyclic"
    BY <2>4, <2>7 DEF SectionRule
  <2>8. CASE sec.kind = "blockcyclic"
    BY <2>2, <2>8 DEF SectionRule
  <2>9. CASE sec.kind = "block"
    BY <2>3, <2>9 DEF SectionRule
  <2>10. CASE sec.kind = "explicit"
    BY <2>1, <2>10 DEF SectionRule
  <2>11. CASE sec.kind = "absent"
    BY <2>1, <2>11 DEF SectionRule
  <2> QED
    BY <2>5, <2>6, <2>7, <2>8, <2>9, <2>10, <2>11
<1>3. MyBlock(r) # 0 => disk.control[MyBlock(r)].sec \in Sections
  BY MyBlockFacts DEF ControlBlocks
<1> QED
  BY <1>1, <1>2, <1>3 DEF MyRule

\* A process that has not begun to read a window.
LEMMA FreshProcess ==
    ASSUME NEW r, Fresh(r)', pc'[r] \in WriteLabels \cup {"start", "gaveup", "next"},
           IF pc'[r] = "next" THEN blocks'[r] = Mine(r)' /\ rule'[r] = MyRule(r)' ELSE Unread(r)'
    PROVE  ProcessOK(r)'
<1>1. wi'[r] = 1 /\ posted'[r] = <<>> /\ \A w \in Range(Windows)' : win'[r][w] = NoWindow
  BY DEF Fresh
<1>2. pc'[r] \notin InWindow /\ pc'[r] # "done"
  BY DEF InWindow, WriteLabels
<1>3. \A w : ~Behind(r, w)'
  BY <1>1 DEF Behind
<1>4. ControlOK(r)'
  BY <1>2 DEF ControlOK, WriteLabels
<1>5. ASSUME NEW w \in Range(Windows)' PROVE WindowOK(r, w)'
  <2>1. ~Past(r, w, InWindow \ {"items"})' /\ ~Past(r, w, {"load", "empty", "bcast", "init_done"})' /\ ~Past(r, w, {"init_done"})'
    BY <1>2, <1>3 DEF Past, InWindow
  <2>2. win'[r][w].items = <<>> /\ win'[r][w].panes = {}
    BY <1>1 DEF NoWindow
  <2>3. pc'[r] \notin {"empty", "bcast"}
    BY <1>2 DEF InWindow
  <2> QED
    BY <2>1, <2>2, <2>3 DEF WindowOK
<1>6. LatestOK(r)'
  BY <1>1, <1>2 DEF LatestOK
<1>7. DOMAIN posted'[r] = {}
  BY <1>1
<1> QED
  BY <1>4, <1>5, <1>6, <1>7 DEF ProcessOK

\* The block of the control file is looked up and its files are scanned.
LEMMA BeginStep ==
    ASSUME IInv, NEW r \in Ranks, read_by_control_file(r) \/ read_windows(r)
    PROVE  IInv'
<1>1. /\ disk \in DataSet /\ Types /\ ControlOK(r) /\ pc[r] = "start"
  BY Given0 DEF read_by_control_file, read_windows
<1>2. disk' = disk /\ out' = out /\ wi' = wi /\ win' = win /\ posted' = posted
  BY DEF read_by_control_file, read_windows
<1>3. Fresh(r) /\ Unread(r)
  BY <1>1 DEF ControlOK
<1>4. PICK k : k = MyBlock(r)
  OBVIOUS
<1>5. \/ /\ pc' = [pc EXCEPT ![r] = "gaveup"] /\ rule' = rule /\ blocks' = blocks
      \/ /\ disk.mats = <<>> /\ k = 0
         /\ pc' = [pc EXCEPT ![r] = "next"] /\ rule' = rule /\ blocks' = blocks
      \/ /\ disk.mats = <<>> /\ k # 0
         /\ pc' = [pc EXCEPT ![r] = "next"]
         /\ rule' = [rule EXCEPT ![r] = IF Ignored(r) THEN NoRule ELSE SectionRule(disk.control[k].sec, r)]
         /\ blocks' = [blocks EXCEPT ![r] = IF Ignored(r) THEN <<>> ELSE scan_files(disk.control[k].files)]
      \/ /\ disk.mats # <<>>
         /\ pc' = [pc EXCEPT ![r] = "next"] /\ rule' = rule
         /\ blocks' = [blocks EXCEPT ![r] = scan_files(disk.patterns[r])]
  BY <1>4 DEF read_by_control_file, read_windows, Goto, Ignored
<1>6. DOMAIN rule = Ranks /\ DOMAIN blocks = Ranks /\ pc \in [Ranks -> Labels]
  BY <1>1 DEF Types
<1>7. /\ \A q \in Ranks \ {r} : pc'[q] = pc[q] /\ rule'[q] = rule[q] /\ blocks'[q] = blocks[q]
      /\ DOMAIN rule' = Ranks /\ DOMAIN blocks' = Ranks
  BY <1>5, <1>6
<1>8. \/ pc'[r] = "gaveup" /\ rule'[r] = NoRule /\ blocks'[r] = <<>>
      \/ pc'[r] = "next" /\ rule'[r] = MyRule(r) /\ blocks'[r] = Mine(r)
  BY <1>3, <1>4, <1>5, <1>6 DEF MyRule, Mine, Unread
<1>9. PICK l \in {"gaveup", "next"} : pc' = [pc EXCEPT ![r] = l]
  BY <1>5
<1>10. Alone(r)
  BY <1>1, <1>2, <1>7, ListLengths DEF Alone
<1>11. Windows' = Windows /\ Mine(r)' = Mine(r) /\ MyRule(r)' = MyRule(r)
  BY <1>2, DiskKept DEF DiskSame
<1>12. Fresh(r)'
  BY <1>2, <1>3, <1>11 DEF Fresh
<1>13. ProcessOK(r)'
  BY <1>8, <1>11, <1>12, FreshProcess DEF Unread
<1>14. l \in Reads
  BY DEF Reads, Labels, WriteLabels
<1>15. pc' \in [Ranks -> Labels]
  BY <1>6, <1>9, <1>14 DEF Reads
<1>16. \A q \in Ranks : rule'[q].kind \in {"none", "explicit", "cyclic", "blockcyclic"}
  BY <1>1, <1>7, <1>8, RuleKinds DEF Types
<1>17. Types'
  <2>1. Messages' = Messages
    BY <1>11 DEF Messages
  <2> QED
    BY <1>1, <1>2, <1>7, <1>11, <1>15, <1>16, <2>1 DEF Types
<1> QED
  BY <1>1, <1>2, <1>9, <1>10, <1>13, <1>14, <1>17, ReadStep DEF WriteLabels

\* Process r makes a call.
Posted(r, op, v) ==
    /\ posted' \in [Ranks -> Seq(Messages)]
    /\ \A q \in Ranks \ {r} : posted'[q] = posted[q]
    /\ Len(posted'[r]) = Len(posted[r]) + 1 /\ DOMAIN posted'[r] = 1..Len(posted[r]) + 1
    /\ \A n \in 1..Len(posted[r]) : posted'[r][n] = posted[r][n]
    /\ posted'[r][Len(posted[r]) + 1] = [op |-> op, win |-> Current(r), val |-> v]
    /\ posted'[r] # <<>>

\* The call is added to the list of r.
LEMMA PostFacts ==
    ASSUME IInv, NEW r \in Ranks, wi[r] <= Len(Windows), NEW op \in Ops, NEW v \in Values, Post(r, op, v)
    PROVE  Posted(r, op, v)
<1> DEFINE M == Messages
           c == [op |-> op, win |-> Current(r), val |-> v]
<1>1. Current(r) \in Range(Windows)
  BY Given0
<1>2. c \in M
  BY <1>1 DEF Messages
<1>3. posted' = [posted EXCEPT ![r] = Append(@, c)]
  BY DEF Post, Current
<1> HIDE DEF M, c
<1>4. posted \in [Ranks -> Seq(M)]
  BY DEF IInv, Types, M
<1>5. posted[r] \in Seq(M) /\ posted'[r] = Append(posted[r], c)
  BY <1>3, <1>4
<1>6. posted'[r] \in Seq(M) /\ Len(posted'[r]) = Len(posted[r]) + 1 /\ DOMAIN posted'[r] = 1..Len(posted[r]) + 1
  BY <1>2, <1>5
<1>7. /\ \A n \in 1..Len(posted[r]) : posted'[r][n] = posted[r][n]
      /\ posted'[r][Len(posted[r]) + 1] = c
  BY <1>2, <1>5
<1>8. posted' \in [Ranks -> Seq(M)] /\ \A q \in Ranks \ {r} : posted'[q] = posted[q]
  BY <1>3, <1>4, <1>6
<1>9. posted'[r] # <<>>
  <2>1. Len(posted[r]) \in Nat
    BY <1>5
  <2> QED
    BY <1>6, <2>1
<1> QED
  BY <1>6, <1>7, <1>8, <1>9 DEF Posted, M, c

\* What a step of r that leaves its rule, blocks and calls alone has to show.
LEMMA QuietStep ==
    ASSUME IInv, NEW r \in Ranks, NEW l \in Reads, pc[r] \notin WriteLabels,
           pc' = [pc EXCEPT ![r] = l], disk' = disk, out' = out,
           rule' = rule, blocks' = blocks, posted' = posted,
           \A q \in Ranks \ {r} : wi'[q] = wi[q] /\ win'[q] = win[q],
           wi' \in [Ranks -> Nat], wi'[r] \in 1..Len(Windows) + 1,
           win' \in [Ranks -> [Range(Windows) -> WindowStates]],
           ControlOK(r)', \A w \in Range(Windows) : WindowOK(r, w)', LatestOK(r)'
    PROVE  IInv'
<1>1. Types /\ \A n \in 1..Len(posted[r]) : CallOK(r, n)
  BY Given0
<1>2. pc' \in [Ranks -> Labels] /\ pc \in [Ranks -> Labels]
  BY <1>1, ReadFrame DEF Types
<1>3. Windows' = Windows
  BY DiskKept DEF DiskSame
<1>4. Alone(r)
  BY <1>1, <1>2, ListLengths DEF Alone
<1>5. \A n \in 1..Len(posted[r]) : CallOK(r, n)'
  BY <1>1, <1>4, AloneLonger, CallsKept
<1>6. DOMAIN posted'[r] = 1..Len(posted[r])
  BY <1>1, ListLengths
<1>7. ProcessOK(r)'
  BY <1>3, <1>5, <1>6 DEF ProcessOK
<1>8. Types'
  <2>1. Messages' = Messages
    BY <1>3 DEF Messages
  <2>2. \A q \in Ranks : wi'[q] \in 1..Len(Windows) + 1
    BY <1>1 DEF Types
  <2> QED
    BY <1>1, <1>2, <1>3, <2>1, <2>2 DEF Types
<1> QED
  BY <1>4, <1>7, <1>8, ReadStep

\* What a step of r that ends in a call has to show.
LEMMA PostStep ==
    ASSUME IInv, NEW r \in Ranks, NEW l \in Reads, pc[r] \notin WriteLabels,
           pc' = [pc EXCEPT ![r] = l], disk' = disk, out' = out,
           rule' = rule, blocks' = blocks, wi' = wi,
           \A q \in Ranks \ {r} : win'[q] = win[q],
           win' \in [Ranks -> [Range(Windows) -> WindowStates]],
           NEW op, NEW v, Posted(r, op, v),
           ControlOK(r)', \A w \in Range(Windows) : WindowOK(r, w)', LatestOK(r)',
           NEW L, L = Len(posted[r]), CallOK(r, L + 1)'
    PROVE  IInv'
<1>1. Types /\ \A n \in 1..Len(posted[r]) : CallOK(r, n)
  BY Given0
<1>2. pc' \in [Ranks -> Labels] /\ pc \in [Ranks -> Labels]
  BY <1>1, ReadFrame DEF Types
<1>3. Windows' = Windows
  BY DiskKept DEF DiskSame
<1>4. L \in Nat
  BY <1>1, ListLengths
<1>5. Alone(r)
  BY <1>1, <1>2, <1>4 DEF Alone, Posted
<1>6. \A n \in 1..L : CallOK(r, n)'
  BY <1>1, <1>5, AloneLonger, CallsKept
<1>7. \A n \in DOMAIN posted'[r] : n \in 1..L \/ n = L + 1
  BY <1>4 DEF Posted
<1>8. ProcessOK(r)'
  BY <1>3, <1>6, <1>7 DEF ProcessOK
<1>9. Types'
  <2>1. Messages' = Messages
    BY <1>3 DEF Messages
  <2>2. posted' \in [Ranks -> Seq(Messages)]
    BY DEF Posted
  <2> QED
    BY <1>1, <1>2, <1>3, <2>1, <2>2 DEF Types
<1> QED
  BY <1>5, <1>8, <1>9, ReadStep

\* What r reads, before and after its step.
LEMMA SameFor ==
    ASSUME disk' = disk, NEW r
    PROVE  /\ Windows' = Windows /\ Mine(r)' = Mine(r) /\ MyRule(r)' = MyRule(r)
           /\ \A w : /\ MineOf(r, w)' = MineOf(r, w) /\ LocalOf(r, w)' = LocalOf(r, w)
                     /\ (Skipped(r, w)' <=> Skipped(r, w)) /\ (Loads(r, w)' <=> Loads(r, w))
                     /\ Expected(w)' = Expected(w) /\ Full(w)' = Full(w) /\ (Sends(w)' <=> Sends(w))
                     /\ Loads(IF Sends(w) THEN Root(Full(w)) ELSE r, w)' <=> Loads(IF Sends(w) THEN Root(Full(w)) ELSE r, w)
<1>1. DiskSame
  BY DiskKept
<1>2. \A w : Full(w)' = Full(w) /\ (Sends(w)' <=> Sends(w))
  BY <1>1 DEF DiskSame
<1>3. \A q, w : Loads(q, w)' <=> Loads(q, w)
  BY <1>1 DEF DiskSame
<1>4. \A w : Loads(IF Sends(w) THEN Root(Full(w)) ELSE r, w)' <=> Loads(IF Sends(w) THEN Root(Full(w)) ELSE r, w)
  BY <1>2, <1>3
<1> QED
  BY <1>1, <1>4 DEF DiskSame

\* The windows behind r when it goes on to the next one
LEMMA OneMoreBehind ==
    ASSUME disk' = disk, NEW r \in Ranks, wi[r] \in Nat \ {0}, wi'[r] = wi[r] + 1
    PROVE  \A w : Behind(r, w)' <=> Behind(r, w) \/ w = Current(r)
<1> SUFFICES ASSUME NEW w PROVE Behind(r, w)' <=> Behind(r, w) \/ w = Current(r)
  OBVIOUS
<1>1. Windows' = Windows
  BY SameFor
<1>2. Behind(r, w)' <=> \E n \in 1..wi[r] : Windows[n] = w
  BY <1>1 DEF Behind
<1>3. \A n : n \in 1..wi[r] <=> n \in 1..wi[r] - 1 \/ n = wi[r]
  OBVIOUS
<1> QED
  BY <1>2, <1>3 DEF Behind, Current

\* A material without blocks is passed over.
LEMMA SkipStep ==
    ASSUME IInv, NEW r \in Ranks, SkipMaterial(r)
    PROVE  IInv'
<1>1. /\ pc[r] = "next" /\ wi[r] <= Len(Windows) /\ disk.mats # <<>>
      /\ BlocksOf(r, Windows[wi[r]]) = <<>>
      /\ wi' = [wi EXCEPT ![r] = @ + 1]
      /\ disk' = disk /\ out' = out /\ pc' = pc /\ rule' = rule /\ blocks' = blocks /\ win' = win /\ posted' = posted
  BY DEF SkipMaterial
<1>2. /\ disk \in DataSet /\ Types /\ ControlOK(r) /\ LatestOK(r)
      /\ \A w \in Range(Windows) : WindowOK(r, w)
      /\ wi[r] \in 1..Len(Windows) + 1
  BY Given0
<1>3. pc \in [Ranks -> Labels] /\ wi \in [Ranks -> Nat] /\ Len(Windows) \in Nat
  BY <1>2, WindowList DEF Types
<1>4. /\ "next" \in Reads /\ pc' = [pc EXCEPT ![r] = "next"] /\ pc[r] \notin WriteLabels
  BY <1>1, <1>3 DEF Reads, Labels, WriteLabels
<1>5. /\ wi' \in [Ranks -> Nat] /\ wi'[r] = wi[r] + 1 /\ wi'[r] \in 1..Len(Windows) + 1
      /\ \A q \in Ranks \ {r} : wi'[q] = wi[q]
  BY <1>1, <1>2, <1>3
<1>6. blocks[r] = Mine(r) /\ rule[r] = MyRule(r)
  BY <1>1, <1>2 DEF ControlOK
<1>7. Skipped(r, Current(r)) /\ MineOf(r, Current(r)) = <<>>
  BY <1>1, <1>6 DEF Skipped, MineOf, BlocksOf, Current
<1>8. \A w : Behind(r, w)' <=> Behind(r, w) \/ w = Current(r)
  BY <1>1, <1>2, <1>5, OneMoreBehind
<1>9. ControlOK(r)'
  BY <1>1, <1>6, SameFor DEF ControlOK, InWindow, WriteLabels
<1>10. LatestOK(r)'
  BY <1>1, <1>2 DEF LatestOK, InWindow
<1>11. ASSUME NEW w \in Range(Windows) PROVE WindowOK(r, w)'
  <2>1. WindowOK(r, w)
    BY <1>2
  <2>2. LocalOf(r, w) = {} \/ ~Skipped(r, w)
    BY <1>2, MineTypes DEF Skipped
  <2>3. \A K : Past(r, w, K)' <=> (Behind(r, w) \/ w = Current(r)) \/ (pc[r] \in K /\ w = Current(r)')
    BY <1>1, <1>8 DEF Past
  <2>4. ~Skipped(r, w) => w # Current(r)
    BY <1>7
  <2>5. /\ Past(r, w, InWindow \ {"items"}) <=> Behind(r, w)
        /\ Past(r, w, {"load", "empty", "bcast", "init_done"}) <=> Behind(r, w)
        /\ Past(r, w, {"init_done"}) <=> Behind(r, w)
    BY <1>1 DEF Past, InWindow
  <2>6. /\ Past(r, w, InWindow \ {"items"})' <=> (Behind(r, w) \/ w = Current(r))
        /\ Past(r, w, {"load", "empty", "bcast", "init_done"})' <=> (Behind(r, w) \/ w = Current(r))
        /\ Past(r, w, {"init_done"})' <=> (Behind(r, w) \/ w = Current(r))
    BY <1>1, <2>3 DEF InWindow
  <2> QED
    BY <1>1, <2>1, <2>2, <2>4, <2>5, <2>6, <1>7, SameFor DEF WindowOK
<1>12. win' \in [Ranks -> [Range(Windows) -> WindowStates]] /\ \A q \in Ranks \ {r} : win'[q] = win[q]
  BY <1>1, <1>2 DEF Types
<1> QED
  BY <1>1, <1>4, <1>5, <1>9, <1>10, <1>11, <1>12, QuietStep

\* A step within a window
LEMMA SamePlace ==
    ASSUME disk' = disk, NEW r \in Ranks, wi' = wi
    PROVE  Current(r)' = Current(r) /\ \A w : Behind(r, w)' <=> Behind(r, w)
<1>1. Windows' = Windows
  BY SameFor
<1> QED
  BY <1>1 DEF Current, Behind

\* r sends its names.
LEMMA NewWindowStep ==
    ASSUME IInv, NEW r \in Ranks, NewWindow(r)
    PROVE  IInv'
<1>1. /\ pc[r] = "next" /\ wi[r] <= Len(Windows)
      /\ disk.mats = <<>> \/ BlocksOf(r, Windows[wi[r]]) # <<>>
      /\ Post(r, "items", ItemNames[BlocksOf(r, Windows[wi[r]])])
      /\ pc' = [pc EXCEPT ![r] = "items"]
      /\ disk' = disk /\ out' = out /\ wi' = wi /\ rule' = rule /\ blocks' = blocks /\ win' = win
  BY DEF NewWindow, Goto
<1>2. /\ disk \in DataSet /\ Types /\ ControlOK(r) /\ LatestOK(r)
      /\ \A w \in Range(Windows) : WindowOK(r, w)
      /\ Current(r) \in Range(Windows)
  BY <1>1, Given0
<1>3. blocks[r] = Mine(r) /\ rule[r] = MyRule(r)
  BY <1>1, <1>2 DEF ControlOK
<1>4. PICK w0, v, L : w0 = Current(r) /\ v = ItemNames[MineOf(r, w0)] /\ L = Len(posted[r])
  OBVIOUS
<1>5. Post(r, "items", v) /\ ~Skipped(r, w0)
  BY <1>1, <1>3, <1>4 DEF Skipped, MineOf, BlocksOf, Current
<1>6. "items" \in Ops /\ v \in Values
  BY <1>2, <1>4, MineTypes DEF Ops, Values
<1>7. Posted(r, "items", v)
  BY <1>1, <1>5, <1>6, PostFacts
<1>8. "items" \in Reads /\ pc[r] \notin WriteLabels /\ pc'[r] = "items"
  BY <1>1, <1>2 DEF Reads, Labels, WriteLabels, Types
<1>9. Current(r)' = w0 /\ \A w : Behind(r, w)' <=> Behind(r, w)
  BY <1>1, <1>4, SamePlace
<1>10. ControlOK(r)'
  <2>1. ~Skipped(r, Current(r))'
    BY <1>1, <1>5, <1>9, SameFor
  <2> QED
    BY <1>1, <1>3, <1>8, <2>1, SameFor DEF ControlOK, WriteLabels
<1>11. L \in Nat /\ posted'[r] # <<>> /\ Len(posted'[r]) = L + 1
       /\ posted'[r][L + 1] = [op |-> "items", win |-> w0, val |-> v]
       /\ \A n \in 1..L : posted'[r][n] = posted[r][n]
  BY <1>2, <1>4, <1>7, ListLengths DEF Posted
<1>12. LatestOK(r)'
  BY <1>8, <1>9, <1>11 DEF LatestOK, Ops
<1>13. CallOK(r, L + 1)'
  <2>1. L # 0 => posted'[r][L].op # "empty"
    <3> SUFFICES ASSUME L # 0 PROVE posted'[r][L].op # "empty"
      OBVIOUS
    <3>1. posted[r] # <<>> /\ L \in 1..L
      BY <1>4, <1>11
    <3> QED
      BY <1>1, <1>2, <1>4, <1>11, <3>1 DEF LatestOK
  <2>2. ~(L + 1 > 1 /\ posted'[r][(L + 1) - 1].op = "empty")
    BY <1>11, <2>1
  <2>3. MineOf(r, w0)' = MineOf(r, w0)
    BY <1>1, SameFor
  <2> QED
    BY <1>4, <1>11, <2>2, <2>3 DEF CallOK
<1>14. ASSUME NEW w \in Range(Windows) PROVE WindowOK(r, w)'
  <2>1. WindowOK(r, w)
    BY <1>2
  <2>2. /\ Past(r, w, InWindow \ {"items"})' => Past(r, w, InWindow \ {"items"})
        /\ Past(r, w, {"load", "empty", "bcast", "init_done"})' => Past(r, w, {"load", "empty", "bcast", "init_done"})
        /\ Past(r, w, {"init_done"})' => Past(r, w, {"init_done"})
    BY <1>8, <1>9 DEF Past
  <2> QED
    BY <1>1, <1>8, <2>1, <2>2, SameFor DEF WindowOK
<1>15. win' \in [Ranks -> [Range(Windows) -> WindowStates]] /\ \A q \in Ranks \ {r} : win'[q] = win[q]
  BY <1>1, <1>2 DEF Types
<1> QED
  BY <1>1, <1>4, <1>7, <1>8, <1>10, <1>12, <1>13, <1>14, <1>15, PostStep

\* The names that all have sent are those of what each reads.
LEMMA GatheredAll ==
    ASSUME IInv, NEW r \in Ranks, pc[r] = "items", Arrived(r)
    PROVE  Gathered(r) = Expected(Current(r))
<1>1. PICK k, w : k = Len(posted[r]) /\ w = Current(r)
  OBVIOUS
<1>2. Types /\ LatestOK(r)
  BY Given0
<1>3. posted[r] # <<>> /\ posted[r][k].win = w /\ posted[r][k].op = "items"
  BY <1>1, <1>2 DEF LatestOK, InWindow, Ops
<1>4. k \in Nat /\ k # 0
  <2>1. posted[r] \in Seq(Messages)
    BY <1>2 DEF Types
  <2> QED
    BY <1>1, <1>3, <2>1
<1>5. ASSUME NEW q \in Ranks PROVE FromRank(q, r) = ItemNames[MineOf(q, w)]
  <2>1. Len(posted[q]) >= k /\ posted[q][k].op = "items" /\ posted[q][k].win = w
    BY <1>1, <1>3 DEF Arrived, Calls
  <2>2. k \in 1..Len(posted[q])
    BY <1>2, <1>4, <2>1, ListLengths
  <2>3. CallOK(q, k)
    BY <2>2, Given0
  <2> QED
    BY <1>1, <2>1, <2>3 DEF CallOK, FromRank, Calls
<1>6. \A n \in 1..NProcs : n - 1 \in Ranks
  BY NProcsAssumption DEF Ranks
<1>7. [n \in 1..NProcs |-> FromRank(n - 1, r)] = [n \in 1..NProcs |-> ItemNames[MineOf(n - 1, w)]]
  BY <1>5, <1>6
<1> QED
  BY <1>1, <1>7 DEF Gathered, Expected

\* The window states after a field of one is set.
LEMMA WindowUpdates ==
    ASSUME Types, NEW r \in Ranks, NEW w0 \in Range(Windows), NEW s \in WindowStates,
           win' = [win EXCEPT ![r][w0] = s]
    PROVE  /\ win' \in [Ranks -> [Range(Windows) -> WindowStates]]
           /\ \A q \in Ranks \ {r} : win'[q] = win[q]
           /\ win'[r][w0] = s
           /\ \A w \in Range(Windows) : w # w0 => win'[r][w] = win[r][w]
<1>1. win \in [Ranks -> [Range(Windows) -> WindowStates]]
  BY DEF Types
<1> QED
  BY <1>1

\* r takes over the names of all.
LEMMA ItemsStep ==
    ASSUME IInv, NEW r \in Ranks, new_dataitems(r)
    PROVE  IInv'
<1>1. PICK w0 : w0 = Current(r)
  OBVIOUS
<1>2. /\ pc[r] = "items" /\ Arrived(r)
      /\ win' = [win EXCEPT ![r][w0].items = Gathered(r)]
      /\ pc' = [pc EXCEPT ![r] = "register"]
      /\ disk' = disk /\ out' = out /\ wi' = wi /\ rule' = rule /\ blocks' = blocks /\ posted' = posted
  BY <1>1 DEF new_dataitems, Goto, Current
<1>3. /\ disk \in DataSet /\ Types /\ ControlOK(r) /\ LatestOK(r)
      /\ \A w \in Range(Windows) : WindowOK(r, w)
  BY Given0
<1>4. blocks[r] = Mine(r) /\ rule[r] = MyRule(r) /\ wi[r] <= Len(Windows) /\ ~Skipped(r, w0)
  BY <1>1, <1>2, <1>3 DEF ControlOK, InWindow
<1>5. w0 \in Range(Windows)
  BY <1>1, <1>4, Given0
<1>6. PICK e : e = Expected(w0)
  OBVIOUS
<1>7. e \in Seq(Names) /\ Gathered(r) = e
  BY <1>1, <1>2, <1>3, <1>6, ExpectedNames, GatheredAll
<1>8. PICK s : s = [win[r][w0] EXCEPT !.items = e]
  OBVIOUS
<1>9. win[r][w0] \in WindowStates
  BY <1>3, <1>5 DEF Types
<1>10. s \in WindowStates /\ s.items = e /\ s.panes = win[r][w0].panes /\ s.data = win[r][w0].data
  BY <1>7, <1>8, <1>9 DEF WindowStates
<1>11. win' = [win EXCEPT ![r][w0] = s]
  BY <1>2, <1>7, <1>8
<1>12. /\ win' \in [Ranks -> [Range(Windows) -> WindowStates]]
       /\ \A q \in Ranks \ {r} : win'[q] = win[q]
       /\ win'[r][w0] = s
       /\ \A w \in Range(Windows) : w # w0 => win'[r][w] = win[r][w]
  BY <1>3, <1>5, <1>10, <1>11, WindowUpdates
<1>13. "register" \in Reads /\ pc[r] \notin WriteLabels /\ pc'[r] = "register"
  BY <1>2, <1>3 DEF Reads, Labels, WriteLabels, Types
<1>14. Current(r)' = w0 /\ \A w : Behind(r, w)' <=> Behind(r, w)
  BY <1>1, <1>2, SamePlace
<1>15. ControlOK(r)'
  <2>1. ~Skipped(r, Current(r))'
    BY <1>2, <1>4, <1>14, SameFor
  <2> QED
    BY <1>2, <1>4, <1>13, <2>1, SameFor DEF ControlOK, WriteLabels
<1>16. LatestOK(r)'
  BY <1>1, <1>2, <1>3, <1>13, <1>14 DEF LatestOK, InWindow, Ops
<1>17. ASSUME NEW w \in Range(Windows) PROVE WindowOK(r, w)'
  <2>1. WindowOK(r, w)
    BY <1>3
  <2>2. /\ Past(r, w, InWindow \ {"items"})' => Past(r, w, InWindow \ {"items"}) \/ w = w0
        /\ Past(r, w, {"load", "empty", "bcast", "init_done"})' => Past(r, w, {"load", "empty", "bcast", "init_done"})
        /\ Past(r, w, {"init_done"})' => Past(r, w, {"init_done"})
    BY <1>1, <1>13, <1>14 DEF Past
  <2>3. CASE w = w0
    BY <1>2, <1>4, <1>6, <1>10, <1>12, <1>13, <2>1, <2>2, <2>3, SameFor DEF WindowOK
  <2>4. CASE w # w0
    BY <1>2, <1>12, <1>13, <2>1, <2>2, <2>4, SameFor DEF WindowOK
  <2> QED
    BY <2>3, <2>4
<1>18. wi \in [Ranks -> Nat] /\ wi[r] \in 1..Len(Windows) + 1
  BY <1>3 DEF Types
<1> QED
  BY <1>2, <1>12, <1>13, <1>15, <1>16, <1>17, <1>18, QuietStep

\* r registers the panes that its rule keeps, or divides by zero.
LEMMA RegisterStep ==
    ASSUME IInv, NEW r \in Ranks, register_panes(r)
    PROVE  IInv'
<1>1. PICK w0 : w0 = Current(r)
  OBVIOUS
<1>2. PICK bs : bs = BlocksOf(r, w0)
  OBVIOUS
<1>3. /\ pc[r] = "register"
      /\ \/ win' = win /\ pc' = [pc EXCEPT ![r] = "fault"]
         \/ win' = [win EXCEPT ![r][w0].panes = LocalPanes(r, bs)] /\ pc' = [pc EXCEPT ![r] = "load"]
      /\ disk' = disk /\ out' = out /\ wi' = wi /\ rule' = rule /\ blocks' = blocks /\ posted' = posted
  BY <1>1, <1>2 DEF register_panes, Goto, Current
<1>4. /\ disk \in DataSet /\ Types /\ ControlOK(r) /\ LatestOK(r)
      /\ \A w \in Range(Windows) : WindowOK(r, w)
  BY Given0
<1>5. blocks[r] = Mine(r) /\ rule[r] = MyRule(r) /\ wi[r] <= Len(Windows) /\ ~Skipped(r, w0)
  BY <1>1, <1>3, <1>4 DEF ControlOK, InWindow
<1>6. w0 \in Range(Windows)
  BY <1>1, <1>5, Given0
<1>7. LocalPanes(r, bs) = LocalOf(r, w0)
  BY <1>2, <1>5 DEF LocalPanes, LocalOf, BlocksOf, MineOf
<1>8. PICK e : e = LocalOf(r, w0)
  OBVIOUS
<1>9. e \in SUBSET Int
  BY <1>4, <1>8, MineTypes
<1>10. PICK s : s = [win[r][w0] EXCEPT !.panes = e]
  OBVIOUS
<1>11. win[r][w0] \in WindowStates
  BY <1>4, <1>6 DEF Types
<1>12. s \in WindowStates /\ s.panes = e /\ s.items = win[r][w0].items /\ s.data = win[r][w0].data
  BY <1>9, <1>10, <1>11 DEF WindowStates
<1>13. Current(r)' = w0 /\ \A w : Behind(r, w)' <=> Behind(r, w)
  BY <1>1, <1>3, SamePlace
<1>14. wi \in [Ranks -> Nat] /\ wi[r] \in 1..Len(Windows) + 1 /\ pc \in [Ranks -> Labels]
  BY <1>4 DEF Types
<1>15. ASSUME NEW l \in {"fault", "load"}, pc' = [pc EXCEPT ![r] = l]
       PROVE  l \in Reads /\ pc[r] \notin WriteLabels /\ pc'[r] = l /\ ControlOK(r)' /\ LatestOK(r)'
  <2>1. l \in Reads /\ pc[r] \notin WriteLabels /\ pc'[r] = l
    BY <1>3, <1>14, <1>15 DEF Reads, Labels, WriteLabels
  <2>2. ~Skipped(r, Current(r))'
    BY <1>3, <1>5, <1>13, SameFor
  <2>3. ControlOK(r)'
    BY <1>3, <1>5, <2>1, <2>2, SameFor DEF ControlOK, WriteLabels
  <2>4. LatestOK(r)'
    BY <1>1, <1>3, <1>4, <1>13, <2>1 DEF LatestOK, InWindow, Ops
  <2> QED
    BY <2>1, <2>3, <2>4
<1>16. CASE win' = win /\ pc' = [pc EXCEPT ![r] = "fault"]
  <2>1. /\ "fault" \in Reads /\ pc[r] \notin WriteLabels /\ pc'[r] = "fault" /\ ControlOK(r)' /\ LatestOK(r)'
    BY <1>15, <1>16
  <2>2. ASSUME NEW w \in Range(Windows) PROVE WindowOK(r, w)'
    <3>1. WindowOK(r, w)
      BY <1>4
    <3>2. /\ Past(r, w, InWindow \ {"items"})' => Past(r, w, InWindow \ {"items"})
          /\ Past(r, w, {"load", "empty", "bcast", "init_done"})' => Past(r, w, {"load", "empty", "bcast", "init_done"})
          /\ Past(r, w, {"init_done"})' => Past(r, w, {"init_done"})
      BY <1>1, <1>3, <1>13, <2>1 DEF Past, InWindow
    <3> QED
      BY <1>3, <1>16, <2>1, <3>1, <3>2, SameFor DEF WindowOK
  <2>3. win' \in [Ranks -> [Range(Windows) -> WindowStates]] /\ \A q \in Ranks \ {r} : win'[q] = win[q]
    BY <1>4, <1>16 DEF Types
  <2> QED
    BY <1>3, <1>14, <1>16, <2>1, <2>2, <2>3, QuietStep
<1>17. CASE win' = [win EXCEPT ![r][w0].panes = LocalPanes(r, bs)] /\ pc' = [pc EXCEPT ![r] = "load"]
  <2>1. /\ "load" \in Reads /\ pc[r] \notin WriteLabels /\ pc'[r] = "load" /\ ControlOK(r)' /\ LatestOK(r)'
    BY <1>15, <1>17
  <2>2. win' = [win EXCEPT ![r][w0] = s]
    BY <1>7, <1>8, <1>10, <1>17
  <2>3. /\ win' \in [Ranks -> [Range(Windows) -> WindowStates]]
        /\ \A q \in Ranks \ {r} : win'[q] = win[q]
        /\ win'[r][w0] = s
        /\ \A w \in Range(Windows) : w # w0 => win'[r][w] = win[r][w]
    BY <1>4, <1>6, <1>12, <2>2, WindowUpdates
  <2>4. ASSUME NEW w \in Range(Windows) PROVE WindowOK(r, w)'
    <3>1. WindowOK(r, w)
      BY <1>4
    <3>2. /\ Past(r, w, InWindow \ {"items"})' => Past(r, w, InWindow \ {"items"})
          /\ Past(r, w, {"load", "empty", "bcast", "init_done"})' => Past(r, w, {"load", "empty", "bcast", "init_done"}) \/ w = w0
          /\ Past(r, w, {"init_done"})' => Past(r, w, {"init_done"})
      BY <1>1, <1>3, <1>13, <2>1 DEF Past, InWindow
    <3>3. CASE w = w0
      BY <1>3, <1>8, <1>12, <2>1, <2>3, <3>1, <3>2, <3>3, SameFor DEF WindowOK
    <3>4. CASE w # w0
      BY <1>3, <2>1, <2>3, <3>1, <3>2, <3>4, SameFor DEF WindowOK
    <3> QED
      BY <3>3, <3>4
  <2> QED
    BY <1>3, <1>14, <1>17, <2>1, <2>3, <2>4, QuietStep
<1> QED
  BY <1>3, <1>16, <1>17

\* r loads its panes and says whether it has found nothing.
LEMMA LoadStep ==
    ASSUME IInv, NEW r \in Ranks, load_data(r)
    PROVE  IInv'
<1>1. PICK w0 : w0 = Current(r)
  OBVIOUS
<1>2. PICK bs : bs = BlocksOf(r, w0)
  OBVIOUS
<1>3. /\ pc[r] = "load"
      /\ win' = [win EXCEPT ![r][w0].data = IF LoadsWindowData(bs, win[r][w0].panes) THEN Written ELSE @]
      /\ Post(r, "empty", bs = <<>>) /\ pc' = [pc EXCEPT ![r] = "empty"]
      /\ disk' = disk /\ out' = out /\ wi' = wi /\ rule' = rule /\ blocks' = blocks
  BY <1>1, <1>2 DEF load_data, Goto, Current
<1>4. /\ disk \in DataSet /\ Types /\ ControlOK(r) /\ LatestOK(r)
      /\ \A w \in Range(Windows) : WindowOK(r, w)
  BY Given0
<1>5. blocks[r] = Mine(r) /\ rule[r] = MyRule(r) /\ wi[r] <= Len(Windows) /\ ~Skipped(r, w0)
  BY <1>1, <1>3, <1>4 DEF ControlOK, InWindow
<1>6. w0 \in Range(Windows) /\ WindowOK(r, w0)
  BY <1>1, <1>4, <1>5, Given0
<1>7. win[r][w0].panes = LocalOf(r, w0) /\ bs = MineOf(r, w0)
  BY <1>1, <1>2, <1>3, <1>5, <1>6 DEF WindowOK, Past, BlocksOf, MineOf
<1>8. LoadsWindowData(bs, win[r][w0].panes) <=> Loads(r, w0)
  BY <1>7 DEF Loads
<1>9. PICK e : e = IF Loads(r, w0) THEN Written ELSE win[r][w0].data
  OBVIOUS
<1>10. PICK s : s = [win[r][w0] EXCEPT !.data = e]
  OBVIOUS
<1>11. win[r][w0] \in WindowStates
  BY <1>4, <1>6 DEF Types
<1>12. e \in {Unset, Written}
  BY <1>9, <1>11 DEF WindowStates
<1>13. s \in WindowStates /\ s.data = e /\ s.items = win[r][w0].items /\ s.panes = win[r][w0].panes
  BY <1>10, <1>11, <1>12 DEF WindowStates
<1>14. win' = [win EXCEPT ![r][w0] = s]
  BY <1>3, <1>8, <1>9, <1>10
<1>15. /\ win' \in [Ranks -> [Range(Windows) -> WindowStates]]
       /\ \A q \in Ranks \ {r} : win'[q] = win[q]
       /\ win'[r][w0] = s
       /\ \A w \in Range(Windows) : w # w0 => win'[r][w] = win[r][w]
  BY <1>4, <1>6, <1>13, <1>14, WindowUpdates
<1>16. PICK v, L : v = (MineOf(r, w0) = <<>>) /\ L = Len(posted[r])
  OBVIOUS
<1>17. Posted(r, "empty", v)
  <2>1. "empty" \in Ops /\ v \in Values
    <3>1. v \in BOOLEAN
      BY <1>16
    <3> QED
      BY <3>1 DEF Ops, Values
  <2>2. Post(r, "empty", v)
    BY <1>3, <1>7, <1>16
  <2> QED
    BY <1>5, <2>1, <2>2, PostFacts
<1>18. "empty" \in Reads /\ pc[r] \notin WriteLabels /\ pc'[r] = "empty"
  BY <1>3, <1>4 DEF Reads, Labels, WriteLabels, Types
<1>19. Current(r)' = w0 /\ \A w : Behind(r, w)' <=> Behind(r, w)
  BY <1>1, <1>3, SamePlace
<1>20. ControlOK(r)'
  <2>1. ~Skipped(r, Current(r))'
    BY <1>3, <1>5, <1>19, SameFor
  <2> QED
    BY <1>3, <1>5, <1>18, <2>1, SameFor DEF ControlOK, WriteLabels
<1>21. L \in Nat /\ posted'[r] # <<>> /\ Len(posted'[r]) = L + 1
       /\ posted'[r][L + 1] = [op |-> "empty", win |-> w0, val |-> v]
       /\ \A n \in 1..L : posted'[r][n] = posted[r][n]
  BY <1>1, <1>4, <1>16, <1>17, ListLengths DEF Posted
<1>22. LatestOK(r)'
  BY <1>18, <1>19, <1>21 DEF LatestOK, Ops
<1>23. CallOK(r, L + 1)'
  <2>1. L # 0 => posted'[r][L].op # "empty"
    <3> SUFFICES ASSUME L # 0 PROVE posted'[r][L].op # "empty"
      OBVIOUS
    <3>1. L \in 1..L
      BY <1>21
    <3> QED
      BY <1>3, <1>4, <1>16, <1>21, <3>1 DEF LatestOK, InWindow, Ops
  <2>2. ~(L + 1 > 1 /\ posted'[r][(L + 1) - 1].op = "empty")
    BY <1>21, <2>1
  <2>3. MineOf(r, w0)' = MineOf(r, w0)
    BY <1>3, SameFor
  <2> QED
    BY <1>16, <1>21, <2>2, <2>3 DEF CallOK
<1>24. ASSUME NEW w \in Range(Windows) PROVE WindowOK(r, w)'
  <2>1. WindowOK(r, w)
    BY <1>4
  <2>2. /\ Past(r, w, InWindow \ {"items"})' => Past(r, w, InWindow \ {"items"})
        /\ Past(r, w, {"load", "empty", "bcast", "init_done"})' => Past(r, w, {"load", "empty", "bcast", "init_done"})
        /\ Past(r, w, {"init_done"})' => Past(r, w, {"init_done"})
    BY <1>1, <1>3, <1>18, <1>19 DEF Past, InWindow
  <2>3. CASE w = w0
    <3>1. /\ win'[r][w].items = win[r][w].items /\ win'[r][w].panes = win[r][w].panes
          /\ Loads(r, w) => win'[r][w].data = Written
          /\ win[r][w].data = Written => win'[r][w].data = Written
      BY <1>9, <1>13, <1>15, <2>3
    <3> QED
      BY <1>3, <2>1, <2>2, <3>1, SameFor DEF WindowOK
  <2>4. CASE w # w0
    BY <1>3, <1>15, <1>18, <1>19, <2>1, <2>2, <2>4, SameFor DEF WindowOK
  <2> QED
    BY <2>3, <2>4
<1> QED
  BY <1>3, <1>15, <1>16, <1>17, <1>18, <1>20, <1>22, <1>23, <1>24, PostStep

\* What all have sent says who has found nothing.
LEMMA EmptiesAll ==
    ASSUME IInv, NEW r \in Ranks, pc[r] = "empty", Arrived(r),
           NEW k, k = Len(posted[r]), NEW w, w = Current(r)
    PROVE  /\ {q \in Ranks : ~FromRank(q, r)} = Full(w)
           /\ k \in Nat \ {0}
           /\ \A q \in Ranks : Len(posted[q]) >= k /\ posted[q][k].op = "empty" /\ posted[q][k].win = w
<1>2. Types /\ LatestOK(r)
  BY Given0
<1>3. posted[r] # <<>> /\ posted[r][k].win = w /\ posted[r][k].op = "empty"
  BY <1>2 DEF LatestOK, InWindow, Ops
<1>4. k \in Nat /\ k # 0
  <2>1. posted[r] \in Seq(Messages)
    BY <1>2 DEF Types
  <2> QED
    BY <1>3, <2>1
<1>5. \A q \in Ranks : Len(posted[q]) >= k /\ posted[q][k].op = "empty" /\ posted[q][k].win = w
  BY <1>3 DEF Arrived, Calls
<1>6. ASSUME NEW q \in Ranks PROVE FromRank(q, r) = (MineOf(q, w) = <<>>)
  <2>1. k \in 1..Len(posted[q])
    BY <1>2, <1>4, <1>5, ListLengths
  <2>2. CallOK(q, k)
    BY <2>1, Given0
  <2> QED
    BY <1>5, <2>2 DEF CallOK, FromRank, Calls
<1>7. {q \in Ranks : ~FromRank(q, r)} = Full(w)
  BY <1>6 DEF Full
<1> QED
  BY <1>4, <1>5, <1>7

\* All come to the same decision on whether data is sent.
LEMMA EmptiesStep ==
    ASSUME IInv, NEW r \in Ranks, Empties(r)
    PROVE  IInv'
<1>1. PICK w0, L : w0 = Current(r) /\ L = Len(posted[r])
  OBVIOUS
<1>2. /\ pc[r] = "empty" /\ Arrived(r)
      /\ disk' = disk /\ out' = out /\ wi' = wi /\ rule' = rule /\ blocks' = blocks /\ win' = win
  BY DEF Empties
<1>3. /\ disk \in DataSet /\ Types /\ ControlOK(r) /\ LatestOK(r)
      /\ \A w \in Range(Windows) : WindowOK(r, w)
  BY Given0
<1>4. blocks[r] = Mine(r) /\ rule[r] = MyRule(r) /\ wi[r] <= Len(Windows) /\ ~Skipped(r, w0)
  BY <1>1, <1>2, <1>3 DEF ControlOK, InWindow
<1>5. w0 \in Range(Windows) /\ WindowOK(r, w0)
  BY <1>1, <1>3, <1>4, Given0
<1>6. /\ {q \in Ranks : ~FromRank(q, r)} = Full(w0) /\ L \in Nat \ {0}
      /\ \A q \in Ranks : Len(posted[q]) >= L /\ posted[q][L].op = "empty" /\ posted[q][L].win = w0
  BY <1>1, <1>2, EmptiesAll
<1>7. /\ win[r][w0].items = Expected(w0) /\ win[r][w0].panes = LocalOf(r, w0)
      /\ Loads(r, w0) => win[r][w0].data = Written
  BY <1>1, <1>2, <1>4, <1>5 DEF WindowOK, Past, InWindow
<1>8. PICK root, data, panes : root = Root(Full(w0)) /\ data = win[r][w0].data /\ panes = win[r][w0].panes
  OBVIOUS
<1>9. IF Sends(w0) THEN Post(r, "bcast", [root |-> root, data |-> data]) /\ pc' = [pc EXCEPT ![r] = "bcast"]
                   ELSE Post(r, "init_done", panes) /\ pc' = [pc EXCEPT ![r] = "init_done"]
  BY <1>1, <1>6, <1>7, <1>8 DEF Empties, Sends, Goto, Current
<1>10. data \in {Unset, Written} /\ panes \in SUBSET Int
  <2>1. win[r][w0] \in WindowStates
    BY <1>3, <1>5 DEF Types
  <2> QED
    BY <1>8, <2>1 DEF WindowStates
<1>11. PICK v, l : /\ v = IF Sends(w0) THEN [root |-> root, data |-> data] ELSE panes
                   /\ l = IF Sends(w0) THEN "bcast" ELSE "init_done"
  OBVIOUS
<1>12. Posted(r, l, v) /\ pc' = [pc EXCEPT ![r] = l]
  <2>1. CASE Sends(w0)
    <3>1. root \in Int
      BY <1>3, <1>8, <2>1, Sender DEF Ranks
    <3>2. [root |-> root, data |-> data] \in Values /\ "bcast" \in Ops
      BY <1>10, <3>1 DEF Values, Ops
    <3> QED
      BY <1>4, <1>9, <1>11, <2>1, <3>2, PostFacts
  <2>2. CASE ~Sends(w0)
    <3>1. panes \in Values /\ "init_done" \in Ops
      BY <1>10 DEF Values, Ops
    <3> QED
      BY <1>4, <1>9, <1>11, <2>2, <3>1, PostFacts
  <2> QED
    BY <2>1, <2>2
<1>13. l \in Reads /\ l \in {"bcast", "init_done"} /\ pc[r] \notin WriteLabels /\ pc'[r] = l
  BY <1>2, <1>3, <1>11, <1>12 DEF Reads, Labels, WriteLabels, Types
<1>14. Current(r)' = w0 /\ \A w : Behind(r, w)' <=> Behind(r, w)
  BY <1>1, <1>2, SamePlace
<1>15. ControlOK(r)'
  <2>1. ~Skipped(r, Current(r))'
    BY <1>2, <1>4, <1>14, SameFor
  <2> QED
    BY <1>2, <1>4, <1>13, <2>1, SameFor DEF ControlOK, WriteLabels
<1>16. posted'[r] # <<>> /\ Len(posted'[r]) = L + 1
       /\ posted'[r][L + 1] = [op |-> l, win |-> w0, val |-> v]
       /\ \A n \in 1..L : posted'[r][n] = posted[r][n]
       /\ \A q \in Ranks \ {r} : posted'[q] = posted[q]
  BY <1>1, <1>12 DEF Posted
<1>17. LatestOK(r)'
  BY <1>13, <1>14, <1>16 DEF LatestOK, Ops
<1>18. ASSUME NEW q \in Ranks PROVE Len(posted'[q]) >= L /\ posted'[q][L].op = "empty" /\ posted'[q][L].win = w0
  <2>1. L \in 1..L
    BY <1>6
  <2> QED
    BY <1>1, <1>6, <1>16, <2>1
<1>19. AfterEmpty(r, L + 1)'
  <2>1. (L + 1) - 1 = L /\ posted'[r][L].win = w0
    BY <1>6, <1>18
  <2>2. Sends(w0) => v \in [root : {Root(Full(w0))}, data : {Unset, Written}] /\ (Loads(r, w0) => v.data = Written)
    BY <1>7, <1>8, <1>10, <1>11
  <2>3. /\ Sends(w0)' <=> Sends(w0)
        /\ Loads(r, w0)' <=> Loads(r, w0)
        /\ Full(w0)' = Full(w0)
    BY <1>2, SameFor
  <2>4. \A q \in Ranks : Len(posted'[q]) >= (L + 1) - 1 /\ posted'[q][(L + 1) - 1].op = "empty" /\ posted'[q][(L + 1) - 1].win = w0
    BY <1>18, <2>1
  <2>5. posted'[r][(L + 1) - 1].win = w0
    BY <2>1
  <2> QED
    BY <1>11, <1>16, <2>2, <2>3, <2>4, <2>5 DEF AfterEmpty
<1>20. CallOK(r, L + 1)'
  <2>1. L + 1 > 1 /\ posted'[r][(L + 1) - 1].op = "empty"
    BY <1>6, <1>18
  <2>2. posted'[r][L + 1].op \notin {"items", "empty"}
    BY <1>13, <1>16
  <2> QED
    BY <1>19, <2>1, <2>2 DEF CallOK
<1>21. ASSUME NEW w \in Range(Windows) PROVE WindowOK(r, w)'
  <2>1. WindowOK(r, w)
    BY <1>3
  <2>2. /\ Past(r, w, InWindow \ {"items"})' => Past(r, w, InWindow \ {"items"})
        /\ Past(r, w, {"load", "empty", "bcast", "init_done"})' => Past(r, w, {"load", "empty", "bcast", "init_done"})
        /\ Past(r, w, {"init_done"})' => Past(r, w, {"init_done"}) \/ (w = w0 /\ ~Sends(w0))
    BY <1>1, <1>2, <1>11, <1>13, <1>14 DEF Past, InWindow
  <2>3. pc'[r] \in {"empty", "bcast"} /\ w = Current(r)' => pc[r] \in {"empty", "bcast"} /\ w = Current(r)
    BY <1>1, <1>2, <1>14
  <2> QED
    BY <1>2, <1>7, <2>1, <2>2, <2>3, SameFor DEF WindowOK
<1>22. win' \in [Ranks -> [Range(Windows) -> WindowStates]] /\ \A q \in Ranks \ {r} : win'[q] = win[q]
  BY <1>2, <1>3 DEF Types
<1> QED
  BY <1>1, <1>2, <1>12, <1>13, <1>15, <1>17, <1>20, <1>21, <1>22, PostStep

\* What the broadcast of a window delivers
LEMMA BroadcastFrom ==
    ASSUME IInv, NEW r \in Ranks, pc[r] = "bcast", NEW w, w = Current(r),
           NEW root, root = FromRank(r, r).root, Len(posted[root]) >= Calls(r)
    PROVE  /\ Sends(w) /\ root = Root(Full(w))
           /\ FromRank(root, r).data \in {Unset, Written}
           /\ Loads(root, w) => FromRank(root, r).data = Written
<1>1. PICK k : k = Len(posted[r])
  OBVIOUS
<1>2. Types /\ LatestOK(r) /\ disk \in DataSet
  BY Given0
<1>3. posted[r] # <<>> /\ posted[r][k].win = w /\ posted[r][k].op = "bcast"
  BY <1>1, <1>2 DEF LatestOK, InWindow, Ops
<1>4. k \in Nat /\ k # 0
  <2>1. posted[r] \in Seq(Messages)
    BY <1>2 DEF Types
  <2> QED
    BY <1>1, <1>3, <2>1
<1>5. k > 1 /\ AfterEmpty(r, k)
  <2>1. k \in 1..Len(posted[r])
    BY <1>1, <1>4
  <2>2. CallOK(r, k)
    BY <2>1, Given0
  <2> QED
    BY <1>3, <2>2 DEF CallOK
<1>6. /\ posted[r][k - 1].win = w /\ Sends(w) /\ posted[r][k].val.root = Root(Full(w))
      /\ \A q \in Ranks : posted[q][k - 1].op = "empty" /\ posted[q][k - 1].win = w
  BY <1>3, <1>5 DEF AfterEmpty
<1>7. root = Root(Full(w)) /\ root \in Ranks /\ FromRank(root, r) = posted[root][k].val
  BY <1>1, <1>2, <1>6, Sender DEF FromRank, Calls
<1>8. AfterEmpty(root, k)
  <2>1. k \in 1..Len(posted[root])
    BY <1>1, <1>2, <1>4, <1>7, ListLengths DEF Calls
  <2>2. CallOK(root, k)
    BY <1>7, <2>1, Given0
  <2> QED
    BY <1>5, <1>6, <1>7, <2>2 DEF CallOK
<1>9. /\ posted[root][k].val \in [root : {Root(Full(w))}, data : {Unset, Written}]
      /\ Loads(root, w) => posted[root][k].val.data = Written
  BY <1>6, <1>7, <1>8 DEF AfterEmpty
<1> QED
  BY <1>6, <1>7, <1>9

\* r takes over what the root has sent.
LEMMA BroadcastStep ==
    ASSUME IInv, NEW r \in Ranks, Broadcast(r)
    PROVE  IInv'
<1>1. PICK w0, L, root, e, v : /\ w0 = Current(r) /\ L = Len(posted[r])
                               /\ root = FromRank(r, r).root /\ e = FromRank(root, r).data
                               /\ v = win[r][w0].panes
  OBVIOUS
<1>2. /\ pc[r] = "bcast" /\ Len(posted[root]) >= Calls(r)
      /\ win' = [win EXCEPT ![r][w0].data = e]
      /\ Post(r, "init_done", v) /\ pc' = [pc EXCEPT ![r] = "init_done"]
      /\ disk' = disk /\ out' = out /\ wi' = wi /\ rule' = rule /\ blocks' = blocks
  BY <1>1 DEF Broadcast, Goto, Current
<1>3. /\ disk \in DataSet /\ Types /\ ControlOK(r) /\ LatestOK(r)
      /\ \A w \in Range(Windows) : WindowOK(r, w)
  BY Given0
<1>4. blocks[r] = Mine(r) /\ rule[r] = MyRule(r) /\ wi[r] <= Len(Windows) /\ ~Skipped(r, w0)
  BY <1>1, <1>2, <1>3 DEF ControlOK, InWindow
<1>5. w0 \in Range(Windows) /\ WindowOK(r, w0)
  BY <1>1, <1>3, <1>4, Given0
<1>6. /\ Sends(w0) /\ root = Root(Full(w0)) /\ e \in {Unset, Written}
      /\ Loads(root, w0) => e = Written
  BY <1>1, <1>2, BroadcastFrom
<1>7. PICK s : s = [win[r][w0] EXCEPT !.data = e]
  OBVIOUS
<1>8. win[r][w0] \in WindowStates
  BY <1>3, <1>5 DEF Types
<1>9. s \in WindowStates /\ s.data = e /\ s.items = win[r][w0].items /\ s.panes = win[r][w0].panes
  BY <1>6, <1>7, <1>8 DEF WindowStates
<1>10. win' = [win EXCEPT ![r][w0] = s]
  BY <1>2, <1>7
<1>11. /\ win' \in [Ranks -> [Range(Windows) -> WindowStates]]
       /\ \A q \in Ranks \ {r} : win'[q] = win[q]
       /\ win'[r][w0] = s
       /\ \A w \in Range(Windows) : w # w0 => win'[r][w] = win[r][w]
  BY <1>3, <1>5, <1>9, <1>10, WindowUpdates
<1>12. Posted(r, "init_done", v)
  <2>1. v \in Values /\ "init_done" \in Ops
    BY <1>1, <1>8 DEF Values, Ops, WindowStates
  <2> QED
    BY <1>2, <1>4, <2>1, PostFacts
<1>13. "init_done" \in Reads /\ pc[r] \notin WriteLabels /\ pc'[r] = "init_done"
  BY <1>2, <1>3 DEF Reads, Labels, WriteLabels, Types
<1>14. Current(r)' = w0 /\ \A w : Behind(r, w)' <=> Behind(r, w)
  BY <1>1, <1>2, SamePlace
<1>15. ControlOK(r)'
  <2>1. ~Skipped(r, Current(r))'
    BY <1>2, <1>4, <1>14, SameFor
  <2> QED
    BY <1>2, <1>4, <1>13, <2>1, SameFor DEF ControlOK, WriteLabels
<1>16. L \in Nat /\ posted'[r] # <<>> /\ Len(posted'[r]) = L + 1
       /\ posted'[r][L + 1] = [op |-> "init_done", win |-> w0, val |-> v]
       /\ \A n \in 1..L : posted'[r][n] = posted[r][n]
  BY <1>1, <1>3, <1>12, ListLengths DEF Posted
<1>17. LatestOK(r)'
  BY <1>13, <1>14, <1>16 DEF LatestOK, Ops
<1>18. CallOK(r, L + 1)'
  <2>1. L # 0 => posted'[r][L].op # "empty"
    <3> SUFFICES ASSUME L # 0 PROVE posted'[r][L].op # "empty"
      OBVIOUS
    <3>1. L \in 1..L
      BY <1>16
    <3> QED
      BY <1>1, <1>2, <1>3, <1>16, <3>1 DEF LatestOK, InWindow, Ops
  <2>2. ~(L + 1 > 1 /\ posted'[r][(L + 1) - 1].op = "empty")
    BY <1>16, <2>1
  <2>3. posted'[r][L + 1].op = "init_done"
    BY <1>16
  <2> QED
    BY <2>2, <2>3 DEF CallOK
<1>19. ASSUME NEW w \in Range(Windows) PROVE WindowOK(r, w)'
  <2>1. WindowOK(r, w)
    BY <1>3
  <2>2. /\ Past(r, w, InWindow \ {"items"})' => Past(r, w, InWindow \ {"items"})
        /\ Past(r, w, {"load", "empty", "bcast", "init_done"})' => Past(r, w, {"load", "empty", "bcast", "init_done"})
        /\ Past(r, w, {"init_done"})' => Past(r, w, {"init_done"}) \/ w = w0
    BY <1>1, <1>2, <1>13, <1>14 DEF Past, InWindow
  <2>3. CASE w = w0
    <3>1. /\ win'[r][w].items = win[r][w].items /\ win'[r][w].panes = win[r][w].panes
          /\ Loads(IF Sends(w) THEN Root(Full(w)) ELSE r, w) => win'[r][w].data = Written
      BY <1>6, <1>9, <1>11, <2>3
    <3> QED
      BY <1>2, <1>13, <2>1, <2>2, <3>1, SameFor DEF WindowOK
  <2>4. CASE w # w0
    BY <1>2, <1>11, <1>13, <2>1, <2>2, <2>4, SameFor DEF WindowOK
  <2> QED
    BY <2>3, <2>4
<1> QED
  BY <1>1, <1>2, <1>11, <1>12, <1>13, <1>15, <1>17, <1>18, <1>19, PostStep

\* r is through with a window.
LEMMA InitDoneStep ==
    ASSUME IInv, NEW r \in Ranks, window_init_done(r)
    PROVE  IInv'
<1>1. PICK w0 : w0 = Current(r)
  OBVIOUS
<1>2. /\ pc[r] = "init_done" /\ wi' = [wi EXCEPT ![r] = @ + 1] /\ pc' = [pc EXCEPT ![r] = "next"]
      /\ disk' = disk /\ out' = out /\ rule' = rule /\ blocks' = blocks /\ win' = win /\ posted' = posted
  BY DEF window_init_done, Goto
<1>3. /\ disk \in DataSet /\ Types /\ ControlOK(r) /\ LatestOK(r)
      /\ \A w \in Range(Windows) : WindowOK(r, w)
      /\ wi[r] \in 1..Len(Windows) + 1
  BY Given0
<1>4. blocks[r] = Mine(r) /\ rule[r] = MyRule(r) /\ wi[r] <= Len(Windows) /\ ~Skipped(r, w0)
  BY <1>1, <1>2, <1>3 DEF ControlOK, InWindow
<1>5. pc \in [Ranks -> Labels] /\ wi \in [Ranks -> Nat] /\ Len(Windows) \in Nat
  BY <1>3, WindowList DEF Types
<1>6. "next" \in Reads /\ pc[r] \notin WriteLabels /\ pc'[r] = "next"
  BY <1>2, <1>5 DEF Reads, Labels, WriteLabels
<1>7. /\ wi' \in [Ranks -> Nat] /\ wi'[r] = wi[r] + 1 /\ wi'[r] \in 1..Len(Windows) + 1
      /\ \A q \in Ranks \ {r} : wi'[q] = wi[q]
  BY <1>2, <1>3, <1>4, <1>5
<1>8. \A w : Behind(r, w)' <=> Behind(r, w) \/ w = w0
  BY <1>1, <1>2, <1>3, <1>7, OneMoreBehind
<1>9. ControlOK(r)'
  BY <1>2, <1>4, <1>6, SameFor DEF ControlOK, InWindow, WriteLabels
<1>10. LatestOK(r)'
  BY <1>2, <1>3, <1>6 DEF LatestOK, InWindow, Ops
<1>11. ASSUME NEW w \in Range(Windows) PROVE WindowOK(r, w)'
  <2>1. WindowOK(r, w)
    BY <1>3
  <2>2. /\ Past(r, w, InWindow \ {"items"})' <=> Past(r, w, InWindow \ {"items"})
        /\ Past(r, w, {"load", "empty", "bcast", "init_done"})' <=> Past(r, w, {"load", "empty", "bcast", "init_done"})
        /\ Past(r, w, {"init_done"})' <=> Past(r, w, {"init_done"})
    BY <1>1, <1>2, <1>6, <1>8 DEF Past, InWindow
  <2> QED
    BY <1>2, <1>6, <2>1, <2>2, SameFor DEF WindowOK
<1>12. win' \in [Ranks -> [Range(Windows) -> WindowStates]] /\ \A q \in Ranks \ {r} : win'[q] = win[q]
  BY <1>2, <1>3 DEF Types
<1> QED
  BY <1>2, <1>6, <1>7, <1>9, <1>10, <1>11, <1>12, QuietStep

\* The rule and the blocks are cleared.
LEMMA ReturnStep ==
    ASSUME IInv, NEW r \in Ranks, Return(r)
    PROVE  IInv'
<1>1. /\ pc[r] = "next" /\ wi[r] > Len(Windows)
      /\ rule' = [rule EXCEPT ![r] = NoRule] /\ blocks' = [blocks EXCEPT ![r] = <<>>]
      /\ pc' = [pc EXCEPT ![r] = "done"]
      /\ disk' = disk /\ out' = out /\ wi' = wi /\ win' = win /\ posted' = posted
  BY DEF Return, Goto
<1>2. /\ disk \in DataSet /\ Types /\ ControlOK(r) /\ LatestOK(r)
      /\ \A w \in Range(Windows) : WindowOK(r, w)
      /\ \A n \in 1..Len(posted[r]) : CallOK(r, n)
      /\ wi[r] \in 1..Len(Windows) + 1
  BY Given0
<1>3. DOMAIN rule = Ranks /\ DOMAIN blocks = Ranks /\ pc \in [Ranks -> Labels] /\ Len(Windows) \in Nat
  BY <1>2, WindowList DEF Types
<1>4. "done" \in Reads /\ pc[r] \notin WriteLabels /\ pc'[r] = "done"
  BY <1>1, <1>3 DEF Reads, Labels, WriteLabels
<1>5. /\ \A q \in Ranks \ {r} : pc'[q] = pc[q] /\ rule'[q] = rule[q] /\ blocks'[q] = blocks[q]
      /\ DOMAIN rule' = Ranks /\ DOMAIN blocks' = Ranks /\ rule'[r] = NoRule
      /\ pc' \in [Ranks -> Labels]
  BY <1>1, <1>3, <1>4 DEF Reads
<1>6. Alone(r)
  BY <1>1, <1>2, <1>5, ListLengths DEF Alone
<1>7. wi'[r] = Len(Windows) + 1 /\ Windows' = Windows
  BY <1>1, <1>2, <1>3, SameFor
<1>8. ControlOK(r)'
  BY <1>4, <1>7 DEF ControlOK, InWindow, WriteLabels
<1>9. LatestOK(r)'
  BY <1>4 DEF LatestOK, InWindow
<1>10. ASSUME NEW w \in Range(Windows) PROVE WindowOK(r, w)'
  <2>1. WindowOK(r, w)
    BY <1>2
  <2>2. \A x : Behind(r, x)' <=> Behind(r, x)
    BY <1>1, SamePlace
  <2>3. /\ Past(r, w, InWindow \ {"items"})' <=> Past(r, w, InWindow \ {"items"})
        /\ Past(r, w, {"load", "empty", "bcast", "init_done"})' <=> Past(r, w, {"load", "empty", "bcast", "init_done"})
        /\ Past(r, w, {"init_done"})' <=> Past(r, w, {"init_done"})
    BY <1>1, <1>4, <2>2 DEF Past, InWindow
  <2> QED
    BY <1>1, <1>4, <2>1, <2>3, SameFor DEF WindowOK
<1>11. \A n \in 1..Len(posted[r]) : CallOK(r, n)'
  BY <1>1, <1>2, <1>6, AloneLonger, CallsKept
<1>12. DOMAIN posted'[r] = 1..Len(posted[r])
  BY <1>1, <1>2, ListLengths
<1>13. ProcessOK(r)'
  BY <1>7, <1>8, <1>9, <1>10, <1>11, <1>12 DEF ProcessOK
<1>14. Types'
  <2>1. Messages' = Messages
    BY <1>7 DEF Messages
  <2>2. \A q \in Ranks : rule'[q].kind \in {"none", "explicit", "cyclic", "blockcyclic"}
    BY <1>2, <1>5, RuleKinds DEF Types
  <2> QED
    BY <1>1, <1>2, <1>5, <1>7, <2>1, <2>2 DEF Types
<1> QED
  BY <1>1, <1>4, <1>6, <1>13, <1>14, ReadStep

------------------------------------------------------------------------------
(* Steps of the writers *)

\* The rest of the invariant, which a step of the writers has to show.
LEMMA WriteFrame ==
    ASSUME IInv, \A q \in Ranks : pc[q] \in WriteLabels, UNCHANGED readVars, disk'.mats = disk.mats,
           pc' \in [Ranks -> Labels],
           (\A q \in Ranks : pc'[q] \in WriteLabels) \/ (\A q \in Ranks : pc'[q] = "start"),
           DiskOK', WriteOK'
    PROVE  IInv'
<1>1. Windows' = Windows
  BY DEF Windows
<1>2. rule' = rule /\ blocks' = blocks /\ wi' = wi /\ win' = win /\ posted' = posted
  BY DEF readVars
<1>3. Types'
  <2>1. Messages' = Messages
    BY <1>1 DEF Messages
  <2> QED
    BY <1>1, <1>2, <2>1 DEF IInv, Types
<1>4. Phase'
  BY DEF Phase, WriteLabels
<1>5. ASSUME NEW q \in Ranks PROVE ProcessOK(q)'
  <2>1. Fresh(q) /\ Unread(q)
    BY Given0 DEF ControlOK
  <2>2. Fresh(q)' /\ Unread(q)'
    BY <1>1, <1>2, <2>1 DEF Fresh, Unread
  <2>3. pc'[q] \in WriteLabels \cup {"start", "gaveup", "next"} /\ pc'[q] # "next"
    BY DEF WriteLabels
  <2> QED
    BY <2>2, <2>3, FreshProcess
<1> QED
  BY <1>3, <1>4, <1>5 DEF IInv

\* The panes that are written belong to processes.
LEMMA Owned ==
    ASSUME IInv, disk.owner # <<>>
    PROVE  /\ disk \in DataSet /\ disk.mats = <<>>
           /\ Len(disk.owner) \in Nat \ {0} /\ DOMAIN disk.owner = 1..Len(disk.owner)
           /\ \A p \in DOMAIN disk.owner : disk.owner[p] \in Ranks
<1>1. disk \in DataSet /\ disk.mats = <<>>
  BY DEF IInv, DiskOK, WriteOK
<1>2. PICK o : o = disk.owner
  OBVIOUS
<1>3. o \in Seq(Ranks) /\ o # <<>>
  BY <1>1, <1>2, DataSetFields
<1>4. Len(o) \in Nat \ {0} /\ DOMAIN o = 1..Len(o) /\ \A p \in DOMAIN o : o[p] \in Ranks
  BY <1>3
<1> QED
  BY <1>1, <1>2, <1>4

\* What the writers rely on.
LEMMA Writers ==
    ASSUME IInv, NEW r \in Ranks, pc[r] \in WriteLabels
    PROVE  /\ \A q \in Ranks : pc[q] \in WriteLabels
           /\ disk \in DataSet /\ disk.owner # <<>> /\ disk.mats = <<>>
           /\ Len(disk.owner) \in Nat \ {0} /\ DOMAIN disk.owner = 1..Len(disk.owner)
           /\ \A p \in DOMAIN disk.owner : disk.owner[p] \in Ranks
           /\ out \in [Ranks -> [todo : SUBSET Int, written : SUBSET Int]]
           /\ pc \in [Ranks -> Labels]
<1>1. /\ WriteOK /\ Phase /\ pc \in [Ranks -> Labels]
      /\ out \in [Ranks -> [todo : SUBSET Int, written : SUBSET Int]]
  BY DEF IInv, DiskOK, Types
<1>2. disk.owner # <<>>
  BY <1>1 DEF WriteOK
<1> QED
  BY <1>1, <1>2, Owned DEF Phase

\* Numbers of files: process a, pane p of n
LEMMA FileNumbers ==
    ASSUME NEW n \in Nat \ {0}, NEW a \in Ranks, NEW p \in 1..n
    PROVE  /\ a * n + p \in 1..NProcs * n /\ a + 1 \in 1..NProcs * n /\ p \in 1..NProcs * n /\ 1 \in 1..NProcs * n
           /\ \A b \in Ranks, q \in 1..n : a * n + p = b * n + q => a = b
<1>1. ASSUME NEW i \in Nat, NEW j \in Nat, i < j PROVE i * n + n <= j * n
  <2>1. PICK d \in Nat : j = i + 1 + d
    <3>1. j - i - 1 \in Nat /\ j = i + 1 + (j - i - 1)
      BY <1>1
    <3> QED
      BY <3>1
  <2>2. j * n = i * n + n + d * n
    BY <2>1
  <2>3. d * n \in Nat /\ i * n \in Nat
    OBVIOUS
  <2> QED
    BY <2>2, <2>3
<1>2. a \in Nat /\ NProcs \in Nat /\ a < NProcs
  BY NProcsAssumption DEF Ranks
<1>3. a * n \in Nat /\ NProcs * n \in Nat /\ a * n + n <= NProcs * n
  BY <1>1, <1>2
<1>4. a + 1 <= NProcs * n
  <2>1. PICK d \in Nat : n = d + 1
    <3>1. n - 1 \in Nat /\ n = (n - 1) + 1
      OBVIOUS
    <3> QED
      BY <3>1
  <2>2. NProcs * n = NProcs * d + NProcs /\ NProcs * d \in Nat
    BY <1>2, <2>1
  <2> QED
    BY <1>2, <2>2
<1>5. \A b \in Ranks, q \in 1..n : a * n + p = b * n + q => a = b
  <2> SUFFICES ASSUME NEW b \in Ranks, NEW q \in 1..n, a * n + p = b * n + q PROVE a = b
    OBVIOUS
  <2>1. b \in Nat /\ b * n \in Nat
    BY NProcsAssumption DEF Ranks
  <2>2. a < b => FALSE
    <3> SUFFICES ASSUME a < b PROVE FALSE
      OBVIOUS
    <3>1. a * n + n <= b * n
      BY <1>1, <1>2, <2>1
    <3> QED
      BY <1>3, <2>1, <3>1
  <2>3. b < a => FALSE
    <3> SUFFICES ASSUME b < a PROVE FALSE
      OBVIOUS
    <3>1. b * n + n <= a * n
      BY <1>1, <1>2, <2>1
    <3> QED
      BY <1>3, <2>1, <3>1
  <2> QED
    BY <1>2, <2>1, <2>2, <2>3
<1> QED
  BY <1>2, <1>3, <1>4, <1>5

\* A file belongs to one process, or to one pane.
LEMMA FilesApart ==
    ASSUME IInv, disk.owner # <<>>
    PROVE  /\ \A p \in DOMAIN disk.owner : FileOf(p) \in DOMAIN disk.files /\ FileOf(p) \in Int
           /\ \A p, q \in DOMAIN disk.owner : FileOf(p) = FileOf(q) => disk.owner[p] = disk.owner[q] \/ p = q
<1>1. PICK n : n = Len(disk.owner)
  OBVIOUS
<1>2. /\ disk \in DataSet /\ n \in Nat \ {0} /\ DOMAIN disk.owner = 1..n /\ disk.owner # <<>>
      /\ \A p \in 1..n : disk.owner[p] \in Ranks
  BY <1>1, Owned
<1>3. disk.rw \in Nat /\ disk.pw \in Nat
  BY <1>2 DEF DataSet
<1>4. /\ disk.rw = 0 /\ disk.pw = 0 => \A p, q \in 1..n : disk.owner[p] = disk.owner[q]
      /\ Len(disk.files) = NProcs * n
  BY <1>1, <1>2 DEF IInv, WriteOK
<1>5. DOMAIN disk.files = 1..NProcs * n
  <2>1. PICK fs : fs = disk.files
    OBVIOUS
  <2>2. fs \in Seq(Seq(Blocks))
    BY <1>2, <2>1 DEF DataSet
  <2> QED
    BY <1>4, <2>1, <2>2
<1>6. ASSUME NEW p \in 1..n, NEW q \in 1..n
      PROVE /\ FileOf(p) \in 1..NProcs * n
            /\ FileOf(p) = FileOf(q) => disk.owner[p] = disk.owner[q] \/ p = q
  <2>1. PICK a, b : a = disk.owner[p] /\ b = disk.owner[q]
    OBVIOUS
  <2>2. a \in Ranks /\ b \in Ranks
    BY <1>2, <2>1
  <2>3. /\ a * n + p \in 1..NProcs * n /\ a + 1 \in 1..NProcs * n /\ p \in 1..NProcs * n /\ 1 \in 1..NProcs * n
        /\ a * n + p = b * n + q => a = b
    BY <1>2, <2>2, FileNumbers
  <2>4. a + 1 = b + 1 => a = b
    BY <2>2 DEF Ranks
  <2>5. CASE disk.rw > 0 /\ disk.pw > 0
    BY <1>1, <2>1, <2>3, <2>5 DEF FileOf, get_fname
  <2>6. CASE disk.rw > 0 /\ disk.pw = 0
    BY <2>1, <2>3, <2>4, <2>6 DEF FileOf, get_fname
  <2>7. CASE disk.rw = 0 /\ disk.pw > 0
    BY <2>1, <2>3, <2>7 DEF FileOf, get_fname
  <2>8. CASE disk.rw = 0 /\ disk.pw = 0
    BY <1>4, <2>1, <2>3, <2>8 DEF FileOf, get_fname
  <2> QED
    BY <1>3, <2>5, <2>6, <2>7, <2>8
<1>7. NProcs * n \in Int
  BY <1>2, NProcsAssumption
<1> QED
  BY <1>2, <1>5, <1>6, <1>7

\* Nothing that the writers look up changes when they write.
LEMMA WritersSame ==
    ASSUME disk'.owner = disk.owner, disk'.rw = disk.rw, disk'.pw = disk.pw
    PROVE  /\ \A p : FileOf(p)' = FileOf(p) /\ PaneBlock(p)' = PaneBlock(p) /\ PanesOf(p)' = PanesOf(p)
           /\ Listed' = Listed
<1>1. \A p : PanesOf(p)' = PanesOf(p) /\ Matching(p)' = Matching(p)
  BY DEF PanesOf, Matching
<1>2. Listed' = Listed
  BY <1>1 DEF Listed, ListedPanes
<1>3. \A p : FileOf(p)' = FileOf(p) /\ PaneBlock(p)' = PaneBlock(p)
  BY DEF FileOf, get_fname, PaneBlock
<1> QED
  BY <1>1, <1>2, <1>3

\* What is written is a block.
LEMMA PaneBlockTypes ==
    ASSUME NEW p \in Int
    PROVE  PaneBlock(p) \in Blocks
<1>1. PICK w, n, e, a : w = "w" /\ n = "n" /\ e = "e" /\ a = "a"
  OBVIOUS
<1>2. {w, n, e} \subseteq Names
  BY <1>1, DataSetsAssumption
<1>3. a \in Names
  <2>1. MatOrder \in Seq(Names) /\ a \in Range(MatOrder)
    BY <1>1, DataSetsAssumption
  <2> QED
    BY <2>1 DEF Range
<1>4. <<w, n, e>> \in Seq(Names) /\ <<w, n>> \in Seq(Names)
  BY <1>2
<1>5. PaneBlock(p) = [pane |-> p, mat |-> a, time |-> 1, items |-> IF p = 1 THEN <<w, n, e>> ELSE <<w, n>>]
  BY <1>1, Zenon DEF PaneBlock, Level
<1>6. 1 \in Int
  OBVIOUS
<1>7. (IF p = 1 THEN <<w, n, e>> ELSE <<w, n>>) \in Seq(Names)
  BY <1>4
<1> QED
  BY <1>3, <1>5, <1>6, <1>7 DEF Blocks

\* A file after a pane was written to it
LEMMA FileAfter ==
    ASSUME disk \in DataSet, NEW f \in DOMAIN disk.files, NEW b \in Blocks, NEW append \in BOOLEAN,
           disk' = [disk EXCEPT !.files[f] = (IF append THEN @ ELSE <<>>) \o <<b>>]
    PROVE  /\ disk' \in DataSet
           /\ \A x \in {"control", "mats", "patterns", "time", "owner", "rw", "pw"} : disk'[x] = disk[x]
           /\ Len(disk'.files) = Len(disk.files) /\ DOMAIN disk'.files = DOMAIN disk.files
           /\ \A g \in DOMAIN disk.files : g # f => disk'.files[g] = disk.files[g]
           /\ b \in Range(disk'.files[f])
           /\ Range(disk'.files[f]) \subseteq Range(disk.files[f]) \cup {b}
           /\ append => Range(disk.files[f]) \subseteq Range(disk'.files[f])
<1> DEFINE B == Blocks
<1> HIDE DEF B
<1>1. PICK fs, c : fs = disk.files /\ c = (IF append THEN fs[f] ELSE <<>>) \o <<b>>
  OBVIOUS
<1>2. fs \in Seq(Seq(B)) /\ f \in DOMAIN fs /\ b \in B
  BY <1>1, DataSetFields DEF B
<1>3. fs[f] \in Seq(B)
  BY <1>2
<1>4. (IF append THEN fs[f] ELSE <<>>) \in Seq(B)
  BY <1>3
<1>5. c \in Seq(B)
  BY <1>1, <1>2, <1>4
<1>6. disk' = [disk EXCEPT !.files = [fs EXCEPT ![f] = c]]
  BY <1>1
<1>7. PICK gs : gs = [fs EXCEPT ![f] = c]
  OBVIOUS
<1>8. gs \in Seq(Seq(B)) /\ Len(gs) = Len(fs) /\ DOMAIN gs = DOMAIN fs /\ gs[f] = c /\ \A g \in DOMAIN fs : g # f => gs[g] = fs[g]
  BY <1>2, <1>5, <1>7
<1>9. disk' = [disk EXCEPT !.files = gs]
  BY <1>6, <1>7
<1>10. /\ disk'.files = gs
       /\ \A x \in {"control", "mats", "patterns", "time", "owner", "rw", "pw"} : disk'[x] = disk[x]
  BY <1>9 DEF DataSet
<1>11. disk' \in DataSet
  BY <1>8, <1>9 DEF DataSet, B
<1>12. /\ b \in Range(c) /\ Range(c) \subseteq Range(fs[f]) \cup {b}
       /\ append => Range(fs[f]) \subseteq Range(c)
  <2>1. PICK s : s = IF append THEN fs[f] ELSE <<>>
    OBVIOUS
  <2>2. s \in Seq(B) /\ c = s \o <<b>>
    BY <1>1, <1>4, <2>1
  <2>3. Range(c) = Range(s) \cup {b}
    <3>1. Len(c) = Len(s) + 1 /\ DOMAIN c = 1..Len(s) + 1 /\ c[Len(s) + 1] = b /\ Len(s) \in Nat /\ DOMAIN s = 1..Len(s)
      BY <1>2, <2>2
    <3>2. \A i \in 1..Len(s) : c[i] = s[i]
      BY <1>2, <2>2
    <3>3. \A i : i \in 1..Len(s) + 1 <=> i \in 1..Len(s) \/ i = Len(s) + 1
      BY <3>1
    <3> QED
      BY <3>1, <3>2, <3>3 DEF Range
  <2>4. append => s = fs[f]
    BY <2>1
  <2>5. ~append => Range(s) = {}
    BY <2>1 DEF Range
  <2> QED
    BY <2>3, <2>4, <2>5
<1> QED
  BY <1>1, <1>8, <1>10, <1>11, <1>12

\* A pane is written; the others in the same file are kept.
LEMMA WritePaneStep ==
    ASSUME IInv, NEW r \in Ranks, write_dataitem_internal(r), UNCHANGED readVars
    PROVE  IInv'
<1>1. PICK p, todo : p = Min(out[r].todo) /\ todo = out[r].todo
  OBVIOUS
<1>2. PICK f : f = get_fname(r, p)
  OBVIOUS
<1>3. /\ pc[r] = "write" /\ todo # {} /\ pc' = pc
      /\ write_dataitem_CGNS(f, p, Appends(r, f))
      /\ out' = [out EXCEPT ![r] = [todo |-> @.todo \ {p}, written |-> @.written \cup {f}]]
  BY <1>1, <1>2 DEF write_dataitem_internal
<1>4. pc[r] \in WriteLabels
  BY <1>3 DEF WriteLabels
<1>5. /\ \A q \in Ranks : pc[q] \in WriteLabels
      /\ disk \in DataSet /\ disk.owner # <<>> /\ disk.mats = <<>>
      /\ Len(disk.owner) \in Nat \ {0} /\ DOMAIN disk.owner = 1..Len(disk.owner)
      /\ \A x \in DOMAIN disk.owner : disk.owner[x] \in Ranks
      /\ out \in [Ranks -> [todo : SUBSET Int, written : SUBSET Int]]
      /\ pc \in [Ranks -> Labels]
  BY <1>4, Writers
<1>6. WriteOK
  BY DEF IInv
<1>7. todo \in SUBSET PanesOf(r) /\ out[r].written = {FileOf(x) : x \in PanesOf(r) \ todo}
  BY <1>1, <1>3, <1>5, <1>6 DEF WriteOK
<1>8. todo \in SUBSET Nat
  BY <1>5, <1>7 DEF PanesOf
<1>9. p \in todo
  BY <1>1, <1>3, <1>8, LeastNatural DEF Min
<1>10. p \in DOMAIN disk.owner /\ disk.owner[p] = r /\ p \in Int /\ f = FileOf(p)
  BY <1>2, <1>5, <1>7, <1>9 DEF PanesOf, FileOf
<1>11. /\ \A x \in DOMAIN disk.owner : FileOf(x) \in DOMAIN disk.files /\ FileOf(x) \in Int
       /\ \A x, y \in DOMAIN disk.owner : FileOf(x) = FileOf(y) => disk.owner[x] = disk.owner[y] \/ x = y
  BY <1>5, FilesApart
<1>12. PICK b, append : b = PaneBlock(p) /\ append = (f \in out[r].written)
  OBVIOUS
<1>13. b \in Blocks
  BY <1>10, <1>12, PaneBlockTypes
<1>14. disk' = [disk EXCEPT !.files[f] = (IF append THEN @ ELSE <<>>) \o <<b>>]
  BY <1>3, <1>12 DEF write_dataitem_CGNS, Appends
<1>15. append \in BOOLEAN /\ f \in DOMAIN disk.files
  BY <1>10, <1>11, <1>12
<1>16. /\ disk' \in DataSet
       /\ \A x \in {"control", "mats", "patterns", "time", "owner", "rw", "pw"} : disk'[x] = disk[x]
       /\ Len(disk'.files) = Len(disk.files) /\ DOMAIN disk'.files = DOMAIN disk.files
       /\ \A g \in DOMAIN disk.files : g # f => disk'.files[g] = disk.files[g]
       /\ b \in Range(disk'.files[f])
       /\ Range(disk'.files[f]) \subseteq Range(disk.files[f]) \cup {b}
       /\ append => Range(disk.files[f]) \subseteq Range(disk'.files[f])
  BY <1>5, <1>13, <1>14, <1>15, FileAfter
<1>17. /\ disk'.control = disk.control /\ disk'.mats = disk.mats /\ disk'.time = disk.time
       /\ disk'.owner = disk.owner /\ disk'.rw = disk.rw /\ disk'.pw = disk.pw
  BY <1>16
<1>18. /\ \A x : FileOf(x)' = FileOf(x) /\ PaneBlock(x)' = PaneBlock(x) /\ PanesOf(x)' = PanesOf(x)
       /\ Listed' = Listed
  BY <1>17, WritersSame
<1>19. /\ out' \in [Ranks -> [todo : SUBSET Int, written : SUBSET Int]]
       /\ \A q \in Ranks \ {r} : out'[q] = out[q]
       /\ out'[r].todo = todo \ {p} /\ out'[r].written = out[r].written \cup {f}
  BY <1>1, <1>3, <1>5, <1>10, <1>11
<1>20. DiskOK'
  BY <1>5, <1>16, <1>17, <1>19 DEF DiskOK
<1>21. Out' \subseteq Out \cup {p}
  BY <1>1, <1>3, <1>5, <1>17, <1>19 DEF Out
<1>22. ASSUME NEW x \in Out' PROVE PaneBlock(x)' \in Range(disk'.files[FileOf(x)'])
  <2>1. CASE x = p
    BY <1>10, <1>12, <1>16, <1>18, <2>1
  <2>2. CASE x # p /\ FileOf(x) # f
    <3>1. x \in Out /\ x \in DOMAIN disk.owner
      BY <1>21, <2>2 DEF Out
    <3>2. PaneBlock(x) \in Range(disk.files[FileOf(x)])
      BY <1>5, <1>6, <3>1 DEF WriteOK
    <3> QED
      BY <1>11, <1>16, <1>18, <2>2, <3>1, <3>2
  <2>3. CASE x # p /\ FileOf(x) = f
    <3>1. x \in Out /\ x \in DOMAIN disk.owner
      BY <1>21, <2>3 DEF Out
    <3>2. disk.owner[x] = r
      BY <1>10, <1>11, <2>3, <3>1
    <3>3. x \in PanesOf(r) \ todo
      BY <1>1, <1>3, <3>1, <3>2 DEF Out, PanesOf
    <3>4. append
      BY <1>7, <1>12, <2>3, <3>3
    <3>5. PaneBlock(x) \in Range(disk.files[f])
      BY <1>5, <1>6, <2>3, <3>1 DEF WriteOK
    <3> QED
      BY <1>16, <1>18, <2>3, <3>4, <3>5
  <2> QED
    BY <2>1, <2>2, <2>3
<1>23. ASSUME NEW g \in DOMAIN disk'.files, NEW c \in Range(disk'.files[g])
       PROVE  \E x \in DOMAIN disk.owner : c = PaneBlock(x) /\ FileOf(x) = g
  <2>1. c \in Range(disk.files[g]) \/ (g = f /\ c = b)
    BY <1>16
  <2>2. g \in DOMAIN disk.files
    BY <1>16
  <2>3. CASE c \in Range(disk.files[g])
    BY <1>5, <1>6, <2>2, <2>3 DEF WriteOK
  <2>4. CASE g = f /\ c = b
    BY <1>10, <1>12, <2>4
  <2> QED
    BY <2>1, <2>3, <2>4
<1>24. ASSUME NEW q \in Ranks
       PROVE  /\ out'[q].todo \in SUBSET PanesOf(q)
              /\ pc[q] = "write" => out'[q].written = {FileOf(x) : x \in PanesOf(q) \ out'[q].todo}
  <2>1. CASE q = r
    <3>1. PanesOf(r) \ (todo \ {p}) = (PanesOf(r) \ todo) \cup {p}
      BY <1>7, <1>9
    <3>2. out'[r].written = {FileOf(x) : x \in PanesOf(r) \ (todo \ {p})}
      BY <1>7, <1>10, <1>19, <3>1
    <3> QED
      BY <1>7, <1>19, <2>1, <3>2
  <2>2. CASE q # r
    BY <1>5, <1>6, <1>19, <2>2 DEF WriteOK
  <2> QED
    BY <2>1, <2>2
<1>25. WriteOK'
  <2>1. /\ disk'.mats = <<>> /\ disk'.time \in {NoTime, Level}
        /\ Len(disk'.files) = NProcs * Len(disk'.owner)
        /\ disk'.rw = 0 /\ disk'.pw = 0 => \A x, y \in DOMAIN disk'.owner : disk'.owner[x] = disk'.owner[y]
        /\ pc'[0] \notin {"write", "control"} => disk'.control = Listed'
    BY <1>3, <1>5, <1>6, <1>16, <1>17, <1>18 DEF WriteOK
  <2>2. \A g \in DOMAIN disk'.files : \A c \in Range(disk'.files[g]) :
           \E x \in DOMAIN disk'.owner : c = PaneBlock(x)' /\ FileOf(x)' = g
    BY <1>17, <1>18, <1>23
  <2>3. \A q \in Ranks :
          /\ out'[q].todo \in SUBSET PanesOf(q)'
          /\ pc'[q] = "write" => out'[q].written = {FileOf(x)' : x \in PanesOf(q)' \ out'[q].todo}
    BY <1>3, <1>18, <1>24
  <2>4. disk'.owner # <<>>
    BY <1>5, <1>17
  <2> QED
    BY <1>22, <2>1, <2>2, <2>3, <2>4 DEF WriteOK
<1> QED
  BY <1>3, <1>5, <1>17, <1>20, <1>25, WriteFrame

\* All panes of a process are written.
LEMMA WriteDoneStep ==
    ASSUME IInv, NEW r \in Ranks, write_done(r), UNCHANGED readVars
    PROVE  IInv'
<1>1. PICK l : l = IF r = 0 THEN "control" ELSE "written"
  OBVIOUS
<1>2. /\ pc[r] = "write" /\ out[r].todo = {} /\ pc' = [pc EXCEPT ![r] = l]
      /\ out' = [out EXCEPT ![r] = NoWrite] /\ disk' = disk
  BY <1>1 DEF write_done, Goto
<1>3. pc[r] \in WriteLabels
  BY <1>2 DEF WriteLabels
<1>4. /\ \A q \in Ranks : pc[q] \in WriteLabels
      /\ disk \in DataSet /\ disk.owner # <<>>
      /\ \A x \in DOMAIN disk.owner : disk.owner[x] \in Ranks
      /\ out \in [Ranks -> [todo : SUBSET Int, written : SUBSET Int]]
      /\ pc \in [Ranks -> Labels]
  BY <1>3, Writers
<1>5. WriteOK /\ DiskOK
  BY DEF IInv
<1>6. /\ pc' \in [Ranks -> Labels] /\ pc'[r] = l /\ l # "write"
      /\ \A q \in Ranks \ {r} : pc'[q] = pc[q]
      /\ \A q \in Ranks : pc'[q] \in WriteLabels
  BY <1>1, <1>2, <1>4 DEF Labels, WriteLabels
<1>7. /\ out' \in [Ranks -> [todo : SUBSET Int, written : SUBSET Int]]
      /\ out'[r].todo = {} /\ \A q \in Ranks \ {r} : out'[q] = out[q]
  BY <1>2, <1>4 DEF NoWrite
<1>8. DiskOK'
  BY <1>2, <1>5, <1>7 DEF DiskOK
<1>9. Out' = Out
  BY <1>2, <1>4, <1>6, <1>7 DEF Out
<1>10. /\ \A x : FileOf(x)' = FileOf(x) /\ PaneBlock(x)' = PaneBlock(x) /\ PanesOf(x)' = PanesOf(x)
       /\ Listed' = Listed
  BY <1>2, WritersSame
<1>11. pc'[0] \notin {"write", "control"} => disk.control = Listed
  <2>1. 0 \in Ranks
    BY NProcsAssumption DEF Ranks
  <2>2. pc'[0] \notin {"write", "control"} => pc'[0] = pc[0]
    BY <1>1, <1>6, <2>1
  <2> QED
    BY <1>4, <1>5, <2>2 DEF WriteOK
<1>12. ASSUME NEW q \in Ranks
       PROVE  /\ out'[q].todo \in SUBSET PanesOf(q)
              /\ pc'[q] = "write" => out'[q].written = {FileOf(x) : x \in PanesOf(q) \ out'[q].todo}
  BY <1>4, <1>5, <1>6, <1>7 DEF WriteOK
<1>13. WriteOK'
  <2>1. \A q \in Ranks :
          /\ out'[q].todo \in SUBSET PanesOf(q)'
          /\ pc'[q] = "write" => out'[q].written = {FileOf(x)' : x \in PanesOf(q)' \ out'[q].todo}
    BY <1>10, <1>12
  <2>2. \A g \in DOMAIN disk'.files : \A c \in Range(disk'.files[g]) :
           \E x \in DOMAIN disk'.owner : c = PaneBlock(x)' /\ FileOf(x)' = g
    BY <1>2, <1>4, <1>5, <1>10 DEF WriteOK
  <2>3. \A x \in Out' : PaneBlock(x)' \in Range(disk'.files[FileOf(x)'])
    BY <1>2, <1>4, <1>5, <1>9, <1>10 DEF WriteOK
  <2> QED
    BY <1>2, <1>4, <1>5, <1>10, <1>11, <2>1, <2>2, <2>3 DEF WriteOK
<1> QED
  BY <1>2, <1>4, <1>6, <1>8, <1>13, WriteFrame

\* What process 0 writes is a control file.
LEMMA ListedTypes ==
    ASSUME disk \in DataSet
    PROVE  Listed \in Seq(ControlBlocks)
<1>1. \A k : PanesOf(k) \in SUBSET Int /\ DOMAIN disk.owner \in SUBSET Int
  <2>1. PICK o : o = disk.owner
    OBVIOUS
  <2>2. o \in Seq(Ranks)
    BY <2>1, DataSetFields
  <2>3. DOMAIN o \in SUBSET Int
    BY <2>2
  <2> QED
    BY <2>1, <2>3 DEF PanesOf
<1>2. disk.rw \in Nat /\ disk.pw \in Nat
  BY DataSetFields
<1>3. ASSUME NEW k \in Int PROVE Matching(k) \in SUBSET Int
  BY <1>1, <1>2 DEF Matching
<1>4. ASSUME NEW k PROVE ListedPanes(k) \in Sections
  BY <1>1 DEF ListedPanes, Sections
<1>5. ASSUME NEW k \in 1..NProcs
      PROVE  [proc  |-> k - 1, files |-> IF PanesOf(k - 1) = {} THEN {} ELSE Matching(k - 1), sec |-> ListedPanes(k - 1)] \in ControlBlocks
  <2>1. k - 1 \in Int /\ Matching(k - 1) \in SUBSET Int /\ ListedPanes(k - 1) \in Sections
    BY <1>3, <1>4
  <2> QED
    BY <2>1 DEF ControlBlocks
<1> DEFINE C == ControlBlocks
<1>6. \A k \in 1..NProcs : Listed[k] \in C
  BY <1>5 DEF Listed
<1> HIDE DEF C
<1>7. DOMAIN Listed = 1..NProcs /\ NProcs \in Nat /\ Listed = [k \in 1..NProcs |-> Listed[k]]
  BY NProcsAssumption DEF Listed
<1>8. Listed \in [1..NProcs -> C]
  BY <1>6, <1>7
<1>9. Listed \in Seq(C)
  BY <1>7, <1>8
<1> QED
  BY <1>9 DEF C

\* Process 0 writes the control file.
LEMMA ControlFileStep ==
    ASSUME IInv, NEW r \in Ranks, write_rocin_control_file(r), UNCHANGED readVars
    PROVE  IInv'
<1>1. /\ pc[r] = "control" /\ pc' = [pc EXCEPT ![r] = "written"] /\ out' = out
      /\ disk' = [disk EXCEPT !.control = Listed]
  BY DEF write_rocin_control_file, Goto, Listed
<1>2. pc[r] \in WriteLabels
  BY <1>1 DEF WriteLabels
<1>3. /\ \A q \in Ranks : pc[q] \in WriteLabels
      /\ disk \in DataSet /\ disk.owner # <<>> /\ disk.mats = <<>>
      /\ \A x \in DOMAIN disk.owner : disk.owner[x] \in Ranks
      /\ pc \in [Ranks -> Labels]
  BY <1>2, Writers
<1>4. WriteOK /\ DiskOK
  BY DEF IInv
<1>5. Listed \in Seq(ControlBlocks)
  BY <1>3, ListedTypes
<1>6. /\ disk' \in DataSet /\ disk'.control = Listed /\ disk'.files = disk.files /\ disk'.mats = disk.mats
      /\ disk'.time = disk.time /\ disk'.owner = disk.owner /\ disk'.rw = disk.rw /\ disk'.pw = disk.pw
  BY <1>1, <1>3, <1>5 DEF DataSet
<1>7. /\ pc' \in [Ranks -> Labels] /\ \A q \in Ranks : pc'[q] \in WriteLabels
      /\ \A q \in Ranks : pc'[q] = "write" <=> pc[q] = "write"
  BY <1>1, <1>3 DEF Labels, WriteLabels
<1>8. DiskOK'
  BY <1>1, <1>3, <1>4, <1>6 DEF DiskOK
<1>9. Out' = Out
  BY <1>1, <1>3, <1>6, <1>7 DEF Out
<1>10. /\ \A x : FileOf(x)' = FileOf(x) /\ PaneBlock(x)' = PaneBlock(x) /\ PanesOf(x)' = PanesOf(x)
       /\ Listed' = Listed
  BY <1>6, WritersSame
<1>11. WriteOK'
  <2>1. \A q \in Ranks :
          /\ out'[q].todo \in SUBSET PanesOf(q)'
          /\ pc'[q] = "write" => out'[q].written = {FileOf(x)' : x \in PanesOf(q)' \ out'[q].todo}
    BY <1>1, <1>3, <1>4, <1>7, <1>10 DEF WriteOK
  <2>2. \A g \in DOMAIN disk'.files : \A c \in Range(disk'.files[g]) :
           \E x \in DOMAIN disk'.owner : c = PaneBlock(x)' /\ FileOf(x)' = g
    BY <1>3, <1>4, <1>6, <1>10 DEF WriteOK
  <2>3. \A x \in Out' : PaneBlock(x)' \in Range(disk'.files[FileOf(x)'])
    BY <1>3, <1>4, <1>6, <1>9, <1>10 DEF WriteOK
  <2>4. /\ disk'.mats = <<>> /\ disk'.time \in {NoTime, Level}
        /\ Len(disk'.files) = NProcs * Len(disk'.owner)
        /\ disk'.rw = 0 /\ disk'.pw = 0 => \A x, y \in DOMAIN disk'.owner : disk'.owner[x] = disk'.owner[y]
    BY <1>3, <1>4, <1>6 DEF WriteOK
  <2> QED
    BY <1>3, <1>6, <1>10, <2>1, <2>2, <2>3, <2>4 DEF WriteOK
<1> QED
  BY <1>3, <1>6, <1>7, <1>8, <1>11, WriteFrame

\* The next run begins.
LEMMA RestartStep ==
    ASSUME IInv, Restart, UNCHANGED readVars
    PROVE  IInv'
<1>1. /\ \A q \in Ranks : pc[q] = "written"
      /\ pc' = [q \in Ranks |-> "start"] /\ disk' = disk /\ out' = out
  BY DEF Restart
<1>2. 0 \in Ranks
  BY NProcsAssumption DEF Ranks
<1>3. /\ \A q \in Ranks : pc[q] \in WriteLabels
      /\ disk \in DataSet /\ disk.owner # <<>>
      /\ \A x \in DOMAIN disk.owner : disk.owner[x] \in Ranks
  BY <1>1, <1>2, Writers DEF WriteLabels
<1>4. WriteOK /\ DiskOK
  BY DEF IInv
<1>5. DiskOK'
  BY <1>1, <1>4 DEF DiskOK
<1>6. pc' \in [Ranks -> Labels] /\ \A q \in Ranks : pc'[q] = "start"
  BY <1>1 DEF Labels
<1>7. Out' = Out
  BY <1>1, <1>3 DEF Out
<1>8. /\ \A x : FileOf(x)' = FileOf(x) /\ PaneBlock(x)' = PaneBlock(x) /\ PanesOf(x)' = PanesOf(x)
      /\ Listed' = Listed
  BY <1>1, WritersSame
<1>9. WriteOK'
  <2>1. \A q \in Ranks : out'[q].todo \in SUBSET PanesOf(q)' /\ pc'[q] # "write"
    BY <1>1, <1>3, <1>4, <1>6, <1>8 DEF WriteOK
  <2>2. \A g \in DOMAIN disk'.files : \A c \in Range(disk'.files[g]) :
           \E x \in DOMAIN disk'.owner : c = PaneBlock(x)' /\ FileOf(x)' = g
    BY <1>1, <1>3, <1>4, <1>8 DEF WriteOK
  <2>3. \A x \in Out' : PaneBlock(x)' \in Range(disk'.files[FileOf(x)'])
    BY <1>1, <1>3, <1>4, <1>7, <1>8 DEF WriteOK
  <2>4. disk.control = Listed
    BY <1>1, <1>2, <1>3, <1>4 DEF WriteOK
  <2> QED
    BY <1>1, <1>3, <1>4, <1>8, <2>1, <2>2, <2>3, <2>4 DEF WriteOK
<1> QED
  BY <1>1, <1>3, <1>5, <1>6, <1>9, WriteFrame

\* The invariant holds at first.
LEMMA InitHolds == Init => IInv
<1> SUFFICES ASSUME Init PROVE IInv
  OBVIOUS
<1>1. /\ disk \in DataSets /\ InitWrite
      /\ rule = [r \in Ranks |-> NoRule] /\ blocks = [r \in Ranks |-> <<>>] /\ wi = [r \in Ranks |-> 1]
      /\ win = [r \in Ranks |-> [w \in Range(Windows) |-> NoWindow]] /\ posted = [r \in Ranks |-> <<>>]
  BY DEF Init
<1>2. /\ disk \in DataSet /\ (disk.mats # <<>> => disk.control = <<>> /\ All \notin Range(disk.mats))
      /\ disk.owner # <<>> =>
            /\ disk.mats = <<>> /\ disk.time \in {NoTime, Level}
            /\ Len(disk.files) = NProcs * Len(disk.owner)
            /\ \A f \in DOMAIN disk.files : disk.files[f] = <<>>
            /\ disk.rw = 0 /\ disk.pw = 0 => \A p, q \in DOMAIN disk.owner : disk.owner[p] = disk.owner[q]
  BY <1>1, DataSetsAssumption
<1>3. \A p \in DOMAIN disk.owner : disk.owner[p] \in Ranks /\ p \in Int
  <2>1. PICK o : o = disk.owner
    OBVIOUS
  <2>2. o \in Seq(Ranks)
    BY <1>2, <2>1, DataSetFields
  <2> QED
    BY <2>1, <2>2
<1>4. \A r \in Ranks : PanesOf(r) \in SUBSET Int
  BY <1>3 DEF PanesOf
<1>5. /\ out \in [Ranks -> [todo : SUBSET Int, written : SUBSET Int]]
      /\ \E l \in {"write", "start"} : pc = [r \in Ranks |-> l] /\ (l = "write" <=> disk.owner # <<>>)
      /\ disk.owner # <<>> => \A r \in Ranks : out[r].todo = PanesOf(r) /\ out[r].written = {}
  BY <1>1, <1>4 DEF InitWrite, NoWrite, StartWrite
<1>6. PICK l \in {"write", "start"} : pc = [r \in Ranks |-> l] /\ (l = "write" <=> disk.owner # <<>>)
  BY <1>5
<1>7. DiskOK
  BY <1>2, <1>5 DEF DiskOK
<1>8. 0 \in Ranks
  BY NProcsAssumption DEF Ranks
<1>9. WriteOK
  <2>1. disk.owner = <<>> => \A r \in Ranks : pc[r] \notin WriteLabels
    BY <1>6 DEF WriteLabels
  <2>2. disk.owner # <<>> => Out = {}
    BY <1>3, <1>5, <1>6 DEF Out, PanesOf
  <2>3. disk.owner # <<>> => \A f \in DOMAIN disk.files : Range(disk.files[f]) = {}
    BY <1>2 DEF Range
  <2>4. disk.owner # <<>> => \A r \in Ranks : out[r].written = {FileOf(p) : p \in PanesOf(r) \ out[r].todo}
    BY <1>5
  <2>5. disk.owner # <<>> => pc[0] = "write"
    BY <1>6, <1>8
  <2> QED
    BY <1>2, <1>5, <2>1, <2>2, <2>3, <2>4, <2>5 DEF WriteOK
<1>10. Len(Windows) \in Nat \ {0}
  BY <1>2, WindowList
<1>11. Types
  <2>1. NoWindow \in WindowStates
    BY DEF NoWindow, WindowStates
  <2>2. win \in [Ranks -> [Range(Windows) -> WindowStates]]
    BY <1>1, <2>1
  <2>3. <<>> \in Seq(Messages)
    OBVIOUS
  <2>4. posted \in [Ranks -> Seq(Messages)]
    BY <1>1, <2>3
  <2>5. pc \in [Ranks -> Labels]
    BY <1>6 DEF Labels, WriteLabels
  <2>6. wi \in [Ranks -> Nat] /\ \A r \in Ranks : wi[r] \in 1..Len(Windows) + 1
    BY <1>1, <1>10
  <2>7. \A r \in Ranks : rule[r].kind \in {"none", "explicit", "cyclic", "blockcyclic"}
    BY <1>1 DEF NoRule
  <2> QED
    BY <1>1, <2>2, <2>4, <2>5, <2>6, <2>7 DEF Types
<1>12. Phase
  BY <1>6 DEF Phase
<1>13. ASSUME NEW r \in Ranks PROVE ProcessOK(r)
  <2>1. Fresh(r) /\ Unread(r) /\ wi[r] = 1 /\ posted[r] = <<>>
    BY <1>1 DEF Fresh, Unread
  <2>2. pc[r] \in WriteLabels \cup {"start", "gaveup"} /\ pc[r] \notin InWindow /\ pc[r] \notin {"next", "done"}
    BY <1>6 DEF WriteLabels, InWindow
  <2>3. ControlOK(r)
    BY <2>1, <2>2 DEF ControlOK
  <2>4. \A w : ~Behind(r, w)
    BY <2>1 DEF Behind
  <2>5. ASSUME NEW w \in Range(Windows) PROVE WindowOK(r, w)
    <3>1. ~Past(r, w, InWindow \ {"items"}) /\ ~Past(r, w, {"load", "empty", "bcast", "init_done"}) /\ ~Past(r, w, {"init_done"})
      BY <2>2, <2>4 DEF Past, InWindow
    <3>2. win[r][w].items = <<>> /\ win[r][w].panes = {}
      BY <1>1 DEF NoWindow
    <3>3. pc[r] \notin {"empty", "bcast"}
      BY <2>2 DEF InWindow
    <3> QED
      BY <3>1, <3>2, <3>3 DEF WindowOK
  <2>6. LatestOK(r)
    BY <2>2 DEF LatestOK
  <2>7. DOMAIN posted[r] = {}
    BY <2>1
  <2> QED
    BY <2>3, <2>5, <2>6, <2>7 DEF ProcessOK
<1> QED
  BY <1>7, <1>9, <1>11, <1>12, <1>13 DEF IInv

\* The steps of a reading process, one by one
LEMMA StepKeeps ==
    ASSUME IInv, NEW r \in Ranks, Step(r)
    PROVE  IInv'
<1>1. CASE read_by_control_file(r) \/ read_windows(r)
  BY <1>1, BeginStep
<1>2. CASE SkipMaterial(r)
  BY <1>2, SkipStep
<1>3. CASE NewWindow(r)
  BY <1>3, NewWindowStep
<1>4. CASE new_dataitems(r)
  BY <1>4, ItemsStep
<1>5. CASE register_panes(r)
  BY <1>5, RegisterStep
<1>6. CASE load_data(r)
  BY <1>6, LoadStep
<1>7. CASE Empties(r)
  BY <1>7, EmptiesStep
<1>8. CASE Broadcast(r)
  BY <1>8, BroadcastStep
<1>9. CASE window_init_done(r)
  BY <1>9, InitDoneStep
<1>10. CASE Return(r)
  BY <1>10, ReturnStep
<1> QED
  BY <1>1, <1>2, <1>3, <1>4, <1>5, <1>6, <1>7, <1>8, <1>9, <1>10 DEF Step

\* Nothing changes.
LEMMA Stutters ==
    ASSUME IInv, UNCHANGED vars
    PROVE  IInv'
<1>1. /\ disk' = disk /\ pc' = pc /\ out' = out /\ rule' = rule /\ blocks' = blocks
      /\ wi' = wi /\ win' = win /\ posted' = posted
  BY DEF vars, readVars
<1>2. Types /\ DiskOK /\ WriteOK /\ Phase
  BY DEF IInv
<1>3. Windows' = Windows
  BY <1>1, DiskKept DEF DiskSame
<1>4. DiskOK' /\ Phase'
  BY <1>1, <1>2 DEF DiskOK, Phase
<1>5. Types'
  <2>1. Messages' = Messages
    BY <1>3 DEF Messages
  <2> QED
    BY <1>1, <1>2, <1>3, <2>1 DEF Types
<1>6. WriteOK'
  <2>1. /\ \A x : FileOf(x)' = FileOf(x) /\ PaneBlock(x)' = PaneBlock(x) /\ PanesOf(x)' = PanesOf(x)
        /\ Listed' = Listed
    BY <1>1, WritersSame
  <2>2. Out' = Out
    BY <1>1 DEF Out
  <2> QED
    BY <1>1, <1>2, <2>1, <2>2 DEF WriteOK
<1>7. Longer
  BY <1>1, <1>2, ListLengths DEF Longer
<1>8. ASSUME NEW q \in Ranks PROVE ProcessOK(q)'
  <2>1. /\ ControlOK(q) /\ LatestOK(q) /\ \A w \in Range(Windows) : WindowOK(q, w)
        /\ \A n \in 1..Len(posted[q]) : CallOK(q, n)
        /\ DOMAIN posted[q] = 1..Len(posted[q])
    BY <1>2, Given0, ListLengths
  <2>2. Current(q)' = Current(q) /\ \A w : Behind(q, w)' <=> Behind(q, w)
    BY <1>1, SamePlace
  <2>3. ControlOK(q)'
    <3>1. PICK w : w = Current(q)
      OBVIOUS
    <3>2. Skipped(q, Current(q))' <=> Skipped(q, w)
      BY <1>1, <2>2, <3>1, SameFor
    <3> QED
      BY <1>1, <2>1, <3>1, <3>2, SameFor DEF ControlOK, Fresh, Unread
  <2>4. LatestOK(q)'
    BY <1>1, <2>1, <2>2 DEF LatestOK
  <2>5. ASSUME NEW w \in Range(Windows) PROVE WindowOK(q, w)'
    <3>1. \A K : Past(q, w, K)' <=> Past(q, w, K)
      BY <1>1, <2>2 DEF Past
    <3> QED
      BY <1>1, <2>1, <2>2, <3>1, SameFor DEF WindowOK
  <2>6. \A n \in 1..Len(posted[q]) : CallOK(q, n)'
    BY <1>1, <1>2, <1>7, <2>1, CallsKept
  <2> QED
    BY <1>1, <1>3, <2>1, <2>3, <2>4, <2>5, <2>6 DEF ProcessOK
<1> QED
  BY <1>4, <1>5, <1>6, <1>8 DEF IInv

\* The inductive invariant: whatever the interleaving of the processes, what each
\* of them has of a window is determined by the data set alone.
THEOREM Invariance == Spec => []IInv
<1>1. IInv /\ [Next]_vars => IInv'
  <2> SUFFICES ASSUME IInv, [Next]_vars PROVE IInv'
    OBVIOUS
  <2>1. CASE UNCHANGED vars
    BY <2>1, Stutters
  <2>2. ASSUME NEW r \in Ranks, WriteStep(r), UNCHANGED readVars PROVE IInv'
    BY <2>2, WritePaneStep, WriteDoneStep, ControlFileStep DEF WriteStep
  <2>3. CASE Restart /\ UNCHANGED readVars
    BY <2>3, RestartStep
  <2>4. ASSUME NEW r \in Ranks, Step(r) PROVE IInv'
    BY <2>4, StepKeeps
  <2> QED
    BY <2>1, <2>2, <2>3, <2>4 DEF Next
<1> QED
  BY <1>1, InitHolds, PTL DEF Spec

------------------------------------------------------------------------------
(* What follows *)

\* The invariant has the types of the variables.
LEMMA TypesHold == IInv => TypeOK
<1> SUFFICES ASSUME IInv PROVE TypeOK
  OBVIOUS
<1>1. Types
  BY DEF IInv
<1>2. ASSUME NEW r \in Ranks, NEW w \in Range(Windows) PROVE win[r][w].data \in {Unset, Written}
  <2>1. win[r][w] \in WindowStates
    BY <1>1 DEF Types
  <2> QED
    BY <2>1 DEF WindowStates
<1>3. ASSUME NEW r \in Ranks, NEW n \in DOMAIN posted[r] PROVE posted[r][n].op \in Ops
  <2>1. posted[r][n] \in Messages
    BY <1>1, ListLengths
  <2> QED
    BY <2>1 DEF Messages
<1> QED
  BY <1>1, <1>2, <1>3 DEF TypeOK, Types, Ops

\* The blocks given to a process are those it reads, unless it ignores them.
LEMMA GivenMine ==
    ASSUME disk \in DataSet, disk.mats # <<>> => disk.control = <<>>, NEW q \in Ranks
    PROVE  /\ Given(q) = Mine(q) \/ (Mine(q) = <<>> /\ disk.mats = <<>>)
           /\ Given(q) \in Seq(Blocks)
<1>1. scan_files(disk.patterns[q]) \in Seq(Blocks) /\ scan_files(disk.control[MyBlock(q)].files) \in Seq(Blocks)
  BY ScannedBlocks
<1>2. <<>> \in Seq(Blocks)
  OBVIOUS
<1> QED
  BY <1>1, <1>2 DEF Given, Mine

\* A block that a process finds of a window adds its names to those expected.
LEMMA NamesExpected ==
    ASSUME disk \in DataSet, NEW q \in Ranks, NEW w, NEW b \in Range(MineOf(q, w))
    PROVE  Range(b.items) \subseteq Range(Expected(w))
<1>1. MineOf(q, w) \in Seq(Blocks)
  BY MineTypes
<1>2. PICK n \in DOMAIN MineOf(q, w) : b = MineOf(q, w)[n]
  BY DEF Range
<1>3. Range(b.items) \subseteq Range(ItemNames[MineOf(q, w)])
  BY <1>1, <1>2, NamesOfBlocks
<1> QED
  BY <1>3, ExpectedNames

\* Of a regular data set all processes skip a window, or none.
LEMMA SkippedByAll ==
    ASSUME IInv, Regular, NEW r \in Ranks, NEW q \in Ranks, NEW w \in Range(Windows)
    PROVE  Skipped(r, w) <=> Skipped(q, w)
<1>1. disk \in DataSet /\ (disk.mats # <<>> => disk.control = <<>> /\ All \notin Range(disk.mats))
  BY DEF IInv, DiskOK
<1>2. CASE disk.mats = <<>>
  BY <1>2 DEF Skipped
<1>3. CASE disk.mats # <<>>
  <2>1. w \in Range(disk.mats) /\ w # All
    BY <1>1, <1>3 DEF Windows
  <2>2. {p \in Ranks : \E n \in DOMAIN Given(p) : Given(p)[n].mat = w} \in {{}, Ranks}
    BY <2>1 DEF Regular
  <2>3. ASSUME NEW p \in Ranks PROVE Skipped(p, w) <=> ~\E n \in DOMAIN Given(p) : Given(p)[n].mat = w
    <3>1. Given(p) = Mine(p)
      BY <1>1, <1>3, GivenMine
    <3>2. Range(MineOf(p, w)) = {b \in Range(Mine(p)) : b.mat = w} /\ MineOf(p, w) \in Seq(Blocks)
      BY <1>1, <2>1, MineTypes
    <3>3. MineOf(p, w) = <<>> <=> Range(MineOf(p, w)) = {}
      <4> DEFINE B == Blocks
      <4> HIDE DEF B
      <4>1. PICK s : s = MineOf(p, w)
        OBVIOUS
      <4>2. s \in Seq(B)
        BY <3>2, <4>1 DEF B
      <4>3. s # <<>> => Range(s) # {}
        <5> SUFFICES ASSUME s # <<>> PROVE Range(s) # {}
          OBVIOUS
        <5>1. 1 \in DOMAIN s
          BY <4>2
        <5> QED
          BY <5>1 DEF Range
      <4>4. s = <<>> => Range(s) = {}
        BY DEF Range
      <4> QED
        BY <4>1, <4>3, <4>4
    <3> QED
      BY <1>3, <3>1, <3>2, <3>3 DEF Skipped, Range
  <2> QED
    BY <2>2, <2>3
<1> QED
  BY <1>2, <1>3

\* The items of a finished window are those expected, for all processes.
LEMMA ItemsFollow == IInv => ItemsExact
<1> SUFFICES ASSUME IInv, Regular, NEW r \in Ranks, NEW n \in 1..wi[r] - 1, NEW q \in Ranks
             PROVE  /\ wi[q] > n => win[q][Windows[n]].items = win[r][Windows[n]].items
                    /\ \A m \in DOMAIN Given(q) :
                         Windows[n] \in {All, Given(q)[m].mat} /\ Given(q)[m].pane \in win[q][Windows[n]].panes =>
                           Range(Given(q)[m].items) \subseteq Range(win[r][Windows[n]].items)
  BY TypesHold DEF ItemsExact
<1>1. PICK w : w = Windows[n]
  OBVIOUS
<1>2. disk \in DataSet /\ (disk.mats # <<>> => disk.control = <<>> /\ All \notin Range(disk.mats)) /\ Types
  BY DEF IInv, DiskOK
<1>3. wi[r] \in 1..Len(Windows) + 1 /\ wi[q] \in Nat /\ Len(Windows) \in Nat
  BY <1>2, WindowList DEF Types
<1>4. n \in 1..Len(Windows) /\ n \in Nat
  BY <1>3
<1>5. w \in Range(Windows)
  BY <1>1, <1>2, <1>4, WindowList
<1>6. ASSUME NEW p \in Ranks, wi[p] > n, wi[p] \in Nat PROVE win[p][w].items = IF Skipped(p, w) THEN <<>> ELSE Expected(w)
  <2>1. WindowOK(p, w)
    BY <1>5, Given0
  <2>2. Behind(p, w)
    <3>1. n \in 1..wi[p] - 1
      BY <1>4, <1>6
    <3> QED
      BY <1>1, <3>1 DEF Behind
  <2> QED
    BY <2>1, <2>2 DEF WindowOK, Past
<1>7. win[r][w].items = IF Skipped(r, w) THEN <<>> ELSE Expected(w)
  BY <1>3, <1>6
<1>8. Skipped(q, w) <=> Skipped(r, w)
  BY <1>5, SkippedByAll
<1>9. wi[q] > n => win[q][w].items = win[r][w].items
  BY <1>3, <1>6, <1>7, <1>8
<1>10. ASSUME NEW m \in DOMAIN Given(q), w \in {All, Given(q)[m].mat}, Given(q)[m].pane \in win[q][w].panes
       PROVE  Range(Given(q)[m].items) \subseteq Range(win[r][w].items)
  <2>1. PICK b : b = Given(q)[m]
    OBVIOUS
  <2>2. WindowOK(q, w)
    BY <1>5, Given0
  <2>3. MineOf(q, w) # <<>>
    BY <1>2, <1>10, <2>2, MineTypes DEF WindowOK
  <2>4. Mine(q) # <<>>
    <3>1. CASE w = All
      BY <1>2, <2>3, <3>1, MineTypes
    <3>2. CASE w # All
      <4> DEFINE B == Blocks
      <4> HIDE DEF B
      <4>1. PICK s, u : s = MineOf(q, w) /\ u = Mine(q)
        OBVIOUS
      <4>2. s \in Seq(B) /\ s # <<>> /\ Range(s) \subseteq Range(u)
        BY <1>2, <2>3, <3>2, <4>1, MineTypes DEF B
      <4>3. 1 \in DOMAIN s
        BY <4>2
      <4>4. Range(u) # {}
        BY <4>2, <4>3 DEF Range
      <4>5. u # <<>>
        BY <4>4 DEF Range
      <4> QED
        BY <4>1, <4>5
    <3> QED
      BY <3>1, <3>2
  <2>5. Given(q) = Mine(q)
    BY <1>2, <2>4, GivenMine
  <2>6. b \in Range(Mine(q))
    BY <1>10, <2>1, <2>5 DEF Range
  <2>7. b \in Range(MineOf(q, w))
    BY <1>2, <1>10, <2>1, <2>6, MineTypes
  <2>8. Range(b.items) \subseteq Range(Expected(w))
    BY <1>2, <2>7, NamesExpected
  <2>9. ~Skipped(r, w)
    BY <1>8, <2>3 DEF Skipped
  <2> QED
    BY <1>7, <2>1, <2>8, <2>9
<1> QED
  BY <1>1, <1>9, <1>10

\* After a restart a process finds the block that was written for it.
LEMMA RestartBlock ==
    ASSUME IInv, disk.owner # <<>>, AllDone, NEW r \in Ranks
    PROVE  /\ disk.control = Listed /\ MyBlock(r) = r + 1 /\ r + 1 \in 1..NProcs
           /\ disk.control[r + 1].files = IF PanesOf(r) = {} THEN {} ELSE Matching(r)
           /\ disk.control[r + 1].sec = ListedPanes(r)
           /\ Ignored(r) => PanesOf(r) = {}
<1>1. 0 \in Ranks /\ NProcs \in Nat /\ r \in Nat /\ r + 1 \in 1..NProcs /\ (r + 1) - 1 = r
  BY NProcsAssumption DEF Ranks
<1>2. disk.control = Listed
  BY <1>1 DEF IInv, WriteOK, AllDone
<1>3. DOMAIN Listed = 1..NProcs /\ \A k \in 1..NProcs : Listed[k].proc = k - 1
  BY DEF Listed
<1>4. /\ Listed[r + 1].files = IF PanesOf(r) = {} THEN {} ELSE Matching(r)
      /\ Listed[r + 1].sec = ListedPanes(r)
  BY <1>1 DEF Listed
<1>5. disk \in DataSet
  BY Owned
<1>6. MyBlock(r) # 0
  BY <1>1, <1>2, <1>3, <1>5, MyBlockFacts
<1>7. MyBlock(r) \in 1..NProcs /\ disk.control[MyBlock(r)].proc \in {r, AnyProc}
  BY <1>2, <1>3, <1>5, <1>6, MyBlockFacts
<1>8. MyBlock(r) - 1 \in {r, -1}
  BY <1>2, <1>3, <1>7 DEF AnyProc
<1>9. MyBlock(r) = r + 1
  BY <1>1, <1>7, <1>8
<1>10. Ignored(r) => PanesOf(r) = {}
  BY <1>2, <1>4, <1>9 DEF Ignored, ListedPanes
<1> QED
  BY <1>1, <1>2, <1>4, <1>9, <1>10

\* A process reads what was written to the files that its block names.
LEMMA RestartReads ==
    ASSUME IInv, disk.owner # <<>>, AllDone, NEW r \in Ranks
    PROVE  Range(Mine(r)) = {PaneBlock(p) : p \in {x \in DOMAIN disk.owner : PanesOf(r) # {} /\ FileOf(x) \in Matching(r)}}
<1>1. /\ disk \in DataSet /\ disk.mats = <<>> /\ WriteOK
      /\ \A p \in DOMAIN disk.owner : disk.owner[p] \in Ranks
  BY Owned DEF IInv
<1>2. /\ MyBlock(r) = r + 1 /\ r + 1 # 0
      /\ disk.control[r + 1].files = IF PanesOf(r) = {} THEN {} ELSE Matching(r)
      /\ Ignored(r) => PanesOf(r) = {}
  BY RestartBlock
<1>3. CASE Ignored(r)
  <2>1. Mine(r) = <<>>
    BY <1>1, <1>3 DEF Mine
  <2>2. Range(Mine(r)) = {}
    BY <2>1 DEF Range
  <2> QED
    BY <1>2, <1>3, <2>2
<1>4. CASE ~Ignored(r)
  <2>1. PICK names : names = disk.control[r + 1].files
    OBVIOUS
  <2>2. Mine(r) = scan_files(names)
    BY <1>1, <1>2, <1>4, <2>1 DEF Mine
  <2>3. Found(names) \in Seq(Blocks) /\ Range(Found(names)) = UNION {Range(disk.files[f]) : f \in names \cap DOMAIN disk.files}
    BY <1>1, FoundBlocks
  <2>4. Out = DOMAIN disk.owner
    BY <1>1 DEF Out, AllDone
  <2>5. /\ \A f \in DOMAIN disk.files : \A b \in Range(disk.files[f]) :
             \E p \in DOMAIN disk.owner : b = PaneBlock(p) /\ FileOf(p) = f
        /\ \A p \in DOMAIN disk.owner : PaneBlock(p) \in Range(disk.files[FileOf(p)])
        /\ \A p \in DOMAIN disk.owner : FileOf(p) \in DOMAIN disk.files
    BY <1>1, <2>4, FilesApart DEF WriteOK
  <2>6. Range(Found(names)) = {PaneBlock(p) : p \in {x \in DOMAIN disk.owner : FileOf(x) \in names}}
    <3>1. ASSUME NEW b \in Range(Found(names)) PROVE \E p \in DOMAIN disk.owner : FileOf(p) \in names /\ b = PaneBlock(p)
      <4>1. PICK f \in names \cap DOMAIN disk.files : b \in Range(disk.files[f])
        BY <2>3
      <4> QED
        BY <2>5, <4>1
    <3>2. ASSUME NEW p \in DOMAIN disk.owner, FileOf(p) \in names PROVE PaneBlock(p) \in Range(Found(names))
      BY <2>3, <2>5, <3>2
    <3> QED
      BY <3>1, <3>2
  <2>7. \A p : PaneBlock(p).time = Level /\ PaneBlock(p).mat = "a"
    BY DEF PaneBlock
  <2>8. "a" \in Range(MatOrder) /\ disk.time \in {NoTime, Level}
    BY <1>1, DataSetsAssumption DEF WriteOK
  <2>9. \A b \in Range(Found(names)) : b.time = Level /\ b.mat \in Range(MatOrder)
    BY <2>6, <2>7, <2>8
  <2>10. Found(names) # <<>> => TimeLevel(Found(names)) = Level
    <3> SUFFICES ASSUME Found(names) # <<>> PROVE TimeLevel(Found(names)) = Level
      OBVIOUS
    <3> DEFINE B == Blocks
    <3> HIDE DEF B
    <3>1. PICK s : s = Found(names)
      OBVIOUS
    <3>2. s \in Seq(B) /\ s # <<>>
      BY <2>3, <3>1 DEF B
    <3>3. 1 \in DOMAIN s /\ Head(s) = s[1]
      BY <3>2
    <3>4. Head(s) \in Range(s)
      BY <3>3 DEF Range
    <3>5. Head(s).time = Level
      BY <2>9, <3>1, <3>4
    <3> QED
      BY <2>8, <3>1, <3>5 DEF TimeLevel
  <2>11. Found(names) = <<>> => Range(Found(names)) = {}
    BY DEF Range
  <2>12. Range(Mine(r)) = {b \in Range(Found(names)) : b.time = TimeLevel(Found(names)) /\ b.mat \in Range(MatOrder)}
    BY <1>1, <2>2, ScannedBlocks
  <2>13. Range(Mine(r)) = Range(Found(names))
    BY <2>9, <2>10, <2>11, <2>12
  <2> QED
    BY <1>2, <2>1, <2>6, <2>13
<1> QED
  BY <1>3, <1>4

\* The panes of a process are in files that it reads, unless a name has both
\* the rank and the pane in it; and files without the pane are its own.
LEMMA OwnFiles ==
    ASSUME IInv, disk.owner # <<>>, NEW p \in DOMAIN disk.owner, NEW r \in Ranks
    PROVE  /\ disk.owner[p] = r /\ (disk.rw = 0 \/ disk.pw = 0) => FileOf(p) \in Matching(r)
           /\ disk.pw = 0 /\ PanesOf(r) # {} /\ FileOf(p) \in Matching(r) => disk.owner[p] = r
<1>1. /\ disk \in DataSet /\ WriteOK /\ disk.owner[p] \in Ranks
  BY Owned DEF IInv
<1>2. disk.rw \in Nat /\ disk.pw \in Nat
  BY <1>1, DataSetFields
<1>3. disk.rw = 0 /\ disk.pw = 0 => \A x, y \in DOMAIN disk.owner : disk.owner[x] = disk.owner[y]
  BY <1>1 DEF WriteOK
<1>4. PICK a : a = disk.owner[p]
  OBVIOUS
<1>5. a \in Ranks /\ (a + 1 = r + 1 => a = r)
  BY <1>1, <1>4 DEF Ranks
<1>6. CASE disk.rw > 0 /\ disk.pw > 0
  BY <1>2, <1>6
<1>7. CASE disk.rw > 0 /\ disk.pw = 0
  BY <1>4, <1>5, <1>7 DEF FileOf, get_fname, Matching
<1>8. CASE disk.rw = 0 /\ disk.pw > 0
  BY <1>8 DEF FileOf, get_fname, Matching
<1>9. CASE disk.rw = 0 /\ disk.pw = 0
  BY <1>3, <1>9 DEF FileOf, get_fname, Matching, PanesOf
<1> QED
  BY <1>2, <1>6, <1>7, <1>8, <1>9

\* The panes that are local after a restart
LEMMA RestartPanes ==
    ASSUME IInv, disk.owner # <<>>, AllDone, NEW r \in Ranks, disk.rw = 0 \/ disk.pw = 0
    PROVE  /\ LocalOf(r, All) = PanesOf(r)
           /\ MineOf(r, All) = Mine(r)
           /\ \A p \in PanesOf(r) : PaneBlock(p) \in Range(Mine(r))
<1>1. /\ disk \in DataSet /\ disk.mats = <<>>
      /\ \A p \in DOMAIN disk.owner : disk.owner[p] \in Ranks
  BY Owned
<1>2. MineOf(r, All) = Mine(r)
  BY <1>1, MineTypes
<1>3. Range(Mine(r)) = {PaneBlock(p) : p \in {x \in DOMAIN disk.owner : PanesOf(r) # {} /\ FileOf(x) \in Matching(r)}}
  BY RestartReads
<1>4. \A p : PaneBlock(p).pane = p
  BY DEF PaneBlock
<1>5. \A p \in PanesOf(r) : PaneBlock(p) \in Range(Mine(r))
  BY <1>3, OwnFiles DEF PanesOf
<1>6. CASE PanesOf(r) = {}
  <2>1. Range(Mine(r)) = {}
    BY <1>3, <1>6
  <2>2. DOMAIN Mine(r) = {}
    BY <2>1 DEF Range
  <2> QED
    BY <1>2, <1>5, <1>6, <2>2 DEF LocalOf
<1>7. CASE PanesOf(r) # {}
  <2>1. MyRule(r) = ExplicitRule(PanesOf(r))
    <3>1. /\ MyBlock(r) = r + 1 /\ r + 1 # 0 /\ disk.control[r + 1].sec = ListedPanes(r) /\ ~Ignored(r)
      BY <1>7, RestartBlock
    <3>2. MyRule(r) = SectionRule(ListedPanes(r), r)
      BY <1>1, <3>1 DEF MyRule
    <3>3. ListedPanes(r).kind = "explicit" /\ ListedPanes(r).ids = PanesOf(r)
      BY DEF ListedPanes
    <3> QED
      BY <3>2, <3>3 DEF SectionRule
  <2>2. MyRule(r).kind = "explicit" /\ MyRule(r).ids = PanesOf(r)
    BY <2>1 DEF ExplicitRule, NoRule
  <2>3. \A p : IsLocal(MyRule(r), p, r) <=> p \in PanesOf(r)
    BY <2>2 DEF IsLocal, explicit_local
  <2>4. LocalOf(r, All) = {Mine(r)[n].pane : n \in {m \in DOMAIN Mine(r) : Mine(r)[m].pane \in PanesOf(r)}}
    BY <1>2, <2>3 DEF LocalOf
  <2>5. ASSUME NEW p \in PanesOf(r) PROVE p \in LocalOf(r, All)
    <3>1. PICK n \in DOMAIN Mine(r) : Mine(r)[n] = PaneBlock(p)
      BY <1>5 DEF Range
    <3> QED
      BY <1>4, <2>4, <3>1
  <2> QED
    BY <1>2, <1>5, <2>4, <2>5
<1> QED
  BY <1>6, <1>7

\* Without the pane in the name of a file, a process that has a pane loads the
\* window data, and a process that has none finds nothing.
LEMMA RestartLoads ==
    ASSUME IInv, disk.owner # <<>>, AllDone, NEW r \in Ranks, disk.pw = 0
    PROVE  /\ PanesOf(r) # {} => Loads(r, All)
           /\ MineOf(r, All) # <<>> <=> PanesOf(r) # {}
<1>1. /\ LocalOf(r, All) = PanesOf(r) /\ MineOf(r, All) = Mine(r)
      /\ \A p \in PanesOf(r) : PaneBlock(p) \in Range(Mine(r))
  BY RestartPanes
<1>2. Range(Mine(r)) = {PaneBlock(p) : p \in {x \in DOMAIN disk.owner : PanesOf(r) # {} /\ FileOf(x) \in Matching(r)}}
  BY RestartReads
<1> DEFINE B == Blocks
<1> HIDE DEF B
<1>3. PICK s : s = Mine(r)
  OBVIOUS
<1>4. s \in Seq(B)
  BY <1>3, Owned, MineTypes DEF B
<1>5. s # <<>> => Head(s) \in Range(s)
  <2> SUFFICES ASSUME s # <<>> PROVE Head(s) \in Range(s)
    OBVIOUS
  <2>1. 1 \in DOMAIN s /\ Head(s) = s[1]
    BY <1>4
  <2> QED
    BY <2>1 DEF Range
<1>6. s = <<>> => Range(s) = {}
  BY DEF Range
<1>7. s # <<>> <=> PanesOf(r) # {}
  BY <1>1, <1>2, <1>3, <1>5, <1>6
<1>8. PanesOf(r) # {} => Loads(r, All)
  <2> SUFFICES ASSUME PanesOf(r) # {} PROVE Loads(r, All)
    OBVIOUS
  <2>1. PICK p \in DOMAIN disk.owner : Head(s) = PaneBlock(p) /\ FileOf(p) \in Matching(r)
    BY <1>2, <1>3, <1>5, <1>7
  <2>2. p \in PanesOf(r)
    BY <2>1, OwnFiles DEF PanesOf
  <2>3. PaneBlock(p).pane = p /\ "w" \in Range(PaneBlock(p).items)
    <3>1. PaneBlock(p).items \in {<<"w", "n", "e">>, <<"w", "n">>} /\ PaneBlock(p).pane = p
      BY DEF PaneBlock
    <3>2. 1 \in DOMAIN PaneBlock(p).items /\ PaneBlock(p).items[1] = "w"
      BY <3>1
    <3> QED
      BY <3>1, <3>2 DEF Range
  <2> QED
    BY <1>1, <1>3, <1>7, <2>1, <2>2, <2>3 DEF Loads, LoadsWindowData
<1> QED
  BY <1>1, <1>3, <1>7, <1>8

\* What a process has after the restart
LEMMA RestoredFollows == IInv => Restored
<1> SUFFICES ASSUME IInv, disk.owner # <<>>, AllDone, NEW r \in Ranks
             PROVE  /\ (disk.rw = 0 \/ disk.pw = 0) => win[r][All].panes = PanesOf(r)
                    /\ disk.pw = 0 => win[r][All].data = Written
  BY DEF Restored
<1>1. /\ disk \in DataSet /\ disk.mats = <<>> /\ Len(disk.owner) \in Nat \ {0} /\ DOMAIN disk.owner = 1..Len(disk.owner)
      /\ \A p \in DOMAIN disk.owner : disk.owner[p] \in Ranks
  BY Owned
<1>2. Windows = <<All>> /\ Len(Windows) = 1 /\ Range(Windows) = {All}
  BY <1>1, WindowList
<1>3. Windows[1] = All
  BY <1>2
<1>4. WindowOK(r, All) /\ pc[r] = "done" /\ wi[r] = 2
  BY <1>2, Given0 DEF AllDone, ControlOK
<1>5. \A K : Past(r, All, K)
  BY <1>3, <1>4 DEF Past, Behind
<1>6. ~Skipped(r, All)
  BY <1>1 DEF Skipped
<1>7. (disk.rw = 0 \/ disk.pw = 0) => win[r][All].panes = PanesOf(r)
  BY <1>4, <1>5, RestartPanes DEF WindowOK
<1>8. ASSUME disk.pw = 0 PROVE win[r][All].data = Written
  <2>1. 1 \in DOMAIN disk.owner
    BY <1>1
  <2>2. PICK q \in Ranks : 1 \in PanesOf(q)
    BY <1>1, <2>1 DEF PanesOf
  <2>3. Full(All) = {x \in Ranks : PanesOf(x) # {}} /\ \A x \in Full(All) : Loads(x, All)
    BY <1>8, RestartLoads DEF Full
  <2>4. "w" \in Range(Expected(All))
    <3>1. Loads(q, All) /\ MineOf(q, All) # <<>>
      BY <1>8, <2>2, RestartLoads
    <3> DEFINE B == Blocks
    <3> HIDE DEF B
    <3>2. PICK s : s = MineOf(q, All)
      OBVIOUS
    <3>3. s \in Seq(B) /\ s # <<>>
      BY <1>1, <3>1, <3>2, MineTypes DEF B
    <3>4. 1 \in DOMAIN s /\ Head(s) = s[1]
      BY <3>3
    <3>5. Head(s) \in Range(s)
      BY <3>4 DEF Range
    <3>6. "w" \in Range(Head(s).items)
      BY <3>1, <3>2 DEF Loads, LoadsWindowData
    <3> QED
      BY <1>1, <3>2, <3>5, <3>6, NamesExpected
  <2>5. Loads(IF Sends(All) THEN Root(Full(All)) ELSE r, All)
    <3>1. CASE Sends(All)
      BY <1>1, <2>3, <3>1, Sender
    <3>2. CASE ~Sends(All)
      BY <2>3, <2>4, <3>2 DEF Sends
    <3> QED
      BY <3>1, <3>2
  <2> QED
    BY <1>4, <1>5, <1>6, <2>5 DEF WindowOK
<1> QED
  BY <1>7, <1>8

\* Division rounds down.
LEMMA DivFacts ==
    ASSUME NEW a \in Nat, NEW b \in Nat \ {0}
    PROVE  /\ a \div b \in Nat /\ b * (a \div b) <= a /\ a < b * (a \div b) + b
           /\ CDiv(a, b) = a \div b
           /\ CMod(a, b) \in 0..b - 1
<1>1. a \div b \in Nat /\ b * (a \div b) <= a /\ a < b * (a \div b) + b
  OBVIOUS
<1>2. CDiv(a, b) = a \div b
  BY DEF CDiv
<1>3. b * (a \div b) \in Nat
  BY <1>1
<1> QED
  BY <1>1, <1>2, <1>3 DEF CMod

\* A quotient is below c when the number is below c times the divisor.
LEMMA DivBelow ==
    ASSUME NEW a \in Nat, NEW b \in Nat \ {0}, NEW c \in Nat
    PROVE  (a < c * b => a \div b < c) /\ (a >= c * b => a \div b >= c)
<1>1. a \div b \in Nat /\ b * (a \div b) <= a /\ a < b * (a \div b) + b
  BY DivFacts
<1>2. PICK d \in Nat : d = a \div b
  BY <1>1
<1>3. b * d <= a /\ a < b * d + b
  BY <1>1, <1>2
<1>4. ASSUME a < c * b, d >= c PROVE FALSE
  <2>1. PICK e \in Nat : d = c + e
    <3>1. d - c \in Nat /\ d = c + (d - c)
      BY <1>4
    <3> QED
      BY <3>1
  <2>2. b * d = c * b + b * e /\ b * e \in Nat /\ c * b \in Nat
    BY <2>1
  <2> QED
    BY <1>3, <1>4, <2>2
<1>5. ASSUME a >= c * b, d < c PROVE FALSE
  <2>1. PICK e \in Nat : c = d + 1 + e
    <3>1. c - d - 1 \in Nat /\ c = d + 1 + (c - d - 1)
      BY <1>5
    <3> QED
      BY <3>1
  <2>2. c * b = b * d + b + b * e /\ b * e \in Nat /\ b * d \in Nat
    BY <2>1
  <2> QED
    BY <1>3, <1>5, <2>2
<1> QED
  BY <1>2, <1>4, <1>5

\* Blocks of panes that go round the processes
LEMMA BlockCyclicLocal ==
    ASSUME NEW base \in Nat, NEW off \in Int, NEW p \in Int, NEW q
    PROVE  IsLocal(BlockCyclicRule(base, off), p, q) <=>
             (LET d == CDiv(p - off, base) IN (IF d >= NProcs THEN CMod(d, NProcs) ELSE d) = q)
<1>1. /\ BlockCyclicRule(base, off).kind = "blockcyclic" /\ BlockCyclicRule(base, off).base = base
      /\ BlockCyclicRule(base, off).off = off
  BY DEF BlockCyclicRule, NoRule
<1> QED
  BY <1>1 DEF IsLocal, blockcyclic_local

\* One process owns each pane.
LEMMA RoundOwner ==
    ASSUME NEW base \in Nat \ {0}, NEW off \in Int, NEW p \in Int, p >= off
    PROVE  \E o \in Ranks : \A q \in Ranks : IsLocal(BlockCyclicRule(base, off), p, q) <=> q = o
<1>1. p - off \in Nat /\ NProcs \in Nat \ {0}
  BY NProcsAssumption
<1>2. PICK d : d = CDiv(p - off, base)
  OBVIOUS
<1>3. d \in Nat
  BY <1>1, <1>2, DivFacts
<1>4. PICK o : o = IF d >= NProcs THEN CMod(d, NProcs) ELSE d
  OBVIOUS
<1>5. CMod(d, NProcs) \in 0..NProcs - 1
  BY <1>1, <1>3, DivFacts
<1>6. o \in Ranks
  BY <1>1, <1>3, <1>4, <1>5 DEF Ranks
<1>7. \A q : IsLocal(BlockCyclicRule(base, off), p, q) <=> q = o
  BY <1>2, <1>4, BlockCyclicLocal
<1> QED
  BY <1>6, <1>7

\* The blocks of @Block, one id each: the first rem processes have one more.
LEMMA UnevenOwner ==
    ASSUME NEW quot \in Nat \ {0}, NEW rem \in 0..NProcs - 1, NEW off \in Int, NEW p \in Int,
           p >= off, p - off < quot * NProcs + rem
    PROVE  \E o \in Ranks : \A q \in Ranks :
             (IF q < rem THEN IsLocal(BlockCyclicRule(quot + 1, off), p, q)
                         ELSE IsLocal(BlockCyclicRule(quot, off + rem), p, q)) <=> q = o
<1>1. PICK x : x = p - off
  OBVIOUS
<1>2. x \in Nat /\ NProcs \in Nat \ {0} /\ rem \in Nat /\ rem < NProcs /\ x < quot * NProcs + rem
  BY <1>1, NProcsAssumption
<1>3. PICK d, e : d = x \div (quot + 1) /\ e = CDiv(x - rem, quot)
  OBVIOUS
<1>4. d \in Nat /\ d < NProcs /\ (x < rem * (quot + 1) => d < rem) /\ (x >= rem * (quot + 1) => d >= rem)
  <2>1. x < NProcs * (quot + 1)
    <3>1. NProcs * (quot + 1) = quot * NProcs + NProcs /\ quot * NProcs \in Nat
      BY <1>2
    <3> QED
      BY <1>2, <3>1
  <2>2. quot + 1 \in Nat \ {0}
    OBVIOUS
  <2> QED
    BY <1>2, <1>3, <2>1, <2>2, DivFacts, DivBelow
<1>5. \A q \in Ranks : IsLocal(BlockCyclicRule(quot + 1, off), p, q) <=> q = d
  <2>1. CDiv(p - off, quot + 1) = d
    BY <1>1, <1>2, <1>3, DivFacts
  <2> QED
    BY <1>2, <1>4, <2>1, BlockCyclicLocal
<1>6. e < NProcs => \A q \in Ranks : IsLocal(BlockCyclicRule(quot, off + rem), p, q) <=> q = e
  <2>1. CDiv(p - (off + rem), quot) = e
    BY <1>1, <1>2, <1>3
  <2>2. e < NProcs => ~(e >= NProcs)
    <3>1. e \in Int
      <4>1. CASE x - rem \in Nat
        BY <1>3, <4>1, DivFacts
      <4>2. CASE x - rem \notin Nat
        <5>1. -(x - rem) \in Nat /\ ~(x - rem >= 0)
          BY <1>2, <4>2
        <5>2. (-(x - rem)) \div quot \in Nat
          BY <5>1, DivFacts
        <5> QED
          BY <1>3, <5>1, <5>2 DEF CDiv
      <4> QED
        BY <4>1, <4>2
    <3> QED
      BY <1>2, <3>1
  <2>3. quot \in Nat /\ off + rem \in Int
    BY <1>2
  <2> QED
    BY <2>1, <2>2, <2>3, BlockCyclicLocal
<1>7. \A q \in Ranks : q \in Nat
  BY DEF Ranks
<1>8. CASE x < rem * (quot + 1)
  <2>1. d \in Ranks /\ d < rem /\ rem # 0
    BY <1>2, <1>4, <1>8 DEF Ranks
  <2>2. e < NProcs /\ \A q \in Ranks : q >= rem => q # e
    <3>1. CASE x >= rem
      <4>1. x - rem \in Nat /\ x - rem < rem * quot
        <5>1. rem * (quot + 1) = rem * quot + rem /\ rem * quot \in Nat
          BY <1>2
        <5> QED
          BY <1>2, <1>8, <3>1, <5>1
      <4>2. e \in Nat /\ e < rem
        BY <1>2, <1>3, <4>1, DivFacts, DivBelow
      <4> QED
        BY <1>2, <1>7, <4>2
    <3>2. CASE x < rem
      <4>1. -(x - rem) \in Nat /\ ~(x - rem >= 0)
        BY <1>2, <3>2
      <4>2. (-(x - rem)) \div quot \in Nat
        BY <4>1, DivFacts
      <4>3. e \in Int /\ e <= 0
        BY <1>3, <4>1, <4>2 DEF CDiv
      <4> QED
        BY <1>2, <1>7, <2>1, <4>3
    <3> QED
      BY <1>2, <3>1, <3>2
  <2>3. ASSUME NEW q \in Ranks, q < rem PROVE IsLocal(BlockCyclicRule(quot + 1, off), p, q) <=> q = d
    BY <1>5
  <2>4. ASSUME NEW q \in Ranks, ~(q < rem) PROVE ~IsLocal(BlockCyclicRule(quot, off + rem), p, q) /\ q # d
    BY <1>2, <1>4, <1>6, <1>7, <2>1, <2>2, <2>4
  <2> QED
    BY <2>1, <2>3, <2>4
<1>9. CASE x >= rem * (quot + 1)
  <2>1. x - rem \in Nat /\ x - rem >= rem * quot /\ x - rem < NProcs * quot
    <3>1. rem * (quot + 1) = rem * quot + rem /\ rem * quot \in Nat /\ NProcs * quot = quot * NProcs /\ quot * NProcs \in Nat
      BY <1>2
    <3> QED
      BY <1>2, <1>9, <3>1
  <2>2. e \in Nat /\ e >= rem /\ e < NProcs
    <3>1. PICK y \in Nat : y = x - rem
      BY <2>1
    <3>2. e = y \div quot /\ y \div quot \in Nat
      BY <1>3, <3>1, DivFacts
    <3>3. y \div quot >= rem
      BY <1>2, <2>1, <3>1, DivBelow
    <3>4. y \div quot < NProcs
      BY <1>2, <2>1, <3>1, DivBelow
    <3> QED
      BY <3>2, <3>3, <3>4
  <2>3. e \in Ranks
    BY <1>2, <2>2 DEF Ranks
  <2> QED
    BY <1>2, <1>4, <1>5, <1>6, <1>7, <1>9, <2>2, <2>3
<1> QED
  BY <1>2, <1>8, <1>9

\* A rule that spreads the panes makes each of them local to one process.
LEMMA OneOwner ==
    ASSUME NEW sec \in Sections, sec.kind \in {"cyclic", "blockcyclic", "block"},
           sec.kind = "block" => sec.n >= NProcs,
           sec.kind \in {"blockcyclic", "block"} => sec.base > 0,
           NEW p \in Int, p >= sec.off,
           sec.kind = "block" => sec.n % NProcs = 0 \/ (sec.base = 1 /\ p < sec.off + sec.n)
    PROVE  \E o \in Ranks : \A q \in Ranks : IsLocal(SectionRule(sec, q), p, q) <=> q = o
<1>1. sec.n \in Nat /\ sec.base \in Nat /\ sec.off \in Int /\ NProcs \in Nat \ {0}
  BY NProcsAssumption DEF Sections
<1>2. CASE sec.kind = "cyclic"
  <2>1. PICK o : o = CMod(p - sec.off, NProcs)
    OBVIOUS
  <2>2. p - sec.off \in Nat
    BY <1>1
  <2>3. o \in Ranks
    BY <1>1, <2>1, <2>2, DivFacts DEF Ranks
  <2>4. PICK u : u = [NoRule EXCEPT !.kind = "cyclic", !.off = sec.off]
    OBVIOUS
  <2>5. u.kind = "cyclic" /\ u.off = sec.off
    BY <2>4 DEF NoRule
  <2>6. \A q : SectionRule(sec, q) = u
    BY <1>2, <2>4 DEF SectionRule
  <2>7. \A q : IsLocal(u, p, q) <=> q = o
    BY <2>1, <2>5 DEF IsLocal, cyclic_local
  <2> QED
    BY <2>3, <2>6, <2>7
<1>3. CASE sec.kind = "blockcyclic"
  <2>1. \A q : SectionRule(sec, q) = BlockCyclicRule(sec.base, sec.off)
    BY <1>3 DEF SectionRule
  <2>2. sec.base \in Nat \ {0}
    BY <1>1, <1>3
  <2> QED
    BY <1>1, <2>1, <2>2, RoundOwner
<1>4. CASE sec.kind = "block"
  <2>1. PICK n, quot, rem : n = sec.n /\ quot = n \div NProcs /\ rem = n - quot * NProcs
    OBVIOUS
  <2>2. /\ n \in Nat /\ quot \in Nat /\ NProcs * quot <= n /\ n < NProcs * quot + NProcs
        /\ NProcs * quot = quot * NProcs /\ quot * NProcs \in Nat
    <3>1. n \in Nat /\ quot \in Nat /\ NProcs * quot <= n /\ n < NProcs * quot + NProcs
      BY <1>1, <2>1, DivFacts
    <3> QED
      BY <1>1, <3>1
  <2>3. rem \in 0..NProcs - 1
    BY <1>1, <2>1, <2>2
  <2>4. quot # 0
    <3>1. n >= NProcs /\ (quot = 0 => NProcs * quot = 0)
      BY <1>1, <1>4, <2>1
    <3> QED
      BY <1>1, <2>2, <3>1
  <2>5. \A q \in Ranks : SectionRule(sec, q) = IF q < rem THEN BlockCyclicRule(sec.base * (quot + 1), sec.off)
                                                          ELSE BlockCyclicRule(sec.base * quot, sec.off + rem)
    BY <1>4, <2>1 DEF SectionRule, BlockRule
  <2>6. CASE sec.n % NProcs = 0
    <3>1. rem = 0
      <4>1. n % NProcs = n - NProcs * (n \div NProcs)
        BY <1>1, <2>2
      <4>2. n % NProcs = 0
        BY <2>1, <2>6
      <4> QED
        BY <1>1, <2>1, <2>2, <4>1, <4>2
    <3>2. \A q \in Ranks : SectionRule(sec, q) = BlockCyclicRule(sec.base * quot, sec.off)
      <4>1. \A q \in Ranks : ~(q < 0)
        BY DEF Ranks
      <4>2. sec.off + 0 = sec.off
        BY <1>1
      <4> QED
        BY <2>5, <3>1, <4>1, <4>2
    <3>3. sec.base * quot \in Nat \ {0}
      BY <1>1, <1>4, <2>2, <2>4
    <3> QED
      BY <1>1, <3>2, <3>3, RoundOwner
  <2>7. CASE sec.base = 1 /\ p < sec.off + sec.n
    <3>1. \A q \in Ranks : SectionRule(sec, q) = IF q < rem THEN BlockCyclicRule(quot + 1, sec.off)
                                                            ELSE BlockCyclicRule(quot, sec.off + rem)
      <4>1. sec.base * (quot + 1) = quot + 1 /\ sec.base * quot = quot
        BY <2>2, <2>7
      <4> QED
        BY <2>5, <4>1
    <3>2. p - sec.off < quot * NProcs + rem
      <4>1. quot * NProcs + rem = n
        BY <2>1, <2>2
      <4>2. p < sec.off + n
        BY <2>1, <2>7
      <4> QED
        BY <1>1, <2>2, <4>1, <4>2
    <3>3. PICK o \in Ranks : \A q \in Ranks :
             (IF q < rem THEN IsLocal(BlockCyclicRule(quot + 1, sec.off), p, q)
                         ELSE IsLocal(BlockCyclicRule(quot, sec.off + rem), p, q)) <=> q = o
      <4>1. PICK off \in Int : off = sec.off
        BY <1>1
      <4>2. quot \in Nat \ {0} /\ p >= off /\ p - off < quot * NProcs + rem
        BY <2>2, <2>4, <3>2, <4>1
      <4>3. \E o \in Ranks : \A q \in Ranks :
               (IF q < rem THEN IsLocal(BlockCyclicRule(quot + 1, off), p, q)
                           ELSE IsLocal(BlockCyclicRule(quot, off + rem), p, q)) <=> q = o
        BY <2>3, <4>2, UnevenOwner
      <4> QED
        BY <4>1, <4>3
    <3>4. ASSUME NEW q \in Ranks PROVE IsLocal(SectionRule(sec, q), p, q) <=> q = o
      <4>1. CASE q < rem
        BY <3>1, <3>3, <4>1
      <4>2. CASE ~(q < rem)
        BY <3>1, <3>3, <4>2
      <4> QED
        BY <4>1, <4>2
    <3> QED
      BY <3>4
  <2> QED
    BY <1>4, <2>6, <2>7
<1> QED
  BY <1>2, <1>3, <1>4

\* With one block for all, everybody reads the same.
LEMMA SharedBlock ==
    ASSUME IInv, Distributed, NEW q \in Ranks
    PROVE  /\ disk.mats = <<>> /\ disk.control[1] \in ControlBlocks /\ 1 \in DOMAIN disk.control
           /\ Given(q) = scan_files(disk.control[1].files)
           /\ Mine(q) = scan_files(disk.control[1].files)
           /\ MyRule(q) = SectionRule(disk.control[1].sec, q)
<1>1. disk \in DataSet /\ (disk.mats # <<>> => disk.control = <<>>)
  BY DEF IInv, DiskOK
<1>2. Len(disk.control) = 1 /\ disk.control[1].proc = AnyProc
  BY DEF Distributed
<1>3. DOMAIN disk.control = 1..1
  <2> DEFINE C == ControlBlocks
  <2> HIDE DEF C
  <2>1. PICK c : c = disk.control
    OBVIOUS
  <2>2. c \in Seq(C) /\ Len(c) = 1
    BY <1>1, <1>2, <2>1, DataSetFields DEF C
  <2>3. DOMAIN c = 1..1
    BY <2>2
  <2> QED
    BY <2>1, <2>3
<1>4. disk.mats = <<>>
  BY <1>1, <1>2
<1>5. MyBlock(q) # 0
  BY <1>1, <1>2, <1>3, MyBlockFacts
<1>6. MyBlock(q) = 1 /\ disk.control[MyBlock(q)] \in ControlBlocks
  BY <1>1, <1>3, <1>5, MyBlockFacts
<1>7. ~Ignored(q)
  BY <1>2, <1>6 DEF Ignored
<1> QED
  BY <1>3, <1>4, <1>6, <1>7 DEF Given, Mine, MyRule

\* The panes that are local to a process, by the rule of the one block
LEMMA PartitionFollows == IInv => PanesPartitioned
<1> SUFFICES ASSUME IInv, Distributed, AllDone, NEW r \in Ranks, NEW n \in DOMAIN Given(r)
             PROVE  Cardinality({q \in Ranks : Given(r)[n].pane \in win[q][All].panes}) = 1
  BY DEF PanesPartitioned
<1>1. disk \in DataSet
  BY DEF IInv, DiskOK
<1>2. PICK sec, bs, p : sec = disk.control[1].sec /\ bs = scan_files(disk.control[1].files) /\ p = Given(r)[n].pane
  OBVIOUS
<1>3. /\ disk.mats = <<>> /\ sec \in Sections /\ 1 \in DOMAIN disk.control
      /\ \A q \in Ranks : Given(q) = bs /\ Mine(q) = bs /\ MyRule(q) = SectionRule(sec, q)
  BY <1>2, SharedBlock DEF ControlBlocks
<1>4. p = bs[n].pane /\ n \in DOMAIN bs
  BY <1>2, <1>3
<1>5. p \in Int
  <2> DEFINE B == Blocks
  <2> HIDE DEF B
  <2>1. bs \in Seq(B)
    BY <1>1, <1>2, ScannedBlocks DEF B
  <2>2. bs[n] \in B
    BY <1>4, <2>1
  <2> QED
    BY <1>4, <2>2 DEF B, Blocks
<1>6. p \in UNION {{Given(q)[m].pane : m \in DOMAIN Given(q)} : q \in Ranks}
  BY <1>2
<1>7. Numbered(sec)
  BY <1>2 DEF Distributed
<1>8. /\ p >= sec.off
      /\ sec.kind \in {"blockcyclic", "block"} => sec.base > 0
      /\ sec.kind = "block" => sec.n % NProcs = 0 \/ (sec.base = 1 /\ p < sec.off + sec.n)
  BY <1>6, <1>7 DEF Numbered
<1>9. sec.kind \in {"cyclic", "blockcyclic", "block"} /\ (sec.kind = "block" => sec.n >= NProcs)
  BY <1>2, <1>3 DEF Distributed, Regular
<1>10. PICK o \in Ranks : \A q \in Ranks : IsLocal(SectionRule(sec, q), p, q) <=> q = o
  BY <1>3, <1>5, <1>8, <1>9, OneOwner
<1>11. Windows = <<All>> /\ Len(Windows) = 1 /\ Range(Windows) = {All}
  BY <1>1, <1>3, WindowList
<1>12. Windows[1] = All
  BY <1>11
<1>13. ASSUME NEW q \in Ranks PROVE p \in win[q][All].panes <=> q = o
  <2>1. WindowOK(q, All) /\ pc[q] = "done" /\ wi[q] = 2
    BY <1>11, Given0 DEF AllDone, ControlOK
  <2>2. \A K : Past(q, All, K)
    BY <1>12, <2>1 DEF Past, Behind
  <2>3. win[q][All].panes = LocalOf(q, All)
    BY <2>1, <2>2 DEF WindowOK
  <2>4. MineOf(q, All) = bs
    BY <1>1, <1>3, MineTypes
  <2>5. LocalOf(q, All) = {bs[m].pane : m \in {k \in DOMAIN bs : IsLocal(SectionRule(sec, q), bs[k].pane, q)}}
    BY <1>3, <2>4 DEF LocalOf
  <2>6. p \in LocalOf(q, All) <=> IsLocal(SectionRule(sec, q), p, q)
    BY <1>4, <2>5
  <2> QED
    BY <1>10, <2>3, <2>6
<1>14. {q \in Ranks : p \in win[q][All].panes} = {o}
  BY <1>10, <1>13
<1>15. Cardinality({o}) = 1
  BY FS_Singleton
<1> QED
  BY <1>2, <1>14, <1>15

\* The variables of the readers keep their types (Rocin.C): a process waits in a
\* known call, and no window data but the one written is ever in a window.
THEOREM TypeCorrect == Spec => []TypeOK
  BY Invariance, TypesHold, PTL

\* new_dataitems: of regular input all processes make the same dataitems in the
\* same order, and none that a local pane carries is missing, for any number of
\* processes and any data sets.
THEOREM ItemsExactHolds == Spec => []ItemsExact
  BY Invariance, ItemsFollow, PTL

\* @Cyclic, @BlockCyclic and @Block: every pane that was found is local to exactly
\* one process, for any number of processes, panes, bases and offsets that
\* Numbered admits.
THEOREM PanesPartitionedHolds == Spec => []PanesPartitioned
  BY Invariance, PartitionFollows, PTL

\* write_rocin_control_file and read_by_control_file: a restart gives each process
\* its panes back and all processes the window data, for any number of processes
\* and panes, any distribution and all widths of ranks and panes in the names.
THEOREM RestoredHolds == Spec => []Restored
  BY Invariance, RestoredFollows, PTL
=============================================================================
