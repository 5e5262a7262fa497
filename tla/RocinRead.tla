----------------------------- MODULE RocinRead -----------------------------
(* SimIN reads a window in parallel (SimIO/In/src/Rocin.C): every process     *)
(* looks up its block of the control file (read_by_control_file), scans the   *)
(* files the block names (scan_files), and then all processes of the        *)
(* communicator build the window together (read_windows): they agree on its   *)
(* dataitems (new_dataitems), each registers and loads the panes that the     *)
(* block's rule makes local (register_panes, load_data), and the window     *)
(* data is sent to the processes that have none (broadcast_win_dataitems).    *)
(* What is on disk was written by SimOUT (RocoutFiles), in the same behaviour,*)
(* or is one of the data sets that the configuration gives.                   *)
(*                                                                            *)
(* MPI collectives match in the order in which each process calls them: the   *)
(* k-th call of one process belongs to the k-th call of every other.          *)
EXTENDS RocoutFiles

CONSTANTS DataSets,   \* what may be on disk
          Names,      \* of dataitems and materials
          MatOrder    \* the materials, in the order of their names

All == "all"

Blocks == [pane : Int, mat : Names, time : Int, items : Seq(Names)]
Sections == [kind : {"all", "cyclic", "blockcyclic", "block", "explicit", "absent"},
             ids : SUBSET Int, n : Nat, base : Nat, off : Int]
ControlBlocks == [proc : Int, files : SUBSET Int, sec : Sections]
DataSet == [files : Seq(Seq(Blocks)), control : Seq(ControlBlocks), mats : Seq(Names),
            patterns : [Ranks -> SUBSET Int], time : Int, owner : Seq(Ranks), rw : Nat, pw : Nat]

\* A client that asks for materials has no control file, and All is not the
\* name of one.  Files that are to be
\* written do not exist before, and one file for all panes has one writer.
ASSUME DataSetsAssumption ==
  /\ {All, "w", "n", "e"} \subseteq Names
  /\ MatOrder \in Seq(Names) /\ "a" \in Range(MatOrder)
  /\ \A d \in DataSets :
       /\ d \in DataSet
       /\ d.mats # <<>> => d.control = <<>> /\ All \notin Range(d.mats)
       /\ d.owner # <<>> =>
            /\ d.mats = <<>> /\ d.time \in {NoTime, Level}
            /\ Len(d.files) = NProcs * Len(d.owner)
            /\ \A f \in DOMAIN d.files : d.files[f] = <<>>
            /\ d.rw = 0 /\ d.pw = 0 => \A p, q \in DOMAIN d.owner : d.owner[p] = d.owner[q]

Unset == "unset"
Written == "written"     \* the window data, the same on all writers

VARIABLES rule,     \* m_is_local with m_pane_ids, m_base and m_offset
          blocks,   \* the blocks each process found, by material
          wi,       \* the window of the list a process is at
          win,      \* its windows: dataitems, panes, window data
          posted    \* the collective calls of each process, in order

readVars == <<rule, blocks, wi, win, posted>>
vars == <<disk, pc, out, readVars>>

NoRule == [kind |-> "none", ids |-> {}, base |-> 0, off |-> 0]
NoWindow == [items |-> <<>>, panes |-> {}, data |-> Unset]
Windows == IF disk.mats = <<>> THEN <<All>> ELSE disk.mats

(****************************************************************************)
(* Which panes a rule makes local.  C division truncates towards zero.      *)
(****************************************************************************)
CDiv(a, b) == IF a >= 0 THEN a \div b ELSE -((-a) \div b)
CMod(a, b) == a - b * CDiv(a, b)

explicit_local(u, p, r) == p \in u.ids

cyclic_local(u, p, r) == CMod(p - u.off, NProcs) = r

blockcyclic_local(u, p, r) ==
  LET proc == CDiv(p - u.off, u.base)
  IN  (IF proc >= NProcs THEN CMod(proc, NProcs) ELSE proc) = r

IsLocal(u, p, r) ==
  CASE u.kind = "none"        -> TRUE
    [] u.kind = "explicit"    -> explicit_local(u, p, r)
    [] u.kind = "cyclic"      -> cyclic_local(u, p, r)
    [] u.kind = "blockcyclic" -> blockcyclic_local(u, p, r)

(****************************************************************************)
(* The control file.                                                        *)
(****************************************************************************)
ExplicitRule(ids) == [NoRule EXCEPT !.kind = "explicit", !.ids = ids]
BlockCyclicRule(base, off) ==
  [NoRule EXCEPT !.kind = "blockcyclic", !.base = base, !.off = off]

\* Mutant: the processes after the first rem do not skip the longer blocks.
BlockRuleNoSkip(sec, r) ==
  LET quot == sec.n \div NProcs
      rem  == sec.n - quot * NProcs
  IN  BlockCyclicRule(sec.base * (IF r < rem THEN quot + 1 ELSE quot), sec.off)

\* @Block: the first rem processes take one block more than the others.
BlockRule(sec, r) ==
  LET quot == sec.n \div NProcs
      rem  == sec.n - quot * NProcs
  IN  IF r < rem THEN BlockCyclicRule(sec.base * (quot + 1), sec.off)
                 ELSE BlockCyclicRule(sec.base * quot, sec.off + rem)

\* A missing section at the end of the file reads as no pane at all, and so
\* does an empty one there.
SectionRule(sec, r) ==
  CASE sec.kind = "all"         -> NoRule
    [] sec.kind = "cyclic"      -> [NoRule EXCEPT !.kind = "cyclic", !.off = sec.off]
    [] sec.kind = "blockcyclic" -> BlockCyclicRule(sec.base, sec.off)
    [] sec.kind = "block"       -> BlockRule(sec, r)
    [] sec.kind = "explicit"    -> ExplicitRule(sec.ids)
    [] sec.kind = "absent"      -> ExplicitRule({})

\* The first block of the control file for process r; 0 when there is none.
MyBlock(r) ==
  LET mine == {k \in DOMAIN disk.control : disk.control[k].proc \in {r, AnyProc}}
  IN  IF mine = {} THEN 0 ELSE CHOOSE k \in mine : \A m \in mine : k <= m

(****************************************************************************)
(* Scanning: the blocks of one time level, grouped by material.  The lines  *)
(* mapped are those of the HDF4 reader; scan_files_CGNS goes through files, *)
(* bases and zones to the same end when a file has one time level, as those *)
(* have that SimOUT writes here.                                            *)
(****************************************************************************)
Found(names) ==
  FlattenSeq([f \in DOMAIN disk.files |-> IF f \in names THEN disk.files[f] ELSE <<>>])

\* The level asked for, or that of the first block found.
TimeLevel(found) ==
  IF disk.time = NoTime /\ found # <<>> THEN Head(found).time ELSE disk.time

\* The blocks of a sequence that are in S, in their order.
Keep(bs, S) == FlattenSeq([n \in DOMAIN bs |-> IF bs[n] \in S THEN <<bs[n]>> ELSE <<>>])

Grouped[found \in Seq(Blocks)] ==
  FlattenSeq([n \in DOMAIN MatOrder |->
    Keep(found, {b \in Range(found) : b.time = TimeLevel(found) /\ b.mat = MatOrder[n]})])

scan_files(names) == Grouped[Found(names)]

\* The blocks that belong to a window.
OfWindow(bs, w) == IF w = All THEN bs ELSE Keep(bs, {b \in Range(bs) : b.mat = w})
BlocksOf(r, w) == OfWindow(blocks[r], w)

\* Names in the order of their first occurrence.
Distinct[names \in Seq(Names)] ==
  FlattenSeq([n \in DOMAIN names |-> IF \E m \in 1 .. n - 1 : names[m] = names[n]
                                     THEN <<>> ELSE <<names[n]>>])

ItemNames[bs \in Seq(Blocks)] == Distinct[FlattenSeq([n \in DOMAIN bs |-> bs[n].items])]

(****************************************************************************)
(* Collective calls.                                                        *)
(****************************************************************************)
Post(r, op, val) ==
  posted' = [posted EXCEPT ![r] = Append(@, [op |-> op, win |-> Windows[wi[r]],
                                             val |-> val])]

Calls(r) == Len(posted[r])

\* All processes are in the same call as r; calls that do not match never end.
Arrived(r) ==
  \A q \in Ranks : /\ Len(posted[q]) >= Calls(r)
                   /\ posted[q][Calls(r)].op = posted[r][Calls(r)].op
                   /\ posted[q][Calls(r)].win = posted[r][Calls(r)].win
FromRank(q, r) == posted[q][Calls(r)].val

(****************************************************************************)
(* The reading processes.                                                   *)
(****************************************************************************)
Init ==
  /\ disk \in DataSets
  /\ InitWrite
  /\ rule = [r \in Ranks |-> NoRule]
  /\ blocks = [r \in Ranks |-> <<>>]
  /\ wi = [r \in Ranks |-> 1]
  /\ win = [r \in Ranks |-> [w \in Range(Windows) |-> NoWindow]]
  /\ posted = [r \in Ranks |-> <<>>]

\* Mutant: a process the control file does not mention returns as well.
GivesUpUnlisted(k) == k = 0

\* A block without an @Panes section that another block follows: the parser
\* then takes the rank of that block for a misplaced @Files and gives up.
GivesUp(k) == k # 0 /\ k < Len(disk.control) /\ disk.control[k].sec.kind = "absent"

read_by_control_file(r) ==
  /\ pc[r] = "start" /\ disk.mats = <<>>
  /\ LET k    == MyBlock(r)
         b    == disk.control[k]
         skip == /\ k < Len(disk.control)     \* an empty section: ignore the files
                 /\ b.sec.kind = "explicit" /\ b.sec.ids = {}
     IN  \/ /\ GivesUp(k)
            /\ Goto(r, "gaveup")
            /\ UNCHANGED <<rule, blocks>>
         \/ /\ k = 0
            /\ Goto(r, "next")
            /\ UNCHANGED <<rule, blocks>>
         \/ /\ k # 0 /\ ~GivesUp(k)
            /\ rule' = [rule EXCEPT ![r] = IF skip THEN NoRule
                                           ELSE SectionRule(b.sec, r)]
            /\ blocks' = [blocks EXCEPT ![r] = IF skip THEN <<>>
                                               ELSE scan_files(b.files)]
            /\ Goto(r, "next")
  /\ UNCHANGED <<disk, out, wi, win, posted>>

\* Called by a client: all panes found are local.
read_windows(r) ==
  /\ pc[r] = "start" /\ disk.mats # <<>>
  /\ blocks' = [blocks EXCEPT ![r] = scan_files(disk.patterns[r])]
  /\ Goto(r, "next")
  /\ UNCHANGED <<disk, out, rule, wi, win, posted>>

\* A material of which the process found no block.
SkipMaterial(r) ==
  /\ pc[r] = "next" /\ wi[r] <= Len(Windows)
  /\ disk.mats # <<>> /\ BlocksOf(r, Windows[wi[r]]) = <<>>
  /\ wi' = [wi EXCEPT ![r] = @ + 1]
  /\ UNCHANGED <<disk, out, pc, rule, blocks, win, posted>>

\* COM_new_window, and the names that new_dataitems sends to all.
NewWindow(r) ==
  /\ pc[r] = "next" /\ wi[r] <= Len(Windows)
  /\ disk.mats = <<>> \/ BlocksOf(r, Windows[wi[r]]) # <<>>
  /\ Post(r, "items", ItemNames[BlocksOf(r, Windows[wi[r]])])
  /\ Goto(r, "items")
  /\ UNCHANGED <<disk, out, rule, blocks, wi, win>>

\* Mutant: only the names of the process itself.
GatheredOwn(r) == FromRank(r, r)

\* What a process makes of the gathered names: those of all, by rank.
Gathered(r) == Distinct[FlattenSeq([n \in 1 .. NProcs |-> FromRank(n - 1, r)])]

new_dataitems(r) ==
  /\ pc[r] = "items"
  /\ Arrived(r)
  /\ win' = [win EXCEPT ![r][Windows[wi[r]]].items = Gathered(r)]
  /\ Goto(r, "register")
  /\ UNCHANGED <<disk, out, rule, blocks, wi, posted>>

\* The panes of the blocks that the rule of the process keeps.
LocalPanes(r, bs) ==
  {bs[n].pane : n \in {m \in DOMAIN bs : IsLocal(rule[r], bs[m].pane, r)}}

\* The rule divides by m_base.
Faults(r, bs) == bs # <<>> /\ rule[r].kind = "blockcyclic" /\ rule[r].base = 0

register_panes(r) ==
  /\ pc[r] = "register"
  /\ LET w  == Windows[wi[r]]
         bs == BlocksOf(r, w)
     IN  IF Faults(r, bs)
         THEN Goto(r, "fault") /\ UNCHANGED win
         ELSE /\ win' = [win EXCEPT ![r][w].panes = LocalPanes(r, bs)]
              /\ Goto(r, "load")
  /\ UNCHANGED <<disk, out, rule, blocks, wi, posted>>

\* Window data comes with the first block of the window, if that is local.
LoadsWindowData(bs, panes) ==
  bs # <<>> /\ Head(bs).pane \in panes /\ "w" \in Range(Head(bs).items)

load_data(r) ==
  /\ pc[r] = "load"
  /\ LET w  == Windows[wi[r]]
         bs == BlocksOf(r, w)
     IN  /\ win' = [win EXCEPT ![r][w].data =
                      IF LoadsWindowData(bs, win[r][w].panes) THEN Written ELSE @]
         /\ Post(r, "empty", bs = <<>>)
  /\ Goto(r, "empty")
  /\ UNCHANGED <<disk, out, rule, blocks, wi>>

\* The non-empty process with the highest rank; -1 when there is none.
Root(full) ==
  IF full = {} THEN -1 ELSE CHOOSE q \in full : \A p \in full : p <= q

\* broadcast_win_dataitems: who is empty decides whether and from whom.
Empties(r) ==
  /\ pc[r] = "empty"
  /\ Arrived(r)
  /\ LET full == {q \in Ranks : ~FromRank(q, r)}
         w    == Windows[wi[r]]
     IN  IF full # Ranks /\ "w" \in Range(win[r][w].items)
         THEN /\ Post(r, "bcast", [root |-> Root(full), data |-> win[r][w].data])
              /\ Goto(r, "bcast")
         ELSE /\ Post(r, "init_done", win[r][w].panes)
              /\ Goto(r, "init_done")
  /\ UNCHANGED <<disk, out, rule, blocks, wi, win>>

\* The root goes on at once, the others when the root has sent.
Broadcast(r) ==
  /\ pc[r] = "bcast"
  /\ LET root == FromRank(r, r).root
     IN  /\ Len(posted[root]) >= Calls(r)
         /\ win' = [win EXCEPT ![r][Windows[wi[r]]].data = FromRank(root, r).data]
  /\ Post(r, "init_done", win[r][Windows[wi[r]]].panes)
  /\ Goto(r, "init_done")
  /\ UNCHANGED <<disk, out, rule, blocks, wi>>

window_init_done(r) ==
  /\ pc[r] = "init_done"
  /\ Arrived(r)
  /\ wi' = [wi EXCEPT ![r] = @ + 1]
  /\ Goto(r, "next")
  /\ UNCHANGED <<disk, out, rule, blocks, win, posted>>

\* Back in read_by_control_file: the blocks are freed, the rule is cleared.
Return(r) ==
  /\ pc[r] = "next" /\ wi[r] > Len(Windows)
  /\ rule' = [rule EXCEPT ![r] = NoRule]
  /\ blocks' = [blocks EXCEPT ![r] = <<>>]
  /\ Goto(r, "done")
  /\ UNCHANGED <<disk, out, wi, win, posted>>

Step(r) ==
  \/ read_by_control_file(r) \/ read_windows(r)
  \/ SkipMaterial(r) \/ NewWindow(r)
  \/ new_dataitems(r) \/ register_panes(r) \/ load_data(r)
  \/ Empties(r) \/ Broadcast(r) \/ window_init_done(r) \/ Return(r)

Next ==
  \/ \E r \in Ranks : WriteStep(r) /\ UNCHANGED readVars
  \/ Restart /\ UNCHANGED readVars
  \/ \E r \in Ranks : Step(r)

\* Every reading process runs on as long as nothing blocks it.
Spec == Init /\ [][Next]_vars /\ \A r \in Ranks : WF_vars(Step(r))

(****************************************************************************)
(* Properties.                                                              *)
(****************************************************************************)
Labels == WriteLabels \cup
          {"start", "gaveup", "next", "items", "register", "fault", "load",
           "empty", "bcast", "init_done", "done"}

TypeOK ==
  /\ pc \in [Ranks -> Labels]
  /\ \A r \in Ranks :
       /\ rule[r].kind \in {"none", "explicit", "cyclic", "blockcyclic"}
       /\ wi[r] \in 1 .. Len(Windows) + 1
       /\ \A w \in Range(Windows) : win[r][w].data \in {Unset, Written}
       /\ \A n \in DOMAIN posted[r] :
            posted[r][n].op \in {"items", "empty", "bcast", "init_done"}

Reading == \A r \in Ranks : pc[r] \notin WriteLabels
AllDone == \A r \in Ranks : pc[r] = "done"

\* The blocks that process r has to look at, by the files it is given.
Given(r) ==
  LET k == MyBlock(r)
  IN  IF disk.mats # <<>> THEN scan_files(disk.patterns[r])
      ELSE IF k = 0 THEN <<>> ELSE scan_files(disk.control[k].files)

\* What the reader takes for granted of its input and does not test: only the
\* last block of the control file lacks its @Panes section, @Block deals with
\* at least as many blocks as there are processes, and a material is found by
\* all processes or by none.
Regular ==
  /\ \A k \in 1 .. Len(disk.control) - 1 : disk.control[k].sec.kind # "absent"
  /\ \A k \in DOMAIN disk.control :
       disk.control[k].sec.kind = "block" => disk.control[k].sec.n >= NProcs
  /\ \A m \in Range(disk.mats) :
       {r \in Ranks : \E n \in DOMAIN Given(r) : Given(r)[n].mat = m} \in {{}, Ranks}

(* All processes come back from reading regular input: whatever the files and *)
(* the rules give to a process, also when it has no block, no file or no pane,*)
(* it makes the same collective calls as the others.                          *)
AllReturn == (Reading /\ Regular) ~> AllDone

(* When a window of regular input is finished, all processes have the same    *)
(* dataitems in it, in the same order, and none is missing that a pane of     *)
(* some process carries.                                                      *)
ItemsExact ==
  TypeOK /\ (Regular => \A r \in Ranks : \A n \in 1 .. wi[r] - 1 :
    LET w == Windows[n]
    IN  \A q \in Ranks :
          /\ wi[q] > n => win[q][w].items = win[r][w].items
          /\ \A m \in DOMAIN Given(q) :
               w \in {All, Given(q)[m].mat} /\ Given(q)[m].pane \in win[q][w].panes =>
                 Range(Given(q)[m].items) \subseteq Range(win[r][w].items))

\* What the rules that spread the panes take for granted: the ids begin at the
\* offset, a block has panes in it, and @Block either deals with a multiple of
\* NProcs blocks or with all ids there are, one per block.
Numbered(sec) ==
  LET ids == UNION {{Given(r)[n].pane : n \in DOMAIN Given(r)} : r \in Ranks}
  IN  /\ \A p \in ids : p >= sec.off
      /\ sec.kind \in {"blockcyclic", "block"} => sec.base > 0
      /\ sec.kind = "block" =>
           sec.n % NProcs = 0 \/ (sec.base = 1 /\ \A p \in ids : p < sec.off + sec.n)

\* The data set is spread over the processes by one rule for all of them.
Distributed ==
  /\ Regular /\ Len(disk.control) = 1
  /\ Numbered(disk.control[1].sec)
  /\ disk.control[1].proc = AnyProc
  /\ disk.control[1].sec.kind \in {"cyclic", "blockcyclic", "block"}

(* A rule of the control file that spreads the panes leaves every pane that   *)
(* was found with exactly one process.                                        *)
PanesPartitioned ==
  (Distributed /\ AllDone) =>
    \A r \in Ranks : \A n \in DOMAIN Given(r) :
       Cardinality({q \in Ranks : Given(r)[n].pane \in win[q][All].panes}) = 1

(* Restart: from the files and the control file that SimOUT wrote, each       *)
(* process gets back exactly the panes it had, unless the names of the files  *)
(* have both the rank and the pane in them; and unless they have the pane,    *)
(* every process, one without panes included, has the window data.            *)
Restored ==
  (disk.owner # <<>> /\ AllDone) =>
    \A r \in Ranks :
       /\ (disk.rw = 0 \/ disk.pw = 0) => win[r][All].panes = PanesOf(r)
       /\ disk.pw = 0 => win[r][All].data = Written

=============================================================================
