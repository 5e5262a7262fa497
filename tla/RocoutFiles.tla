---------------------------- MODULE RocoutFiles ----------------------------
(* SimOUT writes a window for a restart (SimIO/Out/src/Rocout.C): every       *)
(* process writes its panes one after the other (write_dataitem_internal)     *)
(* into the files that the options rankwidth and pnidwidth name (get_fname),  *)
(* and process 0 lists the files and panes of all in a control file           *)
(* (write_rocin_control_file).  RocinRead continues from what is then on disk.*)
(*                                                                            *)
(* A data set on disk is a record                                             *)
(*   files    a sequence of files, in the order of their names; a file is a   *)
(*            sequence of blocks [pane, mat, time, items], <<>> if missing    *)
(*   control  a sequence of blocks [proc, files, sec]; proc = AnyProc is '*'  *)
(*   mats     the materials read_windows is asked for, <<>> when the call is  *)
(*            read_by_control_file, which reads all blocks as one window      *)
(*   patterns the files that each process gives to read_windows               *)
(*   time     the time level asked for, NoTime for the first one found        *)
(*   owner    the process that has each pane, <<>> for files not from SimOUT  *)
(*   rw, pw   the options rankwidth and pnidwidth of the writers              *)
(* The section sec of a control block is a record [kind, ids, n, base, off].  *)
(* One write stands for the window (attribute "all", option mode "w") at one  *)
(* time level; localdir and rankdir are not set.                              *)
EXTENDS Integers, Sequences, FiniteSets, SequencesExt

CONSTANT NProcs

ASSUME NProcsAssumption == NProcs \in Nat \ {0}

Ranks == 0 .. NProcs - 1
AnyProc == -1
NoTime == 0
Level == 1     \* the time level that is written

VARIABLES disk,     \* the data set
          pc,       \* what each process is doing
          out       \* the write under way: panes left, files begun

PanesOf(r) == {p \in DOMAIN disk.owner : disk.owner[p] = r}

Goto(r, label) == pc' = [pc EXCEPT ![r] = label]

\* The file of a pane: its name ends in the rank, the pane, both or neither.
get_fname(r, p) ==
  CASE disk.rw > 0 /\ disk.pw > 0 -> r * Len(disk.owner) + p
    [] disk.rw > 0 /\ disk.pw = 0 -> r + 1
    [] disk.rw = 0 /\ disk.pw > 0 -> p
    [] disk.rw = 0 /\ disk.pw = 0 -> 1

\* What one pane leaves in a file: its mesh and its dataitems, and with every
\* pane the window data.
PaneBlock(p) ==
  [pane |-> p, mat |-> "a", time |-> Level,
   items |-> IF p = 1 THEN <<"w", "n", "e">> ELSE <<"w", "n">>]

\* A file is opened for writing, which empties it, unless panes are appended.
write_dataitem_CGNS(f, p, append) ==
  disk' = [disk EXCEPT !.files[f] = (IF append THEN @ ELSE <<>>) \o <<PaneBlock(p)>>]

\* Mutant: the panes after the first one empty the file again.
AppendsNever(r, f) == FALSE

\* Only the first pane that a write puts into a file creates it.
Appends(r, f) == f \in out[r].written

NoWrite == [todo |-> {}, written |-> {}]
StartWrite(r) == [todo |-> PanesOf(r), written |-> {}]

\* One round of the loop over the panes, by their ids.
write_dataitem_internal(r) ==
  /\ pc[r] = "write" /\ out[r].todo # {}
  /\ LET p == Min(out[r].todo)
         f == get_fname(r, p)
     IN  /\ write_dataitem_CGNS(f, p, Appends(r, f))
         /\ out' = [out EXCEPT ![r] = [todo    |-> @.todo \ {p},
                                       written |-> @.written \cup {f}]]
  /\ UNCHANGED pc

write_done(r) ==
  /\ pc[r] = "write" /\ out[r].todo = {}
  /\ Goto(r, IF r = 0 THEN "control" ELSE "written")
  /\ out' = [out EXCEPT ![r] = NoWrite]
  /\ UNCHANGED disk

\* The files that the pattern in the control file matches when process r
\* reads it: %p is its own rank, %i any pane.  The reader replaces one
\* placeholder of a name, so a name with both matches no file.
Matching(r) ==
  CASE disk.rw > 0 /\ disk.pw > 0 -> {}
    [] disk.rw > 0 /\ disk.pw = 0 -> {r + 1}
    [] disk.rw = 0 /\ disk.pw > 0 -> DOMAIN disk.owner
    [] disk.rw = 0 /\ disk.pw = 0 -> {1}

ListedPanes(r) ==
  [kind |-> "explicit", ids |-> PanesOf(r), n |-> 0, base |-> 0, off |-> 0]

\* Process 0 writes a block for every process, without files for one that has
\* no pane.  The others may still be writing their panes.
write_rocin_control_file(r) ==
  /\ pc[r] = "control"
  /\ disk' = [disk EXCEPT !.control = [k \in 1 .. NProcs |->
                [proc  |-> k - 1,
                 files |-> IF PanesOf(k - 1) = {} THEN {} ELSE Matching(k - 1),
                 sec   |-> ListedPanes(k - 1)]]]
  /\ Goto(r, "written")
  /\ UNCHANGED out

\* The next run of the program, after all processes of this one have ended.
Restart ==
  /\ \A r \in Ranks : pc[r] = "written"
  /\ pc' = [r \in Ranks |-> "start"]
  /\ UNCHANGED <<disk, out>>

WriteStep(r) ==
  write_dataitem_internal(r) \/ write_done(r) \/ write_rocin_control_file(r)

\* Before SimOUT has written: the panes are spread over the processes.
InitWrite ==
  IF disk.owner = <<>>
  THEN pc = [r \in Ranks |-> "start"] /\ out = [r \in Ranks |-> NoWrite]
  ELSE pc = [r \in Ranks |-> "write"] /\ out = [r \in Ranks |-> StartWrite(r)]

WriteLabels == {"write", "control", "written"}

=============================================================================
