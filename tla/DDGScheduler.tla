---------------------------- MODULE DDGScheduler -----------------------------
(***************************************************************************)
(* SIM's Scheduler with the data-dependency ordering of DDGScheduler.      *)
(*                                                                         *)
(* Actions are added with what they read and write.  schedule() links each *)
(* read to the action that writes it and each write to the action that     *)
(* reads it (buildDDG), checks that nothing is left unlinked (sanityCheck) *)
(* and sorts the actions (topological_sort).  init_actions, run_actions    *)
(* and finalize_actions then walk the sorted list, forwards or backwards.  *)
(* Every error ends the process (COM_abort_msg).                           *)
(*                                                                         *)
(* An ActionItem is named by its position in the vector `actions`; a       *)
(* client adds an Action object once.  A pair (attr, idx) is one key.      *)
(***************************************************************************)
EXTENDS Integers, Sequences, FiniteSets

CONSTANTS Keys, MaxItems, MaxSlots,
    NULL        \* an input or output that is not linked yet

Item == 1..MaxItems

ASSUME SchedulerAssumption ==
    MaxItems \in Nat /\ MaxSlots \in Nat /\ NULL \notin Item

Declaration == UNION {[1..k -> Keys] : k \in 0..MaxSlots}
Links == UNION {[1..k -> Item \cup {NULL}] : k \in 0..MaxSlots}

VARIABLES
    n,          \* actions.size()
    reads,      \* read_attr, read_idx of each item
    writes,     \* write_attr, write_idx of each item
    input,      \* for each read of an item, the item that writes it
    output,     \* for each write of an item, the item that reads it
    pool,       \* the local `pool` of buildDDG and topological_sort
    act,        \* buildDDG's cursor, a position in pool
    sort,
    roots,
    scheduled,
    inited,
    pc,         \* what the scheduler is doing
    walked,     \* how many items of sort the current pass has called
    error       \* why the process has aborted, or "none"

vars == <<n, reads, writes, input, output, pool, act, sort, roots,
          scheduled, inited, pc, walked, error>>

Elements(s) == {s[p] : p \in DOMAIN s}
SeqRemove(s, p) == SubSeq(s, 1, p - 1) \o SubSeq(s, p + 1, Len(s))

Phases == {"idle", "build", "check", "sort", "init", "run", "finalize"}

TypeOK ==
    /\ n \in 0..MaxItems
    /\ reads \in [Item -> Declaration]
    /\ writes \in [Item -> Declaration]
    /\ input \in [Item -> Links] /\ output \in [Item -> Links]
    /\ \A i \in Item : /\ DOMAIN input[i] = DOMAIN reads[i]
                       /\ DOMAIN output[i] = DOMAIN writes[i]
    /\ pool \in Seq(1..n)
    /\ sort \in Seq(1..n)
    /\ roots \in Seq(1..n)
    /\ pc = "build" /\ pool # <<>> => act \in DOMAIN pool
    /\ act \in Nat
    /\ scheduled \in BOOLEAN
    /\ inited \in BOOLEAN
    /\ pc \in Phases
    /\ walked \in 0..Len(sort)
    /\ error \in {"none", "misuse", "graph"}

Init ==
    /\ n = 0
    /\ reads = [i \in Item |-> <<>>]
    /\ writes = [i \in Item |-> <<>>]
    /\ input = [i \in Item |-> <<>>]
    /\ output = [i \in Item |-> <<>>]
    /\ pool = <<>> /\ act = 1
    /\ sort = <<>> /\ roots = <<>>
    /\ scheduled = FALSE /\ inited = FALSE
    /\ pc = "idle" /\ walked = 0
    /\ error = "none"

\* COM_abort_msg ends the process: nothing changes any more.
COM_abort_msg(why) ==
    /\ error' = why
    /\ UNCHANGED <<n, reads, writes, input, output, pool, act, sort, roots,
                   scheduled, inited, pc, walked>>

At(phase) == error = "none" /\ pc = phase

------------------------------------------------------------------------------
(* add_action: the new item declares its reads and writes through the      *)
(* callbacks reads() and writes(), each with an empty link.                *)

Distinct(d) == \A k, l \in DOMAIN d : d[k] = d[l] => k = l

AddItem(rs, ws) ==
    /\ At("idle") /\ ~scheduled
    /\ n < MaxItems
    /\ n' = n + 1
    /\ reads' = [reads EXCEPT ![n + 1] = rs]
    /\ writes' = [writes EXCEPT ![n + 1] = ws]
    /\ input' = [input EXCEPT ![n + 1] = [k \in DOMAIN rs |-> NULL]]
    /\ output' = [output EXCEPT ![n + 1] = [k \in DOMAIN ws |-> NULL]]
    /\ UNCHANGED <<pool, act, sort, roots, scheduled, inited, pc, walked, error>>

\* A client whose actions list a key at most once as input and as output
add_action == \E rs, ws \in Declaration :
                 Distinct(rs) /\ Distinct(ws) /\ AddItem(rs, ws)

schedule ==
    /\ At("idle")
    /\ IF scheduled
         THEN COM_abort_msg("misuse")
         ELSE /\ pc' = "build"
              /\ pool' = [i \in 1..n |-> i] /\ act' = 1
              /\ UNCHANGED <<n, reads, writes, input, output, sort, roots,
                             scheduled, inited, walked, error>>

------------------------------------------------------------------------------
(* buildDDG.  A visit to an item fills its empty inputs one after the      *)
(* other, or its empty outputs if it reads nothing.  Candidates are the    *)
(* items still in the pool: an item leaves it once all its links are set.  *)

fulfilled(i) ==
    /\ \A k \in DOMAIN input[i] : input[i][k] # NULL
    /\ \A k \in DOMAIN output[i] : output[i][k] # NULL

\* The first position of a key in a declaration, the result of hasInput and
\* hasOutput; 0 stands for their -1.
Position(d, key) ==
    IF \E k \in DOMAIN d : d[k] = key
      THEN CHOOSE k \in DOMAIN d : d[k] = key /\ \A l \in DOMAIN d : d[l] = key => k <= l
      ELSE 0
hasInput(i, key) == Position(reads[i], key)
hasOutput(i, key) == Position(writes[i], key)

FirstEmpty(link) ==
    CHOOSE k \in DOMAIN link : link[k] = NULL /\ \A l \in 1..(k - 1) : link[l] # NULL
HasEmpty(link) == \E k \in DOMAIN link : link[k] = NULL

\* Mutant: the reader is linked to its writer but not the converse.
SetInputOneWay(i, k) ==
    LET matches == {a \in Elements(pool) : hasOutput(a, reads[i][k]) # 0}
    IN  \/ \E a \in matches :
             /\ matches = {a}
             /\ input' = [input EXCEPT ![i][k] = a]
             /\ UNCHANGED <<n, reads, writes, output, pool, act, sort, roots,
                            scheduled, inited, pc, walked, error>>
        \/ /\ ~\E a \in matches : matches = {a}
           /\ COM_abort_msg("graph")

\* Mutant: of several writers of a key the first is taken, without an error.
SetInputFirstWriter(i, k) ==
    LET matches == {a \in Elements(pool) : hasOutput(a, reads[i][k]) # 0}
        o(a) == hasOutput(a, reads[i][k])
    IN  \/ \E a \in matches :
             /\ \A b \in matches : a <= b
             /\ input' = [input EXCEPT ![i][k] = a]
             /\ output' = [output EXCEPT ![a][o(a)] = i]
             /\ UNCHANGED <<n, reads, writes, pool, act, sort, roots,
                            scheduled, inited, pc, walked, error>>
        \/ /\ matches = {}
           /\ COM_abort_msg("graph")

\* One matching item: both links are set.  No match, a second match, or a
\* match whose own link is taken: the process aborts.
SetInput(i, k) ==
    LET matches == {a \in Elements(pool) : hasOutput(a, reads[i][k]) # 0}
        o(a) == hasOutput(a, reads[i][k])
    IN  \/ \E a \in matches :
             /\ matches = {a}
             /\ output[a][o(a)] = NULL
             /\ input' = [input EXCEPT ![i][k] = a]
             /\ output' = [output EXCEPT ![a][o(a)] = i]
             /\ UNCHANGED <<n, reads, writes, pool, act, sort, roots,
                            scheduled, inited, pc, walked, error>>
        \/ /\ ~\E a \in matches : matches = {a} /\ output[a][o(a)] = NULL
           /\ COM_abort_msg("graph")

SetOutput(i, k) ==
    LET matches == {a \in Elements(pool) : hasInput(a, writes[i][k]) # 0}
        o(a) == hasInput(a, writes[i][k])
    IN  \/ \E a \in matches :
             /\ matches = {a}
             /\ input[a][o(a)] = NULL
             /\ output' = [output EXCEPT ![i][k] = a]
             /\ input' = [input EXCEPT ![a][o(a)] = i]
             /\ UNCHANGED <<n, reads, writes, pool, act, sort, roots,
                            scheduled, inited, pc, walked, error>>
        \/ /\ ~\E a \in matches : matches = {a} /\ input[a][o(a)] = NULL
           /\ COM_abort_msg("graph")

Fill ==
    /\ At("build") /\ pool # <<>>
    /\ LET i == pool[act] IN
          \/ /\ HasEmpty(input[i])
             /\ SetInput(i, FirstEmpty(input[i]))
          \/ /\ DOMAIN reads[i] = {}
             /\ HasEmpty(output[i])
             /\ SetOutput(i, FirstEmpty(output[i]))

NextPosition(p) == IF p = Len(pool) THEN 1 ELSE p + 1

\* Mutant: linked items are never erased from the pool.
LeavesNever(i) == FALSE
Leaves(i) == fulfilled(i) /\ Len(pool) # 1

\* The end of a visit: an item with all its links leaves the pool, unless it
\* is the last one, when buildDDG returns without reaching its last loop.
Advance ==
    /\ At("build") /\ pool # <<>>
    /\ LET i == pool[act] IN
          /\ ~HasEmpty(input[i])
          /\ ~(DOMAIN reads[i] = {} /\ HasEmpty(output[i]))
          /\ \/ /\ fulfilled(i) /\ Len(pool) = 1
                /\ pc' = "check"
                /\ UNCHANGED <<pool, act>>
             \/ /\ Leaves(i)
                /\ pool' = SeqRemove(pool, act)
                /\ act' = IF act = Len(pool) THEN 1 ELSE act
                /\ UNCHANGED pc
             \/ /\ ~(fulfilled(i) /\ Len(pool) = 1) /\ ~Leaves(i)
                /\ act' = NextPosition(act)
                /\ UNCHANGED <<pool, pc>>
    /\ UNCHANGED <<n, reads, writes, input, output, sort, roots,
                   scheduled, inited, walked, error>>

\* The items without reads, as the last loop of buildDDG lists them
Roots[k \in 0..n] ==
    IF k = 0 THEN <<>>
    ELSE IF DOMAIN reads[k] = {} THEN Append(Roots[k - 1], k) ELSE Roots[k - 1]

\* The loop is not entered when there are no actions: only then is the list
\* of roots built, from no actions.
BuildNothing ==
    /\ At("build") /\ pool = <<>>
    /\ pc' = "check"
    /\ roots' = Roots[n]
    /\ UNCHANGED <<n, reads, writes, input, output, pool, act, sort,
                   scheduled, inited, walked, error>>

sanityCheck ==
    /\ At("check")
    /\ IF \A i \in 1..n : fulfilled(i)
         THEN /\ pc' = "sort"
              /\ pool' = [i \in 1..n |-> i]
              /\ UNCHANGED <<n, reads, writes, input, output, act, sort, roots,
                             scheduled, inited, walked, error>>
         ELSE COM_abort_msg("graph")

------------------------------------------------------------------------------
(* topological_sort: the first item of the pool all of whose inputs are in *)
(* sort moves to its end; if there is none the graph has a cycle.          *)

\* Mutant: one upstream action in sort is taken for all of them.
ReadyByOne(i) == DOMAIN input[i] = {} \/ \E k \in DOMAIN input[i] : input[i][k] \in Elements(sort)
Ready(i) == \A k \in DOMAIN input[i] : input[i][k] \in Elements(sort)

topological_sort ==
    /\ At("sort") /\ pool # <<>>
    /\ \/ \E p \in DOMAIN pool :
            /\ Ready(pool[p])
            /\ \A q \in 1..(p - 1) : ~Ready(pool[q])
            /\ sort' = Append(sort, pool[p])
            /\ pool' = SeqRemove(pool, p)
            /\ UNCHANGED <<n, reads, writes, input, output, act, roots,
                           scheduled, inited, pc, walked, error>>
       \/ /\ \A p \in DOMAIN pool : ~Ready(pool[p])
          /\ COM_abort_msg("graph")

schedule_return ==
    /\ At("sort") /\ pool = <<>>
    /\ scheduled' = TRUE
    /\ pc' = "idle"
    /\ UNCHANGED <<n, reads, writes, input, output, pool, act, sort, roots,
                   inited, walked, error>>

------------------------------------------------------------------------------
(* The passes over the sorted list.  Each calls one virtual function of    *)
(* every item; finalize_actions goes backwards.                            *)

Begin(pass) ==
    /\ pc' = pass /\ walked' = 0
    /\ UNCHANGED <<n, reads, writes, input, output, pool, act, sort, roots,
                   scheduled, inited, error>>

init_actions ==
    /\ At("idle")
    /\ IF ~scheduled THEN COM_abort_msg("misuse")
                     ELSE ~inited /\ Begin("init")      \* else it returns at once

run_actions ==
    /\ At("idle")
    /\ IF ~inited THEN COM_abort_msg("misuse") ELSE Begin("run")

finalize_actions ==
    /\ At("idle")
    /\ IF ~inited THEN COM_abort_msg("misuse") ELSE Begin("finalize")

CallAction ==
    /\ error = "none" /\ pc \in {"init", "run", "finalize"}
    /\ walked < Len(sort)
    /\ walked' = walked + 1
    /\ UNCHANGED <<n, reads, writes, input, output, pool, act, sort, roots,
                   scheduled, inited, pc, error>>

EndPass ==
    /\ error = "none" /\ pc \in {"init", "run", "finalize"}
    /\ walked = Len(sort)
    /\ inited' = (inited \/ pc = "init")
    /\ pc' = "idle" /\ walked' = 0
    /\ UNCHANGED <<n, reads, writes, input, output, pool, act, sort, roots,
                   scheduled, error>>

restarting ==
    /\ At("idle")
    /\ inited' = FALSE
    /\ UNCHANGED <<n, reads, writes, input, output, pool, act, sort, roots,
                   scheduled, pc, walked, error>>

\* The steps of schedule() itself, once a client has called it
Scheduling == \/ Fill \/ Advance \/ BuildNothing \/ sanityCheck
              \/ topological_sort \/ schedule_return

Client == \/ add_action \/ schedule \/ init_actions \/ run_actions
          \/ finalize_actions \/ restarting

Next == Client \/ Scheduling \/ CallAction \/ EndPass

Spec == Init /\ [][Next]_vars

\* schedule() runs on the caller's thread and is never suspended.
FairSpec == Spec /\ WF_vars(Scheduling)

------------------------------------------------------------------------------
(* Properties *)

\* What a client sees of schedule()
Outcome == IF error = "graph" THEN "rejected" ELSE IF scheduled THEN "ok" ELSE "none"
Order == IF scheduled THEN sort ELSE <<>>

Contract == INSTANCE SchedulerContract WITH outcome <- Outcome, order <- Order

\* DDGScheduler::schedule keeps its contract: it accepts exactly the acyclic
\* graphs in which every read has one writer and every write one reader,
\* whatever the order of add_action, and the order it fixes is topological.
ImplementsContract == Contract!CSpec

\* Both ends of a link agree: if item r takes its k-th input from w, then w
\* writes that key and lists r as the reader of it, and the converse.  Only
\* buildDDG's visits establish this, from either end, over several passes.
LinksAgree ==
    TypeOK /\ \A i, j \in Item :
       /\ \A k \in DOMAIN input[i] : input[i][k] = j =>
             \E l \in DOMAIN output[j] : output[j][l] = i /\ writes[j][l] = reads[i][k]
       /\ \A k \in DOMAIN output[i] : output[i][k] = j =>
             \E l \in DOMAIN input[j] : input[j][l] = i /\ reads[j][l] = writes[i][k]

\* The items called so far in the pass that is under way
Called == IF pc = "finalize"
            THEN {sort[p] : p \in (Len(sort) - walked + 1)..Len(sort)}
            ELSE {sort[p] : p \in 1..walked}

\* In an init or run pass no action is called before the ones whose output
\* it declared to read; in a finalize pass, none before its own readers.
DataflowOrder ==
    /\ pc \in {"init", "run"} =>
          \A i \in Called : \A j \in 1..n : Contract!Feeds(j, i) => j \in Called
    /\ pc = "finalize" =>
          \A i \in Called : \A j \in 1..n : Contract!Feeds(i, j) => j \in Called

\* Once schedule() is called on a graph that meets the conditions it returns
\* with an order: the cyclic walk over the pool cannot go round for ever.
GoodGraphsScheduled ==
    (pc = "build" /\ Contract!Schedulable) ~> scheduled

\* "No dangling inputs or outputs are allowed" (DDGScheduler.h): schedule()
\* ends, with an order or with an error, for every set of declarations.
ScheduleReturns == (pc = "build") ~> (scheduled \/ error # "none")
==============================================================================
