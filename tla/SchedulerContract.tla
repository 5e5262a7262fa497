-------------------------- MODULE SchedulerContract --------------------------
(***************************************************************************)
(* What DDGScheduler promises its clients, without its algorithm.  Actions *)
(* declare what they read and write; schedule() then either rejects the    *)
(* declarations or fixes an order in which every action comes after the    *)
(* ones it reads from.  "No dangling inputs or outputs are allowed.  The   *)
(* graph must be acyclic" (DDGScheduler.h): exactly the graphs that meet   *)
(* these conditions are accepted, whatever order the actions were added in.*)
(***************************************************************************)
EXTENDS Integers, Sequences, FiniteSets

CONSTANTS
    Keys,       \* (attr, idx) pairs that actions read and write
    MaxItems,   \* bound on the actions of one scheduler
    MaxSlots    \* bound on the reads and writes of one action

Item == 1..MaxItems

\* What one action may declare: a list of keys, in declaration order.
Declaration == UNION {[1..k -> Keys] : k \in 0..MaxSlots}

VARIABLES
    n,          \* number of actions added
    reads,      \* read_attr, read_idx of each action
    writes,     \* write_attr, write_idx of each action
    outcome,    \* of schedule(): "none" yet, "ok" or "rejected"
    order       \* the order of execution, once there is one

cvars == <<n, reads, writes, outcome, order>>

ReadSlot == {s \in Item \X (1..MaxSlots) : s[2] \in DOMAIN reads[s[1]]}
WriteSlot == {s \in Item \X (1..MaxSlots) : s[2] \in DOMAIN writes[s[1]]}
ReadKey(s) == reads[s[1]][s[2]]
WriteKey(s) == writes[s[1]][s[2]]

\* j writes something that i reads
Feeds(j, i) == \E k \in DOMAIN writes[j], l \in DOMAIN reads[i] :
                  writes[j][k] = reads[i][l]

\* In every nonempty set of actions, one is fed by none of them.
Acyclic == \A S \in SUBSET (1..n) :
              S # {} => \E i \in S : \A j \in S : ~Feeds(j, i)

\* Condition 1 and 2 of buildDDG's comment, for reads and for writes.
ReadsMatched == \A r \in ReadSlot : \E w \in WriteSlot :
                   /\ WriteKey(w) = ReadKey(r)
                   /\ \A v \in WriteSlot : WriteKey(v) = ReadKey(r) => v = w
WritesMatched == \A w \in WriteSlot : \E r \in ReadSlot :
                    /\ ReadKey(r) = WriteKey(w)
                    /\ \A q \in ReadSlot : ReadKey(q) = WriteKey(w) => q = r

Schedulable == ReadsMatched /\ WritesMatched /\ Acyclic

\* s lists every action once, and each one after those that feed it.
IsTopologicalOrder(s) ==
    /\ s \in [1..n -> 1..n]
    /\ \A p, q \in 1..n : s[p] = s[q] => p = q
    /\ \A p, q \in 1..n : Feeds(s[p], s[q]) => p < q

CInit ==
    /\ n = 0
    /\ reads = [i \in Item |-> <<>>]
    /\ writes = [i \in Item |-> <<>>]
    /\ outcome = "none"
    /\ order = <<>>

Add ==
    /\ outcome = "none"
    /\ n < MaxItems
    /\ \E rs, ws \in Declaration :
          /\ reads' = [reads EXCEPT ![n + 1] = rs]
          /\ writes' = [writes EXCEPT ![n + 1] = ws]
    /\ n' = n + 1
    /\ UNCHANGED <<outcome, order>>

Accept ==
    /\ outcome = "none"
    /\ Schedulable
    /\ outcome' = "ok"
    /\ IsTopologicalOrder(order')
    /\ UNCHANGED <<n, reads, writes>>

Reject ==
    /\ outcome = "none"
    /\ ~Schedulable
    /\ outcome' = "rejected"
    /\ UNCHANGED <<n, reads, writes, order>>

CNext == Add \/ Accept \/ Reject

CSpec == CInit /\ [][CNext]_cvars
==============================================================================
