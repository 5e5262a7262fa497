----------------------------- MODULE RocoutAsync -----------------------------
(***************************************************************************)
(* SimOUT's output module (Rocout.C) built with USE_PTHREADS: with the     *)
(* option async=on every write runs in a thread of its own.                *)
(*                                                                         *)
(* The client calls write, put and add, set_option, sync and, at the end,  *)
(* finalize.  A writer thread waits for one of MAX_ASYNC_WRITES permits,   *)
(* clones the data into a temporary window, writes the file, gives the     *)
(* permit back and deletes the clone.  The semaphore is that of module     *)
(* Semaphore, at the level of its mutex and condition variable.            *)
(*                                                                         *)
(* The data of the client's window is a version number, which grows when   *)
(* the client changes the data; a file is the list of versions in it.      *)
(***************************************************************************)
EXTENDS Semaphore, Sequences

CONSTANTS
    Files,
    MaxVersion,     \* bound on the versions of the client's data
    MaxCalls,       \* bound on the client's write calls
    NoJob           \* a thread id that is not in use has no WriteAttrInfo

VARIABLES
    data,       \* version of the data in the client's window
    mode,       \* _options["mode"]: "w" or "a"
    async,      \* _options["async"] = "on"
    file,       \* contents of each file
    expected,   \* what the files would be had every call been synchronous
    calls,      \* write calls made so far
    writers,    \* _writers: the threads created and not yet forgotten
    joined,     \* how many of them the loop of sync or finalize has joined
    client,     \* what the client's thread is doing
    job,        \* the WriteAttrInfo of each writer thread
    doing,      \* how far each writer thread is
    clone,      \* version in the writer's temporary window, or -1 for none
    rejoined    \* pthread_join was called on a thread joined before

cvars == <<data, mode, async, expected, calls, writers, joined, client, rejoined>>
wvars == <<job, doing, clone>>
vars == <<m_count, holder, at, data, mode, async, file, expected, calls,
          writers, joined, client, job, doing, clone, rejoined>>

Ops == {"write", "put", "add"}
Version == 0..MaxVersion
Contents == Seq(Version)

\* The semaphore starts with all its permits, at least one, and a condition
\* variable that was initialised does not fail.
ASSUME RocoutAssumption ==
    /\ MaxVersion \in Nat /\ MaxCalls \in Nat
    /\ InitialCount = MaxCount /\ MaxCount > 0 /\ CondMayFail = FALSE
    /\ NoJob \notin [op : Ops, file : Files]

TypeOK ==
    /\ SemTypeOK
    /\ data \in Version /\ mode \in {"w", "a"} /\ async \in BOOLEAN
    /\ file \in [Files -> Contents] /\ expected \in [Files -> Contents]
    /\ calls \in 0..MaxCalls
    /\ writers \in Seq(Thread) /\ joined \in 0..Len(writers)
    /\ client \in {"running", "sync", "finalize", "ended"}
    /\ job \in [Thread -> [op: Ops, file: Files] \cup {NoJob}]
    /\ doing \in [Thread -> {"none", "created", "waiting", "writing",
                             "written", "posting", "exited"}]
    /\ clone \in [Thread -> Version \cup {-1}]
    /\ rejoined \in BOOLEAN

Init ==
    /\ SemInit
    /\ data = 0 /\ mode = "w" /\ async = FALSE
    /\ file = [f \in Files |-> <<>>]
    /\ expected = [f \in Files |-> <<>>]
    /\ calls = 0
    /\ writers = <<>> /\ joined = 0 /\ client = "running" /\ rejoined = FALSE
    /\ job = [t \in Thread |-> NoJob]
    /\ doing = [t \in Thread |-> "none"]
    /\ clone = [t \in Thread |-> -1]

------------------------------------------------------------------------------
(* Writing one file, in either kind of call: put starts a new file, add    *)
(* appends, write does what the option "mode" says when it gets there.     *)

Appends(op) == op = "add" \/ (op = "write" /\ mode # "w")
Written(old, op, v) == IF Appends(op) THEN Append(old, v) ELSE <<v>>

AtWorkOn(f) == \E t \in Thread : job[t] # NoJob /\ job[t].file = f

\* write_dataitem, put_dataitem, add_dataitem with async=off
WriteNow(op, f) ==
    /\ client = "running" /\ ~async /\ calls < MaxCalls
    /\ file' = [file EXCEPT ![f] = Written(@, op, data)]
    /\ expected' = [expected EXCEPT ![f] = Written(@, op, data)]
    /\ calls' = calls + 1
    /\ UNCHANGED <<svars, data, mode, async, writers, joined, client, rejoined, wvars>>

\* the same with async=on: a new thread is created and remembered
WriteLater(op, f) ==
    /\ client = "running" /\ async /\ calls < MaxCalls
    /\ \E t \in Thread :
          /\ doing[t] = "none"
          /\ doing' = [doing EXCEPT ![t] = "created"]
          /\ job' = [job EXCEPT ![t] = [op |-> op, file |-> f]]
          /\ writers' = Append(writers, t)
    /\ expected' = [expected EXCEPT ![f] = Written(@, op, data)]
    /\ calls' = calls + 1
    /\ UNCHANGED <<svars, data, mode, async, file, joined, client, clone, rejoined>>

\* Only these names and values pass the checks of set_option; any other call
\* reports an error and changes nothing.
set_option(m, a) ==
    /\ client = "running"
    /\ mode' = m /\ async' = a
    /\ UNCHANGED <<svars, data, file, expected, calls, writers, joined, client, rejoined, wvars>>

ChangeData ==
    /\ client = "running" /\ data < MaxVersion
    /\ data' = data + 1
    /\ UNCHANGED <<svars, mode, async, file, expected, calls, writers, joined, client, rejoined, wvars>>

------------------------------------------------------------------------------
(* sync and finalize join the threads of _writers one after the other.     *)

BeginJoin(what) ==
    /\ client = "running"
    /\ client' = what /\ joined' = 0
    /\ UNCHANGED <<svars, data, mode, async, file, expected, calls, writers, rejoined, wvars>>

sync == BeginJoin("sync")
finalize == BeginJoin("finalize")

\* pthread_join returns when the thread has exited; its id is free again.
pthread_join ==
    /\ client \in {"sync", "finalize"} /\ joined < Len(writers)
    /\ LET t == writers[joined + 1] IN
          /\ doing[t] \in {"exited", "none"}
          /\ rejoined' = (rejoined \/ doing[t] = "none")
          /\ doing' = [doing EXCEPT ![t] = "none"]
    /\ joined' = joined + 1
    /\ UNCHANGED <<svars, data, mode, async, file, expected, calls, writers, client, job, clone>>

EndSync ==
    /\ client = "sync" /\ joined = Len(writers)
    /\ client' = "running" /\ joined' = 0 /\ writers' = <<>>
    /\ UNCHANGED <<svars, data, mode, async, file, expected, calls, rejoined, wvars>>

\* delete rout: the object whose options the writer threads read is gone
DeleteRocout ==
    /\ client = "finalize" /\ joined = Len(writers)
    /\ client' = "ended"
    /\ UNCHANGED <<svars, data, mode, async, file, expected, calls, writers, joined, rejoined, wvars>>

------------------------------------------------------------------------------
(* write_dataitem_internal in a writer thread.  The result of Wait is not  *)
(* looked at.                                                              *)

Does(t, from, to) == doing[t] = from /\ doing' = [doing EXCEPT ![t] = to]

WriterWaits(t) ==
    /\ Does(t, "created", "waiting")
    /\ Call(t, "wait")
    /\ UNCHANGED <<cvars, file, job, clone>>

WriterClones(t) ==
    /\ at[t] = "out"
    /\ Does(t, "waiting", "writing")
    /\ clone' = [clone EXCEPT ![t] = data]
    /\ UNCHANGED <<svars, cvars, file, job>>

\* Mutant: an appending writer overwrites.
WriterWritesNew(t) ==
    /\ Does(t, "writing", "written")
    /\ file' = [file EXCEPT ![job[t].file] = <<clone[t]>>]
    /\ UNCHANGED <<svars, cvars, job, clone>>
WriterWrites(t) ==
    /\ Does(t, "writing", "written")
    /\ file' = [file EXCEPT ![job[t].file] = Written(@, job[t].op, clone[t])]
    /\ UNCHANGED <<svars, cvars, job, clone>>

\* Mutant: a writer with nothing to append gives no permit back.
WriterPostsSometimes(t) ==
    /\ UNCHANGED <<cvars, file, job, clone>>
    /\ Does(t, "written", "posting")
    /\ IF job[t].op = "add" THEN UNCHANGED svars ELSE Call(t, "post")
WriterPosts(t) ==
    /\ Does(t, "written", "posting")
    /\ Call(t, "post")
    /\ UNCHANGED <<cvars, file, job, clone>>

WriterExits(t) ==
    /\ at[t] = "out"
    /\ Does(t, "posting", "exited")
    /\ clone' = [clone EXCEPT ![t] = -1]
    /\ job' = [job EXCEPT ![t] = NoJob]
    /\ UNCHANGED <<svars, cvars, file>>

SemaphoreStep(t) == Step(t) /\ UNCHANGED <<cvars, file, wvars>>
Spurious(t) == SpuriousWakeup(t) /\ UNCHANGED <<cvars, file, wvars>>

Writer(t) == \/ WriterWaits(t) \/ WriterClones(t) \/ WriterWrites(t)
             \/ WriterPosts(t) \/ WriterExits(t) \/ SemaphoreStep(t)

------------------------------------------------------------------------------
(* A disciplined client changes its data and the options only when it has  *)
(* called sync since its last write, and starts a write to a file only     *)
(* when no thread is at work on that file.                                 *)

ClientCalls(f) == \E op \in Ops : WriteNow(op, f) \/ WriteLater(op, f)
Options == \E m \in {"w", "a"}, a \in BOOLEAN :
              <<m, a>> # <<mode, async>> /\ set_option(m, a)
Joining == sync \/ finalize \/ pthread_join \/ EndSync \/ DeleteRocout

Disciplined == \/ \E f \in Files : ~AtWorkOn(f) /\ ClientCalls(f)
               \/ writers = <<>> /\ (Options \/ ChangeData)

Next == \/ Disciplined
        \/ Joining
        \/ \E t \in Thread : Writer(t) \/ Spurious(t)

\* A thread that is in none of the pthread calls runs on, a thread waiting
\* for a mutex that is free again and again gets it in the end, and the
\* client goes on once the thread it joins has exited.
Fairness ==
    /\ \A t \in Thread : WF_vars(Writer(t)) /\ SF_vars(SemaphoreStep(t))
    /\ WF_vars(pthread_join \/ EndSync \/ DeleteRocout)

Spec == Init /\ [][Next]_vars
FairSpec == Spec /\ Fairness

------------------------------------------------------------------------------
(* Properties *)

\* After sync() the files are what they would be had every call been made
\* with async=off: no write is missing, doubled, or of other data.
SyncedFiles == client = "running" /\ writers = <<>> => file = expected

\* Permits are conserved: those in the semaphore and those of the threads
\* that have got one and not yet given it back are MAX_ASYNC_WRITES, so at
\* most that many writers clone and write at a time and Post never fails.
Holding == {t \in Thread : \/ doing[t] = "waiting" /\ at[t] \in {"ret_true", "out"}
                           \/ doing[t] \in {"writing", "written"}
                           \/ doing[t] = "posting" /\ at[t] \in {"post", "in_post"}}
PermitsConserved == m_count + Cardinality(Holding) = MaxCount

\* A thread is joined once, and no writer runs after `delete rout`: the
\* threads read _options of that object until they have written.
JoinedOnce == ~rejoined /\ (client = "ended" => \A t \in Thread : doing[t] = "none")

\* Permits and threads are accounted for at all times: no permit is lost or
\* made up, no thread is joined twice or outlives the object it works for.
ThreadsAccounted == TypeOK /\ PermitsConserved /\ JoinedOnce

\* sync() returns: writers that wait for permits, and the client that waits
\* for the writers, do not wait for each other for ever.
SyncReturns == (client = "sync") ~> (client = "running")
==============================================================================
