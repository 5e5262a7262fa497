-------------------------- MODULE RocoutAsyncProofs ---------------------------
(***************************************************************************)
(* Proofs about the class Semaphore of SimIO, for any finite set of        *)
(* threads, any maximum and any initial count, and about the asynchronous  *)
(* output that is built on it: permits and threads are accounted for, and  *)
(* after sync the files are what synchronous calls would have written, for *)
(* any number of threads, permits, files and calls.                        *)
(***************************************************************************)
EXTENDS RocoutAsync, FiniteSetTheorems, TLAPS

-------------------------------------------------------------------------------
(* The semaphore.  Its inductive invariant is the conjunction of the four      *)
(* invariants: which thread holds the mutex shows who may touch the count, and *)
(* the count of woken threads shows that a signal is never lost.               *)

SemInv == SemTypeOK /\ MutualExclusion /\ CountBounded /\ NoLostWakeup

\* The constructor establishes the invariant.
LEMMA SemInitInv == SemInit => SemInv
  <1> SUFFICES ASSUME SemInit PROVE SemInv
    OBVIOUS
  <1>1. SemTypeOK /\ MutualExclusion /\ CountBounded
    BY SemaphoreAssumption
       DEF SemInit, SemTypeOK, MutualExclusion, CountBounded, Locations, Critical
  <1>2. asleep = {}
    BY DEF SemInit, asleep
  <1> QED
    BY <1>1, <1>2 DEF SemInv, NoLostWakeup

\* A step keeps the types: the count does not fall below zero.
LEMMA SemTypeStep == SemTypeOK /\ [SemNext]_svars => SemTypeOK'
  <1> SUFFICES ASSUME SemTypeOK, [SemNext]_svars PROVE SemTypeOK'
    OBVIOUS
  <1> USE SemaphoreAssumption DEF SemTypeOK, Locations, Goto
  <1>1. ASSUME NEW t \in Thread, NEW op \in {"wait", "try", "post"}, Call(t, op)
        PROVE  SemTypeOK'
    BY <1>1 DEF Call
  <1>2. ASSUME NEW t \in Thread, Lock(t) PROVE SemTypeOK'
    BY <1>2 DEF Lock
  <1>3. ASSUME NEW t \in Thread, Unlock(t) PROVE SemTypeOK'
    BY <1>3 DEF Unlock
  <1>4. ASSUME NEW t \in Thread, WaitBody(t) PROVE SemTypeOK'
    BY <1>4 DEF WaitBody
  <1>5. ASSUME NEW t \in Thread, TryWaitBody(t) PROVE SemTypeOK'
    BY <1>5 DEF TryWaitBody
  <1>6. ASSUME NEW t \in Thread, PostBody(t) PROVE SemTypeOK'
    BY <1>6 DEF PostBody, asleep
  <1>7. ASSUME NEW t \in Thread, SpuriousWakeup(t) PROVE SemTypeOK'
    BY <1>7 DEF SpuriousWakeup
  <1>8. CASE UNCHANGED svars
    BY <1>8 DEF svars
  <1> QED
    BY <1>1, <1>2, <1>3, <1>4, <1>5, <1>6, <1>7, <1>8 DEF SemNext, Step

\* A step keeps the mutex with the one thread between lock and unlock.
LEMMA SemMutexStep == SemTypeOK /\ MutualExclusion /\ [SemNext]_svars => MutualExclusion'
  <1> SUFFICES ASSUME SemTypeOK, MutualExclusion, [SemNext]_svars PROVE MutualExclusion'
    OBVIOUS
  <1> USE SemaphoreAssumption DEF SemTypeOK, MutualExclusion, Critical, Locations, Goto
  <1>1. ASSUME NEW t \in Thread, NEW op \in {"wait", "try", "post"}, Call(t, op)
        PROVE  MutualExclusion'
    BY <1>1 DEF Call
  <1>2. ASSUME NEW t \in Thread, Lock(t) PROVE MutualExclusion'
    BY <1>2 DEF Lock
  <1>3. ASSUME NEW t \in Thread, Unlock(t) PROVE MutualExclusion'
    BY <1>3 DEF Unlock
  <1>4. ASSUME NEW t \in Thread, WaitBody(t) PROVE MutualExclusion'
    BY <1>4 DEF WaitBody
  <1>5. ASSUME NEW t \in Thread, TryWaitBody(t) PROVE MutualExclusion'
    BY <1>5 DEF TryWaitBody
  <1>6. ASSUME NEW t \in Thread, PostBody(t) PROVE MutualExclusion'
    BY <1>6 DEF PostBody, asleep
  <1>7. ASSUME NEW t \in Thread, SpuriousWakeup(t) PROVE MutualExclusion'
    BY <1>7 DEF SpuriousWakeup
  <1>8. CASE UNCHANGED svars
    BY <1>8 DEF svars
  <1> QED
    BY <1>1, <1>2, <1>3, <1>4, <1>5, <1>6, <1>7, <1>8 DEF SemNext, Step

\* A step keeps the count within the maximum.
LEMMA SemCountStep == SemTypeOK /\ CountBounded /\ [SemNext]_svars => CountBounded'
  <1> SUFFICES ASSUME SemTypeOK, CountBounded, [SemNext]_svars PROVE CountBounded'
    OBVIOUS
  <1> USE SemaphoreAssumption DEF SemTypeOK, CountBounded
  <1>1. CASE UNCHANGED m_count
    BY <1>1
  <1>2. ASSUME m_count' = m_count - 1 PROVE CountBounded'
    BY <1>2
  <1>3. ASSUME ~(MaxCount > 0 /\ m_count = MaxCount), m_count' = m_count + 1
        PROVE  CountBounded'
    BY <1>3
  <1> QED
    BY <1>1, <1>2, <1>3 DEF SemNext, Step, Call, Lock, Unlock, WaitBody, TryWaitBody,
       PostBody, SpuriousWakeup, svars

\* The threads that will test the count, when one of them is added, taken
\* away, or none changes.
LEMMA ComingFinite ==
    ASSUME SemTypeOK
    PROVE  IsFiniteSet(coming) /\ Cardinality(coming) \in Nat
  BY SemaphoreAssumption, FS_Subset, FS_CardinalityType DEF coming

LEMMA ComingGrows ==
    ASSUME SemTypeOK, NEW s \in Thread, s \notin coming, coming' = coming \cup {s}
    PROVE  Cardinality(coming') = Cardinality(coming) + 1
  BY ComingFinite, FS_AddElement

LEMMA ComingShrinks ==
    ASSUME SemTypeOK, NEW s \in Thread, s \in coming, coming' = coming \ {s}
    PROVE  Cardinality(coming') = Cardinality(coming) - 1
  BY ComingFinite, FS_RemoveElement

\* A step loses no wake-up: whoever takes a permit leaves the threads that
\* test the count, and whoever adds one while threads sleep wakes a sleeper.
LEMMA SemWakeupStep ==
    SemTypeOK /\ MutualExclusion /\ NoLostWakeup /\ [SemNext]_svars => NoLostWakeup'
  <1> SUFFICES ASSUME SemTypeOK, MutualExclusion, NoLostWakeup, [SemNext]_svars
               PROVE  NoLostWakeup'
    OBVIOUS
  <1>0. SemTypeOK' /\ m_count \in Nat /\ Cardinality(coming) \in Nat
    BY SemTypeStep, ComingFinite DEF SemTypeOK
  <1>a. ASSUME UNCHANGED <<asleep, coming>>, m_count' = m_count \/ m_count' = m_count - 1
        PROVE  NoLostWakeup'
    BY <1>a, <1>0 DEF NoLostWakeup
  <1>1. ASSUME NEW t \in Thread, NEW op \in {"wait", "try", "post"}, Call(t, op)
        PROVE  NoLostWakeup'
    <2>1. UNCHANGED <<asleep, coming>>
      BY <1>1 DEF Call, Goto, asleep, coming, SemTypeOK
    <2> QED
      BY <1>a, <1>1, <2>1 DEF Call
  <1>2. ASSUME NEW t \in Thread, Lock(t) PROVE NoLostWakeup'
    <2>1. asleep' = asleep /\ m_count' = m_count
      BY <1>2 DEF Lock, Goto, asleep, SemTypeOK
    <2>2. CASE at[t] = "wait"
      <3>1. t \notin coming /\ coming' = coming \cup {t}
        BY <1>2, <2>2 DEF Lock, Goto, coming, SemTypeOK
      <3> QED
        BY <3>1, <2>1, <1>0, ComingGrows DEF NoLostWakeup
    <2>3. CASE at[t] # "wait"
      <3>1. coming' = coming
        BY <1>2, <2>3 DEF Lock, Goto, coming, SemTypeOK
      <3> QED
        BY <3>1, <2>1, <1>a
    <2> QED
      BY <2>2, <2>3
  <1>3. ASSUME NEW t \in Thread, Unlock(t) PROVE NoLostWakeup'
    <2>1. UNCHANGED <<asleep, coming>>
      BY <1>3 DEF Unlock, Goto, asleep, coming, SemTypeOK
    <2> QED
      BY <1>a, <1>3, <2>1 DEF Unlock
  <1>4. ASSUME NEW t \in Thread, WaitBody(t) PROVE NoLostWakeup'
    <2>1. CASE m_count = 0
      <3>1. m_count' = 0
        BY <1>4, <2>1 DEF WaitBody
      <3>2. Cardinality(coming)' \in Nat
        BY SemaphoreAssumption, <1>0, FS_Subset, FS_CardinalityType DEF coming
      <3> QED
        BY <3>1, <3>2 DEF NoLostWakeup
    <2>2. CASE m_count # 0
      <3>1. m_count' = m_count - 1 /\ asleep' = asleep
        BY <1>4, <2>2 DEF WaitBody, Goto, asleep, SemTypeOK
      <3>2. t \in coming /\ coming' = coming \ {t}
        BY <1>4, <2>2 DEF WaitBody, Goto, coming, SemTypeOK
      <3> QED
        BY <3>1, <3>2, <1>0, ComingShrinks DEF NoLostWakeup
    <2> QED
      BY <2>1, <2>2
  <1>5. ASSUME NEW t \in Thread, TryWaitBody(t) PROVE NoLostWakeup'
    <2>1. UNCHANGED <<asleep, coming>>
      BY <1>5 DEF TryWaitBody, Goto, asleep, coming, SemTypeOK
    <2> QED
      BY <1>a, <1>5, <2>1 DEF TryWaitBody
  <1>6. ASSUME NEW t \in Thread, PostBody(t) PROVE NoLostWakeup'
    <2>1. CASE asleep = {}
      <3>1. asleep' = {}
        BY <1>6, <2>1 DEF PostBody, Goto, asleep, SemTypeOK
      <3> QED
        BY <3>1 DEF NoLostWakeup
    <2>2. CASE asleep # {} /\ m_count' = m_count
      <3>1. UNCHANGED <<asleep, coming>>
        BY <1>6, <2>2, <1>0 DEF PostBody, Goto, asleep, coming, SemTypeOK
      <3> QED
        BY <3>1, <2>2, <1>a
    <2>3. CASE asleep # {} /\ m_count' # m_count
      <3>1. PICK s \in asleep : /\ m_count' = m_count + 1
                                /\ at' = [at EXCEPT ![t] = "ret_true", ![s] = "woken"]
        BY <1>6, <2>3 DEF PostBody
      <3>2. s \in Thread /\ s \notin coming /\ coming' = coming \cup {s}
        BY <1>6, <3>1 DEF PostBody, asleep, coming, SemTypeOK
      <3>3. Cardinality(coming') = Cardinality(coming) + 1
        BY <3>2, ComingGrows
      <3>4. m_count <= Cardinality(coming)
        BY <2>3 DEF NoLostWakeup
      <3>5. m_count' <= Cardinality(coming')
        BY <3>1, <3>3, <3>4, <1>0
      <3> QED
        BY <3>5 DEF NoLostWakeup
    <2> QED
      BY <2>1, <2>2, <2>3
  <1>7. ASSUME NEW t \in Thread, SpuriousWakeup(t) PROVE NoLostWakeup'
    <2>1. t \in asleep /\ t \notin coming /\ coming' = coming \cup {t} /\ m_count' = m_count
      BY <1>7 DEF SpuriousWakeup, Goto, asleep, coming, SemTypeOK
    <2>2. Cardinality(coming') = Cardinality(coming) + 1
      BY <2>1, ComingGrows
    <2>3. m_count <= Cardinality(coming)
      BY <2>1 DEF NoLostWakeup
    <2>4. m_count' <= Cardinality(coming')
      BY <2>1, <2>2, <2>3, <1>0
    <2> QED
      BY <2>4 DEF NoLostWakeup
  <1>8. CASE UNCHANGED svars
    BY <1>8, <1>a DEF svars, asleep, coming
  <1> QED
    BY <1>1, <1>2, <1>3, <1>4, <1>5, <1>6, <1>7, <1>8 DEF SemNext, Step

\* The invariant holds in every state.
LEMMA SemInvariant == SemSpec => []SemInv
  <1>1. SemInv /\ [SemNext]_svars => SemInv'
    BY SemTypeStep, SemMutexStep, SemCountStep, SemWakeupStep DEF SemInv
  <1> QED
    BY SemInitInv, <1>1, PTL DEF SemSpec

\* Every variable keeps its type; in particular the unsigned m_count never
\* wraps below zero in Wait and TryWait.
THEOREM SemaphoreTypeOK == SemSpec => []SemTypeOK
  <1>1. SemInv => SemTypeOK
    BY DEF SemInv
  <1> QED
    BY SemInvariant, <1>1, PTL

\* At most one thread is between lock and unlock, pthread_cond_wait included.
THEOREM SemaphoreMutualExclusion == SemSpec => []MutualExclusion
  <1>1. SemInv => MutualExclusion
    BY DEF SemInv
  <1> QED
    BY SemInvariant, <1>1, PTL

\* Post never raises the count above the maximum.
THEOREM SemaphoreCountBounded == SemSpec => []CountBounded
  <1>1. SemInv => CountBounded
    BY DEF SemInv
  <1> QED
    BY SemInvariant, <1>1, PTL

\* One pthread_cond_signal per Post is enough: a permit never lies idle
\* while every thread that could take it sleeps.
THEOREM SemaphoreNoLostWakeup == SemSpec => []NoLostWakeup
  <1>1. SemInv => NoLostWakeup
    BY DEF SemInv
  <1> QED
    BY SemInvariant, <1>1, PTL

------------------------------------------------------------------------------
(* Refinement.  The location of a thread determines its request, and a     *)
(* step that moves one or two threads changes at most one request.         *)

LEMMA AskedValues ==
    /\ \A l \in {"wait", "in_wait", "asleep", "woken"} : Asked(l) = "wait"
    /\ \A l \in {"try", "in_try"} : Asked(l) = "try"
    /\ \A l \in {"post", "in_post"} : Asked(l) = "post"
    /\ Asked("ret_true") = "yes" /\ Asked("ret_false") = "no" /\ Asked("out") = "none"
  BY DEF Asked

LEMMA OneRequestChanges ==
    ASSUME SemTypeOK, NEW t \in Thread, NEW l \in Locations, Goto(t, l)
    PROVE  Requests' = [Requests EXCEPT ![t] = Asked(l)]
  <1>1. \A s \in Thread : at'[s] = IF s = t THEN l ELSE at[s]
    BY DEF Goto, SemTypeOK
  <1> QED
    BY <1>1 DEF Requests

LEMMA SameRequests ==
    ASSUME SemTypeOK, NEW t \in Thread, NEW l \in Locations, Goto(t, l), Asked(l) = Asked(at[t])
    PROVE  Requests' = Requests
  <1>1. \A s \in Thread : at'[s] = IF s = t THEN l ELSE at[s]
    BY DEF Goto, SemTypeOK
  <1> QED
    BY <1>1 DEF Requests

\* Every step of the threads is a step of the counting semaphore or changes
\* nothing there.
LEMMA SemStepRefines ==
    SemTypeOK /\ [SemNext]_svars => [Abstract!SNext]_(Abstract!svars)
  <1> SUFFICES ASSUME SemTypeOK, [SemNext]_svars
               PROVE  Abstract!SNext \/ UNCHANGED <<m_count, Requests>>
    BY DEF Abstract!svars
  <1>0. m_count \in Nat /\ at \in [Thread -> Locations] /\ MaxCount \in Nat
    BY SemaphoreAssumption DEF SemTypeOK
  <1>r. \A t \in Thread : Requests[t] = Asked(at[t])
    BY DEF Requests
  <1>1. ASSUME NEW t \in Thread, NEW op \in {"wait", "try", "post"}, Call(t, op)
        PROVE  Abstract!Ask(t)
    <2>1. Requests[t] = "none" /\ Asked(op) = op
      BY <1>1, <1>r, AskedValues DEF Call
    <2>2. Requests' = [Requests EXCEPT ![t] = op]
      BY <1>1, <2>1, OneRequestChanges DEF Call, Locations
    <2> QED
      BY <1>1, <2>1, <2>2 DEF Call, Abstract!Ask
  <1>2. ASSUME NEW t \in Thread, Lock(t) PROVE UNCHANGED <<m_count, Requests>>
    <2>1. PICK l \in Locations : Goto(t, l) /\ Asked(l) = Asked(at[t])
      BY <1>2, AskedValues DEF Lock, Locations
    <2> QED
      BY <1>2, <2>1, SameRequests DEF Lock
  <1>3. ASSUME NEW t \in Thread, Unlock(t) PROVE Abstract!Return(t)
    <2>1. Requests[t] \in {"yes", "no"} /\ Requests' = [Requests EXCEPT ![t] = "none"]
      BY <1>3, <1>r, AskedValues, OneRequestChanges DEF Unlock, Locations
    <2> QED
      BY <1>3, <2>1 DEF Unlock, Abstract!Return, Abstract!Answer
  <1>4. ASSUME NEW t \in Thread, WaitBody(t)
        PROVE  Abstract!SNext \/ UNCHANGED <<m_count, Requests>>
    <2>1. at[t] = "in_wait" /\ Requests[t] = "wait"
      BY <1>4, <1>r, AskedValues DEF WaitBody
    <2>2. CASE m_count # 0 /\ m_count' = m_count - 1 /\ Goto(t, "ret_true")
      <3>1. Requests' = [Requests EXCEPT ![t] = "yes"]
        BY <2>2, AskedValues, OneRequestChanges DEF Locations
      <3>2. Abstract!Take(t)
        BY <2>1, <2>2, <3>1, <1>0 DEF Abstract!Take, Abstract!Answer
      <3> QED
        BY <3>2 DEF Abstract!SNext
    <2>3. CASE Goto(t, "asleep") /\ UNCHANGED m_count
      BY <2>1, <2>3, AskedValues, SameRequests DEF Locations
    <2>4. CASE m_count = 0 /\ CondMayFail /\ Goto(t, "ret_false") /\ UNCHANGED m_count
      <3>1. Requests' = [Requests EXCEPT ![t] = "no"]
        BY <2>4, AskedValues, OneRequestChanges DEF Locations
      <3>2. Abstract!Refuse(t)
        BY <2>1, <2>4, <3>1 DEF Abstract!Refuse, Abstract!Answer
      <3> QED
        BY <3>2 DEF Abstract!SNext
    <2> QED
      BY <1>4, <2>2, <2>3, <2>4 DEF WaitBody
  <1>5. ASSUME NEW t \in Thread, TryWaitBody(t) PROVE Abstract!Take(t) \/ Abstract!Refuse(t)
    <2>1. at[t] = "in_try" /\ Requests[t] = "try"
      BY <1>5, <1>r, AskedValues DEF TryWaitBody
    <2>2. CASE m_count = 0 /\ Goto(t, "ret_false") /\ UNCHANGED m_count
      <3>1. Requests' = [Requests EXCEPT ![t] = "no"]
        BY <2>2, AskedValues, OneRequestChanges DEF Locations
      <3> QED
        BY <2>1, <2>2, <3>1 DEF Abstract!Refuse, Abstract!Answer
    <2>3. CASE m_count # 0 /\ m_count' = m_count - 1 /\ Goto(t, "ret_true")
      <3>1. Requests' = [Requests EXCEPT ![t] = "yes"]
        BY <2>3, AskedValues, OneRequestChanges DEF Locations
      <3> QED
        BY <2>1, <2>3, <3>1, <1>0 DEF Abstract!Take, Abstract!Answer
    <2> QED
      BY <1>5, <2>2, <2>3 DEF TryWaitBody
  <1>6. ASSUME NEW t \in Thread, PostBody(t) PROVE Abstract!Give(t) \/ Abstract!Refuse(t)
    <2>1. at[t] = "in_post" /\ Requests[t] = "post"
      BY <1>6, <1>r, AskedValues DEF PostBody
    <2>2. CASE MaxCount > 0 /\ m_count = MaxCount /\ Goto(t, "ret_false") /\ UNCHANGED m_count
      <3>1. Requests' = [Requests EXCEPT ![t] = "no"]
        BY <2>2, AskedValues, OneRequestChanges DEF Locations
      <3> QED
        BY <2>1, <2>2, <3>1 DEF Abstract!Refuse, Abstract!Answer, Abstract!Full
    <2>3. ASSUME ~(MaxCount > 0 /\ m_count = MaxCount), m_count' = m_count + 1,
                 Goto(t, "ret_true") \/
                 \E s \in asleep : at' = [at EXCEPT ![t] = "ret_true", ![s] = "woken"]
          PROVE  Abstract!Give(t)
      <3>1. CASE Goto(t, "ret_true")
        BY <3>1, AskedValues, OneRequestChanges, <2>1, <2>3
           DEF Locations, Abstract!Give, Abstract!Answer, Abstract!Full
      <3>2. ASSUME NEW s \in asleep, at' = [at EXCEPT ![t] = "ret_true", ![s] = "woken"]
            PROVE  Abstract!Give(t)
        <4>1. s \in Thread /\ s # t /\ at[s] = "asleep"
          BY <2>1 DEF asleep
        <4>2. \A u \in Thread : at'[u] = IF u = t THEN "ret_true"
                                         ELSE IF u = s THEN "woken" ELSE at[u]
          BY <3>2, <4>1, <1>0
        <4>3. \A u \in Thread : Asked(at'[u]) = IF u = t THEN "yes" ELSE Asked(at[u])
          BY <4>1, <4>2, AskedValues
        <4>4. Requests' = [Requests EXCEPT ![t] = "yes"]
          BY <4>3 DEF Requests
        <4> QED
          BY <4>4, <2>1, <2>3 DEF Abstract!Give, Abstract!Answer, Abstract!Full
      <3> QED
        BY <3>1, <3>2, <2>3
    <2> QED
      BY <1>6, <2>2, <2>3 DEF PostBody
  <1>7. ASSUME NEW t \in Thread, SpuriousWakeup(t) PROVE UNCHANGED <<m_count, Requests>>
    BY <1>7, AskedValues, SameRequests DEF SpuriousWakeup, Locations
  <1>8. CASE UNCHANGED svars
    BY <1>8 DEF svars, Requests
  <1> QED
    BY <1>1, <1>2, <1>3, <1>4, <1>5, <1>6, <1>7, <1>8 DEF SemNext, Step, Abstract!SNext

\* Wait, TryWait and Post of the class Semaphore are the operations of a
\* counting semaphore, for any number of threads: the refinement that the run
\* checks on four of them.
THEOREM SemaphoreImplementsCounting == SemSpec => ImplementsCounting
  <1>1. SemInit => Abstract!SInit
    BY AskedValues DEF SemInit, Abstract!SInit, Requests
  <1> QED
    BY <1>1, SemStepRefines, SemaphoreTypeOK, PTL
       DEF SemSpec, ImplementsCounting, Abstract!SSpec

-------------------------------------------------------------------------------
(* Asynchronous output                                                         *)

Unwritten == {"created", "waiting", "writing"}

\* Where a writer thread is in the semaphore, by what it is doing
Link ==
    \A t \in Thread :
        /\ doing[t] \in {"none", "created", "writing", "written", "exited"} => at[t] = "out"
        /\ doing[t] = "waiting" => at[t] \in {"wait", "in_wait", "asleep", "woken", "ret_true", "out"}
        /\ doing[t] = "posting" => at[t] \in {"post", "in_post", "ret_true", "out"}

\* The threads not joined yet are the last ones of _writers, each once.
Threads ==
    /\ client = "running" => joined = 0
    /\ client = "ended" => joined = Len(writers)
    /\ \A i, j \in 1..Len(writers) : writers[i] = writers[j] => i = j
    /\ \A i \in 1..joined : doing[writers[i]] = "none"
    /\ \A i \in (joined + 1)..Len(writers) : doing[writers[i]] # "none"
    /\ \A t \in Thread : doing[t] # "none" => \E i \in 1..Len(writers) : writers[i] = t
    /\ ~rejoined

\* A thread has a job until it exits, and no other thread has one for its file.
Jobs ==
    /\ \A t \in Thread : job[t] = NoJob <=> doing[t] \in {"none", "exited"}
    /\ \A t, u \in Thread : job[t] # NoJob /\ job[u] # NoJob /\ job[t].file = job[u].file => t = u
    /\ \A t \in Thread : doing[t] = "writing" => clone[t] = data

\* A file lacks exactly the write of the thread that has yet to write it.
Lacking ==
    /\ \A t \in Thread : doing[t] \in Unwritten =>
          expected[job[t].file] = Written(file[job[t].file], job[t].op, data)
    /\ \A f \in Files : (\A t \in Thread : doing[t] \in Unwritten => job[t].file # f)
          => expected[f] = file[f]

AsyncInv == TypeOK /\ Link /\ Threads /\ Jobs /\ Lacking /\ PermitsConserved

------------------------------------------------------------------------------
LEMMA AsyncInit == Init => AsyncInv
<1> SUFFICES ASSUME Init PROVE AsyncInv
  OBVIOUS
<1>1. SemTypeOK
  BY SemInitInv, Zenon DEF SemInv, Init
<1> USE RocoutAssumption, SemaphoreAssumption DEF Init
<1>2. TypeOK
  <2>1. 0 \in Version /\ <<>> \in Contents /\ <<>> \in Seq(Thread) /\ Len(<<>>) = 0
    BY DEF Version, Contents
  <2>2. /\ file \in [Files -> Contents] /\ expected \in [Files -> Contents]
        /\ job \in [Thread -> [op: Ops, file: Files] \cup {NoJob}]
        /\ doing \in [Thread -> {"none", "created", "waiting", "writing",
                                 "written", "posting", "exited"}]
        /\ clone \in [Thread -> Version \cup {-1}]
    BY <2>1
  <2>3. writers \in Seq(Thread) /\ joined \in 0..Len(writers) /\ calls \in 0..MaxCalls
    <3>1. writers = <<>> /\ joined = 0 /\ calls = 0
      OBVIOUS
    <3> QED
      BY <2>1, <3>1
  <2>4. /\ data \in Version /\ mode \in {"w", "a"} /\ async \in BOOLEAN
        /\ client \in {"running", "sync", "finalize", "ended"} /\ rejoined \in BOOLEAN
    BY <2>1
  <2> QED
    BY <1>1, <2>2, <2>3, <2>4, Zenon DEF TypeOK
<1>3. Link
  BY DEF Link, SemInit
<1>4. Threads /\ Jobs
  BY DEF Threads, Jobs
<1>5. Lacking
  BY DEF Lacking, Unwritten
<1>6. PermitsConserved
  <2>1. Holding = {}
    BY DEF Holding
  <2> QED
    BY <2>1, FS_EmptySet DEF PermitsConserved, SemInit
<1> QED
  BY <1>2, <1>3, <1>4, <1>5, <1>6 DEF AsyncInv

\* A write makes contents of versions.
LEMMA WrittenType ==
    ASSUME NEW old \in Contents, NEW op, NEW v \in Version
    PROVE  Written(old, op, v) \in Contents
  BY DEF Written, Contents

\* The permits are kept when nobody takes or gives one.
LEMMA PermitsKept ==
    ASSUME PermitsConserved, UNCHANGED <<m_count, Holding>>
    PROVE  PermitsConserved'
  BY DEF PermitsConserved

\* Client calls that do not touch the threads leave the semaphore's side alone.
LEMMA WritersKept ==
    ASSUME AsyncInv, UNCHANGED <<svars, wvars>>
    PROVE  /\ SemTypeOK' /\ Link' /\ PermitsConserved'
           /\ \A t \in Thread : job'[t] = job[t] /\ doing'[t] = doing[t] /\ clone'[t] = clone[t]
<1>1. SemTypeOK' /\ Link'
  BY DEF AsyncInv, TypeOK, SemTypeOK, Link, svars, wvars
<1>2. PermitsConserved'
  BY DEF AsyncInv, PermitsConserved, Holding, svars, wvars
<1> QED
  BY <1>1, <1>2 DEF wvars

LEMMA AsyncOfWriteNow ==
    ASSUME AsyncInv, NEW op \in Ops, NEW f \in Files, WriteNow(op, f), ~AtWorkOn(f)
    PROVE  AsyncInv'
<1>1. /\ file' = [file EXCEPT ![f] = Written(file[f], op, data)]
      /\ expected' = [expected EXCEPT ![f] = Written(expected[f], op, data)]
      /\ calls < MaxCalls /\ calls' = calls + 1
      /\ UNCHANGED <<svars, data, mode, async, writers, joined, client, rejoined, wvars>>
  BY DEF WriteNow
<1>2. /\ data \in Version /\ file \in [Files -> Contents] /\ expected \in [Files -> Contents]
  BY DEF AsyncInv, TypeOK
<1>3. \A t \in Thread : doing[t] \in Unwritten => job[t].file # f
  BY DEF AsyncInv, Jobs, Unwritten, AtWorkOn
<1>4. expected[f] = file[f]
  BY <1>3 DEF AsyncInv, Lacking
<1>5. TypeOK'
  <2>1. file' \in [Files -> Contents] /\ expected' \in [Files -> Contents]
    BY <1>1, <1>2, WrittenType
  <2>2. calls' \in 0..MaxCalls
    BY <1>1, RocoutAssumption DEF AsyncInv, TypeOK
  <2> QED
    BY <1>1, <2>1, <2>2, WritersKept DEF AsyncInv, TypeOK, wvars
<1>6. Threads' /\ Jobs'
  BY <1>1 DEF AsyncInv, Threads, Jobs, wvars
<1>7. Lacking'
  <2>1. \A g \in Files : g # f => file'[g] = file[g] /\ expected'[g] = expected[g]
    BY <1>1, <1>2
  <2>2. file'[f] = expected'[f]
    BY <1>1, <1>2, <1>4
  <2>4. ASSUME NEW t \in Thread, doing[t] \in Unwritten
        PROVE  expected'[job[t].file] = Written(file'[job[t].file], job[t].op, data)
    <3>1. job[t].file \in Files /\ job[t].file # f
      BY <1>3, <2>4 DEF AsyncInv, TypeOK, Jobs, Unwritten
    <3> QED
      BY <2>1, <2>4, <3>1 DEF AsyncInv, Lacking
  <2>5. ASSUME NEW t \in Thread, doing'[t] \in Unwritten
        PROVE  expected'[job'[t].file] = Written(file[job[t].file], job[t].op, data)'
    BY <1>1, <2>4, <2>5 DEF Written, Appends, wvars
  <2>6. \A g \in Files : (\A t \in Thread : doing'[t] \in Unwritten => job'[t].file # g)
           => expected'[g] = file'[g]
    BY <1>1, <2>1, <2>2 DEF AsyncInv, Lacking, wvars
  <2> QED
    BY <2>5, <2>6 DEF Lacking
<1> QED
  BY <1>1, <1>5, <1>6, <1>7, WritersKept DEF AsyncInv

LEMMA AsyncOfOptions ==
    ASSUME AsyncInv, writers = <<>>, Options \/ ChangeData PROVE AsyncInv'
<1>1. /\ mode' \in {"w", "a"} /\ async' \in BOOLEAN /\ data' \in Version
      /\ UNCHANGED <<svars, file, expected, calls, writers, joined, client, rejoined, wvars>>
  BY RocoutAssumption DEF Options, set_option, ChangeData, AsyncInv, TypeOK, Version
<1>2. \A t \in Thread : doing[t] = "none"
  BY DEF AsyncInv, Threads
<1>3. TypeOK'
  BY <1>1, WritersKept DEF AsyncInv, TypeOK, wvars
<1>4. Threads'
  BY <1>1 DEF AsyncInv, Threads, wvars
<1>5. Jobs'
  BY <1>1, <1>2 DEF AsyncInv, Jobs, wvars
<1>6. Lacking'
  BY <1>1, <1>2 DEF AsyncInv, Lacking, Unwritten, wvars
<1> QED
  BY <1>1, <1>3, <1>4, <1>5, <1>6, WritersKept DEF AsyncInv

\* Steps that leave the data and the files alone keep what the files lack.
LEMMA FilesKept ==
    ASSUME AsyncInv, UNCHANGED <<data, mode, file, expected, wvars>>
    PROVE  Jobs' /\ Lacking'
  BY DEF AsyncInv, Jobs, Lacking, Written, Appends, wvars

LEMMA AsyncOfJoinEnds ==
    ASSUME AsyncInv, sync \/ finalize \/ EndSync \/ DeleteRocout PROVE AsyncInv'
<1>1. UNCHANGED <<svars, data, mode, async, file, expected, calls, rejoined, wvars>>
  BY DEF sync, finalize, BeginJoin, EndSync, DeleteRocout
<1>2. writers \in Seq(Thread) /\ joined \in 0..Len(writers)
  BY DEF AsyncInv, TypeOK
<1>3. /\ writers' \in Seq(Thread) /\ joined' \in 0..Len(writers')
      /\ client' \in {"running", "sync", "finalize", "ended"}
  <2>1. CASE sync \/ finalize
    BY <1>2, <2>1 DEF sync, finalize, BeginJoin
  <2>2. CASE EndSync
    <3>1. writers' = <<>> /\ joined' = 0 /\ client' = "running"
      BY <2>2 DEF EndSync
    <3>2. <<>> \in Seq(Thread) /\ Len(<<>>) = 0
      OBVIOUS
    <3> QED
      BY <3>1, <3>2
  <2>3. CASE DeleteRocout
    BY <1>2, <2>3 DEF DeleteRocout
  <2> QED
    BY <2>1, <2>2, <2>3
<1>4. TypeOK'
  BY <1>1, <1>3, WritersKept DEF AsyncInv, TypeOK, wvars
<1>5. Threads'
  <2>1. CASE sync \/ finalize
    <3>1. client = "running" /\ client' \in {"sync", "finalize"} /\ joined' = 0 /\ writers' = writers
      BY <2>1 DEF sync, finalize, BeginJoin
    <3> QED
      BY <1>1, <3>1 DEF AsyncInv, Threads, wvars
  <2>2. CASE EndSync
    <3>1. joined = Len(writers) /\ joined' = 0 /\ writers' = <<>> /\ client' = "running"
      BY <2>2 DEF EndSync
    <3>2. \A t \in Thread : doing[t] = "none"
      BY <1>2, <3>1 DEF AsyncInv, Threads
    <3> QED
      BY <1>1, <3>1, <3>2 DEF AsyncInv, Threads, wvars
  <2>3. CASE DeleteRocout
    BY <1>1, <2>3 DEF AsyncInv, Threads, wvars, DeleteRocout
  <2> QED
    BY <2>1, <2>2, <2>3
<1> QED
  BY <1>1, <1>4, <1>5, FilesKept, WritersKept DEF AsyncInv

LEMMA AsyncOfPthreadJoin ==
    ASSUME AsyncInv, pthread_join PROVE AsyncInv'
<1> DEFINE n == Len(writers)
           t == writers[joined + 1]
<1>1. /\ client \in {"sync", "finalize"} /\ joined < n /\ joined' = joined + 1
      /\ doing[t] \in {"exited", "none"} /\ rejoined' = (rejoined \/ doing[t] = "none")
      /\ doing' = [doing EXCEPT ![t] = "none"]
      /\ UNCHANGED <<svars, data, mode, async, file, expected, calls, writers, client, job, clone>>
  BY DEF pthread_join
<1>2. /\ writers \in Seq(Thread) /\ n \in Nat /\ joined \in 0..n
      /\ doing \in [Thread -> {"none", "created", "waiting", "writing", "written", "posting", "exited"}]
  BY DEF AsyncInv, TypeOK
<1>3. joined + 1 \in 1..n /\ t \in Thread
  BY <1>1, <1>2
<1>4. doing[t] = "exited" /\ rejoined' = FALSE
  <2>1. joined + 1 \in (joined + 1)..Len(writers)
    BY <1>2, <1>3
  <2>2. doing[writers[joined + 1]] # "none" /\ ~rejoined /\ rejoined \in BOOLEAN
    BY <2>1 DEF AsyncInv, Threads, TypeOK
  <2> QED
    BY <1>1, <2>2
<1> HIDE DEF t, n
<1>5. \A u \in Thread : doing'[u] = IF u = t THEN "none" ELSE doing[u]
  BY <1>1, <1>2
<1>6. TypeOK'
  <2>1. SemTypeOK'
    BY <1>1 DEF AsyncInv, TypeOK, SemTypeOK, svars
  <2>2. doing' \in [Thread -> {"none", "created", "waiting", "writing", "written", "posting", "exited"}]
    BY <1>1, <1>2
  <2>3. joined' \in 0..Len(writers')
    BY <1>1, <1>2, <1>3 DEF n
  <2> QED
    BY <1>1, <1>4, <2>1, <2>2, <2>3 DEF AsyncInv, TypeOK
<1>7. Link'
  BY <1>1, <1>4, <1>5 DEF AsyncInv, Link, svars
<1>8. Threads'
  <2>1. /\ \A i, j \in 1..n : writers[i] = writers[j] => i = j
        /\ \A i \in 1..joined : doing[writers[i]] = "none"
        /\ \A i \in (joined + 1)..n : doing[writers[i]] # "none"
        /\ \A u \in Thread : doing[u] # "none" => \E i \in 1..n : writers[i] = u
    BY DEF AsyncInv, Threads, n
  <2>2. \A i \in 1..n : writers[i] \in Thread /\ (writers[i] = t <=> i = joined + 1)
    BY <1>2, <1>3, <2>1 DEF n, t
  <2>3. \A i \in 1..(joined + 1) : doing'[writers[i]] = "none"
    BY <1>2, <1>3, <1>5, <2>1, <2>2
  <2>4. \A i \in ((joined + 1) + 1)..n : doing'[writers[i]] # "none"
    BY <1>2, <1>3, <1>5, <2>1, <2>2
  <2>5. \A u \in Thread : doing'[u] # "none" => \E i \in 1..n : writers[i] = u
    BY <1>5, <2>1
  <2> QED
    BY <1>1, <1>4, <2>1, <2>3, <2>4, <2>5 DEF Threads, n
<1>9. Jobs'
  BY <1>1, <1>4, <1>5 DEF AsyncInv, Jobs
<1>10. Lacking'
  <2>1. \A u \in Thread : doing'[u] \in Unwritten <=> doing[u] \in Unwritten
    BY <1>4, <1>5 DEF Unwritten
  <2> QED
    BY <1>1, <2>1 DEF AsyncInv, Lacking, Written, Appends
<1>11. PermitsConserved'
  <2>1. Holding' = Holding
    BY <1>1, <1>4, <1>5 DEF Holding, svars
  <2> QED
    BY <1>1, <2>1, PermitsKept DEF AsyncInv, svars
<1> QED
  BY <1>6, <1>7, <1>8, <1>9, <1>10, <1>11 DEF AsyncInv

LEMMA AsyncOfWriteLater ==
    ASSUME AsyncInv, NEW op \in Ops, NEW f \in Files, WriteLater(op, f), ~AtWorkOn(f)
    PROVE  AsyncInv'
<1> DEFINE n == Len(writers)
           J == [op |-> op, file |-> f]
<1>1. PICK t \in Thread : /\ doing[t] = "none"
                          /\ doing' = [doing EXCEPT ![t] = "created"]
                          /\ job' = [job EXCEPT ![t] = J]
                          /\ writers' = Append(writers, t)
  BY DEF WriteLater
<1>2. /\ client = "running" /\ calls < MaxCalls /\ calls' = calls + 1
      /\ expected' = [expected EXCEPT ![f] = Written(expected[f], op, data)]
      /\ UNCHANGED <<svars, data, mode, async, file, joined, client, clone, rejoined>>
  BY DEF WriteLater
<1>3. /\ writers \in Seq(Thread) /\ n \in Nat /\ joined = 0
      /\ doing \in [Thread -> {"none", "created", "waiting", "writing", "written", "posting", "exited"}]
      /\ job \in [Thread -> [op : Ops, file : Files] \cup {NoJob}]
      /\ data \in Version /\ file \in [Files -> Contents] /\ expected \in [Files -> Contents]
  BY <1>2 DEF AsyncInv, TypeOK, Threads
<1>4. J \in [op : Ops, file : Files] /\ J # NoJob /\ J.op = op /\ J.file = f
  BY RocoutAssumption
<1> HIDE DEF J
<1>5. /\ \A u \in Thread : doing'[u] = IF u = t THEN "created" ELSE doing[u]
      /\ \A u \in Thread : job'[u] = IF u = t THEN J ELSE job[u]
  BY <1>1, <1>3
<1>6. /\ writers' \in Seq(Thread) /\ Len(writers') = n + 1 /\ writers'[n + 1] = t
      /\ \A i \in 1..n : writers'[i] = writers[i]
  BY <1>1, <1>3
<1> HIDE DEF n
<1>7. TypeOK'
  <2>1. SemTypeOK'
    BY <1>2 DEF AsyncInv, TypeOK, SemTypeOK, svars
  <2>2. doing' \in [Thread -> {"none", "created", "waiting", "writing", "written", "posting", "exited"}]
    BY <1>1, <1>3
  <2>3. job' \in [Thread -> [op : Ops, file : Files] \cup {NoJob}]
    BY <1>1, <1>3, <1>4
  <2>4. expected' \in [Files -> Contents]
    BY <1>2, <1>3, WrittenType
  <2>5. calls' \in 0..MaxCalls /\ joined' \in 0..Len(writers')
    BY <1>2, <1>3, <1>6, RocoutAssumption DEF AsyncInv, TypeOK
  <2> QED
    BY <1>2, <1>6, <2>1, <2>2, <2>3, <2>4, <2>5 DEF AsyncInv, TypeOK
<1>8. Link'
  BY <1>1, <1>2, <1>5 DEF AsyncInv, Link, svars
<1>9. Threads'
  <2>1. /\ \A i, j \in 1..n : writers[i] = writers[j] => i = j
        /\ \A i \in 1..n : doing[writers[i]] # "none" /\ writers[i] \in Thread
        /\ \A u \in Thread : doing[u] # "none" => \E i \in 1..n : writers[i] = u
    BY <1>3 DEF AsyncInv, Threads, n
  <2>2. \A i \in 1..n : writers'[i] # t
    <3>1. doing[t] = "none"
      BY <1>1
    <3> QED
      BY <3>1, <1>6, <2>1
  <2>3. \A i, j \in 1..(n + 1) : writers'[i] = writers'[j] => i = j
    BY <1>3, <1>6, <2>1, <2>2
  <2>4. \A i \in 1..(n + 1) : doing'[writers'[i]] # "none"
    BY <1>3, <1>5, <1>6, <2>1
  <2>5. \A u \in Thread : doing'[u] # "none" => \E i \in 1..(n + 1) : writers'[i] = u
    <3> SUFFICES ASSUME NEW u \in Thread, doing'[u] # "none" PROVE \E i \in 1..(n + 1) : writers'[i] = u
      OBVIOUS
    <3>1. CASE u = t
      BY <1>3, <1>6, <3>1
    <3>2. CASE u # t
      <4>1. PICK i \in 1..n : writers[i] = u
        BY <1>5, <2>1, <3>2
      <4> QED
        BY <1>3, <1>6, <4>1
    <3> QED
      BY <3>1, <3>2
  <2>6. ~rejoined /\ joined' = 0 /\ joined' + 1 = 1
    BY <1>2, <1>3 DEF AsyncInv, Threads
  <2> QED
    BY <1>2, <1>3, <1>6, <2>3, <2>4, <2>5, <2>6 DEF Threads
<1>10. Jobs'
  <2>1. \A u \in Thread : job'[u] = NoJob <=> doing'[u] \in {"none", "exited"}
    BY <1>4, <1>5 DEF AsyncInv, Jobs
  <2>2. \A u \in Thread : job[u] # NoJob => job[u].file # f
    BY DEF AtWorkOn
  <2>3. \A u, v \in Thread : job'[u] # NoJob /\ job'[v] # NoJob /\ job'[u].file = job'[v].file => u = v
    BY <1>4, <1>5, <2>2 DEF AsyncInv, Jobs
  <2>4. \A u \in Thread : doing'[u] = "writing" => clone'[u] = data'
    BY <1>2, <1>5 DEF AsyncInv, Jobs
  <2> QED
    BY <2>1, <2>3, <2>4 DEF Jobs
<1>11. Lacking'
  <2>1. \A u \in Thread : doing[u] \in Unwritten => job[u].file # f /\ job[u].file \in Files /\ u # t
    BY <1>1, <1>3 DEF AtWorkOn, AsyncInv, Jobs, Unwritten
  <2>2. expected[f] = file[f]
    BY <2>1 DEF AsyncInv, Lacking
  <2>3. /\ \A g \in Files : g # f => expected'[g] = expected[g]
        /\ expected'[f] = Written(file[f], op, data)
    BY <1>2, <1>3, <2>2
  <2>4. ASSUME NEW u \in Thread, doing'[u] \in Unwritten
        PROVE  expected'[job'[u].file] = Written(file[job'[u].file], job'[u].op, data)
    <3>1. CASE u = t
      BY <1>4, <1>5, <2>3, <3>1
    <3>2. CASE u # t
      <4>1. doing[u] \in Unwritten /\ job'[u] = job[u]
        BY <1>5, <2>4, <3>2
      <4> QED
        BY <2>1, <2>3, <4>1 DEF AsyncInv, Lacking
    <3> QED
      BY <3>1, <3>2
  <2>5. \A u \in Thread : doing'[u] \in Unwritten =>
           expected'[job'[u].file] = Written(file[job[u].file], job[u].op, data)'
    BY <1>2, <2>4 DEF Written, Appends
  <2>6. ASSUME NEW g \in Files, \A u \in Thread : doing'[u] \in Unwritten => job'[u].file # g
        PROVE  expected'[g] = file'[g]
    <3>1. g # f
      BY <1>4, <1>5, <2>6 DEF Unwritten
    <3>2. \A u \in Thread : doing[u] \in Unwritten => job[u].file # g
      BY <1>5, <2>1, <2>6
    <3> QED
      BY <1>2, <2>3, <3>1, <3>2 DEF AsyncInv, Lacking
  <2> QED
    BY <2>5, <2>6 DEF Lacking
<1>12. PermitsConserved'
  <2>1. Holding' = Holding
    BY <1>1, <1>2, <1>5 DEF Holding, svars
  <2> QED
    BY <1>2, <2>1, PermitsKept DEF AsyncInv, svars
<1> QED
  BY <1>7, <1>8, <1>9, <1>10, <1>11, <1>12 DEF AsyncInv

------------------------------------------------------------------------------
(* The steps of a writer thread.  What the steps leave alone comes first.  *)

Kinds == {"none", "created", "waiting", "writing", "written", "posting", "exited"}

LEMMA DoesFacts ==
    ASSUME AsyncInv, NEW t \in Thread, NEW from, NEW to \in Kinds, Does(t, from, to)
    PROVE  /\ doing[t] = from /\ doing' \in [Thread -> Kinds]
           /\ \A u \in Thread : doing'[u] = IF u = t THEN to ELSE doing[u]
<1>1. doing \in [Thread -> Kinds]
  BY DEF AsyncInv, TypeOK, Kinds
<1> QED
  BY <1>1 DEF Does

LEMMA WriterTypes ==
    ASSUME AsyncInv, UNCHANGED cvars, SemTypeOK',
           file' \in [Files -> Contents],
           job' \in [Thread -> [op: Ops, file: Files] \cup {NoJob}],
           doing' \in [Thread -> Kinds],
           clone' \in [Thread -> Version \cup {-1}]
    PROVE  TypeOK'
  BY DEF AsyncInv, TypeOK, cvars, Kinds

LEMMA ThreadsKept ==
    ASSUME AsyncInv, UNCHANGED cvars,
           \A u \in Thread : doing'[u] = "none" <=> doing[u] = "none"
    PROVE  Threads'
<1>1. /\ client' = client /\ joined' = joined /\ writers' = writers /\ rejoined' = rejoined
      /\ joined \in 0..Len(writers) /\ writers \in Seq(Thread)
  BY DEF cvars, AsyncInv, TypeOK
<1>2. \A i \in 1..Len(writers) : writers[i] \in Thread
  BY <1>1
<1>3. /\ \A i \in 1..joined : doing'[writers[i]] = "none"
      /\ \A i \in (joined + 1)..Len(writers) : doing'[writers[i]] # "none"
      /\ \A t \in Thread : doing'[t] # "none" => \E i \in 1..Len(writers) : writers[i] = t
  BY <1>1, <1>2 DEF AsyncInv, Threads
<1> QED
  BY <1>1, <1>3 DEF AsyncInv, Threads

LEMMA LackingKept ==
    ASSUME AsyncInv, UNCHANGED <<cvars, file>>,
           \A u \in Thread : doing'[u] \in Unwritten <=> doing[u] \in Unwritten,
           \A u \in Thread : doing[u] \in Unwritten => job'[u] = job[u]
    PROVE  Lacking'
  BY DEF AsyncInv, Lacking, Written, Appends, cvars

\* A thread that calls the semaphore, or is between two calls, holds a permit
\* after the step if it did before.
LEMMA AsyncOfCalls ==
    ASSUME AsyncInv, NEW t \in Thread,
           NEW from, NEW to, NEW c,
           \/ from = "created" /\ to = "waiting" /\ c = "wait"
           \/ from = "written" /\ to = "posting" /\ c = "post",
           Does(t, from, to), Call(t, c), UNCHANGED <<cvars, file, job, clone>>
    PROVE  AsyncInv'
<1>1. /\ doing[t] = from /\ doing' \in [Thread -> Kinds]
      /\ \A u \in Thread : doing'[u] = IF u = t THEN to ELSE doing[u]
  BY DoesFacts DEF Kinds
<1>2. SemTypeOK /\ SemTypeOK'
  <2>1. SemNext
    BY DEF SemNext
  <2> QED
    BY <2>1, SemTypeStep DEF AsyncInv, TypeOK
<1>3. /\ m_count' = m_count /\ \A u \in Thread : at'[u] = IF u = t THEN c ELSE at[u]
  BY <1>2 DEF Call, Goto, SemTypeOK
<1>4. TypeOK'
  BY <1>1, <1>2, WriterTypes DEF AsyncInv, TypeOK
<1>5. Link'
  BY <1>1, <1>3 DEF AsyncInv, Link
<1>6. Threads'
  BY <1>1, ThreadsKept
<1>7. Jobs'
  BY <1>1 DEF AsyncInv, Jobs, cvars
<1>8. Lacking'
  BY <1>1, LackingKept DEF Unwritten
<1>9. PermitsConserved'
  <2>1. Holding' = Holding
    BY <1>1, <1>3 DEF Holding
  <2> QED
    BY <1>3, <2>1, PermitsKept DEF AsyncInv
<1> QED
  BY <1>4, <1>5, <1>6, <1>7, <1>8, <1>9 DEF AsyncInv

LEMMA AsyncOfWriterClones ==
    ASSUME AsyncInv, NEW t \in Thread, WriterClones(t) PROVE AsyncInv'
<1>0. /\ at[t] = "out" /\ Does(t, "waiting", "writing")
      /\ clone' = [clone EXCEPT ![t] = data] /\ UNCHANGED <<svars, cvars, file, job>>
  BY DEF WriterClones
<1>1. /\ doing[t] = "waiting" /\ doing' \in [Thread -> Kinds]
      /\ \A u \in Thread : doing'[u] = IF u = t THEN "writing" ELSE doing[u]
  BY <1>0, DoesFacts DEF Kinds
<1>2. SemTypeOK'
  BY <1>0 DEF AsyncInv, TypeOK, SemTypeOK, svars
<1>3. /\ clone' \in [Thread -> Version \cup {-1}]
      /\ \A u \in Thread : clone'[u] = IF u = t THEN data ELSE clone[u]
  BY <1>0 DEF AsyncInv, TypeOK
<1>4. TypeOK'
  BY <1>0, <1>1, <1>2, <1>3, WriterTypes DEF AsyncInv, TypeOK
<1>5. Link'
  BY <1>0, <1>1 DEF AsyncInv, Link, svars
<1>6. Threads'
  BY <1>0, <1>1, ThreadsKept
<1>7. Jobs'
  BY <1>0, <1>1, <1>3 DEF AsyncInv, Jobs, cvars
<1>8. Lacking'
  BY <1>0, <1>1, LackingKept DEF Unwritten
<1>9. PermitsConserved'
  <2>1. Holding' = Holding
    BY <1>0, <1>1 DEF Holding, svars
  <2> QED
    BY <1>0, <2>1, PermitsKept DEF AsyncInv, svars
<1> QED
  BY <1>4, <1>5, <1>6, <1>7, <1>8, <1>9 DEF AsyncInv

LEMMA AsyncOfWriterExits ==
    ASSUME AsyncInv, NEW t \in Thread, WriterExits(t) PROVE AsyncInv'
<1>0. /\ at[t] = "out" /\ Does(t, "posting", "exited")
      /\ clone' = [clone EXCEPT ![t] = -1] /\ job' = [job EXCEPT ![t] = NoJob]
      /\ UNCHANGED <<svars, cvars, file>>
  BY DEF WriterExits
<1>1. /\ doing[t] = "posting" /\ doing' \in [Thread -> Kinds]
      /\ \A u \in Thread : doing'[u] = IF u = t THEN "exited" ELSE doing[u]
  BY <1>0, DoesFacts DEF Kinds
<1>2. SemTypeOK'
  BY <1>0 DEF AsyncInv, TypeOK, SemTypeOK, svars
<1>3. /\ clone' \in [Thread -> Version \cup {-1}]
      /\ job' \in [Thread -> [op: Ops, file: Files] \cup {NoJob}]
      /\ \A u \in Thread : clone'[u] = IF u = t THEN -1 ELSE clone[u]
      /\ \A u \in Thread : job'[u] = IF u = t THEN NoJob ELSE job[u]
  BY <1>0 DEF AsyncInv, TypeOK
<1>4. TypeOK'
  BY <1>0, <1>1, <1>2, <1>3, WriterTypes DEF AsyncInv, TypeOK
<1>5. Link'
  BY <1>0, <1>1 DEF AsyncInv, Link, svars
<1>6. Threads'
  BY <1>0, <1>1, ThreadsKept
<1>7. Jobs'
  BY <1>0, <1>1, <1>3 DEF AsyncInv, Jobs, cvars
<1>8. Lacking'
  BY <1>0, <1>1, <1>3, LackingKept DEF Unwritten
<1>9. PermitsConserved'
  <2>1. Holding' = Holding
    BY <1>0, <1>1 DEF Holding, svars
  <2> QED
    BY <1>0, <2>1, PermitsKept DEF AsyncInv, svars
<1> QED
  BY <1>4, <1>5, <1>6, <1>7, <1>8, <1>9 DEF AsyncInv

\* The write makes its file what it should be: the data has not changed since
\* the call, and no other thread is at work on the file.
LEMMA AsyncOfWriterWrites ==
    ASSUME AsyncInv, NEW t \in Thread, WriterWrites(t) PROVE AsyncInv'
<1> DEFINE f == job[t].file
           w == Written(file[f], job[t].op, data)
<1>0. /\ Does(t, "writing", "written")
      /\ file' = [file EXCEPT ![f] = Written(file[f], job[t].op, clone[t])]
      /\ UNCHANGED <<svars, cvars, job, clone>>
  BY DEF WriterWrites
<1>1. /\ doing[t] = "writing" /\ doing' \in [Thread -> Kinds]
      /\ \A u \in Thread : doing'[u] = IF u = t THEN "written" ELSE doing[u]
  BY <1>0, DoesFacts DEF Kinds
<1>2. SemTypeOK'
  BY <1>0 DEF AsyncInv, TypeOK, SemTypeOK, svars
<1>3. /\ job[t] # NoJob /\ clone[t] = data
      /\ \A u \in Thread : u # t /\ job[u] # NoJob => job[u].file # job[t].file
      /\ \A u \in Thread : doing[u] \in Unwritten => job[u] # NoJob
  BY <1>1 DEF AsyncInv, Jobs, Unwritten
<1>4. /\ f \in Files /\ data \in Version /\ file \in [Files -> Contents]
      /\ job \in [Thread -> [op: Ops, file: Files] \cup {NoJob}]
  BY <1>3 DEF AsyncInv, TypeOK
<1>5. expected[f] = w
  BY <1>1 DEF AsyncInv, Lacking, Unwritten
<1>6. w \in Contents
  BY <1>4, WrittenType
<1>7. file' = [file EXCEPT ![f] = w]
  BY <1>0, <1>3
<1> HIDE DEF w, f
<1>8. /\ file' \in [Files -> Contents] /\ file'[f] = w
      /\ \A g \in Files : g # f => file'[g] = file[g]
  BY <1>4, <1>6, <1>7
<1>9. TypeOK'
  BY <1>0, <1>1, <1>2, <1>8, WriterTypes DEF AsyncInv, TypeOK
<1>10. Link'
  BY <1>0, <1>1 DEF AsyncInv, Link, svars
<1>11. Threads'
  BY <1>0, <1>1, ThreadsKept
<1>12. Jobs'
  BY <1>0, <1>1 DEF AsyncInv, Jobs, cvars
<1>13. Lacking'
  <2>1. ASSUME NEW u \in Thread, doing'[u] \in Unwritten
        PROVE  expected'[job'[u].file] = Written(file[job[u].file], job[u].op, data)'
    <3>1. u # t /\ doing[u] \in Unwritten
      BY <1>1, <2>1 DEF Unwritten
    <3>2. job[u].file \in Files /\ job[u].file # f
      BY <1>3, <1>4, <3>1 DEF f
    <3>3. expected[job[u].file] = Written(file[job[u].file], job[u].op, data)
      BY <3>1 DEF AsyncInv, Lacking
    <3> QED
      BY <1>0, <1>8, <3>2, <3>3 DEF cvars, Written, Appends
  <2>2. ASSUME NEW g \in Files, \A u \in Thread : doing'[u] \in Unwritten => job'[u].file # g
        PROVE  expected'[g] = file'[g]
    <3>1. CASE g = f
      BY <1>0, <1>5, <1>8, <3>1 DEF cvars
    <3>2. CASE g # f
      <4>1. \A u \in Thread : doing[u] \in Unwritten => job[u].file # g
        BY <1>0, <1>1, <2>2, <3>2 DEF f
      <4> QED
        BY <1>0, <1>8, <3>2, <4>1 DEF AsyncInv, Lacking, cvars
    <3> QED
      BY <3>1, <3>2
  <2> QED
    BY <2>1, <2>2 DEF Lacking
<1>14. PermitsConserved'
  <2>1. Holding' = Holding
    BY <1>0, <1>1 DEF Holding, svars
  <2> QED
    BY <1>0, <2>1, PermitsKept DEF AsyncInv, svars
<1> QED
  BY <1>9, <1>10, <1>11, <1>12, <1>13, <1>14 DEF AsyncInv

------------------------------------------------------------------------------
(* Steps inside the semaphore move permits between m_count and a thread.   *)

LEMMA HoldingFinite ==
    IsFiniteSet(Holding) /\ Cardinality(Holding) \in Nat
  BY SemaphoreAssumption, FS_Subset, FS_CardinalityType DEF Holding

\* What a step that leaves the writers alone has to show
LEMMA InsideSemaphore ==
    ASSUME AsyncInv, UNCHANGED <<cvars, file, wvars>>, SemNext, Link', PermitsConserved'
    PROVE  AsyncInv'
<1>1. SemTypeOK'
  BY SemTypeStep DEF AsyncInv, TypeOK
<1>2. /\ TypeOK' /\ Threads'
  BY <1>1, WriterTypes, ThreadsKept DEF AsyncInv, TypeOK, wvars, Kinds
<1>3. Jobs' /\ Lacking'
  BY FilesKept DEF cvars
<1> QED
  BY <1>2, <1>3 DEF AsyncInv

LEMMA AsyncOfSemaphore ==
    ASSUME AsyncInv, NEW t \in Thread, SemaphoreStep(t) \/ Spurious(t) PROVE AsyncInv'
<1>0. /\ UNCHANGED <<cvars, file, wvars>> /\ SemNext
      /\ doing' = doing
  BY DEF SemaphoreStep, Spurious, SemNext, wvars
<1>1. /\ m_count \in Nat /\ holder \in Thread \cup {NoThread} /\ at \in [Thread -> Locations]
      /\ MaxCount \in Nat /\ MaxCount > 0 /\ CondMayFail = FALSE
  BY SemaphoreAssumption, RocoutAssumption DEF AsyncInv, TypeOK, SemTypeOK
<1>2. Link /\ PermitsConserved /\ \A u \in Thread : doing[u] \in Kinds
  BY DEF AsyncInv, TypeOK, Kinds
<1>3. IsFiniteSet(Holding) /\ Cardinality(Holding) \in Nat
  BY HoldingFinite
<1>4. ASSUME NEW l, Goto(t, l) PROVE \A u \in Thread : at'[u] = IF u = t THEN l ELSE at[u]
  BY <1>1, <1>4 DEF Goto
<1>5. ASSUME Lock(t) PROVE Link' /\ PermitsConserved'
  <2> DEFINE l == IF at[t] = "try" THEN "in_try"
                  ELSE IF at[t] = "post" THEN "in_post" ELSE "in_wait"
  <2>1. /\ at[t] \in {"wait", "woken", "try", "post"} /\ Goto(t, l)
    BY <1>5 DEF Lock
  <2>2. \A u \in Thread : at'[u] = IF u = t THEN l ELSE at[u]
    BY <1>4, <2>1
  <2>3. Link'
    BY <1>0, <1>2, <2>1, <2>2 DEF Link, Kinds
  <2>4. Holding' = Holding
    BY <1>0, <1>2, <2>1, <2>2 DEF Holding, Link, Kinds
  <2> QED
    BY <1>2, <1>5, <2>3, <2>4, PermitsKept DEF Lock
<1>6. ASSUME Unlock(t) PROVE Link' /\ PermitsConserved'
  <2>1. at[t] \in {"ret_true", "ret_false"} /\ m_count' = m_count
    BY <1>6 DEF Unlock
  <2>2. \A u \in Thread : at'[u] = IF u = t THEN "out" ELSE at[u]
    BY <1>4, <1>6 DEF Unlock
  <2>3. Link'
    BY <1>0, <1>2, <2>1, <2>2 DEF Link, Kinds
  <2>4. Holding' = Holding
    BY <1>0, <1>2, <2>1, <2>2 DEF Holding, Link, Kinds
  <2> QED
    BY <1>2, <2>1, <2>3, <2>4, PermitsKept
<1>7. ASSUME WaitBody(t) PROVE Link' /\ PermitsConserved'
  <2>0. at[t] = "in_wait" /\ doing[t] = "waiting"
    BY <1>2, <1>7 DEF WaitBody, Link, Kinds
  <2>1. CASE m_count # 0
    <3>1. m_count' = m_count - 1
      BY <1>7, <2>1 DEF WaitBody
    <3>2. \A u \in Thread : at'[u] = IF u = t THEN "ret_true" ELSE at[u]
      BY <1>4, <1>7, <2>1 DEF WaitBody
    <3>3. Link'
      BY <1>0, <1>2, <2>0, <3>2 DEF Link
    <3>4. t \notin Holding /\ Holding' = Holding \cup {t}
      BY <1>0, <2>0, <3>2 DEF Holding
    <3>5. Cardinality(Holding') = Cardinality(Holding) + 1
      BY <1>3, <3>4, FS_AddElement
    <3> QED
      BY <1>1, <1>2, <1>3, <3>1, <3>3, <3>5 DEF PermitsConserved
  <2>2. CASE m_count = 0
    <3>1. m_count' = m_count
      BY <1>1, <1>7, <2>2 DEF WaitBody
    <3>2. \A u \in Thread : at'[u] = IF u = t THEN "asleep" ELSE at[u]
      BY <1>1, <1>4, <1>7, <2>2 DEF WaitBody
    <3>3. Link'
      BY <1>0, <1>2, <2>0, <3>2 DEF Link
    <3>4. Holding' = Holding
      BY <1>0, <2>0, <3>2 DEF Holding
    <3> QED
      BY <1>2, <3>1, <3>3, <3>4, PermitsKept
  <2> QED
    BY <2>1, <2>2
<1>8. ~TryWaitBody(t)
  BY <1>2 DEF TryWaitBody, Link, Kinds
<1>9. ASSUME PostBody(t) PROVE Link' /\ PermitsConserved'
  <2>0. at[t] = "in_post" /\ doing[t] = "posting"
    BY <1>2, <1>9 DEF PostBody, Link, Kinds
  <2>1. t \in Holding /\ Cardinality(Holding \ {t}) = Cardinality(Holding) - 1
        /\ Cardinality(Holding \ {t}) \in Nat
    <3>1. t \in Holding
      BY <2>0 DEF Holding
    <3> QED
      BY <1>3, <3>1, FS_RemoveElement, FS_CardinalityType
  <2>2. m_count # MaxCount
    BY <1>1, <1>2, <1>3, <2>1 DEF PermitsConserved
  <2>3. /\ m_count' = m_count + 1
        /\ \/ Goto(t, "ret_true")
           \/ \E s \in asleep : at' = [at EXCEPT ![t] = "ret_true", ![s] = "woken"]
    BY <1>9, <2>2 DEF PostBody
  <2>4. PICK S \in SUBSET asleep :
            \A u \in Thread : at'[u] = IF u \in S THEN "woken"
                                       ELSE IF u = t THEN "ret_true" ELSE at[u]
    <3>1. ASSUME Goto(t, "ret_true")
          PROVE  \A u \in Thread : at'[u] = IF u \in {} THEN "woken"
                                            ELSE IF u = t THEN "ret_true" ELSE at[u]
      BY <1>4, <3>1
    <3>2. ASSUME NEW s \in asleep, at' = [at EXCEPT ![t] = "ret_true", ![s] = "woken"]
          PROVE  \A u \in Thread : at'[u] = IF u \in {s} THEN "woken"
                                            ELSE IF u = t THEN "ret_true" ELSE at[u]
      BY <1>1, <3>2 DEF asleep
    <3>3. {} \in SUBSET asleep /\ \A s \in asleep : {s} \in SUBSET asleep
      OBVIOUS
    <3>4. CASE Goto(t, "ret_true")
      BY <3>1, <3>3, <3>4
    <3>5. ASSUME NEW s \in asleep, at' = [at EXCEPT ![t] = "ret_true", ![s] = "woken"]
          PROVE  \E S \in SUBSET asleep :
                    \A u \in Thread : at'[u] = IF u \in S THEN "woken"
                                               ELSE IF u = t THEN "ret_true" ELSE at[u]
      BY <3>2, <3>3, <3>5, Zenon
    <3> QED
      BY <2>3, <3>4, <3>5
  <2>5. \A u \in S : u \in Thread /\ at[u] = "asleep" /\ doing[u] = "waiting"
    BY <1>2 DEF asleep, Link, Kinds
  <2>6. Link'
    BY <1>0, <1>2, <2>0, <2>4, <2>5 DEF Link
  <2>7. Holding' = Holding \ {t}
    BY <1>0, <2>0, <2>4, <2>5 DEF Holding
  <2> QED
    BY <1>1, <1>2, <1>3, <2>1, <2>3, <2>6, <2>7 DEF PermitsConserved
<1>10. ASSUME SpuriousWakeup(t) PROVE Link' /\ PermitsConserved'
  <2>1. at[t] = "asleep" /\ m_count' = m_count
    BY <1>10 DEF SpuriousWakeup
  <2>2. \A u \in Thread : at'[u] = IF u = t THEN "woken" ELSE at[u]
    BY <1>4, <1>10 DEF SpuriousWakeup
  <2>3. Link'
    BY <1>0, <1>2, <2>1, <2>2 DEF Link, Kinds
  <2>4. Holding' = Holding
    BY <1>0, <1>2, <2>1, <2>2 DEF Holding, Link, Kinds
  <2> QED
    BY <1>2, <2>1, <2>3, <2>4, PermitsKept
<1>11. Link' /\ PermitsConserved'
  BY <1>5, <1>6, <1>7, <1>8, <1>9, <1>10 DEF SemaphoreStep, Spurious, Step
<1> QED
  BY <1>0, <1>11, InsideSemaphore

------------------------------------------------------------------------------
LEMMA AsyncStep == AsyncInv /\ [Next]_vars => AsyncInv'
<1> SUFFICES ASSUME AsyncInv, [Next]_vars PROVE AsyncInv'
  OBVIOUS
<1>1. CASE Disciplined
  <2>1. ASSUME NEW f \in Files, ~AtWorkOn(f), ClientCalls(f) PROVE AsyncInv'
    BY <2>1, AsyncOfWriteNow, AsyncOfWriteLater DEF ClientCalls
  <2> QED
    BY <1>1, <2>1, AsyncOfOptions DEF Disciplined
<1>2. CASE Joining
  BY <1>2, AsyncOfJoinEnds, AsyncOfPthreadJoin DEF Joining
<1>3. ASSUME NEW t \in Thread, Writer(t) \/ Spurious(t) PROVE AsyncInv'
  <2>1. CASE WriterWaits(t)
    BY <2>1, AsyncOfCalls DEF WriterWaits
  <2>2. CASE WriterPosts(t)
    BY <2>2, AsyncOfCalls DEF WriterPosts
  <2> QED
    BY <1>3, <2>1, <2>2, AsyncOfWriterClones, AsyncOfWriterWrites, AsyncOfWriterExits,
       AsyncOfSemaphore DEF Writer
<1>4. CASE UNCHANGED vars
  <2>1. UNCHANGED <<svars, cvars, file, wvars>>
    BY <1>4 DEF vars, svars, cvars, wvars
  <2>2. TypeOK' /\ Threads'
    BY <2>1, WritersKept, WriterTypes, ThreadsKept DEF AsyncInv, TypeOK, wvars, Kinds
  <2> QED
    BY <2>1, <2>2, WritersKept, FilesKept DEF AsyncInv, cvars
<1> QED
  BY <1>1, <1>2, <1>3, <1>4 DEF Next

\* The inductive invariant of asynchronous output holds in every state.
THEOREM AsyncInvariant == Spec => []AsyncInv
  BY AsyncInit, AsyncStep, PTL DEF Spec

\* Permits are conserved, so at most MAX_ASYNC_WRITES writers clone and write
\* at a time and Post never fails; a thread is joined once; and none is left
\* when finalize deletes the Rocout object whose options the threads read.
THEOREM ThreadsAccountedHolds == Spec => []ThreadsAccounted
<1>1. ASSUME AsyncInv PROVE ThreadsAccounted
  <2>1. TypeOK /\ PermitsConserved /\ ~rejoined
    BY <1>1 DEF AsyncInv, Threads
  <2>2. ASSUME client = "ended", NEW t \in Thread PROVE doing[t] = "none"
    <3>1. writers \in Seq(Thread) /\ joined = Len(writers)
      BY <1>1, <2>2 DEF AsyncInv, TypeOK, Threads
    <3> QED
      BY <1>1, <3>1 DEF AsyncInv, Threads
  <2> QED
    BY <2>1, <2>2 DEF ThreadsAccounted, JoinedOnce
<1> QED
  BY <1>1, AsyncInvariant, PTL

\* Once sync has returned, the files are what the same calls would have
\* written with async=off: no write is missing, doubled or of other data.
THEOREM SyncedFilesHold == Spec => []SyncedFiles
<1>1. ASSUME AsyncInv PROVE SyncedFiles
  <2> SUFFICES ASSUME client = "running", writers = <<>> PROVE file = expected
    BY DEF SyncedFiles
  <2>1. \A t \in Thread : doing[t] = "none"
    BY <1>1 DEF AsyncInv, Threads
  <2>2. \A f \in Files : expected[f] = file[f]
    BY <1>1, <2>1 DEF AsyncInv, Lacking, Unwritten
  <2> QED
    BY <1>1, <2>2 DEF AsyncInv, TypeOK
<1> QED
  BY <1>1, AsyncInvariant, PTL
=============================================================================
