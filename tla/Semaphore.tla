------------------------------ MODULE Semaphore ------------------------------
(***************************************************************************)
(* The class Semaphore of SimIO (Sync.C), a counting semaphore made of a   *)
(* pthread mutex and a condition variable, as the threads that share one   *)
(* object execute it.                                                      *)
(*                                                                         *)
(* A step is one of: a call, the return of pthread_mutex_lock, the code up *)
(* to the next pthread call that lets others in, a wake-up, the unlock and *)
(* return.  The code between lock and unlock is one step: it touches only  *)
(* m_count, which nobody touches without the mutex.                        *)
(***************************************************************************)
EXTENDS Integers, FiniteSets

CONSTANTS
    Thread,
    MaxCount,       \* m_maxcount, 0 for no maximum
    InitialCount,   \* m_count at the start
    CondMayFail,    \* whether pthread_cond_wait can return an error
    NoThread        \* the mutex is free

ASSUME SemaphoreAssumption ==
    /\ MaxCount \in Nat /\ InitialCount \in Nat
    /\ MaxCount > 0 => InitialCount <= MaxCount     \* checked by the constructor
    /\ CondMayFail \in BOOLEAN
    /\ IsFiniteSet(Thread) /\ NoThread \notin Thread

VARIABLES
    m_count,
    holder,     \* the thread that holds m_mutex, or NoThread
    at          \* where each thread is in the code

svars == <<m_count, holder, at>>

\* Outside; about to lock in Wait, TryWait, Post; holding the mutex in them;
\* blocked in pthread_cond_wait; woken and locking again; about to unlock
\* and return true or false.
Locations == {"out", "wait", "try", "post", "in_wait", "in_try", "in_post",
              "asleep", "woken", "ret_true", "ret_false"}
Critical == {"in_wait", "in_try", "in_post", "ret_true", "ret_false"}

asleep == {t \in Thread : at[t] = "asleep"}
coming == {t \in Thread : at[t] \in {"woken", "in_wait"}}

SemTypeOK ==
    /\ m_count \in Nat
    /\ holder \in Thread \cup {NoThread}
    /\ at \in [Thread -> Locations]

SemInit ==
    /\ m_count = InitialCount
    /\ holder = NoThread
    /\ at = [t \in Thread |-> "out"]

Goto(t, l) == at' = [at EXCEPT ![t] = l]

Call(t, op) ==
    /\ at[t] = "out"
    /\ Goto(t, op)
    /\ UNCHANGED <<m_count, holder>>

\* pthread_mutex_lock returns; also inside pthread_cond_wait after a wake-up
Lock(t) ==
    /\ holder = NoThread
    /\ holder' = t
    /\ \/ at[t] \in {"wait", "woken"} /\ Goto(t, "in_wait")
       \/ at[t] = "try" /\ Goto(t, "in_try")
       \/ at[t] = "post" /\ Goto(t, "in_post")
    /\ UNCHANGED m_count

Unlock(t) ==
    /\ at[t] \in {"ret_true", "ret_false"}
    /\ holder' = NoThread
    /\ Goto(t, "out")
    /\ UNCHANGED m_count

\* Mutant: the thread sleeps without releasing the mutex.
WaitBodyKeepsLock(t) ==
    /\ at[t] = "in_wait"
    /\ \/ m_count # 0 /\ m_count' = m_count - 1 /\ Goto(t, "ret_true")
       \/ m_count = 0 /\ Goto(t, "asleep") /\ UNCHANGED m_count
    /\ UNCHANGED holder

\* The loop of Wait: take a permit, or release the mutex and sleep, or give
\* up because pthread_cond_wait failed.
WaitBody(t) ==
    /\ at[t] = "in_wait"
    /\ \/ /\ m_count # 0
          /\ m_count' = m_count - 1
          /\ Goto(t, "ret_true")
          /\ UNCHANGED holder
       \/ /\ m_count = 0
          /\ Goto(t, "asleep")
          /\ holder' = NoThread
          /\ UNCHANGED m_count
       \/ /\ m_count = 0 /\ CondMayFail
          /\ Goto(t, "ret_false")
          /\ UNCHANGED <<m_count, holder>>

\* Mutant: the permit is not taken.
TryWaitBodyFree(t) ==
    /\ at[t] = "in_try"
    /\ Goto(t, IF m_count = 0 THEN "ret_false" ELSE "ret_true")
    /\ UNCHANGED <<m_count, holder>>
TryWaitBody(t) ==
    /\ at[t] = "in_try"
    /\ \/ m_count = 0 /\ Goto(t, "ret_false") /\ UNCHANGED m_count
       \/ m_count # 0 /\ m_count' = m_count - 1 /\ Goto(t, "ret_true")
    /\ UNCHANGED holder

\* Mutant: a waiter is signalled only when the count was zero, as if one
\* signal could stand for several permits.
PostBodySignalFirst(t) ==
    /\ at[t] = "in_post"
    /\ \/ /\ MaxCount > 0 /\ m_count = MaxCount
          /\ Goto(t, "ret_false")
          /\ UNCHANGED m_count
       \/ /\ ~(MaxCount > 0 /\ m_count = MaxCount)
          /\ m_count' = m_count + 1
          /\ \/ (asleep = {} \/ m_count # 0) /\ Goto(t, "ret_true")
             \/ \E s \in asleep : m_count = 0 /\
                   at' = [at EXCEPT ![t] = "ret_true", ![s] = "woken"]
    /\ UNCHANGED holder

\* The signal wakes one of the sleepers, if there are any.
PostBody(t) ==
    /\ at[t] = "in_post"
    /\ \/ /\ MaxCount > 0 /\ m_count = MaxCount
          /\ Goto(t, "ret_false")
          /\ UNCHANGED m_count
       \/ /\ ~(MaxCount > 0 /\ m_count = MaxCount)
          /\ m_count' = m_count + 1
          /\ \/ asleep = {} /\ Goto(t, "ret_true")
             \/ \E s \in asleep : at' = [at EXCEPT ![t] = "ret_true", ![s] = "woken"]
    /\ UNCHANGED holder

\* pthread_cond_wait may return without a signal.
SpuriousWakeup(t) ==
    /\ at[t] = "asleep"
    /\ Goto(t, "woken")
    /\ UNCHANGED <<m_count, holder>>

\* Steps a thread takes by itself once it has called an operation
Step(t) == \/ Lock(t) \/ Unlock(t)
           \/ WaitBody(t) \/ TryWaitBody(t) \/ PostBody(t)

SemNext == \E t \in Thread :
              \/ \E op \in {"wait", "try", "post"} : Call(t, op)
              \/ Step(t)
              \/ SpuriousWakeup(t)

SemSpec == SemInit /\ [][SemNext]_svars

------------------------------------------------------------------------------
(* Properties *)

\* The mutex protects: at most one thread is between lock and unlock in
\* Wait, TryWait and Post, also after pthread_cond_wait has locked again.
MutualExclusion == \A t \in Thread : at[t] \in Critical <=> holder = t

\* The count never exceeds the maximum given to the constructor, whatever
\* the interleaving of Post with Wait and TryWait.
CountBounded == MaxCount > 0 => m_count <= MaxCount

\* No wake-up of Post is lost: when threads sleep in Wait there are at least
\* as many others woken or about to test the count as there are permits, so
\* a permit never lies idle while a thread that could take it sleeps on.
NoLostWakeup == asleep # {} => m_count <= Cardinality(coming)

\* What a thread that is at l has asked for, or the answer it has got.
Asked(l) == CASE l \in {"wait", "in_wait", "asleep", "woken"} -> "wait"
              [] l \in {"try", "in_try"} -> "try"
              [] l \in {"post", "in_post"} -> "post"
              [] l = "ret_true" -> "yes"
              [] l = "ret_false" -> "no"
              [] l = "out" -> "none"

Requests == [t \in Thread |-> Asked(at[t])]

Abstract == INSTANCE CountingSemaphore WITH permits <- m_count, request <- Requests

\* Wait, TryWait and Post behave as the operations of a counting semaphore
\* that take effect at one instant, spurious wake-ups and errors included.
ImplementsCounting == Abstract!SSpec
==============================================================================
