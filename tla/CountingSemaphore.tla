-------------------------- MODULE CountingSemaphore --------------------------
(***************************************************************************)
(* What the class Semaphore of SimIO promises: Wait takes a permit and     *)
(* returns only when it has one, TryWait takes one or fails because there  *)
(* is none, Post gives one back or fails because the count is at its       *)
(* maximum.  Each takes effect at one instant between call and return.     *)
(* Where the system may refuse to block a thread, a Wait that finds no     *)
(* permit may fail as well.                                                *)
(***************************************************************************)
EXTENDS Integers

CONSTANTS Thread, MaxCount, InitialCount, CondMayFail

VARIABLES
    permits,    \* permits available
    request     \* what each thread has asked for and not got an answer to

svars == <<permits, request>>

Full == MaxCount > 0 /\ permits = MaxCount

SInit == permits = InitialCount /\ request = [t \in Thread |-> "none"]

Ask(t) == /\ request[t] \in {"none", "yes", "no"}
          /\ \E r \in {"wait", "try", "post"} : request' = [request EXCEPT ![t] = r]
          /\ UNCHANGED permits

Answer(t, a) == request' = [request EXCEPT ![t] = a]

Take(t) == /\ request[t] \in {"wait", "try"} /\ permits > 0
           /\ permits' = permits - 1
           /\ Answer(t, "yes")

Give(t) == /\ request[t] = "post" /\ ~Full
           /\ permits' = permits + 1
           /\ Answer(t, "yes")

Refuse(t) == /\ \/ request[t] = "try" /\ permits = 0
                \/ request[t] = "post" /\ Full
                \/ request[t] = "wait" /\ permits = 0 /\ CondMayFail
             /\ Answer(t, "no")
             /\ UNCHANGED permits

Return(t) == /\ request[t] \in {"yes", "no"}
             /\ Answer(t, "none")
             /\ UNCHANGED permits

SNext == \E t \in Thread : Ask(t) \/ Take(t) \/ Give(t) \/ Refuse(t) \/ Return(t)

SSpec == SInit /\ [][SNext]_svars
==============================================================================
