-------------------------- MODULE SimCouplingProofs ---------------------------
(***************************************************************************)
(* Proofs about a coupling: its life cycle, the restart of its corrector   *)
(* iterations and the exactness of interpolation, for any number of        *)
(* agents, any steps and any bound on the iterations.                      *)
(***************************************************************************)
EXTENDS SimCoupling, TLAPS

Phases == {"constructed", "stepping", "ready", "running", "ran", "finalized", "destroyed",
           "aborted"}
Alive == {"stepping", "ready", "running", "ran"}
SetupType == [bcflag : BOOLEAN, restarting : BOOLEAN, maxPredCorr : 1..MaxPC,
              gm : BOOLEAN, kind : Kinds, order : {0, 1}, grad : BOOLEAN,
              dobackup : BOOLEAN, callback : {S \in SUBSET Agents : Fed \in S}]
StepType == [t : Nat, dt : Dts \cup {0}, ipc : 0..MaxPC, last : Dts \cup {0}]
AgentType == [timestamp : Nat, dt : Dts \cup {0}, old_dt : Dts \cup {0}]
DataType == [attr : Int, old : Int, grad : Int, alp : Int]
SolutionType == [t : Nat, pc : 0..MaxPC]

\* The types of all state
Types ==
    /\ phase \in Phases
    /\ scheduled \subseteq Schedulers /\ inited \subseteq Schedulers
    /\ setup \in SetupType
    /\ step \in StepType
    /\ running \in 0..NAgents
    /\ agent \in [Agents -> AgentType]
    /\ data \in DataType
    /\ asked \in -1..2
    /\ live \in [Agents -> SolutionType]
    /\ backup \in [Agents -> SolutionType]
    /\ accepted \in [Agents -> SolutionType]

\* How the phase, the iteration and the running agent go together.
Control ==
    /\ phase = "running" <=> running # 0
    /\ phase \in {"constructed", "finalized", "destroyed", "aborted"} => step.ipc = 0
    /\ phase \in {"ready", "running", "ran"} => step.ipc \in 1..setup.maxPredCorr
    /\ phase = "stepping" => step.ipc < setup.maxPredCorr
    /\ phase \in {"running", "ran"} => step.dt \in Dts
    /\ running # 0 => agent[running].timestamp = step.t /\ agent[running].dt = step.dt
    /\ asked >= 0 => running = Fed

\* Schedulers are inited and windows there from init to finalize, which aborts
\* if a module never called init_callback.
Ready ==
    /\ phase = "constructed" => inited = {} /\ windows = {<<a, "module">> : a \in Agents}
    /\ phase \in Alive => inited = {<<a, "ic">> : a \in setup.callback} \cup CallMethod
    /\ phase \in Alive =>
          windows = UNION {{<<a, w>> : w \in {"module", "agent", "solver"}} \cup Buffers(a) : a \in Agents}
    /\ phase = "finalized" =>
          windows = {<<a, "module">> : a \in Agents}
                       \cup IF setup.restarting THEN {<<a, "solver">> : a \in Agents} ELSE {}
    /\ phase = "destroyed" =>
          windows = IF setup.restarting THEN {<<a, "solver">> : a \in Agents} ELSE {}
    /\ phase = "aborted" => setup.callback # Agents
    /\ phase \in {"finalized", "destroyed"} => setup.callback = Agents

LifeInv == Types /\ Control /\ Ready

\* The solution to go back to, and which agents have gone on from it.
Restarts ==
    /\ phase \in Alive /\ step.ipc >= 1 /\ setup.maxPredCorr > 1 => backup = accepted
    /\ phase = "ready" => live = accepted
    /\ phase = "running" =>
          /\ \A a \in 1..(running - 1) : live[a].t = accepted[a].t + step.dt
          /\ \A a \in running..NAgents : live[a] = accepted[a]
    /\ phase = "ran" => \A a \in Agents : live[a].t = accepted[a].t + step.dt

\* What the data of the last step stand for, seen from this one.
Before == IF Central THEN Scale * step.t - Scale * (step.last \div 2) ELSE Scale * step.t
Known == setup.dobackup /\ (Central => step.last > 0)
Transferring == running = Fed \/ phase = "ran"

\* Attr is that of the last step until this step's transfer, in the first
\* iteration; then attr_old is, in every iteration, if the agent backs up.
Backups ==
    /\ phase \in {"constructed", "stepping"} /\ step.ipc = 0 /\ Known => data.attr = Before
    /\ phase \in {"ready", "running"} /\ step.ipc = 1 /\ running # Fed /\ Known => data.attr = Before
    /\ phase \in Alive /\ Known /\ (step.ipc > 1 \/ Transferring \/ (phase = "stepping" /\ step.ipc = 1))
          => data.old = Before
    /\ Transferring => data.attr = Transferred(step.t, step.dt)
    /\ asked >= 0 => data.alp = Interpolated(step.t, step.dt, agent[Fed].old_dt, asked)

------------------------------------------------------------------------------
(* The life cycle *)

LEMMA DtNat == \A d \in Dts \cup {0} : d \in Nat
  BY CouplingAssumption


LEMMA LifeInit == Init => LifeInv
<1> SUFFICES ASSUME Init PROVE LifeInv
  OBVIOUS
<1> USE CouplingAssumption DEF Init
<1>1. PICK t \in Starts : step = [t |-> t, dt |-> 0, ipc |-> 0, last |-> 0]
  OBVIOUS
<1>2. step \in StepType
  BY <1>1 DEF StepType
<1>3. data \in DataType
  BY <1>1 DEF DataType
<1>4. setup \in SetupType
  BY DEF SetupType
<1>5. agent \in [Agents -> AgentType]
  BY DEF AgentType
<1>6. /\ live \in [Agents -> SolutionType]
      /\ backup \in [Agents -> SolutionType]
      /\ accepted \in [Agents -> SolutionType]
  BY DEF SolutionType, Solution0
<1>7. Types
  BY <1>2, <1>3, <1>4, <1>5, <1>6 DEF Types, Phases
<1>8. Control
  BY <1>1 DEF Control, Fed
<1>9. Ready
  BY DEF Ready, Alive
<1> QED
  BY <1>7, <1>8, <1>9 DEF LifeInv

\* After init the windows are those of the modules, the callbacks and the
\* buffers, the input windows being deleted again.
LEMMA InitWindowsExact ==
    InitWindows({<<a, "module">> : a \in Agents})
        = UNION {{<<a, w>> : w \in {"module", "agent", "solver"}} \cup Buffers(a) : a \in Agents}
<1> DEFINE W == {<<a, "module">> : a \in Agents}
           Mine(a) == {<<a, w>> : w \in {"module", "agent", "solver"}} \cup Buffers(a)
           Made(a) == ((W \cup {<<a, "agent">>} \cup InputWindows(a))
                          \cup {<<a, "solver">>} \cup Buffers(a)) \ InputWindows(a)
<1>1. ASSUME NEW a \in Agents PROVE Buffers(a) \cap InputWindows(a) = {}
  BY DEF Buffers, InputWindows, SplitWindows
<1>2. ASSUME NEW a \in Agents
      PROVE  Made(a) = W \cup {<<a, "agent">>, <<a, "solver">>} \cup Buffers(a)
  <2>1. W \cap InputWindows(a) = {}
    BY DEF InputWindows
  <2>2. {<<a, "agent">>, <<a, "solver">>} \cap InputWindows(a) = {}
    BY DEF InputWindows
  <2> QED
    BY <2>1, <2>2, <1>1
<1>3. ASSUME NEW a \in Agents
      PROVE  Mine(a) = {<<a, "module">>, <<a, "agent">>, <<a, "solver">>} \cup Buffers(a)
  OBVIOUS
<1>4. \A x \in UNION {Made(a) : a \in Agents} : x \in UNION {Mine(a) : a \in Agents}
  BY <1>2, <1>3
<1>5. \A x \in UNION {Mine(a) : a \in Agents} : x \in UNION {Made(a) : a \in Agents}
  BY <1>2, <1>3
<1> QED
  BY <1>4, <1>5 DEF InitWindows

LEMMA LifeOfInit ==
    ASSUME LifeInv, init PROVE LifeInv'
<1> USE CouplingAssumption DEF LifeInv
<1>0. /\ phase = "constructed" /\ phase' = "stepping"
      /\ inited' = inited \cup {<<a, "ic">> : a \in setup.callback} \cup CallMethod
      /\ windows' = InitWindows(windows)
      /\ setup' = setup /\ step' = step /\ running' = running /\ asked' = asked
  BY Zenon DEF init
<1>1. Types'
  <2>1. inited' \subseteq Schedulers
    BY <1>0 DEF Types, SetupType, Schedulers, AgentSchedulers, CallMethod
  <2> QED
    BY <2>1 DEF init, Types, Phases, solution, AgentType, StepType
<1>2. Control'
  BY <1>0 DEF Types, Control, SetupType, StepType, Fed
<1>3. inited' = {<<a, "ic">> : a \in setup.callback} \cup CallMethod
  BY <1>0 DEF Ready
<1>4. windows' = UNION {{<<a, w>> : w \in {"module", "agent", "solver"}} \cup Buffers(a) : a \in Agents}
  BY <1>0, InitWindowsExact DEF Ready
<1>5. \A a : Buffers(a)' = Buffers(a)
  BY <1>0 DEF Buffers
<1>6. Ready'
  BY <1>0, <1>3, <1>4, <1>5 DEF Ready, Alive
<1> QED
  BY <1>1, <1>2, <1>6

\* All schedulers are inited just if all modules called init_callback.
LEMMA AllInited ==
    ASSUME Types
    PROVE  {<<a, "ic">> : a \in setup.callback} \cup CallMethod = Schedulers <=> setup.callback = Agents
<1>1. \A a \in Agents : <<a, "ic">> \in Schedulers \ CallMethod
  BY DEF Schedulers, AgentSchedulers, CallMethod
<1>2. \A s \in Schedulers \ CallMethod : \E a \in Agents : s = <<a, "ic">>
  BY DEF Schedulers, AgentSchedulers, CallMethod
<1>3. setup.callback \subseteq Agents /\ CallMethod \subseteq Schedulers
  BY DEF Types, SetupType, CallMethod
<1>4. ASSUME {<<a, "ic">> : a \in setup.callback} \cup CallMethod = Schedulers PROVE setup.callback = Agents
  <2>1. ASSUME NEW a \in Agents PROVE a \in setup.callback
    <3>1. PICK b \in setup.callback : <<a, "ic">> = <<b, "ic">>
      BY <1>1, <1>4
    <3> QED
      BY <3>1
  <2> QED
    BY <1>3, <2>1
<1>5. ASSUME setup.callback = Agents PROVE {<<a, "ic">> : a \in setup.callback} \cup CallMethod = Schedulers
  <2>1. \A s \in Schedulers : s \in {<<a, "ic">> : a \in setup.callback} \cup CallMethod
    BY <1>2, <1>5
  <2>2. \A s \in {<<a, "ic">> : a \in setup.callback} \cup CallMethod : s \in Schedulers
    BY <1>1, <1>3
  <2> QED
    BY <2>1, <2>2
<1> QED
  BY <1>4, <1>5

LEMMA LifeOfFinalize ==
    ASSUME LifeInv, finalize PROVE LifeInv'
<1> USE CouplingAssumption DEF LifeInv
<1>1. /\ phase = "stepping" /\ step.ipc = 0 /\ phase' \in {"finalized", "aborted"}
      /\ phase' = "aborted" <=> inited # Schedulers
      /\ UNCHANGED <<scheduled, inited, setup, step, running, agent, data, asked, live, backup, accepted>>
  BY DEF finalize, solution
<1>2. Types'
  BY <1>1 DEF Types, Phases
<1>3. Control'
  BY <1>1 DEF Types, Control
<1>4. phase' = "aborted" <=> setup.callback # Agents
  BY <1>1, AllInited DEF Ready, Alive
<1> DEFINE S == IF setup.restarting THEN {<<a, "solver">> : a \in Agents} ELSE {}
           Dropped(a) == Buffers(a) \cup {<<a, "agent">>}
                            \cup (IF setup.restarting THEN {} ELSE {<<a, "solver">>})
<1>5. ASSUME phase' = "finalized" PROVE windows' = {<<a, "module">> : a \in Agents} \cup S
  <2>1. /\ windows' = windows \ UNION {Dropped(a) : a \in Agents}
        /\ windows = UNION {{<<a, w>> : w \in {"module", "agent", "solver"}} \cup Buffers(a) : a \in Agents}
    BY <1>1, <1>5 DEF finalize, Ready, Alive
  <2>2. \A a, b \in Agents : /\ <<b, "module">> \notin Dropped(a)
                             /\ setup.restarting => <<b, "solver">> \notin Dropped(a)
    BY DEF Buffers, SplitWindows
  <2>3. ASSUME NEW x \in windows' PROVE x \in {<<a, "module">> : a \in Agents} \cup S
    <3>1. PICK a \in Agents : x \in {<<a, w>> : w \in {"module", "agent", "solver"}} \cup Buffers(a)
      BY <2>1, <2>3
    <3>2. x \notin Dropped(a)
      BY <2>1, <2>3
    <3>3. x = <<a, "module">> \/ (setup.restarting /\ x = <<a, "solver">>)
      BY <3>1, <3>2
    <3> QED
      BY <3>3
  <2>4. ASSUME NEW x \in {<<a, "module">> : a \in Agents} \cup S PROVE x \in windows'
    <3>1. PICK b \in Agents : x = <<b, "module">> \/ (setup.restarting /\ x = <<b, "solver">>)
      BY <2>4
    <3>2. x \in windows
      BY <2>1, <3>1
    <3>3. \A a \in Agents : x \notin Dropped(a)
      BY <2>2, <3>1
    <3> HIDE DEF Dropped
    <3> QED
      BY <2>1, <3>2, <3>3
  <2> QED
    BY <2>3, <2>4
<1>6. Ready'
  BY <1>1, <1>4, <1>5 DEF Ready, Alive
<1> QED
  BY <1>2, <1>3, <1>6

LEMMA LifeOfDestroy ==
    ASSUME LifeInv, Destroy PROVE LifeInv'
<1> USE CouplingAssumption DEF LifeInv, Destroy
<1>1. Types'
  BY DEF Types, Phases, solution
<1>2. Control'
  BY DEF Types, Control
<1>3. windows' = IF setup.restarting THEN {<<a, "solver">> : a \in Agents} ELSE {}
  <2>1. \A a, b \in Agents : <<a, "module">> # <<b, "solver">>
    OBVIOUS
  <2> QED
    BY <2>1 DEF Ready
<1>4. Ready'
  BY <1>3 DEF Ready, Alive
<1> QED
  BY <1>1, <1>2, <1>4

\* What does not touch schedulers, windows or the setup keeps Ready.
LEMMA ReadyKept ==
    ASSUME Ready, phase \in Alive, phase' \in Alive, UNCHANGED <<inited, windows, setup>>
    PROVE  Ready'
<1>1. \A a : Buffers(a)' = Buffers(a)
  BY DEF Buffers
<1> QED
  BY <1>1 DEF Ready, Alive

LEMMA LifeOfInitConvergence ==
    ASSUME LifeInv, init_convergence PROVE LifeInv'
<1> USE CouplingAssumption DEF LifeInv
<1>0. /\ phase = "stepping" /\ phase' = "ready"
      /\ step.ipc < setup.maxPredCorr /\ step' = [step EXCEPT !.ipc = step.ipc + 1]
      /\ UNCHANGED <<scheduled, inited, windows, setup, running, agent, data, asked>>
  BY DEF init_convergence, lifecycle
<1>1. step' \in StepType /\ step'.ipc = step.ipc + 1
  BY <1>0 DEF Types, StepType, SetupType
<1>2. /\ live' \in [Agents -> SolutionType]
      /\ backup' \in [Agents -> SolutionType]
      /\ accepted' \in [Agents -> SolutionType]
  BY DEF init_convergence, Types
<1>3. Types'
  BY <1>0, <1>1, <1>2 DEF Types, Phases
<1>4. Control'
  BY <1>0, <1>1 DEF Control, Types, SetupType, StepType
<1>5. Ready'
  BY <1>0, ReadyKept DEF Alive
<1> QED
  BY <1>3, <1>4, <1>5

\* A gradient of integers is one: old_dt is not 0 where the code divides.
LEMMA BackedUpType ==
    ASSUME NEW d \in DataType, NEW old_dt \in Nat
    PROVE  /\ BackedUp(d, old_dt) \in DataType
           /\ BackedUp(d, old_dt).attr = d.attr
           /\ BackedUp(d, old_dt).old = d.attr
<1> DEFINE g == IF ~setup.grad THEN d.grad
                ELSE IF old_dt > 0 THEN (d.attr - d.old) \div old_dt ELSE 0
<1>1. g \in Int
  BY DEF DataType
<1>2. BackedUp(d, old_dt) = [d EXCEPT !.grad = g, !.old = d.attr]
  BY DEF BackedUp
<1> HIDE DEF g
<1> QED
  BY <1>1, <1>2 DEF DataType

LEMMA TransferredType ==
    ASSUME NEW t \in Nat, NEW dt \in Nat
    PROVE  Transferred(t, dt) \in Int
<1>1. dt \div 2 \in Int
  OBVIOUS
<1>2. (IF Central THEN t + dt \div 2 ELSE t + dt) \in Int
  BY <1>1
<1> QED
  BY <1>2, CouplingAssumption DEF Transferred

\* The start of a physics module notes the step and transfers the data.
LEMMA PhysicsBeginsFacts ==
    ASSUME Types, NEW a \in Agents, NEW t \in Nat, NEW dt \in Dts, NEW p \in 1..MaxPC,
           PhysicsBegins(a, t, dt, p)
    PROVE  /\ running' = a /\ asked' = -1
           /\ agent' \in [Agents -> AgentType] /\ data' \in DataType
           /\ agent'[a].timestamp = t /\ agent'[a].dt = dt
           /\ a # Fed => data' = data
           /\ a = Fed => /\ data'.attr = Transferred(t, dt)
                         /\ setup.dobackup => data'.old = IF p = 1 THEN data.attr ELSE data.old
<1> DEFINE old_dt == OldDt(a, dt, p)
           d == IF BacksUp(p) THEN BackedUp(data, old_dt) ELSE data
<1>1. old_dt \in Dts \cup {0}
  BY DEF OldDt, Types, AgentType
<1>2. old_dt \in Nat
  BY <1>1, DtNat
<1>3. /\ running' = a /\ asked' = -1
      /\ agent' = [agent EXCEPT ![a] = [timestamp |-> t, dt |-> dt, old_dt |-> old_dt]]
      /\ data' = IF a # Fed THEN data ELSE [d EXCEPT !.attr = Transferred(t, dt)]
  BY DEF PhysicsBegins
<1> HIDE DEF old_dt
<1>4. /\ agent' \in [Agents -> AgentType]
      /\ agent'[a].timestamp = t /\ agent'[a].dt = dt
  BY <1>1, <1>3 DEF Types, AgentType
<1>5. d \in DataType /\ (setup.dobackup => d.old = IF p = 1 THEN data.attr ELSE data.old)
  <2>1. data \in DataType
    BY DEF Types
  <2>2. BackedUp(data, old_dt) \in DataType /\ BackedUp(data, old_dt).old = data.attr
    BY <1>2, <2>1, BackedUpType
  <2>3. p \in Nat /\ (p <= 1 <=> p = 1)
    BY CouplingAssumption
  <2>4. setup.dobackup => (BacksUp(p) <=> p = 1)
    BY <2>3 DEF BacksUp
  <2> QED
    BY <2>1, <2>2, <2>4
<1>6. Transferred(t, dt) \in Int
  BY TransferredType, CouplingAssumption
<1> HIDE DEF d
<1>7. data' \in DataType
  BY <1>3, <1>5, <1>6 DEF DataType, Types
<1>8. a = Fed => /\ data'.attr = Transferred(t, dt)
                 /\ setup.dobackup => data'.old = IF p = 1 THEN data.attr ELSE data.old
  BY <1>3, <1>5 DEF DataType
<1> QED
  BY <1>3, <1>4, <1>7, <1>8

LEMMA RunFacts ==
    ASSUME LifeInv, NEW dt \in Dts, run(dt)
    PROVE  /\ phase = "ready" /\ phase' = "running"
           /\ step' = [step EXCEPT !.dt = dt]
           /\ PhysicsBegins(1, step.t, dt, step.ipc)
           /\ UNCHANGED <<scheduled, inited, windows, setup, live, backup, accepted>>
<1>1. <<0, "main">> \in CallMethod /\ <<1, "bcInit">> \in CallMethod
  BY CouplingAssumption DEF CallMethod, Schedulers, AgentSchedulers, Agents
<1>2. <<0, "main">> \in inited /\ <<1, "bcInit">> \in inited
  BY <1>1 DEF LifeInv, run, Ready, Alive
<1> QED
  BY <1>2 DEF run, lifecycle, solution

LEMMA LifeOfRun ==
    ASSUME LifeInv, NEW dt \in Dts, run(dt) PROVE LifeInv'
<1> USE CouplingAssumption DEF LifeInv
<1>0. /\ phase = "ready" /\ phase' = "running"
      /\ step' = [step EXCEPT !.dt = dt]
      /\ PhysicsBegins(1, step.t, dt, step.ipc)
      /\ UNCHANGED <<scheduled, inited, windows, setup, live, backup, accepted>>
  BY RunFacts
<1>1. step' \in StepType /\ step'.ipc = step.ipc /\ step'.dt = dt /\ step'.t = step.t
  BY <1>0 DEF Types, StepType
<1>2. 1 \in Agents /\ step.t \in Nat /\ step.ipc \in 1..MaxPC
  BY <1>0 DEF Types, StepType, SetupType, Agents, Control
<1>3. /\ running' = 1 /\ asked' = -1
      /\ agent'[1].timestamp = step.t /\ agent'[1].dt = dt
      /\ agent' \in [Agents -> AgentType] /\ data' \in DataType
  BY <1>0, <1>2, PhysicsBeginsFacts
<1>4. Types'
  BY <1>0, <1>1, <1>3 DEF Types, Phases
<1>5. Control'
  BY <1>0, <1>1, <1>3 DEF Control, Types
<1>6. Ready'
  BY <1>0, ReadyKept DEF Alive
<1> QED
  BY <1>4, <1>5, <1>6

LEMMA LifeOfPhysicsEnds ==
    ASSUME LifeInv, PhysicsEnds PROVE LifeInv'
<1> USE CouplingAssumption DEF LifeInv
<1>0. /\ phase = "running" /\ running \in Agents
      /\ live' = [live EXCEPT ![running] = [t |-> live[running].t + step.dt, pc |-> step.ipc]]
      /\ UNCHANGED <<scheduled, inited, windows, setup, step, backup, accepted>>
  BY DEF PhysicsEnds, lifecycle, Control, Types, Agents
<1>1. live' \in [Agents -> SolutionType]
  <2>1. step.dt \in Nat /\ step.ipc \in 0..MaxPC /\ live[running].t \in Nat
    BY <1>0, DtNat DEF Types, SolutionType, StepType
  <2> QED
    BY <1>0, <2>1 DEF Types, SolutionType
<1>2. step.t \in Nat /\ step.ipc \in 1..MaxPC /\ step.dt \in Dts
  BY <1>0 DEF Types, StepType, SetupType, Control
<1>3. CASE running < NAgents
  <2>1. running + 1 \in Agents /\ PhysicsBegins(running + 1, step.t, step.dt, step.ipc) /\ phase' = phase
    BY <1>0, <1>3 DEF PhysicsEnds, Agents
  <2>2. /\ running' = running + 1 /\ asked' = -1
        /\ agent'[running + 1].timestamp = step.t /\ agent'[running + 1].dt = step.dt
        /\ agent' \in [Agents -> AgentType] /\ data' \in DataType
    BY <2>1, <1>2, PhysicsBeginsFacts
  <2>3. Types'
    BY <1>0, <1>1, <2>1, <2>2 DEF Types, Agents
  <2>4. Control'
    BY <1>0, <2>1, <2>2 DEF Control, Types, Agents
  <2> QED
    BY <2>1, <2>3, <2>4, <1>0, ReadyKept DEF Alive
<1>4. CASE ~(running < NAgents)
  <2>1. phase' = "ran" /\ running' = 0 /\ asked' = -1 /\ UNCHANGED <<agent, data>>
    BY <1>4 DEF PhysicsEnds
  <2>2. Types'
    BY <1>0, <1>1, <2>1 DEF Types, Phases
  <2>3. Control'
    BY <1>0, <2>1 DEF Control, Types
  <2> QED
    BY <2>1, <2>2, <2>3, <1>0, ReadyKept DEF Alive
<1> QED
  BY <1>3, <1>4

LEMMA LifeOfCheckConvergence ==
    ASSUME LifeInv, NEW c \in BOOLEAN, check_convergence(c) PROVE LifeInv'
<1> USE CouplingAssumption DEF LifeInv
<1>0. /\ phase = "ran" /\ phase' = "stepping"
      /\ setup.maxPredCorr = 1 => c
      /\ step' = IF c \/ step.ipc = setup.maxPredCorr
                 THEN [t |-> step.t + step.dt, dt |-> step.dt, ipc |-> 0, last |-> step.dt]
                 ELSE step
      /\ UNCHANGED <<scheduled, inited, windows, setup, running, agent, data, asked,
                     live, backup, accepted>>
  BY DEF check_convergence, lifecycle, solution
<1>1. step' \in StepType
  <2>1. step.dt \in Nat
    BY DtNat DEF Types, StepType
  <2> QED
    BY <1>0, <2>1 DEF Types, StepType
<1>2. step'.ipc < setup.maxPredCorr
  BY <1>0 DEF Control, Types, StepType, SetupType
<1>3. Types'
  BY <1>0, <1>1 DEF Types, Phases
<1>4. Control'
  BY <1>0, <1>2 DEF Control, Types
<1> QED
  BY <1>3, <1>4, <1>0, ReadyKept DEF Alive

\* The value at the time asked for is an integer: no divisor is 0.
LEMMA InterpolatedType ==
    ASSUME Types, step.dt \in Dts, NEW t \in Nat, NEW old_dt \in Nat, NEW h \in 0..2
    PROVE  Interpolated(t, step.dt, old_dt, h) \in Int
<1> DEFINE dt == step.dt
<1>1. data.attr \in Int /\ data.old \in Int /\ data.grad \in Int
  BY DEF Types, DataType
<1>2. dt \in Nat \ {0}
  BY CouplingAssumption
<1> HIDE DEF dt
<1>3. Line(h) \in Int
  <2>1. ((h - 2) * (data.attr - data.old)) \in Int
    BY <1>1
  <2>2. ((h - 2) * (data.attr - data.old)) \div 2 \in Int
    BY <2>1
  <2> QED
    BY <1>1, <2>2 DEF Line
<1>4. Slope(dt, old_dt) \in Int
  <2>1. 2 * (data.attr - data.old) \in Int /\ old_dt + dt \in Nat \ {0}
    BY <1>1, <1>2
  <2> QED
    BY <2>1 DEF Slope
<1>5. CentralLine(dt, old_dt, h) \in Int
  <2>1. limit1(data.grad, Slope(dt, old_dt)) \in Int
    BY <1>1, <1>4 DEF limit1
  <2>2. (h - 1) * dt \in Int
    BY <1>2
  <2>3. ((h - 1) * dt) \div 2 \in Int
    BY <2>2
  <2>4. (IF setup.grad THEN limit1(data.grad, Slope(dt, old_dt)) ELSE Slope(dt, old_dt)) \in Int
    BY <2>1, <1>4
  <2> QED
    BY <1>1, <2>3, <2>4 DEF CentralLine
<1>6. Interpolated(t, dt, old_dt, h) \in Int
  BY <1>1, <1>3, <1>5 DEF Interpolated
<1> QED
  BY <1>6 DEF dt

LEMMA ObtainBcFacts ==
    ASSUME LifeInv, NEW h \in 0..2, NEW level \in 1..2, obtain_bc(h, level)
    PROVE  /\ phase = "running" /\ running = Fed
           /\ UNCHANGED <<phase, scheduled, inited, windows, setup, step, running, agent,
                          live, backup, accepted>>
           /\ \/ UNCHANGED <<data, asked>>
              \/ /\ asked' = h
                 /\ data' = [data EXCEPT !.alp =
                       Interpolated(agent[Fed].timestamp, agent[Fed].dt, agent[Fed].old_dt, h)]
<1>1. <<Fed, "bc">> \in inited
  <2>1. <<Fed, "bc">> \in CallMethod
    BY CouplingAssumption DEF CallMethod, Schedulers, AgentSchedulers, Agents, Fed
  <2> QED
    BY <2>1 DEF LifeInv, obtain_bc, Ready, Alive
<1> QED
  BY <1>1 DEF obtain_bc, lifecycle, solution

LEMMA LifeOfObtainBc ==
    ASSUME LifeInv, NEW h \in 0..2, NEW level \in 1..2, obtain_bc(h, level) PROVE LifeInv'
<1> USE CouplingAssumption DEF LifeInv
<1>1. CASE UNCHANGED <<data, asked>>
  <2>1. Types' /\ Control'
    BY <1>1, ObtainBcFacts DEF Types, Control
  <2> QED
    BY <2>1, ObtainBcFacts, ReadyKept DEF Alive
<1>2. CASE /\ asked' = h
           /\ data' = [data EXCEPT !.alp =
                 Interpolated(agent[Fed].timestamp, agent[Fed].dt, agent[Fed].old_dt, h)]
  <2> DEFINE x == Interpolated(agent[Fed].timestamp, agent[Fed].dt, agent[Fed].old_dt, h)
  <2>1. /\ Fed \in Agents /\ agent[Fed].timestamp \in Nat /\ agent[Fed].old_dt \in Nat
        /\ agent[Fed].dt = step.dt /\ step.dt \in Dts
    BY ObtainBcFacts, DtNat DEF Control, Types, AgentType, Fed, Agents
  <2>2. x \in Int
    BY <2>1, InterpolatedType
  <2> HIDE DEF x
  <2>3. data' \in DataType
    BY <1>2, <2>2 DEF Types, DataType, x
  <2>4. Types'
    BY <1>2, <2>3, ObtainBcFacts DEF Types
  <2>5. Control'
    BY <1>2, ObtainBcFacts DEF Control, Types
  <2> QED
    BY <2>4, <2>5, ObtainBcFacts, ReadyKept DEF Alive
<1> QED
  BY <1>1, <1>2, ObtainBcFacts

LEMMA ObtainGmFacts ==
    ASSUME LifeInv, obtain_gm PROVE phase = "running" /\ UNCHANGED vars
<1>1. <<running, "gm">> \in inited
  <2>1. running \in Agents /\ phase = "running"
    BY CouplingAssumption DEF LifeInv, obtain_gm, Types, Control, Agents
  <2>2. <<running, "gm">> \in CallMethod
    BY <2>1 DEF CallMethod, Schedulers, AgentSchedulers
  <2> QED
    BY <2>1, <2>2 DEF LifeInv, Ready, Alive
<1> QED
  BY <1>1 DEF obtain_gm, vars, lifecycle, solution

LEMMA LifeStutters == ASSUME LifeInv, UNCHANGED vars PROVE LifeInv'
<1>1. \A a : Buffers(a)' = Buffers(a)
  BY DEF Buffers, vars
<1> QED
  BY <1>1 DEF LifeInv, Types, Control, Ready, vars

LEMMA LifeStep == LifeInv /\ [Next]_vars => LifeInv'
  BY LifeOfInit, LifeOfFinalize, LifeOfDestroy, LifeOfInitConvergence, LifeOfRun,
     LifeOfPhysicsEnds, LifeOfCheckConvergence, LifeOfObtainBc, ObtainGmFacts, LifeStutters
     DEF Next

\* The inductive invariant of the life cycle holds of every coupling.
THEOREM LifeInvariant == Spec => []LifeInv
<1>1. LifeInv /\ [Next]_vars => LifeInv'
  BY LifeStep
<1> QED
  BY <1>1, LifeInit, PTL DEF Spec

\* Coupling and Agent: no step or callback meets a scheduler that is not inited,
\* a finalisation does just if a module never called init_callback, and every
\* window is there while it is needed and gone at the end, those of the solvers
\* at restart excepted, for any number of agents.
THEOREM LifeCycleHolds == Spec => []LifeCycle
<1>1. LifeInv => LifeCycle
  <2> SUFFICES ASSUME LifeInv PROVE LifeCycle
    OBVIOUS
  <2>1. TypeOK
    <3>1. step.t \in Nat /\ step.dt \in Dts \cup {0} /\ step.ipc \in 0..MaxPC
      BY DEF LifeInv, Types, StepType
    <3>2. \A a \in Agents : agent[a].old_dt \in Dts \cup {0}
      BY DEF LifeInv, Types, AgentType
    <3>3. \A x \in DOMAIN data : data[x] \in Int
      BY DEF LifeInv, Types, DataType
    <3> QED
      BY <3>1, <3>2, <3>3 DEF LifeInv, Types, TypeOK, Phases
  <2>2. AbortsOnlyUncalled
    BY DEF LifeInv, Control, Ready, AbortsOnlyUncalled
  <2>3. WindowsAccounted
    BY DEF LifeInv, Ready, Alive, WindowsAccounted
  <2> QED
    BY <2>1, <2>2, <2>3 DEF LifeCycle
<1> QED
  BY <1>1, LifeInvariant, PTL

------------------------------------------------------------------------------
(* Corrector iterations *)

LEMMA RestartsStep == LifeInv /\ Restarts /\ [Next]_vars => Restarts'
<1> SUFFICES ASSUME LifeInv, Restarts, [Next]_vars PROVE Restarts'
  OBVIOUS
<1> USE CouplingAssumption
<1>1. ASSUME init PROVE Restarts'
  <2>1. phase = "constructed" /\ phase' = "stepping" /\ step' = step
    BY <1>1, Zenon DEF init
  <2> QED
    BY <2>1 DEF Restarts, LifeInv, Control, Types, StepType, SetupType
<1>2. ASSUME finalize PROVE Restarts'
  <2>1. phase' \in {"finalized", "aborted"}
    BY <1>2 DEF finalize
  <2> QED
    BY <2>1 DEF Restarts, Alive
<1>3. ASSUME Destroy PROVE Restarts'
  BY <1>3 DEF Destroy, Restarts, Alive
<1>4. ASSUME init_convergence PROVE Restarts'
  <2>1. /\ phase = "stepping" /\ phase' = "ready" /\ setup' = setup
        /\ accepted' = IF step.ipc = 0 THEN live ELSE accepted
        /\ step.ipc < setup.maxPredCorr /\ step'.ipc = step.ipc + 1
        /\ step.ipc \in Nat /\ setup.maxPredCorr \in Nat
    BY <1>4 DEF init_convergence, lifecycle, LifeInv, Types, StepType, SetupType
  <2>2. CASE setup.maxPredCorr = 1
    BY <1>4, <2>1, <2>2 DEF Restarts, init_convergence
  <2>3. CASE setup.maxPredCorr > 1 /\ step.ipc = 0
    <3>1. backup' = live /\ live' = live /\ accepted' = live
      BY <1>4, <2>1, <2>3 DEF init_convergence, Stores
    <3> QED
      BY <2>1, <3>1 DEF Restarts
  <2>4. CASE setup.maxPredCorr > 1 /\ step.ipc > 0
    <3>1. live' = backup /\ backup' = backup /\ accepted' = accepted
      BY <1>4, <2>1, <2>4 DEF init_convergence, Stores
    <3>2. backup = accepted
      BY <2>1, <2>4 DEF Restarts, Alive
    <3> QED
      BY <2>1, <3>1, <3>2 DEF Restarts
  <2> QED
    BY <2>1, <2>2, <2>3, <2>4
<1>5. ASSUME NEW dt \in Dts, run(dt) PROVE Restarts'
  <2>1. /\ phase = "ready" /\ UNCHANGED <<live, backup, accepted, setup>>
    BY <1>5 DEF run, lifecycle, solution
  <2>2. phase' = "running" /\ running' = 1 /\ step'.ipc = step.ipc
    BY <1>5, RunFacts DEF PhysicsBegins, LifeInv, Types, StepType
  <2> QED
    BY <2>1, <2>2 DEF Restarts, Alive
<1>6. ASSUME PhysicsEnds PROVE Restarts'
  <2>1. /\ phase = "running" /\ running \in Agents /\ running \in Nat
        /\ live' = [live EXCEPT ![running] = [t |-> live[running].t + step.dt, pc |-> step.ipc]]
        /\ UNCHANGED <<setup, step, backup, accepted>>
    BY <1>6 DEF PhysicsEnds, lifecycle, LifeInv, Control, Types, Agents
  <2>2. live \in [Agents -> SolutionType]
    BY DEF LifeInv, Types
  <2>3. live'[running].t = accepted[running].t + step.dt
    BY <2>1, <2>2 DEF Restarts, Agents
  <2>4. \A a \in Agents : a # running => live'[a] = live[a]
    BY <2>1, <2>2
  <2>5. \A a \in 1..running : live'[a].t = accepted[a].t + step.dt
    BY <2>1, <2>3, <2>4 DEF Restarts, Agents
  <2>6. \A a \in (running + 1)..NAgents : live'[a] = accepted[a]
    BY <2>1, <2>4 DEF Restarts, Agents
  <2>7. CASE running < NAgents
    <3>1. phase' = "running" /\ running' = running + 1
      BY <1>6, <2>1, <2>7 DEF PhysicsEnds, PhysicsBegins
    <3> QED
      BY <2>1, <2>5, <2>6, <3>1 DEF Restarts, Alive
  <2>8. CASE running = NAgents
    <3>1. phase' = "ran"
      BY <1>6, <2>1, <2>8 DEF PhysicsEnds
    <3> QED
      BY <2>1, <2>5, <2>8, <3>1 DEF Restarts, Alive, Agents
  <2> QED
    BY <2>1, <2>7, <2>8 DEF Agents
<1>7. ASSUME NEW c \in BOOLEAN, check_convergence(c) PROVE Restarts'
  <2>1. /\ phase = "ran" /\ phase' = "stepping"
        /\ UNCHANGED <<setup, live, backup, accepted>>
        /\ step' = step \/ step'.ipc = 0
    BY <1>7 DEF check_convergence, lifecycle, solution
  <2> QED
    BY <2>1 DEF Restarts, Alive, LifeInv, Types, StepType
<1>8. ASSUME NEW h \in 0..2, NEW level \in 1..2, obtain_bc(h, level) PROVE Restarts'
  BY <1>8, ObtainBcFacts DEF Restarts
<1>9. CASE obtain_gm \/ UNCHANGED vars
  BY <1>9, ObtainGmFacts DEF Restarts, vars
<1> QED
  BY <1>1, <1>2, <1>3, <1>4, <1>5, <1>6, <1>7, <1>8, <1>9 DEF Next

\* Agent::init_convergence and PhysicsAction::run: every iteration starts each
\* module on the solution it had when the step began, and an accepted step
\* advances it once, for any number of agents and iterations.
THEOREM CorrectorRestartsHolds == Spec => []CorrectorRestarts
<1>1. Init => Restarts
  BY DEF Init, Restarts, Alive
<1>2. Restarts => CorrectorRestarts
  BY DEF Restarts, CorrectorRestarts
<1>3. LifeInv /\ Restarts /\ [Next]_vars => Restarts'
  BY RestartsStep
<1> QED
  BY <1>1, <1>2, <1>3, LifeInvariant, PTL DEF Spec

------------------------------------------------------------------------------
(* Interpolation *)

\* The middle of an even step
LEMMA Middle ==
    ASSUME NEW d \in Dts \cup {0}
    PROVE  /\ d \div 2 \in Nat /\ d = 2 * (d \div 2)
<1>1. d \in Nat /\ d % 2 = 0
  BY CouplingAssumption
<1> QED
  BY <1>1

\* At the end of a step the data transferred are those of the last step.
LEMMA TransferredBefore ==
    ASSUME NEW t \in Nat, NEW dt \in Dts
    PROVE  Transferred(t, dt) = IF Central THEN Scale * (t + dt) - Scale * (dt \div 2)
                                ELSE Scale * (t + dt)
<1> DEFINE k == dt \div 2
<1>1. k \in Nat /\ dt = 2 * k
  BY Middle
<1> HIDE DEF k
<1>2. Scale * (t + k) = Scale * (t + 2 * k) - Scale * k
  BY <1>1, CouplingAssumption
<1> QED
  BY <1>1, <1>2 DEF Transferred, k

LEMMA BackupsStep == LifeInv /\ Backups /\ [Next]_vars => Backups'
<1> SUFFICES ASSUME LifeInv, Backups, [Next]_vars PROVE Backups'
  OBVIOUS
<1> USE CouplingAssumption
<1>0. /\ step.ipc \in Nat /\ running \in Nat /\ asked \in Int /\ setup.maxPredCorr \in Nat \ {0}
      /\ Fed \in Nat \ {0} /\ step.t \in Nat
  BY DEF LifeInv, Types, StepType, SetupType, Fed
<1>1. ASSUME init PROVE Backups'
  <2>1. /\ phase = "constructed" /\ phase' = "stepping"
        /\ UNCHANGED <<setup, step, running, data, asked>>
    BY <1>1, Zenon DEF init
  <2>2. running = 0 /\ asked < 0 /\ step.ipc = 0
    BY <1>0, <2>1 DEF LifeInv, Control
  <2> QED
    BY <1>0, <2>1, <2>2 DEF Backups, Before, Known, Transferring, Central, Transferred
<1>2. ASSUME finalize \/ Destroy PROVE Backups'
  <2>1. /\ phase' \in {"finalized", "destroyed", "aborted"} /\ running = 0
        /\ UNCHANGED <<setup, step, running, data, asked>>
    BY <1>2 DEF finalize, Destroy, LifeInv, Control
  <2>2. asked < 0
    BY <1>0, <2>1 DEF LifeInv, Control
  <2> QED
    BY <1>0, <2>1, <2>2 DEF Backups, Transferring, Alive
<1>3. ASSUME init_convergence PROVE Backups'
  <2>1. /\ phase = "stepping" /\ phase' = "ready" /\ step'.ipc = step.ipc + 1
        /\ step'.t = step.t /\ step'.last = step.last
        /\ UNCHANGED <<setup, running, data, asked>>
    BY <1>3 DEF init_convergence, lifecycle, LifeInv, Types, StepType
  <2>2. running = 0 /\ asked < 0
    BY <1>0, <2>1 DEF LifeInv, Control
  <2>3. Before' = Before /\ Known' = Known
    BY <2>1 DEF Before, Known, Central
  <2> QED
    BY <1>0, <2>1, <2>2, <2>3 DEF Backups, Transferring, Alive
<1>4. ASSUME NEW dt \in Dts, run(dt) PROVE Backups'
  <2>1. /\ phase = "ready" /\ setup' = setup /\ phase' \in {"running", "aborted"}
    BY <1>4 DEF run, lifecycle
  <2>2. phase' = "running"
    BY <1>4, RunFacts
  <2>3. /\ PhysicsBegins(1, step.t, dt, step.ipc)
        /\ step'.ipc = step.ipc /\ step'.t = step.t /\ step'.last = step.last /\ step'.dt = dt
    BY <1>4, <2>2 DEF run, LifeInv, Types, StepType
  <2>4. step.ipc \in 1..MaxPC /\ 1 \in Agents /\ running = 0
    BY <2>1 DEF LifeInv, Types, StepType, SetupType, Control, Agents
  <2>5. /\ running' = 1 /\ asked' = -1 /\ (1 # Fed => data' = data)
        /\ 1 = Fed => /\ data'.attr = Transferred(step.t, dt)
                      /\ setup.dobackup => data'.old = IF step.ipc = 1 THEN data.attr ELSE data.old
    BY <1>0, <2>3, <2>4, PhysicsBeginsFacts DEF LifeInv
  <2>6. Before' = Before /\ Known' = Known /\ Transferred(step.t, dt) = Transferred(step.t, step.dt)'
    BY <2>1, <2>3 DEF Before, Known, Central, Transferred
  <2>7. CASE 1 # Fed
    BY <1>0, <2>1, <2>2, <2>3, <2>4, <2>5, <2>6, <2>7 DEF Backups, Transferring, Alive
  <2>8. CASE 1 = Fed
    <3>1. Known => data'.old = Before
      BY <1>0, <2>1, <2>4, <2>5, <2>8 DEF Backups, Alive, Known
    <3> QED
      BY <1>0, <2>1, <2>2, <2>3, <2>5, <2>6, <2>8, <3>1 DEF Backups, Transferring, Alive
  <2> QED
    BY <2>7, <2>8
<1>5. ASSUME PhysicsEnds PROVE Backups'
  <2>1. phase = "running" /\ running \in Agents /\ running # 0 /\ UNCHANGED <<setup, step>>
    BY <1>5 DEF PhysicsEnds, lifecycle, LifeInv, Control, Types, Agents
  <2>2. step.ipc \in 1..MaxPC /\ step.dt \in Dts
    BY <2>1 DEF LifeInv, Types, StepType, SetupType, Control
  <2>3. Before' = Before /\ Known' = Known /\ Transferred(step.t, step.dt)' = Transferred(step.t, step.dt)
    BY <2>1 DEF Before, Known, Central, Transferred
  <2>4. CASE running < NAgents
    <3>1. /\ phase' = phase /\ running + 1 \in Agents
          /\ PhysicsBegins(running + 1, step.t, step.dt, step.ipc)
      BY <1>5, <2>1, <2>4 DEF PhysicsEnds, Agents
    <3>2. /\ running' = running + 1 /\ asked' = -1 /\ (running + 1 # Fed => data' = data)
          /\ running + 1 = Fed => /\ data'.attr = Transferred(step.t, step.dt)
                                  /\ setup.dobackup => data'.old = IF step.ipc = 1 THEN data.attr ELSE data.old
      <4>1. Types /\ step.t \in Nat /\ running + 1 \in Agents /\ step.dt \in Dts /\ step.ipc \in 1..MaxPC
        BY <1>0, <2>2, <3>1 DEF LifeInv
      <4> HIDE CouplingAssumption
      <4> QED
        BY <4>1, <3>1, PhysicsBeginsFacts
    <3>3. running # Fed
      BY <2>4 DEF Fed
    <3>4. CASE running + 1 # Fed
      BY <1>0, <2>1, <2>2, <2>3, <3>1, <3>2, <3>3, <3>4 DEF Backups, Transferring, Alive
    <3>5. CASE running + 1 = Fed
      <4>1. Known => data'.old = Before
        BY <1>0, <2>1, <2>2, <3>2, <3>3, <3>5 DEF Backups, Alive, Known
      <4> QED
        BY <1>0, <2>1, <2>3, <3>1, <3>2, <3>5, <4>1 DEF Backups, Transferring, Alive
    <3> QED
      BY <3>4, <3>5
  <2>5. CASE running = NAgents
    <3>1. phase' = "ran" /\ running' = 0 /\ asked' = -1 /\ data' = data
      BY <1>5, <2>1, <2>5 DEF PhysicsEnds
    <3> QED
      BY <1>0, <2>1, <2>3, <2>5, <3>1 DEF Backups, Transferring, Alive, Fed
  <2> QED
    BY <2>1, <2>4, <2>5 DEF Agents
<1>6. ASSUME NEW c \in BOOLEAN, check_convergence(c) PROVE Backups'
  <2>1. /\ phase = "ran" /\ phase' = "stepping" /\ UNCHANGED <<setup, running, data, asked, agent>>
        /\ \/ step' = step /\ step.ipc # setup.maxPredCorr
           \/ step' = [t |-> step.t + step.dt, dt |-> step.dt, ipc |-> 0, last |-> step.dt]
    BY <1>6 DEF check_convergence, lifecycle, solution
  <2>2. running = 0 /\ asked < 0 /\ step.dt \in Dts /\ step.ipc \in 1..setup.maxPredCorr
    BY <1>0, <2>1 DEF LifeInv, Control
  <2>3. CASE step' = step
    <3>1. Before' = Before /\ Known' = Known
      BY <2>1, <2>3 DEF Before, Known, Central
    <3> QED
      BY <1>0, <2>1, <2>2, <2>3, <3>1 DEF Backups, Transferring, Alive
  <2>4. CASE step' = [t |-> step.t + step.dt, dt |-> step.dt, ipc |-> 0, last |-> step.dt]
    <3>1. data.attr = Transferred(step.t, step.dt)
      BY <2>1 DEF Backups, Transferring
    <3>2. data.attr = Before'
      BY <1>0, <2>1, <2>2, <2>4, <3>1, TransferredBefore DEF Before, Central
    <3> QED
      BY <1>0, <2>1, <2>2, <2>4, <3>2 DEF Backups, Transferring, Alive
  <2> QED
    BY <2>1, <2>3, <2>4
<1>7. ASSUME NEW h \in 0..2, NEW level \in 1..2, obtain_bc(h, level) PROVE Backups'
  <2>1. CASE UNCHANGED <<data, asked>>
    BY <1>7, <2>1, ObtainBcFacts
       DEF Backups, Before, Known, Central, Transferring, Transferred, Interpolated, Copies,
           CentralLine, Line, Slope
  <2>2. CASE /\ asked' = h
             /\ data' = [data EXCEPT !.alp =
                   Interpolated(agent[Fed].timestamp, agent[Fed].dt, agent[Fed].old_dt, h)]
    <3>1. agent[Fed].timestamp = step.t /\ agent[Fed].dt = step.dt
      BY <1>0, <1>7, ObtainBcFacts DEF LifeInv, Control
    <3>2. /\ data'.attr = data.attr /\ data'.old = data.old /\ data'.grad = data.grad
          /\ data'.alp = Interpolated(step.t, step.dt, agent[Fed].old_dt, h)
      BY <2>2, <3>1 DEF LifeInv, Types, DataType
    <3>3. Interpolated(step.t, step.dt, agent[Fed].old_dt, asked)'
             = Interpolated(step.t, step.dt, agent[Fed].old_dt, h)
      BY <1>7, <2>2, <3>2, ObtainBcFacts
         DEF Interpolated, Copies, Central, CentralLine, Line, Slope
    <3>4. Before' = Before /\ Known' = Known /\ Transferring' = Transferring
          /\ Transferred(step.t, step.dt)' = Transferred(step.t, step.dt)
      BY <1>7, ObtainBcFacts DEF Before, Known, Central, Transferring, Transferred
    <3> QED
      BY <1>7, <3>2, <3>3, <3>4, ObtainBcFacts DEF Backups
  <2> QED
    BY <1>7, <2>1, <2>2, ObtainBcFacts
<1>8. CASE obtain_gm \/ UNCHANGED vars
  BY <1>8, ObtainGmFacts
     DEF vars, Backups, Before, Known, Central, Transferring, Transferred, Interpolated, Copies,
         CentralLine, Line, Slope
<1> QED
  BY <1>1, <1>2, <1>3, <1>4, <1>5, <1>6, <1>7, <1>8 DEF Next

\* A limited slope lies between 0 and the slope, whatever the gradient.
LEMMA LimitedSlope ==
    ASSUME NEW g \in Int, NEW s \in Nat
    PROVE  limit1(g, s) \in 0..s
  BY DEF limit1, Abs

LEMMA LinearExactHolds == LifeInv /\ Backups => LinearExact
<1> SUFFICES ASSUME LifeInv, Backups,
                    asked >= 0, setup.order # 0, step.t # 0, setup.dobackup \/ asked = 2,
                    \/ setup.kind = "Interpolate_Linear"
                    \/ setup.kind = "Extrapolate_Linear" /\ (step.ipc > 1 \/ setup.grad)
             PROVE  data.alp = Exact
  BY DEF LinearExact
<1> USE CouplingAssumption
<1>1. running = Fed /\ phase = "running" /\ asked \in 0..2 /\ step.dt \in Dts
      /\ step.t \in Nat /\ step.ipc \in Nat
  BY DEF LifeInv, Control, Types, Fed, StepType
<1>2. ~Central
  BY DEF Central
<1>3. ~Copies(step.t)
  BY <1>1 DEF Copies, new_start
<1>4. data.alp = Line(asked)
  BY <1>1, <1>2, <1>3 DEF Backups, Interpolated
<1> DEFINE k == step.dt \div 2
<1>5. k \in Nat /\ step.dt = 2 * k
  BY <1>1, Middle
<1>6. (setup.dobackup => data.old = Scale * step.t) /\ data.attr = Scale * (step.t + step.dt)
  BY <1>1, <1>2 DEF Backups, Known, Before, Transferring, Alive, Transferred
<1> HIDE DEF k
<1>7. /\ data.attr = Scale * step.t + 2 * (Scale * k)
      /\ setup.dobackup => data.attr - data.old = 2 * (Scale * k)
  BY <1>1, <1>5, <1>6
<1> DEFINE m == Scale * k
<1>8. m \in Int
  BY <1>5
<1>9. Scale * asked * step.dt = asked * (2 * m)
  BY <1>1, <1>5
<1> HIDE DEF m
<1>10. Exact = Scale * step.t + asked * m
  <2>1. (asked * (2 * m)) \div 2 = asked * m
    <3>1. asked * (2 * m) = 2 * (asked * m) /\ asked * m \in Int
      BY <1>1, <1>8
    <3> QED
      BY <3>1
  <2> QED
    BY <1>9, <2>1 DEF Exact
<1>11. CASE asked = 2
  BY <1>4, <1>7, <1>8, <1>10, <1>11, <1>1 DEF Line, m
<1>12. CASE asked = 0
  BY <1>4, <1>6, <1>8, <1>10, <1>12, <1>1 DEF Line
<1>13. CASE asked = 1
  <2>1. ((1 - 2) * (2 * m)) \div 2 = -m
    BY <1>8
  <2>2. Line(asked) = data.attr + ((1 - 2) * (2 * m)) \div 2
    BY <1>7, <1>13 DEF Line, m
  <2>3. Scale * step.t \in Int
    BY <1>1
  <2>4. data.attr = Scale * step.t + 2 * m
    BY <1>7 DEF m
  <2> QED
    BY <1>4, <1>8, <1>10, <1>13, <2>1, <2>2, <2>3, <2>4
<1> QED
  BY <1>1, <1>11, <1>12, <1>13

LEMMA CentralExactHolds == LifeInv /\ Backups => CentralExact
<1> SUFFICES ASSUME LifeInv, Backups,
                    asked >= 0, Central, setup.order # 0, step.t # 0, step.last > 0,
                    setup.dobackup \/ asked = 1,
                    setup.kind = "Interpolate_Central" \/ step.ipc > 1 \/ setup.grad,
                    step.dt = step.last, agent[Fed].old_dt = step.dt
             PROVE  IF setup.grad THEN Between(data.alp, data.attr, Exact) ELSE data.alp = Exact
  BY DEF CentralExact
<1> USE CouplingAssumption
<1>1. running = Fed /\ phase = "running" /\ asked \in 0..2 /\ step.dt \in Dts
      /\ step.t \in Nat /\ step.ipc \in Nat
  BY DEF LifeInv, Control, Types, Fed, StepType
<1>2. ~Copies(step.t)
  <2>1. setup.kind # "Interpolate_Constant"
    BY DEF Central
  <2> QED
    BY <1>1, <2>1 DEF Copies, new_start, Central
<1> DEFINE k == step.dt \div 2
           g == IF setup.grad THEN limit1(data.grad, Slope(step.dt, step.dt)) ELSE Slope(step.dt, step.dt)
<1>3. data.alp = data.attr + (((asked - 1) * step.dt) \div 2) * g
  BY <1>1, <1>2 DEF Backups, Interpolated, CentralLine
<1>4. k \in Nat \ {0} /\ step.dt = 2 * k /\ step.dt \in Nat
  <2>1. step.dt \in Nat \ {0}
    BY <1>1
  <2>2. k \in Nat /\ step.dt = 2 * k
    BY <1>1, Middle
  <2> QED
    BY <2>1, <2>2
<1>5. /\ setup.dobackup => data.old = Scale * step.t - Scale * k
      /\ data.attr = Scale * (step.t + k)
  BY <1>1 DEF Backups, Known, Before, Transferring, Alive, Transferred
<1> HIDE DEF k
<1>6. /\ data.attr = Scale * step.t + Scale * k
      /\ setup.dobackup => data.attr - data.old = Scale * step.dt
  <2>1. Scale * (step.t + k) = Scale * step.t + Scale * k
    BY <1>1, <1>4
  <2>2. Scale * (2 * k) = Scale * k + Scale * k
    BY <1>4
  <2>3. Scale * step.t \in Int /\ Scale * k \in Int
    BY <1>1, <1>4
  <2> QED
    BY <1>4, <1>5, <2>1, <2>2, <2>3
<1>7. setup.dobackup => Slope(step.dt, step.dt) = Scale
  <2>1. 2 * (Scale * step.dt) = Scale * (step.dt + step.dt) /\ step.dt + step.dt \in Nat \ {0}
    BY <1>4
  <2>2. \A n \in Nat \ {0} : (Scale * n) \div n = Scale
    <3> SUFFICES ASSUME NEW n \in Nat \ {0} PROVE (Scale * n) \div n = Scale
      OBVIOUS
    <3> DEFINE q == (Scale * n) \div n
    <3>1. q \in Int /\ n * q <= Scale * n /\ Scale * n < n * q + n
      OBVIOUS
    <3> HIDE DEF q
    <3>2. q <= Scale
      BY <3>1
    <3>3. Scale < q + 1
      BY <3>1
    <3> QED
      BY <3>1, <3>2, <3>3 DEF q
  <2> QED
    BY <1>6, <2>1, <2>2 DEF Slope
<1>8. ((asked - 1) * step.dt) \div 2 = (asked - 1) * k
  <2>1. (asked - 1) * step.dt = 2 * ((asked - 1) * k) /\ (asked - 1) * k \in Int
    BY <1>1, <1>4
  <2> QED
    BY <2>1
<1>9. Exact = Scale * step.t + asked * (Scale * k)
  <2>1. Scale * asked * step.dt = 2 * (asked * (Scale * k)) /\ asked * (Scale * k) \in Int
    BY <1>1, <1>4
  <2>2. (Scale * asked * step.dt) \div 2 = asked * (Scale * k)
    BY <2>1
  <2> QED
    BY <2>2 DEF Exact
<1>10. data.alp = data.attr + ((asked - 1) * k) * g
  BY <1>3, <1>8
<1>11. Exact = data.attr + ((asked - 1) * k) * Scale
  <2> DEFINE m == Scale * k
             u == Scale * step.t
  <2>1. m \in Int /\ u \in Int
    BY <1>1, <1>4
  <2>2. ((asked - 1) * k) * Scale = (asked - 1) * m
    BY <1>1, <1>4
  <2>3. data.attr = u + m /\ Exact = u + asked * m
    BY <1>6, <1>9
  <2> HIDE DEF m, u
  <2> QED
    BY <2>1, <2>2, <2>3, <1>1
<1>14. CASE ~setup.dobackup
  <2>1. Slope(step.dt, step.dt) \in Int
    <3>1. 2 * (data.attr - data.old) \in Int /\ step.dt + step.dt \in Nat \ {0}
      BY <1>4 DEF LifeInv, Types, DataType
    <3> QED
      BY <3>1 DEF Slope
  <2>2. g \in Int /\ data.attr \in Int
    BY <2>1 DEF limit1, LifeInv, Types, DataType
  <2> HIDE DEF g
  <2>3. asked = 1
    BY <1>14
  <2>4. data.alp = data.attr /\ Exact = data.attr
    BY <1>4, <1>10, <1>11, <2>2, <2>3
  <2> QED
    BY <2>2, <2>4 DEF Between
<1>12. CASE setup.dobackup /\ ~setup.grad
  BY <1>7, <1>10, <1>11, <1>12
<1>13. CASE setup.dobackup /\ setup.grad
  <2>1. g \in 0..Scale
    BY <1>7, <1>13, LimitedSlope DEF LifeInv, Types, DataType
  <2> HIDE DEF g
  <2>2. k * g \in Int /\ k * Scale \in Int /\ 0 <= k * g /\ k * g <= k * Scale
    BY <1>4, <2>1
  <2>3. ((asked - 1) * k) * g = (asked - 1) * (k * g) /\ ((asked - 1) * k) * Scale = (asked - 1) * (k * Scale)
    BY <1>1, <1>4, <2>1
  <2> DEFINE x == k * g
             y == k * Scale
  <2>4. data.attr \in Int
    BY DEF LifeInv, Types, DataType
  <2>5. x \in Int /\ y \in Int /\ 0 <= x /\ x <= y
        /\ data.alp = data.attr + (asked - 1) * x /\ Exact = data.attr + (asked - 1) * y
    BY <1>10, <1>11, <2>2, <2>3
  <2> HIDE DEF x, y
  <2>9. x \in Int /\ y \in Int /\ 0 <= x /\ x <= y
    BY <2>5
  <2>6. CASE asked = 0
    <3>1. data.alp = data.attr - x /\ Exact = data.attr - y
      BY <2>4, <2>5, <2>6
    <3> QED
      BY <1>13, <2>4, <2>9, <3>1 DEF Between
  <2>7. CASE asked = 1
    <3>1. data.alp = data.attr /\ Exact = data.attr
      BY <2>4, <2>5, <2>7
    <3> QED
      BY <1>13, <2>4, <2>9, <3>1 DEF Between
  <2>8. CASE asked = 2
    <3>1. data.alp = data.attr + x /\ Exact = data.attr + y
      BY <2>4, <2>5, <2>8
    <3> QED
      BY <1>13, <2>4, <2>9, <3>1 DEF Between
  <2> QED
    BY <1>1, <1>13, <2>6, <2>7, <2>8
<1> QED
  BY <1>12, <1>13, <1>14

\* InterpolateBase and its schemes: boundary data that a module obtains are
\* those of the time it asked for when the data are linear in time and backed up
\* (dobackup), or the time needs no old data, for any steps, any number of
\* iterations and any growth of the data.
THEOREM InterpolationExactHolds == Spec => []InterpolationExact
<1>1. Init => Backups
  <2> SUFFICES ASSUME Init PROVE Backups
    OBVIOUS
  <2>1. PICK t \in Starts : step = [t |-> t, dt |-> 0, ipc |-> 0, last |-> 0]
    BY DEF Init
  <2>2. data.attr = Scale * step.t /\ phase = "constructed" /\ running = 0 /\ asked = -1
    BY DEF Init
  <2>3. Known => ~Central
    BY <2>1 DEF Known
  <2>4. ~Transferring /\ ~(asked >= 0)
    BY <2>2, CouplingAssumption DEF Transferring, Fed
  <2> QED
    BY <2>2, <2>3, <2>4 DEF Backups, Before, Alive
<1>2. LifeInv /\ Backups /\ [Next]_vars => Backups'
  BY BackupsStep
<1>3. LifeInv /\ Backups => InterpolationExact
  BY LinearExactHolds, CentralExactHolds DEF InterpolationExact
<1> QED
  BY <1>1, <1>2, <1>3, LifeInvariant, PTL DEF Spec
=============================================================================
