----------------------------- MODULE SimCoupling ------------------------------
(***************************************************************************)
(* A Coupling and its Agents: the life cycle of their schedulers and COM   *)
(* windows, the steps with predictor-corrector iterations, and the         *)
(* interpolation of boundary data while a physics module runs.             *)
(*                                                                         *)
(* The driver calls init once, then for every step init_convergence, run   *)
(* and check_convergence with iterations counted from 1, and finalize at   *)
(* the end.  run executes the physics action of each agent in turn; the    *)
(* physics module calls obtain_bc and obtain_gm back while it runs.  The   *)
(* last agent is fed by the ones before it: a transfer on its bcInit       *)
(* scheduler writes attr, an Interpolate action on its bc scheduler makes  *)
(* attr_alp from it.                                                       *)
(*                                                                         *)
(* The data transferred grow linearly with time: Scale times the time they *)
(* stand for.  So the value at any time is known, and what interpolation   *)
(* must give with it.  Times and steps are even numbers, alpha is h / 2.   *)
(***************************************************************************)
EXTENDS Integers, Sequences, FiniteSets

CONSTANTS
    NAgents,        \* agents of the coupling
    Dts,            \* time steps
    Starts,         \* times the simulation may start at
    MaxPC,          \* bound on maxPredCorr
    MaxTime,        \* bound on the time simulated
    Scale

ASSUME CouplingAssumption ==
    /\ NAgents \in Nat \ {0} /\ MaxPC \in Nat \ {0} /\ MaxTime \in Nat /\ Scale \in Nat
    /\ Dts \subseteq Nat \ {0} /\ Starts \subseteq Nat
    /\ \A d \in Dts : d % 2 = 0

Agents == 1..NAgents
Fed == NAgents
Kinds == {"Extrapolate_Linear", "Extrapolate_Central", "Interpolate_Linear",
          "Interpolate_Central", "Interpolate_Constant"}

VARIABLES
    phase,          \* of the driver
    scheduled, inited,  \* schedulers whose flags are set
    windows,        \* COM windows there are
    setup,          \* has_bcflag, restarting, maxPredCorr, gm; kind, order, grad;
                    \* dobackup, and the agents whose module calls init_callback
    step,           \* t, dt, iPredCorr, dt of the last step (0 if none)
    running,        \* agent whose physics module runs, 0 if none
    agent,          \* timestamp, current_deltatime, old_dt of each agent
    data,           \* attr, attr_old, attr_grad, attr_alp of agent Fed
    asked,          \* 2 * alpha of the last obtain_bc, -1 if the data changed since
    live, backup,   \* the dataitems of pc_hdls
    accepted        \* the solution each agent had when the step began

vars == <<phase, scheduled, inited, windows, setup, step, running, agent, data,
          asked, live, backup, accepted>>
lifecycle == <<scheduled, inited, windows, setup>>
solution == <<live, backup, accepted>>

------------------------------------------------------------------------------
(* Schedulers and windows                                                  *)

AgentSchedulers == Agents \X {"ic", "bcInit", "bc", "gm"}
Schedulers == {<<0, "init">>, <<0, "main">>} \cup AgentSchedulers

\* callMethod reaches all schedulers but ic.  Mutant: gm is forgotten.
CallMethodWithoutGm == {s \in Schedulers : s[2] \notin {"ic", "gm"}}
CallMethod == {s \in Schedulers : s[2] # "ic"}

SplitWindows(a) == {<<a, w>> : w \in {"surf_i", "surf_nb", "surf_b", "surf_ni"}}
\* init_callback makes the buffers.
Buffers(a) ==
    IF a \notin setup.callback THEN {}
    ELSE {<<a, "surf_all">>} \cup (IF setup.bcflag THEN SplitWindows(a) ELSE {})
InputWindows(a) == {<<a, "surfIN">>, <<a, "volIN">>}

Solution0 == [t |-> 0, pc |-> 0]

Init ==
    /\ phase = "constructed"
    /\ scheduled = {} /\ inited = {}
    /\ windows = {<<a, "module">> : a \in Agents}
    /\ setup \in [bcflag : BOOLEAN, restarting : BOOLEAN, maxPredCorr : 1..MaxPC,
                  gm : BOOLEAN, kind : Kinds,
                  order : {0, 1},      \* never initialised: any value
                  grad : BOOLEAN,      \* attr_grad exists
                  dobackup : BOOLEAN,  \* false unless a derived agent sets it
                  callback : {S \in SUBSET Agents : Fed \in S}]
    /\ \E t \in Starts : step = [t |-> t, dt |-> 0, ipc |-> 0, last |-> 0]
    /\ running = 0
    /\ agent = [a \in Agents |-> [timestamp |-> 0, dt |-> 0, old_dt |-> 0]]
    /\ data = [attr |-> Scale * step.t, old |-> 0, grad |-> 0, alp |-> 0]
    /\ asked = -1
    /\ live = [a \in Agents |-> Solution0]
    /\ backup = [a \in Agents |-> Solution0]
    /\ accepted = [a \in Agents |-> Solution0]

\* Agent::init: the window of the callbacks, the input windows, and initialize
\* of the module, which makes its own windows and may call init_callback back;
\* then the input windows are deleted.
InitWindows(W) ==
    UNION {((W \cup {<<a, "agent">>} \cup InputWindows(a))
               \cup {<<a, "solver">>} \cup Buffers(a)) \ InputWindows(a) : a \in Agents}

\* Coupling::init schedules every scheduler and inits it; init_callback inits
\* and runs ic.
init ==
    /\ phase = "constructed"
    /\ phase' = "stepping"
    /\ scheduled' = Schedulers
    /\ inited' = inited \cup {<<a, "ic">> : a \in setup.callback} \cup CallMethod
    /\ windows' = InitWindows(windows)
    /\ agent' = [a \in Agents |-> [agent[a] EXCEPT !.dt = step.dt, !.old_dt = 0]]
    /\ UNCHANGED <<setup, step, running, data, asked, solution>>

\* Coupling::finalize.  Every scheduler must have been inited.  A module that
\* restarts keeps its windows.  finalize_windows deletes the split windows.
finalize ==
    /\ phase = "stepping" /\ step.ipc = 0
    /\ IF inited # Schedulers THEN phase' = "aborted" /\ UNCHANGED windows
       ELSE /\ phase' = "finalized"
            /\ windows' = windows \ UNION
                  {Buffers(a) \cup {<<a, "agent">>}
                      \cup (IF setup.restarting THEN {} ELSE {<<a, "solver">>}) : a \in Agents}
    /\ UNCHANGED <<scheduled, inited, setup, step, running, agent, data, asked, solution>>

\* ~Coupling, ~Agent: modules are unloaded, or at restart closed, and drop the
\* window of their functions; those of the solver are not touched.
Destroy ==
    /\ phase = "finalized"
    /\ phase' = "destroyed"
    /\ windows' = windows \ {<<a, "module">> : a \in Agents}
    /\ scheduled' = {} /\ inited' = {}
    /\ UNCHANGED <<setup, step, running, agent, data, asked, solution>>

------------------------------------------------------------------------------
(* Steps.  ipc = 0 between steps.                                          *)

\* Mutant: solutions are stored in every iteration.
StoresAlways(p) == TRUE
Stores(p) == p = 1

\* Agent::init_convergence: store at the first iteration, else restore.
init_convergence ==
    /\ phase = "stepping"
    /\ step.t < MaxTime
    /\ step.ipc < setup.maxPredCorr
    /\ LET p == step.ipc + 1
       IN /\ step' = [step EXCEPT !.ipc = p]
          /\ IF setup.maxPredCorr > 1 /\ p > 0
             THEN IF Stores(p) THEN backup' = live /\ UNCHANGED live
                               ELSE live' = backup /\ UNCHANGED backup
             ELSE UNCHANGED <<live, backup>>
    /\ accepted' = IF step.ipc = 0 THEN live ELSE accepted
    /\ phase' = "ready"
    /\ UNCHANGED <<lifecycle, running, agent, data, asked>>

Abs(x) == IF x < 0 THEN -x ELSE x
limit1(x, y) ==
    IF (x >= 0 /\ y >= 0) \/ (x <= 0 /\ y <= 0)
    THEN IF Abs(x) < Abs(y) THEN x ELSE y
    ELSE 0

\* InterpolateBase::backup, with the old_dt that the agent has now
BackedUp(d, old_dt) ==
    [d EXCEPT !.grad = IF ~setup.grad THEN @
                       ELSE IF old_dt > 0 THEN (d.attr - d.old) \div old_dt ELSE 0,
              !.old = d.attr]

\* Mutant: data are backed up in every iteration.
BacksUpAlways(p) == setup.dobackup
BacksUp(p) == setup.dobackup /\ p <= 1

\* The transfer: data for the end, or for the middle, of the step.
Central == setup.kind \in {"Extrapolate_Central", "Interpolate_Central"}
Transferred(t, dt) == Scale * (IF Central THEN t + dt \div 2 ELSE t + dt)

OldDt(a, dt, p) == IF p = 1 THEN dt ELSE agent[a].old_dt

\* PhysicsAction::run up to the call of update_solution: note the step, back
\* up, run the bcInit scheduler.
PhysicsBegins(a, t, dt, p) ==
    LET old_dt == OldDt(a, dt, p)
    IN /\ running' = a
       /\ agent' = [agent EXCEPT ![a] = [timestamp |-> t, dt |-> dt, old_dt |-> old_dt]]
       /\ data' = IF a # Fed THEN data
                  ELSE [(IF BacksUp(p) THEN BackedUp(data, old_dt) ELSE data)
                           EXCEPT !.attr = Transferred(t, dt)]
       /\ asked' = -1

\* Coupling::run, up to the first physics module.  Each agent limits the step
\* anew in every iteration: any step may come of it.
run(dt) ==
    /\ phase = "ready"
    /\ IF <<0, "main">> \in inited /\ <<1, "bcInit">> \in inited
       THEN /\ phase' = "running"
            /\ step' = [step EXCEPT !.dt = dt]
            /\ PhysicsBegins(1, step.t, dt, step.ipc)
       ELSE phase' = "aborted" /\ UNCHANGED <<step, running, agent, data, asked>>
    /\ UNCHANGED <<lifecycle, solution>>

\* update_solution returns and run goes on to the next physics action.
PhysicsEnds ==
    /\ phase = "running"
    /\ live' = [live EXCEPT ![running] = [t |-> @.t + step.dt, pc |-> step.ipc]]
    /\ IF running < NAgents
       THEN /\ PhysicsBegins(running + 1, step.t, step.dt, step.ipc)
            /\ UNCHANGED phase
       ELSE /\ phase' = "ran" /\ running' = 0 /\ asked' = -1
            /\ UNCHANGED <<agent, data>>
    /\ UNCHANGED <<lifecycle, step, backup, accepted>>

\* The step is over when all agents have converged, always so without
\* corrector iterations, or when no iteration is left.
check_convergence(converged) ==
    /\ phase = "ran"
    /\ setup.maxPredCorr = 1 => converged
    /\ phase' = "stepping"
    /\ step' = IF converged \/ step.ipc = setup.maxPredCorr
               THEN [t |-> step.t + step.dt, dt |-> step.dt, ipc |-> 0, last |-> step.dt]
               ELSE step
    /\ UNCHANGED <<lifecycle, running, agent, data, asked, solution>>

------------------------------------------------------------------------------
(* Callbacks of the physics module                                         *)

\* extrapolate_Linear at alpha = h / 2: attr_old and attr stand for the ends
\* of the step (base 0), or for the middles of the last one and of this one
\* (base -1/2).
Line(h) ==
    CASE h = 2 -> data.attr
      [] h = 0 -> data.old
      [] OTHER -> data.attr + ((h - 2) * (data.attr - data.old)) \div 2

Slope(dt, old_dt) == (2 * (data.attr - data.old)) \div (old_dt + dt)

CentralLine(dt, old_dt, h) ==
    data.attr + (((h - 1) * dt) \div 2)
        * IF setup.grad THEN limit1(data.grad, Slope(dt, old_dt)) ELSE Slope(dt, old_dt)

new_start(t) == t = 0

\* The cases in which run of an Interpolate action copies attr.
Copies(t) ==
    \/ setup.kind = "Interpolate_Constant"
    \/ setup.order = 0
    \/ new_start(t)
    \/ /\ setup.kind \in {"Extrapolate_Linear", "Extrapolate_Central"}
       /\ step.ipc <= 1 /\ ~setup.grad

Interpolated(t, dt, old_dt, h) == IF Copies(t) THEN data.attr
    ELSE IF Central THEN CentralLine(dt, old_dt, h) ELSE Line(h)

\* There is a bc scheduler of level 1 only; other levels return with a warning.
obtain_bc(h, level) ==
    /\ phase = "running" /\ running = Fed
    /\ IF level # 1 THEN UNCHANGED <<phase, data, asked>>
       ELSE IF <<Fed, "bc">> \notin inited
       THEN phase' = "aborted" /\ UNCHANGED <<data, asked>>
       ELSE /\ LET a == agent[Fed]
               IN data' = [data EXCEPT !.alp = Interpolated(a.timestamp, a.dt, a.old_dt, h)]
            /\ asked' = h
            /\ UNCHANGED phase
    /\ UNCHANGED <<lifecycle, step, running, agent, solution>>

\* The grid motion scheduler runs at time 0; it has no Interpolate action here.
obtain_gm ==
    /\ phase = "running" /\ setup.gm
    /\ phase' = IF <<running, "gm">> \in inited THEN phase ELSE "aborted"
    /\ UNCHANGED <<lifecycle, step, running, agent, data, asked, solution>>

Next ==
    \/ init
    \/ finalize \/ Destroy
    \/ init_convergence
    \/ \E dt \in Dts : run(dt)
    \/ PhysicsEnds
    \/ \E c \in BOOLEAN : check_convergence(c)
    \/ \E h \in 0..2, level \in 1..2 : obtain_bc(h, level)
    \/ obtain_gm

Spec == Init /\ [][Next]_vars

------------------------------------------------------------------------------
(* Properties *)

TypeOK ==
    /\ phase \in {"constructed", "stepping", "ready", "running", "ran", "finalized",
                  "destroyed", "aborted"}
    /\ scheduled \subseteq Schedulers /\ inited \subseteq Schedulers
    /\ step.t \in Nat /\ step.dt \in Dts \cup {0} /\ step.ipc \in 0..MaxPC
    /\ running \in 0..NAgents
    /\ \A a \in Agents : agent[a].old_dt \in Dts \cup {0}
    /\ asked \in -1..2
    /\ \A x \in DOMAIN data : data[x] \in Int

\* No scheduler is used before its time: no step of the coupling and no
\* callback a module makes meets a scheduler that is not inited, and neither
\* does a finalisation, unless a module never called init_callback; then it
\* always does, although all the steps went well.
AbortsOnlyUncalled ==
    /\ phase = "aborted" => step.ipc = 0 /\ setup.callback # Agents
    /\ phase \in {"finalized", "destroyed"} => setup.callback = Agents

\* Every window the agents made is deleted in time: while steps are made there
\* are the windows of the modules, of the callbacks and the buffers and none
\* of the input.  When the coupling is gone none is left, and at restart just
\* those of the solvers.
WindowsAccounted ==
    /\ phase \in {"stepping", "ready", "running", "ran"} =>
          windows = UNION {{<<a, w>> : w \in {"module", "agent", "solver"}} \cup Buffers(a) : a \in Agents}
    /\ phase = "destroyed" =>
          windows = IF setup.restarting THEN {<<a, "solver">> : a \in Agents} ELSE {}

\* The life cycle of a coupling: schedulers are ready when they are used, and
\* windows are there as long as they are needed and no longer.
LifeCycle == TypeOK /\ AbortsOnlyUncalled /\ WindowsAccounted

\* Every iteration of a step, first or corrector, starts each physics module
\* on the solution it had when the step began, whatever the iterations before
\* made of it, and the step that is accepted advances it once.
CorrectorRestarts ==
    /\ phase = "running" => \A a \in running..NAgents : live[a] = accepted[a]
    /\ phase = "ran" => \A a \in Agents : live[a].t = accepted[a].t + step.dt

\* The exact value at the time of the last obtain_bc
Exact == Scale * step.t + (Scale * asked * step.dt) \div 2

\* Linear interpolation is exact for data linear in time, in every iteration
\* and whatever the steps: the data of the last step, backed up once, and the
\* data of this one stand for its two ends.  The same of extrapolation after
\* the first iteration, or with a gradient.  Without dobackup attr_old is never
\* written, and only the value at the end of the step is known to be right.
LinearExact ==
    /\ asked >= 0 /\ setup.order # 0 /\ step.t # 0
    /\ setup.dobackup \/ asked = 2
    /\ \/ setup.kind = "Interpolate_Linear"
       \/ setup.kind = "Extrapolate_Linear" /\ (step.ipc > 1 \/ setup.grad)
    => data.alp = Exact

Between(x, lo, hi) == (lo <= x /\ x <= hi) \/ (hi <= x /\ x <= lo)

\* Interpolation of data for the middles of the steps is exact too, and with
\* a gradient the limiter keeps it between the constant and the exact value,
\* when the step is as long as the last one.  Without dobackup only the value
\* at the middle of the step is known to be right.
CentralExact ==
    asked >= 0 /\ Central /\ setup.order # 0 /\ step.t # 0 /\ step.last > 0
        /\ (setup.dobackup \/ asked = 1)
        /\ (setup.kind = "Interpolate_Central" \/ step.ipc > 1 \/ setup.grad)
        /\ step.dt = step.last /\ agent[Fed].old_dt = step.dt
        => IF setup.grad THEN Between(data.alp, data.attr, Exact) ELSE data.alp = Exact

\* Boundary data that a physics module obtains while it runs are those of the
\* time it asked for, for data linear in time, if the agent backs data up
\* (dobackup); else at the one time that needs no old data.
InterpolationExact == LinearExact /\ CentralExact
==============================================================================
