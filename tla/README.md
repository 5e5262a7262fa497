# A TLA+ verification of IMPACT

IMPACT couples physics solvers that were written as separate codes. Each solver is a
module that registers its meshes, fields and functions in *windows*; an orchestrator
(SIM) schedules the solvers, transfers data between windows and drives time steps;
services read and write windows (SimIO), compute on them (Simpal) and transfer
fields between non-matching surface meshes (SurfMap, SurfUtil, SurfX). This directory
holds TLA+ models of the parts whose correctness depends on the order of operations,
on several processes or threads, or on tables that must agree; TLC configurations for
them; and proofs checked by TLAPS.

## 1. Inventory

| Part | State it keeps | Operations | How it interacts |
|---|---|---|---|
| COM window registry (`ComponentInterface.C`, `Pane.C`) | `_attr_map`, `_last_id`, `_status`, per pane the vector `_attr_set` | new/delete/redefine dataitem, pane creation and deletion, `init_done` | every other part addresses data by window, pane and dataitem id |
| COM dataitem arrays (`DataItem.C`, `Pane.C`) | per item: size, status, pointer, capacity, parent | set, allocate, resize, deallocate, append, copy, use, clone | items of one window use the arrays of another |
| COM connectivity (`Connectivity.C`, `Pane.C`) | element tables of a pane, sizes, offsets, ghosts | set_size, set_array, use, clone | element ids are numbered through the tables; panes use the mesh of others |
| COM object tables (`maps.hpp`, `COM_base.C`) | name/handle tables of windows, dataitems, functions | new/delete window, `get_*_handle`, `get_*_handle_const` | handles are cached by all modules for the whole run |
| COM module loader (`COM_base.C`) | library handles and the windows that use them | `load_module`, `unload_module`, `close_module` | runs load and unload functions, which create and delete windows |
| COM calls and profile (`COM_base.C`) | call depth, timers, profile | `call_function`, `set_profiling` | calls nest: a module function calls others, loads and unloads |
| SIM scheduler (`Scheduler.C`, `DDGScheduler.C`) | pool of actions, dependence graph, order, flags | add_action, schedule, init, run, finalize | actions read and write dataitems by name |
| SIM agents and coupling (`Agent.C`, `Coupling.C`, `Interpolate.C`) | schedulers, windows, predictor-corrector state, times | init, run, check_convergence, finalize; callbacks obtain_bc, obtain_gm | physics modules call back while they run |
| SimIO synchronisation (`Sync.C`) | mutex, condition, count | Wait, TryWait, Post | bounds the writer threads |
| SimIO output (`Rocout.C`, `Rocout_cgns.C`) | options, writer threads, files | write, put, add, sync, set_option, control file | writers run beside the caller; the files are read at a restart |
| SimIO input (`Rocin.C`) | blocks found in files, rule for local panes | read_by_control_file, read_windows | all processes build the window by collective calls |
| SurfMap communicator (`Pane_communicator.C`) | buffers, pending receives | reductions on shared nodes, updates of ghosts | MPI point-to-point between ranks |
| SurfMap connectivity (`Pane_boundary.C`, `Pane_connectivity.C`, `Pane_ghost_connectivity.C`, `Simple_manifold_2.C`) | pconn, ghost layers, halfedge tables | compute_pconn, build_pconn, walks along borders | each process computes its lists for itself |
| SurfX transfer (`RFC_Window_transfer_comm.C`) | copies of remote panes, lists of panes to send | replicate_metadata, replicate_data, clear | MPI point-to-point, without barriers |
| Simpal, SurfX overlay, SurfUtil, SolverUtils | none, or numeric arrays | element-wise operations, overlay geometry, utilities | called through COM |

What is hard here is not one algorithm but sequences: ids, handles, pointers and
module references are kept by clients across operations that may invalidate them
(deletion, compaction, unloading, failure half-way); callbacks nest; writers overlap
with the caller; processes that never compare their lists must have put them in the
same order; messages of different panes, windows and rounds share tags; and the
scheduler waits for things that may never come.

The hazards of the code, each at its line with the properties that cover it, are
listed in `PROJECT.json`. The properties that make each part correct:

- *registry*: ids never collide; a window and all of its panes, whenever they were
  created, mean the same item by an id; compaction gives no used id away;
- *arrays*: an array is freed once, by its owner; an item that uses another sees the
  root's current array; growing and cloning keep values; constant arrays are not written;
- *connectivity*: tables, offsets and sizes of a mesh agree for its owner and its users;
- *object tables, loader, calls*: a handle means the object it was obtained for; the library of
  a module's window and of a running function is open; the profile adds up;
- *scheduler*: accepted declarations get a topological order, others are refused, and
  the answer does not depend on the order in which actions were added;
- *agents and coupling*: every scheduler is initialised before it is run and finalised
  once; a corrector iteration restarts from the state saved before the step; boundary data
  are those of the time asked for;
- *output, input*: after `sync` the files are those of synchronous calls; no writer waits for
  ever; a restart finds every pane once, in whatever way panes were spread over files;
- *communicators*: each message is received by the buffer it was meant for, copies agree,
  all collective operations return;
- *pane connectivity*: lists that processes made apart match; ghosts are the neighbours.

## 2. Modules

| Module | Models | Composes / used by |
|---|---|---|
| `ComRegistry` | one window's `ComponentInterface` and its panes' `_attr_set` | proved about in `ComRegistryProofs` |
| `DataItemArrays` | `DataItem`, `Pane::inherit`, `Pane::reinit_dataitem`, array operations of `ComponentInterface` | run together with `MeshTables`; proved about in `DataItemArraysProofs` |
| `MeshTables` | `Connectivity`, the mesh part of `Pane` | proved about in `DataItemArraysProofs` |
| `ComBase` | `COM_base`: object tables, loader, nested calls, profile | proved about in `ComBaseProofs` |
| `SchedulerContract` | abstract: what `schedule()` promises | implemented by `DDGScheduler` |
| `DDGScheduler` | `Scheduler` and `DDGScheduler` | instance of `SchedulerContract`; proved about in `DDGSchedulerProofs` |
| `SimCoupling` | `Coupling`, `Agent`, `UserScheduler`, `Interpolate` | proved about in `SimCouplingProofs` |
| `CountingSemaphore` | abstract: an atomic counting semaphore | implemented by `Semaphore` |
| `Semaphore` | `Semaphore`, `Mutex`, `Condition` of `Sync.C` | extended by `RocoutAsync`, proved about in `RocoutAsyncProofs` |
| `RocoutAsync` | `Rocout`'s write calls, options, `sync`, `finalize`, writer threads | composed with `Semaphore`; proved about in `RocoutAsyncProofs` |
| `RocoutFiles` | one write of a window: which pane goes to which file, the control file | composed with `RocinRead` |
| `RocinRead` | reading control files and windows in parallel | extends `RocoutFiles`: reads what it wrote; proved about in `RocinReadProofs` |
| `PaneConnectivity` | `Pane_boundary`, `Pane_connectivity`: who shares which nodes (operators, no state) | used by `PaneCommunicator` |
| `PaneCommunicator` | `Pane_communicator` and the reductions of Rocmap | extended by `GhostConnectivity` |
| `GhostConnectivity` | `Pane_ghost_connectivity` | composes all three |
| `WindowTransfer` | `RFC_Window_transfer`'s communication | proved about in `WindowTransferProofs` |
| `SimpleManifold` | `Simple_manifold_2`: construction of the halfedge tables, border walks | |

A module `MCx` extends module `x` for TLC. Definitions introduced by "Mutant:" are
plausible mistakes in the code next to the definition they stand for; no specification
uses them, and each makes one property fail when it replaces the original.

### ComRegistry

State: `attr_map` is `_attr_map` of the user items (name to id), `attr_set[p]` the vector
`_attr_set` of pane `p` (0 is the dummy pane) with its size, `last_id`, `status`, and
`halted` for a process ended by `COM_assertion`. A slot holds a `DataItem` (name,
component number, number of components, id where its `new[]` block starts), a null
pointer, or a pointer that dangles after its block was deleted. Keywords are their ids.

`NewDataitem`, `RedefineDataitem` and `GrowDataitem` are the three cases of
`ComponentInterface::new_dataitem`; the last includes the deletion the code does first.
`DeleteDataitem` and `DeleteData` are `delete_dataitem` of a user item and of "data";
`NewPane` is `pane(id, true)` with the copy constructor of `Pane`; `DeletePanes` is
`delete_pane`; `InitDone` is the compaction in `init_done` with `Pane::init_done` of every
pane but the dummy. Types, units and locations of items are left out, as are arrays.

`Spec` is the clients found in the repository: an item is redefined with as many
components as it has or more. `init_done` may come at any time, also on a window whose items
have all been deleted with one of the deletions out of order (`EmptiedOutOfOrder`): it then
compacts `_last_id` to `COM_ALL`, below the number of keywords, and the next item gets the
id of a keyword. For an item with such an id growth halts the process and deletion is refused.

### DataItemArrays

State: for every item its `_nitems`, `_cap`, `_status`, `_ptr` and `_parent`; `heap` is
the contents of every array, `<<>>` for memory that is free; `overrun` records an access
outside an array. One action per operation: create, delete, `set_size`, `set_array` and
`set_array_const`, `alloc_array`, `resize_array`, `append_array`, `dealloc_array`,
`use_dataitem`, `clone_dataitem`, `copy_dataitem`, `copy_array`, and the client writing
through a pointer. A call refused before it changed anything is not a step; a call that
fails half-way (`append_array` on an array that is set, `clone_dataitem` of an item
whose array is too short) is a step with what it had changed.

The items are panel items of one component without ghosts, so each has a size of its own
and its stride is 1. The clients set, allocate and resize roots only; use from an item that
has no array; clone onto an item that has one only from an item whose array fits (or let
`deallocate` free it); make no circle of uses; delete an item only when no other uses it.

### MeshTables

State: for each pane its tables in order (`_nitems`, `_ngitems`, the array of a structured
table, `_offset`), `ignore_ghost`, the pane whose mesh it uses, and the sizes of its dataitems
`conn` and `nc`. `set_table_size` and `set_layers` are `Connectivity::set_size` of an
unstructured and of a structured table, `set_table_array` is `set_pointer` of a structured
one; all end in `refresh_connectivity`. `use_mesh` and `clone_mesh` are the case `COM_CONN`
of `Pane::inherit`. What `size_of_elements` and its kin answer for a pane that uses another is
found at the root, without ghosts if a pane on the way ignores them.

Clients make real tables before those with ghosts, and all tables and ghost layers before a pane
uses the mesh; section 4 says what happens otherwise.

### ComBase

State: `module_map`, `window_map`, `attr_map`, `func_map`, each a `COM_map` with its vector
of objects, vector of names and index by name; the stack of calls; `depth`, `timer`,
`profile`; and `unloads`, the local variables of every `unload_module` under way. `made`, `fresh`,
`clock`, `spent` and `strayed` record what happened, for the properties. Each public call is an
action. `load_module` contains the module's load function, and `load_module_fails` is the load whose
function is not found, with the name already on record. An unload is two actions, `unload_module` up to
the module's unload function and `unload_returns` from its end; anything may come in between, other unloads
too (as in `testing/COMTest/src/TestModule.C:129-148`), while the reference to the record and its index are
those of before. A name may be empty if one window is on record: it is unloaded, and its name stays on record.
`call_function` and `Return` are the two halves of a call, and any other action may happen between them.

Clients unload a library by a window that is its own, not while a function of it runs, and not
a window that is being unloaded already.

### SchedulerContract and DDGScheduler

State: `reads` and `writes` are the declared keys of each `ActionItem`, `input` and
`output` its links, `pool` and `act` the local pool and cursor of `buildDDG` (and the pool
of `topological_sort`), `sort`, `roots`, `scheduled`, `inited`, and `pc`, `walked` for where
the call under way is. `error` is why `COM_abort_msg` ended the process.

`Fill` links one empty input or output of the item under the cursor, and `Advance` moves the
cursor, erasing an item that is fulfilled. So one step is one iteration of the code's
loops. `sanityCheck`, `topological_sort` (one item per step), `schedule_return`, the three
passes and `restarting` follow. A pair (attribute, index) is one key. Clients add an action
once, before `schedule()`, and list a key at most once in each direction.

The contract has one step for `schedule()`: it accepts exactly the declarations in which each
read has one writer, each write one reader, and nothing feeds itself; the order is
topological. The refinement maps `outcome` to `scheduled` and `error`, `order` to `sort`.

### SimCoupling

State: flags of the schedulers, the COM windows there are, what is constant during a run
(`setup`), the step and iteration, the agent that runs, each agent's times, the four copies of the
transferred field (`data`), and the dataitems that are stored and restored (`live`,
`backup`). The driver calls `init`, then `init_convergence`, `run`, `check_convergence`
per iteration, and `finalize`; a run is split at the points where a physics module runs, so
that `obtain_bc` and `obtain_gm` can come in between, with any alpha and any level. The data
transferred are linear in time, so that what interpolation should give is known. A test of
`COM_assertion` or an abort leads to the phase "aborted". `setup` also has which modules call
`init_callback` (`callback`; one that does not has no buffers) and whether the agent backs up the data of the last step
(`dobackup`). At a restart the destructors leave the windows of the solvers where they are.

### CountingSemaphore, Semaphore and RocoutAsync

`Semaphore` has `m_count`, the holder of the mutex and a location for each thread; a step
ends where other threads can come in (lock, wait, unlock). A signal wakes one sleeper;
`pthread_cond_wait` may also return without a signal or, with `CondMayFail`, with an error.
It implements `CountingSemaphore`, whose operations take effect at one instant: `permits` is
`m_count`, and a thread's request follows from its location (`Asked`).

`RocoutAsync` adds the client (data version, options `mode` and `async`, `_writers`) and the writer
threads (`doing`, `job`, `clone`). A file is the list of the data versions in it;
`expected` is what the files would be if all calls were synchronous. `WriteNow` and `WriteLater`
are the two branches of `write_dataitem`, `put_dataitem` and `add_dataitem`; `sync` and
`finalize` join the threads one by one. The thread function is
`write_dataitem_internal`: wait, clone, write, post, delete the clone. The client calls
`sync` before it changes its data or an option, and lets one thread at a time work on a file.

### RocoutFiles and RocinRead

A data set on disk is a record of files (lists of blocks), control blocks and options. A
writing process takes its panes one by one, opens the file that `rankwidth` and `pnidwidth`
name, empties it or appends; process 0 writes the control file. The readers then choose their
control block, take over its rule (`@Panes`, `@Cyclic`, `@BlockCyclic`, `@Block`, `@All`), scan
the files and build the windows: dataitems by collective agreement, local panes, window data from one
process, `init_done`. `posted` has the collective calls of each process; the k-th calls of all
belong together. The reader's definitions are mapped to its HDF4 half; `scan_files_CGNS` and `load_data_CGNS`, which read what
`write_dataitem_CGNS` writes, do the same with files of one time level. Besides restarts the runs read files and control blocks not written by SimOUT. `Names` are the names of
dataitems and materials that occur in files; `Numbered` says which pane ids suit a rule that spreads the panes.

### PaneConnectivity, PaneCommunicator and GhostConnectivity

A mesh gives each pane its process, elements and points. `PaneConnectivity` has what a process
computes alone: faces and border nodes, isolated nodes, the index of points, the map of coinciding
nodes with the pairs of all panes (`b2v_map`), and the sorted lists of shared nodes.
`PaneCommunicator` has the processes: `compute_pconn`, which aborts at a pair of nodes of one remote pane
(`PairsAreLocal`), `begin_update` (sends, receives,
barrier), `reduce` in the order in which receives complete, `end_update`. MPI is external: a
channel is (source, destination, communicator, tag); a message goes to the oldest receive posted for its
channel, and may be late. `eager` decides whether sends are buffered. `GhostConnectivity`
adds the calls of `build_pconn` in their order: node owners by a reduction of `n_gorder`, the
two exchanges of sizes and elements, `finalize`, coordinates of ghosts.

### WindowTransfer

Each process has a script of transfers. `replicate_metadata` is a collective exchange of the panes
asked for; `replicate_data` posts and sends, in the order of its loops (`InOrder`); `Unpack` is the in-place move of
received entries: `Dense` resizes the array (`Resized`) and moves the entries down from the last, as far as the last one that
is where it belongs (`InPlace`). Entries are picked out for sending only where `Copied` says so, coordinates
never, and coordinates stay where they are received (`CoorCopy`). A value carries its array, pane, entry and transfer, so a wrong or old one is seen. MPI as above.

### SimpleManifold

The loops of the constructor, one halfedge or corner per step, with the tables `_oeIDs_*`, `_beIDs`,
`_ieIDs_*`; then clients walk from border edge to border edge, one edge around a node per step.
The reference definitions use node lists only.

## 3. Runs

| Run | Bounds | Distinct states | Shows |
|---|---|---|---|
| `registry` | 3 names, 1 or 2 components, 2 panes, ids below 20 | 13,284 | no collision, panes agree, keywords lost in one case only, ids stable |
| `ddg_scheduler` | up to 3 actions, 2 keys, 2 slots each way | 79,721 | contract, links, order of passes, termination on good graphs |
| `ddg_scheduler_hang` | 2 actions, 2 keys, 1 slot | | the finding |
| `semaphore` | 4 threads, initial count 1, maximum 2 | 12,572 | counting semaphore, no lost wake-up |
| `rocout_async` | 2 thread ids, 1 permit, 2 files, 2 versions, 3 calls | 199,768 | files after `sync`, permits and joins, `sync` returns |
| `arrays` | 3 items, 1 client array of 2 entries, 2 blocks, sizes 1 and 2; 3 panes, 2 tables of 1 or 2 elements, 2 structured sizes | 173,147 | storage sound, values kept; meshes exact |
| `com_base` | 2 libraries, 2 windows, 3 objects, 3 handles, depth 2, 2 nested unloads, 2 ticks | 817,175 | tables, handles, loader, profile |
| `coupling` | 2 agents, 3 iterations, steps 2 and 4 from time 0 or 4 up to 8 | 7,356,528 | life cycle, correctors restart, interpolation exact |
| `pane_comm` | 2 processes, 3 panes, 59 meshes with their calls | 53,041 | buffers, lists, values, ghost layers, all calls return |
| `transfer` | 3 processes, 6 panes, 3 scripts of 3 calls | 35,817 | buffers, replicas, all transfers return |
| `manifold` | all panes cut from a pyramid | 40,404 | tables, walks right, walks end |
| `rocin` | 3 processes, 3 to 6 panes, every rule and option | 37,662 | items, partition, restart, all return |

Why the bounds are enough for the cases that matter:

- registry: three items are the fewest with a first, a middle and a last one, so every kind of
  out-of-order deletion occurs; with two components an item takes three slots, with one a
  single slot, so an item grows and gaps of both sizes appear. Ids up to 20 leave room for
  seven slots above the 13 keywords. Two panes: one created before, one after an item. The proofs
  hold for all values.
- scheduler: three actions give chains, forks, joins and cycles of two and three; two keys and
  two slots give an action with two writers and an action with two readers.
- semaphore: two permits and four threads: two can sleep while a third posts and a fourth takes
  the permit before the woken one. The proofs hold for all values.
- output threads: one permit for two writers, so that one waits in the semaphore while the other
  writes; three calls give write, append and a third after a `sync` that reuses a thread id.
- arrays: three items make a chain of two uses, and a clone beside a use; two blocks are one old
  and one new array. The two machines `DataItemArrays` and `MeshTables` share nothing, and one of
  them moves in a behaviour. For meshes, two tables make an offset that depends on a size, "q4"
  with real elements and ghosts before "v3" with ghosts; three panes make a user of a user, a
  clone of a user and a user of a clone.
- com_base: an object table with three entries loses its first, middle and last; the second
  library and window are the ones that must not be disturbed; depth 2 is a call within a call, and two
  unloads are the fewest of which one can move what the other refers to. `Bounds` of `MCComBase` leaves out
  states that combine nested unloads or leftover names with a third window object, the profile or a second handle.
- coupling: two agents are one that feeds and one that is fed; three iterations are a predictor and two
  correctors; the lengths 2 and 4 make a step as long as the last one, a longer and a shorter; the module
  that is not fed may leave `init_callback` out.
- pane_comm: a ring of three panes around an edge, two of them in one process, so that nodes are
  shared by two and by three panes, within and across processes; a window with a
  parent; a pyramid and tetrahedra, so that ghosts have different types and only touch at a node;
  and 54 small meshes that vary the numbering, coincident nodes in a local and in a remote pane and isolated nodes.
- transfer: one process owns two panes, one asks for none of a window, and one pane has as many destinations as faces; the three scripts contain both
  directions, a repeated direction, metadata reused and metadata read anew.
- manifold: every way to make each of the five faces missing, real or ghost that leaves 2-manifolds.
- rocin: every owner of three panes, file per rank, per pane, per both and one for all; six panes
  dealt out by every rule with remainders.

Symmetry is used for items and blocks (`arrays`; the same model values stand for panes) and for
window names and libraries (`com_base`); these runs have no liveness property and no property
names one of them.

Deadlock is not an error (`CHECK_DEADLOCK FALSE`) where the program really stops: an ended
(`halted`, aborted, finalised) process, a script or read that is over, and where a bound (`MaxId`,
`MaxItems`, `MaxCalls`) is used up. `semaphore` and `com_base` check deadlock. In the runs with
several processes a deadlock would violate `AllReturn`.

Fairness. `DDGScheduler!FairSpec`: `schedule()` runs on the caller's thread and waits for
nothing, so weak fairness of its steps. `RocoutAsync!FairSpec`: a writer that can run does so in
the end (weak fairness); a thread that waits for a mutex which others take and release gets it
in the end (strong fairness of the semaphore's steps, what a POSIX scheduler gives in
practice, not a guarantee of the standard); `pthread_join` returns after the thread has exited. No fairness
is assumed of clients or of spurious wake-ups. `GhostConnectivity!Spec` and `WindowTransfer!Spec`: each
process runs on when it is not blocked, and MPI delivers a message for which a receive is posted (the
progress rule of MPI); nothing is assumed of the order between channels, and unbuffered sends complete
only when received. `RocinRead!Spec`: each process runs on when it is not blocked.
`SimpleManifold!Spec`: sequential code runs on.

## 4. What the code does not do

### Finding

*ddg_scheduler_hang* (`DDGScheduler.C:94`): an action that reads something and writes what nobody reads
keeps `buildDDG` going round for ever; a test expects an error message.

### Inputs the models exclude, and why

The specifications are those of clients that keep to some order. Outside of it the code does
something else than its caller would expect; these cases were met while modelling.

- Registry: `init_done` lowers `_last_id` and shrinks only the real panes; the dummy pane keeps
  a longer vector, and a later `new_dataitem` fails `COM_assertion(atts)` (`Pane.C:173`). Redefinition with
  fewer components leaves slots that deletion no longer resets (`Pane.C:235`). An exception for a missing
  connectivity table leaves `new_dataitem` with the item entered and `_last_id` not advanced (`Pane.C:164`).
  In the model, and not excluded: the compaction of a window emptied out of order takes the id of the last
  keyword away (`ComponentInterface.C:367-375`); `KeywordsKept` says that no other step takes one.
- Loader, in the model: the reference `obj` and the index `i` that `unload_module` keeps while the unload function
  runs (`COM_base.C:321`) may be those of another library, or of none, when that function loads or unloads modules; the
  wrong library may then be closed. `LibrariesOpen` holds up to the first such step (`strayed`). A failed load
  (`:235`, `:294`) and an unload without a window name (`:370` erases the empty name) leave names on record, so that
  the library is never closed; no property forbids it. An exception of a called function is not modelled: it
  leaves `_depth` raised (`:1908-1910`).
- Arrays: copying out of an item that uses another compares with the capacity the root had when the use
  was made (`DataItem.C:262`), and copying out of an array set as constant is refused
  (`DataItem.C:268`). `root()` does not end when items use each other in a circle (`DataItem.hpp:168`).
- Meshes: offsets count the ghosts that a user of the mesh ignores, so with a ghost table before a real
  one the user does not find all of its elements; a table or a ghost layer added to a mesh in use does not reach the
  users. A mesh with ghost layers that is inherited without ghosts should be refused (`Pane.C:498`), but the test comes
  after `_ignore_ghost` is set, which makes `size_of_ghost_layers()` answer 0. A mesh cloned onto a pane that
  used one keeps the parent of `conn`, and `refresh_connectivity` does nothing (`Pane.C:665`).
- Scheduler: if an action lists an output twice, whether its two readers are accepted depends on the order of
  `add_action` (`DDGScheduler.C:58`); an early return skips the loop that collects the roots (`:140`); an action added
  after `schedule()` is never run (`Scheduler.C:22`).
- Semaphore: invalid counts leave the constructor with fields that were never set (`Sync.C:150`).
- Output threads: a write and an append to one file without `sync` run unordered, and each reads the option
  `mode` when it gets there (`Rocout.C:210`). A second time level in a CGNS file meets an assertion on
  the size of the time array (`Rocout_cgns.C:1114`; not modelled).
- Coupling: a module that never calls `init_callback` makes `finalize` abort in the scheduler of the initial
  condition (`Agent.C:451`), which `LifeCycle` says happens just then.
- Backup: `Agent::run_bcinitactions` backs the data of the last step up only `if (dobackup && ...)` (`Agent.C:815`). `dobackup` is
  false from its declaration on (`Agent.h:638`), the one assignment is commented out (`Agent.C:823-826`), and no agent
  of the repository sets it: it is a protected member, for derived agents to set. The model has both values. Without it
  `attr_old` is never written, and `InterpolationExact` claims only the one time that needs no old data; so for the agents of this
  repository the property says no more than that, and what it says of `dobackup` is about agents derived elsewhere.
- Interpolation: the central kinds use `old_dt`, which is the current step when the step length
  changes (`Agent.C:170`); `order` is never set by the constructor (`Interpolate.C:12`), so the model chooses any.
- Pane communicator: tags are taken modulo 32768 (`Pane_communicator.C:194`), unique for the pane numbers used
  here; a pane that shares nodes with itself is not averaged right (`:360`).
- Pane connectivity: two nodes of a pane at one place, and a node of another process there, too, make `compute_pconn` of
  that process abort, for `b2v_map` has the pair of remote nodes and `create_b2map` asserts that such a pair is local
  (`Pane_connectivity.C:489-503`, `:528`). These meshes are in the run; `PconnExact` is about calls that return, and
  `AllReturn` says that a process aborts just there. A pconn that is already allocated and too small is filled up to its old capacity
  (`Pane_connectivity.C:606-628`). For a pane that shares nodes with itself the ghost exchange swaps the arguments of
  a copy (`Pane_ghost_connectivity.C:665`); node positions start from the count of the previous element type
  (`:426`, `:519`), wrong when the types' numbers are adjacent; of the sends one is waited for (`:713-721`), which
  `RightBuffer` shows to be harmless because of the exchanges that follow.
- Transfer: to see whether all entries of a pane are sent, the number of destinations is compared with the number of entries
  (`RFC_Window_transfer_comm.C:273`); where the two are equal the array is sent from its first entry on, whichever were selected.
  The run has such a pane, and `ReplicasExact` then says only that the values are of this pane and transfer. Coordinates are
  always sent from the first on (`:299`, `:433`) and not moved to the nodes that are needed, although `:208` says that they are cached;
  `ReplicasExact` says what is there. A facial array is filled with NaN only up to the number of nodes, to which it is
  resized (`:321`); entries beyond that are exempt.
- Manifold: a real node that lies only on the rim of a ghost element (`Simple_manifold_2.C:332`), and
  `get_a_border_edge`, which is off by one (`Simple_manifold_2.h:575`), are left out.
- Input: a missing `@Panes` section makes a process return before the collective calls (`Rocin.C:2776`), a
  material that one process does not find is skipped by it alone (`:3216`), `@Block` divides by zero with fewer
  blocks than processes (`:2688`). These data sets are in the run; `AllReturn` and the others are stated of *regular*
  input. `Numbered`, a condition of `PanesPartitioned` only, excludes `@Block` with a remainder and blocks of more
  than one pane, where the offset is moved by the remainder without the factor of the base (`:2888`) and panes at the boundary go to two
  processes; `@Block` with a remainder and ids beyond its number of blocks; and panes below the offset of a rule, which go to none (`:2681`). `with_pane` counts blocks that are not local (`:1026`); file names with both `%p` and `%i` (`:2790`)
  and time levels that differ between processes (`:506`) are left out.

## 5. Proofs

`ComRegistryProofs`, for every finite or infinite set of names and panes and every `MaxComp` and
`MaxId` (`RegistryAssumption`, `PointersAssumption`: the bounds are positive naturals with room for the keywords, pane ids are
positive, null and dangling pointers are no items): `TypeOK`, `ItemsDoNotOverlap`, `PanesAgree`,
`OnlyRegisteredListed` are invariants of `Spec`, and `KeywordsKept` and `IdStable` hold of its steps.

The inductive invariant `IInv` is `Consistent` of the registry's parts. The checked properties are not
inductive: nothing in them says what lies in a slot that no registered item covers, and a new pane
copies such slots, a deletion searches them and `Dataitems` lists them. `Consistent` adds
that every slot above the keywords that is not null belongs to a registered item (`GoodSet`). It is stated of
parts given as arguments because growing an item deletes it and then constructs it, and in between
is a registry that is never a state. `DeleteKeeps` and `ConstructKeeps` are the two halves; `CopyOfDummy` is the
copy for a new pane and `ResizeKeeps` the compaction. `NextIInv` has one step for each action.

`RocoutAsyncProofs`, first about the semaphore, for every finite set of threads, every maximum and every admissible initial count
(`SemaphoreAssumption`: what the constructor checks): `SemTypeOK`, `MutualExclusion`,
`CountBounded`, `NoLostWakeup` are invariants, and `SemSpec` implements `CountingSemaphore`.
The inductive invariant `SemInv` is the conjunction of the four. For `NoLostWakeup`, a step of `Post` that
raises the count with sleepers wakes one, so count and number of coming threads both grow by one; a thread that
takes a permit lowers both; a thread goes to sleep only with count zero. The cardinalities are
those of `FiniteSetTheorems`. For the refinement each location is mapped to a request; a step
changes the request of one thread (`OneRequestChanges`) or none (`SameRequests`).

`IdStable`, an action property, like `KeywordsKept`, follows from `IInv` action by action: only growth touches the id of
an item that stays, and `GrownItem` reads the number of components back from the dummy pane.

`DDGSchedulerProofs`, for every number of actions, keys and slots: `LinksAgree` and `DataflowOrder` are
invariants, and `Spec` implements `SchedulerContract` (`ContractImplemented`). `DDGInv` says, besides the types:
- `Agrees`, in both directions: a link has its counterpart under the same key. `SetOutput` is `SetInput` with the
  sides exchanged, so the definitions take the sides as parameters and one lemma serves both.
- `Determined`: a linked key has one writer or one reader. A link is made from one end only, and
  `buildDDG` looks for a second partner only at that end; without this conjunct the contract's "each
  read has one writer *and* each write one reader" does not follow from a complete set of links. It
  follows with it, because the other end is then linked, too.
- `Pooled`: only items with all their links are outside the pool of `buildDDG`, so when the pool
  is empty the graph is complete. Hence the test in `sanityCheck` never fails: the only ways to be refused are the messages
  of `buildDDG` and the cycle test of `topological_sort`.
- `Sorted`: `sort` has no repetition and each item comes after those it is linked to; with the pool of
  `topological_sort` it holds every action once.

The refinement is step by step: all but one step of `schedule()` are stutters; `schedule_return`
is the contract's acceptance, with `sort` as the topological order, and each abort its rejection. For the
abort of `topological_sort` the items left in the pool have no first one, so the graph has a cycle. The
contract does not ask for a verdict: that `schedule()` gives one on good graphs is liveness, which TLC checks.

`SimCouplingProofs`, for every number of agents, every bound on the iterations, every slope `Scale` and
every set of even step lengths (an alpha of one half falls on an integer): `LifeCycle`, `CorrectorRestarts` and
`InterpolationExact`. `LifeInv` relates phase, iteration and running agent (`Control`) and the phase to the
schedulers and windows (`Ready`). `Restarts` adds what the backup holds and which agents have gone on from it:
`CorrectorRestarts` alone does not survive `init_convergence`, which restores. `Backups` says what `attr`
and `attr_old` stand for in each phase: `attr` is the last step's until the first transfer of this step, `attr_old` from
then on, in all iterations; interpolation is then arithmetic in two known points.

`ComBaseProofs`, for any windows, libraries, handles and depth of calls: `TablesAgree`, `FreshHandles`,
`LibrariesOpen` and `ProfileExact`. The lemmas about one `COM_map` (`IsTable`) say what adding, replacing and removing do to every
name; a removal moves the indices of the later names, and the agreement of the vectors says by how much. `BaseInv` adds
the running calls and which objects the handles were made for. `BaseAssumption`: the window names are
not names of handles, the client is not a library, the windows are finitely many. For the profile, `ProfileInv` closes the gap between what
is on record and the time that passed: there is an `Account`, a list of profiles with one more for each call
under way, the first what is on record, the last what it ought to be, and each the one before with the time the call has spent itself
(`Own`: until the call it made, without the calls that have returned, which are in `_timer`) added to its function. A call adds nothing,
a return moves its own time into the record and its whole time into the timer of its caller, so all other differences stay. That the total is the sum
is `TotalAdd`: the recursion of the sum takes the same elements of the same subsets whatever is summed, so two sums are compared subset by subset.

The rest of `RocoutAsyncProofs` uses the invariant of the semaphore: for any threads, permits, files and calls
`ThreadsAccounted` and `SyncedFiles`. `AsyncInv` has where a thread is in the semaphore for what it is doing
(`Link`), that `_writers` lists each running thread once after the joined ones (`Threads`), that a file has
at most one job (`Jobs`), and that a file differs from what synchronous calls would have made exactly by the write of the
thread that has yet to write it (`Lacking`); then no thread means no difference. `RocoutAssumption` takes the counts of
the constructor call at `Rocout.C:75` (initial count = maximum > 0) and that `pthread_cond_wait` does not fail: the
writers do not look at what `Wait` returns, and would post a permit they never had.

`DataItemArraysProofs`, for any items, chains of uses, client arrays, heap blocks and sizes (`ArraysAssumption`):
`StorageSound` is an invariant and `ValuesKept` holds of the steps. `ArraysInv` says that nothing was overrun and, of each item, that an item with a parent has
no array of its own and that pointer, capacity and status fit together (`Own`); of each block, that it is allocated as
long as the item that owns it says (`Heap`, `Covers`, `Owned`) and that it has one owner (`Unshared`); and that the
parents have no cycle (`Acyclic`, a depth that decreases towards the parent). `StorageSound` speaks of the array that
`root()` answers with, so it is not inductive by itself: `Own` and the absence of cycles make the root an item that has
the array. What the recursion of `root()` yields for a chain of any length is not proved by induction but by the least
counterexample in the depth (`AlongParents`), after `ChainFunction` has shown that the recursive function exists at all. Each
operation then is a step of one item and the heap (`OneItemStep`), except `use`, which also changes whom the others reach.
For `ValuesKept` the values an item answers with are those of its root (`DataIsRoots`), in the state before and the one after
a step. Growth leaves all roots as they are, copies the values of one of them (`AllocateKeeps`) and, since no block has two
owners, reaches no array of another (`OthersArray`); a clone changes no root of an item that does not use it
(`RootElsewhere`), which `~Uses` in its guard makes sure of for the source; and only a copy or the client goes through a
client's array, which `is_const` of the root stops (`WrittenThrough`).

The same module proves `MeshExact` of `MeshTables` alone (`MeshSpec`), for any panes, chains of uses and clones, counts and dimensions
(`MeshAssumption`: the tables are two or three kinds in the order in which clients make them, and a structured mesh is wider than its ghost layers).
`MeshExact` speaks of what a pane finds at its root, and of all elements; `MeshInv` says of each pane that
- its tables suit their kinds and are in order (`Shaped`), and it ignores ghosts only if a structured table has none (`LayersKept`);
- if it has the mesh itself, offsets and sizes are the sums over the tables (`Counted`), which is what `refresh_connectivity` leaves (`Refreshes`);
- if it uses the mesh of another, it has the same tables (`Mirrors`), and the parents have no cycle (`MeshAcyclic`).

`RootsKnown` carries this along the parents to the root. `SumIs` says that the fold of `refresh_connectivity` over at most three tables is their sum,
and `Tiling` that the intervals from each offset on do not overlap and leave nothing out, whether a pane counts the ghosts or not: that needs the order of
the tables, for an offset counts the ghosts of the tables before it even if the pane that asks ignores them.

`WindowTransferProofs`, for any processes, panes, overlay and lists of calls (`TransferAssumption`: the overlay refers to panes,
faces and nodes there are): `TypeOK` and `RightBuffer` and `ReplicasExact` are invariants. `IInv` says of each process that
- its exchanges are those its calls ask for (`AsksOK`): the n-th is about the same window in all processes, since all run the same
  script, so that what is asked for is what the owners find (`MetaOK`: `to_send` is exactly what the others replicate);
- its receives are what is due in its call, each once, with nothing or with the right message (`RecvsOK`);

and of the network (`NetOK`) that messages of one source, destination and tag are in the order of the calls,
and that what is due to a process has not been sent, or is in flight, or has been received, exactly one of the three
(`Settled`). A delivery takes the oldest message of a tag; a receive for it that is waiting is due in this call and its message is
still to come, so it is that one, for an older call's would have been received before. `TagsDiffer` says that the tags of one owner
differ within a window. The lists that the loops make are characterised by `Lists` and the order (`IntsInOrder`, `TuplesInOrder`),
proved by the least place without an element. For the values, `Copies` adds that a pane needed in this call is still to be unpacked or
that its copy is what `Dense` makes of the message, and `Coors` the same of the coordinates; `DenseExact` says what that is: the moves, from the last entry down to the last one
in place, are a recursive function, whose value at each step is given in closed form (`AtPlace`) and shown to satisfy the recursion
(`PlacesMove`, `MovesSolved`). It rests on the list being ascending: an entry never moves down, so it never lands on one that is yet to move.

`RocinReadProofs`, for any number of processes, data sets, control files, materials and names (`NProcsAssumption`: there is a process;
`DataSetsAssumption`: what is on disk has the types of the format, a client that asks for materials has no control file, files to be
written do not exist before, one file for all panes has one writer): `TypeOK`, `ItemsExact`, `PanesPartitioned` and `Restored` are
invariants. The processes only meet in collective calls, and the k-th calls of all belong together whatever the order in
which the processes run. So `IInv` says what a process has at each place of the code *in terms of the data set alone*:
- `Mine` and `MyRule` are what it finds in the files and the control file; `Expected` is the list of dataitems all agree on,
  `LocalOf` its panes, `Loads` and `Sends` where the window data come from;
- `CallOK` says that what a process contributes to a call does not depend on when it makes it, and `AfterEmpty` that
  all processes come to the same decision after the call about empty windows, so that none broadcasts alone;
- `WindowOK` says that a window that is done has the expected items, panes and data;
- `WriteOK` says that each file holds the blocks of exactly the panes that have been written to it, which the lemma `FilesApart` keeps: a
  process never empties a file that another one writes.

From this `ItemsExact` is a fact about `Expected`, `PanesPartitioned` one about division (`OneOwner`, and `UnevenOwner` for `@Block` with a
remainder: the two parts of the ids, with one block more and without, do not overlap), and `Restored` follows by reading back
what `WriteOK` says of the files (`OwnFiles`, `RestartReads`, `RestartLoads`). A list made by `FlattenSeq` is characterised by the lists of its
prefixes (`Joins`); where this takes an induction, the proof is by the least counterexample.

Only model-checked: the liveness properties (`GoodGraphsScheduled`, `SyncReturns`, `AllReturn`,
`WalksEnd`), for the prover does not reason about fairness; and what is checked of the pane connectivity and
communicator and of `SimpleManifold`. What their recursive functions over lists and meshes of any length compute would need
induction over data, which is out of the prover's reach; the tables of a pane are at most three, so that the sums over them could be written out.

## 6. Not modelled, and the plan

The map of `PROJECT.json` covers about a tenth of the lines of the repository. The rest is mostly code
a model of states and steps says little about: numerical geometry and linear algebra (SurfX overlay and
integration, SurfUtil, Simpal, and SolverUtils, a quarter of all lines, which the other parts do not use), the layout of HDF and CGNS files, and the bindings to C and Fortran, which convert arguments and
forward calls. The remaining parts of the modelled files are messages, printing, and the variants of an
operation for other types and dimensions. `PROJECT.json` gives the reason for each component.

Left of the modelled components: nodal and elemental items with strides and separate components in
`DataItemArrays`; `copy_dataitem` of meshes; conversion of arguments and error codes of calls; restart files of
agents and nested schedulers; structured and quadratic panes in the pane connectivity.

`RightBuffer` of `GhostConnectivity` would follow the argument of `WindowTransferProofs`, with the phases of `build_pconn` in the place of calls.
