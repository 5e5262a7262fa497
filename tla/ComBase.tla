------------------------------- MODULE ComBase --------------------------------
(***************************************************************************)
(* COM_base: the tables of modules, windows, dataitems and functions, the  *)
(* loader, and nested calls with their profile.                            *)
(*                                                                         *)
(* A COM_map keeps objects in a vector, their names in another and an      *)
(* index per name; a handle is an index that clients keep.  Loading a      *)
(* module opens its library and runs its load function, which creates a    *)
(* window with a dataitem and a function; unloading runs its unload        *)
(* function, which deletes the window, and closes the library with its     *)
(* last window.  A function that runs, and an unload function, may load    *)
(* and unload modules and call others.                                     *)
(*                                                                         *)
(* A Window object is a number, never used twice; its dataitem and its     *)
(* function have the same number, for the destructor of Window is never    *)
(* called and new_dataitem and set_function run right after new_window.    *)
(***************************************************************************)
EXTENDS Integers, Sequences, FiniteSets, Functions

CONSTANTS
    Libs,           \* libraries with a load and an unload function
    Wins,           \* names of windows
    MaxObjects,     \* bound on the Window objects created
    MaxHandles,     \* bound on the size of the table of dataitems
    MaxDepth,       \* bound on nested calls
    MaxUnloads,     \* bound on nested unloads
    MaxClock        \* bound on the time that passes

\* The client creates windows too, without functions.
Client == ""

\* Names of windows, of libraries, of dataitems (<<window, const>>) and the
\* empty name are told apart.
ASSUME BaseAssumption ==
    /\ MaxObjects \in Nat /\ MaxHandles \in Nat
    /\ MaxDepth \in Nat /\ MaxUnloads \in Nat /\ MaxClock \in Nat
    /\ Client \notin Libs /\ <<>> \notin Wins /\ IsFiniteSet(Wins)
    /\ \A w \in Wins, c \in BOOLEAN : <<w, c>> \notin Wins

VARIABLES
    module_map,     \* library -> the windows it was loaded for
    window_map,     \* window -> Window object
    attr_map,       \* <<window, const>> -> DataItem object
    func_map,       \* window -> Function object
    made,           \* library whose load function created each Window object
    fresh,          \* names whose handle was asked for since their window was made
    unloads,        \* unload_module under way: its local variables
    strayed,        \* one of them went on with the record of another library
    stack,          \* calls under way: the caller's local variables
    depth,          \* _depth
    timer,          \* _timer
    profile,        \* _profile_on, wtimes_self, wtimes_tree[0]
    clock,
    spent           \* time each function was running since profiling was set

vars == <<module_map, window_map, attr_map, func_map, made, fresh,
          unloads, strayed, stack, depth, timer, profile, clock, spent>>
unloading == <<unloads, strayed>>
tables == <<module_map, window_map, attr_map, func_map, made, fresh, unloads, strayed>>
calls == <<stack, depth, timer, profile, clock, spent>>

------------------------------------------------------------------------------
(* COM_map: i2o and names are vectors, index i at position i + 1.          *)

\* The empty name: tuples are the names of dataitems.
NoName == <<>>

EmptyMap == [i2o |-> <<>>, names |-> <<>>, n2i |-> <<>>]

find(m, name) == IF name \in DOMAIN m.n2i THEN m.n2i[name] ELSE -1

\* An object at index 0 is taken for a missing one.
add_object(m, name, t) ==
    LET i == find(m, name)
    IN IF i > 0 THEN [m EXCEPT !.i2o[i + 1] = t]
       ELSE [i2o |-> Append(m.i2o, t), names |-> Append(m.names, name),
             n2i |-> [x \in DOMAIN m.n2i \cup {name} |->
                         IF x = name THEN Len(m.i2o) ELSE m.n2i[x]]]

Erase(s, p) == SubSeq(s, 1, p - 1) \o SubSeq(s, p + 1, Len(s))

\* Mutant: the indices behind the removed object are left.
remove_object_unshifted(m, name) ==
    LET i == find(m, name)
    IN [i2o |-> Erase(m.i2o, i + 1), names |-> Erase(m.names, i + 1),
        n2i |-> Restrict(m.n2i, DOMAIN m.n2i \ {name})]

remove_object(m, name) ==
    LET i == find(m, name)
    IN [i2o |-> Erase(m.i2o, i + 1), names |-> Erase(m.names, i + 1),
        n2i |-> [x \in DOMAIN m.n2i \ {name} |->
                    IF m.n2i[x] > i THEN m.n2i[x] - 1 ELSE m.n2i[x]]]

Has(m, name) == find(m, name) >= 0
Object(m, name) == m.i2o[find(m, name) + 1]

\* The constructor of COM_base gives index 0 of the tables of dataitems and
\* functions to the empty name, so that 0 is no handle.
HandleTable == add_object(EmptyMap, NoName, 0)

Init ==
    /\ module_map = EmptyMap /\ window_map = EmptyMap
    /\ attr_map = HandleTable /\ func_map = HandleTable
    /\ made = <<>> /\ fresh = {}
    /\ unloads = <<>> /\ strayed = FALSE
    /\ stack = <<>> /\ depth = 0 /\ timer = <<>>
    /\ profile = [on |-> FALSE, self |-> [w \in Wins |-> 0], total |-> 0]
    /\ clock = 0 /\ spent = [w \in Wins |-> 0]

------------------------------------------------------------------------------
(* Windows.  Names are asked for anew after their window is made anew.     *)

NotOf(w) == {x \in fresh : x # w /\ x # <<w, TRUE>> /\ x # <<w, FALSE>>}

MakeWindow(w, lib) ==
    /\ Len(made) < MaxObjects
    /\ window_map' = add_object(window_map, w, Len(made) + 1)
    /\ made' = Append(made, lib)
    /\ fresh' = NotOf(w)

new_window(w) ==
    /\ ~Has(window_map, w)
    /\ MakeWindow(w, Client)
    /\ UNCHANGED <<module_map, attr_map, func_map, unloading, calls>>

Lib(w) == made[Object(window_map, w)]

delete_window(w) ==
    /\ Has(window_map, w) /\ Lib(w) = Client
    /\ window_map' = remove_object(window_map, w)
    /\ fresh' = NotOf(w)
    /\ UNCHANGED <<module_map, attr_map, func_map, made, unloading, calls>>

\* Mutant: the handle of a constant dataitem is that of the other.
get_handle_shared(w, const) ==
    /\ Has(window_map, w)
    /\ Len(attr_map.i2o) < MaxHandles
    /\ attr_map' = add_object(attr_map, <<w, FALSE>>, Object(window_map, w))
    /\ fresh' = fresh \cup {<<w, const>>}
    /\ UNCHANGED <<module_map, window_map, func_map, made, unloading, calls>>

\* get_dataitem_handle and get_dataitem_handle_const
get_dataitem_handle(w, const) ==
    /\ Has(window_map, w)
    /\ <<w, const>> \in DOMAIN attr_map.n2i \/ Len(attr_map.i2o) < MaxHandles
    /\ attr_map' = add_object(attr_map, <<w, const>>, Object(window_map, w))
    /\ fresh' = fresh \cup {<<w, const>>}
    /\ UNCHANGED <<module_map, window_map, func_map, made, unloading, calls>>

get_function_handle(w) ==
    /\ Has(window_map, w) /\ Lib(w) # Client
    /\ func_map' = add_object(func_map, w, Object(window_map, w))
    /\ fresh' = fresh \cup {w}
    /\ UNCHANGED <<module_map, window_map, attr_map, made, unloading, calls>>

------------------------------------------------------------------------------
(* The loader.                                                             *)

\* The windows of a library that is open; it is opened if it is not.
Opened(lib) == IF Has(module_map, lib) THEN module_map ELSE add_object(module_map, lib, {})

Recorded(m, lib, W) == [m EXCEPT !.i2o[find(m, lib) + 1] = W]

\* load_module up to the load function: the name is on record whatever follows.
RecordedFor(lib, w) ==
    LET m == Opened(lib) IN Recorded(m, lib, Object(m, lib) \cup {w})

\* Opening one more library may move the vector i2o: the references into it that
\* unload_module keeps while the unload function runs are dangling then.
References(lib) ==
    \/ UNCHANGED unloads
    \/ /\ ~Has(module_map, lib)
       /\ unloads # <<>>
       /\ unloads' = [k \in DOMAIN unloads |-> [unloads[k] EXCEPT !.dangling = TRUE]]

\* Clients load a module under the name of no window there is.
load_module(lib, w) ==
    /\ ~Has(window_map, w)
    /\ module_map' = RecordedFor(lib, w)
    /\ References(lib)
    /\ MakeWindow(w, lib)
    /\ UNCHANGED <<attr_map, func_map, strayed, calls>>

\* The library has no load function, or that throws: the exception leaves the
\* library open and the name on its record, without a window.
load_module_fails(lib, w) ==
    /\ ~Has(window_map, w)
    /\ module_map' = RecordedFor(lib, w)
    /\ References(lib)
    /\ UNCHANGED <<window_map, attr_map, func_map, made, fresh, strayed, calls>>

\* Clients unload a window of a module when none of its functions is running and
\* it is not being unloaded already.
Idle(w) ==
    /\ \A k \in DOMAIN stack : stack[k].wf # w
    /\ \A k \in DOMAIN unloads : unloads[k].win # w

\* unload_module, and close_module, which leaves the library open (dodl = 0), up
\* to the call of the unload function.  The name of the window may be left empty
\* if the library has one on record.  obj is a reference into i2o: a position.
\* (For a name without a window of the library the unload function throws.)
unload_module(lib, w, wname, dodl) ==
    /\ Has(module_map, lib)
    /\ w \in Object(module_map, lib)
    /\ wname = NoName => Object(module_map, lib) = {w}
    /\ Has(window_map, w) /\ Lib(w) = lib
    /\ Idle(w)
    /\ Len(unloads) < MaxUnloads
    /\ unloads' = Append(unloads, [lib |-> lib, win |-> w, wname |-> wname, dodl |-> dodl,
                                   obj |-> find(module_map, lib) + 1, dangling |-> FALSE,
                                   at |-> Len(stack)])
    /\ UNCHANGED <<module_map, window_map, attr_map, func_map, made, fresh, strayed, calls>>

\* Mutant: the library is closed with its first window.
ClosesEarly(W, dodl) == dodl
Closes(W, dodl) == dodl /\ W = {}

\* unload_module from the return of the unload function, which has deleted the
\* window.  The reference may now be to the record of another library, for a
\* library before it was closed in between, or to none, and then what is read
\* there is arbitrary; remove_object throws when the library is gone.
unload_returns ==
    LET u == unloads[Len(unloads)]
        there == ~u.dangling /\ u.obj \in DOMAIN module_map.names
        other == module_map.names[u.obj]
        W == Object(module_map, other) \ {u.wname}
        m == IF there THEN Recorded(module_map, other, W) ELSE module_map
    IN /\ unloads # <<>>
       /\ Len(stack) = u.at
       /\ unloads' = SubSeq(unloads, 1, Len(unloads) - 1)
       /\ strayed' = (strayed \/ ~there \/ u.obj # find(module_map, u.lib) + 1)
       /\ \E W2 \in IF there THEN {W} ELSE {{}, {u.win}} :
             module_map' = IF Closes(W2, u.dodl) /\ Has(m, u.lib)
                           THEN remove_object(m, u.lib) ELSE m
       /\ window_map' = remove_object(window_map, u.win)
       /\ fresh' = NotOf(u.win)
       /\ UNCHANGED <<attr_map, func_map, made, calls>>

------------------------------------------------------------------------------
(* call_function, up to the call of the function and from its return, and  *)
(* the profile.  The table of functions is indexed by handle; a handle     *)
(* names a window here.                                                    *)

call_function(w) ==
    /\ w \in fresh                       \* a handle of a function there is
    /\ Len(stack) < MaxDepth
    /\ stack' = Append(stack, [wf |-> w, lib |-> made[Object(func_map, w)],
                               t |-> IF profile.on THEN clock ELSE 0])
    /\ depth' = depth + 1
    /\ UNCHANGED <<tables, timer, profile, clock, spent>>

Resize(s, n) == [k \in 1..n |-> IF k <= Len(s) THEN s[k] ELSE 0]

\* Mutant: the timers of the calls made by the function are kept.
TimerWithoutReset(s, n, sec) == IF n > 0 THEN [Resize(s, IF n > Len(s) THEN n ELSE Len(s)) EXCEPT ![n] = @ + sec] ELSE s
TimerAfter(s, n, sec) ==
    LET r == Resize(s, n) IN IF n > 0 THEN [r EXCEPT ![n] = @ + sec] ELSE r

ReturnedDepth(d) == d - 1

Return ==
    LET frame == stack[Len(stack)]
        d == ReturnedDepth(depth)
        sec == clock - frame.t
        inner == IF Len(timer) > d THEN timer[d + 1] ELSE 0
    IN /\ stack # <<>>
       /\ \A k \in DOMAIN unloads : unloads[k].at < Len(stack)
       /\ stack' = SubSeq(stack, 1, Len(stack) - 1)
       /\ depth' = d
       /\ IF profile.on
          THEN /\ timer' = TimerAfter(timer, d, sec)
               /\ profile' = [profile EXCEPT !.self[frame.wf] = @ + sec - inner,
                                             !.total = IF d = 0 THEN @ + sec ELSE @]
          ELSE UNCHANGED <<timer, profile>>
       /\ UNCHANGED <<tables, clock, spent>>

\* Clients switch profiling when no call is under way.
set_profiling(on) ==
    /\ stack = <<>>
    /\ profile' = [on |-> on, self |-> [w \in Wins |-> 0], total |-> 0]
    /\ spent' = [w \in Wins |-> 0]
    /\ UNCHANGED <<tables, stack, depth, timer, clock>>

Tick ==
    /\ clock < MaxClock
    /\ clock' = clock + 1
    /\ spent' = IF stack = <<>> \/ ~profile.on THEN spent
                ELSE [spent EXCEPT ![stack[Len(stack)].wf] = @ + 1]
    /\ UNCHANGED <<tables, stack, depth, timer, profile>>

Next ==
    \/ \E w \in Wins :
          \/ new_window(w)
          \/ delete_window(w)
          \/ \E const \in BOOLEAN : get_dataitem_handle(w, const)
          \/ get_function_handle(w)
          \/ \E lib \in Libs : load_module(lib, w) \/ load_module_fails(lib, w)
          \/ \E lib \in Libs, wname \in {w, NoName}, dodl \in BOOLEAN :
                unload_module(lib, w, wname, dodl)
          \/ call_function(w)
    \/ unload_returns
    \/ Return
    \/ \E on \in BOOLEAN : set_profiling(on)
    \/ Tick

Spec == Init /\ [][Next]_vars

------------------------------------------------------------------------------
(* Properties *)

Objects == 0..MaxObjects
IsMap(m, Names, Objs) ==
    /\ m.i2o \in Seq(Objs)
    /\ m.names \in Seq(Names)
    /\ DOMAIN m.n2i \subseteq Names
    /\ \A x \in DOMAIN m.n2i : m.n2i[x] \in Nat

TypeOK ==
    /\ IsMap(module_map, Libs, SUBSET Wins)
    /\ IsMap(window_map, Wins, Objects)
    /\ IsMap(attr_map, (Wins \X BOOLEAN) \cup {NoName}, Objects)
    /\ IsMap(func_map, Wins \cup {NoName}, Objects)
    /\ made \in Seq(Libs \cup {Client})
    /\ fresh \subseteq Wins \cup (Wins \X BOOLEAN)
    /\ strayed \in BOOLEAN
    /\ depth \in Nat
    /\ timer \in Seq(Nat)
    /\ profile.on \in BOOLEAN /\ profile.total \in Nat
    /\ clock \in 0..MaxClock

\* The two directions of every table agree, whatever was removed: the index
\* of a name is where its name and its object are, and no object is left
\* that no name leads to.
Agree(m) ==
    /\ Len(m.i2o) = Len(m.names)
    /\ \A x \in DOMAIN m.n2i : m.n2i[x] + 1 \in DOMAIN m.names /\ m.names[m.n2i[x] + 1] = x
    /\ \A p \in DOMAIN m.names : find(m, m.names[p]) = p - 1
TablesAgree == TypeOK /\ Agree(module_map) /\ Agree(window_map) /\ Agree(attr_map) /\ Agree(func_map)

\* A handle that a client asked for since the window was made leads to the
\* item, or the function, of the window there is now, and is not 0, whichever
\* windows and handles came and went in between.
FreshHandles ==
    /\ \A w \in Wins, c \in BOOLEAN : <<w, c>> \in fresh =>
          /\ Has(window_map, w) /\ find(attr_map, <<w, c>>) > 0
          /\ Object(attr_map, <<w, c>>) = Object(window_map, w)
    /\ \A w \in Wins : w \in fresh =>
          /\ Has(window_map, w) /\ find(func_map, w) > 0
          /\ Object(func_map, w) = Object(window_map, w)

\* No library is closed under its own code: the library of every window that a
\* module made is open with that window on record, and so is that of every function
\* and every unload function that is running, whatever loads fail, with or without
\* names, and however unloads nest.  The one thing that breaks it is the reference
\* unload_module keeps across the unload function: this holds up to the first
\* time it was no longer to the record of the library.
LibrariesOpen ==
    ~strayed =>
        /\ \A w \in Wins : Has(window_map, w) /\ Lib(w) # Client =>
              Has(module_map, Lib(w)) /\ w \in Object(module_map, Lib(w))
        /\ \A k \in DOMAIN stack : Has(module_map, stack[k].lib)
        /\ \A k \in DOMAIN unloads : Has(module_map, unloads[k].lib)

\* When no call is under way the profile tells the truth: the time on record
\* for each function is the time it was running itself, without the ones it
\* called, and the total is their sum.
ProfileExact ==
    stack = <<>> =>
        /\ depth = 0
        /\ profile.self = spent
        /\ profile.total = FoldFunction(+, 0, spent)
==============================================================================
