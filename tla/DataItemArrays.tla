---------------------------- MODULE DataItemArrays ----------------------------
(***************************************************************************)
(* The arrays behind COM dataitems, and use-inheritance (DataItem, Pane).  *)
(*                                                                         *)
(* A dataitem has a size and an array.  The array is the client's          *)
(* (set_array), COM's own (alloc_array, resize_array, append_array,        *)
(* clone), or the array of the item it uses (use), found through the chain *)
(* of _parent pointers whose end is the root.  _cap is the capacity of the *)
(* array; use copies it from the root.                                     *)
(*                                                                         *)
(* The items are panel items of one component with no ghosts, so that an   *)
(* item has a size of its own; a value stands for one entry.  The heap     *)
(* keeps the contents of every array, so that a copy beyond the end of an  *)
(* array or into a freed one can be told from a correct one.               *)
(***************************************************************************)
EXTENDS Integers, Sequences, FiniteSets, FiniteSetsExt

CONSTANTS
    Item,         \* the dataitems, each in a window of its own
    ClientArray,  \* arrays of the client that set_array registers
    ClientLen,    \* number of entries of a client array
    Block,        \* memory that new char[] can return
    MaxSize,      \* bound on sizes and capacities
    Sizes,        \* sizes the client sets, and numbers of entries it appends
    Caps,         \* capacities the client asks for; 0 asks for the default
    NULL

ASSUME ArraysAssumption ==
    /\ MaxSize \in Nat
    /\ ClientLen \in Nat
    /\ Sizes \subseteq 0..MaxSize /\ Caps \subseteq 0..MaxSize
    /\ Block \cap ClientArray = {}
    /\ NULL \notin Item \cup Block \cup ClientArray

VARIABLES
    item,     \* the DataItem objects
    heap,     \* contents of the arrays; <<>> where there is no array
    overrun   \* COM has read or written outside an array

vars == <<item, heap, overrun>>

Status == {"NOT_INITIALIZED", "SET", "SET_CONST", "ALLOCATED"}
Value == {0, 1}
DataItem == [exists: BOOLEAN, nitems: -1..MaxSize, cap: 0..MaxSize, status: Status,
             ptr: Block \cup ClientArray \cup {NULL}, parent: Item \cup {NULL}]

\* DataItem::DataItem, and what the destructor leaves of the object.
NewDataItem == [exists |-> TRUE, nitems |-> -1, cap |-> 0,
                status |-> "NOT_INITIALIZED", ptr |-> NULL, parent |-> NULL]
NoDataItem == [NewDataItem EXCEPT !.exists = FALSE]

Init ==
    /\ item = [i \in Item |-> NoDataItem]
    /\ heap = [a \in Block \cup ClientArray |->
                 IF a \in Block THEN <<>> ELSE [k \in 1..ClientLen |-> 0]]
    /\ overrun = FALSE

------------------------------------------------------------------------------
(* What an item answers.                                                   *)

Existing == {i \in Item : item[i].exists}

\* The root of every item, by the _parent pointers, which form no cycle.
Roots ==
    LET r[i \in Item] == IF item[i].parent = NULL THEN i ELSE r[item[i].parent]
    IN r
root(i) == Roots[i]

\* i is j or an item that j uses, directly or through others.
Uses(j, i) ==
    LET u[k \in Item] == k = i \/ (item[k].parent # NULL /\ u[item[k].parent])
    IN u[j]

size_set(i) == item[root(i)].nitems >= 0
size_of_items(i) == Max({0, item[root(i)].nitems})

\* Its own array if it has one, else the root's.
Holder(i) == IF item[i].status # "NOT_INITIALIZED" THEN i ELSE root(i)
pointer(i) == item[Holder(i)].ptr
capacity(i) == item[Holder(i)].cap
initialized(i) == item[Holder(i)].status # "NOT_INITIALIZED"

is_const(i) == item[root(i)].status = "SET_CONST"

\* The sizes and the array fit: the state between set_size and the call that
\* gives the item a larger array is the only one in which they do not.
Ready(i) == initialized(i) => size_of_items(i) <= capacity(i)

------------------------------------------------------------------------------
(* Steps the operations are made of, on one DataItem d and on the heap h.  *)

Deallocated(d) ==
    IF d.status = "ALLOCATED"
    THEN [d EXCEPT !.status = "NOT_INITIALIZED", !.ptr = NULL] ELSE d

Delete(h, d) ==
    IF d.status = "ALLOCATED" /\ d.ptr # NULL THEN [h EXCEPT ![d.ptr] = <<>>] ELSE h

\* DataItem::allocate gets a new array unless the one it has is large enough.
Reallocates(d, cap, force) ==
    d.status = "NOT_INITIALIZED" \/ force \/ d.cap < cap

Allocated(d, b, cap, force) ==
    IF Reallocates(d, cap, force)
    THEN [d EXCEPT !.ptr = IF cap = 0 THEN NULL ELSE b,
                   !.cap = cap, !.status = "ALLOCATED", !.parent = NULL]
    ELSE d

\* Mutant: the old values are not copied.
NewArrayForgets(h, d, b, cap, force) ==
    IF ~Reallocates(d, cap, force) THEN h
    ELSE IF cap = 0 THEN Delete(h, d)
    ELSE [Delete(h, d) EXCEPT ![b] = [k \in 1..cap |-> 0]]

\* The new array is zero but for the values kept of the old one, which is deleted.
NewArray(h, d, b, cap, force) ==
    LET kept == IF d.status = "NOT_INITIALIZED" \/ force THEN 0 ELSE Min({d.cap, cap})
        new == [k \in 1..cap |-> IF k <= kept THEN h[d.ptr][k] ELSE 0]
    IN IF ~Reallocates(d, cap, force) THEN h
       ELSE IF cap = 0 THEN Delete(h, d)
       ELSE [Delete(h, d) EXCEPT ![b] = new]

\* The array a with values vs from entry at+1 on; what falls outside is lost.
Overwrite(h, a, at, vs) ==
    [h EXCEPT ![a] = [k \in DOMAIN h[a] |->
        IF k - at \in DOMAIN vs THEN vs[k - at] ELSE h[a][k]]]

Inside(h, a, n) == n = 0 \/ (a # NULL /\ n <= Len(h[a]))

\* Free memory for new char[]; one block is as good as another.
FreeBlock(b) == heap[b] = <<>>

\* Pane::reinit_dataitem, the capacity when the caller gives none (0).
DefaultCap(i, cap) ==
    LET n == size_of_items(i)
    IN IF cap # 0 THEN cap
       ELSE IF capacity(i) = 0 THEN n
       ELSE IF n <= capacity(i) THEN capacity(i)
       ELSE n + n \div 5

------------------------------------------------------------------------------
(* The operations.  A call that fails before it changes anything is a      *)
(* guard here; one that fails half-way is a step with what it has changed. *)

\* COM_new_dataitem, and the panes' own DataItem for it.
new_dataitem(i) ==
    /\ i \notin Existing
    /\ item' = [item EXCEPT ![i] = NewDataItem]
    /\ UNCHANGED <<heap, overrun>>

\* The destructor frees the array unless the item uses another.
delete_dataitem(i) ==
    /\ i \in Existing
    /\ \A j \in Existing : item[j].parent # i
    /\ item' = [item EXCEPT ![i] = NoDataItem]
    /\ heap' = IF item[i].parent = NULL THEN Delete(heap, item[i]) ELSE heap
    /\ UNCHANGED overrun

set_size(i, n) ==
    /\ i \in Existing
    /\ item[i].parent = NULL
    /\ item' = [item EXCEPT ![i].nitems = n]
    /\ UNCHANGED <<heap, overrun>>

\* set_array and set_array_const: a is an array of the client.  Clients set
\* arrays of roots only: on another item get_addr() goes to the root's array and
\* is_const() tells about the root's.
set_array(i, a, cap, const) ==
    LET c == IF cap = 0 THEN size_of_items(i) ELSE cap
        p == IF c = 0 THEN NULL ELSE a
    IN /\ i \in Existing
       /\ item[i].parent = NULL
       /\ size_set(i)
       /\ p # NULL => size_of_items(i) <= c /\ c <= ClientLen
       /\ item' = [item EXCEPT ![i] =
             [Deallocated(@) EXCEPT !.cap = c, !.ptr = p,
                                    !.status = IF const THEN "SET_CONST" ELSE "SET"]]
       /\ heap' = Delete(heap, item[i])
       /\ UNCHANGED overrun

\* alloc_array (force) and resize_array: the item is a root.
Allocate(i, b, cap, force) ==
    LET c == DefaultCap(i, cap)
    IN /\ i \in Existing
       /\ item[i].parent = NULL
       /\ size_set(i)
       /\ size_of_items(i) <= c /\ c <= MaxSize
       /\ force \/ item[i].status \notin {"SET", "SET_CONST"}
       /\ Reallocates(item[i], c, force) => FreeBlock(b)
       /\ item' = [item EXCEPT ![i] = Allocated(@, b, c, force)]
       /\ heap' = NewArray(heap, item[i], b, c, force)
       /\ UNCHANGED overrun

alloc_array(i, b, cap) == Allocate(i, b, cap, TRUE)
resize_array(i, b, cap) == Allocate(i, b, cap, FALSE)

AppendedSize(d, n) == d.nitems + n

\* append_array makes room for n entries, copies them and adds n to the size.
\* An item without a size has been given size 0 when an array that was set
\* makes it fail.
append_array(i, b, n) ==
    LET d == [item[i] EXCEPT !.nitems = size_of_items(i)]
        c == DefaultCap(i, d.nitems + n)
        room == Allocated(d, b, c, FALSE)
    IN /\ i \in Existing
       /\ item[i].parent = NULL
       /\ c <= MaxSize
       /\ Reallocates(d, c, FALSE) => FreeBlock(b)
       /\ IF d.status \in {"SET", "SET_CONST"}
          THEN /\ item' = [item EXCEPT ![i] = d]
               /\ UNCHANGED <<heap, overrun>>
          ELSE LET h == NewArray(heap, d, b, c, FALSE)
               IN /\ item' = [item EXCEPT ![i] = [room EXCEPT !.nitems = AppendedSize(room, n)]]
                  /\ heap' = IF n = 0 THEN h
                             ELSE Overwrite(h, room.ptr, d.nitems, [k \in 1..n |-> 1])
                  /\ overrun' = (overrun \/ ~Inside(h, room.ptr, d.nitems + n))

dealloc_array(i) ==
    /\ i \in Existing
    /\ item[i].status = "ALLOCATED"
    /\ item' = [item EXCEPT ![i] = Deallocated(@)]
    /\ heap' = Delete(heap, item[i])
    /\ UNCHANGED overrun

\* use_dataitem and clone_dataitem create the target if there is none.
Target(i) == IF i \in Existing THEN item[i] ELSE NewDataItem

\* Clients let an item use another before it has an array of its own: it would
\* keep that array but answer with the root's capacity.
use_dataitem(i, j) ==
    /\ j \in Existing
    /\ ~Uses(j, i)
    /\ Target(i).status = "NOT_INITIALIZED"
    /\ item' = [item EXCEPT ![i] = [Target(i) EXCEPT !.parent = j, !.cap = item[root(j)].cap]]
    /\ UNCHANGED <<heap, overrun>>

\* The first n values of the array of j, as many as there are.
Values(j, n) == SubSeq(heap[pointer(j)], 1, Min({n, Len(heap[pointer(j)])}))

\* DataItem::inherit overwrites the size and the capacity before allocate can
\* refuse them, and Pane::inherit then copies the values.  Clients that clone
\* onto an item with an array have an array for it in the source, of the right
\* size, or one that deallocate frees.
clone_dataitem(i, j, b) ==
    LET n == size_of_items(j)
        d == [Target(i) EXCEPT !.cap = item[root(j)].cap, !.parent = NULL, !.nitems = n]
        h == NewArray(heap, d, b, d.cap, TRUE)
        new == Allocated(d, b, d.cap, TRUE)
    IN /\ j \in Existing
       /\ ~Uses(j, i)
       /\ FreeBlock(b)
       /\ d.status # "NOT_INITIALIZED" =>
             IF initialized(j) THEN n <= d.cap ELSE d.status = "ALLOCATED"
       /\ \/ /\ ~initialized(j)
             /\ item' = [item EXCEPT ![i] = Deallocated(d)]
             /\ heap' = Delete(heap, d)
             /\ UNCHANGED overrun
          \/ /\ initialized(j) /\ d.cap < n
             /\ item' = [item EXCEPT ![i] = d]
             /\ UNCHANGED <<heap, overrun>>
          \/ /\ initialized(j) /\ n <= d.cap
             /\ item' = [item EXCEPT ![i] = new]
             /\ heap' = IF n = 0 \/ pointer(j) = NULL THEN h
                        ELSE Overwrite(h, new.ptr, 0, Values(j, n))
             /\ overrun' = (overrun \/ (pointer(j) # NULL /\ ~Inside(heap, pointer(j), n)))

\* Mutant: the capacity copied by use is taken to be current.
CopyTargetStale(i) == item[i]

\* copy_array, direction COPY_IN, takes the root's capacity if the array is
\* the root's.
CopyTarget(i) ==
    IF item[i].status = "NOT_INITIALIZED" /\ item[i].parent # NULL
    THEN [item[i] EXCEPT !.cap = item[root(i)].cap] ELSE item[i]

\* copy_dataitem asserts that the sizes agree.
copy_dataitem(i, j) ==
    LET n == size_of_items(j)
        d == CopyTarget(i)
    IN /\ i \in Existing /\ j \in Existing /\ i # j
       /\ Ready(j)
       /\ n > 0 /\ size_of_items(i) = n
       /\ pointer(i) # NULL /\ pointer(j) # NULL
       /\ ~is_const(i)
       /\ item' = [item EXCEPT ![i] = d]
       /\ IF d.cap < n THEN UNCHANGED <<heap, overrun>>
          ELSE /\ heap' = Overwrite(heap, pointer(i), 0, Values(j, n))
               /\ overrun' = (overrun \/ ~Inside(heap, pointer(i), n)
                                      \/ ~Inside(heap, pointer(j), n))

\* COM_copy_array of all entries, into an array of the caller.  pointer() is
\* the modifiable one, which refuses an array set as constant.
CopyOutSucceeds(i) ==
    /\ ~is_const(i)
    /\ size_of_items(i) <= item[i].cap

copy_array(i) ==
    /\ i \in Existing
    /\ pointer(i) # NULL /\ Ready(i)
    /\ CopyOutSucceeds(i)
    /\ overrun' = (overrun \/ ~Inside(heap, pointer(i), size_of_items(i)))
    /\ UNCHANGED <<item, heap>>

\* The client writes the entries through a pointer from COM_get_array.
ClientWrites(i) ==
    LET n == Min({size_of_items(i), capacity(i)})
    IN /\ i \in Existing
       /\ pointer(i) # NULL /\ ~is_const(i)
       /\ heap' = Overwrite(heap, pointer(i), 0, [k \in 1..n |-> 1])
       /\ UNCHANGED <<item, overrun>>

Next ==
    \E i \in Item :
        \/ new_dataitem(i)
        \/ delete_dataitem(i)
        \/ \E n \in Sizes : set_size(i, n)
        \/ \E a \in ClientArray, cap \in Caps, const \in BOOLEAN :
              set_array(i, a, cap, const)
        \/ \E b \in Block, cap \in Caps : alloc_array(i, b, cap)
        \/ \E b \in Block, cap \in Caps : resize_array(i, b, cap)
        \/ \E b \in Block, n \in Sizes : append_array(i, b, n)
        \/ dealloc_array(i)
        \/ \E j \in Item : use_dataitem(i, j)
        \/ \E j \in Item, b \in Block : clone_dataitem(i, j, b)
        \/ \E j \in Item : copy_dataitem(i, j)
        \/ copy_array(i)
        \/ ClientWrites(i)

Spec == Init /\ [][Next]_vars

------------------------------------------------------------------------------
(* Properties.                                                             *)

TypeOK ==
    /\ item \in [Item -> DataItem]
    /\ DOMAIN heap = Block \cup ClientArray
    /\ \A a \in DOMAIN heap : heap[a] \in UNION {[1..n -> Value] : n \in 0..Max({MaxSize, ClientLen})}
    /\ overrun \in BOOLEAN

\* The array an item answers with is there, and is at least as long as the
\* capacity the item answers with, whatever happened to the items it uses.
BufferCovers ==
    \A i \in Existing : pointer(i) # NULL =>
        /\ heap[pointer(i)] # <<>>
        /\ capacity(i) <= Len(heap[pointer(i)])

\* No array of COM is lost or freed twice: each belongs to one existing item,
\* and only items whose root it is reach it.
OneOwner ==
    \A b \in Block : heap[b] # <<>> =>
        \E i \in Existing :
            /\ item[i].status = "ALLOCATED" /\ item[i].ptr = b
            /\ \A j \in Existing : pointer(j) = b => root(j) = i

\* COM never reads or writes outside an array or in a freed one.
NoOverrun == ~overrun

\* The storage of COM is sound: every array answered is there and as long as
\* it is said to be, nothing is read or written beyond it, and no array is
\* leaked or freed twice.
StorageSound == TypeOK /\ BufferCovers /\ NoOverrun /\ OneOwner

\* The values an item holds, through its own array or its root's.
Data(i) ==
    IF pointer(i) = NULL THEN <<>>
    ELSE SubSeq(heap[pointer(i)], 1, Min({size_of_items(i), capacity(i)}))

\* The items that a step has given a block of COM.
Supplied == {i \in Item : item'[i] # item[i] /\ item'[i].ptr \in Block}

\* Making an array larger keeps its values, for the item and for all that use it.
GrowthKeepsData ==
    [][(\E i \in Supplied \cap Existing :
            \/ \E cap \in Caps : resize_array(i, item'[i].ptr, cap)
            \/ \E n \in Sizes : append_array(i, item'[i].ptr, n))
       => \A j \in Existing :
            /\ Len(Data(j)) <= Len(Data(j)')
            /\ \A k \in DOMAIN Data(j) : Data(j)'[k] = Data(j)[k]]_vars

\* A clone has the values of the item it was made from, which keeps them.
CloneCopies ==
    [][\A i \in Supplied, j \in {k \in Existing : pointer(k) # NULL} :
          clone_dataitem(i, j, item'[i].ptr) => Data(j)' = Data(j) /\ Data(i)' = Data(j)]_vars

\* A client array that is registered as constant is never written to, also
\* not through an item that uses the one it is registered with, unless it is
\* registered a second time as one that may be written.
ConstArraysKept ==
    [][\A a \in ClientArray : heap'[a] # heap[a] =>
          \E i \in Existing : item[i].ptr = a /\ item[i].status = "SET"]_vars

\* Values change only where a call says so: not by growing, not in the source
\* or in the values of a clone, not in an array registered as constant.
ValuesKept == GrowthKeepsData /\ CloneCopies /\ ConstArraysKept
==============================================================================
