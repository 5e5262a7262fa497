----------------------------- MODULE ComRegistry -----------------------------
(***************************************************************************)
(* The dataitem registry of one COM window (ComponentInterface and Pane).  *)
(*                                                                         *)
(* A window keeps a map from dataitem names to ids (_attr_map), the next   *)
(* free id (_last_id), a status and, for a dummy pane and for each of its  *)
(* panes, a vector of DataItem pointers indexed by id (_attr_set).  The    *)
(* first COM_NUM_KEYWORDS ids are the keywords ("nc", "mesh", ..., "all"). *)
(* An item of n > 1 components takes n+1 consecutive slots, itself and one *)
(* per component.  Items are defined, redefined and deleted in any order,  *)
(* panes come and go in between, and window_init_done compacts the ids     *)
(* after a deletion.                                                       *)
(***************************************************************************)
EXTENDS Integers, FiniteSets

CONSTANTS
    Names,      \* names of user-defined dataitems
    PaneIds,    \* ids the clients give to panes (positive)
    MaxComp,    \* bound on the number of components of an item
    MaxId,      \* bound on _last_id: ids are below it
    NULL,       \* the null pointer, and "no such entry"
    Freed       \* a pointer to a DataItem that has been deleted

COM_NUM_KEYWORDS == 13
COM_ALL == 12

\* COM_ALL has size 0 in _keysizes, so the largest id + ncomp + (ncomp > 1)
\* over the keywords is not COM_NUM_KEYWORDS but this:
KeywordTop == 12

Dummy == 0
Keyword == "keyword"
Index == 0..(MaxId - 1)

ASSUME RegistryAssumption ==
    /\ MaxComp \in Nat /\ MaxComp > 0
    /\ MaxId \in Nat /\ MaxId >= COM_NUM_KEYWORDS
    /\ PaneIds \subseteq Nat \ {Dummy}
    /\ Keyword \notin Names
    /\ NULL # Freed

\* A DataItem object: its name, which component of the item it is (0 is the
\* item itself), its _ncomp, and the id at which its new[] block starts.
DataItem == [name: Names \cup {Keyword}, comp: Nat, ncomp: Nat, base: Nat]
Slot == DataItem \cup {NULL, Freed}
AttrSet == [size: 0..MaxId, slot: [Index -> Slot]]

ASSUME PointersAssumption == NULL \notin DataItem \cup Nat /\ Freed \notin DataItem

VARIABLES
    attr_map,   \* name -> id of its DataItem in the dummy pane, or NULL
    attr_set,   \* pane id (0 for the dummy) -> its _attr_set
    pane_map,   \* ids of the panes of the window
    last_id,
    status,
    halted      \* the process has ended: a failed assertion or a bad access

vars == <<attr_map, attr_set, pane_map, last_id, status, halted>>

------------------------------------------------------------------------------
(* Operators on one _attr_set.                                             *)

Extent(ncomp) == ncomp + (IF ncomp > 1 THEN 1 ELSE 0)

IsItem(slot) == slot # NULL /\ slot # Freed

\* The slots an item of ncomp components with the given id covers.
SlotRange(id, ncomp) == id..(id + Extent(ncomp) - 1)

Resize(s, n) ==
    [size |-> n, slot |-> [i \in Index |-> IF i < n THEN s.slot[i] ELSE NULL]]

KeywordSlot(i) == [name |-> Keyword, comp |-> i, ncomp |-> 1, base |-> 0]

EmptyAttrSet == [size |-> 0, slot |-> [i \in Index |-> NULL]]

\* Pane::Pane(Window*, int): the keywords only.
KeywordAttrSet ==
    [size |-> COM_NUM_KEYWORDS,
     slot |-> [i \in Index |-> IF i < COM_NUM_KEYWORDS THEN KeywordSlot(i) ELSE NULL]]

\* Pane::dataitems: walk the slots above the keywords, skip the empty ones and
\* step over the components of every item found.
Covered(s, i) ==
    \E j \in COM_NUM_KEYWORDS..(i - 1) :
        IsItem(s.slot[j]) /\ s.slot[j].comp = 0 /\ i \in SlotRange(j, s.slot[j].ncomp)
Dataitems(s) ==
    {i \in COM_NUM_KEYWORDS..(s.size - 1) : IsItem(s.slot[i]) /\ ~Covered(s, i)}

\* Mutant: a pane created later knows only the keywords.
KeywordsOnlyCopyOf(s) == KeywordAttrSet

\* Pane::Pane(Pane*, int): copies the keywords and, item by item, what the walk
\* finds; each item found becomes a block of its own.
CopyOf(s) ==
    [size |-> s.size,
     slot |-> [i \in Index |->
        IF i < COM_NUM_KEYWORDS \/ ~IsItem(s.slot[i]) \/ Covered(s, i)
        THEN s.slot[i] ELSE [s.slot[i] EXCEPT !.base = i]]]

\* Pane::new_dataitem can construct the item: a slot past the end gets a new
\* block, an existing one is reconstructed in place and must hold a DataItem
\* of a block that is long enough.
CanConstruct(s, id, ncomp) ==
    id < s.size =>
        /\ IsItem(s.slot[id])
        /\ \A i \in SlotRange(id, ncomp) :
              /\ i \in Index /\ IsItem(s.slot[i])
              /\ s.slot[i].base = s.slot[id].base

\* The i-th DataItem of the block of item a.
ItemSlot(a, id, ncomp, i) ==
    [name |-> a, comp |-> i - id, ncomp |-> IF i = id THEN ncomp ELSE 1, base |-> id]

\* Pane::new_dataitem and Pane::insert.
WithItem(s, a, id, ncomp) ==
    LET end == id + Extent(ncomp)
    IN  [size |-> IF s.size <= id THEN end ELSE s.size,
         slot |-> [i \in Index |->
            IF i \in SlotRange(id, ncomp)
            THEN ItemSlot(a, id, ncomp, i)
            ELSE s.slot[i]]]

\* Mutant: the pointers of the components are not reset.
ItemSlotOnlyWithoutItem(s, id) ==
    [s EXCEPT !.slot[id] = NULL]

\* Pane::delete_dataitem(id), id # COM_DATA: the whole block is deleted, the
\* pointers of the item and of its current components are reset.
WithoutItem(s, id) ==
    LET ncomp == s.slot[id].ncomp
        reset == [i \in Index |->
            CASE i \in SlotRange(id, ncomp) -> NULL
              [] i \notin SlotRange(id, ncomp) /\ IsItem(s.slot[i])
                 /\ i >= COM_NUM_KEYWORDS /\ s.slot[i].base = id -> Freed
              [] OTHER -> s.slot[i]]
    IN  IF id + Extent(ncomp) = s.size
        THEN Resize([s EXCEPT !.slot = reset], id)
        ELSE [s EXCEPT !.slot = reset]

------------------------------------------------------------------------------
(* The operations of the window.                                           *)

Panes == {Dummy} \cup pane_map
Registered == {a \in Names : attr_map[a] # NULL}
ItemOf(a) == attr_set[Dummy].slot[attr_map[a]]

Init ==
    /\ attr_map = [a \in Names |-> NULL]
    /\ attr_set = [p \in {Dummy} \cup PaneIds |->
                      IF p = Dummy THEN KeywordAttrSet ELSE EmptyAttrSet]
    /\ pane_map = {}
    /\ last_id = COM_NUM_KEYWORDS
    /\ status = "NOCHANGE"
    /\ halted = FALSE

Touched == IF status = "NOCHANGE" THEN "CHANGED" ELSE status

Halt == halted' = TRUE /\ UNCHANGED <<attr_map, attr_set, pane_map, last_id, status>>

\* The part of ComponentInterface::new_dataitem after the lookup: construct the
\* item in the dummy pane, enter it in _attr_map, construct it in every pane.
\* The vectors are given since a growing redefinition deletes the item first.
Construct(vec, a, id, ncomp, li, st) ==
    IF \A p \in Panes : CanConstruct(vec[p], id, ncomp)
    THEN /\ attr_set' = [p \in DOMAIN vec |->
                            IF p \in Panes THEN WithItem(vec[p], a, id, ncomp) ELSE vec[p]]
         /\ attr_map' = [attr_map EXCEPT ![a] = id]
         /\ last_id' = li
         /\ status' = st
         /\ UNCHANGED <<pane_map, halted>>
    ELSE Halt

\* new_dataitem of a name the window does not have.
NewDataitem(a, ncomp) ==
    /\ attr_map[a] = NULL
    /\ last_id + Extent(ncomp) <= MaxId
    /\ Construct(attr_set, a, last_id, ncomp, last_id + Extent(ncomp), Touched)

\* Mutant: a redefined item takes the next free id.
MovingRedefineDataitem(a, ncomp) ==
    /\ attr_map[a] # NULL
    /\ ncomp <= ItemOf(a).ncomp
    /\ last_id + Extent(ncomp) <= MaxId
    /\ Construct(attr_set, a, last_id, ncomp, last_id + Extent(ncomp), Touched)

\* new_dataitem of a name it has, with at most as many components: the item is
\* redefined in place.
RedefineDataitem(a, ncomp) ==
    /\ attr_map[a] # NULL
    /\ ncomp <= ItemOf(a).ncomp
    /\ Construct(attr_set, a, attr_map[a], ncomp, last_id, Touched)

DeletedFromPanes(id) ==
    [p \in DOMAIN attr_set |->
        IF p \in Panes THEN WithoutItem(attr_set[p], id) ELSE attr_set[p]]

\* delete_dataitem of a user item releases its ids only when it is the last one.
IsLast(a) == last_id = attr_map[a] + Extent(ItemOf(a).ncomp)
\* Mutant: the ids are released whichever item is deleted.
AlwaysLastIdWithout(a) == attr_map[a]
LastIdWithout(a) == IF IsLast(a) THEN attr_map[a] ELSE last_id
StatusWithout(a) == IF IsLast(a) THEN Touched ELSE "SHRUNK"

\* new_dataitem of a name it has, with more components: deleted and created
\* anew under the next free id.  The assertion "Cannot increase size of keywords"
\* fails for an item that took the id of a keyword.
GrowDataitem(a, ncomp) ==
    LET id == LastIdWithout(a)
    IN  /\ attr_map[a] # NULL
        /\ ncomp > ItemOf(a).ncomp
        /\ id + Extent(ncomp) <= MaxId
        /\ IF attr_map[a] >= COM_NUM_KEYWORDS
           THEN Construct(DeletedFromPanes(attr_map[a]), a, id, ncomp,
                          id + Extent(ncomp), StatusWithout(a))
           ELSE Halt

\* delete_dataitem of a user item; for one with the id of a keyword it throws
\* and changes nothing.
DeleteDataitem(a) ==
    /\ attr_map[a] # NULL
    /\ attr_map[a] >= COM_NUM_KEYWORDS
    /\ IF \A p \in Panes : IsItem(attr_set[p].slot[attr_map[a]])
       THEN /\ attr_set' = DeletedFromPanes(attr_map[a])
            /\ attr_map' = [attr_map EXCEPT ![a] = NULL]
            /\ last_id' = LastIdWithout(a)
            /\ status' = StatusWithout(a)
            /\ UNCHANGED <<pane_map, halted>>
       ELSE Halt

\* Mutant: "data" releases the id of the last keyword, too.
OffByOneDeleteData ==
    /\ attr_set' = [p \in DOMAIN attr_set |->
                       IF p \in Panes THEN Resize(attr_set[p], COM_ALL) ELSE attr_set[p]]
    /\ attr_map' = [a \in Names |-> NULL]
    /\ status' = "CHANGED"
    /\ last_id' = COM_ALL
    /\ UNCHANGED <<pane_map, halted>>

\* delete_dataitem("data"): every user item of every pane goes.  _attr_map is made
\* anew from what the dummy pane holds under the ids of the keywords, so that an
\* item with the id of a keyword stays.
DeleteData ==
    /\ attr_set' = [p \in DOMAIN attr_set |->
                       IF p \in Panes THEN Resize(attr_set[p], COM_NUM_KEYWORDS)
                       ELSE attr_set[p]]
    /\ IF last_id > COM_NUM_KEYWORDS
       THEN /\ attr_map' = [a \in Names |->
                               IF attr_map[a] \in 0..COM_ALL THEN attr_map[a] ELSE NULL]
            /\ status' = "CHANGED"
            /\ last_id' = COM_NUM_KEYWORDS
       ELSE UNCHANGED <<attr_map, status, last_id>>
    /\ UNCHANGED <<pane_map, halted>>

\* ComponentInterface::pane(pid, true) of an id the window does not have.
NewPane(p) ==
    /\ p \notin pane_map
    /\ pane_map' = pane_map \cup {p}
    /\ attr_set' = [attr_set EXCEPT ![p] = CopyOf(attr_set[Dummy])]
    /\ UNCHANGED <<attr_map, last_id, status, halted>>

\* delete_pane; id 0 stands for every pane.
DeletePanes(P) ==
    /\ P # {}
    /\ pane_map' = pane_map \ P
    /\ attr_set' = [q \in DOMAIN attr_set |-> IF q \in P THEN EmptyAttrSet ELSE attr_set[q]]
    /\ UNCHANGED <<attr_map, last_id, status, halted>>

\* The largest id + ncomp + (ncomp > 1) over _attr_map.
IsMaxId(m) ==
    /\ m >= KeywordTop
    /\ \A a \in Registered : m >= attr_map[a] + Extent(ItemOf(a).ncomp)
    /\ m = KeywordTop
       \/ \E a \in Registered : m = attr_map[a] + Extent(ItemOf(a).ncomp)

CompactedLastId(m) == IF status = "SHRUNK" /\ m < last_id THEN m ELSE last_id

\* init_done: compact _last_id after a deletion, then Pane::init_done shrinks
\* the vector of every pane (not the dummy's).
InitDone ==
    \E m \in KeywordTop..MaxId :
        /\ IsMaxId(m)
        /\ last_id' = CompactedLastId(m)
        /\ attr_set' = [p \in DOMAIN attr_set |->
                           IF p \in pane_map THEN Resize(attr_set[p], CompactedLastId(m))
                           ELSE attr_set[p]]
        /\ status' = "NOCHANGE"
        /\ UNCHANGED <<attr_map, pane_map, halted>>

------------------------------------------------------------------------------
(* Clients.  Next is what the clients in the repository do: they redefine   *)
(* an item only with the number of components it has or more.              *)

Next ==
    /\ ~halted
    /\ \/ \E a \in Names, n \in 1..MaxComp : NewDataitem(a, n)
       \/ \E a \in Names : attr_map[a] # NULL /\ RedefineDataitem(a, ItemOf(a).ncomp)
       \/ \E a \in Names, n \in 1..MaxComp : GrowDataitem(a, n)
       \/ \E a \in Names : DeleteDataitem(a)
       \/ DeleteData
       \/ \E p \in PaneIds : NewPane(p)
       \/ \E p \in pane_map : DeletePanes({p})
       \/ DeletePanes(pane_map)
       \/ InitDone

Spec == Init /\ [][Next]_vars

------------------------------------------------------------------------------
(* Properties.                                                             *)

\* Every variable stays in its type.
TypeOK ==
    /\ attr_map \in [Names -> Index \cup {NULL}]
    /\ attr_set \in [{Dummy} \cup PaneIds -> AttrSet]
    /\ pane_map \in SUBSET PaneIds
    /\ last_id \in 0..MaxId
    /\ status \in {"SHRUNK", "CHANGED", "NOCHANGE"}
    /\ halted \in BOOLEAN

\* The ids that new_dataitem hands out: the slots of two registered items never
\* overlap, and all of them lie below _last_id, whatever was deleted, grown or
\* compacted before.
ItemsDoNotOverlap ==
    /\ \A a \in Registered : attr_map[a] + Extent(ItemOf(a).ncomp) <= last_id
    /\ \A a, b \in Registered :
          a # b => \/ attr_map[a] + Extent(ItemOf(a).ncomp) <= attr_map[b]
                   \/ attr_map[b] + Extent(ItemOf(b).ncomp) <= attr_map[a]

\* A window and all its panes agree: under the id the window has for a name,
\* every pane, created before or after the item, holds that item and each of
\* its components (what Pane::dataitem(id) and operator-> of a handle rely on).
Holds(s, a, id, ncomp) ==
    /\ id + Extent(ncomp) <= s.size
    /\ \A i \in SlotRange(id, ncomp) : s.slot[i] = ItemSlot(a, id, ncomp, i)
PanesAgree ==
    \A p \in Panes, a \in Registered :
        Holds(attr_set[p], a, attr_map[a], ItemOf(a).ncomp)

\* Pane::dataitems lists exactly the registered items above the keywords in every
\* pane: nothing deleted comes back, no component is taken for an item of its own.
\* (Of a vector that init_done has cut below the keywords it lists nothing: its
\* call of reserve throws.)
OnlyRegisteredListed ==
    \A p \in Panes : attr_set[p].size >= COM_NUM_KEYWORDS =>
        Dataitems(attr_set[p]) = {attr_map[a] : a \in Registered} \ 0..COM_ALL

KeywordsHeld ==
    /\ last_id >= COM_NUM_KEYWORDS
    /\ \A p \in Panes :
          /\ attr_set[p].size >= COM_NUM_KEYWORDS
          /\ \A i \in 0..COM_ALL : attr_set[p].slot[i] = KeywordSlot(i)

EmptiedOutOfOrder == status = "SHRUNK" /\ Registered = {}

\* The window and every pane hold the keywords under ids that are not given away,
\* until the one step that can take an id from them, and then only the last: an
\* init_done on a window whose items were all deleted, one of them out of order,
\* compacts _last_id to the largest extent of the keywords, which is COM_ALL.
KeywordsKept ==
    [][KeywordsHeld =>
         \/ KeywordsHeld'
         \/ EmptiedOutOfOrder /\ status' = "NOCHANGE" /\ last_id' = COM_ALL]_vars

\* The id of an item that stays registered changes only when new_dataitem
\* grows it: deleting or compacting other items never moves it.
IdStable ==
    [][\A a \in Names :
         (attr_map[a] # NULL /\ attr_map'[a] # NULL /\ attr_map'[a] # attr_map[a])
         => ItemOf(a)'.ncomp > ItemOf(a).ncomp]_vars
==============================================================================
