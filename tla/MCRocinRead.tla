---------------------------- MODULE MCRocinRead ----------------------------
(* Data sets for two or three reading processes.                              *)
EXTENDS RocinRead

Block(p, m, t) == [pane |-> p, mat |-> m, time |-> t,
                   items |-> IF p = 1 THEN <<"w", "n", "e">> ELSE <<"w", "n">>]

Sec(kind, ids, n, base, off) ==
  [kind |-> kind, ids |-> ids, n |-> n, base |-> base, off |-> off]
Explicit(ids) == Sec("explicit", ids, 0, 0, 0)

Set(files, control, mats, patterns, time) ==
  [files |-> files, control |-> control, mats |-> mats, patterns |-> patterns,
   time |-> time, owner |-> <<>>, rw |-> 0, pw |-> 0]

NoPatterns == [r \in Ranks |-> {}]

\* A window of three panes before it is written.  One file for all is for a
\* single writer.
ToWrite(owner, rw, pw, time) ==
  [Set([n \in 1 .. 3 * NProcs |-> <<>>], <<>>, <<>>, NoPatterns, time)
     EXCEPT !.owner = owner, !.rw = rw, !.pw = pw]

Owners == [1 .. 3 -> Ranks]
Restarts ==
  {ToWrite(o, w[1], w[2], t) :
     o \in Owners, w \in {<<4, 0>>, <<0, 6>>, <<4, 6>>}, t \in {NoTime, Level}}
    \cup {ToWrite([p \in 1 .. 3 |-> r], 0, 0, NoTime) : r \in Ranks}

\* One file with panes 1 to n that all processes read.
Shared(n, sec) ==
  Set(<<[p \in 1 .. n |-> Block(p, "a", 1)]>>,
      <<[proc |-> AnyProc, files |-> {1}, sec |-> sec]>>,
      <<>>, NoPatterns, NoTime)

Spread ==
  {Shared(6, Sec("cyclic", {}, 0, 0, off)) : off \in 0 .. 1}
    \cup {Shared(6, Sec("blockcyclic", {}, 0, base, off)) :
            base \in 1 .. 3, off \in 0 .. 1}
    \cup {Shared(n, Sec("block", {}, n, 1, 1)) : n \in NProcs .. 6}
    \cup {Shared(6, Sec("block", {}, NProcs, 2, 1))}
    \cup {Shared(2, Sec("all", {}, 0, 0, 0))}

\* The panes at two time levels in one file.
TwoLevels ==
  {Set(<<[p \in 1 .. 3 |-> Block(p, "a", 1)] \o [p \in 1 .. 3 |-> Block(p, "a", 2)]>>,
       <<[proc |-> AnyProc, files |-> {1}, sec |-> Sec("cyclic", {}, 0, 0, 0)]>>,
       <<>>, NoPatterns, t) : t \in {NoTime, 2}}

\* A file per process of the control file; the last section may be missing,
\* process 0 may not be mentioned, sections may be empty.
ByHand(secs, first) ==
  Set([k \in 1 .. NProcs |-> <<Block(k, "a", 1)>>],
      [k \in 1 .. Len(secs) |-> [proc |-> k - 1 + first, files |-> {k},
                                 sec |-> secs[k]]],
      <<>>, NoPatterns, NoTime)

Odd == {ByHand([k \in 1 .. NProcs |-> secs[k]], first) :
          secs \in [1 .. NProcs -> {Explicit({}), Explicit({1, 2}),
                                    Sec("absent", {}, 0, 0, 0)}],
          first \in 0 .. 1}

\* More processes than blocks: some divide by zero.
Few == {Shared(1, Sec("block", {}, NProcs - 1, 1, 1))}

\* read_windows with materials; each process has its own files.
TwoMaterials(patterns) ==
  Set(<<<<Block(1, "b", 1), Block(2, "a", 1)>>, <<Block(3, "a", 1)>>,
        <<Block(4, "b", 1), Block(5, "a", 1)>>>>,
      <<>>, <<"a", "b", "c">>, patterns, NoTime)

ByMaterial == {TwoMaterials(f) : f \in [Ranks -> {{1}, {2}, {1, 3}}]}

AllSets == Restarts \cup Spread \cup Odd \cup Few \cup TwoLevels \cup ByMaterial
Materials == <<"a", "b">>
AllNames == {All, "w", "n", "e", "a", "b", "c"}
=============================================================================
