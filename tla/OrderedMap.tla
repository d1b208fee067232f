----------------------------- MODULE OrderedMap -----------------------------
(***************************************************************************)
(* What treap.h promises its one owner, without its nodes: an ordered map, *)
(* one working copy that is committed or dropped as a whole, and one view  *)
(* that another thread writes out, key by key, while the map goes on       *)
(* changing.  An operation that fails changes nothing.                     *)
(***************************************************************************)
EXTENDS Integers, Sequences, FiniteSets

CONSTANTS Keys,   \* a set of integers, in the order of treap_key_cmp
          Vals,
          Stored, \* the snapshot files the store may be opened with
          NoMap   \* no working copy, no view

VARIABLES map,    \* the live contents
          copy,   \* the contents of the working copy, or NoMap
          view,   \* the contents at the last treap_capture, or NoMap
          out,    \* what the save under way has written
          file    \* what the last complete save wrote

mapVars == <<map, copy, view, out, file>>

Maps == UNION {[S -> Vals] : S \in SUBSET Keys}
With(m, k, v) == [j \in DOMAIN m \cup {k} |-> IF j = k THEN v ELSE m[j]]
Without(m, S) == [j \in DOMAIN m \ S |-> m[j]]

\* The keys of [from, to); a bound outside Keys stands for an empty one.
Within(S, from, to) ==
  {k \in S : (from \in Keys => k >= from) /\ (to \in Keys => k < to)}

\* The pair a save must write next: the view's least key not yet written.
NextPair(m, written) ==
  LET k == CHOOSE i \in DOMAIN m :
             Cardinality({j \in DOMAIN m : j < i}) = Len(written)
  IN <<k, m[k]>>
Contents(pairs) ==
  [k \in {pairs[i][1] : i \in 1 .. Len(pairs)} |->
     pairs[CHOOSE i \in 1 .. Len(pairs) : pairs[i][1] = k][2]]

MapInit ==
  /\ file \in Stored /\ map = Contents(file)
  /\ copy = NoMap /\ view = NoMap
  /\ out = <<>>

Edits(m) ==
  {With(m, k, v) : k \in Keys, v \in Vals}
  \cup {Without(m, S) : S \in {{k} : k \in DOMAIN m}
                              \cup {Within(DOMAIN m, i, j) : i, j \in Keys \cup {0}}}

Edit ==
  /\ UNCHANGED <<view, out, file>>
  /\ IF copy = NoMap THEN UNCHANGED copy /\ map' \in Edits(map)
                     ELSE UNCHANGED map /\ copy' \in Edits(copy)
Fork == copy = NoMap /\ copy' = map /\ UNCHANGED <<map, view, out, file>>
Commit == copy # NoMap /\ map' = copy /\ copy' = NoMap /\ UNCHANGED <<view, out, file>>
Abort == copy # NoMap /\ copy' = NoMap /\ UNCHANGED <<map, view, out, file>>
Capture == view' = map /\ out' = <<>> /\ UNCHANGED <<map, copy, file>>
Write ==
  /\ view # NoMap /\ Len(out) < Cardinality(DOMAIN view)
  /\ out' = Append(out, NextPair(view, out))
  /\ UNCHANGED <<map, copy, view, file>>
Finish ==
  /\ view # NoMap
  /\ file' \in {file} \cup (IF Len(out) = Cardinality(DOMAIN view) THEN {out} ELSE {})
  /\ view' = NoMap /\ out' = <<>>
  /\ UNCHANGED <<map, copy>>
Load ==
  /\ copy = NoMap /\ view = NoMap
  /\ map' = Contents(file)
  /\ UNCHANGED <<copy, view, out, file>>

MapNext == Edit \/ Fork \/ Commit \/ Abort \/ Capture \/ Write \/ Finish \/ Load
MapSpec == MapInit /\ [][MapNext]_mapVars
=============================================================================
