------------------------------- MODULE Volume -------------------------------
(***************************************************************************)
(* What src/write.cpp promises of an image, without clusters, chains and   *)
(* cursors: once the volume is laid out, each path that has contents has a *)
(* sequence of its own, which grows while the others stay as they are, and *)
(* of which nothing is ever taken or changed.  FatWriter implements it.    *)
(***************************************************************************)
EXTENDS SequencesExt

VARIABLES
  formatted,
  contents  \* [paths with contents -> the sequence written so far]

vars == <<formatted, contents>>

Init == ~ formatted /\ contents = <<>>

Format ==
  /\ ~ formatted /\ formatted'
  /\ \A p \in DOMAIN contents' : contents'[p] = <<>>

\* One path's contents get longer.
Longer(old, new) ==
  /\ DOMAIN new = DOMAIN old
  /\ \E p \in DOMAIN old :
       /\ IsStrictPrefix(old[p], new[p])
       /\ \A q \in DOMAIN old \ {p} : new[q] = old[q]

Extend == formatted /\ formatted' /\ Longer(contents, contents')

Next == Format \/ Extend

Spec == Init /\ [][Next]_vars
=============================================================================
