---------------------------- MODULE Exploration ----------------------------
(***************************************************************************)
(* What src/read.cpp promises of its walk: from one node on, nodes that    *)
(* are known are read, each once, and what a read node leads to becomes    *)
(* known; the walk is done when nothing known is left, or it is given up.  *)
(* In which order nodes are read, and what keeps track of them, is left to *)
(* the implementation: FatReader implements this specification.            *)
(***************************************************************************)

CONSTANTS
  Node,
  Start

VARIABLES
  read,   \* the nodes whose contents were looked at
  known,  \* those and the ones still to look at
  leads,  \* the pairs <<from, to>> met so far
  status

vars == <<read, known, leads, status>>

Init == read = {} /\ known = {Start} /\ leads = {} /\ status = "walking"

Read(n) ==
  /\ status = "walking" /\ n \in known \ read
  /\ read' = read \cup {n}
  /\ UNCHANGED <<known, leads, status>>

Discover(n, m) ==
  /\ status = "walking" /\ n \in read
  /\ leads' = leads \cup {<<n, m>>}
  /\ known' = known \cup {m}
  /\ UNCHANGED <<read, status>>

\* There is nothing left to read.
Complete ==
  /\ status = "walking" /\ known = read
  /\ status' = "done" /\ UNCHANGED <<read, known, leads>>

\* An image that is no file system.
GiveUp ==
  /\ status = "walking"
  /\ status' = "stopped" /\ UNCHANGED <<read, known, leads>>

Next ==
  \/ \E n \in Node : Read(n)
  \/ \E n, m \in Node : Discover(n, m)
  \/ Complete \/ GiveUp

Spec == Init /\ [][Next]_vars
=============================================================================
