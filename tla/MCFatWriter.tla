---------------------------- MODULE MCFatWriter ----------------------------
(***************************************************************************)
(* A small touch.txt: directories two deep with "." and "..", files of     *)
(* none, one and several clusters, long names whose fragments cross the    *)
(* end of a cluster.  A cluster has two slots.                             *)
(***************************************************************************)
EXTENDS RoundTrip

Plain(x) == <<256, x>>

MCVols == {1}
MCDirArgs == {<<Plain(1)>>, <<Plain(1), Dot>>, <<Plain(1), Plain(2), DotDot>>,
              <<Plain(1), Plain(5), Plain(4)>>, <<Plain(1), Plain(4)>>}
MCReals == {"loader", "missing"}
MCFileArgs == {<<<<Plain(1)>>, 0>>, <<<<Plain(1), Plain(3)>>, 64>>, <<<<Plain(3)>>, 130>>}
MCLnameArgs == {<<<<>>, 3, 26>>, <<<<Plain(1)>>, 3, 40>>}
MCRealSlots == [r \in {"loader"} |-> 3]
=============================================================================
