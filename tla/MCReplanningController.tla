----------------------- MODULE MCReplanningController -----------------------
(* Two entities, one of them outside the narrow scope.                     *)
EXTENDS ReplanningController

CONSTANTS e1, e2, v1, v2

MCEntities == {e1, e2}
MCValues   == {v1, v2}
MCScopes   == {{e1}, {e1, e2}}
MCDelays   == {0, 2}    \* long enough to be advanced only in part
MCShort    == {0, 1}    \* for the runs with every fault

=============================================================================
