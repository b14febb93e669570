-------------------- MODULE VersionedConfiguration_proofs ---------------------
(* The register keeps its view at most one version behind its store.         *)
EXTENDS VersionedConfiguration, TLAPS

\* Before initialize() returns there is no view; afterwards it is one
\* configuration, the stored one or its predecessor.
ViewInv ==
  /\ TypeOK
  /\ \A c, d \in view : c = d
  /\ AtMostOneBehind
  /\ \A c \in view : c.ver = store.ver => c = store

\* The controller's view of the configuration is never ahead of the backend
\* and never more than one version behind, whatever answers are lost.
THEOREM ViewAtMostOneBehind == SafeSpec => []AtMostOneBehind
<1>1. Init => ViewInv
  BY DEF Init, ViewInv, TypeOK, Config, AtMostOneBehind
<1>2. ViewInv /\ [Next]_vars => ViewInv'
  <2>. SUFFICES ASSUME ViewInv, [Next]_vars PROVE ViewInv'
    OBVIOUS
  <2>. USE DEF ViewInv, TypeOK, AtMostOneBehind
  <2>1. CASE Install
    <3>1. PICK b \in Bodies : store' = [ver |-> 1, body |-> b]
      BY <2>1 DEF Install
    <3>2. store' \in Config
      BY <3>1 DEF Config
    <3>3. \A c \in view' : c = store'
      BY <2>1 DEF Install
    <3>4. view' \subseteq {store'}
      BY <3>3
    <3>5. store'.ver \in {store'.ver, store'.ver + 1}
      OBVIOUS
    <3>. QED
      BY <3>2, <3>3, <3>4, <3>5
  <2>2. CASE Modify
    <3>1. PICK b \in Bodies : store' = [ver |-> store.ver + 1, body |-> b]
      BY <2>2 DEF Modify
    <3>2. view' = {store} /\ store.ver \in Nat
      BY <2>2 DEF Modify, Config
    <3>3. store' \in Config /\ store'.ver = store.ver + 1 /\ store'.ver # store.ver
      BY <3>1, <3>2 DEF Config
    <3>. QED
      BY <3>2, <3>3
  <2>3. CASE Learn
    BY <2>3 DEF Learn
  <2>4. CASE UNCHANGED vars
    BY <2>4 DEF vars
  <2>. QED
    BY <2>1, <2>2, <2>3, <2>4 DEF Next
<1>3. ViewInv => AtMostOneBehind
  BY DEF ViewInv
<1>. QED
  BY <1>1, <1>2, <1>3, PTL DEF SafeSpec

=============================================================================
