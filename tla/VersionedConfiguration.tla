----------------------- MODULE VersionedConfiguration -----------------------
(***************************************************************************)
(* What the outer controller and the physical backend promise each other   *)
(* about the persistent configuration, with every call, delay and epoch    *)
(* left out.                                                               *)
(*                                                                         *)
(* `store' is the configuration the backend executes.  `view' is what the  *)
(* controller believes it executes: the empty set until initialize()       *)
(* returns, then a set holding that one configuration.  The store is an    *)
(* optimistically locked register: it is only ever modified from the value *)
(* the controller believes in, one version at a time, and the controller   *)
(* only ever learns the value that is stored.                              *)
(***************************************************************************)
EXTENDS Naturals

CONSTANT Bodies         \* what a configuration may bind, without its version

VARIABLES store, view

vars == <<store, view>>

Config == [ver: Nat, body: Bodies]

TypeOK == store \in Config /\ view \in SUBSET Config

Init == /\ store \in [ver: {0}, body: Bodies]
        /\ view = {}

\* POST /configuration/apply of the initial plan; its answer may be lost.
Install == /\ view = {}
           /\ \E b \in Bodies : store' = [ver |-> 1, body |-> b]
           /\ view' \in {{}, {store'}}

\* A patch: the next version, made from the configuration in the view.
Modify == /\ view = {store}
          /\ \E b \in Bodies : store' = [ver |-> store.ver + 1, body |-> b]
          /\ UNCHANGED view

\* The accepted receipt reaches the controller.
Learn == /\ view # {}
         /\ view' = {store}
         /\ UNCHANGED store

Next == Install \/ Modify \/ Learn

SafeSpec == Init /\ [][Next]_vars

\* Without lost answers the controller always catches up with the store.
Spec == SafeSpec /\ WF_vars(Learn)

-----------------------------------------------------------------------------

\* The controller is at most one version behind the store, never ahead of it.
AtMostOneBehind ==
  \A c \in view : store.ver \in {c.ver, c.ver + 1}

=============================================================================
