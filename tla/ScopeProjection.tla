--------------------------- MODULE ScopeProjection ---------------------------
(***************************************************************************)
(* What an intervention may change: the tables of a persistent             *)
(* configuration, the greedy planner that proposes new ones                *)
(* (planners/greedy_planner.py), the check of the proposal against its     *)
(* modification scope and its projection onto that scope (controller.py:   *)
(* _assert_modification_scope, _project_configuration), and the binding a  *)
(* task is executed under (materialize_execution_rule).                    *)
(*                                                                         *)
(* A table key is a string.  What the code looks at is whether it carries  *)
(* one of the prefixes "task:" and "source:", and the id behind it.        *)
(***************************************************************************)
EXTENDS Naturals

CONSTANTS
  Sources,    \* ids of the devices that generate tasks
  Nodes,      \* ids of compute nodes
  Targets,    \* what a source can be bound to
  Absent,     \* dict.get() of a key that is not there
  Default,    \* the id of the source-agnostic rule
  Scopes,     \* the modification scopes that are tried
  MaxRounds   \* bound: interventions in a behaviour

Ids      == Sources \cup Nodes \cup {Default}
Fields   == {"task_ids", "source_ids", "node_ids", "link_ids", "route_ids",
             "resource_keys"}
Scope    == [Fields -> SUBSET Ids]
Key      == [prefix: {"", "task:", "source:"}, id: Ids]
Tables   == {"assignments", "reusable_rules", "resource_allocations",
             "cpu_allocations", "bandwidth_allocations", "routes", "priorities"}
Bindings == Targets \cup {Absent}
Table    == [Key -> Bindings]
Config   == [Tables -> Table]

ASSUME IdsAssumption == Default \notin Sources \cup Nodes
ASSUME TargetsAssumption == Absent \notin Targets
ASSUME ScopesAssumption ==
  /\ Scopes \subseteq Scope
  /\ \A s \in Scopes : \A f \in Fields : Default \notin s[f]
ASSUME RoundsAssumption == MaxRounds \in Nat

VARIABLES
  pc,        \* "start", "ready" or "planned"
  current,   \* the configuration in force
  scope,     \* the modification scope of the intervention under way
  within,    \* what the planner's budget leaves of it
  proposal,  \* what the planner returned for it
  chosen,    \* the candidates it chose, per source
  fallback,  \* the source-agnostic candidate it chose, or Absent
  rounds

vars == <<pc, current, scope, within, proposal, chosen, fallback, rounds>>

-----------------------------------------------------------------------------
Bare(i)    == [prefix |-> "", id |-> i]
Rule(s)    == [prefix |-> "source:", id |-> s]
DefaultKey == Bare(Default)

Empty   == [t \in Tables |-> [k \in Key |-> Absent]]
NoScope == [f \in Fields |-> {}]

IsEmpty(s) == \A f \in Fields : s[f] = {}

\* _configuration_changes(): the keys of a table with another value.
Changes(old, new, t) == {k \in Key : old[t][k] # new[t][k]}

\* The ids whose entries in a table a scope allows to change.
Allowed(s, t) ==
  CASE t \in {"assignments", "reusable_rules", "priorities"} ->
         s["task_ids"] \cup s["source_ids"] \cup s["node_ids"]
    [] t \in {"resource_allocations", "cpu_allocations", "bandwidth_allocations"} ->
         s["resource_keys"] \cup s["task_ids"] \cup s["source_ids"] \cup s["node_ids"]
    [] t = "routes" ->
         s["route_ids"] \cup s["link_ids"] \cup s["resource_keys"]

\* _assert_modification_scope(): the check is made on the id, prefix removed.
InScope(old, new, s) ==
  \A t \in Tables : \A k \in Changes(old, new, t) : k.id \in Allowed(s, t)

\* ReconfigurationScope.contains(): the key as it is, in any of the fields.
Contains(s, k) == k.prefix = "" /\ \E f \in Fields : k.id \in s[f]

\* Mutant of Project: the tables keep the contained keys only.
ProjectContained(old, new, s) ==
  [t \in Tables |-> [k \in {key \in Key : Contains(s, key)} |-> new[t][k]]]

\* _project_configuration(): entries of the proposal for the keys contained
\* in the scope, entries of the current configuration for all others.
Project(old, new, s) ==
  [t \in Tables |->
     [k \in Key |-> IF Contains(s, k) THEN new[t][k] ELSE old[t][k]]]

-----------------------------------------------------------------------------
\* PlanningBudget.restrict_scope(): max_scope_entities truncates the scope the
\* planner works with, down to nothing for 0. Which entities go first is left open.
Narrowed(s) == {n \in Scopes \cup {NoScope} : \A f \in Fields : n[f] \subseteq s[f]}

\* Mutant of Rebound: the scope is ignored.
ReboundAll(s, choice) == DOMAIN choice

\* GreedyPlanner.plan(): the sources with a candidate of their own that the
\* narrowed scope lets it rebind; an empty scope lets it rebind all of them.
Rebound(s, choice) ==
  {src \in DOMAIN choice : IsEmpty(s) \/ src \in s["source_ids"] \/ src \in s["node_ids"]}

\* Each rebound source gets an assignment and a reusable rule, and a resource
\* allocation if its candidate carries one; a candidate without a source
\* becomes the default assignment and the default rule.
Propose(old, s, choice, other, allocated) ==
  [old EXCEPT
     !["assignments"] = [k \in Key |->
        IF k.prefix = "" /\ k.id \in Rebound(s, choice) THEN choice[k.id]
        ELSE IF k = DefaultKey /\ other # Absent THEN other
        ELSE old["assignments"][k]],
     !["reusable_rules"] = [k \in Key |->
        IF k.prefix = "source:" /\ k.id \in Rebound(s, choice) THEN choice[k.id]
        ELSE IF k = DefaultKey /\ other # Absent THEN other
        ELSE old["reusable_rules"][k]],
     !["resource_allocations"] = [k \in Key |->
        IF k.prefix = "" /\ k.id \in Rebound(s, choice) \cap allocated
          THEN choice[k.id] ELSE old["resource_allocations"][k]]]

\* A default candidate counts only on a node the scope contains.
Fallbacks(s) == {Absent} \cup (IF IsEmpty(s) \/ s["node_ids"] # {} THEN Targets ELSE {})

\* Mutant of Materialize: rules come before assignments.
MaterializeRulesFirst(c, src) ==
  IF c["reusable_rules"][Rule(src)] # Absent
    THEN c["reusable_rules"][Rule(src)]
    ELSE c["assignments"][Bare(src)]

\* materialize_execution_rule() for a task of a source that no entry names by
\* its task id: the assignment of the source, then the most specific rule,
\* then the default assignment.
Materialize(c, src) ==
  CASE c["assignments"][Bare(src)] # Absent    -> c["assignments"][Bare(src)]
    [] c["assignments"][Bare(src)] = Absent /\ c["assignments"][Rule(src)] # Absent ->
         c["assignments"][Rule(src)]
    [] OTHER ->
         IF c["reusable_rules"][Rule(src)] # Absent
           THEN c["reusable_rules"][Rule(src)]
         ELSE IF c["reusable_rules"][DefaultKey] # Absent
           THEN c["reusable_rules"][DefaultKey]
         ELSE c["assignments"][DefaultKey]

-----------------------------------------------------------------------------
Choices  == UNION {[S -> Targets] : S \in SUBSET Sources}
NoChoice == [src \in {} |-> Absent]

Init ==
  /\ pc = "start" /\ current = Empty /\ proposal = Empty
  /\ scope = NoScope /\ within = NoScope /\ chosen = NoChoice /\ fallback = Absent
  /\ rounds = 0

\* An intervention ends: its plan is a local variable of the code.
Ended ==
  /\ pc = "planned" /\ pc' = "ready"
  /\ scope' = NoScope /\ within' = NoScope /\ proposal' = Empty
  /\ chosen' = NoChoice /\ fallback' = Absent
  /\ UNCHANGED rounds

\* initialize(): the plan for the whole system is applied as it is.
InstallInitialPlan ==
  /\ pc = "start"
  /\ \E choice \in Choices, other \in Bindings : \E allocated \in SUBSET DOMAIN choice :
       current' = Propose(Empty, NoScope, choice, other, allocated)
  /\ pc' = "ready"
  /\ UNCHANGED <<scope, within, proposal, chosen, fallback, rounds>>

\* An intervention with a selected scope: the planner proposes.
PlanIntervention ==
  /\ pc = "ready"
  /\ rounds < MaxRounds
  /\ \E s \in Scopes, choice \in Choices : \E allocated \in SUBSET DOMAIN choice :
       \E n \in Narrowed(s) : \E other \in Fallbacks(n) :
         /\ ~ IsEmpty(s)
         /\ scope' = s /\ within' = n /\ chosen' = choice /\ fallback' = other
         /\ proposal' = Propose(current, n, choice, other, allocated)
  /\ rounds' = rounds + 1
  /\ pc' = "planned"
  /\ UNCHANGED current

\* "Planner proposed changes outside the requested modification scope"
RaiseOutOfScope ==
  /\ ~ InScope(current, proposal, scope)
  /\ Ended /\ UNCHANGED current

\* Mutant of ActivateProjected: the proposal is activated as it is.
ActivateProposal ==
  /\ Ended /\ current' = proposal

\* The projected proposal is validated and activated.
ActivateProjected ==
  /\ InScope(current, proposal, scope)
  /\ Ended /\ current' = Project(current, proposal, scope)

\* The caller asks for no further intervention.
Finished == pc = "ready" /\ rounds = MaxRounds /\ UNCHANGED vars

Next == InstallInitialPlan \/ PlanIntervention \/ RaiseOutOfScope
          \/ ActivateProjected \/ Finished

Spec == Init /\ [][Next]_vars

-----------------------------------------------------------------------------
TypeOK ==
  /\ pc \in {"start", "ready", "planned"}
  /\ current \in Config /\ proposal \in Config
  /\ scope \in Scope /\ within \in Scope
  /\ chosen \in Choices /\ fallback \in Bindings
  /\ rounds \in Nat

\* Whatever the planner proposes, an intervention leaves every entry alone
\* whose id its scope does not allow: "entries outside Omega are frozen".
OutsideScopeFrozen ==
  [][pc = "planned" =>
       \A t \in Tables : \A k \in Key :
         k.id \notin Allowed(scope, t) => current'[t][k] = current[t][k]]_vars

\* After an intervention that is activated, the tasks of a source the planner
\* rebound run where it decided, although only part of what it wrote is
\* activated; the tasks of a source outside the scope run where they did.
ExecutionFollowsPlan ==
  [][pc = "planned" /\ InScope(current, proposal, scope) =>
       \A src \in Sources :
         /\ src \in Rebound(within, chosen) => Materialize(current', src) = chosen[src]
         /\ src \notin Allowed(scope, "assignments") =>
              Materialize(current', src) = Materialize(current, src)]_vars

\* The greedy planner keeps to the modification scope as long as every candidate
\* names its source and its budget leaves it an entity; the RuntimeError is for
\* the default rule and for a budget of none, which it reads as no restriction.
GreedyScopedUnlessDefault ==
  pc = "planned" /\ fallback = Absent /\ ~ IsEmpty(within) =>
    InScope(current, proposal, scope)

\* What the check of the scope comes down to for this planner, with a budget: it
\* raises exactly when the proposal gives the default entries another value.
CheckGuardsDefault ==
  pc = "planned" /\ ~ IsEmpty(within) =>
    (InScope(current, proposal, scope) <=>
       \/ fallback = Absent
       \/ /\ current["assignments"][DefaultKey] = fallback
          /\ current["reusable_rules"][DefaultKey] = fallback)

\* After the initial plan no intervention changes an entry whose key carries a
\* prefix, nor a default entry: contains() looks the prefixed key up as it is,
\* so the reusable rules the planner writes are never activated.
RulesAreFinal ==
  [][pc # "start" =>
       \A t \in Tables : \A k \in Key :
         k.prefix # "" \/ k = DefaultKey => current'[t][k] = current[t][k]]_vars

=============================================================================
