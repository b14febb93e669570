------------------------ MODULE ScopeProjection_proofs ------------------------
(* What the scope check and the projection guarantee for every scope, every  *)
(* table and every proposal of the greedy planner.                           *)
EXTENDS ScopeProjection, TLAPS

LEMMA ChoicesAreBindings ==
  ASSUME NEW choice \in Choices
  PROVE  /\ DOMAIN choice \subseteq Sources
         /\ \A src \in DOMAIN choice : choice[src] \in Targets
<1>1. PICK S \in SUBSET Sources : choice \in [S -> Targets]
  BY DEF Choices
<1>. QED
  BY <1>1

LEMMA NoChoiceIsChoice == NoChoice \in Choices
<1>1. {} \in SUBSET Sources /\ NoChoice \in [{} -> Targets]
  BY DEF NoChoice
<1>. QED
  BY <1>1 DEF Choices

\* What a proposal holds: the planner's decisions in the entries it rebinds,
\* the configuration it started from in all others.
Proposed(new, old, s, choice, other, allocated) ==
  /\ new \in Config
  /\ \A k \in Key : new["assignments"][k] =
       IF k.prefix = "" /\ k.id \in Rebound(s, choice) THEN choice[k.id]
       ELSE IF k = DefaultKey /\ other # Absent THEN other
       ELSE old["assignments"][k]
  /\ \A k \in Key : new["reusable_rules"][k] =
       IF k.prefix = "source:" /\ k.id \in Rebound(s, choice) THEN choice[k.id]
       ELSE IF k = DefaultKey /\ other # Absent THEN other
       ELSE old["reusable_rules"][k]
  /\ \A k \in Key : new["resource_allocations"][k] =
       IF k.prefix = "" /\ k.id \in Rebound(s, choice) \cap allocated
         THEN choice[k.id] ELSE old["resource_allocations"][k]
  /\ \A t \in Tables \ {"assignments", "reusable_rules", "resource_allocations"} :
       new[t] = old[t]

LEMMA ProposalEntries ==
  ASSUME NEW old \in Config, NEW s \in Scope, NEW choice \in Choices,
         NEW other \in Bindings, NEW allocated \in SUBSET Sources
  PROVE  Proposed(Propose(old, s, choice, other, allocated),
                  old, s, choice, other, allocated)
<1>. DEFINE new == Propose(old, s, choice, other, allocated)
            a == [k \in Key |->
                   IF k.prefix = "" /\ k.id \in Rebound(s, choice) THEN choice[k.id]
                   ELSE IF k = DefaultKey /\ other # Absent THEN other
                   ELSE old["assignments"][k]]
            r == [k \in Key |->
                   IF k.prefix = "source:" /\ k.id \in Rebound(s, choice) THEN choice[k.id]
                   ELSE IF k = DefaultKey /\ other # Absent THEN other
                   ELSE old["reusable_rules"][k]]
            l == [k \in Key |->
                   IF k.prefix = "" /\ k.id \in Rebound(s, choice) \cap allocated
                     THEN choice[k.id] ELSE old["resource_allocations"][k]]
<1>1. new = [old EXCEPT !["assignments"] = a, !["reusable_rules"] = r,
                        !["resource_allocations"] = l]
  BY DEF Propose
<1>2. \A i \in Rebound(s, choice) : choice[i] \in Bindings
  BY ChoicesAreBindings DEF Rebound, Bindings
<1>3. \A t \in Tables : \A k \in Key : old[t][k] \in Bindings
  BY DEF Config, Table
<1>4. {"assignments", "reusable_rules", "resource_allocations"} \subseteq Tables
  BY DEF Tables
<1>5. a \in Table /\ r \in Table /\ l \in Table
  BY <1>2, <1>3, <1>4 DEF Table
<1>6. /\ \A k \in Key : a[k] =
              IF k.prefix = "" /\ k.id \in Rebound(s, choice) THEN choice[k.id]
              ELSE IF k = DefaultKey /\ other # Absent THEN other
              ELSE old["assignments"][k]
      /\ \A k \in Key : r[k] =
              IF k.prefix = "source:" /\ k.id \in Rebound(s, choice) THEN choice[k.id]
              ELSE IF k = DefaultKey /\ other # Absent THEN other
              ELSE old["reusable_rules"][k]
      /\ \A k \in Key : l[k] =
              IF k.prefix = "" /\ k.id \in Rebound(s, choice) \cap allocated
                THEN choice[k.id] ELSE old["resource_allocations"][k]
  OBVIOUS
<1>. HIDE DEF a, r, l, new
<1>7. /\ new \in Config
      /\ new["assignments"] = a /\ new["reusable_rules"] = r
      /\ new["resource_allocations"] = l
      /\ \A t \in Tables \ {"assignments", "reusable_rules", "resource_allocations"} :
           new[t] = old[t]
  BY <1>1, <1>4, <1>5 DEF Config
<1>. QED
  BY <1>6, <1>7 DEF new, Proposed

\* Between planning and activation the proposal is the planner's, made from
\* the configuration still in force for a scope that is not empty.
ProposalInv ==
  pc = "planned" =>
    /\ scope \in Scopes /\ ~ IsEmpty(scope) /\ within \in Narrowed(scope)
    /\ \E allocated \in SUBSET Sources :
         proposal = Propose(current, within, chosen, fallback, allocated)

\* What the budget leaves of a scope is part of it.
LEMMA NarrowedIsScope ==
  ASSUME NEW s \in Scopes, NEW n \in Narrowed(s)
  PROVE  n \in Scope /\ s \in Scope /\ \A f \in Fields : n[f] \subseteq s[f]
BY ScopesAssumption DEF Narrowed, NoScope, Scope

LEMMA KeysInTables ==
  /\ DefaultKey \in Key
  /\ \A src \in Sources : Bare(src) \in Key /\ Rule(src) \in Key
BY DEF Key, Ids, Bare, Rule, DefaultKey

LEMMA NoScopeIsScope == NoScope \in Scope /\ IsEmpty(NoScope)
BY DEF NoScope, Scope, IsEmpty

LEMMA EmptyIsConfig == Empty \in Config
BY DEF Empty, Config, Table, Bindings

LEMMA ProjectionIsConfig ==
  ASSUME NEW old \in Config, NEW new \in Config, NEW s \in Scope
  PROVE  /\ Project(old, new, s) \in Config
         /\ \A t \in Tables : \A k \in Key :
              Project(old, new, s)[t][k] = IF Contains(s, k) THEN new[t][k] ELSE old[t][k]
<1>1. \A t \in Tables : \A k \in Key : old[t][k] \in Bindings /\ new[t][k] \in Bindings
  BY DEF Config, Table
<1>2. \A t \in Tables :
        [k \in Key |-> IF Contains(s, k) THEN new[t][k] ELSE old[t][k]] \in Table
  BY <1>1 DEF Table
<1>. QED
  BY <1>2 DEF Project, Config

\* Configurations, scopes and proposals keep their types.
THEOREM TypeCorrect == Spec => []TypeOK
<1>1. Init => TypeOK
  BY NoScopeIsScope, EmptyIsConfig, NoChoiceIsChoice
     DEF Init, TypeOK, Bindings
<1>2. TypeOK /\ [Next]_vars => TypeOK'
  <2>. SUFFICES ASSUME TypeOK, [Next]_vars PROVE TypeOK'
    OBVIOUS
  <2>. USE DEF TypeOK
  <2>1. CASE InstallInitialPlan
    <3>1. PICK choice \in Choices, other \in Bindings, allocated \in SUBSET Sources :
            current' = Propose(Empty, NoScope, choice, other, allocated)
      BY <2>1, ChoicesAreBindings DEF InstallInitialPlan
    <3>2. current' \in Config
      BY <3>1, EmptyIsConfig, NoScopeIsScope, ProposalEntries DEF Proposed
    <3>. QED
      BY <2>1, <3>2 DEF InstallInitialPlan
  <2>2. CASE PlanIntervention
    <3>1. PICK s \in Scopes, choice \in Choices, allocated \in SUBSET Sources :
            \E n \in Narrowed(s) : \E other \in Fallbacks(n) :
              /\ scope' = s /\ within' = n /\ chosen' = choice /\ fallback' = other
              /\ proposal' = Propose(current, n, choice, other, allocated)
      BY <2>2, ChoicesAreBindings DEF PlanIntervention
    <3>2. PICK n \in Narrowed(s) : \E other \in Fallbacks(n) :
            /\ scope' = s /\ within' = n /\ chosen' = choice /\ fallback' = other
            /\ proposal' = Propose(current, n, choice, other, allocated)
      BY <3>1
    <3>3. PICK other \in Fallbacks(n) :
            /\ scope' = s /\ within' = n /\ chosen' = choice /\ fallback' = other
            /\ proposal' = Propose(current, n, choice, other, allocated)
      BY <3>2
    <3>4. s \in Scope /\ n \in Scope /\ other \in Bindings
      BY NarrowedIsScope DEF Fallbacks, Bindings
    <3>5. proposal' \in Config
      BY <3>3, <3>4, ProposalEntries DEF Proposed
    <3>. QED
      BY <2>2, <3>3, <3>4, <3>5 DEF PlanIntervention
  <2>3. CASE RaiseOutOfScope
    BY <2>3, NoScopeIsScope, EmptyIsConfig, NoChoiceIsChoice
       DEF RaiseOutOfScope, Ended, Bindings
  <2>4. CASE ActivateProjected
    <3>1. current' \in Config
      BY <2>4, ProjectionIsConfig DEF ActivateProjected
    <3>. QED
      BY <2>4, <3>1, NoScopeIsScope, EmptyIsConfig, NoChoiceIsChoice
         DEF ActivateProjected, Ended, Bindings
  <2>5. CASE Finished \/ UNCHANGED vars
    BY <2>5 DEF Finished, vars
  <2>. QED
    BY <2>1, <2>2, <2>3, <2>4, <2>5 DEF Next
<1>. QED
  BY <1>1, <1>2, PTL DEF Spec

\* An intervention changes no entry whose id its scope does not allow,
\* whatever the planner proposed.
THEOREM ScopeFreezes == Spec => OutsideScopeFrozen
<1>1. TypeOK /\ [Next]_vars =>
        [pc = "planned" =>
           \A t \in Tables : \A k \in Key :
             k.id \notin Allowed(scope, t) => current'[t][k] = current[t][k]]_vars
  <2>. SUFFICES ASSUME TypeOK, Next, pc = "planned",
                       NEW t \in Tables, NEW k \in Key,
                       k.id \notin Allowed(scope, t)
                PROVE  current'[t][k] = current[t][k]
    BY DEF vars
  <2>1. CASE ActivateProjected
    <3>1. /\ InScope(current, proposal, scope)
          /\ current' = Project(current, proposal, scope)
      BY <2>1 DEF ActivateProjected
    <3>2. current[t][k] = proposal[t][k]
      BY <3>1 DEF InScope, Changes
    <3>3. current \in Config /\ proposal \in Config /\ scope \in Scope
      BY DEF TypeOK
    <3>4. Project(current, proposal, scope)[t][k]
            = IF Contains(scope, k) THEN proposal[t][k] ELSE current[t][k]
      BY <3>3, ProjectionIsConfig, Zenon
    <3>. QED
      BY <3>1, <3>2, <3>4
  <2>2. CASE RaiseOutOfScope
    BY <2>2 DEF RaiseOutOfScope
  <2>. QED
    BY <2>1, <2>2 DEF Next, InstallInitialPlan, PlanIntervention, Finished
<1>. QED
  BY <1>1, TypeCorrect, PTL DEF Spec, OutsideScopeFrozen

LEMMA ProposalInvariant == Spec => []ProposalInv
<1>1. Init => ProposalInv
  BY DEF Init, ProposalInv
<1>2. ProposalInv /\ [Next]_vars => ProposalInv'
  <2>. SUFFICES ASSUME ProposalInv, [Next]_vars PROVE ProposalInv'
    OBVIOUS
  <2>1. CASE PlanIntervention
    <3>1. PICK s \in Scopes, choice \in Choices, allocated \in SUBSET Sources :
            \E n \in Narrowed(s) : \E other \in Fallbacks(n) :
              /\ ~ IsEmpty(s)
              /\ scope' = s /\ within' = n /\ chosen' = choice /\ fallback' = other
              /\ proposal' = Propose(current, n, choice, other, allocated)
      BY <2>1, ChoicesAreBindings DEF PlanIntervention
    <3>2. current' = current
      BY <2>1 DEF PlanIntervention
    <3>. QED
      BY <3>1, <3>2 DEF ProposalInv, Narrowed
  <2>2. CASE InstallInitialPlan \/ RaiseOutOfScope \/ ActivateProjected
    BY <2>2 DEF InstallInitialPlan, RaiseOutOfScope, ActivateProjected, Ended, ProposalInv
  <2>3. CASE Finished \/ UNCHANGED vars
    BY <2>3 DEF Finished, vars, ProposalInv
  <2>. QED
    BY <2>1, <2>2, <2>3 DEF Next
<1>. QED
  BY <1>1, <1>2, PTL DEF Spec

\* The greedy planner stays within every scope unless it writes the
\* source-agnostic default rule or its budget leaves it no entity, which it reads
\* as no restriction (greedy_planner.py:72, 122-125).
THEOREM GreedyStaysInScope == Spec => []GreedyScopedUnlessDefault
<1>1. TypeOK /\ ProposalInv => GreedyScopedUnlessDefault
  <2>. SUFFICES ASSUME TypeOK, ProposalInv, pc = "planned", fallback = Absent,
                       ~ IsEmpty(within)
                PROVE  InScope(current, proposal, scope)
    BY DEF GreedyScopedUnlessDefault
  <2>1. PICK allocated \in SUBSET Sources :
          proposal = Propose(current, within, chosen, fallback, allocated)
    BY DEF ProposalInv
  <2>2. Rebound(within, chosen) \subseteq scope["source_ids"] \cup scope["node_ids"]
    BY NarrowedIsScope DEF Rebound, ProposalInv, Fields
  <2>. SUFFICES ASSUME NEW t \in Tables, NEW k \in Key, current[t][k] # proposal[t][k]
                PROVE  k.id \in Allowed(scope, t)
    BY DEF InScope, Changes
  <2>3. Proposed(proposal, current, within, chosen, fallback, allocated)
    BY <2>1, ProposalEntries DEF TypeOK
  <2>4. /\ t \in {"assignments", "reusable_rules", "resource_allocations"}
        /\ k.id \in Rebound(within, chosen)
    BY <2>3 DEF Proposed
  <2>. QED
    BY <2>2, <2>4 DEF Allowed
<1>. QED
  BY <1>1, TypeCorrect, ProposalInvariant, PTL

\* With a budget of at least one entity, the check of the scope refuses a proposal
\* of the greedy planner exactly when it changes a default entry: for this planner
\* it guards nothing else.
THEOREM CheckIsForDefault == Spec => []CheckGuardsDefault
<1>1. TypeOK /\ ProposalInv => CheckGuardsDefault
  <2>. DEFINE Kept == \/ fallback = Absent
                      \/ /\ current["assignments"][DefaultKey] = fallback
                         /\ current["reusable_rules"][DefaultKey] = fallback
  <2>. SUFFICES ASSUME TypeOK, ProposalInv, pc = "planned", ~ IsEmpty(within)
                PROVE  InScope(current, proposal, scope) <=> Kept
    BY DEF CheckGuardsDefault
  <2>1. PICK allocated \in SUBSET Sources :
          proposal = Propose(current, within, chosen, fallback, allocated)
    BY DEF ProposalInv
  <2>2. Rebound(within, chosen) \subseteq scope["source_ids"] \cup scope["node_ids"]
    BY NarrowedIsScope DEF Rebound, ProposalInv, Fields
  <2>3. Proposed(proposal, current, within, chosen, fallback, allocated)
    BY <2>1, ProposalEntries DEF TypeOK
  <2>4. /\ DefaultKey \in Key /\ DefaultKey.id = Default /\ DefaultKey.prefix = ""
        /\ "assignments" \in Tables /\ "reusable_rules" \in Tables
    BY KeysInTables DEF DefaultKey, Bare, Tables
  <2>5. \A f \in Fields : Default \notin scope[f]
    BY ScopesAssumption DEF ProposalInv
  <2>6. ASSUME Kept, NEW t \in Tables, NEW k \in Key, current[t][k] # proposal[t][k]
        PROVE  k.id \in Allowed(scope, t)
    <3>1. /\ t \in {"assignments", "reusable_rules", "resource_allocations"}
          /\ k.id \in Rebound(within, chosen)
      BY <2>3, <2>6 DEF Proposed
    <3>. QED
      BY <2>2, <3>1 DEF Allowed
  <2>7. ASSUME ~ Kept
        PROVE  \E t \in Tables : DefaultKey \in Changes(current, proposal, t)
                                  /\ DefaultKey.id \notin Allowed(scope, t)
    <3>1. Default \notin Rebound(within, chosen)
      BY <2>2, <2>5 DEF Fields
    <3>2. fallback # Absent
      BY <2>7
    <3>3. /\ proposal["assignments"][DefaultKey] = fallback
          /\ proposal["reusable_rules"][DefaultKey] = fallback
      BY <2>3, <2>4, <3>1, <3>2 DEF Proposed
    <3>4. \A t \in {"assignments", "reusable_rules"} : Default \notin Allowed(scope, t)
      BY <2>5 DEF Allowed, Fields
    <3>5. \/ current["assignments"][DefaultKey] # proposal["assignments"][DefaultKey]
          \/ current["reusable_rules"][DefaultKey] # proposal["reusable_rules"][DefaultKey]
      BY <2>7, <3>3
    <3>. QED
      BY <2>4, <3>4, <3>5 DEF Changes
  <2>. HIDE DEF Kept
  <2>. QED
    BY <2>6, <2>7 DEF InScope, Changes
<1>. QED
  BY <1>1, TypeCorrect, ProposalInvariant, PTL

\* The reusable rules and the default entries of the initial plan stay in force
\* through every intervention, activated or refused.
THEOREM RulesStay == Spec => RulesAreFinal
<1>1. TypeOK /\ ProposalInv /\ [Next]_vars =>
        [pc # "start" =>
           \A t \in Tables : \A k \in Key :
             k.prefix # "" \/ k = DefaultKey => current'[t][k] = current[t][k]]_vars
  <2>. SUFFICES ASSUME TypeOK, ProposalInv, Next, pc # "start",
                       NEW t \in Tables, NEW k \in Key, k.prefix # "" \/ k = DefaultKey
                PROVE  current'[t][k] = current[t][k]
    BY DEF vars
  <2>1. CASE ActivateProjected
    <3>1. current' = Project(current, proposal, scope) /\ pc = "planned"
      BY <2>1 DEF ActivateProjected, Ended
    <3>2. current \in Config /\ proposal \in Config /\ scope \in Scope
      BY DEF TypeOK
    <3>3. ~ Contains(scope, k)
      <4>1. ~ Contains(scope, DefaultKey)
        BY <3>1, ScopesAssumption DEF ProposalInv, Contains, DefaultKey, Bare
      <4>2. k.prefix # "" => ~ Contains(scope, k)
        BY DEF Contains
      <4>. QED
        BY <4>1, <4>2
    <3>4. Project(current, proposal, scope)[t][k]
            = IF Contains(scope, k) THEN proposal[t][k] ELSE current[t][k]
      BY <3>2, ProjectionIsConfig, Zenon
    <3>. QED
      BY <3>1, <3>3, <3>4
  <2>2. CASE ~ ActivateProjected
    BY <2>2 DEF Next, InstallInitialPlan, PlanIntervention, RaiseOutOfScope, Ended, Finished, vars
  <2>. QED
    BY <2>1, <2>2
<1>. QED
  BY <1>1, TypeCorrect, ProposalInvariant, PTL DEF Spec, RulesAreFinal

\* After an intervention that is activated, the sources the planner rebound
\* execute where it decided and the others where they did, although the
\* projection drops the reusable rules it wrote.
THEOREM ExecutionFollows == Spec => ExecutionFollowsPlan
<1>1. TypeOK /\ ProposalInv /\ [Next]_vars =>
        [pc = "planned" /\ InScope(current, proposal, scope) =>
           \A src \in Sources :
             /\ src \in Rebound(within, chosen) => Materialize(current', src) = chosen[src]
             /\ src \notin Allowed(scope, "assignments") =>
                  Materialize(current', src) = Materialize(current, src)]_vars
  <2>. SUFFICES ASSUME TypeOK, ProposalInv, Next, pc = "planned",
                       InScope(current, proposal, scope), NEW src \in Sources
                PROVE  /\ src \in Rebound(within, chosen) =>
                            Materialize(current', src) = chosen[src]
                       /\ src \notin Allowed(scope, "assignments") =>
                            Materialize(current', src) = Materialize(current, src)
    BY DEF vars
  <2>1. ActivateProjected
    BY DEF Next, InstallInitialPlan, PlanIntervention, RaiseOutOfScope, Finished
  <2>2. PICK allocated \in SUBSET Sources :
          proposal = Propose(current, within, chosen, fallback, allocated)
    BY DEF ProposalInv
  <2>3. scope \in Scope /\ ~ Contains(scope, DefaultKey)
    BY ScopesAssumption DEF ProposalInv, Contains, DefaultKey, Bare
  <2>4. \A t \in Tables : \A k \in Key :
          current'[t][k] = IF Contains(scope, k) THEN proposal[t][k] ELSE current[t][k]
    <3>1. current \in Config /\ proposal \in Config /\ scope \in Scope
      BY DEF TypeOK
    <3>2. current' = Project(current, proposal, scope)
      BY <2>1 DEF ActivateProjected
    <3>. QED
      <4>. SUFFICES ASSUME NEW t \in Tables, NEW k \in Key
                    PROVE  current'[t][k]
                             = IF Contains(scope, k) THEN proposal[t][k] ELSE current[t][k]
        OBVIOUS
      <4>1. Project(current, proposal, scope)[t][k]
              = IF Contains(scope, k) THEN proposal[t][k] ELSE current[t][k]
        BY <3>1, ProjectionIsConfig, Zenon
      <4>. QED
        BY <3>2, <4>1
  <2>5. \A k \in Key : proposal["assignments"][k] =
          IF k.prefix = "" /\ k.id \in Rebound(within, chosen) THEN chosen[k.id]
          ELSE IF k = DefaultKey /\ fallback # Absent THEN fallback
          ELSE current["assignments"][k]
    <3>1. Proposed(proposal, current, within, chosen, fallback, allocated)
      BY <2>2, ProposalEntries DEF TypeOK
    <3>. QED
      BY <3>1 DEF Proposed
  <2>6. /\ Bare(src) \in Key /\ Bare(src).prefix = "" /\ Bare(src).id = src
        /\ Rule(src) \in Key /\ Rule(src).prefix = "source:"
        /\ DefaultKey \in Key /\ Bare(src) # DefaultKey
        /\ "assignments" \in Tables /\ "reusable_rules" \in Tables
    BY KeysInTables, IdsAssumption DEF Bare, Rule, DefaultKey, Tables
  <2>7. /\ src \notin Allowed(scope, "assignments") =>
             proposal["assignments"][Bare(src)] = current["assignments"][Bare(src)]
        /\ ~ Contains(scope, Bare(src)) => src \notin Allowed(scope, "assignments")
    <3>1. Bare(src) \in Changes(current, proposal, "assignments") =>
            src \in Allowed(scope, "assignments")
      BY <2>6 DEF InScope
    <3>2. src \in Allowed(scope, "assignments") => Contains(scope, Bare(src))
      BY <2>6 DEF Allowed, Contains, Fields
    <3>. QED
      BY <2>6, <3>1, <3>2 DEF Changes
  <2>8. ASSUME src \in Rebound(within, chosen)
        PROVE  Materialize(current', src) = chosen[src]
    <3>1. proposal["assignments"][Bare(src)] = chosen[src]
      BY <2>5, <2>6, <2>8
    <3>2. current'["assignments"][Bare(src)] = chosen[src]
      BY <2>4, <2>6, <2>7, <3>1
    <3>3. chosen[src] # Absent
      BY <2>8, ChoicesAreBindings, TargetsAssumption DEF Rebound, TypeOK
    <3>. QED
      BY <3>2, <3>3 DEF Materialize
  <2>9. ASSUME src \notin Allowed(scope, "assignments")
        PROVE  Materialize(current', src) = Materialize(current, src)
    <3>1. current'["assignments"][Bare(src)] = current["assignments"][Bare(src)]
      BY <2>4, <2>6, <2>7, <2>9
    <3>2. /\ current'["assignments"][Rule(src)] = current["assignments"][Rule(src)]
          /\ current'["reusable_rules"][Rule(src)] = current["reusable_rules"][Rule(src)]
      BY <2>4, <2>6 DEF Contains
    <3>3. /\ current'["assignments"][DefaultKey] = current["assignments"][DefaultKey]
          /\ current'["reusable_rules"][DefaultKey] = current["reusable_rules"][DefaultKey]
      BY <2>3, <2>4, <2>6
    <3>. QED
      BY <3>1, <3>2, <3>3 DEF Materialize
  <2>. QED
    BY <2>8, <2>9
<1>. QED
  BY <1>1, TypeCorrect, ProposalInvariant, PTL DEF Spec, ExecutionFollowsPlan

===============================================================================
