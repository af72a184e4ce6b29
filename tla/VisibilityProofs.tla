--------------------------- MODULE VisibilityProofs ---------------------------
(* Theorems about VisibilityPolicy, about the answers whose history            *)
(* VisibilityFreshness keeps, and about VisibilityDecision, for every value of *)
(* their constants.                                                            *)
EXTENDS VisibilityFreshness, VisibilityDecision, TLAPS

\* Versions of objects never run ahead of the global one, which bounds them.
VersionsBounded == \A o \in Objects : objVersion[o] <= policyVersion

TypeInv == TypeOK /\ VersionsBounded

USE DEF policy, versions, caches, locals

LEMMA InitTypeInv == Init => TypeInv
  BY BoundsAssumption, PolicyAssumption
  DEF Init, TypeInv, TypeOK, VersionsBounded, Versions, Times, EmptyDefinition, Definition

LEMMA OpenTypeInv ==
    ASSUME TypeInv, NEW a \in Admins,
           NEW t \in ConeTx \cup RuleTx \cup AssignTx \cup BootstrapTx,
           Open(a, t)
    PROVE  TypeInv'
  BY DEF Open, TypeInv, TypeOK, VersionsBounded

LEMMA ObjectsOfConeType == \A c : ObjectsOfCone(c) \in SUBSET Objects
  BY DEF ObjectsOfCone

LEMMA BumpTypeInv ==
    ASSUME TypeInv, NEW objs \in SUBSET Objects, Bump(objs)
    PROVE  /\ policyVersion' \in Versions
           /\ objVersion' \in [Objects -> Versions]
           /\ defCache' \in [Objects \X Versions -> Definition \cup {None}]
           /\ scopeCache' \in [Users \X Objects \X Versions -> ScopeRow \cup {None}]
           /\ VersionsBounded'
  <1>1. policyVersion' \in Versions
    BY BoundsAssumption DEF Bump, TypeInv, TypeOK, Versions
  <1>2. objVersion' \in [Objects -> Versions] /\ VersionsBounded'
    <2>1. ASSUME NEW o \in Objects
          PROVE  /\ objVersion[o] + (IF o \in objs THEN 1 ELSE 0) \in Versions
                 /\ objVersion[o] + (IF o \in objs THEN 1 ELSE 0) <= policyVersion'
      BY BoundsAssumption DEF Bump, TypeInv, TypeOK, VersionsBounded, Versions
    <2>2. QED
      BY <2>1 DEF Bump, VersionsBounded
  <1>3. defCache' \in [Objects \X Versions -> Definition \cup {None}]
    BY DEF Bump, TypeInv, TypeOK
  <1>4. scopeCache' \in [Users \X Objects \X Versions -> ScopeRow \cup {None}]
    BY DEF Bump, TypeInv, TypeOK
  <1>5. QED
    BY <1>1, <1>2, <1>3, <1>4

LEMMA CommitTypeInv ==
    ASSUME TypeInv, NEW a \in Admins, Commit(a)
    PROVE  TypeInv'
  <1> DEFINE t == tx[a]
  <1>1. t \in ConeTx \cup RuleTx \cup AssignTx \cup BootstrapTx
    BY DEF Commit, TypeInv, TypeOK
  <1>2. t.objs \in SUBSET Objects
    BY <1>1 DEF ConeTx, RuleTx, AssignTx, BootstrapTx
  <1>3. Bump(t.objs)
    BY DEF Commit
  <1>4. /\ policyVersion' \in Versions
        /\ objVersion' \in [Objects -> Versions]
        /\ defCache' \in [Objects \X Versions -> Definition \cup {None}]
        /\ scopeCache' \in [Users \X Objects \X Versions -> ScopeRow \cup {None}]
        /\ VersionsBounded'
    BY <1>2, <1>3, BumpTypeInv
  <1>5. /\ cones' \in [Cones -> ConeState]
        /\ rules' \in [Rules -> RuleRow \cup {None}]
        /\ assigns' \in [Assigns -> AssignRow \cup {None}]
    <2>1. CASE CommitCone(t)
      <3>1. t.id \in Cones /\ t.row \in ConeState
        BY <1>1, <2>1 DEF CommitCone, ConeTx, RuleTx, AssignTx, BootstrapTx, ConeState
      <3>2. QED
        BY <2>1, <3>1 DEF CommitCone, TypeInv, TypeOK
    <2>2. CASE CommitRule(t)
      <3>1. t.id \in Rules /\ t.row \in RuleRow \cup {None}
        BY <1>1, <2>2 DEF CommitRule, ConeTx, RuleTx, AssignTx, BootstrapTx
      <3>2. QED
        BY <2>2, <3>1 DEF CommitRule, TypeInv, TypeOK
    <2>3. CASE CommitAssignment(t)
      <3>1. t.id \in Assigns /\ t.row \in AssignRow \cup {None}
        BY <1>1, <2>3 DEF CommitAssignment, ConeTx, RuleTx, AssignTx, BootstrapTx
      <3>2. QED
        BY <2>3, <3>1 DEF CommitAssignment, TypeInv, TypeOK
    <2>4. CASE CommitBootstrap(t)
      <3>1. t.id \in Rules /\ t.row \in RuleRow
        BY <1>1, <2>4 DEF CommitBootstrap, ConeTx, RuleTx, AssignTx, BootstrapTx
      <3>2. QED
        BY <2>4, <3>1 DEF CommitBootstrap, TypeInv, TypeOK, ConeState
    <2>5. QED
      BY <2>1, <2>2, <2>3, <2>4 DEF Commit
  <1>6. tx' \in [Admins -> ConeTx \cup RuleTx \cup AssignTx \cup BootstrapTx \cup {None}]
    BY DEF Commit, TypeInv, TypeOK
  <1>7. UNCHANGED <<pc, req, sel, def, scope, now>>
    BY DEF Commit
  <1>8. QED
    BY <1>4, <1>5, <1>6, <1>7 DEF TypeInv, TypeOK

LEMMA AdministerTypeInv ==
    ASSUME TypeInv, NEW a \in Admins, Administer(a)
    PROVE  TypeInv'
  <1> USE ObjectsOfConeType
  <1>1. ASSUME NEW c \in Cones, NEW state \in {"active", "inactive"}, CreateCone(a, c, state)
        PROVE  TypeInv'
    <2>1. [table |-> "cone", op |-> "create", id |-> c, row |-> state, objs |-> {}] \in ConeTx
      BY DEF ConeTx, ConeState
    <2>2. QED
      BY <1>1, <2>1, OpenTypeInv DEF CreateCone
  <1>2. ASSUME NEW c \in Cones, NEW state \in {"active", "inactive"}, UpdateCone(a, c, state)
        PROVE  TypeInv'
    <2>1. [table |-> "cone", op |-> "update", id |-> c, row |-> state,
           objs |-> ObjectsOfCone(c)] \in ConeTx
      BY DEF ConeTx, ConeState
    <2>2. QED
      BY <1>2, <2>1, OpenTypeInv DEF UpdateCone
  <1>3. ASSUME NEW c \in Cones, DeleteCone(a, c)
        PROVE  TypeInv'
    <2>1. [table |-> "cone", op |-> "delete", id |-> c, row |-> "absent",
           objs |-> ObjectsOfCone(c)] \in ConeTx
      BY DEF ConeTx, ConeState
    <2>2. QED
      BY <1>3, <2>1, OpenTypeInv DEF DeleteCone
  <1>4. ASSUME NEW r \in Rules, NEW x \in RuleInputs, CreateRule(a, r, x)
        PROVE  TypeInv'
    <2>1. x \in RuleRow /\ x.obj \in Objects
      BY PolicyAssumption DEF RuleRow
    <2>2. [table |-> "rule", op |-> "create", id |-> r, row |-> x, objs |-> {x.obj}] \in RuleTx
      BY <2>1 DEF RuleTx
    <2>3. QED
      BY <1>4, <2>2, OpenTypeInv DEF CreateRule
  <1>5. ASSUME NEW r \in Rules, NEW x \in RuleInputs, UpdateRule(a, r, x)
        PROVE  TypeInv'
    <2>1. x \in RuleRow /\ x.obj \in Objects
      BY PolicyAssumption DEF RuleRow
    <2>2. rules[r].obj \in Objects
      BY <1>5 DEF UpdateRule, TypeInv, TypeOK, RuleRow
    <2>3. [table |-> "rule", op |-> "update", id |-> r, row |-> x,
           objs |-> {rules[r].obj, x.obj}] \in RuleTx
      BY <2>1, <2>2 DEF RuleTx
    <2>4. QED
      BY <1>5, <2>3, OpenTypeInv DEF UpdateRule
  <1>6. ASSUME NEW r \in Rules, DeleteRule(a, r)
        PROVE  TypeInv'
    <2>1. rules[r].obj \in Objects
      BY <1>6 DEF DeleteRule, TypeInv, TypeOK, RuleRow
    <2>2. [table |-> "rule", op |-> "delete", id |-> r, row |-> None,
           objs |-> {rules[r].obj}] \in RuleTx
      BY <2>1 DEF RuleTx
    <2>3. QED
      BY <1>6, <2>2, OpenTypeInv DEF DeleteRule
  <1>7. ASSUME NEW r \in Rules, NEW o \in Objects, EnsureBootstrap(a, r, o)
        PROVE  TypeInv'
    <2> DEFINE t(newCone, newRule) ==
                [table |-> "bootstrap", newCone |-> newCone, newRule |-> newRule, id |-> r,
                 row |-> [cone |-> BootstrapCone, obj |-> o, active |-> TRUE,
                          body |-> BootstrapBody],
                 objs |-> {o}]
    <2>1. \A newCone, newRule \in BOOLEAN : t(newCone, newRule) \in BootstrapTx
      BY PolicyAssumption DEF BootstrapTx, RuleRow
    <2>2. (~ConeExists(BootstrapCone)) \in BOOLEAN /\ (~BootstrapRuleExists(o)) \in BOOLEAN
      BY DEF ConeExists, BootstrapRuleExists
    <2>3. Open(a, t(~ConeExists(BootstrapCone), ~BootstrapRuleExists(o)))
      BY <1>7 DEF EnsureBootstrap
    <2>4. t(~ConeExists(BootstrapCone), ~BootstrapRuleExists(o)) \in BootstrapTx
      BY <2>1, <2>2
    <2>5. QED
      BY <2>3, <2>4, OpenTypeInv
  <1>8. ASSUME NEW i \in Assigns, NEW x \in AssignInputs, CreateAssignment(a, i, x)
        PROVE  TypeInv'
    <2>1. x \in AssignRow
      BY PolicyAssumption
    <2>2. [table |-> "assign", op |-> "create", id |-> i, row |-> x,
           objs |-> ObjectsOfCone(x.cone)] \in AssignTx
      BY <2>1 DEF AssignTx
    <2>3. QED
      BY <1>8, <2>2, OpenTypeInv DEF CreateAssignment
  <1>9. ASSUME NEW i \in Assigns, NEW x \in AssignInputs, UpdateAssignment(a, i, x)
        PROVE  TypeInv'
    <2>1. x \in AssignRow
      BY PolicyAssumption
    <2>2. [table |-> "assign", op |-> "update", id |-> i, row |-> x,
           objs |-> ObjectsOfCone(assigns[i].cone) \cup ObjectsOfCone(x.cone)] \in AssignTx
      BY <2>1 DEF AssignTx
    <2>3. QED
      BY <1>9, <2>2, OpenTypeInv DEF UpdateAssignment
  <1>10. ASSUME NEW i \in Assigns, DeleteAssignment(a, i)
         PROVE  TypeInv'
    <2>1. [table |-> "assign", op |-> "delete", id |-> i, row |-> None,
           objs |-> ObjectsOfCone(assigns[i].cone)] \in AssignTx
      BY DEF AssignTx
    <2>2. QED
      BY <1>10, <2>1, OpenTypeInv DEF DeleteAssignment
  <1>11. CASE Commit(a)
    BY <1>11, CommitTypeInv
  <1>12. CASE Rollback(a)
    BY <1>12 DEF Rollback, TypeInv, TypeOK, VersionsBounded
  <1>13. QED
    BY <1>1, <1>2, <1>3, <1>4, <1>5, <1>6, <1>7, <1>8, <1>9, <1>10, <1>11, <1>12
    DEF Administer

LEMMA KeyTypes ==
    ASSUME TypeInv, NEW r \in Readers, pc[r] # "idle"
    PROVE  /\ req[r] \in Request
           /\ DefKey(r) \in Objects \X Versions
           /\ ScopeKey(r) \in Users \X Objects \X Versions
  BY DEF TypeInv, TypeOK, Request, DefKey, ScopeKey

LEMMA CompileType == ASSUME NEW es \in SUBSET Entry PROVE Compile(es) \in Definition
  BY DEF Compile, Definition

LEMMA EntriesOfType ==
    ASSUME TypeInv, NEW o, NEW cs PROVE EntriesOf(o, cs) \in SUBSET Entry
  BY DEF EntriesOf, RulesOn, TypeInv, TypeOK, RuleRow, Entry

LEMMA ApplicableType ==
    ASSUME NEW es \in SUBSET Entry, NEW cs PROVE Applicable(es, cs) \in SUBSET Entry
  BY DEF Applicable

LEMMA EvaluateTypeInv ==
    ASSUME TypeInv, NEW r \in Readers, Evaluate(r)
    PROVE  TypeInv'
  <1> USE KeyTypes
  <1>1. ASSUME NEW u \in Users, NEW o \in Objects, NEW skip \in SkipModes,
               BeginEvaluate(r, u, o, skip)
        PROVE  TypeInv'
    <2>1. PICK v \in ReadableVersions(o, skip) :
            req' = [req EXCEPT ![r] = [user |-> u, obj |-> o, skip |-> skip, ver |-> v]]
      BY <1>1 DEF BeginEvaluate
    <2>2. v \in Versions
      BY BoundsAssumption DEF ReadableVersions, TypeInv, TypeOK, Versions
    <2>3. [user |-> u, obj |-> o, skip |-> skip, ver |-> v] \in Request
      BY <2>2, BoundsAssumption DEF Request
    <2>4. QED
      BY <1>1, <2>1, <2>3 DEF BeginEvaluate, Goto, TypeInv, TypeOK, VersionsBounded
  <1>2. CASE LookupDefinition(r)
    BY <1>2 DEF LookupDefinition, UseDefinition, Goto, TypeInv, TypeOK, VersionsBounded
  <1>3. CASE SelectCones(r)
    BY <1>3 DEF SelectCones, SelectedCones, Goto, TypeInv, TypeOK, VersionsBounded
  <1>4. CASE BuildDefinition(r)
    <2> DEFINE d == Compile(EntriesOf(req[r].obj, sel[r]))
    <2>1. d \in Definition
      BY EntriesOfType, CompileType
    <2> HIDE DEF d
    <2>2. /\ def' = [def EXCEPT ![r] = d]
          /\ \E label \in {"invalid", "assign", "scope", "persist"} : Goto(r, label)
      BY <1>4 DEF BuildDefinition, UseDefinition, d
    <2>3. QED
      BY <1>4, <2>1, <2>2 DEF BuildDefinition, Goto, TypeInv, TypeOK, VersionsBounded
  <1>5. CASE PersistDefinition(r)
    BY <1>5 DEF PersistDefinition, UseDefinition, Goto, TypeInv, TypeOK, VersionsBounded
  <1>6. CASE RereadDefinition(r)
    BY <1>6 DEF RereadDefinition, UseDefinition, Goto, TypeInv, TypeOK, VersionsBounded
  <1>7. CASE LookupScope(r)
    BY <1>7 DEF LookupScope, Goto, TypeInv, TypeOK, VersionsBounded, ScopeRow
  <1>8. CASE FindAssignments(r)
    <2>1. Applicable(def[r].entries, AssignedCones(req[r].user, now)) \in SUBSET Entry
      BY ApplicableType DEF TypeInv, TypeOK, Definition
    <2>2. QED
      BY <1>8, <2>1 DEF FindAssignments, Goto, TypeInv, TypeOK, VersionsBounded
  <1>9. CASE StoreScope(r)
    <2>1. [entries |-> scope[r], expires |-> now + TTL] \in ScopeRow
      BY BoundsAssumption DEF TypeInv, TypeOK, ScopeRow, Times
    <2>2. QED
      BY <1>9, <2>1 DEF StoreScope, Goto, TypeInv, TypeOK, VersionsBounded
  <1>10. CASE EndEvaluate(r)
    BY <1>10 DEF EndEvaluate, Goto, TypeInv, TypeOK, VersionsBounded, EmptyDefinition, Definition
  <1>11. QED
    BY <1>1, <1>2, <1>3, <1>4, <1>5, <1>6, <1>7, <1>8, <1>9, <1>10 DEF Evaluate

\* The type invariant, with the bound that keeps every version of an object
\* within reach of the global version (bumpPolicyVersionAndInvalidateCaches).
THEOREM TypeCorrect == Spec => [](TypeOK /\ VersionsBounded)
  <1>1. TypeInv /\ [Next]_vars => TypeInv'
    <2> SUFFICES ASSUME TypeInv, [Next]_vars PROVE TypeInv'
      OBVIOUS
    <2>1. ASSUME NEW a \in Admins, Administer(a) PROVE TypeInv'
      BY <2>1, AdministerTypeInv
    <2>2. ASSUME NEW r \in Readers, Evaluate(r) PROVE TypeInv'
      BY <2>2, EvaluateTypeInv
    <2>3. CASE Tick
      BY <2>3, BoundsAssumption DEF Tick, TypeInv, TypeOK, VersionsBounded, Times
    <2>4. CASE UNCHANGED vars
      BY <2>4 DEF vars, TypeInv, TypeOK, VersionsBounded
    <2>5. QED
      BY <2>1, <2>2, <2>3, <2>4 DEF Next
  <1>2. QED
    BY InitTypeInv, <1>1, PTL DEF Spec, TypeInv

-----------------------------------------------------------------------------
(* Versions: what holds however many administrators work at once. *)

\* A request works under a version its object has reached, and one that met a
\* unique violation still finds the row unless the object has moved on.
RequestsBehind ==
    \A r \in Readers : pc[r] # "idle" =>
        /\ req[r].ver <= objVersion[req[r].obj]
        /\ pc[r] = "reread" =>
            defCache[DefKey(r)] # None \/ req[r].ver < objVersion[req[r].obj]
        /\ pc[r] = "failed" => req[r].ver < objVersion[req[r].obj]

VersionInv == TypeInv /\ NoFutureRows /\ RequestsBehind

LEMMA InitVersionInv == Init => VersionInv
  BY InitTypeInv DEF Init, VersionInv, NoFutureRows, RequestsBehind

LEMMA CommitVersionInv ==
    ASSUME VersionInv, NEW a \in Admins, Commit(a)
    PROVE  NoFutureRows' /\ RequestsBehind'
  <1> DEFINE objs == tx[a].objs
  <1>1. Bump(objs) /\ UNCHANGED <<pc, req, sel, def, scope, now>>
    BY DEF Commit
  <1>2. \A o \in Objects : /\ objVersion[o] \in Nat /\ objVersion'[o] \in Nat
                           /\ objVersion[o] <= objVersion'[o]
                           /\ o \in objs => objVersion[o] < objVersion'[o]
    BY <1>1 DEF Bump, VersionInv, TypeInv, TypeOK, Versions
  <1>3. NoFutureRows'
    <2>1. ASSUME NEW k \in Objects \X Versions, defCache'[k] # None
          PROVE  k[2] <= objVersion'[k[1]]
      <3>1. defCache[k] # None
        BY <1>1, <2>1 DEF Bump
      <3>2. k[2] <= objVersion[k[1]] /\ k[1] \in Objects /\ k[2] \in Nat
        BY <3>1 DEF VersionInv, NoFutureRows, Versions
      <3>3. QED
        BY <1>2, <3>2
    <2>2. ASSUME NEW k \in Users \X Objects \X Versions, scopeCache'[k] # None
          PROVE  k[3] <= objVersion'[k[2]]
      <3>1. scopeCache[k] # None
        BY <1>1, <2>2 DEF Bump
      <3>2. k[3] <= objVersion[k[2]] /\ k[2] \in Objects /\ k[3] \in Nat
        BY <3>1 DEF VersionInv, NoFutureRows, Versions
      <3>3. QED
        BY <1>2, <3>2
    <2>3. QED
      BY <2>1, <2>2 DEF NoFutureRows
  <1>4. RequestsBehind'
    <2> SUFFICES ASSUME NEW r \in Readers, pc'[r] # "idle"
                 PROVE  /\ req'[r].ver <= objVersion'[req'[r].obj]
                        /\ pc'[r] = "reread" =>
                            defCache'[DefKey(r)'] # None \/ req'[r].ver < objVersion'[req'[r].obj]
                        /\ pc'[r] = "failed" => req'[r].ver < objVersion'[req'[r].obj]
      BY DEF RequestsBehind
    <2>1. pc'[r] = pc[r] /\ req'[r] = req[r] /\ DefKey(r)' = DefKey(r)
      BY <1>1 DEF DefKey
    <2>2. /\ req[r].obj \in Objects /\ req[r].ver \in Nat
          /\ DefKey(r) \in Objects \X Versions /\ DefKey(r)[1] = req[r].obj
      BY <2>1, KeyTypes DEF VersionInv, Request, Versions, DefKey
    <2>3. CASE req[r].obj \in objs
      BY <1>2, <2>1, <2>2, <2>3 DEF VersionInv, RequestsBehind
    <2>4. CASE req[r].obj \notin objs
      <3>1. defCache'[DefKey(r)] = defCache[DefKey(r)]
        BY <1>1, <2>2, <2>4 DEF Bump
      <3>2. QED
        BY <1>2, <2>1, <2>2, <3>1 DEF VersionInv, RequestsBehind
    <2>5. QED
      BY <2>3, <2>4
  <1>5. QED
    BY <1>3, <1>4

LEMMA AdministerVersionInv ==
    ASSUME VersionInv, NEW a \in Admins, Administer(a)
    PROVE  NoFutureRows' /\ RequestsBehind'
  <1>1. ASSUME NEW t, Open(a, t) PROVE NoFutureRows' /\ RequestsBehind'
    BY <1>1 DEF Open, VersionInv, NoFutureRows, RequestsBehind, DefKey
  <1>2. CASE Rollback(a)
    BY <1>2 DEF Rollback, VersionInv, NoFutureRows, RequestsBehind, DefKey
  <1>3. CASE Commit(a)
    BY <1>3, CommitVersionInv
  <1>4. QED
    BY <1>1, <1>2, <1>3 DEF Administer, CreateCone, UpdateCone, DeleteCone, CreateRule,
       UpdateRule, DeleteRule, EnsureBootstrap, CreateAssignment, UpdateAssignment,
       DeleteAssignment

LEMMA EvaluateVersionInv ==
    ASSUME VersionInv, NEW r \in Readers, Evaluate(r)
    PROVE  NoFutureRows' /\ RequestsBehind'
  <1> USE DEF VersionInv, TypeInv, TypeOK
  <1>1. ASSUME NEW u \in Users, NEW o \in Objects, NEW skip \in SkipModes,
               BeginEvaluate(r, u, o, skip)
        PROVE  NoFutureRows' /\ RequestsBehind'
    <2>1. PICK v \in ReadableVersions(o, skip) :
            req' = [req EXCEPT ![r] = [user |-> u, obj |-> o, skip |-> skip, ver |-> v]]
      BY <1>1 DEF BeginEvaluate
    <2>2. v <= objVersion[o]
      BY DEF ReadableVersions, Versions
    <2>3. pc' = [pc EXCEPT ![r] = IF skip THEN "cones" ELSE "definition"]
      BY <1>1 DEF BeginEvaluate, Goto
    <2>4. QED
      BY <1>1, <2>1, <2>2, <2>3 DEF BeginEvaluate, NoFutureRows, RequestsBehind, DefKey
  <1>2. CASE LookupDefinition(r)
    BY <1>2 DEF LookupDefinition, UseDefinition, Goto, NoFutureRows, RequestsBehind, DefKey
  <1>3. CASE SelectCones(r)
    BY <1>3 DEF SelectCones, Goto, NoFutureRows, RequestsBehind, DefKey
  <1>4. CASE BuildDefinition(r)
    BY <1>4 DEF BuildDefinition, UseDefinition, Goto, NoFutureRows, RequestsBehind, DefKey
  <1>5. CASE PersistDefinition(r)
    <2>1. pc[r] # "idle" /\ DefKey(r) \in Objects \X Versions
      BY <1>5, KeyTypes DEF PersistDefinition
    <2>2. DefKey(r)[2] <= objVersion[DefKey(r)[1]]
      BY <2>1 DEF RequestsBehind, DefKey
    <2>3. CASE defCache[DefKey(r)] = None
      <3>1. defCache' = [defCache EXCEPT ![DefKey(r)] = def[r]]
        BY <1>5, <2>3 DEF PersistDefinition
      <3>2. NoFutureRows'
        BY <1>5, <2>1, <2>2, <3>1 DEF PersistDefinition, NoFutureRows
      <3>3. \A q \in Readers : DefKey(q)' = DefKey(q)
        BY <1>5 DEF PersistDefinition, DefKey
      <3>4. \A q \in Readers : pc[q] # "idle" => defCache'[DefKey(q)] = defCache[DefKey(q)]
                                                  \/ defCache'[DefKey(q)] # None
        BY <2>1, <3>1, KeyTypes, NoneAssumption
      <3>5. RequestsBehind'
        BY <1>5, <2>3, <3>3, <3>4 DEF PersistDefinition, UseDefinition, Goto, RequestsBehind
      <3>6. QED
        BY <3>2, <3>5
    <2>4. CASE defCache[DefKey(r)] # None
      BY <1>5, <2>4 DEF PersistDefinition, Goto, NoFutureRows, RequestsBehind, DefKey
    <2>5. QED
      BY <2>3, <2>4
  <1>6. CASE RereadDefinition(r)
    BY <1>6 DEF RereadDefinition, UseDefinition, Goto, NoFutureRows, RequestsBehind, DefKey
  <1>7. CASE LookupScope(r)
    BY <1>7 DEF LookupScope, Goto, NoFutureRows, RequestsBehind, DefKey
  <1>8. CASE FindAssignments(r)
    BY <1>8 DEF FindAssignments, Goto, NoFutureRows, RequestsBehind, DefKey
  <1>9. CASE StoreScope(r)
    <2>1. pc[r] # "idle" /\ ScopeKey(r) \in Users \X Objects \X Versions
      BY <1>9, KeyTypes DEF StoreScope
    <2>2. ScopeKey(r)[3] <= objVersion[ScopeKey(r)[2]]
      BY <2>1 DEF RequestsBehind, ScopeKey
    <2>3. NoFutureRows'
      BY <1>9, <2>1, <2>2 DEF StoreScope, NoFutureRows
    <2>4. RequestsBehind'
      BY <1>9 DEF StoreScope, Goto, RequestsBehind, DefKey
    <2>5. QED
      BY <2>3, <2>4
  <1>10. CASE EndEvaluate(r)
    BY <1>10 DEF EndEvaluate, Goto, NoFutureRows, RequestsBehind, DefKey
  <1>11. QED
    BY <1>1, <1>2, <1>3, <1>4, <1>5, <1>6, <1>7, <1>8, <1>9, <1>10 DEF Evaluate

LEMMA VersionInvariance == Spec => []VersionInv
  <1>1. VersionInv /\ [Next]_vars => NoFutureRows' /\ RequestsBehind'
    <2> SUFFICES ASSUME VersionInv, [Next]_vars PROVE NoFutureRows' /\ RequestsBehind'
      OBVIOUS
    <2>1. CASE Tick
      BY <2>1 DEF Tick, VersionInv, NoFutureRows, RequestsBehind, DefKey
    <2>2. CASE UNCHANGED vars
      BY <2>2 DEF vars, VersionInv, NoFutureRows, RequestsBehind, DefKey
    <2>3. QED
      BY <2>1, <2>2, AdministerVersionInv, EvaluateVersionInv DEF Next
  <1>2. QED
    BY InitVersionInv, <1>1, TypeCorrect, PTL DEF Spec, VersionInv, TypeInv

\* A bump retires every row cached before it for good: no row is ever filed under
\* a version that its object has yet to reach (persistPolicyDefinition,
\* upsertUserScopeCache), however many administrators work at once.
THEOREM NoRowFromTheFuture == Spec => []NoFutureRows
  BY VersionInvariance, PTL DEF VersionInv

\* A client sees the unique violation of two concurrent fills only when a policy
\* change of its object was committed while it waited (getOrBuildPolicyDefinition).
THEOREM FailuresExplained == Spec => []FailureMeansPolicyChanged
  <1>1. VersionInv => FailureMeansPolicyChanged
    BY DEF VersionInv, RequestsBehind, FailureMeansPolicyChanged
  <1>2. QED
    BY <1>1, VersionInvariance, PTL

-----------------------------------------------------------------------------
(* Coherence of both caches when administrators take turns.  The listing of an
   open transaction then still covers what it changes when it commits, so an
   object that is not bumped keeps its policy; and what an evaluation carries is
   live as long as the version it read is current. *)

Covers(t) ==
    /\ t.table = "cone" =>
        \A r \in Rules : rules[r] # None /\ rules[r].cone = t.id => rules[r].obj \in t.objs
    /\ t.table = "rule" =>
        /\ t.row # None => t.row.obj \in t.objs
        /\ rules[t.id] # None => rules[t.id].obj \in t.objs
    /\ t.table = "assign" =>
        \A r \in Rules : rules[r] # None =>
            /\ t.row # None /\ rules[r].cone = t.row.cone => rules[r].obj \in t.objs
            /\ assigns[t.id] # None /\ rules[r].cone = assigns[t.id].cone =>
                rules[r].obj \in t.objs
    /\ t.table = "bootstrap" => t.row.obj \in t.objs

TransactionsCover == \A a \in Admins : tx[a] # None => Covers(tx[a])

ScopeIsLive(es, u, o) ==
    /\ LiveDefinition(o).status = "READY"
    /\ \E t \in 0 .. now : es = LiveScope(u, o, t)

\* What an evaluation holds while the version it read is the current one.
Current(r) == pc[r] # "idle" /\ req[r].ver = objVersion[req[r].obj]

EvaluationLive(r) ==
    /\ pc[r] = "rules" => sel[r] = SelectedCones(req[r].obj)
    /\ pc[r] = "persist" => def[r] = LiveDefinition(req[r].obj)
    /\ pc[r] \in {"scope", "assign"} =>
        def[r] = LiveDefinition(req[r].obj) /\ def[r].status = "READY"
    /\ pc[r] \in {"store", "served"} => ScopeIsLive(scope[r], req[r].user, req[r].obj)
    /\ pc[r] = "invalid" => LiveDefinition(req[r].obj).status = "INVALID"

EvaluationsLive == \A r \in Readers : Current(r) => EvaluationLive(r)

CoherenceInv ==
    /\ VersionInv
    /\ ReferencesExist
    /\ TransactionsCover
    /\ DefinitionCacheCoherent
    /\ ScopeCacheCoherent
    /\ EvaluationsLive

\* A step that leaves the rules on an object, their cones and the assignments of
\* these cones alone leaves the policy of the object alone.
PolicyKept(o) ==
    /\ RulesOn(o)' = RulesOn(o)
    /\ \A r \in RulesOn(o) : rules'[r] = rules[r]
    /\ \A r \in RulesOn(o) : cones'[rules[r].cone] = cones[rules[r].cone]
    /\ \A r \in RulesOn(o), u \in Users, t \in Nat :
        rules[r].cone \in AssignedCones(u, t)' <=> rules[r].cone \in AssignedCones(u, t)

LEMMA KeptDefinition ==
    ASSUME NEW o \in Objects, PolicyKept(o)
    PROVE  /\ SelectedCones(o)' = SelectedCones(o)
           /\ LiveDefinition(o)' = LiveDefinition(o)
  <1>1. SelectedCones(o)' = SelectedCones(o)
    BY DEF PolicyKept, SelectedCones
  <1>2. EntriesOf(o, SelectedCones(o))' = EntriesOf(o, SelectedCones(o))
    BY <1>1 DEF PolicyKept, EntriesOf
  <1>3. QED
    BY <1>1, <1>2 DEF LiveDefinition, Compile

LEMMA EntriesOnRules ==
    ASSUME NEW o \in Objects, NEW e \in LiveDefinition(o).entries
    PROVE  \E r \in RulesOn(o) : e.cone = rules[r].cone
  BY DEF LiveDefinition, Compile, EntriesOf

LEMMA KeptScope ==
    ASSUME NEW o \in Objects, PolicyKept(o), NEW u \in Users, NEW t \in Nat
    PROVE  LiveScope(u, o, t)' = LiveScope(u, o, t)
  <1>1. \A e \in LiveDefinition(o).entries :
            e.cone \in AssignedCones(u, t)' <=> e.cone \in AssignedCones(u, t)
    BY EntriesOnRules DEF PolicyKept
  <1>2. QED
    BY <1>1, KeptDefinition DEF LiveScope, Applicable

\* What a committed transaction does not list, it does not change.
LEMMA CommitKeepsUnlisted ==
    ASSUME TypeInv, ReferencesExist, NEW a \in Admins, Commit(a), Covers(tx[a]),
           NEW o \in Objects, o \notin tx[a].objs
    PROVE  PolicyKept(o)
  <1> DEFINE t == tx[a]
  <1>1. t \in ConeTx \cup RuleTx \cup AssignTx \cup BootstrapTx
    BY DEF Commit, TypeInv, TypeOK
  <1>2. CASE CommitCone(t)
    <2>1. /\ t.id \in Cones /\ RowMatches(t.op, ConeExists(t.id))
          /\ cones' = [cones EXCEPT ![t.id] = t.row]
      BY <1>1, <1>2 DEF CommitCone, ConeTx, RuleTx, AssignTx, BootstrapTx
    <2>2. \A r \in RulesOn(o) : rules[r].cone # t.id
      BY <1>1, <1>2 DEF CommitCone, Covers, RulesOn
    <2>3. \A r \in Rules : \/ rules'[r] = rules[r]
                           \/ rules'[r] = None /\ rules[r].cone = t.id
      <3>1. CASE t.op = "delete"
        BY <1>2, <3>1 DEF CommitCone
      <3>2. CASE t.op # "delete"
        BY <1>2, <3>2 DEF CommitCone
      <3>3. QED
        BY <3>1, <3>2
    <2>4. RulesOn(o)' = RulesOn(o) /\ \A r \in RulesOn(o) : rules'[r] = rules[r]
      BY <2>2, <2>3 DEF RulesOn
    <2>5. \A r \in RulesOn(o) : cones'[rules[r].cone] = cones[rules[r].cone]
      BY <2>1, <2>2 DEF TypeInv, TypeOK, RulesOn, RuleRow
    <2>6. \A i \in Assigns :
            \/ assigns'[i] = assigns[i]
            \/ assigns[i] # None /\ assigns'[i] = None /\ assigns[i].cone = t.id
      <3>1. CASE t.op = "delete"
        BY <1>2, <3>1 DEF CommitCone
      <3>2. CASE t.op # "delete"
        BY <1>2, <3>2 DEF CommitCone
      <3>3. QED
        BY <3>1, <3>2
    <2>7. \A c \in Cones \ {t.id}, u \in Users, m \in Nat :
            c \in AssignedCones(u, m)' <=> c \in AssignedCones(u, m)
      BY <2>6 DEF AssignedCones
    <2>8. \A r \in RulesOn(o) : rules[r].cone \in Cones \ {t.id}
      BY <2>2 DEF RulesOn, TypeInv, TypeOK, RuleRow
    <2>9. QED
      BY <2>4, <2>5, <2>7, <2>8 DEF PolicyKept
  <1>3. CASE CommitRule(t)
    <2>1. t.id \in Rules /\ rules' = [rules EXCEPT ![t.id] = t.row]
      BY <1>1, <1>3 DEF CommitRule, ConeTx, RuleTx, AssignTx, BootstrapTx
    <2>2. t.row # None => t.row.obj # o
      BY <1>3 DEF CommitRule, Covers
    <2>3. rules[t.id] # None => rules[t.id].obj # o
      BY <1>3 DEF CommitRule, Covers
    <2>4. RulesOn(o)' = RulesOn(o) /\ \A r \in RulesOn(o) : rules'[r] = rules[r]
      BY <2>1, <2>2, <2>3 DEF RulesOn, TypeInv, TypeOK
    <2>5. QED
      BY <1>3, <2>4 DEF CommitRule, PolicyKept, AssignedCones
  <1>4. CASE CommitAssignment(t)
    <2>1. t.id \in Assigns /\ assigns' = [assigns EXCEPT ![t.id] = t.row]
      BY <1>1, <1>4 DEF CommitAssignment, ConeTx, RuleTx, AssignTx, BootstrapTx
    <2>2. \A r \in RulesOn(o) : /\ t.row # None => rules[r].cone # t.row.cone
                                /\ assigns[t.id] # None => rules[r].cone # assigns[t.id].cone
      BY <1>4 DEF CommitAssignment, Covers, RulesOn
    <2>3. ASSUME NEW r \in RulesOn(o), NEW u \in Users, NEW m \in Nat
          PROVE  rules[r].cone \in AssignedCones(u, m)' <=> rules[r].cone \in AssignedCones(u, m)
      <3>1. \A i \in Assigns \ {t.id} : assigns'[i] = assigns[i]
        BY <2>1 DEF TypeInv, TypeOK
      <3>2. assigns'[t.id] = t.row
        BY <2>1 DEF TypeInv, TypeOK
      <3>3. QED
        BY <2>2, <3>1, <3>2 DEF AssignedCones
    <2>4. QED
      BY <1>4, <2>3 DEF CommitAssignment, PolicyKept, RulesOn
  <1>5. CASE CommitBootstrap(t)
    <2>1. /\ t.id \in Rules /\ t.row \in RuleRow /\ t.row.obj # o
          /\ t.newRule => rules[t.id] = None
          /\ rules' = IF t.newRule THEN [rules EXCEPT ![t.id] = t.row] ELSE rules
          /\ cones' = IF t.newCone THEN [cones EXCEPT ![BootstrapCone] = "active"] ELSE cones
          /\ t.newCone => ~ConeExists(BootstrapCone)
      BY <1>1, <1>5 DEF CommitBootstrap, Covers, ConeTx, RuleTx, AssignTx, BootstrapTx
    <2>2. RulesOn(o)' = RulesOn(o) /\ \A r \in RulesOn(o) : rules'[r] = rules[r]
      <3>1. t.row # None
        BY <2>1, NoneAssumption
      <3>2. QED
        BY <2>1, <3>1 DEF RulesOn, TypeInv, TypeOK
    <2>3. \A r \in RulesOn(o) : ConeExists(rules[r].cone)
      BY DEF RulesOn, ReferencesExist
    <2>4. \A r \in RulesOn(o) : cones'[rules[r].cone] = cones[rules[r].cone]
      BY <2>1, <2>3 DEF RulesOn, TypeInv, TypeOK, RuleRow
    <2>5. QED
      BY <1>5, <2>2, <2>4 DEF CommitBootstrap, PolicyKept, AssignedCones
  <1>6. QED
    BY <1>2, <1>3, <1>4, <1>5 DEF Commit

LEMMA CommitReferences ==
    ASSUME TypeInv, ReferencesExist, NEW a \in Admins, Commit(a)
    PROVE  ReferencesExist'
  <1> DEFINE t == tx[a]
  <1>1. t \in ConeTx \cup RuleTx \cup AssignTx \cup BootstrapTx
    BY DEF Commit, TypeInv, TypeOK
  <1>2. CASE CommitCone(t)
    <2>1. t.id \in Cones /\ cones' = [cones EXCEPT ![t.id] = t.row]
      BY <1>1, <1>2 DEF CommitCone, ConeTx, RuleTx, AssignTx, BootstrapTx
    <2>2. CASE t.op = "delete"
      BY <1>2, <2>1, <2>2 DEF CommitCone, ReferencesExist, ConeExists, TypeInv, TypeOK, RuleRow, AssignRow
    <2>3. CASE t.op # "delete"
      <3>1. t.row # "absent"
        BY <1>1, <1>2, <2>3 DEF CommitCone, ConeTx, RuleTx, AssignTx, BootstrapTx
      <3>2. UNCHANGED <<rules, assigns>>
        BY <1>2, <2>3 DEF CommitCone
      <3>3. QED
        BY <2>1, <3>1, <3>2 DEF ReferencesExist, ConeExists, TypeInv, TypeOK
    <2>4. QED
      BY <2>2, <2>3
  <1>3. CASE CommitRule(t)
    BY <1>1, <1>3 DEF CommitRule, ReferencesExist, ConeExists, TypeInv, TypeOK
  <1>4. CASE CommitAssignment(t)
    BY <1>1, <1>4 DEF CommitAssignment, ReferencesExist, ConeExists, TypeInv, TypeOK
  <1>5. CASE CommitBootstrap(t)
    <2>1. t.id \in Rules /\ t.row \in RuleRow /\ t.row.cone = BootstrapCone
      BY <1>1, <1>5 DEF CommitBootstrap, ConeTx, RuleTx, AssignTx, BootstrapTx
    <2>2. cones' = [cones EXCEPT ![BootstrapCone] = "active"] \/ cones' = cones
      BY <1>5 DEF CommitBootstrap
    <2>3. cones'[BootstrapCone] # "absent"
      BY <1>5, PolicyAssumption DEF CommitBootstrap, ConeExists, TypeInv, TypeOK
    <2>4. \A c \in Cones : cones[c] # "absent" => cones'[c] # "absent"
      BY <2>2 DEF TypeInv, TypeOK
    <2>5. \A r \in Rules : rules'[r] = rules[r] \/ rules'[r] = t.row
      BY <1>5, <2>1 DEF CommitBootstrap, TypeInv, TypeOK
    <2>6. QED
      BY <1>5, <2>1, <2>3, <2>4, <2>5
      DEF CommitBootstrap, ReferencesExist, ConeExists, TypeInv, TypeOK, RuleRow, AssignRow
  <1>6. QED
    BY <1>2, <1>3, <1>4, <1>5 DEF Commit

LEMMA InitCoherence == Init => CoherenceInv
  <1> SUFFICES ASSUME Init PROVE CoherenceInv
    OBVIOUS
  <1>1. VersionInv
    BY InitVersionInv
  <1>2. ReferencesExist
    BY PolicyAssumption DEF Init, ReferencesExist, ConeExists
  <1>3. TransactionsCover
    BY DEF Init, TransactionsCover
  <1>4. \A o \in Objects : objVersion[o] \in Versions
    BY <1>1 DEF VersionInv, TypeInv, TypeOK
  <1>5. DefinitionCacheCoherent
    BY <1>4 DEF Init, DefinitionCacheCoherent
  <1>6. ScopeCacheCoherent
    BY <1>4 DEF Init, ScopeCacheCoherent
  <1>7. EvaluationsLive
    BY DEF Init, EvaluationsLive, Current
  <1>8. QED
    BY <1>1, <1>2, <1>3, <1>5, <1>6, <1>7 DEF CoherenceInv

LEMMA OpenCovers ==
    ASSUME TypeInv, SerialAdmins, NEW a \in Admins, NEW t, Open(a, t), Covers(t)
    PROVE  TransactionsCover'
  <1>1. Covers(t)'
    BY DEF Open, Covers
  <1>2. \A b \in Admins : b = a
    BY DEF SerialAdmins
  <1>3. tx'[a] = t
    BY DEF Open, TypeInv, TypeOK
  <1>4. QED
    BY <1>1, <1>2, <1>3 DEF TransactionsCover

LEMMA CommitCoherence ==
    ASSUME CoherenceInv, SerialAdmins, NEW a \in Admins, Commit(a)
    PROVE  /\ ReferencesExist'
           /\ TransactionsCover'
           /\ DefinitionCacheCoherent'
           /\ ScopeCacheCoherent'
           /\ EvaluationsLive'
  <1> DEFINE objs == tx[a].objs
  <1>1. TypeInv /\ ReferencesExist /\ Covers(tx[a])
    BY DEF CoherenceInv, VersionInv, TransactionsCover, Commit
  <1>2. Bump(objs) /\ UNCHANGED <<pc, req, sel, def, scope, now>>
    BY DEF Commit
  <1>3. TypeInv'
    BY <1>1, CommitTypeInv
  <1>4. \A o \in Objects \ objs : PolicyKept(o)
    BY <1>1, CommitKeepsUnlisted
  <1>5. \A o \in Objects : /\ objVersion[o] \in Versions /\ objVersion'[o] \in Versions
                           /\ o \in objs => objVersion'[o] = objVersion[o] + 1
                           /\ o \notin objs => objVersion'[o] = objVersion[o]
    BY <1>1, <1>2, <1>3 DEF Bump, TypeInv, TypeOK, Versions
  <1>6. ReferencesExist'
    BY <1>1, CommitReferences
  <1>7. TransactionsCover'
    <2>1. tx'[a] = None /\ \A b \in Admins : b = a
      BY <1>1 DEF Commit, TypeInv, TypeOK, SerialAdmins
    <2>2. QED
      BY <2>1 DEF TransactionsCover
  <1>8. DefinitionCacheCoherent'
    <2> SUFFICES ASSUME NEW o \in Objects, defCache'[<<o, objVersion'[o]>>] # None
                 PROVE  defCache'[<<o, objVersion'[o]>>] = LiveDefinition(o)'
      BY DEF DefinitionCacheCoherent
    <2>1. o \notin objs /\ defCache'[<<o, objVersion'[o]>>] = defCache[<<o, objVersion'[o]>>]
      BY <1>2, <1>5 DEF Bump
    <2>2. LiveDefinition(o)' = LiveDefinition(o)
      BY <1>4, <2>1, KeptDefinition
    <2>3. QED
      BY <1>5, <2>1, <2>2 DEF CoherenceInv, DefinitionCacheCoherent
  <1>9. \A o \in Objects \ objs, u \in Users : \A es : ScopeIsLive(es, u, o) => ScopeIsLive(es, u, o)'
    <2> SUFFICES ASSUME NEW o \in Objects \ objs, NEW u \in Users, NEW es, ScopeIsLive(es, u, o)
                 PROVE  ScopeIsLive(es, u, o)'
      OBVIOUS
    <2>1. PICK t \in 0 .. now : es = LiveScope(u, o, t)
      BY DEF ScopeIsLive
    <2>2. t \in Nat
      BY <1>1 DEF TypeInv, TypeOK, Times
    <2>3. LiveScope(u, o, t)' = LiveScope(u, o, t) /\ LiveDefinition(o)' = LiveDefinition(o)
      BY <1>4, <2>2, KeptScope, KeptDefinition
    <2>4. QED
      BY <1>2, <2>1, <2>3 DEF ScopeIsLive
  <1>10. ScopeCacheCoherent'
    <2>1. ASSUME NEW u \in Users, NEW o \in Objects, NEW kept,
                 kept = scopeCache'[<<u, o, objVersion'[o]>>], kept # None
          PROVE  ScopeIsLive(kept.entries, u, o)'
      <3>1. o \notin objs /\ kept = scopeCache[<<u, o, objVersion'[o]>>]
        BY <1>2, <1>5, <2>1 DEF Bump
      <3>2. ScopeIsLive(kept.entries, u, o)
        BY <1>5, <2>1, <3>1 DEF CoherenceInv, ScopeCacheCoherent, ScopeIsLive
      <3>3. QED
        BY <1>9, <3>1, <3>2
    <2>2. QED
      BY <2>1 DEF ScopeCacheCoherent, ScopeIsLive
  <1>11. EvaluationsLive'
    <2> SUFFICES ASSUME NEW r \in Readers, Current(r)'
                 PROVE  EvaluationLive(r)'
      BY DEF EvaluationsLive
    <2>1. /\ pc[r] # "idle" /\ req[r] \in Request
          /\ req[r].ver = objVersion'[req[r].obj] /\ req[r].ver <= objVersion[req[r].obj]
      BY <1>1, <1>2, KeyTypes DEF Current, CoherenceInv, VersionInv, RequestsBehind
    <2>2. req[r].obj \in Objects \ objs /\ req[r].user \in Users
      BY <1>5, <2>1 DEF Request, Versions
    <2>3. EvaluationLive(r)
      BY <1>5, <2>1, <2>2 DEF Current, CoherenceInv, EvaluationsLive
    <2>4. /\ SelectedCones(req[r].obj)' = SelectedCones(req[r].obj)
          /\ LiveDefinition(req[r].obj)' = LiveDefinition(req[r].obj)
      BY <1>2, <1>4, <2>2, KeptDefinition
    <2>5. ScopeIsLive(scope[r], req[r].user, req[r].obj) =>
            ScopeIsLive(scope[r], req[r].user, req[r].obj)'
      BY <1>2, <1>9, <2>2
    <2>6. QED
      BY <1>2, <2>3, <2>4, <2>5 DEF EvaluationLive
  <1>12. QED
    BY <1>6, <1>7, <1>8, <1>10, <1>11

LEMMA AdministerCoherence ==
    ASSUME CoherenceInv, SerialAdmins, NEW a \in Admins, Administer(a)
    PROVE  /\ ReferencesExist'
           /\ TransactionsCover'
           /\ DefinitionCacheCoherent'
           /\ ScopeCacheCoherent'
           /\ EvaluationsLive'
  <1> DEFINE Goal == /\ ReferencesExist'
                     /\ TransactionsCover'
                     /\ DefinitionCacheCoherent'
                     /\ ScopeCacheCoherent'
                     /\ EvaluationsLive'
  <1>1. TypeInv
    BY DEF CoherenceInv, VersionInv
  <1>2. ASSUME UNCHANGED <<policy, versions, caches, locals, now>>
        PROVE  ReferencesExist' /\ DefinitionCacheCoherent' /\ ScopeCacheCoherent'
               /\ EvaluationsLive'
    <2>1. ReferencesExist' <=> ReferencesExist
      BY <1>2 DEF ReferencesExist, ConeExists
    <2>2. \A o : /\ SelectedCones(o)' = SelectedCones(o)
                 /\ LiveDefinition(o)' = LiveDefinition(o)
      BY <1>2 DEF SelectedCones, LiveDefinition, EntriesOf, RulesOn
    <2>3. \A u, o, t : LiveScope(u, o, t)' = LiveScope(u, o, t)
      BY <1>2, <2>2 DEF LiveScope, AssignedCones
    <2>4. DefinitionCacheCoherent' /\ ScopeCacheCoherent'
      BY <1>2, <2>2, <2>3 DEF CoherenceInv, DefinitionCacheCoherent, ScopeCacheCoherent
    <2>5. EvaluationsLive'
      BY <1>2, <2>2, <2>3 DEF CoherenceInv, EvaluationsLive, Current, EvaluationLive, ScopeIsLive
    <2>6. QED
      BY <2>1, <2>4, <2>5 DEF CoherenceInv
  <1>3. ASSUME NEW t, Open(a, t), Covers(t) PROVE Goal
    BY <1>1, <1>2, <1>3, OpenCovers DEF Open
  <1>4. \A c : \A r \in Rules : rules[r] # None /\ rules[r].cone = c => rules[r].obj \in ObjectsOfCone(c)
    BY <1>1 DEF ObjectsOfCone, TypeInv, TypeOK, RuleRow
  <1>5. ASSUME NEW c \in Cones, NEW state \in {"active", "inactive"}, CreateCone(a, c, state)
        PROVE  Goal
    <2>1. Covers([table |-> "cone", op |-> "create", id |-> c, row |-> state, objs |-> {}])
      BY <1>5 DEF CreateCone, Covers, CoherenceInv, ReferencesExist
    <2>2. QED
      BY <1>3, <1>5, <2>1 DEF CreateCone
  <1>6. ASSUME NEW c \in Cones, NEW state \in {"active", "inactive"}, UpdateCone(a, c, state)
        PROVE  Goal
    <2>1. Covers([table |-> "cone", op |-> "update", id |-> c, row |-> state,
                  objs |-> ObjectsOfCone(c)])
      BY <1>4 DEF Covers
    <2>2. QED
      BY <1>3, <1>6, <2>1 DEF UpdateCone
  <1>7. ASSUME NEW c \in Cones, DeleteCone(a, c)
        PROVE  Goal
    <2>1. Covers([table |-> "cone", op |-> "delete", id |-> c, row |-> "absent",
                  objs |-> ObjectsOfCone(c)])
      BY <1>4 DEF Covers
    <2>2. QED
      BY <1>3, <1>7, <2>1 DEF DeleteCone
  <1>8. ASSUME NEW r \in Rules, NEW x \in RuleInputs, CreateRule(a, r, x)
        PROVE  Goal
    <2>1. Covers([table |-> "rule", op |-> "create", id |-> r, row |-> x, objs |-> {x.obj}])
      BY <1>8 DEF CreateRule, Covers
    <2>2. QED
      BY <1>3, <1>8, <2>1 DEF CreateRule
  <1>9. ASSUME NEW r \in Rules, NEW x \in RuleInputs, UpdateRule(a, r, x)
        PROVE  Goal
    <2>1. Covers([table |-> "rule", op |-> "update", id |-> r, row |-> x,
                  objs |-> {rules[r].obj, x.obj}])
      BY DEF Covers
    <2>2. QED
      BY <1>3, <1>9, <2>1 DEF UpdateRule
  <1>10. ASSUME NEW r \in Rules, DeleteRule(a, r)
         PROVE  Goal
    <2>1. Covers([table |-> "rule", op |-> "delete", id |-> r, row |-> None,
                  objs |-> {rules[r].obj}])
      BY DEF Covers
    <2>2. QED
      BY <1>3, <1>10, <2>1 DEF DeleteRule
  <1>11. ASSUME NEW r \in Rules, NEW o \in Objects, EnsureBootstrap(a, r, o)
         PROVE  Goal
    <2>1. \A newCone, newRule :
            Covers([table |-> "bootstrap", newCone |-> newCone, newRule |-> newRule, id |-> r,
                    row |-> [cone |-> BootstrapCone, obj |-> o, active |-> TRUE,
                             body |-> BootstrapBody],
                    objs |-> {o}])
      BY DEF Covers
    <2>2. QED
      BY <1>3, <1>11, <2>1 DEF EnsureBootstrap
  <1>12. ASSUME NEW i \in Assigns, NEW x \in AssignInputs, CreateAssignment(a, i, x)
         PROVE  Goal
    <2>1. Covers([table |-> "assign", op |-> "create", id |-> i, row |-> x,
                  objs |-> ObjectsOfCone(x.cone)])
      BY <1>4, <1>12 DEF CreateAssignment, Covers
    <2>2. QED
      BY <1>3, <1>12, <2>1 DEF CreateAssignment
  <1>13. ASSUME NEW i \in Assigns, NEW x \in AssignInputs, UpdateAssignment(a, i, x)
         PROVE  Goal
    <2>1. Covers([table |-> "assign", op |-> "update", id |-> i, row |-> x,
                  objs |-> ObjectsOfCone(assigns[i].cone) \cup ObjectsOfCone(x.cone)])
      BY <1>4 DEF Covers
    <2>2. QED
      BY <1>3, <1>13, <2>1 DEF UpdateAssignment
  <1>14. ASSUME NEW i \in Assigns, DeleteAssignment(a, i)
         PROVE  Goal
    <2>1. Covers([table |-> "assign", op |-> "delete", id |-> i, row |-> None,
                  objs |-> ObjectsOfCone(assigns[i].cone)])
      BY <1>4 DEF Covers
    <2>2. QED
      BY <1>3, <1>14, <2>1 DEF DeleteAssignment
  <1>15. CASE Commit(a)
    BY <1>15, CommitCoherence
  <1>16. CASE Rollback(a)
    <2>1. TransactionsCover'
      BY <1>1, <1>16 DEF Rollback, TransactionsCover, SerialAdmins, TypeInv, TypeOK
    <2>2. QED
      BY <1>2, <1>16, <2>1 DEF Rollback
  <1>17. QED
    BY <1>5, <1>6, <1>7, <1>8, <1>9, <1>10, <1>11, <1>12, <1>13, <1>14, <1>15, <1>16
    DEF Administer

\* A step of an evaluation changes neither the policy nor a version.
LEMMA SamePolicy ==
    ASSUME UNCHANGED <<policy, versions, now>>
    PROVE  /\ ReferencesExist' <=> ReferencesExist
           /\ \A o : /\ SelectedCones(o)' = SelectedCones(o)
                     /\ LiveDefinition(o)' = LiveDefinition(o)
           /\ \A u, t : AssignedCones(u, t)' = AssignedCones(u, t)
           /\ \A es, u, o : ScopeIsLive(es, u, o)' <=> ScopeIsLive(es, u, o)
  <1>1. ReferencesExist' <=> ReferencesExist
    BY DEF ReferencesExist, ConeExists
  <1>2. \A o : SelectedCones(o)' = SelectedCones(o) /\ LiveDefinition(o)' = LiveDefinition(o)
    BY DEF SelectedCones, LiveDefinition, EntriesOf, RulesOn
  <1>3. \A u, t : AssignedCones(u, t)' = AssignedCones(u, t)
    BY DEF AssignedCones
  <1>4. \A es, u, o : ScopeIsLive(es, u, o)' <=> ScopeIsLive(es, u, o)
    BY <1>2, <1>3 DEF ScopeIsLive, LiveScope
  <1>5. QED
    BY <1>1, <1>2, <1>3, <1>4

\* So it is enough to look at its own evaluation and at the row it stores.
LEMMA OneEvaluation ==
    ASSUME CoherenceInv, NEW r \in Readers,
           UNCHANGED <<policy, versions, tx, now>>,
           \A q \in Readers \ {r} : /\ pc'[q] = pc[q] /\ req'[q] = req[q] /\ sel'[q] = sel[q]
                                    /\ def'[q] = def[q] /\ scope'[q] = scope[q],
           Current(r)' => EvaluationLive(r)',
           \/ defCache' = defCache
           \/ /\ req[r] \in Request
              /\ defCache' = [defCache EXCEPT ![DefKey(r)] = def[r]]
              /\ Current(r) => def[r] = LiveDefinition(req[r].obj),
           \/ scopeCache' = scopeCache
           \/ \E n \in Nat :
              /\ req[r] \in Request
              /\ scopeCache' = [scopeCache EXCEPT ![ScopeKey(r)] =
                                    [entries |-> scope[r], expires |-> n]]
              /\ Current(r) => ScopeIsLive(scope[r], req[r].user, req[r].obj),
           pc[r] # "idle" \/ (defCache' = defCache /\ scopeCache' = scopeCache)
    PROVE  /\ ReferencesExist'
           /\ TransactionsCover'
           /\ DefinitionCacheCoherent'
           /\ ScopeCacheCoherent'
           /\ EvaluationsLive'
  <1>1. ReferencesExist'
    BY SamePolicy DEF CoherenceInv
  <1>2. TransactionsCover'
    BY DEF CoherenceInv, TransactionsCover, Covers
  <1>3. EvaluationsLive'
    <2>1. ASSUME NEW q \in Readers \ {r}, Current(q)' PROVE EvaluationLive(q)'
      <3>1. Current(q)
        BY <2>1 DEF Current
      <3>2. EvaluationLive(q)
        BY <3>1 DEF CoherenceInv, EvaluationsLive
      <3>3. QED
        BY <3>2, SamePolicy DEF EvaluationLive
    <2>2. QED
      BY <2>1 DEF EvaluationsLive
  <1>4. DefinitionCacheCoherent'
    <2> SUFFICES ASSUME NEW o \in Objects, defCache'[<<o, objVersion[o]>>] # None
                 PROVE  defCache'[<<o, objVersion[o]>>] = LiveDefinition(o)
      BY SamePolicy DEF DefinitionCacheCoherent
    <2>1. <<o, objVersion[o]>> \in Objects \X Versions
      BY DEF CoherenceInv, VersionInv, TypeInv, TypeOK
    <2>2. CASE defCache'[<<o, objVersion[o]>>] = defCache[<<o, objVersion[o]>>]
      BY <2>2 DEF CoherenceInv, DefinitionCacheCoherent
    <2>3. CASE defCache'[<<o, objVersion[o]>>] # defCache[<<o, objVersion[o]>>]
      <3>1. /\ pc[r] # "idle"
            /\ defCache' = [defCache EXCEPT ![DefKey(r)] = def[r]]
            /\ Current(r) => def[r] = LiveDefinition(req[r].obj)
        BY <2>3
      <3>2. DefKey(r) = <<o, objVersion[o]>> /\ defCache'[<<o, objVersion[o]>>] = def[r]
        BY <2>1, <2>3, <3>1 DEF CoherenceInv, VersionInv, TypeInv, TypeOK
      <3>3. req[r].obj = o /\ Current(r)
        BY <3>1, <3>2 DEF DefKey, Current
      <3>4. QED
        BY <3>1, <3>2, <3>3
    <2>4. QED
      BY <2>2, <2>3
  <1>5. ScopeCacheCoherent'
    <2> SUFFICES ASSUME NEW u \in Users, NEW o \in Objects,
                        scopeCache'[<<u, o, objVersion[o]>>] # None
                 PROVE  ScopeIsLive(scopeCache'[<<u, o, objVersion[o]>>].entries, u, o)
      BY SamePolicy DEF ScopeCacheCoherent, ScopeIsLive
    <2>1. <<u, o, objVersion[o]>> \in Users \X Objects \X Versions
      BY DEF CoherenceInv, VersionInv, TypeInv, TypeOK
    <2>2. CASE scopeCache'[<<u, o, objVersion[o]>>] = scopeCache[<<u, o, objVersion[o]>>]
      BY <2>2 DEF CoherenceInv, ScopeCacheCoherent, ScopeIsLive
    <2>3. CASE scopeCache'[<<u, o, objVersion[o]>>] # scopeCache[<<u, o, objVersion[o]>>]
      <3>1. PICK n \in Nat :
              /\ scopeCache' = [scopeCache EXCEPT ![ScopeKey(r)] =
                                    [entries |-> scope[r], expires |-> n]]
              /\ Current(r) => ScopeIsLive(scope[r], req[r].user, req[r].obj)
        BY <2>3
      <3>2. pc[r] # "idle"
        BY <2>3
      <3>3. /\ ScopeKey(r) = <<u, o, objVersion[o]>>
            /\ scopeCache'[<<u, o, objVersion[o]>>] = [entries |-> scope[r], expires |-> n]
        BY <2>1, <2>3, <3>1 DEF CoherenceInv, VersionInv, TypeInv, TypeOK
      <3>4. req[r].user = u /\ req[r].obj = o /\ Current(r)
        BY <3>2, <3>3 DEF ScopeKey, Current
      <3>5. QED
        BY <3>1, <3>3, <3>4
    <2>4. QED
      BY <2>2, <2>3
  <1>6. QED
    BY <1>1, <1>2, <1>3, <1>4, <1>5

LEMMA EvaluateCoherence ==
    ASSUME CoherenceInv, NEW r \in Readers, Evaluate(r)
    PROVE  /\ ReferencesExist'
           /\ TransactionsCover'
           /\ DefinitionCacheCoherent'
           /\ ScopeCacheCoherent'
           /\ EvaluationsLive'
  <1> DEFINE Goal == /\ ReferencesExist'
                     /\ TransactionsCover'
                     /\ DefinitionCacheCoherent'
                     /\ ScopeCacheCoherent'
                     /\ EvaluationsLive'
             o == req[r].obj
  <1>1. TypeInv /\ (Current(r) => EvaluationLive(r))
    BY DEF CoherenceInv, VersionInv, EvaluationsLive
  <1>2. pc[r] # "idle" => req[r] \in Request /\ o \in Objects
    BY <1>1, KeyTypes DEF Request
  <1>3. ASSUME pc[r] # "idle", UNCHANGED <<policy, versions, tx, req, now>>,
               NEW d, d \in Definition, UseDefinition(r, d),
               Current(r) => d = LiveDefinition(o)
        PROVE  Current(r)' => EvaluationLive(r)'
    <2> SUFFICES ASSUME Current(r)' PROVE EvaluationLive(r)'
      OBVIOUS
    <2>1. d = LiveDefinition(o)
      BY <1>3 DEF Current
    <2>2. def'[r] = LiveDefinition(o)'
      BY <1>1, <1>3, <2>1, SamePolicy DEF UseDefinition, TypeInv, TypeOK
    <2>3. \/ pc'[r] = "invalid" /\ d.status = "INVALID"
          \/ pc'[r] \in {"scope", "assign"} /\ d.status = "READY"
      <3>1. d.status \in {"READY", "INVALID"} /\ req[r].skip \in BOOLEAN
        BY <1>2, <1>3 DEF Definition, Request
      <3>2. QED
        BY <1>1, <1>3, <3>1 DEF UseDefinition, Goto, TypeInv, TypeOK
    <2>4. def'[r] = d /\ LiveDefinition(req[r].obj)' = d
      BY <1>1, <1>3, <2>1, <2>2 DEF UseDefinition, TypeInv, TypeOK
    <2>5. QED
      BY <2>3, <2>4 DEF EvaluationLive
  <1>4. ASSUME NEW u \in Users, NEW ob \in Objects, NEW skip \in SkipModes,
               BeginEvaluate(r, u, ob, skip)
        PROVE  Goal
    <2>1. pc'[r] \in {"cones", "definition"}
      BY <1>1, <1>4 DEF BeginEvaluate, Goto, TypeInv, TypeOK
    <2>2. EvaluationLive(r)'
      BY <2>1 DEF EvaluationLive
    <2>3. \A q \in Readers \ {r} : pc'[q] = pc[q] /\ req'[q] = req[q]
      BY <1>1, <1>4 DEF BeginEvaluate, Goto, TypeInv, TypeOK
    <2>4. QED
      BY <1>4, <2>2, <2>3, OneEvaluation DEF BeginEvaluate
  <1>5. CASE LookupDefinition(r)
    <2>1. pc[r] = "definition" /\ UNCHANGED <<policy, versions, caches, tx, req, sel, scope, now>>
      BY <1>5 DEF LookupDefinition
    <2>2. \A q \in Readers \ {r} : pc'[q] = pc[q] /\ def'[q] = def[q]
      BY <1>1, <1>5 DEF LookupDefinition, UseDefinition, Goto, TypeInv, TypeOK
    <2>3. CASE defCache[DefKey(r)] = None
      <3>1. pc'[r] = "cones"
        BY <1>1, <1>5, <2>3 DEF LookupDefinition, Goto, TypeInv, TypeOK
      <3>2. EvaluationLive(r)'
        BY <3>1 DEF EvaluationLive
      <3>3. QED
        BY <2>1, <2>2, <3>2, OneEvaluation
    <2>4. CASE defCache[DefKey(r)] # None
      <3>1. UseDefinition(r, defCache[DefKey(r)])
        BY <1>5, <2>4 DEF LookupDefinition
      <3>2. defCache[DefKey(r)] \in Definition
        BY <1>1, <2>1, <2>4, KeyTypes DEF TypeInv, TypeOK
      <3>3. Current(r) => defCache[DefKey(r)] = LiveDefinition(o)
        BY <1>2, <2>1, <2>4 DEF Current, DefKey, CoherenceInv, DefinitionCacheCoherent
      <3>4. Current(r)' => EvaluationLive(r)'
        BY <1>3, <2>1, <3>1, <3>2, <3>3
      <3>5. QED
        BY <2>1, <2>2, <3>4, OneEvaluation
    <2>5. QED
      BY <2>3, <2>4
  <1>6. CASE SelectCones(r)
    <2>1. pc'[r] = "rules" /\ sel'[r] = SelectedCones(o)
      BY <1>1, <1>6 DEF SelectCones, Goto, TypeInv, TypeOK
    <2>2. EvaluationLive(r)'
      BY <1>6, <2>1, SamePolicy DEF SelectCones, EvaluationLive
    <2>3. \A q \in Readers \ {r} : pc'[q] = pc[q] /\ sel'[q] = sel[q]
      BY <1>1, <1>6 DEF SelectCones, Goto, TypeInv, TypeOK
    <2>4. QED
      BY <1>6, <2>2, <2>3, OneEvaluation DEF SelectCones
  <1>7. CASE BuildDefinition(r)
    <2> DEFINE d == Compile(EntriesOf(o, sel[r]))
    <2>1. pc[r] = "rules" /\ UNCHANGED <<policy, versions, caches, tx, req, scope, now>>
      BY <1>7 DEF BuildDefinition
    <2>2. Current(r) => d = LiveDefinition(o)
      BY <1>1, <2>1 DEF EvaluationLive, LiveDefinition
    <2>3. d \in Definition
      BY <1>1, EntriesOfType, CompileType
    <2>4. \A q \in Readers \ {r} : pc'[q] = pc[q] /\ def'[q] = def[q] /\ sel'[q] = sel[q]
      BY <1>1, <1>7 DEF BuildDefinition, UseDefinition, Goto, TypeInv, TypeOK
    <2>5. Current(r)' => EvaluationLive(r)'
      <3>1. CASE req[r].skip
        <4>1. UseDefinition(r, d)
          BY <1>7, <3>1 DEF BuildDefinition
        <4>2. QED
          BY <1>3, <2>1, <2>2, <2>3, <4>1
      <3>2. CASE ~req[r].skip
        <4>1. pc'[r] = "persist" /\ def'[r] = d
          BY <1>1, <1>7, <3>2 DEF BuildDefinition, Goto, TypeInv, TypeOK
        <4>2. Current(r)' => def'[r] = LiveDefinition(o)'
          BY <2>1, <2>2, <4>1, SamePolicy DEF Current
        <4>3. QED
          BY <2>1, <4>1, <4>2 DEF EvaluationLive
      <3>3. QED
        BY <3>1, <3>2
    <2>6. QED
      BY <2>1, <2>4, <2>5, OneEvaluation
  <1>8. CASE PersistDefinition(r)
    <2>1. pc[r] = "persist" /\ UNCHANGED <<policy, versions, scopeCache, tx, req, sel, scope, now>>
      BY <1>8 DEF PersistDefinition
    <2>2. \A q \in Readers \ {r} : pc'[q] = pc[q] /\ def'[q] = def[q]
      BY <1>1, <1>8 DEF PersistDefinition, UseDefinition, Goto, TypeInv, TypeOK
    <2>3. CASE defCache[DefKey(r)] = None
      <3>1. /\ defCache' = [defCache EXCEPT ![DefKey(r)] = def[r]]
            /\ UseDefinition(r, def[r])
        BY <1>8, <2>3 DEF PersistDefinition
      <3>2. Current(r) => def[r] = LiveDefinition(o)
        BY <1>1, <2>1 DEF EvaluationLive
      <3>3. def[r] \in Definition
        BY <1>1 DEF TypeInv, TypeOK
      <3>4. Current(r)' => EvaluationLive(r)'
        BY <1>3, <2>1, <3>1, <3>2, <3>3
      <3>5. QED
        BY <1>2, <2>1, <2>2, <3>1, <3>2, <3>4, OneEvaluation
    <2>4. CASE defCache[DefKey(r)] # None
      <3>1. pc'[r] = "reread" /\ UNCHANGED <<defCache, def>>
        BY <1>1, <1>8, <2>4 DEF PersistDefinition, Goto, TypeInv, TypeOK
      <3>2. EvaluationLive(r)'
        BY <3>1 DEF EvaluationLive
      <3>3. QED
        BY <2>1, <2>2, <3>1, <3>2, OneEvaluation
    <2>5. QED
      BY <2>3, <2>4
  <1>9. CASE RereadDefinition(r)
    <2>1. pc[r] = "reread" /\ UNCHANGED <<policy, versions, caches, tx, req, sel, scope, now>>
      BY <1>9 DEF RereadDefinition
    <2>2. \A q \in Readers \ {r} : pc'[q] = pc[q] /\ def'[q] = def[q]
      BY <1>1, <1>9 DEF RereadDefinition, UseDefinition, Goto, TypeInv, TypeOK
    <2>3. CASE defCache[DefKey(r)] = None
      <3>1. pc'[r] = "failed"
        BY <1>1, <1>9, <2>3 DEF RereadDefinition, Goto, TypeInv, TypeOK
      <3>2. EvaluationLive(r)'
        BY <3>1 DEF EvaluationLive
      <3>3. QED
        BY <2>1, <2>2, <3>2, OneEvaluation
    <2>4. CASE defCache[DefKey(r)] # None
      <3>1. UseDefinition(r, defCache[DefKey(r)])
        BY <1>9, <2>4 DEF RereadDefinition
      <3>2. defCache[DefKey(r)] \in Definition
        BY <1>1, <2>1, <2>4, KeyTypes DEF TypeInv, TypeOK
      <3>3. Current(r) => defCache[DefKey(r)] = LiveDefinition(o)
        BY <1>2, <2>1, <2>4 DEF Current, DefKey, CoherenceInv, DefinitionCacheCoherent
      <3>4. Current(r)' => EvaluationLive(r)'
        BY <1>3, <2>1, <3>1, <3>2, <3>3
      <3>5. QED
        BY <2>1, <2>2, <3>4, OneEvaluation
    <2>5. QED
      BY <2>3, <2>4
  <1>10. CASE LookupScope(r)
    <2> DEFINE kept == scopeCache[ScopeKey(r)]
    <2>1. pc[r] = "scope" /\ UNCHANGED <<policy, versions, caches, tx, req, sel, def, now>>
      BY <1>10 DEF LookupScope
    <2>2. \A q \in Readers \ {r} : pc'[q] = pc[q] /\ scope'[q] = scope[q]
      BY <1>1, <1>10 DEF LookupScope, Goto, TypeInv, TypeOK
    <2>3. CASE kept # None /\ kept.expires > now
      <3>1. pc'[r] = "served" /\ scope'[r] = kept.entries
        BY <1>1, <1>10, <2>3 DEF LookupScope, Goto, TypeInv, TypeOK
      <3>2. Current(r) => ScopeIsLive(kept.entries, req[r].user, o)
        <4>1. req[r].user \in Users /\ o \in Objects
          BY <1>2, <2>1 DEF Request
        <4>2. Current(r) => kept = scopeCache[<<req[r].user, o, objVersion[o]>>]
          BY DEF Current, ScopeKey
        <4>3. QED
          BY <2>3, <4>1, <4>2 DEF CoherenceInv, ScopeCacheCoherent, ScopeIsLive
      <3>3. Current(r)' => ScopeIsLive(scope[r], req[r].user, o)'
        BY <2>1, <3>1, <3>2, SamePolicy DEF Current
      <3>4. Current(r)' => EvaluationLive(r)'
        BY <2>1, <3>1, <3>3 DEF EvaluationLive
      <3>5. QED
        BY <2>1, <2>2, <3>4, OneEvaluation
    <2>4. CASE ~(kept # None /\ kept.expires > now)
      <3>1. pc'[r] = "assign"
        BY <1>1, <1>10, <2>4 DEF LookupScope, Goto, TypeInv, TypeOK
      <3>2. Current(r)' => def'[r] = LiveDefinition(o)' /\ def'[r].status = "READY"
        BY <1>1, <2>1, SamePolicy DEF Current, EvaluationLive
      <3>3. Current(r)' => EvaluationLive(r)'
        BY <2>1, <3>1, <3>2 DEF EvaluationLive
      <3>4. QED
        BY <2>1, <2>2, <3>3, OneEvaluation
    <2>5. QED
      BY <2>3, <2>4
  <1>11. CASE FindAssignments(r)
    <2>1. pc[r] = "assign" /\ UNCHANGED <<policy, versions, caches, tx, req, sel, def, now>>
      BY <1>11 DEF FindAssignments
    <2>2. /\ \A q \in Readers \ {r} : pc'[q] = pc[q] /\ scope'[q] = scope[q]
          /\ pc'[r] \in {"served", "store"}
          /\ scope'[r] = Applicable(def[r].entries, AssignedCones(req[r].user, now))
      BY <1>1, <1>11 DEF FindAssignments, Goto, TypeInv, TypeOK
    <2>3. Current(r) => ScopeIsLive(scope'[r], req[r].user, o)
      <3>1. Current(r) => def[r] = LiveDefinition(o) /\ def[r].status = "READY"
        BY <1>1, <2>1 DEF EvaluationLive
      <3>2. now \in 0 .. now
        BY <1>1 DEF TypeInv, TypeOK, Times
      <3>3. QED
        BY <2>2, <3>1, <3>2 DEF ScopeIsLive, LiveScope
    <2>4. Current(r)' => ScopeIsLive(scope[r], req[r].user, o)'
      BY <2>1, <2>2, <2>3, SamePolicy DEF Current
    <2>5. Current(r)' => EvaluationLive(r)'
      BY <2>1, <2>2, <2>4 DEF EvaluationLive
    <2>6. QED
      BY <2>1, <2>2, <2>5, OneEvaluation
  <1>12. CASE StoreScope(r)
    <2>1. pc[r] = "store" /\ UNCHANGED <<policy, versions, defCache, tx, req, sel, def, scope, now>>
      BY <1>12 DEF StoreScope
    <2>2. (\A q \in Readers \ {r} : pc'[q] = pc[q]) /\ pc'[r] = "served"
      BY <1>1, <1>12 DEF StoreScope, Goto, TypeInv, TypeOK
    <2>3. now + TTL \in Nat
      BY <1>1, BoundsAssumption DEF TypeInv, TypeOK, Times
    <2>4. scopeCache' = [scopeCache EXCEPT ![ScopeKey(r)] =
                            [entries |-> scope[r], expires |-> now + TTL]]
      BY <1>12 DEF StoreScope
    <2>5. Current(r) => ScopeIsLive(scope[r], req[r].user, o)
      BY <1>1, <2>1 DEF EvaluationLive
    <2>6. Current(r)' => EvaluationLive(r)'
      BY <2>1, <2>2, <2>5, SamePolicy DEF Current, EvaluationLive
    <2>7. QED
      BY <1>2, <2>1, <2>2, <2>3, <2>4, <2>5, <2>6, OneEvaluation
  <1>13. CASE EndEvaluate(r)
    <2>1. /\ \A q \in Readers \ {r} : /\ pc'[q] = pc[q] /\ req'[q] = req[q] /\ sel'[q] = sel[q]
                                      /\ def'[q] = def[q] /\ scope'[q] = scope[q]
          /\ pc'[r] = "idle"
      BY <1>1, <1>13 DEF EndEvaluate, Goto, TypeInv, TypeOK
    <2>2. EvaluationLive(r)'
      BY <2>1 DEF EvaluationLive
    <2>3. QED
      BY <1>13, <2>1, <2>2, OneEvaluation DEF EndEvaluate
  <1>14. QED
    BY <1>4, <1>5, <1>6, <1>7, <1>8, <1>9, <1>10, <1>11, <1>12, <1>13 DEF Evaluate

LEMMA TickCoherence ==
    ASSUME CoherenceInv, Tick
    PROVE  /\ ReferencesExist'
           /\ TransactionsCover'
           /\ DefinitionCacheCoherent'
           /\ ScopeCacheCoherent'
           /\ EvaluationsLive'
  <1>1. UNCHANGED <<policy, versions, caches, tx, locals>> /\ \A t \in 0 .. now : t \in 0 .. now'
    BY DEF Tick, CoherenceInv, VersionInv, TypeInv, TypeOK, Times
  <1>2. ReferencesExist' /\ TransactionsCover'
    BY <1>1 DEF CoherenceInv, ReferencesExist, ConeExists, TransactionsCover, Covers
  <1>3. \A o : SelectedCones(o)' = SelectedCones(o) /\ LiveDefinition(o)' = LiveDefinition(o)
    BY <1>1 DEF SelectedCones, LiveDefinition, EntriesOf, RulesOn
  <1>4. \A es, u, o : ScopeIsLive(es, u, o) => ScopeIsLive(es, u, o)'
    <2>1. \A u, o, t : LiveScope(u, o, t)' = LiveScope(u, o, t)
      BY <1>1, <1>3 DEF LiveScope, AssignedCones
    <2>2. QED
      BY <1>1, <1>3, <2>1 DEF ScopeIsLive
  <1>5. DefinitionCacheCoherent'
    BY <1>1, <1>3 DEF CoherenceInv, DefinitionCacheCoherent
  <1>6. ScopeCacheCoherent'
    <2>1. \A u \in Users, o \in Objects :
            LET kept == scopeCache[<<u, o, objVersion[o]>>]
            IN  kept # None => ScopeIsLive(kept.entries, u, o)
      BY DEF CoherenceInv, ScopeCacheCoherent, ScopeIsLive
    <2>2. ASSUME NEW u \in Users, NEW o \in Objects, scopeCache[<<u, o, objVersion[o]>>] # None
          PROVE  ScopeIsLive(scopeCache[<<u, o, objVersion[o]>>].entries, u, o)'
      BY <1>1, <1>4, <2>1, <2>2
    <2>3. QED
      BY <1>1, <2>2 DEF ScopeCacheCoherent, ScopeIsLive
  <1>7. EvaluationsLive'
    BY <1>1, <1>3, <1>4 DEF CoherenceInv, EvaluationsLive, Current, EvaluationLive
  <1>8. QED
    BY <1>2, <1>5, <1>6, <1>7

LEMMA CoherenceInvariance == ASSUME SerialAdmins PROVE Spec => []CoherenceInv
  <1>1. CoherenceInv /\ [Next]_vars =>
            /\ ReferencesExist'
            /\ TransactionsCover'
            /\ DefinitionCacheCoherent'
            /\ ScopeCacheCoherent'
            /\ EvaluationsLive'
    <2> SUFFICES ASSUME CoherenceInv, [Next]_vars
                 PROVE  /\ ReferencesExist'
                        /\ TransactionsCover'
                        /\ DefinitionCacheCoherent'
                        /\ ScopeCacheCoherent'
                        /\ EvaluationsLive'
      OBVIOUS
    <2>1. ASSUME UNCHANGED vars
          PROVE  ReferencesExist' /\ TransactionsCover' /\ DefinitionCacheCoherent'
                 /\ ScopeCacheCoherent' /\ EvaluationsLive'
      <3>1. UNCHANGED <<policy, versions, caches, tx, locals, now>>
        BY <2>1 DEF vars
      <3>2. ReferencesExist' /\ TransactionsCover'
        BY <3>1 DEF CoherenceInv, ReferencesExist, ConeExists, TransactionsCover, Covers
      <3>3. DefinitionCacheCoherent' /\ ScopeCacheCoherent'
        BY <3>1, SamePolicy DEF CoherenceInv, DefinitionCacheCoherent, ScopeCacheCoherent,
           LiveScope
      <3>4. EvaluationsLive'
        BY <3>1, SamePolicy DEF CoherenceInv, EvaluationsLive, Current, EvaluationLive
      <3>5. QED
        BY <3>2, <3>3, <3>4
    <2>2. QED
      BY <2>1, AdministerCoherence, EvaluateCoherence, TickCoherence DEF Next
  <1>2. QED
    BY InitCoherence, <1>1, VersionInvariance, PTL DEF Spec, CoherenceInv

\* Administrators who take turns never leave a stale row under the current version
\* of an object: its definition is the one the tables hold, and a scope what they
\* grant at some instant so far (bumpPolicyVersionAndInvalidateCaches,
\* getOrBuildPolicyDefinition, upsertUserScopeCache).
THEOREM SerialCoherence ==
    ASSUME SerialAdmins
    PROVE  Spec => []CachesCoherent
  <1>1. CoherenceInv => CachesCoherent
    BY DEF CoherenceInv, CachesCoherent
  <1>2. QED
    BY <1>1, CoherenceInvariance, PTL

\* An evaluation whose version is still the current one when it answers, answers
\* what the tables say (evaluate).
THEOREM SerialDecisions ==
    ASSUME SerialAdmins
    PROVE  Spec => []SettledDecision
  <1>1. CoherenceInv => SettledDecision
    BY DEF CoherenceInv, EvaluationsLive, Current, EvaluationLive, ScopeIsLive, SettledDecision
  <1>2. QED
    BY <1>1, CoherenceInvariance, PTL

\* Foreign keys and their cascades keep every rule and assignment attached to an
\* existing cone, however many administrators work at once (schema.prisma).
THEOREM RowsAttached == Spec => []ReferencesExist
  <1>1. Init => ReferencesExist
    BY PolicyAssumption DEF Init, ReferencesExist, ConeExists
  <1>2. TypeInv /\ ReferencesExist /\ [Next]_vars => ReferencesExist'
    <2> SUFFICES ASSUME TypeInv, ReferencesExist, [Next]_vars,
                        UNCHANGED policy \/ \E a \in Admins : Commit(a)
                 PROVE  ReferencesExist'
      BY DEF Next, Administer, Evaluate, Tick, vars, Open, CreateCone, UpdateCone, DeleteCone,
         CreateRule, UpdateRule, DeleteRule, EnsureBootstrap, CreateAssignment,
         UpdateAssignment, DeleteAssignment, Rollback, BeginEvaluate, LookupDefinition,
         SelectCones, BuildDefinition, PersistDefinition, RereadDefinition, LookupScope,
         FindAssignments, StoreScope, EndEvaluate
    <2>1. CASE UNCHANGED policy
      BY <2>1 DEF ReferencesExist, ConeExists
    <2>2. QED
      BY <2>1, CommitReferences
  <1>3. QED
    BY <1>1, <1>2, TypeCorrect, PTL DEF Spec, TypeInv

-----------------------------------------------------------------------------
(* What an evaluation answers, against the moments it lived through.  Whatever an
   evaluation can still read, a cached row or what another evaluation under the
   same version is about to store, fits the moments of its own request: it was
   true at one of them, and leaves out nothing that was true at all of them. *)

Running(r) == pc[r] \notin {"idle", "served", "invalid", "failed"}

\* One that reads the rows of the version its object had.
Watched(r) == Running(r) /\ ~past[r].blind

SelFits(cs, o, p) ==
    /\ cs \subseteq p.active
    /\ \A e \in p.standing \cup p.broken : e.cone \in cs
    /\ (\E e \in EntriesOf(o, cs) : e.body \in InvalidBodies) => ~p.sound

DefFits(d, p) ==
    /\ d.status = "INVALID" => ~p.sound
    /\ d.status = "READY" =>
        /\ p.broken = {}
        /\ p.standing \subseteq d.entries
        /\ \A e \in d.entries : e \in p.live /\ e.cone \in p.active

ScopeFits(es, p) ==
    /\ p.broken = {}
    /\ p.standing \subseteq es
    /\ \A e \in es : e \in p.live /\ e.cone \in p.active /\ e.cone \in p.assigned

\* The rows the evaluation may still read.
CachedFits(r) ==
    /\ defCache[DefKey(r)] # None => DefFits(defCache[DefKey(r)], past[r])
    /\ scopeCache[ScopeKey(r)] # None => ScopeFits(scopeCache[ScopeKey(r)].entries, past[r])

\* What evaluation s carries, r itself or one that may store it where r reads.
CarriedFits(s, r) ==
    /\ pc[s] = "rules" /\ DefKey(s) = DefKey(r) => SelFits(sel[s], req[r].obj, past[r])
    /\ pc[s] \in {"persist", "scope", "assign"} /\ DefKey(s) = DefKey(r) =>
        DefFits(def[s], past[r])
    /\ pc[s] = "store" /\ ScopeKey(s) = ScopeKey(r) => ScopeFits(scope[s], past[r])

Settled(r) ==
    /\ pc[r] \in {"scope", "assign"} => def[r].status = "READY"
    /\ pc[r] = "served" /\ ~past[r].blind => ScopeFits(scope[r], past[r])
    /\ pc[r] = "invalid" /\ ~past[r].blind => ~past[r].sound

Fitting(r) == /\ Watched(r) => CachedFits(r) /\ \A s \in Readers : CarriedFits(s, r)
              /\ Settled(r)

\* A rule that does not compile was there from the start: the service validates what
\* administrators submit.
SubmittedCompile ==
    \A a \in Admins :
        tx[a] # None /\ tx[a].table \in {"rule", "bootstrap"} /\ tx[a].row # None =>
            tx[a].row.body \notin InvalidBodies

FreshInv == SubmittedCompile /\ \A r \in Readers : Fitting(r)

\* Entries that do not compile, among those of given cones, are never added to.
Decays ==
    \A o \in Objects, cs \in SUBSET Cones :
        (\E e \in EntriesOf(o, cs)' : e.body \in InvalidBodies) =>
            \E e \in EntriesOf(o, cs) : e.body \in InvalidBodies

LEMMA SameRulesDecay == ASSUME rules' = rules PROVE Decays
  BY DEF Decays, EntriesOf, RulesOn

LEMMA CommitDecays ==
    ASSUME TypeInv, SubmittedCompile, NEW a \in Admins, Commit(a)
    PROVE  Decays
  <1> DEFINE t == tx[a]
  <1>1. t \in ConeTx \cup RuleTx \cup AssignTx \cup BootstrapTx
    BY DEF Commit, TypeInv, TypeOK
  <1>2. \A r \in Rules : rules'[r] # None /\ rules'[r].body \in InvalidBodies => rules'[r] = rules[r]
    <2>1. CASE CommitCone(t)
      <3>1. CASE t.op = "delete"
        BY <2>1, <3>1 DEF CommitCone
      <3>2. CASE t.op # "delete"
        BY <2>1, <3>2 DEF CommitCone
      <3>3. QED
        BY <3>1, <3>2
    <2>2. CASE CommitRule(t)
      <3>1. t.id \in Rules /\ (t.row # None => t.row.body \notin InvalidBodies)
        BY <1>1, <2>2
        DEF CommitRule, ConeTx, RuleTx, AssignTx, BootstrapTx, SubmittedCompile, Commit
      <3>2. QED
        BY <2>2, <3>1 DEF CommitRule, TypeInv, TypeOK
    <2>3. CASE CommitAssignment(t)
      BY <2>3 DEF CommitAssignment
    <2>4. CASE CommitBootstrap(t)
      <3>1. t.id \in Rules /\ t.row # None /\ t.row.body \notin InvalidBodies
        BY <1>1, <2>4, NoneAssumption
        DEF CommitBootstrap, ConeTx, RuleTx, AssignTx, BootstrapTx, SubmittedCompile, Commit
      <3>2. QED
        BY <2>4, <3>1 DEF CommitBootstrap, TypeInv, TypeOK
    <2>5. QED
      BY <2>1, <2>2, <2>3, <2>4 DEF Commit
  <1>3. ASSUME NEW o \in Objects, NEW cs \in SUBSET Cones,
               NEW e \in EntriesOf(o, cs)', e.body \in InvalidBodies
        PROVE  \E f \in EntriesOf(o, cs) : f.body \in InvalidBodies
    <2>1. PICK r \in Rules : /\ rules'[r] # None /\ rules'[r].obj = o /\ rules'[r].active
                             /\ rules'[r].cone \in cs
                             /\ e = [cone |-> rules'[r].cone, rule |-> r, body |-> rules'[r].body]
      BY DEF EntriesOf, RulesOn
    <2>2. rules'[r] = rules[r]
      BY <1>2, <1>3, <2>1
    <2>3. e \in EntriesOf(o, cs)
      BY <2>1, <2>2 DEF EntriesOf, RulesOn
    <2>4. QED
      BY <1>3, <2>3
  <1>4. QED
    BY <1>3 DEF Decays

LEMMA SubmittedStep ==
    ASSUME TypeInv, SubmittedCompile, [Next]_vars
    PROVE  SubmittedCompile' /\ Decays
  <1>1. ASSUME NEW a \in Admins, Administer(a)
        PROVE  SubmittedCompile' /\ Decays
    <2>1. ASSUME NEW t, Open(a, t),
                 t.table \in {"rule", "bootstrap"} /\ t.row # None => t.row.body \notin InvalidBodies
          PROVE  SubmittedCompile' /\ Decays
      <3>1. \A b \in Admins : tx'[b] = t \/ tx'[b] = tx[b]
        BY <2>1 DEF Open, TypeInv, TypeOK
      <3>2. SubmittedCompile'
        BY <2>1, <3>1 DEF SubmittedCompile
      <3>3. QED
        BY <2>1, <3>2, SameRulesDecay DEF Open
    <2>2. ASSUME \/ Commit(a)
                 \/ Rollback(a)
          PROVE  SubmittedCompile' /\ Decays
      <3>1. \A b \in Admins : tx'[b] = None \/ tx'[b] = tx[b]
        BY <2>2 DEF Commit, Rollback, TypeInv, TypeOK
      <3>2. SubmittedCompile'
        BY <3>1 DEF SubmittedCompile
      <3>3. Rollback(a) => Decays
        BY SameRulesDecay DEF Rollback
      <3>4. QED
        BY <2>2, <3>2, <3>3, CommitDecays
    <2>3. \A x \in RuleInputs : x.body \notin InvalidBodies
      BY PolicyAssumption
    <2>4. BootstrapBody \notin InvalidBodies
      BY PolicyAssumption
    <2>5. ASSUME NEW r \in Rules, NEW x \in RuleInputs, CreateRule(a, r, x) \/ UpdateRule(a, r, x)
          PROVE  SubmittedCompile' /\ Decays
      BY <2>1, <2>3, <2>5 DEF CreateRule, UpdateRule
    <2>6. ASSUME NEW r \in Rules, DeleteRule(a, r)
          PROVE  SubmittedCompile' /\ Decays
      BY <2>1, <2>6 DEF DeleteRule
    <2>7. ASSUME NEW r \in Rules, NEW o \in Objects, EnsureBootstrap(a, r, o)
          PROVE  SubmittedCompile' /\ Decays
      BY <2>1, <2>4, <2>7 DEF EnsureBootstrap
    <2>8. ASSUME NEW c \in Cones, NEW state \in {"active", "inactive"},
                 CreateCone(a, c, state) \/ UpdateCone(a, c, state)
          PROVE  SubmittedCompile' /\ Decays
      BY <2>1, <2>8 DEF CreateCone, UpdateCone
    <2>9. ASSUME NEW c \in Cones, DeleteCone(a, c)
          PROVE  SubmittedCompile' /\ Decays
      BY <2>1, <2>9 DEF DeleteCone
    <2>10. ASSUME NEW i \in Assigns, NEW x \in AssignInputs,
                  CreateAssignment(a, i, x) \/ UpdateAssignment(a, i, x)
           PROVE  SubmittedCompile' /\ Decays
      BY <2>1, <2>10 DEF CreateAssignment, UpdateAssignment
    <2>11. ASSUME NEW i \in Assigns, DeleteAssignment(a, i)
           PROVE  SubmittedCompile' /\ Decays
      BY <2>1, <2>11 DEF DeleteAssignment
    <2>12. QED
      BY <1>1, <2>2, <2>5, <2>6, <2>7, <2>8, <2>9, <2>10, <2>11 DEF Administer
  <1>2. ASSUME UNCHANGED <<rules, tx>> PROVE SubmittedCompile' /\ Decays
    BY <1>2, SameRulesDecay DEF SubmittedCompile
  <1>3. QED
    BY <1>1, <1>2 DEF Next, Evaluate, Tick, vars, BeginEvaluate, LookupDefinition, SelectCones,
       BuildDefinition, PersistDefinition, RereadDefinition, LookupScope, FindAssignments,
       StoreScope, EndEvaluate

\* What fits the moments so far, or the moment added, fits both: the bounds only widen.
LEMMA FitsExtend ==
    ASSUME NEW p, NEW m
    PROVE  /\ \A d : DefFits(d, p) \/ DefFits(d, m) => DefFits(d, Extend(p, m))
           /\ \A es : ScopeFits(es, p) \/ ScopeFits(es, m) => ScopeFits(es, Extend(p, m))
           /\ \A cs, o : SelFits(cs, o, p) \/ SelFits(cs, o, m) => SelFits(cs, o, Extend(p, m))
  <1>1. \A d : DefFits(d, p) \/ DefFits(d, m) => DefFits(d, Extend(p, m))
    BY DEF DefFits, Extend
  <1>2. \A es : ScopeFits(es, p) \/ ScopeFits(es, m) => ScopeFits(es, Extend(p, m))
    BY DEF ScopeFits, Extend
  <1>3. \A cs, o : SelFits(cs, o, p) \/ SelFits(cs, o, m) => SelFits(cs, o, Extend(p, m))
    BY DEF SelFits, Extend
  <1>4. QED
    BY <1>1, <1>2, <1>3

\* An extended history keeps what fitted it, when rules that do not compile decay.
LEMMA SelFitsStep ==
    ASSUME NEW cs \in SUBSET Cones, NEW o \in Objects, NEW p, NEW m,
           SelFits(cs, o, p), Decays
    PROVE  SelFits(cs, o, Extend(p, m))'
  BY DEF SelFits, Extend, Decays

LEMMA SelFitsStay ==
    ASSUME NEW cs \in SUBSET Cones, NEW o \in Objects, NEW p,
           SelFits(cs, o, p), Decays
    PROVE  SelFits(cs, o, p)'
  BY DEF SelFits, Decays

\* What the tables say at a moment fits that moment.
LEMMA MomentFits ==
    ASSUME TypeInv, NEW q \in Request
    PROVE  LET o == q.obj
           IN  /\ SelFits(SelectedCones(o), o, Moment(q))
               /\ DefFits(LiveDefinition(o), Moment(q))
               /\ \A es : ScopeIsLive(es, q.user, o) => ScopeFits(es, Moment(q))
  <1> DEFINE o == q.obj
             u == q.user
             m == Moment(q)
  <1>1. \A e \in EntriesOf(o, SelectedCones(o)) :
            e.cone \in SelectedCones(o) /\ e \in EntriesOf(o, Cones)
    BY DEF EntriesOf, SelectedCones
  <1>2. \A c \in SelectedCones(o) : c \in m.active
    BY DEF SelectedCones, Moment
  <1>3. /\ LiveDefinition(o).status = "READY" =>
            /\ LiveDefinition(o).entries = EntriesOf(o, SelectedCones(o))
            /\ m.broken = {}
        /\ LiveDefinition(o).status # "READY" =>
            LiveDefinition(o).status = "INVALID" /\ LiveDefinition(o).entries = {}
        /\ (\E e \in EntriesOf(o, SelectedCones(o)) : e.body \in InvalidBodies)
            => LiveDefinition(o).status = "INVALID"
    BY DEF LiveDefinition, Compile, Moment
  <1>4. /\ m.sound <=> LiveDefinition(o).status = "READY"
        /\ m.live = EntriesOf(o, Cones)
        /\ m.broken \subseteq EntriesOf(o, SelectedCones(o))
        /\ m.standing \subseteq LiveDefinition(o).entries
        /\ \A e \in m.standing : \A t \in 0 .. now : e.cone \in AssignedCones(u, t)
        /\ m.standing = {e \in LiveDefinition(o).entries :
                            \A t \in 0 .. now : e.cone \in AssignedCones(u, t)}
        /\ m.assigned = UNION {AssignedCones(u, t) : t \in 0 .. now}
    BY DEF Moment
  <1> HIDE DEF m
  <1>5. SelFits(SelectedCones(o), o, m)
    BY <1>1, <1>2, <1>3, <1>4 DEF SelFits
  <1>6. DefFits(LiveDefinition(o), m)
    BY <1>1, <1>2, <1>3, <1>4 DEF DefFits
  <1>7. ASSUME NEW es, ScopeIsLive(es, u, o)
        PROVE  ScopeFits(es, m)
    <2>1. PICK t \in 0 .. now : es = LiveScope(u, o, t)
      BY <1>7 DEF ScopeIsLive
    <2>2. \A e : e \in es <=> e \in LiveDefinition(o).entries /\ e.cone \in AssignedCones(u, t)
      BY <2>1 DEF LiveScope, Applicable
    <2>3. LiveDefinition(o).status = "READY"
      BY <1>7 DEF ScopeIsLive
    <2>4. m.standing \subseteq es
      BY <1>4, <2>2
    <2>5. \A e \in es : e \in m.live /\ e.cone \in m.active /\ e.cone \in m.assigned
      BY <1>1, <1>2, <1>3, <1>4, <2>2, <2>3
    <2>6. QED
      BY <1>3, <2>3, <2>4, <2>5 DEF ScopeFits
  <1>8. QED
    BY <1>5, <1>6, <1>7 DEF m

\* The rules query, made for cones selected at an earlier moment of the same request.
LEMMA BuildFits ==
    ASSUME TypeInv, NEW q \in Request, NEW p,
           NEW cs, SelFits(cs, q.obj, p)
    PROVE  DefFits(Compile(EntriesOf(q.obj, cs)), Extend(p, Moment(q)))
  <1> DEFINE o == q.obj
             m == Moment(q)
             es == EntriesOf(o, cs)
  <1>1. m.live = EntriesOf(o, Cones) /\ m.broken \subseteq EntriesOf(o, SelectedCones(o))
        /\ m.standing \subseteq EntriesOf(o, SelectedCones(o))
        /\ \A e \in m.broken : e.body \in InvalidBodies
    BY DEF Moment, LiveDefinition, Compile
  <1>2. \A e \in es : e \in EntriesOf(o, Cones) /\ e.cone \in cs
    BY DEF EntriesOf, RulesOn, TypeInv, TypeOK, RuleRow
  <1>3. \A e \in EntriesOf(o, SelectedCones(o)) : e.cone \in cs => e \in es
    BY DEF EntriesOf
  <1>4. CASE \E e \in es : e.body \in InvalidBodies
    <2>1. Compile(es) = [status |-> "INVALID", entries |-> {}]
      BY <1>4 DEF Compile
    <2>2. ~p.sound
      BY <1>4 DEF SelFits
    <2>3. ~Extend(p, m).sound
      BY <2>2 DEF Extend
    <2>4. QED
      BY <2>1, <2>3 DEF DefFits
  <1>5. CASE ~ \E e \in es : e.body \in InvalidBodies
    <2>1. Compile(es) = [status |-> "READY", entries |-> es]
      BY <1>5 DEF Compile
    <2>2. p.broken \cap m.broken = {}
      BY <1>1, <1>3, <1>5 DEF SelFits
    <2>3. p.standing \cap m.standing \subseteq es
      BY <1>1, <1>3 DEF SelFits
    <2>4. \A e \in es : e \in p.live \cup m.live /\ e.cone \in p.active \cup m.active
      BY <1>1, <1>2 DEF SelFits
    <2> HIDE DEF m, es
    <2>5. DefFits([status |-> "READY", entries |-> es], Extend(p, m))
      BY <2>2, <2>3, <2>4 DEF DefFits, Extend
    <2>6. QED
      BY <2>1, <2>5 DEF m, es
  <1>6. QED
    BY <1>4, <1>5

\* The assignments, found for a definition that fits.
LEMMA AssignFits ==
    ASSUME TypeInv, NEW q \in Request, NEW p,
           NEW d, d.status = "READY", DefFits(d, p)
    PROVE  ScopeFits(Applicable(d.entries, AssignedCones(q.user, now)),
                     Extend(p, Moment(q)))
  <1> DEFINE m == Moment(q)
             cs == AssignedCones(q.user, now)
  <1>1. now \in 0 .. now
    BY DEF TypeInv, TypeOK, Times
  <1>2. cs \subseteq m.assigned /\ \A e \in m.standing : e.cone \in cs
    BY <1>1 DEF Moment
  <1> HIDE DEF m, cs
  <1>3. QED
    BY <1>2 DEF DefFits, ScopeFits, Extend, Applicable, m, cs

\* A step of another evaluation, of an administrator or of the clock only adds a
\* moment to what fitted.
LEMMA CarriedStay ==
    ASSUME TypeInv, Decays, NEW r \in Readers, NEW s \in Readers, Running(r), NEW m,
           past'[r] = past[r] \/ past'[r] = Extend(past[r], m),
           req'[r] = req[r], req'[s] = req[s], pc'[s] = pc[s],
           sel'[s] = sel[s], def'[s] = def[s], scope'[s] = scope[s],
           CarriedFits(s, r)
    PROVE  CarriedFits(s, r)'
  <1>1. req[r].obj \in Objects /\ sel[s] \in SUBSET Cones
    BY DEF Running, TypeInv, TypeOK, Request
  <1>2. DefKey(s)' = DefKey(s) /\ DefKey(r)' = DefKey(r)
        /\ ScopeKey(s)' = ScopeKey(s) /\ ScopeKey(r)' = ScopeKey(r)
    BY DEF DefKey, ScopeKey
  <1>3. \A d : DefFits(d, past[r]) => DefFits(d, past'[r])
    BY FitsExtend
  <1>4. \A es : ScopeFits(es, past[r]) => ScopeFits(es, past'[r])
    BY FitsExtend
  <1>5. SelFits(sel[s], req[r].obj, past[r]) => SelFits(sel[s], req[r].obj, past[r])'
    <2>1. SelFits(sel[s], req[r].obj, past[r]) => SelFits(sel[s], req[r].obj, past'[r])
      BY FitsExtend
    <2>2. SelFits(sel[s], req[r].obj, past'[r]) => SelFits(sel[s], req[r].obj, past[r])'
      BY <1>1 DEF SelFits, Decays
    <2>3. QED
      BY <2>1, <2>2
  <1>6. QED
    BY <1>2, <1>3, <1>4, <1>5 DEF CarriedFits, DefFits, ScopeFits

\* The rows it may read, when a step leaves them or deletes them.
LEMMA CachedStay ==
    ASSUME NEW r \in Readers, NEW m,
           past'[r] = past[r] \/ past'[r] = Extend(past[r], m),
           req'[r] = req[r],
           defCache'[DefKey(r)] \in {None, defCache[DefKey(r)]},
           scopeCache'[ScopeKey(r)] \in {None, scopeCache[ScopeKey(r)]},
           CachedFits(r)
    PROVE  CachedFits(r)'
  <1>1. DefKey(r)' = DefKey(r) /\ ScopeKey(r)' = ScopeKey(r)
    BY DEF DefKey, ScopeKey
  <1>2. \A d : DefFits(d, past[r]) => DefFits(d, past'[r])
    BY FitsExtend
  <1>3. \A es : ScopeFits(es, past[r]) => ScopeFits(es, past'[r])
    BY FitsExtend
  <1>4. QED
    BY <1>1, <1>2, <1>3 DEF CachedFits, DefFits, ScopeFits

\* Administrators and the clock: no evaluation moves, and rows are only deleted.
LEMMA BackgroundFresh ==
    ASSUME TypeInv, FreshInv, Decays, SubmittedCompile', UNCHANGED locals,
           Remember \/ UNCHANGED past,
           \A k \in Objects \X Versions : defCache'[k] \in {None, defCache[k]},
           \A k \in Users \X Objects \X Versions : scopeCache'[k] \in {None, scopeCache[k]}
    PROVE  FreshInv'
  <1> SUFFICES ASSUME NEW r \in Readers PROVE Fitting(r)'
    BY DEF FreshInv
  <1>1. Fitting(r)
    BY DEF FreshInv
  <1>2. Running(r) => past'[r] = past[r] \/ past'[r] = Extend(past[r], Moment(req[r])')
    BY DEF Remember, Running
  <1>3. pc[r] \in {"served", "invalid"} => past'[r] = past[r]
    BY DEF Remember
  <1>4. ASSUME Watched(r)
        PROVE  CachedFits(r)' /\ \A s \in Readers : CarriedFits(s, r)'
    <2>1. DefKey(r) \in Objects \X Versions /\ ScopeKey(r) \in Users \X Objects \X Versions
      BY <1>4, KeyTypes DEF Watched, Running
    <2>2. CachedFits(r)'
      BY <1>1, <1>2, <1>4, <2>1, CachedStay DEF Fitting, Watched
    <2>3. \A s \in Readers : CarriedFits(s, r)'
      BY <1>1, <1>2, <1>4, CarriedStay DEF Fitting, Watched
    <2>4. QED
      BY <2>2, <2>3
  <1>5. Settled(r)'
    BY <1>1, <1>3 DEF Fitting, Settled, ScopeFits
  <1>6. Watched(r)' => Watched(r)
    BY <1>2 DEF Watched, Running, Extend
  <1>7. QED
    BY <1>4, <1>5, <1>6 DEF Fitting

\* The moment a step of an evaluation adds is the one at which it is taken.
LEMMA PastExtended ==
    ASSUME UNCHANGED <<policy, versions, now>>, Remember, NEW r \in Readers, Running(r),
           pc'[r] # "idle", req'[r] = req[r]
    PROVE  past'[r] = Extend(past[r], Moment(req[r]))
  <1>1. Moment(req[r])' = Moment(req[r])
    BY DEF Moment, LiveDefinition, Compile, EntriesOf, SelectedCones, RulesOn, AssignedCones,
       versions
  <1>2. QED
    BY <1>1 DEF Remember, Running

\* Whether an evaluation is watched is settled when it begins.
LEMMA SightKept ==
    ASSUME Remember, NEW r \in Readers, Running(r), pc'[r] # "idle"
    PROVE  past'[r].blind = past[r].blind
  BY DEF Remember, Running, Extend

\* A step of one evaluation: what is left to show of it.
LEMMA OneFresh ==
    ASSUME TypeInv, FreshInv, SubmittedCompile', Remember, UNCHANGED <<policy, versions, now>>,
           NEW q \in Readers,
           \A s \in Readers \ {q} :
               /\ pc'[s] = pc[s] /\ req'[s] = req[s] /\ sel'[s] = sel[s]
               /\ def'[s] = def[s] /\ scope'[s] = scope[s],
           \/ pc'[q] = "idle"
           \/ Running(q) /\ req'[q] = req[q]
           \/ Watched(q)' => \A s \in Readers : CarriedFits(s, q)',
           \A r \in Readers : Watched(r)' => CachedFits(r)' /\ CarriedFits(q, r)',
           Settled(q)'
    PROVE  FreshInv'
  <1>1. Decays
    BY SameRulesDecay
  <1> SUFFICES ASSUME NEW r \in Readers PROVE Fitting(r)'
    BY DEF FreshInv
  <1>2. Fitting(r)
    BY DEF FreshInv
  <1>3. CASE r = q
    <2>1. ASSUME Watched(q)', NEW s \in Readers
          PROVE  CarriedFits(s, q)'
      <3>1. CASE ~ (Running(q) /\ req'[q] = req[q])
        BY <2>1, <3>1 DEF Watched, Running
      <3> SUFFICES ASSUME Running(q), req'[q] = req[q]
                   PROVE  CarriedFits(s, q)'
        BY <3>1
      <3>2. CASE s = q
        BY <2>1, <3>2
      <3>3. past'[q] = Extend(past[q], Moment(req[q])) /\ Watched(q)
        BY <2>1, PastExtended DEF Watched, Running, Extend
      <3>4. CASE s # q
        BY <1>1, <1>2, <1>3, <3>3, <3>4, CarriedStay DEF Fitting
      <3>5. QED
        BY <3>2, <3>4
    <2>2. QED
      BY <1>3, <2>1 DEF Fitting
  <1>4. CASE r # q
    <2>1. Watched(r)' <=> Watched(r)
      BY <1>4, SightKept DEF Watched, Running
    <2>2. ASSUME Watched(r), NEW s \in Readers
          PROVE  CarriedFits(s, r)'
      <3>1. past'[r] = Extend(past[r], Moment(req[r])) /\ Running(r)
        BY <1>4, <2>2, PastExtended DEF Watched, Running
      <3>2. CASE s = q
        BY <2>1, <2>2, <3>2
      <3>3. CASE s # q
        BY <1>1, <1>2, <1>4, <2>2, <3>1, <3>3, CarriedStay DEF Fitting
      <3>4. QED
        BY <3>2, <3>3
    <2>3. Settled(r)'
      <3>1. pc[r] \in {"served", "invalid"} => past'[r] = past[r]
        BY <1>4 DEF Remember
      <3>2. QED
        BY <1>2, <1>4, <3>1 DEF Fitting, Settled, ScopeFits
    <2>4. QED
      BY <2>1, <2>2, <2>3 DEF Fitting
  <1>5. QED
    BY <1>3, <1>4

\* Rows and what the stepping evaluation carries, when both are as before.
LEMMA OneStay ==
    ASSUME TypeInv, FreshInv, Remember, UNCHANGED <<policy, versions, now>>,
           NEW r \in Readers, Watched(r), pc'[r] # "idle", req'[r] = req[r]
    PROVE  /\ past'[r] = Extend(past[r], Moment(req[r])) /\ Running(r)
           /\ UNCHANGED caches => CachedFits(r)'
           /\ DefKey(r) \in Objects \X Versions /\ ScopeKey(r) \in Users \X Objects \X Versions
           /\ req[r] \in Request
           /\ CachedFits(r) /\ \A s \in Readers : CarriedFits(s, r)
  <1>1. past'[r] = Extend(past[r], Moment(req[r]))
    BY PastExtended DEF Watched
  <1>2. CachedFits(r) /\ \A s \in Readers : CarriedFits(s, r)
    BY DEF FreshInv, Fitting
  <1>3. UNCHANGED caches => CachedFits(r)'
    BY <1>1, <1>2, CachedStay
  <1>4. QED
    BY <1>1, <1>2, <1>3, KeyTypes DEF Watched, Running

\* A definition taken from a row, or built for the request, that fits.
LEMMA UseFits ==
    ASSUME TypeInv, NEW q \in Readers, Running(q), NEW d \in Definition, UseDefinition(q, d),
           req'[q] = req[q], ~past'[q].blind => DefFits(d, past'[q])
    PROVE  /\ def'[q] = d /\ pc'[q] \in {"invalid", "assign", "scope"}
           /\ \A s \in Readers \ {q} : def'[s] = def[s] /\ pc'[s] = pc[s]
           /\ Settled(q)'
  <1>1. /\ def'[q] = d
        /\ pc'[q] = IF d.status = "INVALID" THEN "invalid"
                    ELSE IF req[q].skip THEN "assign" ELSE "scope"
        /\ \A s \in Readers \ {q} : def'[s] = def[s] /\ pc'[s] = pc[s]
    BY DEF UseDefinition, Goto, TypeInv, TypeOK
  <1>2. d.status \in {"READY", "INVALID"}
    BY DEF Definition
  <1>3. d.status = "INVALID" /\ ~past'[q].blind => ~past'[q].sound
    BY DEF DefFits
  <1>4. QED
    BY <1>1, <1>2, <1>3 DEF Settled

\* An evaluation that begins reads the current version, under which everything stored
\* or carried is live.
LEMMA BeginFresh ==
    ASSUME CoherenceInv, FreshInv, SubmittedCompile', Remember,
           NEW q \in Readers, NEW u \in Users, NEW o \in Objects, NEW skip \in SkipModes,
           BeginEvaluate(q, u, o, skip)
    PROVE  FreshInv'
  <1>1. TypeInv
    BY DEF CoherenceInv, VersionInv
  <1>2. /\ UNCHANGED <<policy, versions, caches, tx, sel, def, scope, now>>
        /\ pc[q] = "idle" /\ pc'[q] \in {"cones", "definition"}
        /\ \A s \in Readers \ {q} : pc'[s] = pc[s] /\ req'[s] = req[s]
    BY <1>1 DEF BeginEvaluate, Goto, TypeInv, TypeOK
  <1>3. /\ req'[q].user = u /\ req'[q].obj = o
        /\ req'[q] \in Request
    <2>1. PICK v \in ReadableVersions(o, skip) :
                req' = [req EXCEPT ![q] = [user |-> u, obj |-> o, skip |-> skip, ver |-> v]]
      BY DEF BeginEvaluate
    <2>2. v \in Versions
      BY <1>1, BoundsAssumption DEF ReadableVersions, TypeInv, TypeOK, Versions
    <2>3. skip \in BOOLEAN
      BY BoundsAssumption
    <2>4. QED
      BY <1>1, <2>1, <2>2, <2>3 DEF Request, TypeInv, TypeOK
  <1>4. req'[q] \in Request /\ req'[q].obj = o /\ req'[q].user = u
    BY <1>3
  <1> DEFINE m == Moment(req'[q])
  <1>5. past'[q] = m
    <2>1. past'[q] = Moment(req[q])'
      BY <1>2 DEF Remember
    <2>2. Moment(req[q])' = m
      BY <1>2 DEF Moment, LiveDefinition, Compile, EntriesOf, SelectedCones, RulesOn,
         AssignedCones, versions
    <2>3. QED
      BY <2>1, <2>2
  <1>6. /\ SelFits(SelectedCones(o), o, m)
        /\ DefFits(LiveDefinition(o), m)
        /\ \A es : ScopeIsLive(es, u, o) => ScopeFits(es, m)
    BY <1>1, <1>4, MomentFits
  <1>14. m.blind <=> req'[q].ver # objVersion[o]
    BY <1>3 DEF Moment
  <1> HIDE DEF m
  <1>15. ASSUME ~past'[q].blind
         PROVE  /\ DefKey(q)' = <<o, objVersion[o]>>
                /\ ScopeKey(q)' = <<u, o, objVersion[o]>>
    BY <1>3, <1>5, <1>14, <1>15 DEF DefKey, ScopeKey
  <1>7. ASSUME Watched(q)'
        PROVE  /\ DefKey(q)' = <<o, objVersion[o]>>
               /\ ScopeKey(q)' = <<u, o, objVersion[o]>>
    BY <1>7, <1>15 DEF Watched
  <1>8. ASSUME Watched(q)'
        PROVE  CachedFits(q)'
    <2>1. defCache[<<o, objVersion[o]>>] # None => DefFits(defCache[<<o, objVersion[o]>>], m)
      BY <1>6 DEF CoherenceInv, DefinitionCacheCoherent
    <2>2. scopeCache[<<u, o, objVersion[o]>>] # None =>
            ScopeFits(scopeCache[<<u, o, objVersion[o]>>].entries, m)
      BY <1>6 DEF CoherenceInv, ScopeCacheCoherent, ScopeIsLive
    <2>3. QED
      BY <1>2, <1>5, <1>7, <1>8, <2>1, <2>2 DEF CachedFits, DefFits, ScopeFits
  <1>9. ASSUME Watched(q)', NEW s \in Readers
        PROVE  CarriedFits(s, q)'
    <2>1. CASE s = q
      BY <1>2, <2>1 DEF CarriedFits
    <2>2. CASE s # q
      <3>1. DefKey(s)' = DefKey(s) /\ ScopeKey(s)' = ScopeKey(s) /\ pc'[s] = pc[s]
        BY <1>2, <2>2 DEF DefKey, ScopeKey
      <3>2. DefKey(s) = DefKey(q)' /\ pc[s] # "idle" =>
                Current(s) /\ req[s].obj = o /\ EvaluationLive(s)
        BY <1>7, <1>9 DEF DefKey, Current, CoherenceInv, EvaluationsLive
      <3>3. ScopeKey(s) = ScopeKey(q)' /\ pc[s] # "idle" =>
                req[s].obj = o /\ req[s].user = u /\ EvaluationLive(s)
        BY <1>7, <1>9 DEF ScopeKey, Current, CoherenceInv, EvaluationsLive
      <3>4. pc[s] = "rules" /\ DefKey(s) = DefKey(q)' => SelFits(sel[s], o, m)
        BY <1>6, <3>2 DEF EvaluationLive
      <3>5. pc[s] \in {"persist", "scope", "assign"} /\ DefKey(s) = DefKey(q)' =>
                DefFits(def[s], m)
        BY <1>6, <3>2 DEF EvaluationLive
      <3>6. pc[s] = "store" /\ ScopeKey(s) = ScopeKey(q)' => ScopeFits(scope[s], m)
        BY <1>6, <3>3 DEF EvaluationLive
      <3>7. SelFits(sel[s], o, m) => SelFits(sel[s], req[q].obj, past[q])'
        BY <1>2, <1>4, <1>5 DEF SelFits, EntriesOf, RulesOn
      <3>8. /\ DefFits(def[s], m) => DefFits(def[s], past[q])'
            /\ ScopeFits(scope[s], m) => ScopeFits(scope[s], past[q])'
        BY <1>2, <1>5 DEF DefFits, ScopeFits
      <3>9. QED
        BY <3>1, <3>4, <3>5, <3>6, <3>7, <3>8 DEF CarriedFits
    <2>3. QED
      BY <2>1, <2>2
  <1>10. ASSUME NEW r \in Readers, Watched(r)'
         PROVE  CachedFits(r)' /\ CarriedFits(q, r)'
    <2>1. CASE r = q
      BY <1>8, <1>9, <1>10, <2>1
    <2>2. CASE r # q
      <3>1. Watched(r) /\ pc'[r] # "idle" /\ req'[r] = req[r]
        BY <1>2, <1>10, <2>2, SightKept DEF Watched, Running
      <3>2. CachedFits(r)'
        BY <1>1, <1>2, <3>1, OneStay
      <3>3. QED
        BY <1>2, <3>2 DEF CarriedFits
    <2>3. QED
      BY <2>1, <2>2
  <1>11. Settled(q)'
    BY <1>2 DEF Settled
  <1>13. QED
    BY <1>1, <1>2, <1>9, <1>10, <1>11, OneFresh

LEMMA EvaluateFresh ==
    ASSUME CoherenceInv, FreshInv, SubmittedCompile', Remember,
           NEW q \in Readers, Evaluate(q)
    PROVE  FreshInv'
  <1>1. TypeInv
    BY DEF CoherenceInv, VersionInv
  <1>2. ASSUME Running(q), req' = req, UNCHANGED <<policy, versions, now>>,
               \A s \in Readers \ {q} :
                   /\ pc'[s] = pc[s] /\ sel'[s] = sel[s]
                   /\ def'[s] = def[s] /\ scope'[s] = scope[s],
               \A r \in Readers : Watched(r) /\ pc'[r] # "idle" =>
                   CachedFits(r)' /\ CarriedFits(q, r)',
               Settled(q)'
        PROVE  FreshInv'
    <2>1. \A r \in Readers : Watched(r)' => Watched(r) /\ pc'[r] # "idle"
      BY <1>2, SightKept DEF Watched, Running
    <2>2. QED
      BY <1>1, <1>2, <2>1, OneFresh
  <1>3. ASSUME NEW u \in Users, NEW o \in Objects, NEW skip \in SkipModes,
               BeginEvaluate(q, u, o, skip)
        PROVE  FreshInv'
    BY <1>3, BeginFresh
  <1>4. ASSUME Running(q), UNCHANGED <<policy, versions, caches, tx, req, sel, scope, now>>,
               defCache[DefKey(q)] # None, UseDefinition(q, defCache[DefKey(q)])
        PROVE  FreshInv'
    <2> DEFINE d == defCache[DefKey(q)]
    <2>1. d \in Definition
      BY <1>1, <1>4, KeyTypes DEF TypeInv, TypeOK, Running
    <2>2. pc'[q] # "idle"
      BY <1>1, <1>4 DEF UseDefinition, Goto, TypeInv, TypeOK
    <2>3. \A r \in Readers : Watched(r) /\ pc'[r] # "idle" /\ DefKey(r) = DefKey(q) =>
            DefFits(d, past'[r])
      BY <1>1, <1>4, OneStay, FitsExtend DEF CachedFits
    <2>4. /\ def'[q] = d /\ pc'[q] \in {"invalid", "assign", "scope"}
          /\ \A s \in Readers \ {q} : def'[s] = def[s] /\ pc'[s] = pc[s]
          /\ Settled(q)'
      BY <1>1, <1>4, <2>1, <2>2, <2>3, SightKept, UseFits DEF Watched
    <2>5. ASSUME NEW r \in Readers, Watched(r), pc'[r] # "idle"
          PROVE  CachedFits(r)' /\ CarriedFits(q, r)'
      <3>1. CachedFits(r)'
        BY <1>1, <1>4, <2>5, OneStay
      <3>2. DefKey(r)' = DefKey(r) /\ DefKey(q)' = DefKey(q)
        BY <1>4 DEF DefKey
      <3>3. QED
        BY <2>3, <2>4, <2>5, <3>1, <3>2 DEF CarriedFits, DefFits
    <2>6. QED
      BY <1>2, <1>4, <2>4, <2>5
  <1>5. ASSUME Running(q), UNCHANGED <<policy, versions, caches, tx, req, now>>,
               \A s \in Readers \ {q} :
                   /\ pc'[s] = pc[s] /\ sel'[s] = sel[s]
                   /\ def'[s] = def[s] /\ scope'[s] = scope[s],
               pc'[q] \in {"cones", "reread", "failed"}
        PROVE  FreshInv'
    <2>1. \A r \in Readers : Watched(r) /\ pc'[r] # "idle" => CachedFits(r)'
      BY <1>1, <1>5, OneStay
    <2>2. \A r \in Readers : CarriedFits(q, r)'
      BY <1>5 DEF CarriedFits
    <2>3. Settled(q)'
      BY <1>5 DEF Settled
    <2>4. QED
      BY <1>2, <1>5, <2>1, <2>2, <2>3
  <1>6. CASE LookupDefinition(q)
    <2>1. Running(q) /\ UNCHANGED <<policy, versions, caches, tx, req, sel, scope, now>>
      BY <1>6 DEF LookupDefinition, Running
    <2>2. CASE defCache[DefKey(q)] # None
      BY <1>4, <1>6, <2>1, <2>2 DEF LookupDefinition
    <2>3. CASE defCache[DefKey(q)] = None
      <3>1. /\ \A s \in Readers \ {q} : pc'[s] = pc[s]
            /\ pc'[q] = "cones" /\ UNCHANGED def
        BY <1>1, <1>6, <2>3 DEF LookupDefinition, Goto, TypeInv, TypeOK
      <3>2. QED
        BY <1>5, <2>1, <3>1
    <2>4. QED
      BY <2>2, <2>3
  <1>7. CASE SelectCones(q)
    <2>1. /\ Running(q) /\ UNCHANGED <<policy, versions, caches, tx, req, def, scope, now>>
          /\ pc'[q] = "rules" /\ sel'[q] = SelectedCones(req[q].obj)
          /\ \A s \in Readers \ {q} : pc'[s] = pc[s] /\ sel'[s] = sel[s]
      BY <1>1, <1>7 DEF SelectCones, Goto, Running, TypeInv, TypeOK
    <2>2. ASSUME NEW r \in Readers, Watched(r), pc'[r] # "idle"
          PROVE  CachedFits(r)' /\ CarriedFits(q, r)'
      <3>1. CachedFits(r)' /\ req[r] \in Request /\ past'[r] = Extend(past[r], Moment(req[r]))
        BY <1>1, <2>1, <2>2, OneStay
      <3>2. SelFits(SelectedCones(req[r].obj), req[r].obj, Moment(req[r]))
        BY <1>1, <3>1, MomentFits
      <3>3. SelFits(SelectedCones(req[r].obj), req[r].obj, past'[r])
        BY <3>1, <3>2, FitsExtend
      <3>4. DefKey(q)' = DefKey(r)' => req[q].obj = req[r].obj
        BY <2>1 DEF DefKey
      <3>5. pc'[q] = "rules" /\ DefKey(q)' = DefKey(r)' => SelFits(sel[q], req[r].obj, past[r])'
        BY <2>1, <3>3, <3>4 DEF SelFits, EntriesOf, RulesOn
      <3>6. QED
        BY <2>1, <3>1, <3>5 DEF CarriedFits
    <2>3. Settled(q)'
      BY <2>1 DEF Settled
    <2>4. QED
      BY <1>2, <2>1, <2>2, <2>3
  <1>8. CASE BuildDefinition(q)
    <2> DEFINE d == Compile(EntriesOf(req[q].obj, sel[q]))
    <2>1. /\ Running(q) /\ pc[q] = "rules"
          /\ UNCHANGED <<policy, versions, caches, tx, req, scope, now>>
          /\ \A s \in Readers \ {q} : pc'[s] = pc[s] /\ sel'[s] = sel[s] /\ def'[s] = def[s]
          /\ pc'[q] \in {"persist", "invalid", "assign", "scope"}
      BY <1>1, <1>8 DEF BuildDefinition, UseDefinition, Goto, Running, TypeInv, TypeOK
    <2>2. d \in Definition
      BY <1>1, EntriesOfType, CompileType
    <2>3. ASSUME NEW r \in Readers, Watched(r), pc'[r] # "idle", DefKey(r) = DefKey(q)
          PROVE  DefFits(d, past'[r])
      <3>1. /\ req[r] \in Request /\ past'[r] = Extend(past[r], Moment(req[r]))
            /\ CarriedFits(q, r)
        BY <1>1, <2>1, <2>3, OneStay
      <3>2. req[r].obj = req[q].obj
        BY <2>3 DEF DefKey
      <3>3. SelFits(sel[q], req[r].obj, past[r])
        BY <2>1, <2>3, <3>1 DEF CarriedFits
      <3>4. QED
        BY <1>1, <3>1, <3>2, <3>3, BuildFits
    <2> HIDE DEF d
    <2>4. /\ def'[q] = d
          /\ Settled(q)'
      <3>1. CASE req[q].skip
        <4>1. UseDefinition(q, d)
          BY <1>8, <3>1 DEF BuildDefinition, d
        <4>2. QED
          <5>1. pc'[q] # "idle"
            BY <2>1
          <5>2. ~past'[q].blind => DefFits(d, past'[q])
            BY <2>1, <2>3, <5>1, SightKept DEF Watched
          <5>3. QED
            BY <1>1, <2>1, <2>2, <4>1, <5>2, UseFits
      <3>2. CASE ~req[q].skip
        <4>1. def'[q] = d /\ pc'[q] = "persist"
          BY <1>1, <1>8, <3>2 DEF BuildDefinition, Goto, TypeInv, TypeOK, d
        <4>2. QED
          BY <4>1 DEF Settled
      <3>3. QED
        BY <3>1, <3>2
    <2>5. ASSUME NEW r \in Readers, Watched(r), pc'[r] # "idle"
          PROVE  CachedFits(r)' /\ CarriedFits(q, r)'
      <3>1. CachedFits(r)'
        BY <1>1, <2>1, <2>5, OneStay
      <3>2. DefKey(r)' = DefKey(r) /\ DefKey(q)' = DefKey(q)
        BY <2>1 DEF DefKey
      <3>3. QED
        BY <2>1, <2>3, <2>4, <2>5, <3>1, <3>2 DEF CarriedFits, DefFits
    <2>6. QED
      BY <1>2, <2>1, <2>4, <2>5
  <1>9. CASE PersistDefinition(q)
    <2>1. /\ Running(q) /\ pc[q] = "persist"
          /\ UNCHANGED <<policy, versions, scopeCache, tx, req, sel, scope, now>>
      BY <1>9 DEF PersistDefinition, Running
    <2>2. CASE defCache[DefKey(q)] = None
      <3>1. defCache' = [defCache EXCEPT ![DefKey(q)] = def[q]] /\ UseDefinition(q, def[q])
        BY <1>9, <2>2 DEF PersistDefinition
      <3>2. def[q] \in Definition /\ pc'[q] # "idle"
        BY <1>1, <3>1 DEF UseDefinition, Goto, TypeInv, TypeOK
      <3>3. \A r \in Readers : Watched(r) /\ pc'[r] # "idle" /\ DefKey(r) = DefKey(q) =>
              DefFits(def[q], past'[r])
        BY <1>1, <2>1, OneStay, FitsExtend DEF CarriedFits
      <3>4. /\ def'[q] = def[q] /\ pc'[q] \in {"invalid", "assign", "scope"}
            /\ \A s \in Readers \ {q} : def'[s] = def[s] /\ pc'[s] = pc[s]
            /\ Settled(q)'
        BY <1>1, <2>1, <3>1, <3>2, <3>3, SightKept, UseFits DEF Watched
      <3>5. ASSUME NEW r \in Readers, Watched(r), pc'[r] # "idle"
            PROVE  CachedFits(r)' /\ CarriedFits(q, r)'
        <4>1. /\ CachedFits(r) /\ past'[r] = Extend(past[r], Moment(req[r]))
              /\ DefKey(r) \in Objects \X Versions /\ ScopeKey(r) \in Users \X Objects \X Versions
          BY <1>1, <2>1, <3>5, OneStay
        <4>2. DefKey(r)' = DefKey(r) /\ DefKey(q)' = DefKey(q) /\ ScopeKey(r)' = ScopeKey(r)
          BY <2>1 DEF DefKey, ScopeKey
        <4>3. CarriedFits(q, r)'
          BY <3>3, <3>4, <3>5, <4>2 DEF CarriedFits, DefFits
        <4>4. CASE DefKey(r) # DefKey(q)
          <5>1. defCache'[DefKey(r)] = defCache[DefKey(r)]
            BY <1>1, <3>1, <4>1, <4>4 DEF TypeInv, TypeOK
          <5>2. QED
            BY <2>1, <4>1, <4>3, <5>1, CachedStay
        <4>5. CASE DefKey(r) = DefKey(q)
          <5>1. defCache'[DefKey(r)] = def[q]
            BY <1>1, <3>1, <4>1, <4>5 DEF TypeInv, TypeOK
          <5>2. DefFits(def[q], past'[r])
            BY <3>3, <3>5, <4>5
          <5>3. scopeCache[ScopeKey(r)] # None =>
                    ScopeFits(scopeCache[ScopeKey(r)].entries, past'[r])
            BY <4>1, FitsExtend DEF CachedFits
          <5>4. CachedFits(r)'
            BY <2>1, <4>2, <5>1, <5>2, <5>3 DEF CachedFits, DefFits, ScopeFits
          <5>5. QED
            BY <4>3, <5>4
        <4>6. QED
          BY <4>4, <4>5
      <3>6. QED
        BY <1>2, <2>1, <3>4, <3>5
    <2>3. CASE defCache[DefKey(q)] # None
      <3>1. /\ \A s \in Readers \ {q} : pc'[s] = pc[s]
            /\ pc'[q] = "reread" /\ UNCHANGED <<defCache, def>>
        BY <1>1, <1>9, <2>3 DEF PersistDefinition, Goto, TypeInv, TypeOK
      <3>2. QED
        BY <1>5, <2>1, <3>1
    <2>4. QED
      BY <2>2, <2>3
  <1>10. CASE RereadDefinition(q)
    <2>1. Running(q) /\ UNCHANGED <<policy, versions, caches, tx, req, sel, scope, now>>
      BY <1>10 DEF RereadDefinition, Running
    <2>2. CASE defCache[DefKey(q)] # None
      BY <1>4, <1>10, <2>1, <2>2 DEF RereadDefinition
    <2>3. CASE defCache[DefKey(q)] = None
      <3>1. /\ \A s \in Readers \ {q} : pc'[s] = pc[s]
            /\ pc'[q] = "failed" /\ UNCHANGED def
        BY <1>1, <1>10, <2>3 DEF RereadDefinition, Goto, TypeInv, TypeOK
      <3>2. QED
        BY <1>5, <2>1, <3>1
    <2>4. QED
      BY <2>2, <2>3
  <1>11. CASE LookupScope(q)
    <2> DEFINE kept == scopeCache[ScopeKey(q)]
    <2>1. /\ Running(q) /\ pc[q] = "scope"
          /\ UNCHANGED <<policy, versions, caches, tx, req, sel, def, now>>
          /\ \A s \in Readers \ {q} : pc'[s] = pc[s] /\ scope'[s] = scope[s]
      BY <1>1, <1>11 DEF LookupScope, Goto, Running, TypeInv, TypeOK
    <2>2. \/ pc'[q] = "served" /\ kept # None /\ scope'[q] = kept.entries
          \/ pc'[q] = "assign"
      BY <1>1, <1>11 DEF LookupScope, Goto, TypeInv, TypeOK
    <2>3. ASSUME NEW r \in Readers, Watched(r), pc'[r] # "idle"
          PROVE  CachedFits(r)' /\ CarriedFits(q, r)'
      <3>1. /\ CachedFits(r)' /\ CarriedFits(q, r)
            /\ past'[r] = Extend(past[r], Moment(req[r]))
        BY <1>1, <2>1, <2>3, OneStay
      <3>2. DefKey(r)' = DefKey(r) /\ DefKey(q)' = DefKey(q)
        BY <2>1 DEF DefKey
      <3>3. DefKey(q) = DefKey(r) => DefFits(def[q], past'[r])
        BY <2>1, <3>1, FitsExtend DEF CarriedFits
      <3>4. CarriedFits(q, r)'
        BY <2>1, <2>2, <3>2, <3>3 DEF CarriedFits, DefFits
      <3>5. QED
        BY <3>1, <3>4
    <2>4. Settled(q)'
      <3>1. pc'[q] # "idle"
        BY <2>2
      <3>2. ~past'[q].blind =>
                CachedFits(q) /\ past'[q] = Extend(past[q], Moment(req[q]))
        BY <1>1, <2>1, <3>1, SightKept, OneStay DEF Watched
      <3>3. kept # None /\ ~past'[q].blind => ScopeFits(kept.entries, past'[q])
        BY <3>2, FitsExtend DEF CachedFits
      <3>4. def[q].status = "READY"
        BY <2>1 DEF FreshInv, Fitting, Settled
      <3>5. QED
        BY <2>1, <2>2, <3>3, <3>4 DEF Settled, ScopeFits
    <2>5. QED
      BY <1>2, <2>1, <2>3, <2>4
  <1>12. CASE FindAssignments(q)
    <2> DEFINE es == Applicable(def[q].entries, AssignedCones(req[q].user, now))
    <2>1. /\ Running(q) /\ pc[q] = "assign"
          /\ UNCHANGED <<policy, versions, caches, tx, req, sel, def, now>>
          /\ \A s \in Readers \ {q} : pc'[s] = pc[s] /\ scope'[s] = scope[s]
          /\ pc'[q] \in {"served", "store"} /\ scope'[q] = es
      BY <1>1, <1>12 DEF FindAssignments, Goto, Running, TypeInv, TypeOK
    <2>2. def[q].status = "READY"
      BY <2>1 DEF FreshInv, Fitting, Settled
    <2>3. ASSUME NEW r \in Readers, Watched(r), pc'[r] # "idle", ScopeKey(r) = ScopeKey(q)
          PROVE  ScopeFits(es, past'[r])
      <3>1. /\ req[r] \in Request /\ past'[r] = Extend(past[r], Moment(req[r]))
            /\ CarriedFits(q, r)
        BY <1>1, <2>1, <2>3, OneStay
      <3>2. req[r].user = req[q].user /\ DefKey(q) = DefKey(r)
        BY <2>3 DEF ScopeKey, DefKey
      <3>3. DefFits(def[q], past[r])
        BY <2>1, <3>1, <3>2 DEF CarriedFits
      <3>4. ScopeFits(Applicable(def[q].entries, AssignedCones(req[r].user, now)),
                      Extend(past[r], Moment(req[r])))
        BY <1>1, <2>2, <3>1, <3>3, AssignFits
      <3>5. QED
        BY <3>1, <3>2, <3>4
    <2> HIDE DEF es
    <2>4. ASSUME NEW r \in Readers, Watched(r), pc'[r] # "idle"
          PROVE  CachedFits(r)' /\ CarriedFits(q, r)'
      <3>1. CachedFits(r)'
        BY <1>1, <2>1, <2>4, OneStay
      <3>2. ScopeKey(r)' = ScopeKey(r) /\ ScopeKey(q)' = ScopeKey(q)
        BY <2>1 DEF ScopeKey
      <3>3. QED
        BY <2>1, <2>3, <2>4, <3>1, <3>2 DEF CarriedFits, ScopeFits
    <2>5. Settled(q)'
      <3>1. ~past'[q].blind => ScopeFits(es, past'[q])
        BY <2>1, <2>3, SightKept DEF Watched
      <3>2. QED
        BY <2>1, <3>1 DEF Settled, ScopeFits
    <2>6. QED
      BY <1>2, <2>1, <2>4, <2>5
  <1>13. CASE StoreScope(q)
    <2> DEFINE kept == [entries |-> scope[q], expires |-> now + TTL]
    <2>1. /\ Running(q) /\ pc[q] = "store"
          /\ UNCHANGED <<policy, versions, defCache, tx, req, sel, def, scope, now>>
          /\ \A s \in Readers \ {q} : pc'[s] = pc[s]
          /\ pc'[q] = "served"
          /\ scopeCache' = [scopeCache EXCEPT ![ScopeKey(q)] = kept]
      BY <1>1, <1>13 DEF StoreScope, Goto, Running, TypeInv, TypeOK
    <2>2. ASSUME NEW r \in Readers, Watched(r), pc'[r] # "idle", ScopeKey(r) = ScopeKey(q)
          PROVE  ScopeFits(scope[q], past'[r])
      BY <1>1, <2>1, <2>2, OneStay, FitsExtend DEF CarriedFits
    <2>3. ASSUME NEW r \in Readers, Watched(r), pc'[r] # "idle"
          PROVE  CachedFits(r)' /\ CarriedFits(q, r)'
      <3>1. /\ CachedFits(r) /\ past'[r] = Extend(past[r], Moment(req[r]))
            /\ DefKey(r) \in Objects \X Versions /\ ScopeKey(r) \in Users \X Objects \X Versions
        BY <1>1, <2>1, <2>3, OneStay
      <3>2. CarriedFits(q, r)'
        BY <2>1 DEF CarriedFits
      <3>3. CASE ScopeKey(r) # ScopeKey(q)
        <4>1. scopeCache'[ScopeKey(r)] = scopeCache[ScopeKey(r)]
          BY <1>1, <2>1, <3>1, <3>3 DEF TypeInv, TypeOK
        <4>2. QED
          BY <2>1, <3>1, <3>2, <4>1, CachedStay
      <3>4. CASE ScopeKey(r) = ScopeKey(q)
        <4>1. scopeCache'[ScopeKey(r)] = kept
          BY <1>1, <2>1, <3>1, <3>4 DEF TypeInv, TypeOK
        <4>2. ScopeFits(kept.entries, past'[r])
          BY <2>2, <2>3, <3>4
        <4>3. defCache[DefKey(r)] # None => DefFits(defCache[DefKey(r)], past'[r])
          BY <3>1, FitsExtend DEF CachedFits
        <4>4. DefKey(r)' = DefKey(r) /\ ScopeKey(r)' = ScopeKey(r)
          BY <2>1 DEF DefKey, ScopeKey
        <4>5. CachedFits(r)'
          BY <2>1, <4>1, <4>2, <4>3, <4>4 DEF CachedFits, DefFits, ScopeFits
        <4>6. QED
          BY <3>2, <4>5
      <3>5. QED
        BY <3>3, <3>4
    <2>4. Settled(q)'
      <3>1. ~past'[q].blind => ScopeFits(scope[q], past'[q])
        BY <2>1, <2>2, SightKept DEF Watched
      <3>2. QED
        BY <2>1, <3>1 DEF Settled, ScopeFits
    <2>5. QED
      BY <1>2, <2>1, <2>3, <2>4
  <1>14. CASE EndEvaluate(q)
    <2>1. /\ UNCHANGED <<policy, versions, caches, tx, now>> /\ pc'[q] = "idle"
          /\ \A s \in Readers \ {q} : /\ pc'[s] = pc[s] /\ req'[s] = req[s] /\ sel'[s] = sel[s]
                                      /\ def'[s] = def[s] /\ scope'[s] = scope[s]
      BY <1>1, <1>14 DEF EndEvaluate, Goto, TypeInv, TypeOK
    <2>2. ASSUME NEW r \in Readers, Watched(r)'
          PROVE  CachedFits(r)' /\ CarriedFits(q, r)'
      <3>1. r # q /\ Watched(r) /\ pc'[r] # "idle" /\ req'[r] = req[r]
        BY <2>1, <2>2, SightKept DEF Watched, Running
      <3>2. CachedFits(r)'
        BY <1>1, <2>1, <3>1, OneStay
      <3>3. QED
        BY <2>1, <3>2 DEF CarriedFits
    <2>3. Settled(q)'
      BY <2>1 DEF Settled
    <2>4. QED
      BY <1>1, <2>1, <2>2, <2>3, OneFresh
  <1>15. QED
    BY <1>3, <1>6, <1>7, <1>8, <1>9, <1>10, <1>11, <1>12, <1>13, <1>14 DEF Evaluate

LEMMA AdministerFresh ==
    ASSUME TypeInv, FreshInv, Decays, SubmittedCompile', NEW a \in Admins, Administer(a),
           Remember
    PROVE  FreshInv'
  <1>1. CASE Commit(a)
    <2>1. tx[a].objs \in SUBSET Objects /\ Bump(tx[a].objs) /\ UNCHANGED locals
      BY <1>1 DEF Commit, TypeInv, TypeOK, ConeTx, RuleTx, AssignTx, BootstrapTx
    <2>2. /\ \A k \in Objects \X Versions : defCache'[k] \in {None, defCache[k]}
          /\ \A k \in Users \X Objects \X Versions : scopeCache'[k] \in {None, scopeCache[k]}
      BY <2>1 DEF Bump
    <2>3. QED
      BY <2>1, <2>2, BackgroundFresh
  <1>2. CASE UNCHANGED <<caches, locals>>
    BY <1>2, BackgroundFresh
  <1>3. QED
    BY <1>1, <1>2 DEF Administer, Open, CreateCone, UpdateCone, DeleteCone, CreateRule,
       UpdateRule, DeleteRule, EnsureBootstrap, CreateAssignment, UpdateAssignment,
       DeleteAssignment, Rollback

\* The history restricts nothing.
LEMMA HistoryOnly == FSpec => Spec
  <1>1. FInit => Init
    BY DEF FInit
  <1>2. [FNext]_fvars => [Next]_vars
    BY DEF FNext, fvars
  <1>3. QED
    BY <1>1, <1>2, PTL DEF FSpec, Spec

\* While administrators take turns, an answer lies between what stood throughout the
\* request and what was in force at some moment of it, through both caches and whatever
\* is committed meanwhile; evaluations that could not read the version of their object,
\* and work with the rows of version 1, do not make the others answer otherwise (evaluate).
THEOREM FreshAnswers ==
    ASSUME SerialAdmins
    PROVE  FSpec => []AnswersTheRequest
  <1>1. FInit => FreshInv
    BY DEF FInit, Init, FreshInv, SubmittedCompile, Fitting, Watched, Running, Settled
  <1>2. CoherenceInv /\ FreshInv /\ [FNext]_fvars => FreshInv'
    <2> SUFFICES ASSUME CoherenceInv, FreshInv, [FNext]_fvars PROVE FreshInv'
      OBVIOUS
    <2>1. TypeInv /\ SubmittedCompile
      BY DEF CoherenceInv, VersionInv, FreshInv
    <2>2. SubmittedCompile' /\ Decays
      BY <2>1, SubmittedStep DEF FNext, fvars
    <2>3. CASE UNCHANGED fvars
      <3>1. UNCHANGED <<caches, locals, past>>
        BY <2>3 DEF fvars, vars
      <3>2. QED
        BY <2>1, <2>2, <3>1, BackgroundFresh
    <2>4. CASE Tick /\ Remember
      <3>1. UNCHANGED <<caches, locals>>
        BY <2>4 DEF Tick
      <3>2. QED
        BY <2>1, <2>2, <2>4, <3>1, BackgroundFresh
    <2>5. QED
      BY <2>1, <2>2, <2>3, <2>4, AdministerFresh, EvaluateFresh DEF FNext, Next
  <1>3. FreshInv => AnswersTheRequest
    BY DEF FreshInv, Fitting, Settled, ScopeFits, AnswersTheRequest
  <1>4. QED
    BY <1>1, <1>2, <1>3, HistoryOnly, CoherenceInvariance, PTL DEF FSpec


-----------------------------------------------------------------------------
(* Theorems about VisibilityDecision, for every policy, subject and field path. *)

\* A path below a path below e is below e.
LEMMA UnderTransitive ==
    ASSUME NEW f \in Paths, NEW e \in Paths, NEW d \in Paths, Under(f, e), Under(e, d)
    PROVE  Under(f, d)
  <1>1. f \in Seq(Names) /\ e \in Seq(Names) /\ d \in Seq(Names)
    BY DecisionAssumption
  <1>2. Len(f) \in Nat /\ Len(e) \in Nat /\ Len(d) \in Nat
    BY <1>1
  <1>3. Len(d) <= Len(f) /\ 1 .. Len(d) \subseteq 1 .. Len(e)
    BY <1>2 DEF Under
  <1>4. QED
    BY <1>3 DEF Under

\* The query that selects the assignments is the rule of the guide.
LEMMA SelectorsAsGuided ==
    ASSUME NEW s \in Selector, NEW c \in Context
    PROVE  Applies(s, c) <=> GuideApplies(s, c)
  <1>1. DOMAIN s = {"contact", "permission", "trait"}
    BY DEF Selector
  <1>2. /\ None \notin {c.subject} \cup c.alternates
        /\ None \notin c.permissions
    BY DecisionAssumption DEF Context
  <1> DEFINE valued == {k \in DOMAIN s : s[k] # None}
  <1>3. /\ "contact" \in valued <=> s.contact # None
        /\ "permission" \in valued <=> s.permission # None
        /\ "trait" \in valued <=> s.trait # None
        /\ valued # {} <=> s.contact # None \/ s.permission # None \/ s.trait # None
    BY <1>1
  <1> HIDE DEF valued
  <1>4. GuideApplies(s, c) <=>
            /\ valued # {}
            /\ "contact" \in valued => s.contact = c.subject \/ s.contact \in c.alternates
            /\ "permission" \in valued => s.permission \in c.permissions
            /\ "trait" \in valued => s.trait = c.trait
    BY DEF GuideApplies, valued
  <1>5. QED
    BY <1>2, <1>3, <1>4 DEF Applies

LEMMA RuleType ==
    ASSUME DecisionTypeOK, NEW i \in DOMAIN ruleList
    PROVE  /\ ruleList[i].cone \in Cones /\ ruleList[i].effect \in {"ALLOW", "DENY"}
           /\ ruleList[i].when \subseteq Records
           /\ ruleList[i].allowed \subseteq Paths /\ ruleList[i].denied \subseteq Paths
           /\ selectors[ruleList[i].cone] \subseteq Selector
  <1>1. ruleList[i] \in Rule
    BY DEF DecisionTypeOK
  <1>2. QED
    BY <1>1 DEF Rule, DecisionTypeOK

LEMMA NoneApart == \A s \in SUBSET Paths : s # None
  BY DecisionAssumption

LEMMA RulesAsGuided ==
    ASSUME DecisionTypeOK, NEW c \in Context
    PROVE  /\ Allows(c) = GuideRules(c, "ALLOW")
           /\ Denies(c) = GuideRules(c, "DENY")
           /\ ApplicableRules(c) = GuideRules(c, "ALLOW") \cup GuideRules(c, "DENY")
  <1>1. \A i \in DOMAIN ruleList : /\ ruleList[i].effect \in {"ALLOW", "DENY"}
                                /\ selectors[ruleList[i].cone] \subseteq Selector
    BY RuleType
  <1>2. QED
    BY <1>1, SelectorsAsGuided DEF Allows, Denies, ApplicableRules, GuideRules

\* The list the rules leave is below every list and clear of the denied paths.
LEMMA CompiledFieldsWithin ==
    ASSUME DecisionTypeOK, NEW c \in Context, CompiledFields(c) # None
    PROVE  /\ CompiledFields(c) \subseteq Paths
           /\ \A f \in CompiledFields(c), i \in Allows(c) :
                ruleList[i].allowed # {} => Covered(f, ruleList[i].allowed)
  <1> DEFINE lists == {i \in Allows(c) : ruleList[i].allowed # {}}
  <1>1. CompiledFields(c) =
            {f \in Paths : \E i \in lists :
                /\ \A j \in lists : i <= j
                /\ f \in ruleList[i].allowed
                /\ \A j \in lists \ {i} : Covered(f, ruleList[j].allowed)
                /\ ~Covered(f, DeniedFields(c))}
    BY DEF CompiledFields
  <1>2. \A f \in Paths : Under(f, f)
    BY DecisionAssumption DEF Under
  <1>3. ASSUME NEW f \in CompiledFields(c), NEW i \in lists
        PROVE  Covered(f, ruleList[i].allowed)
    <2>1. PICK k \in lists : /\ f \in ruleList[k].allowed
                             /\ \A j \in lists \ {k} : Covered(f, ruleList[j].allowed)
      BY <1>1
    <2>2. CASE i = k
      BY <1>1, <1>2, <2>1, <2>2 DEF Covered
    <2>3. QED
      BY <2>1, <2>2
  <1>4. QED
    BY <1>1, <1>3

LEMMA CompiledFieldsType ==
    ASSUME DecisionTypeOK, NEW c \in Context
    PROVE  CompiledFields(c) \in {None} \cup SUBSET Paths
  BY CompiledFieldsWithin

LEMMA ResolvedFieldsWithin ==
    ASSUME DecisionTypeOK, NEW c \in Context
    PROVE  ShownFields(ResolvedEvaluation(c)) \subseteq GuideFields(c)
  <1> DEFINE e == ResolvedEvaluation(c)
  <1> SUFFICES ASSUME NEW f \in ShownFields(e)
               PROVE  f \in GuideFields(c)
    OBVIOUS
  <1>1. /\ e.fields = CompiledFields(c) /\ e.denied = DeniedFields(c)
        /\ e.reason = Reason(CompiledPredicate(c), CompiledFields(c))
    BY DEF ResolvedEvaluation
  <1>2. /\ f \in Paths /\ e.reason = "ALLOW_MATCH"
        /\ CompiledFields(c) \notin {None, {}} => Covered(f, CompiledFields(c))
        /\ ~Covered(f, DeniedFields(c))
    BY <1>1 DEF ShownFields
  <1>3. CompiledFields(c) # {}
    BY <1>1, <1>2 DEF Reason
  <1>4. ASSUME NEW i \in Allows(c), ruleList[i].allowed # {}
        PROVE  Covered(f, ruleList[i].allowed)
    <2>1. CompiledFields(c) # None
      <3>1. {j \in Allows(c) : ruleList[j].allowed # {}} # {}
        BY <1>4
      <3>2. CompiledFields(c) \in SUBSET Paths
        BY <3>1 DEF CompiledFields
      <3>3. QED
        BY <3>2, NoneApart
    <2>2. PICK e1 \in CompiledFields(c) : Under(f, e1)
      BY <1>2, <1>3, <2>1 DEF Covered
    <2>3. PICK e2 \in ruleList[i].allowed : Under(e1, e2)
      BY <1>4, <2>1, <2>2, CompiledFieldsWithin DEF Covered
    <2>4. e1 \in Paths /\ e2 \in Paths
      BY <2>1, <2>2, <2>3, CompiledFieldsWithin, RuleType DEF Allows, ApplicableRules
    <2>5. Under(f, e2)
      BY <1>2, <2>2, <2>3, <2>4, UnderTransitive
    <2>6. QED
      BY <2>3, <2>5 DEF Covered
  <1>5. \A i \in ApplicableRules(c) : ~Covered(f, ruleList[i].denied)
    BY <1>2 DEF DeniedFields, Covered
  <1>6. QED
    BY <1>2, <1>4, <1>5, RulesAsGuided DEF GuideFields

LEMMA ResolvedRecordsWithin ==
    ASSUME DecisionTypeOK, NEW c \in Context
    PROVE  ShownRecords(ResolvedEvaluation(c)) \subseteq GuideRecords(c)
  <1> DEFINE e == ResolvedEvaluation(c)
  <1> SUFFICES ASSUME NEW x \in ShownRecords(e)
               PROVE  x \in GuideRecords(c)
    OBVIOUS
  <1>1. e.predicate = CompiledPredicate(c) /\ e.reason = Reason(CompiledPredicate(c), CompiledFields(c))
    BY DEF ResolvedEvaluation
  <1>2. e.reason = "ALLOW_MATCH" /\ x \in CompiledPredicate(c)
    BY <1>1 DEF ShownRecords
  <1>3. CompiledPredicate(c) # None
    BY <1>1, <1>2 DEF Reason
  <1>4. /\ x \in Records
        /\ \E i \in Allows(c) : x \in ruleList[i].when
        /\ \A i \in Denies(c) : x \notin ruleList[i].when
    BY <1>2, <1>3 DEF CompiledPredicate
  <1>5. QED
    BY <1>4, RulesAsGuided DEF GuideRecords

LEMMA ResolvedType ==
    ASSUME DecisionTypeOK, NEW c \in Context
    PROVE  ResolvedEvaluation(c) \in Evaluation
  <1>1. CompiledFields(c) \in {None} \cup SUBSET Paths
    BY CompiledFieldsType
  <1>2. \A i \in ApplicableRules(c) : ruleList[i] \in Rule
    BY DEF ApplicableRules, DecisionTypeOK
  <1>3. CompiledPredicate(c) \in {None} \cup SUBSET Records
    BY <1>2 DEF CompiledPredicate, Allows, Rule
  <1>4. DeniedFields(c) \in SUBSET Paths
    BY <1>2 DEF DeniedFields, Rule
  <1>5. QED
    BY <1>1, <1>3, <1>4 DEF ResolvedEvaluation, Evaluation, Reason

\* What an answer that was not read from the cache is.
ComputedInv ==
    Fresh => answer.result = IF Invalid THEN InvalidEvaluation ELSE ResolvedEvaluation(answer.who)

LEMMA SameResolved ==
    ASSUME UNCHANGED <<ruleList, selectors>>
    PROVE  Invalid' = Invalid /\ \A c : ResolvedEvaluation(c)' = ResolvedEvaluation(c)
  <1>1. \A c : /\ ApplicableRules(c)' = ApplicableRules(c)
               /\ Allows(c)' = Allows(c) /\ Denies(c)' = Denies(c)
    BY DEF Allows, Denies, ApplicableRules
  <1>2. \A c : /\ DeniedFields(c)' = DeniedFields(c)
               /\ CompiledPredicate(c)' = CompiledPredicate(c)
    BY <1>1 DEF DeniedFields, CompiledPredicate
  <1>3. \A c : CompiledFields(c)' = CompiledFields(c)
    BY <1>1, <1>2 DEF CompiledFields
  <1>4. QED
    BY <1>2, <1>3 DEF ResolvedEvaluation, Invalid

LEMMA NextType ==
    ASSUME DecisionTypeOK, ComputedInv, [DecisionNext]_decisionVars
    PROVE  DecisionTypeOK' /\ ComputedInv'
  <1> USE DecisionAssumption
  <1>1. \A c \in Context : KeyOf(c) \in Key
    BY DEF KeyOf, Key, Context
  <1>2. ASSUME UNCHANGED <<ruleList, selectors>>
        PROVE  \A c : ResolvedEvaluation(c)' = ResolvedEvaluation(c)
    BY <1>2, SameResolved
  <1>3. ASSUME NEW c \in Contexts, Refuse(c)
        PROVE  DecisionTypeOK' /\ ComputedInv'
    <2>1. InvalidEvaluation \in Evaluation /\ c \in Context
      BY DEF InvalidEvaluation, Evaluation
    <2>2. QED
      BY <1>3, <2>1 DEF Refuse, Answer, DecisionTypeOK, ComputedInv, Fresh, Invalid, InvalidEvaluation
  <1>4. ASSUME NEW c \in Contexts, Resolve(c)
        PROVE  DecisionTypeOK' /\ ComputedInv'
    <2>1. c \in Context /\ ResolvedEvaluation(c) \in Evaluation
      BY ResolvedType
    <2>2. Stored(ResolvedEvaluation(c)) \in CachedScope
      BY <2>1 DEF Stored, CachedScope, Evaluation
    <2>3. DecisionTypeOK'
      BY <1>1, <1>4, <2>1, <2>2 DEF Resolve, Answer, DecisionTypeOK
    <2>4. answer' = [who |-> c, cached |-> FALSE, result |-> ResolvedEvaluation(c)]
      BY <1>4 DEF Resolve, Answer
    <2>5. ~Invalid' /\ ResolvedEvaluation(c)' = ResolvedEvaluation(c)
      BY <1>2, <1>4 DEF Resolve, Invalid
    <2>6. QED
      BY <2>3, <2>4, <2>5 DEF ComputedInv
  <1>5. ASSUME NEW c \in Contexts, AnswerFromCache(c)
        PROVE  DecisionTypeOK' /\ ComputedInv'
    <2>1. c \in Context /\ row[KeyOf(c)] \in CachedScope
      BY <1>1, <1>5 DEF AnswerFromCache, DecisionTypeOK
    <2>2. CachedEvaluation(row[KeyOf(c)]) \in Evaluation
      BY <2>1 DEF CachedEvaluation, CachedScope, Evaluation, Reason
    <2>3. QED
      BY <1>5, <2>1, <2>2 DEF AnswerFromCache, Answer, DecisionTypeOK, ComputedInv, Fresh
  <1>6. ASSUME NEW i \in DOMAIN ruleList, SaveAgain(i)
        PROVE  DecisionTypeOK' /\ ComputedInv'
    <2>1. PICK last \in DOMAIN ruleList :
            ruleList' = [j \in DOMAIN ruleList |->
                        IF j < i \/ j > last THEN ruleList[j]
                        ELSE IF j = last THEN ruleList[i] ELSE ruleList[j + 1]]
      BY <1>6 DEF SaveAgain
    <2>2. DOMAIN ruleList = 1 .. Len(ruleList) /\ Len(ruleList) \in Nat /\ \A j \in DOMAIN ruleList : ruleList[j] \in Rule
      BY DEF DecisionTypeOK
    <2>3. \A j \in DOMAIN ruleList : j <= last /\ j # last => j + 1 \in DOMAIN ruleList
      BY <2>1, <2>2
    <2>4. ruleList' \in [1 .. Len(ruleList) -> Rule]
      BY <2>1, <2>2, <2>3
    <2>5. ruleList' \in Seq(Rule)
      BY <2>2, <2>4
    <2>6. QED
      BY <1>6, <2>5 DEF SaveAgain, DecisionTypeOK, ComputedInv, Fresh
  <1>7. ASSUME NEW k \in Key, Expire(k)
        PROVE  DecisionTypeOK' /\ ComputedInv'
    <2>1. DecisionTypeOK'
      BY <1>7 DEF Expire, DecisionTypeOK
    <2>2. UNCHANGED <<ruleList, selectors, answer>>
      BY <1>7 DEF Expire
    <2>3. QED
      BY <1>2, <2>1, <2>2 DEF ComputedInv, Fresh, Invalid
  <1>8. CASE UNCHANGED decisionVars
    <2>1. UNCHANGED <<ruleList, selectors, answer, row>>
      BY <1>8 DEF decisionVars
    <2>2. QED
      BY <1>2, <2>1 DEF DecisionTypeOK, ComputedInv, Fresh, Invalid
  <1>9. QED
    BY <1>3, <1>4, <1>5, <1>6, <1>7, <1>8 DEF DecisionNext

LEMMA DecisionInvariance == DecisionSpec => [](DecisionTypeOK /\ ComputedInv)
  <1>1. DecisionInit => DecisionTypeOK /\ ComputedInv
    BY DecisionAssumption DEF DecisionInit, DecisionTypeOK, ComputedInv, Fresh
  <1>2. QED
    BY <1>1, NextType, PTL DEF DecisionSpec

LEMMA InvalidShowsNoField ==
    ShownFields(InvalidEvaluation) = {} /\ ShownRecords(InvalidEvaluation) = {}
  BY DEF ShownFields, ShownRecords, InvalidEvaluation

\* A computed answer never shows a field outside a list or below a denied path, for
\* every policy and every depth of paths (resolveCompiledFields, applyFieldVisibility).
THEOREM FieldsSound == DecisionSpec => []FieldsWithinGuide
  <1>1. DecisionTypeOK /\ ComputedInv => FieldsWithinGuide
    <2> SUFFICES ASSUME DecisionTypeOK, ComputedInv, Fresh
                 PROVE  ShownFields(answer.result) \subseteq GuideFields(answer.who)
      BY DEF FieldsWithinGuide
    <2>1. answer.who \in Context
      BY DEF DecisionTypeOK, Fresh
    <2>2. QED
      BY <2>1, InvalidShowsNoField, ResolvedFieldsWithin DEF ComputedInv
  <1>2. QED
    BY <1>1, DecisionInvariance, PTL

\* A computed answer never shows a record that no applicable ALLOW selects, or that an
\* applicable DENY does (findApplicableAssignments, composeCompiledPredicate).
THEOREM RecordsSound == DecisionSpec => []RecordsWithinGuide
  <1>1. DecisionTypeOK /\ ComputedInv => RecordsWithinGuide
    <2> SUFFICES ASSUME DecisionTypeOK, ComputedInv, Fresh
                 PROVE  ShownRecords(answer.result) \subseteq GuideRecords(answer.who)
      BY DEF RecordsWithinGuide
    <2>1. answer.who \in Context
      BY DEF DecisionTypeOK, Fresh
    <2>2. QED
      BY <2>1, InvalidShowsNoField, ResolvedRecordsWithin DEF ComputedInv
  <1>2. QED
    BY <1>1, DecisionInvariance, PTL

\* A computed answer shows no field and no record that the guide withholds, for every
\* policy and every subject (docs/visibility-cones-guide.md, evaluate).
THEOREM GuideKept == DecisionSpec => []WithinGuide
  BY FieldsSound, RecordsSound, PTL DEF WithinGuide

\* Every variable keeps its type: what a row of the scope cache holds is a scope and
\* what is answered is an evaluation (upsertUserScopeCache, evaluate).
THEOREM DecisionTypeCorrect == DecisionSpec => []DecisionTypeOK
  BY DecisionInvariance, PTL

-----------------------------------------------------------------------------
(* Answers from the cache. *)

\* A row holds what was stored for a context of its key, under a valid policy.
RowInv ==
    \A k \in Key : row[k] # None =>
        ~Invalid /\ \E c \in Context : KeyOf(c) = k /\ row[k] = Stored(ResolvedEvaluation(c))

\* A policy that is invalid is so in every state, and refuses.
RefusedInv == answer # None /\ Invalid => answer.result = InvalidEvaluation

LEMMA StoredAndRead ==
    ASSUME DecisionTypeOK, NEW c \in Context, ResolvedEvaluation(c).fields # {}
    PROVE  CachedEvaluation(Stored(ResolvedEvaluation(c))) = ResolvedEvaluation(c)
  BY DEF CachedEvaluation, Stored, ResolvedEvaluation

CachedInv == RowInv /\ RefusedInv /\ CachedAnswerAgrees

LEMMA CachedStep ==
    ASSUME DecisionTypeOK, CachedInv, [DecisionNext]_decisionVars
    PROVE  CachedInv'
  <1> USE DecisionAssumption DEF CachedInv
  <1>1. \A c \in Context : KeyOf(c) \in Key
    BY DEF KeyOf, Key, Context
  <1>2. ASSUME UNCHANGED <<ruleList, selectors>>,
               \A k \in Key : row'[k] = row[k] \/ row'[k] = None
        PROVE  RowInv'
    BY <1>2, SameResolved DEF RowInv
  <1>3. ASSUME UNCHANGED <<ruleList, selectors, answer>>
        PROVE  RefusedInv' /\ CachedAnswerAgrees'
    BY <1>3, SameResolved DEF RefusedInv, CachedAnswerAgrees
  <1>4. ASSUME NEW c \in Contexts, Refuse(c) PROVE CachedInv'
    <2>1. answer' = [who |-> c, cached |-> FALSE, result |-> InvalidEvaluation]
          /\ UNCHANGED <<ruleList, selectors, row>>
      BY <1>4 DEF Refuse, Answer
    <2>2. RefusedInv' /\ CachedAnswerAgrees'
      BY <2>1 DEF RefusedInv, CachedAnswerAgrees, InvalidEvaluation
    <2>3. QED
      BY <1>2, <2>1, <2>2
  <1>5. ASSUME NEW c \in Contexts, Resolve(c) PROVE CachedInv'
    <2>1. /\ answer' = [who |-> c, cached |-> FALSE, result |-> ResolvedEvaluation(c)]
          /\ row' = [row EXCEPT ![KeyOf(c)] = Stored(ResolvedEvaluation(c))]
          /\ UNCHANGED <<ruleList, selectors>> /\ ~Invalid
      BY <1>5 DEF Resolve, Answer
    <2>2. c \in Context /\ ~Invalid' /\ ResolvedEvaluation(c)' = ResolvedEvaluation(c)
      BY <2>1, SameResolved
    <2>3. \A e : Stored(e)' = Stored(e)
      BY DEF Stored
    <2>4. ASSUME NEW k \in Key, row'[k] # None
          PROVE  \E b \in Context : KeyOf(b) = k /\ row'[k] = Stored(ResolvedEvaluation(b)')
      <3>1. CASE k = KeyOf(c)
        BY <2>1, <2>2, <3>1 DEF DecisionTypeOK
      <3>2. CASE k # KeyOf(c)
        BY <2>1, <2>4, <3>2, SameResolved DEF RowInv, DecisionTypeOK
      <3>3. QED
        BY <3>1, <3>2
    <2>5. RowInv'
      BY <2>2, <2>4, <2>3 DEF RowInv
    <2>6. RefusedInv' /\ CachedAnswerAgrees'
      BY <2>1, <2>2 DEF RefusedInv, CachedAnswerAgrees
    <2>7. QED
      BY <2>5, <2>6
  <1>6. ASSUME NEW c \in Contexts, AnswerFromCache(c) PROVE CachedInv'
    <2>1. /\ answer' = [who |-> c, cached |-> TRUE, result |-> CachedEvaluation(row[KeyOf(c)])]
          /\ UNCHANGED <<ruleList, selectors, row>> /\ ~Invalid
          /\ row[KeyOf(c)] # None /\ c \in Context
      BY <1>6 DEF AnswerFromCache, Answer
    <2>2. PICK b \in Context : /\ KeyOf(b) = KeyOf(c)
                               /\ row[KeyOf(c)] = Stored(ResolvedEvaluation(b))
      BY <1>1, <2>1 DEF RowInv
    <2>3. answer'.result = ResolvedEvaluation(b) \/ ResolvedEvaluation(b).fields = {}
      BY <2>1, <2>2, StoredAndRead
    <2>4. CachedAnswerAgrees'
      BY <2>1, <2>2, <2>3, SameResolved DEF CachedAnswerAgrees
    <2>5. RefusedInv'
      BY <2>1, SameResolved DEF RefusedInv
    <2>6. QED
      BY <1>2, <2>1, <2>4, <2>5
  <1>7. ASSUME NEW i \in DOMAIN ruleList, SaveAgain(i) PROVE CachedInv'
    BY <1>7 DEF SaveAgain, RowInv, RefusedInv, CachedAnswerAgrees
  <1>8. ASSUME NEW k \in Key, Expire(k) PROVE CachedInv'
    <2>1. UNCHANGED <<ruleList, selectors, answer>> /\ row' = [row EXCEPT ![k] = None]
      BY <1>8 DEF Expire
    <2>2. QED
      BY <1>2, <1>3, <2>1 DEF DecisionTypeOK
  <1>9. CASE UNCHANGED decisionVars
    BY <1>2, <1>3, <1>9 DEF decisionVars
  <1>10. QED
    BY <1>4, <1>5, <1>6, <1>7, <1>8, <1>9 DEF DecisionNext

LEMMA CachedInvariance == DecisionSpec => [](DecisionTypeOK /\ CachedInv)
  <1>1. DecisionInit => CachedInv
    BY DEF DecisionInit, CachedInv, RowInv, RefusedInv, CachedAnswerAgrees
  <1>2. QED
    BY <1>1, CachedStep, DecisionTypeCorrect, PTL DEF DecisionSpec

\* An answer from the cache is the one computed for a context of the same key, or that
\* one had a field list with nothing in it, for every policy and any order of answers,
\* expiries and saves (getCachedUserScope, upsertUserScopeCache).
THEOREM CacheAgrees == DecisionSpec => []CachedAnswerAgrees
  BY CachedInvariance, PTL DEF CachedInv
=============================================================================
