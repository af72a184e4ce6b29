--------------------------- MODULE VisibilityPolicy ---------------------------
(***************************************************************************)
(* The visibility policy store and its two read-path caches                *)
(* (src/backend/src/visibility).                                           *)
(*                                                                         *)
(* Administrators change cones, rules and assignments in database          *)
(* transactions that also bump the policy versions and delete the cached   *)
(* rows of the objects they believe affected (VisibilityAdminService).     *)
(* Requests evaluate the policy of one subject on one object: they read    *)
(* the object's version, then the definition cache, then the scope cache,  *)
(* and fill both on a miss (VisibilityService.evaluate).  Every await of   *)
(* the code is a step here, so requests and transactions interleave.       *)
(*                                                                         *)
(* PostgreSQL runs the transactions at READ COMMITTED.  The statements     *)
(* that write data come after the ones that list the affected objects, and *)
(* the upsert of the global version row locks it until the commit, so the  *)
(* writes, the bump and the deletion of one transaction are one Commit     *)
(* step; the listing that precedes them is a step of its own.  A cache row *)
(* a request inserts between the deletion and the commit survives the      *)
(* transaction: that is the order in which the request inserts it just     *)
(* after the commit, which the model has.                                  *)
(***************************************************************************)
EXTENDS Naturals, VisibilityTerms

CONSTANTS
    Admins,          \* administrators, one open transaction each
    Readers,         \* concurrent evaluations
    Users, Objects,  \* subjects and Salesforce object API names
    Rules, Assigns,          \* row identifiers of the policy tables, with Cones
    Bodies,          \* what a rule says: effect, condition, field lists
    InvalidBodies,   \* those the rule compiler rejects
    BootstrapCone, BootstrapBody,    \* what an entity's bootstrap creates
    RuleInputs, AssignInputs,        \* the rows administrators submit
    InitPolicies,    \* the policies in service at the start
    InitVersion,     \* version of every object in the initial states
    MaxVersion,      \* bound on the global policy version
    MaxTime, TTL,    \* bound on the clock, lifetime of a scope row
    SkipModes,               \* the values of skipCache that callers pass
    VersionReadMayFail       \* whether the read of a version can fail

Versions == 1 .. MaxVersion
Times == 0 .. MaxTime

ConeState == {"absent", "active", "inactive"}
RuleRow == [cone : Cones, obj : Objects, active : BOOLEAN, body : Bodies]
AssignRow == [cone : Cones, user : Users, from : Times, until : Times]
Entry == [cone : Cones, rule : Rules, body : Bodies]
Definition == [status : {"READY", "INVALID"}, entries : SUBSET Entry]
ScopeRow == [entries : SUBSET Entry, expires : Nat]
Request == [user : Users, obj : Objects, skip : BOOLEAN, ver : Versions]

ConeTx == [table : {"cone"}, op : {"create", "update"},
           id : Cones, row : {"active", "inactive"}, objs : SUBSET Objects]
          \cup [table : {"cone"}, op : {"delete"},
                id : Cones, row : {"absent"}, objs : SUBSET Objects]
RuleTx == [table : {"rule"}, op : {"create", "update", "delete"},
           id : Rules, row : RuleRow \cup {None}, objs : SUBSET Objects]
AssignTx == [table : {"assign"}, op : {"create", "update", "delete"},
             id : Assigns, row : AssignRow \cup {None}, objs : SUBSET Objects]
BootstrapTx == [table : {"bootstrap"}, newCone : BOOLEAN, newRule : BOOLEAN,
                id : Rules, row : {x \in RuleRow : x.cone = BootstrapCone},
                objs : SUBSET Objects]

ASSUME BoundsAssumption ==
    /\ InitVersion \in Nat \ {0} /\ MaxVersion \in Nat /\ InitVersion <= MaxVersion
    /\ MaxTime \in Nat /\ TTL \in Nat \ {0}
    /\ SkipModes \subseteq BOOLEAN /\ VersionReadMayFail \in BOOLEAN

ASSUME PolicyAssumption ==
    /\ InvalidBodies \subseteq Bodies
    /\ BootstrapCone \in Cones /\ BootstrapBody \in Bodies \ InvalidBodies
    /\ RuleInputs \subseteq RuleRow /\ AssignInputs \subseteq AssignRow
    /\ \A x \in RuleInputs : x.body \notin InvalidBodies
    /\ \A p \in InitPolicies :
        /\ p.cones \in [Cones -> ConeState]
        /\ p.rules \in [Rules -> RuleRow \cup {None}]
        /\ p.assigns \in [Assigns -> AssignRow \cup {None}]
        /\ \A r \in Rules : p.rules[r] # None => p.cones[p.rules[r].cone] # "absent"
        /\ \A a \in Assigns : p.assigns[a] # None => p.cones[p.assigns[a].cone] # "absent"

ASSUME NoneAssumption ==
    /\ None \notin RuleRow /\ None \notin AssignRow
    /\ None \notin Definition /\ None \notin ScopeRow /\ None \notin Request
    /\ None \notin ConeTx /\ None \notin RuleTx
    /\ None \notin AssignTx /\ None \notin BootstrapTx

VARIABLES
    cones, rules, assigns,          \* the policy tables
    policyVersion, objVersion,      \* policy_meta, object_policy_version
    defCache, scopeCache,           \* the two cache tables
    tx,                             \* the open transaction of each administrator
    pc, req, sel, def, scope,       \* the local state of each evaluation
    now

policy == <<cones, rules, assigns>>
versions == <<policyVersion, objVersion>>
caches == <<defCache, scopeCache>>
locals == <<pc, req, sel, def, scope>>
vars == <<cones, rules, assigns, policyVersion, objVersion, defCache,
          scopeCache, tx, pc, req, sel, def, scope, now>>

EmptyDefinition == [status |-> "READY", entries |-> {}]

-----------------------------------------------------------------------------
(* What the tables say. *)

ConeExists(c) == cones[c] # "absent"

\* Active rules on an object.
RulesOn(o) ==
    {r \in Rules : rules[r] # None /\ rules[r].obj = o /\ rules[r].active}

\* The cone query: active cones that have an active rule on the object.
SelectedCones(o) ==
    {c \in Cones : cones[c] = "active" /\ \E r \in RulesOn(o) : rules[r].cone = c}

\* The rules query for the cones already selected.
EntriesOf(o, cs) ==
    {[cone |-> rules[r].cone, rule |-> r, body |-> rules[r].body] :
        r \in {s \in RulesOn(o) : rules[s].cone \in cs}}

\* One rule that does not compile invalidates the whole definition.
Compile(es) ==
    IF \E e \in es : e.body \in InvalidBodies
    THEN [status |-> "INVALID", entries |-> {}]
    ELSE [status |-> "READY", entries |-> es]

LiveDefinition(o) == Compile(EntriesOf(o, SelectedCones(o)))

\* Cones assigned to a subject at an instant; both ends of a window count.
AssignedCones(u, t) ==
    {c \in Cones : \E a \in Assigns :
        /\ assigns[a] # None /\ assigns[a].cone = c /\ assigns[a].user = u
        /\ assigns[a].from <= t /\ t <= assigns[a].until}

Applicable(es, cs) == {e \in es : e.cone \in cs}

LiveScope(u, o, t) == Applicable(LiveDefinition(o).entries, AssignedCones(u, t))

\* The objects that the rules of a cone, active or not, are about.
ObjectsOfCone(c) ==
    {o \in Objects : \E r \in Rules :
        rules[r] # None /\ rules[r].cone = c /\ rules[r].obj = o}

-----------------------------------------------------------------------------
TypeOK ==
    /\ cones \in [Cones -> ConeState]
    /\ rules \in [Rules -> RuleRow \cup {None}]
    /\ assigns \in [Assigns -> AssignRow \cup {None}]
    /\ policyVersion \in Versions
    /\ objVersion \in [Objects -> Versions]
    /\ defCache \in [Objects \X Versions -> Definition \cup {None}]
    /\ scopeCache \in [Users \X Objects \X Versions -> ScopeRow \cup {None}]
    /\ tx \in [Admins -> ConeTx \cup RuleTx \cup AssignTx \cup BootstrapTx \cup {None}]
    /\ pc \in [Readers -> {"idle", "definition", "cones", "rules", "persist", "reread",
                           "scope", "assign", "store", "served", "invalid", "failed"}]
    /\ req \in [Readers -> Request \cup {None}]
    /\ \A r \in Readers : pc[r] # "idle" => req[r] \in Request
    /\ sel \in [Readers -> SUBSET Cones]
    /\ def \in [Readers -> Definition]
    /\ scope \in [Readers -> SUBSET Entry]
    /\ now \in Times

\* Foreign keys: rules and assignments belong to existing cones.
ReferencesExist ==
    /\ \A r \in Rules : rules[r] # None => ConeExists(rules[r].cone)
    /\ \A a \in Assigns : assigns[a] # None => ConeExists(assigns[a].cone)

\* A policy in service, every version at InitVersion and nothing cached.  A
\* non-empty policy was built by transactions, so InitVersion is then above 1.
Init ==
    /\ \E p \in InitPolicies : cones = p.cones /\ rules = p.rules /\ assigns = p.assigns
    /\ policyVersion = InitVersion
    /\ objVersion = [o \in Objects |-> InitVersion]
    /\ defCache = [k \in Objects \X Versions |-> None]
    /\ scopeCache = [k \in Users \X Objects \X Versions |-> None]
    /\ tx = [a \in Admins |-> None]
    /\ pc = [r \in Readers |-> "idle"]
    /\ req = [r \in Readers |-> None]
    /\ sel = [r \in Readers |-> {}]
    /\ def = [r \in Readers |-> EmptyDefinition]
    /\ scope = [r \in Readers |-> {}]
    /\ now = 0

-----------------------------------------------------------------------------
(* Administration: open a transaction (existence check, then the listing of
   the affected objects), commit it, or lose it to an error or a crash. *)

\* VisibilityAdminPolicyCacheService.bumpPolicyVersionAndInvalidateCaches
Bump(objs) ==
    /\ policyVersion < MaxVersion
    /\ policyVersion' = policyVersion + 1
    /\ objVersion' = [o \in Objects |-> objVersion[o] + (IF o \in objs THEN 1 ELSE 0)]
    /\ defCache' = [k \in Objects \X Versions |-> IF k[1] \in objs THEN None ELSE defCache[k]]
    /\ scopeCache' = [k \in Users \X Objects \X Versions |->
                        IF k[2] \in objs THEN None ELSE scopeCache[k]]

\* Bound: a transaction that could not be committed is not opened.
Open(a, t) ==
    /\ tx[a] = None
    /\ policyVersion < MaxVersion
    /\ tx' = [tx EXCEPT ![a] = t]
    /\ UNCHANGED <<policy, versions, caches, locals, now>>

CreateCone(a, c, state) ==
    /\ ~ConeExists(c)
    /\ Open(a, [table |-> "cone", op |-> "create", id |-> c, row |-> state, objs |-> {}])

UpdateCone(a, c, state) ==
    /\ ConeExists(c)
    /\ Open(a, [table |-> "cone", op |-> "update", id |-> c, row |-> state,
                objs |-> ObjectsOfCone(c)])

DeleteCone(a, c) ==
    /\ ConeExists(c)
    /\ Open(a, [table |-> "cone", op |-> "delete", id |-> c, row |-> "absent",
                objs |-> ObjectsOfCone(c)])

CreateRule(a, r, x) ==
    /\ rules[r] = None
    /\ Open(a, [table |-> "rule", op |-> "create", id |-> r, row |-> x, objs |-> {x.obj}])

\* Mutant: the update of a rule bumps the global version only.
UpdateRuleGlobalOnly(a, r, x) ==
    /\ rules[r] # None
    /\ Open(a, [table |-> "rule", op |-> "update", id |-> r, row |-> x, objs |-> {}])

UpdateRule(a, r, x) ==
    /\ rules[r] # None
    /\ Open(a, [table |-> "rule", op |-> "update", id |-> r, row |-> x,
                objs |-> {rules[r].obj, x.obj}])

DeleteRule(a, r) ==
    /\ rules[r] # None
    /\ Open(a, [table |-> "rule", op |-> "delete", id |-> r, row |-> None,
                objs |-> {rules[r].obj}])

CreateAssignment(a, i, x) ==
    /\ assigns[i] = None
    /\ Open(a, [table |-> "assign", op |-> "create", id |-> i, row |-> x,
                objs |-> ObjectsOfCone(x.cone)])

UpdateAssignment(a, i, x) ==
    /\ assigns[i] # None
    /\ Open(a, [table |-> "assign", op |-> "update", id |-> i, row |-> x,
                objs |-> ObjectsOfCone(assigns[i].cone) \cup ObjectsOfCone(x.cone)])

DeleteAssignment(a, i) ==
    /\ assigns[i] # None
    /\ Open(a, [table |-> "assign", op |-> "delete", id |-> i, row |-> None,
                objs |-> ObjectsOfCone(assigns[i].cone)])

\* The bootstrap of an entity on object o: what is missing of its cone and rule.
BootstrapRuleExists(o) ==
    \E r \in Rules : /\ rules[r] # None /\ rules[r].cone = BootstrapCone
                     /\ rules[r].obj = o /\ rules[r].body = BootstrapBody

EnsureBootstrap(a, r, o) ==
    LET newCone == ~ConeExists(BootstrapCone)
        newRule == ~BootstrapRuleExists(o)
    IN  /\ newCone \/ newRule
        /\ Open(a, [table |-> "bootstrap", newCone |-> newCone, newRule |-> newRule, id |-> r,
                    row |-> [cone |-> BootstrapCone, obj |-> o, active |-> TRUE,
                             body |-> BootstrapBody],
                    objs |-> {o}])

\* A write finds the row it needs: none for a create, one otherwise.
RowMatches(op, exists) == (op = "create") # exists

CommitCone(t) ==
    /\ t.table = "cone"
    /\ RowMatches(t.op, ConeExists(t.id))
    /\ cones' = [cones EXCEPT ![t.id] = t.row]
    /\ IF t.op = "delete"       \* ON DELETE CASCADE
       THEN /\ rules' = [r \in Rules |->
                            IF rules[r] # None /\ rules[r].cone = t.id THEN None ELSE rules[r]]
            /\ assigns' = [i \in Assigns |->
                            IF assigns[i] # None /\ assigns[i].cone = t.id THEN None
                                                                          ELSE assigns[i]]
       ELSE UNCHANGED <<rules, assigns>>

CommitRule(t) ==
    /\ t.table = "rule"
    /\ RowMatches(t.op, rules[t.id] # None)
    /\ t.row # None => ConeExists(t.row.cone)       \* foreign key
    /\ rules' = [rules EXCEPT ![t.id] = t.row]
    /\ UNCHANGED <<cones, assigns>>

CommitAssignment(t) ==
    /\ t.table = "assign"
    /\ RowMatches(t.op, assigns[t.id] # None)
    /\ t.row # None => ConeExists(t.row.cone)
    /\ assigns' = [assigns EXCEPT ![t.id] = t.row]
    /\ UNCHANGED <<cones, rules>>

CommitBootstrap(t) ==
    /\ t.table = "bootstrap"
    /\ t.newCone = ~ConeExists(BootstrapCone)       \* unique cone code
    /\ t.newRule => rules[t.id] = None
    /\ cones' = IF t.newCone THEN [cones EXCEPT ![BootstrapCone] = "active"] ELSE cones
    /\ rules' = IF t.newRule THEN [rules EXCEPT ![t.id] = t.row] ELSE rules
    /\ UNCHANGED assigns

Commit(a) ==
    /\ tx[a] # None
    /\ \/ CommitCone(tx[a])
       \/ CommitRule(tx[a])
       \/ CommitAssignment(tx[a])
       \/ CommitBootstrap(tx[a])
    /\ Bump(tx[a].objs)
    /\ tx' = [tx EXCEPT ![a] = None]
    /\ UNCHANGED <<locals, now>>

\* A violated constraint, a lost connection or a crash before the commit.
Rollback(a) ==
    /\ tx[a] # None
    /\ tx' = [tx EXCEPT ![a] = None]
    /\ UNCHANGED <<policy, versions, caches, locals, now>>

-----------------------------------------------------------------------------
(* Evaluation of one request, an action per database round trip. *)

DefKey(r) == <<req[r].obj, req[r].ver>>
ScopeKey(r) == <<req[r].user, req[r].obj, req[r].ver>>

Goto(r, label) == pc' = [pc EXCEPT ![r] = label]

\* A missing row and a failed read both count as version 1; a preview reads the
\* version too, and does nothing with it.
ReadableVersions(o, skip) ==
    {objVersion[o]} \cup (IF VersionReadMayFail /\ ~skip THEN {1} ELSE {})

BeginEvaluate(r, u, o, skip) ==
    /\ pc[r] = "idle"
    /\ \E v \in ReadableVersions(o, skip) :
        req' = [req EXCEPT ![r] = [user |-> u, obj |-> o, skip |-> skip, ver |-> v]]
    /\ Goto(r, IF skip THEN "cones" ELSE "definition")
    /\ UNCHANGED <<policy, versions, caches, tx, sel, def, scope, now>>

\* What follows once the definition is known.
UseDefinition(r, d) ==
    /\ def' = [def EXCEPT ![r] = d]
    /\ Goto(r, IF d.status = "INVALID" THEN "invalid"
               ELSE IF req[r].skip THEN "assign" ELSE "scope")

LookupDefinition(r) ==
    /\ pc[r] = "definition"
    /\ IF defCache[DefKey(r)] # None
       THEN UseDefinition(r, defCache[DefKey(r)])
       ELSE Goto(r, "cones") /\ UNCHANGED def
    /\ UNCHANGED <<policy, versions, caches, tx, req, sel, scope, now>>

\* buildLivePolicyDefinition runs two queries, the cones and then their rules.
SelectCones(r) ==
    /\ pc[r] = "cones"
    /\ sel' = [sel EXCEPT ![r] = SelectedCones(req[r].obj)]
    /\ Goto(r, "rules")
    /\ UNCHANGED <<policy, versions, caches, tx, req, def, scope, now>>

BuildDefinition(r) ==
    /\ pc[r] = "rules"
    /\ LET d == Compile(EntriesOf(req[r].obj, sel[r]))
       IN  IF req[r].skip
           THEN UseDefinition(r, d)
           ELSE def' = [def EXCEPT ![r] = d] /\ Goto(r, "persist")
    /\ sel' = [sel EXCEPT ![r] = {}]
    /\ UNCHANGED <<policy, versions, caches, tx, req, scope, now>>

\* Create the row; on a unique violation take what the other request stored.
PersistDefinition(r) ==
    /\ pc[r] = "persist"
    /\ IF defCache[DefKey(r)] = None
       THEN /\ defCache' = [defCache EXCEPT ![DefKey(r)] = def[r]]
            /\ UseDefinition(r, def[r])
       ELSE Goto(r, "reread") /\ UNCHANGED <<defCache, def>>
    /\ UNCHANGED <<policy, versions, scopeCache, tx, req, sel, scope, now>>

\* Mutant: the unique violation is rethrown at once.
RethrowConflict(r) ==
    /\ pc[r] = "reread"
    /\ Goto(r, "failed")
    /\ UNCHANGED <<policy, versions, caches, tx, req, sel, def, scope, now>>

RereadDefinition(r) ==
    /\ pc[r] = "reread"
    /\ IF defCache[DefKey(r)] # None
       THEN UseDefinition(r, defCache[DefKey(r)])
       ELSE Goto(r, "failed") /\ UNCHANGED def      \* the unique violation is rethrown
    /\ UNCHANGED <<policy, versions, caches, tx, req, sel, scope, now>>

\* Mutant: the row of the previous object version is looked up.
LookupPreviousScope(r) ==
    /\ pc[r] = "scope"
    /\ LET row == IF req[r].ver = 1 THEN None
                  ELSE scopeCache[<<req[r].user, req[r].obj, req[r].ver - 1>>]
       IN  IF row # None /\ row.expires > now
           THEN scope' = [scope EXCEPT ![r] = row.entries] /\ Goto(r, "served")
           ELSE Goto(r, "assign") /\ UNCHANGED scope
    /\ UNCHANGED <<policy, versions, caches, tx, req, sel, def, now>>

LookupScope(r) ==
    /\ pc[r] = "scope"
    /\ LET row == scopeCache[ScopeKey(r)]
       IN  IF row # None /\ row.expires > now
           THEN scope' = [scope EXCEPT ![r] = row.entries] /\ Goto(r, "served")
           ELSE Goto(r, "assign") /\ UNCHANGED scope
    /\ UNCHANGED <<policy, versions, caches, tx, req, sel, def, now>>

FindAssignments(r) ==
    /\ pc[r] = "assign"
    /\ scope' = [scope EXCEPT ![r] =
                    Applicable(def[r].entries, AssignedCones(req[r].user, now))]
    /\ Goto(r, IF req[r].skip THEN "served" ELSE "store")
    /\ UNCHANGED <<policy, versions, caches, tx, req, sel, def, now>>

StoreScope(r) ==
    /\ pc[r] = "store"
    /\ scopeCache' = [scopeCache EXCEPT ![ScopeKey(r)] =
                        [entries |-> scope[r], expires |-> now + TTL]]
    /\ Goto(r, "served")
    /\ UNCHANGED <<policy, versions, defCache, tx, req, sel, def, scope, now>>

\* The answer is delivered, or the request is lost at any await.
EndEvaluate(r) ==
    /\ pc[r] # "idle"
    /\ Goto(r, "idle")
    /\ req' = [req EXCEPT ![r] = None]
    /\ sel' = [sel EXCEPT ![r] = {}]
    /\ def' = [def EXCEPT ![r] = EmptyDefinition]
    /\ scope' = [scope EXCEPT ![r] = {}]
    /\ UNCHANGED <<policy, versions, caches, tx, now>>

Tick ==
    /\ now < MaxTime
    /\ now' = now + 1
    /\ UNCHANGED <<policy, versions, caches, tx, locals>>

Administer(a) ==
    \/ \E c \in Cones :
        \/ \E state \in {"active", "inactive"} :
            \/ CreateCone(a, c, state)
            \/ UpdateCone(a, c, state)
        \/ DeleteCone(a, c)
    \/ \E r \in Rules :
        \/ \E x \in RuleInputs : CreateRule(a, r, x) \/ UpdateRule(a, r, x)
        \/ DeleteRule(a, r)
        \/ \E o \in Objects : EnsureBootstrap(a, r, o)
    \/ \E i \in Assigns :
        \/ \E x \in AssignInputs : CreateAssignment(a, i, x) \/ UpdateAssignment(a, i, x)
        \/ DeleteAssignment(a, i)
    \/ Commit(a)
    \/ Rollback(a)

Evaluate(r) ==
    \/ \E u \in Users, o \in Objects, skip \in SkipModes : BeginEvaluate(r, u, o, skip)
    \/ LookupDefinition(r)
    \/ SelectCones(r)
    \/ BuildDefinition(r)
    \/ PersistDefinition(r)
    \/ RereadDefinition(r)
    \/ LookupScope(r)
    \/ FindAssignments(r)
    \/ StoreScope(r)
    \/ EndEvaluate(r)

Next ==
    \/ \E a \in Admins : Administer(a)
    \/ \E r \in Readers : Evaluate(r)
    \/ Tick

Spec == Init /\ [][Next]_vars

-----------------------------------------------------------------------------
(* Properties. *)

SerialAdmins == \A a, b \in Admins : a = b

\* The definition cached under an object's current version is the one the
\* tables hold now (getOrBuildPolicyDefinition): rows have no lifetime, so a
\* stale one would be served until the next change of the same object.
DefinitionCacheCoherent ==
    \A o \in Objects :
        LET d == defCache[<<o, objVersion[o]>>]
        IN  d # None => d = LiveDefinition(o)

\* The scope cached under the current version is what the tables grant the
\* subject at some instant up to now, and never that of an invalid policy
\* (upsertUserScopeCache).
ScopeCacheCoherent ==
    \A u \in Users, o \in Objects :
        LET row == scopeCache[<<u, o, objVersion[o]>>]
        IN  row # None => /\ LiveDefinition(o).status = "READY"
                          /\ \E t \in 0 .. now : row.entries = LiveScope(u, o, t)

\* What is cached under the current version of an object is what the tables say of
\* it, definitions and scopes alike.
CachesCoherent == DefinitionCacheCoherent /\ ScopeCacheCoherent

\* No cache row is filed under a version its object has not reached, so a bump
\* never brings an old row back to life (buildCacheKey, persistPolicyDefinition).
NoFutureRows ==
    /\ \A k \in Objects \X Versions : defCache[k] # None => k[2] <= objVersion[k[1]]
    /\ \A k \in Users \X Objects \X Versions : scopeCache[k] # None => k[3] <= objVersion[k[2]]

\* An evaluation during which no policy change of its object was committed
\* answers exactly what the tables say (evaluate).
SettledDecision ==
    \A r \in Readers :
        pc[r] # "idle" /\ req[r].ver = objVersion[req[r].obj] =>
            /\ pc[r] = "invalid" => LiveDefinition(req[r].obj).status = "INVALID"
            /\ pc[r] = "served" =>
                /\ LiveDefinition(req[r].obj).status = "READY"
                /\ \E t \in 0 .. now : scope[r] = LiveScope(req[r].user, req[r].obj, t)

\* The unique violation of two concurrent fills reaches the client only when
\* a policy change deleted the row in between (getOrBuildPolicyDefinition).
FailureMeansPolicyChanged ==
    \A r \in Readers : pc[r] = "failed" => req[r].ver < objVersion[req[r].obj]

=============================================================================
