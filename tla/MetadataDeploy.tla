---------------------------- MODULE MetadataDeploy ----------------------------
(***************************************************************************)
(* The deployment of a metadata package (src/backend/src/metadata).        *)
(*                                                                         *)
(* A package holds one file per record.  An administrator previews it, and *)
(* deploys it with the fingerprint of the target that the preview showed.  *)
(* The records are then written type by type: each in a statement or a     *)
(* transaction of its own, with none around them.  What the server answers *)
(* from is invalidated on the way: the caches of entities and templates by *)
(* the write, the access rules by a reload, and the cached policies of the *)
(* visibility engine once, after the last visibility record.               *)
(*                                                                         *)
(* Other administrators edit single records meanwhile, with the correct    *)
(* invalidation (VisibilityPolicy, AclConfig and ConfigCache study that);  *)
(* requests fill the caches; a step may fail; the process may die.         *)
(***************************************************************************)
EXTENDS Integers, Sequences

CONSTANTS
    Deployers,       \* administrators with a preview or a deployment
    Items, Types,    \* the records, and the type of each
    Objects,         \* Salesforce objects
    Package,         \* the records of the package and their contents
    InitRows,        \* the target at the start
    Edits,           \* what other administrators may write: <<item, content>>
    MaxDeploys, MaxEdits,    \* bounds of one behaviour
    None

\* DeployableMetadataTypeName, in the order of applyDeployableEntries.
Order == <<"entity", "acl", "template", "app", "cone", "rule", "assign",
           "invalidate", "grants", "sync">>
Of(type) == {i \in Items : Types[i] = type}
RuleRow == [cone : Of("cone"), obj : Objects]
AssignRow == [cone : Of("cone"), contact : BOOLEAN, perm : BOOLEAN]
Other == STRING
Contents(i) ==
    IF Types[i] = "rule" THEN RuleRow
    ELSE IF Types[i] = "assign" THEN AssignRow ELSE Other

ASSUME MetadataDeployAssumption ==
    /\ Types \in [Items -> {"entity", "acl", "template", "app", "cone", "rule",
                            "assign", "grants"}]
    /\ "invalidate" \notin Items /\ "sync" \notin Items
    /\ None \notin RuleRow \cup AssignRow
    /\ DOMAIN Package \subseteq Items /\ DOMAIN InitRows = Items
    /\ \A i \in DOMAIN Package : Package[i] \in Contents(i)
    /\ \A i \in Items : InitRows[i] = None \/ InitRows[i] \in Contents(i)
    /\ \A e \in Edits : e[1] \in Items /\ e[2] \in Contents(e[1])
    /\ MaxDeploys \in Nat /\ MaxEdits \in Nat

VARIABLES
    rows,            \* the target's tables
    memory,          \* entities, templates and access rules as the process has them
    policy,          \* per object, the policy the visibility caches hold
    pc,              \* per deployer: where it is
    seen,            \* the part of the target its fingerprint covers
    done,            \* the steps it has taken
    held,            \* the row, or the access rules, it has looked up
    affected,        \* affectedConeIds and affectedObjectApiNames
    audit,           \* its row of the application audit log
    deploys, edits,  \* so far
    touched,         \* history: records others wrote since the fingerprint was checked
    owed             \* history: objects left with a stale policy by a deployment that
                     \* failed, or whose row moved between its lookup and its upsert

target == <<rows, memory, policy>>
own == <<seen, done, held, affected, audit>>
vars == <<rows, memory, policy, pc, seen, done, held, affected, audit,
          deploys, edits, touched, owed>>

Files == DOMAIN Package
Visibility == {"cone", "rule", "assign"}
Cached == Of("entity") \cup Of("template")
Acl == Of("acl")

\* The steps of a deployment; those of an absent type have nothing to do.
Steps == Files \cup (IF \E i \in Files : Types[i] \in Visibility THEN {"invalidate"} ELSE {})
               \cup {"sync"}
Kind(s) == IF s \in Files THEN Types[s] ELSE s
Rank(s) == CHOOSE n \in 1 .. Len(Order) : Order[n] = Kind(s)

-----------------------------------------------------------------------------
(* Policies and what they depend on. *)

RulesOn(R, o) ==
    {r \in Of("rule") : R[r] # None /\ R[r].obj = o /\ R[R[r].cone] = "active"}
ConesOn(R, o) == {R[r].cone : r \in RulesOn(R, o)}

\* The policy of an object: its rules, and who is assigned to their cones.
View(R, o) ==
    [rules |-> {<<r, R[r]>> : r \in RulesOn(R, o)},
     assigns |-> {<<a, R[a]>> : a \in {b \in Of("assign") :
                        R[b] # None /\ R[b].cone \in ConesOn(R, o)}}]
Changed(R, Q) == {o \in Objects : View(R, o) # View(Q, o)}
Stale(o) == policy[o] # None /\ policy[o] # View(rows, o)

ObjectsOfCones(R, ks) == {R[r].obj : r \in {q \in Of("rule") : R[q] # None /\ R[q].cone \in ks}}
Invalidated(p, objs) == [o \in Objects |-> IF o \in objs THEN None ELSE p[o]]

ConesOf(x) == IF x = None THEN {} ELSE {x.cone}
ObjsOf(i, x) == IF x = None \/ Types[i] # "rule" THEN {} ELSE {x.obj}

\* The objects whose policies a change of one record may change.
Reaches(R, i, old, new) ==
    IF Types[i] = "cone" THEN ObjectsOfCones(R, {i})
    ELSE IF Types[i] = "rule" THEN ObjsOf(i, old) \cup ObjsOf(i, new)
    ELSE IF Types[i] = "assign" THEN ObjectsOfCones(R, ConesOf(old) \cup ConesOf(new))
    ELSE {}

Nothing == [cones |-> {}, objs |-> {}]

Init ==
    /\ rows = InitRows
    /\ memory = [i \in Cached \cup Acl |-> IF i \in Acl THEN InitRows[i] ELSE None]
    /\ policy = [o \in Objects |-> None]
    /\ pc = [d \in Deployers |-> "idle"]
    /\ seen = [d \in Deployers |-> None]
    /\ done = [d \in Deployers |-> {}]
    /\ held = [d \in Deployers |-> None]
    /\ affected = [d \in Deployers |-> Nothing]
    /\ audit = [d \in Deployers |-> "none"]
    /\ deploys = 0
    /\ edits = 0
    /\ touched = [d \in Deployers |-> {}]
    /\ owed = {}

Goto(d, label) == pc' = [pc EXCEPT ![d] = label]
TouchedBy(d, is) == touched' = [e \in Deployers |-> IF e = d THEN touched[e]
                                                      ELSE touched[e] \cup is]

-----------------------------------------------------------------------------
(* Preview and deploy. *)

Fingerprint == [i \in Files |-> rows[i]]

\* previewPackage, when every contact of the package is found.  The reads of one
\* preview are a step: an edit between them is one that follows the last.
Preview(d) ==
    /\ pc[d] \in {"idle", "previewed"}
    /\ seen[d] # Fingerprint
    /\ seen' = [seen EXCEPT ![d] = Fingerprint]
    /\ Goto(d, "previewed")
    /\ UNCHANGED <<target, done, held, affected, audit, deploys, edits, touched, owed>>

\* Mutant: the target is not compared with the previewed one.
DeployUnchecked(d) ==
    /\ pc[d] = "previewed"
    /\ deploys < MaxDeploys
    /\ deploys' = deploys + 1
    /\ Goto(d, "intent")
    /\ touched' = [touched EXCEPT ![d] = {}]
    /\ UNCHANGED <<target, own, edits, owed>>

\* deployPackage: the preview again, which finds the same target, or not.
DeployPackage(d) ==
    /\ pc[d] = "previewed"
    /\ IF seen[d] = Fingerprint
       THEN /\ deploys < MaxDeploys
            /\ deploys' = deploys + 1
            /\ Goto(d, "intent")
            /\ touched' = [touched EXCEPT ![d] = {}]
            /\ UNCHANGED seen
       ELSE /\ seen' = [seen EXCEPT ![d] = None]
            /\ Goto(d, "idle")
            /\ UNCHANGED <<deploys, touched>>
    /\ UNCHANGED <<target, done, held, affected, audit, edits, owed>>

\* createApplicationIntentOrThrow
Intent(d) ==
    /\ pc[d] = "intent"
    /\ audit' = [audit EXCEPT ![d] = "PENDING"]
    /\ Goto(d, "apply")
    /\ UNCHANGED <<target, seen, done, held, affected, deploys, edits, touched, owed>>

Turn(d, s) ==
    /\ pc[d] = "apply"
    /\ s \in Steps \ done[d]
    /\ \A t \in Steps \ done[d] : Rank(s) <= Rank(t)

Finished(d, ss) == done' = [done EXCEPT ![d] = @ \cup ss]

\* Mutant: the templates that were written stay in the cache.
UpsertWithoutEviction(d, i) ==
    /\ Turn(d, i)
    /\ Types[i] \in {"entity", "template", "app", "grants"}
    /\ rows' = [rows EXCEPT ![i] = Package[i]]
    /\ Finished(d, {i})
    /\ TouchedBy(d, {i})
    /\ UNCHANGED <<memory, policy, pc, seen, held, affected, audit, deploys, edits, owed>>

\* applyEntityEntries, applyQueryTemplateEntries, applyAppEntries and
\* applyAclContactPermissionEntries: one record, and its eviction.
Upsert(d, i) ==
    /\ Turn(d, i)
    /\ Types[i] \in {"entity", "template", "app", "grants"}
    /\ rows' = [rows EXCEPT ![i] = Package[i]]
    /\ memory' = [j \in Cached \cup Acl |-> IF j = i THEN None ELSE memory[j]]
    /\ Finished(d, {i})
    /\ TouchedBy(d, {i})
    /\ UNCHANGED <<policy, pc, seen, held, affected, audit, deploys, edits, owed>>

-----------------------------------------------------------------------------
(* applyAclEntries: all access rules are read, changed, replaced, reloaded. *)

LoadAcl(d) ==
    /\ \E i \in Acl : Turn(d, i)
    /\ held' = [held EXCEPT ![d] = [i \in Acl |-> rows[i]]]
    /\ Goto(d, "replace")
    /\ UNCHANGED <<target, seen, done, affected, audit, deploys, edits, touched, owed>>

ReplaceAcl(d) ==
    /\ pc[d] = "replace"
    /\ rows' = [i \in Items |-> IF i \in Acl /\ i \in Files THEN Package[i]
                                ELSE IF i \in Acl THEN held[d][i] ELSE rows[i]]
    /\ held' = [held EXCEPT ![d] = None]
    /\ Goto(d, "reload")
    /\ TouchedBy(d, Acl)
    /\ UNCHANGED <<memory, policy, seen, done, affected, audit, deploys, edits, owed>>

ReloadAcl(d) ==
    /\ pc[d] = "reload"
    /\ memory' = [j \in Cached \cup Acl |-> IF j \in Acl THEN rows[j] ELSE memory[j]]
    /\ Finished(d, Acl \cap Files)
    /\ Goto(d, "apply")
    /\ UNCHANGED <<rows, policy, seen, held, affected, audit, deploys, edits, touched, owed>>

-----------------------------------------------------------------------------
(* applyVisibilityEntries *)

Affects(d, cs, os) ==
    affected' = [affected EXCEPT ![d] = [cones |-> @.cones \cup cs, objs |-> @.objs \cup os]]

ApplyCone(d, i) ==
    /\ Turn(d, i) /\ Types[i] = "cone"
    /\ rows' = [rows EXCEPT ![i] = Package[i]]
    /\ Affects(d, {i}, {})
    /\ Finished(d, {i})
    /\ TouchedBy(d, {i})
    /\ UNCHANGED <<memory, policy, pc, seen, held, audit, deploys, edits, owed>>

\* resolveTargetContactByEmail, again: a lookup that fails is one that found nobody.
\* An assignment without any selector is rejected then (Fail).
Resolved(i) ==
    {Package[i]} \cup {[x EXCEPT !.contact = FALSE] :
        x \in {y \in {Package[i]} : Types[i] = "assign" /\ y.perm}}

\* The row before the upsert.
LookUp(d, i) ==
    /\ Turn(d, i) /\ Types[i] \in {"rule", "assign"}
    /\ \E new \in Resolved(i) :
            held' = [held EXCEPT ![d] = [item |-> i, row |-> rows[i], new |-> new]]
    /\ Goto(d, "upsert")
    /\ UNCHANGED <<target, seen, done, affected, audit, deploys, edits, touched, owed>>

\* Mutant: only the new row says what is affected.
UpsertNewPlaceOnly(d) ==
    /\ pc[d] = "upsert"
    /\ LET h == held[d]
       IN  /\ rows' = [rows EXCEPT ![h.item] = h.new]
           /\ Affects(d, ConesOf(h.new), ObjsOf(h.item, h.new))
           /\ Finished(d, {h.item})
           /\ TouchedBy(d, {h.item})
    /\ held' = [held EXCEPT ![d] = None]
    /\ Goto(d, "apply")
    /\ UNCHANGED <<memory, policy, seen, audit, deploys, edits, owed>>

UpsertPolicyRow(d) ==
    /\ pc[d] = "upsert"
    /\ LET h == held[d]
           R == [rows EXCEPT ![h.item] = h.new]
       IN  /\ rows' = R
           /\ Affects(d, ConesOf(h.new) \cup ConesOf(h.row),
                         ObjsOf(h.item, h.new) \cup ObjsOf(h.item, h.row))
           /\ Finished(d, {h.item})
           /\ TouchedBy(d, {h.item})
           /\ owed' = IF rows[h.item] = h.row THEN owed
                      ELSE owed \cup Changed(rows, R) \cup ObjsOf(h.item, rows[h.item])
    /\ held' = [held EXCEPT ![d] = None]
    /\ Goto(d, "apply")
    /\ UNCHANGED <<memory, policy, seen, audit, deploys, edits>>

\* The objects of the affected cones, listed at the end.
ListAffected(d) ==
    /\ Turn(d, "invalidate")
    /\ Affects(d, {}, ObjectsOfCones(rows, affected[d].cones))
    /\ Goto(d, "bump")
    /\ UNCHANGED <<target, seen, done, held, audit, deploys, edits, touched, owed>>

\* invalidatePolicyForMetadata: a transaction of its own.
InvalidatePolicy(d) ==
    /\ pc[d] = "bump"
    /\ policy' = Invalidated(policy, affected[d].objs)
    /\ owed' = owed \ affected[d].objs
    /\ Finished(d, {"invalidate"})
    /\ Goto(d, "apply")
    /\ UNCHANGED <<rows, memory, seen, held, affected, audit, deploys, edits, touched>>

-----------------------------------------------------------------------------
(* The end. *)

\* syncSystemResources, and completeApplicationAuditOrThrow.
Complete(d) ==
    /\ Turn(d, "sync")
    /\ Finished(d, {"sync"})
    /\ audit' = [audit EXCEPT ![d] = "SUCCESS"]
    /\ Goto(d, "done")
    /\ UNCHANGED <<target, seen, held, affected, deploys, edits, touched, owed>>

Applying == {"apply", "replace", "reload", "upsert", "bump"}

\* An entry is refused, or a statement fails: what was written stays.  The catch
\* block records the failure, unless that fails too.
Fail(d) ==
    /\ pc[d] \in Applying
    /\ \E status \in {"FAILURE", "PENDING"} : audit' = [audit EXCEPT ![d] = status]
    /\ owed' = owed \cup {o \in Objects : Stale(o)}
    /\ seen' = [seen EXCEPT ![d] = None]
    /\ done' = [done EXCEPT ![d] = {}]
    /\ held' = [held EXCEPT ![d] = None]
    /\ affected' = [affected EXCEPT ![d] = Nothing]
    /\ touched' = [touched EXCEPT ![d] = {}]
    /\ Goto(d, "done")
    /\ UNCHANGED <<target, deploys, edits>>

\* The answer has been read.
Leave(d) ==
    /\ pc[d] = "done"
    /\ Goto(d, "idle")
    /\ seen' = [seen EXCEPT ![d] = None]
    /\ done' = [done EXCEPT ![d] = {}]
    /\ affected' = [affected EXCEPT ![d] = Nothing]
    /\ audit' = [audit EXCEPT ![d] = "none"]
    /\ touched' = [touched EXCEPT ![d] = {}]
    /\ UNCHANGED <<target, held, deploys, edits, owed>>

-----------------------------------------------------------------------------
(* The others. *)

\* A request is answered from the caches, and fills them.
Evaluate(o) ==
    /\ policy[o] = None
    /\ policy' = [policy EXCEPT ![o] = View(rows, o)]
    /\ UNCHANGED <<rows, memory, pc, own, deploys, edits, touched, owed>>

ReadConfig(i) ==
    /\ i \in Cached /\ memory[i] = None /\ rows[i] # None
    /\ memory' = [memory EXCEPT ![i] = rows[i]]
    /\ UNCHANGED <<rows, policy, pc, own, deploys, edits, touched, owed>>

\* Another administrator writes one record and invalidates what it may change.
Edit(e) ==
    LET i == e[1]
        R == [rows EXCEPT ![i] = e[2]]
        reached == Reaches(rows, i, rows[i], e[2])
    IN  /\ edits < MaxEdits
        /\ rows[i] # e[2]
        /\ edits' = edits + 1
        /\ rows' = R
        /\ memory' = [j \in Cached \cup Acl |-> IF j \in Acl THEN R[j]
                                                ELSE IF j = i THEN None ELSE memory[j]]
        /\ policy' = Invalidated(policy, reached)
        /\ owed' = owed \ reached
        /\ touched' = [d \in Deployers |-> touched[d] \cup {i}]
        /\ UNCHANGED <<pc, own, deploys>>

Running(d) == pc[d] \in Applying \cup {"intent"}

\* The process dies: its memory is read anew, the deployments are left half done.
Crash ==
    /\ \E d \in Deployers : Running(d)
    /\ memory' = [j \in Cached \cup Acl |-> IF j \in Acl THEN rows[j] ELSE None]
    /\ pc' = [d \in Deployers |-> IF Running(d) THEN "done" ELSE pc[d]]
    /\ seen' = [d \in Deployers |-> IF Running(d) THEN None ELSE seen[d]]
    /\ done' = [d \in Deployers |-> IF Running(d) THEN {} ELSE done[d]]
    /\ held' = [d \in Deployers |-> None]
    /\ affected' = [d \in Deployers |-> IF Running(d) THEN Nothing ELSE affected[d]]
    /\ touched' = [d \in Deployers |-> IF Running(d) THEN {} ELSE touched[d]]
    /\ owed' = owed \cup {o \in Objects : Stale(o)}
    /\ UNCHANGED <<rows, policy, audit, deploys, edits>>

Step(d) ==
    \/ Preview(d) \/ DeployPackage(d) \/ Intent(d)
    \/ \E i \in Files : Upsert(d, i) \/ ApplyCone(d, i) \/ LookUp(d, i)
    \/ LoadAcl(d) \/ ReplaceAcl(d) \/ ReloadAcl(d)
    \/ UpsertPolicyRow(d) \/ ListAffected(d) \/ InvalidatePolicy(d)
    \/ Complete(d) \/ Fail(d) \/ Leave(d)

Next ==
    \/ \E d \in Deployers : Step(d)
    \/ \E o \in Objects : Evaluate(o)
    \/ \E i \in Items : ReadConfig(i)
    \/ \E e \in Edits : Edit(e)
    \/ Crash

Spec == Init /\ [][Next]_vars

-----------------------------------------------------------------------------
(* Properties. *)

TypeOK ==
    /\ DOMAIN rows = Items
    /\ \A i \in Items : rows[i] = None \/ rows[i] \in Contents(i)
    /\ DOMAIN memory = Cached \cup Acl
    /\ \A i \in DOMAIN memory : memory[i] = None \/ memory[i] \in Contents(i)
    /\ DOMAIN policy = Objects
    /\ DOMAIN seen = Deployers /\ DOMAIN held = Deployers
    /\ pc \in [Deployers -> Applying \cup {"idle", "previewed", "intent", "done"}]
    /\ done \in [Deployers -> SUBSET Steps]
    /\ affected \in [Deployers -> [cones : SUBSET Of("cone"), objs : SUBSET Objects]]
    /\ audit \in [Deployers -> {"none", "PENDING", "SUCCESS", "FAILURE"}]
    /\ deploys \in 0 .. MaxDeploys /\ edits \in 0 .. MaxEdits
    /\ touched \in [Deployers -> SUBSET Items]
    /\ owed \subseteq Objects
    /\ \A d \in Deployers :
        /\ pc[d] \in Applying \cup {"previewed", "intent"} => DOMAIN seen[d] = Files
        /\ pc[d] = "replace" => DOMAIN held[d] = Acl
        /\ pc[d] = "upsert" => held[d].item \in Files /\ held[d].new \in Contents(held[d].item)

\* A deployment changes only what its package names, and that only as its preview
\* showed it; else somebody wrote the record after the fingerprint was checked
\* (deployPackage, applyAclEntries).
OverwritesWhatWasPreviewed ==
    [][\A d \in Deployers : pc'[d] # pc[d] \/ done'[d] # done[d] =>
        \A i \in Items : rows'[i] # rows[i] =>
            (i \in Files /\ rows[i] = seen[d][i]) \/ i \in touched[d]]_vars

\* Cached policies lag behind the tables only while a deployment has written
\* visibility records and not yet invalidated, or after one that failed there or
\* overwrote a move it had not seen (applyVisibilityEntries).
StaleOnlyAfterFailure ==
    \A o \in Objects : Stale(o) =>
        \/ o \in owed
        \/ \E d \in Deployers :
            /\ Running(d) /\ "invalidate" \notin done[d]
            /\ \E i \in done[d] : Kind(i) \in Visibility

\* When nobody else wrote, a deployment that succeeded is what the tables hold and
\* what the server answers from; only a policy that another deployment left
\* behind, or has yet to invalidate, is not (applyDeployableEntries).
DeployedIsServed ==
    \A d \in Deployers : audit[d] = "SUCCESS" /\ touched[d] = {} =>
        /\ \A i \in Files :
            \/ rows[i] = Package[i]
            \/ Types[i] = "assign" /\ rows[i] = [Package[i] EXCEPT !.contact = FALSE]
        /\ \A i \in DOMAIN memory : memory[i] = rows[i] \/ (i \in Cached /\ memory[i] = None)
        /\ \A o \in Objects : Stale(o) => o \in owed \/ \E e \in Deployers : Running(e)
=============================================================================
