--------------------------- MODULE AclConfigProofs ---------------------------
(***************************************************************************)
(* Proofs about AclConfig for any permissions, resources, administrators   *)
(* and inputs: types, how far the tables can get from what can be loaded,  *)
(* how the memory can fall behind them, that a resource stays closed until *)
(* decided about, and what operations that nobody disturbs leave done.     *)
(* The last part is about ConfigCache, the caches of the application's     *)
(* other configuration.                                                    *)
(***************************************************************************)
EXTENDS AclConfig, ConfigCache, TLAPS

ResourceMap == [Resources -> {None} \cup Resource]

\* The edits of an administrator that end in Persist.
Edit(a) ==
    \/ CreatePermission(a) \/ UpdatePermission(a) \/ DeletePermission(a)
    \/ UpdateDefaults(a) \/ CreateResource(a) \/ UpdateResource(a)
    \/ DeleteResource(a) \/ EnsureEntityResource(a)

\* No one gets in, present or stale: stronger than the denial of CanAccess, which
\* a stale resource owes to its state alone.
Closed(s, r) ==
    \/ s.resources[r] = None
    \/ s.resources[r].mode = "disabled"
    \/ s.resources[r].mode = "permission-bound" /\ s.resources[r].perms = {}

-----------------------------------------------------------------------------
(* Snapshots. *)

LEMMA NothingType == Nothing \in Snapshot
  BY DEF Nothing, Snapshot

\* A synchronisation keeps the type of the resources and their permissions, and
\* opens nothing.
LEMMA MergeFacts ==
    ASSUME NEW m \in ResourceMap, NEW present
    PROVE  /\ Merge(m, present) \in ResourceMap
           /\ \A r \in Resources : Merge(m, present)[r] # None =>
                \/ Merge(m, present)[r].perms = {}
                \/ m[r] # None /\ Merge(m, present)[r].perms = m[r].perms
           /\ \A r \in Resources :
                \/ m[r] = None
                \/ m[r] # None /\ m[r].mode = "disabled"
                \/ m[r] # None /\ m[r].mode = "permission-bound" /\ m[r].perms = {}
                => \/ Merge(m, present)[r] = None
                   \/ Merge(m, present)[r].mode = "disabled"
                   \/ Merge(m, present)[r].mode = "permission-bound" /\ Merge(m, present)[r].perms = {}
  <1>1. \A r \in Resources : m[r] = None \/ m[r] \in Resource
    BY DEF ResourceMap
  <1>2. None \notin Resource
    BY AclAssumption
  <1> DEFINE E(r) == Merge(m, present)[r]
  <1>3. ASSUME NEW r \in Resources
        PROVE  /\ E(r) \in {None} \cup Resource
               /\ E(r) # None => E(r).perms = {} \/ (m[r] # None /\ E(r).perms = m[r].perms)
               /\ \/ E(r) = None
                  \/ m[r] = None /\ E(r).mode = "disabled"
                  \/ m[r] # None /\ E(r).mode = m[r].mode /\ E(r).perms = m[r].perms
    <2>1. CASE m[r] = None
      BY <2>1 DEF Merge, Resource, Modes
    <2>2. CASE m[r] # None
      <3>1. m[r] \in Resource
        BY <1>1, <2>2
      <3>2. QED
        BY <2>2, <3>1 DEF Merge, Resource
    <2>3. QED
      BY <2>1, <2>2
  <1>4. Merge(m, present) \in ResourceMap
    <2>1. Merge(m, present) = [r \in Resources |-> E(r)]
      BY DEF Merge
    <2>2. QED
      BY <2>1, <1>3 DEF ResourceMap
  <1>5. QED
    BY <1>3, <1>4

LEMMA WithPermissionType ==
    ASSUME NEW s \in Snapshot, NEW prev \in Codes \cup {None}, NEW x \in PermissionInput
    PROVE  WithPermission(s, prev, x) \in Snapshot
  <1>1. /\ x.code \in Codes /\ x.aliases \subseteq Codes /\ x.ids \subseteq Resources
        /\ s.listed \subseteq Codes /\ s.aliases \in [Codes -> SUBSET Codes]
        /\ s.defaults \subseteq Codes /\ s.resources \in ResourceMap
    BY DEF Snapshot, PermissionInput, ResourceMap
  <1> DEFINE R == WithPermission(s, prev, x).resources
  <1>2. R \in ResourceMap
    <2>1. ASSUME NEW r \in Resources, s.resources[r] # None
          PROVE  [s.resources[r] EXCEPT
                    !.perms = (Rename(s.resources[r].perms, prev, x.code) \ {x.code})
                              \cup (IF r \in x.ids THEN {x.code} ELSE {}),
                    !.mode = IF r \in x.ids /\ s.resources[r].mode = "disabled"
                             THEN "permission-bound" ELSE s.resources[r].mode] \in Resource
      <3>1. s.resources[r] \in Resource
        BY <1>1, <2>1 DEF ResourceMap
      <3>2. QED
        BY <1>1, <3>1 DEF Resource, Rename, Modes
    <2>2. QED
      BY <2>1 DEF WithPermission, ResourceMap
  <1>3. WithPermission(s, prev, x).aliases \in [Codes -> SUBSET Codes]
    BY <1>1 DEF WithPermission
  <1>4. QED
    BY <1>1, <1>2, <1>3 DEF WithPermission, Snapshot, ResourceMap

\* A permission opens only the resources it is given to.
LEMMA WithPermissionClosed ==
    ASSUME NEW s \in Snapshot, NEW prev \in Codes \cup {None}, NEW x \in PermissionInput,
           NEW r \in Resources, r \notin x.ids, Closed(s, r)
    PROVE  Closed(WithPermission(s, prev, x), r)
  <1>1. s.resources[r] = None \/ s.resources[r] \in Resource
    BY DEF Snapshot
  <1>2. CASE s.resources[r] = None
    BY <1>2 DEF WithPermission, Closed
  <1>3. CASE s.resources[r] # None /\ s.resources[r] \in Resource
    BY <1>3 DEF WithPermission, Closed, Rename, Resource
  <1>4. QED
    BY <1>1, <1>2, <1>3

LEMMA WithResourceFacts ==
    ASSUME NEW s \in Snapshot, NEW id \in Resources, NEW x \in {None} \cup Resource
    PROVE  /\ WithResource(s, id, x) \in Snapshot
           /\ WithResource(s, id, x).resources[id] = x
           /\ \A r \in Resources \ {id} : WithResource(s, id, x).resources[r] = s.resources[r]
  BY DEF WithResource, Snapshot

LEMMA ManualType ==
    ASSUME NEW mode \in Modes, NEW perms \in SUBSET Codes
    PROVE  Manual(mode, perms) \in Resource
  BY DEF Manual, Resource

\* What is known of an operation from its kind.
LEMMA OpTypes ==
    ASSUME TypeOK, NEW a \in Admins, op[a] # None
    PROVE  /\ op[a].kind \in {"createPermission", "updatePermission"} =>
                op[a].input \in PermissionInput
           /\ op[a].kind = "updatePermission" => op[a].prev \in Codes
           /\ op[a].kind = "deletePermission" => op[a].code \in Codes
           /\ op[a].kind \in {"createResource", "updateResource"} =>
                op[a].input \in ResourceInput
           /\ op[a].kind = "updateResource" => op[a].prev \in Resources
           /\ op[a].kind = "deleteResource" => op[a].id \in Resources
           /\ op[a].kind \in {"updateDefaults", "grant"} => op[a].codes \subseteq Codes
           /\ op[a].kind = "putEntity" => op[a].id \in Entities
           /\ op[a].kind = "putTemplate" => op[a].id \in Queries
           /\ op[a].kind = "deleteSource" => op[a].id \in Sources
  <1>1. op[a] \in Op
    BY DEF TypeOK, Processes
  <1>2. QED
    BY <1>1, AclAssumption DEF Op

-----------------------------------------------------------------------------
(* An edit replaces the tables by a draft made from what was read. *)

\* At most one permission, of the draft, is checked elsewhere than it is read back.
Placed(draft, place) ==
    place = Sorted \/ \E x \in draft.listed, n \in Nat : place = [Sorted EXCEPT ![x] = n]

Draft(a, draft, place, held) ==
    /\ Placed(draft, place)
    /\ stage[a] = "write"
    /\ Persist(a, draft, place, held)
    /\ decided \subseteq decided' /\ decided' \subseteq Resources
    /\ \A r \in Queries \ decided' : Closed(snap[a], r) => Closed(draft, r)

Edited(a) == \E draft \in Snapshot, place \in [Codes -> Nat], held \in SUBSET Codes :
                Draft(a, draft, place, held)

LEMMA SortedType == /\ Sorted \in [Codes -> Nat]
                    /\ \A c \in Codes, n \in Codes \cup {Last} :
                            [Sorted EXCEPT ![c] = n] \in [Codes -> Nat]
  BY AclAssumption DEF Sorted

LEMMA CreatePermissionEdits ==
    ASSUME TypeOK, NEW a \in Admins, op[a] # None, CreatePermission(a)
    PROVE  Edited(a)
  <1> DEFINE x == op[a].input
             draft == WithPermission(snap[a], None, x)
             place == [Sorted EXCEPT ![x.code] = Last]
  <1>1. x \in PermissionInput /\ snap[a] \in Snapshot /\ grants \in SUBSET Codes
    BY OpTypes DEF CreatePermission, TypeOK, Processes
  <1>2. x.code \in Codes /\ x.ids \subseteq Resources /\ decided \subseteq Resources
    BY <1>1 DEF PermissionInput, TypeOK
  <1>3. draft \in Snapshot
    BY <1>1, WithPermissionType
  <1>4. place \in [Codes -> Nat]
    BY <1>2, SortedType
  <1>5. stage[a] = "write" /\ Persist(a, draft, place, grants) /\ decided' = decided \cup x.ids
    BY DEF CreatePermission, Decide
  <1>6. \A r \in Queries \ decided' : Closed(snap[a], r) => Closed(draft, r)
    BY <1>1, <1>5, WithPermissionClosed DEF Resources, Sources
  <1>p. Placed(draft, place)
    <2>1. x.code \in draft.listed
      BY DEF WithPermission
    <2>2. QED
      BY <2>1, AclAssumption DEF Placed
  <1>7. Draft(a, draft, place, grants)
    BY <1>2, <1>5, <1>6, <1>p DEF Draft
  <1>8. QED
    BY <1>1, <1>3, <1>4, <1>7 DEF Edited

LEMMA UpdatePermissionEdits ==
    ASSUME TypeOK, NEW a \in Admins, op[a] # None, UpdatePermission(a)
    PROVE  Edited(a)
  <1> DEFINE x == op[a].input
             prev == op[a].prev
             draft == WithPermission(snap[a], prev, x)
             place == [Sorted EXCEPT ![x.code] = prev]
             held == Rename(grants, prev, x.code)
  <1>1. x \in PermissionInput /\ prev \in Codes /\ snap[a] \in Snapshot
    BY OpTypes DEF UpdatePermission, TypeOK, Processes
  <1>2. x.code \in Codes /\ x.ids \subseteq Resources /\ decided \subseteq Resources
    BY <1>1 DEF PermissionInput, TypeOK
  <1>3. draft \in Snapshot
    BY <1>1, WithPermissionType
  <1>4. place \in [Codes -> Nat]
    BY <1>1, <1>2, SortedType
  <1>5. held \in SUBSET Codes
    BY <1>2 DEF Rename, TypeOK
  <1>6. stage[a] = "write" /\ Persist(a, draft, place, held) /\ decided' = decided \cup x.ids
    BY DEF UpdatePermission, Decide
  <1>7. \A r \in Queries \ decided' : Closed(snap[a], r) => Closed(draft, r)
    BY <1>1, <1>6, WithPermissionClosed DEF Resources, Sources
  <1>p. Placed(draft, place)
    <2>1. x.code \in draft.listed /\ prev \in Nat
      BY <1>1, AclAssumption DEF WithPermission
    <2>2. QED
      BY <2>1 DEF Placed
  <1>8. Draft(a, draft, place, held)
    BY <1>2, <1>6, <1>7, <1>p DEF Draft
  <1>9. QED
    BY <1>3, <1>4, <1>5, <1>8 DEF Edited

LEMMA DeletePermissionEdits ==
    ASSUME TypeOK, NEW a \in Admins, op[a] # None, DeletePermission(a)
    PROVE  Edited(a)
  <1> DEFINE code == op[a].code
             s == snap[a]
             E(r) == [s.resources[r] EXCEPT !.perms = @ \ {code}]
             R == [r \in Resources |-> IF s.resources[r] = None THEN None ELSE E(r)]
             draft == WithoutPermission(s, code)
             held == grants \ {code}
  <1>1. s \in Snapshot /\ code \in Codes
    BY OpTypes DEF DeletePermission, TypeOK, Processes
  <1>d. /\ draft.listed = s.listed \ {code} /\ draft.aliases = [s.aliases EXCEPT ![code] = {}]
        /\ draft.defaults = s.defaults \ {code} /\ draft.resources = R
        /\ draft = [listed |-> s.listed \ {code}, aliases |-> [s.aliases EXCEPT ![code] = {}],
                    defaults |-> s.defaults \ {code}, resources |-> R]
    BY DEF WithoutPermission
  <1>2. \A r \in Resources : s.resources[r] = None \/ s.resources[r] \in Resource
    BY <1>1 DEF Snapshot
  <1>3. ASSUME NEW r \in Resources, s.resources[r] # None
        PROVE  /\ E(r) \in Resource /\ E(r).mode = s.resources[r].mode
               /\ E(r).perms = s.resources[r].perms \ {code}
    <2>1. s.resources[r] \in Resource
      BY <1>2, <1>3
    <2>2. QED
      BY <2>1 DEF Resource
  <1>4. R \in ResourceMap
    BY <1>3 DEF ResourceMap
  <1>5. draft \in Snapshot
    BY <1>1, <1>4, <1>d DEF Snapshot, ResourceMap
  <1>6. \A r \in Queries : Closed(s, r) => Closed(draft, r)
    <2>1. SUFFICES ASSUME NEW r \in Queries, Closed(s, r) PROVE Closed(draft, r)
      OBVIOUS
    <2>2. r \in Resources
      BY DEF Resources, Sources
    <2>3. CASE s.resources[r] = None
      BY <2>2, <2>3, <1>d DEF Closed
    <2>4. CASE s.resources[r] # None
      <3>1. draft.resources[r] = E(r)
        BY <2>2, <2>4, <1>d
      <3>2. QED
        BY <2>1, <2>2, <2>4, <3>1, <1>3 DEF Closed
    <2>5. QED
      BY <2>3, <2>4
  <1>7. stage[a] = "write" /\ Persist(a, draft, Sorted, held) /\ decided' = decided
    BY DEF DeletePermission
  <1>8. held \in SUBSET Codes
    BY DEF TypeOK
  <1>9. Draft(a, draft, Sorted, held)
    BY <1>6, <1>7 DEF Draft, TypeOK, Placed
  <1>10. QED
    BY <1>5, <1>8, <1>9, SortedType DEF Edited

LEMMA UpdateDefaultsEdits ==
    ASSUME TypeOK, NEW a \in Admins, op[a] # None, UpdateDefaults(a)
    PROVE  Edited(a)
  <1> DEFINE draft == [snap[a] EXCEPT !.defaults = op[a].codes]
  <1>1. snap[a] \in Snapshot /\ op[a].codes \subseteq Codes
    BY OpTypes DEF UpdateDefaults, TypeOK, Processes
  <1>2. draft \in Snapshot /\ draft.resources = snap[a].resources
    BY <1>1 DEF Snapshot
  <1>3. \A r \in Queries : Closed(snap[a], r) => Closed(draft, r)
    BY <1>2 DEF Closed
  <1>4. Draft(a, draft, Sorted, grants)
    BY <1>3 DEF Draft, UpdateDefaults, TypeOK, Placed
  <1>5. QED
    BY <1>2, <1>4, SortedType DEF Edited, TypeOK

\* The edits of one resource.
LEMMA ResourceEdits ==
    ASSUME TypeOK, NEW a \in Admins, op[a] # None,
           \/ CreateResource(a) \/ UpdateResource(a) \/ DeleteResource(a)
           \/ EnsureEntityResource(a)
    PROVE  Edited(a)
  <1> DEFINE s == snap[a]
  <1>1. s \in Snapshot /\ grants \in SUBSET Codes /\ decided \subseteq Resources
    BY DEF TypeOK, Processes
  <1>2. \A r \in Resources : s.resources[r] = None \/ s.resources[r] \in Resource
    BY <1>1 DEF Snapshot
  <1>3. Queries \subseteq Resources /\ Entities \subseteq Resources /\ Entities \cap Queries = {}
    BY AclAssumption DEF Resources, Sources
  \* Closed sees of a snapshot the resource in question only.
  <1>4. ASSUME NEW id \in Resources, NEW x \in {None} \cup Resource,
               x = None \/ id \in decided' \/ id \in Entities,
               stage[a] = "write", Persist(a, WithResource(s, id, x), Sorted, grants),
               decided \subseteq decided', decided' \subseteq Resources
        PROVE  Edited(a)
    <2>1. WithResource(s, id, x) \in Snapshot
      BY <1>1, WithResourceFacts
    <2>2. \A r \in Queries \ decided' : Closed(s, r) => Closed(WithResource(s, id, x), r)
      BY <1>1, <1>3, <1>4, WithResourceFacts DEF Closed
    <2>3. QED
      BY <1>1, <1>4, <2>1, <2>2, SortedType DEF Edited, Draft, Placed
  <1>5. CASE CreateResource(a)
    <2> DEFINE x == op[a].input
    <2>1. x \in ResourceInput
      BY <1>5, OpTypes DEF CreateResource
    <2>2. x.id \in Resources /\ Manual(x.mode, x.perms) \in Resource
      BY <2>1, ManualType DEF ResourceInput
    <2>3. QED
      BY <1>1, <1>4, <1>5, <2>2 DEF CreateResource, Decide
  <1>6. CASE UpdateResource(a)
    <2> DEFINE x == op[a].input
               prev == op[a].prev
    <2>1. x \in ResourceInput /\ prev \in Resources /\ s.resources[prev] # None
          /\ stage[a] = "write"
      BY <1>6, OpTypes DEF UpdateResource
    <2>2. /\ x.id \in Resources /\ x.mode \in Modes /\ x.perms \in SUBSET Codes
          /\ Manual(x.mode, x.perms) \in Resource
      BY <2>1, ManualType DEF ResourceInput
    <2>3. CASE s.resources[prev].managedBy = "system"
      <3> DEFINE y == [s.resources[prev] EXCEPT !.mode = x.mode, !.perms = x.perms]
      <3>1. y \in Resource
        BY <1>2, <2>1, <2>2 DEF Resource
      <3>2. Persist(a, WithResource(s, prev, y), Sorted, grants) /\ decided' = decided \cup {prev}
        BY <1>6, <2>3 DEF UpdateResource, Decide
      <3>3. QED
        BY <1>1, <1>4, <2>1, <3>1, <3>2
    <2>4. CASE s.resources[prev].managedBy # "system"
      <3> DEFINE t == WithResource(s, prev, None)
                 y == Manual(x.mode, x.perms)
                 draft == WithResource(t, x.id, y)
      <3>1. Persist(a, draft, Sorted, grants) /\ decided' = decided \cup {x.id}
        BY <1>6, <2>4 DEF UpdateResource, Decide
      <3>2. /\ t \in Snapshot /\ t.resources[prev] = None
            /\ \A r \in Resources \ {prev} : t.resources[r] = s.resources[r]
        BY <1>1, <2>1, WithResourceFacts
      <3>3. /\ draft \in Snapshot
            /\ \A r \in Resources \ {x.id} : draft.resources[r] = t.resources[r]
        BY <2>2, <3>2, WithResourceFacts
      <3>4. \A r \in Queries \ decided' : Closed(s, r) => Closed(draft, r)
        BY <1>3, <3>1, <3>2, <3>3 DEF Closed
      <3>5. Draft(a, draft, Sorted, grants)
        BY <1>1, <2>1, <2>2, <3>1, <3>4 DEF Draft, Placed
      <3>6. QED
        BY <1>1, <3>3, <3>5, SortedType DEF Edited
    <2>5. QED
      BY <2>3, <2>4
  <1>7. CASE DeleteResource(a)
    <2>1. op[a].id \in Resources
      BY <1>7, OpTypes DEF DeleteResource
    <2>2. QED
      BY <1>1, <1>4, <1>7, <2>1 DEF DeleteResource
  <1>8. CASE EnsureEntityResource(a)
    <2>1. op[a].id \in Entities
      BY <1>8, OpTypes DEF EnsureEntityResource
    <2>2. Manual("authenticated", {}) \in Resource
      BY ManualType DEF Modes
    <2>3. QED
      BY <1>1, <1>3, <1>4, <1>8, <2>1, <2>2 DEF EnsureEntityResource
  <1>9. QED
    BY <1>5, <1>6, <1>7, <1>8

LEMMA EditStep ==
    ASSUME TypeOK, NEW a \in Admins, op[a] # None, Edit(a)
    PROVE  Edited(a)
  BY CreatePermissionEdits, UpdatePermissionEdits, DeletePermissionEdits,
     UpdateDefaultsEdits, ResourceEdits DEF Edit

-----------------------------------------------------------------------------
(* Types.  A process that is not idle has an operation, an administrator who   *)
(* writes a source one that names it: op has the fields the steps take from it.*)

Naming == {"putEntity", "putTemplate", "deleteSource"}

Busy ==
    /\ \A p \in Processes : stage[p] # "idle" => op[p] # None
    /\ \A a \in Admins : stage[a] = "source" => op[a].kind \in Naming

TypeInv == TypeOK /\ Busy

LEMMA EnterTypes ==
    ASSUME TypeInv, NEW ps, NEW next \in Stage, Enter(ps, next),
           next # "idle" => \A p \in ps : op[p] # None,
           next = "source" => \A p \in ps : op[p].kind \in Naming
    PROVE  /\ stage' \in [Processes -> Stage] /\ snap' \in [Processes -> Snapshot]
           /\ op' \in [Processes -> Op \cup {None}] /\ Busy'
  <1>1. /\ stage' \in [Processes -> Stage] /\ snap' \in [Processes -> Snapshot]
        /\ op' \in [Processes -> Op \cup {None}]
    BY NothingType DEF TypeInv, TypeOK, Enter
  <1>2. \A p \in Processes : stage'[p] # "idle" => op'[p] # None
    BY DEF TypeInv, Busy, Enter
  <1>3. \A a \in Admins : stage'[a] = "source" => op'[a].kind \in Naming
    <2>1. \A a \in Admins : a \in Processes
      BY DEF Processes
    <2>2. QED
      BY <2>1 DEF TypeInv, Busy, Enter
  <1>4. QED
    BY <1>1, <1>2, <1>3 DEF Busy

LEMMA InitType == ASSUME Init PROVE TypeInv
  <1>1. stored \in Snapshot /\ PresentIn(stored.resources) \subseteq Sources
    BY AclAssumption DEF Init
  <1>2. op \in [Processes -> Op \cup {None}] /\ stage \in [Processes -> Stage] /\ Busy
    BY DEF Init, Busy, Stage, Processes
  <1>3. snap \in [Processes -> Snapshot]
    BY NothingType DEF Init
  <1>4. ops \in 0 .. MaxOps
    BY AclAssumption DEF Init
  <1>5. sources \subseteq Sources /\ decided \subseteq Resources /\ grants \subseteq Codes
        /\ found \subseteq SUBSET Sources /\ raced \in [Processes -> BOOLEAN]
    BY <1>1 DEF Init
  <1>6. QED
    BY <1>1, <1>2, <1>3, <1>4, <1>5 DEF Init, TypeInv, TypeOK

\* The draft of a synchronisation.
LEMMA SyncDraft ==
    ASSUME NEW s \in Snapshot, NEW t \in Snapshot, NEW present
    PROVE  /\ [s EXCEPT !.resources = Merge(t.resources, present)] \in Snapshot
           /\ \A r \in Resources : Closed(t, r) =>
                Closed([s EXCEPT !.resources = Merge(t.resources, present)], r)
  <1>1. t.resources \in ResourceMap
    BY DEF Snapshot, ResourceMap
  <1> DEFINE draft == [s EXCEPT !.resources = Merge(t.resources, present)]
  <1>2. draft \in Snapshot /\ draft.resources = Merge(t.resources, present)
    BY <1>1, MergeFacts DEF Snapshot, ResourceMap
  <1>3. ASSUME NEW r \in Resources, Closed(t, r) PROVE Closed(draft, r)
    BY <1>1, <1>2, <1>3, MergeFacts DEF Closed
  <1>4. QED
    BY <1>2, <1>3

\* The kind an edit tests tells what it finds in op.
LEMMA EditIsDraft ==
    ASSUME TypeInv, NEW a \in Admins, Edit(a)
    PROVE  a \in Processes /\ op[a] # None /\ Edited(a)
  <1>1. stage[a] = "write" /\ a \in Processes
    BY DEF Edit, CreatePermission, UpdatePermission, DeletePermission, UpdateDefaults,
         CreateResource, UpdateResource, DeleteResource, EnsureEntityResource, Processes
  <1>2. QED
    BY <1>1, EditStep DEF TypeInv, Busy

\* The operations that write a source name one.
LEMMA SourceIds ==
    ASSUME TypeOK, NEW a \in Admins, op[a] # None, stage[a] = "source",
           op[a].kind \in Naming
    PROVE  op[a].id \in Sources
  BY OpTypes DEF Sources, Naming

LEMMA RestType ==
    ASSUME TypeOK, NEW p \in Processes, ReadRest(p)
    PROVE  /\ snap' \in [Processes -> Snapshot]
           /\ snap'[p].listed = snap[p].listed /\ snap'[p].aliases = snap[p].aliases
           /\ snap'[p].defaults = stored.defaults /\ snap'[p].resources = stored.resources
           /\ \A q \in Processes \ {p} : snap'[q] = snap[q]
  <1> DEFINE x == [snap[p] EXCEPT !.defaults = stored.defaults, !.resources = stored.resources]
  <1>1. snap' = [snap EXCEPT ![p] = x]
    BY DEF ReadRest, TypeOK
  <1>2. /\ x \in Snapshot /\ x.listed = snap[p].listed /\ x.aliases = snap[p].aliases
        /\ x.defaults = stored.defaults /\ x.resources = stored.resources
    BY DEF TypeOK, Snapshot
  <1>3. QED
    BY <1>1, <1>2 DEF TypeOK

LEMMA TypeStep == ASSUME TypeInv, [Next]_vars PROVE TypeInv'
  <1>1. ASSUME NEW a \in Admins, NEW o \in Op, Begin(a, o) PROVE TypeInv'
    <2>1. FirstStage(o) \in Stage
      BY DEF FirstStage, Stage
    <2>2. ops' \in 0 .. MaxOps
      BY <1>1, AclAssumption DEF Begin, TypeInv, TypeOK
    <2>3. o # None
      BY AclAssumption
    <2>4. FirstStage(o) = "source" => o.kind \in Naming
      BY DEF FirstStage, Naming
    <2>5. Busy'
      BY <1>1, <2>3, <2>4 DEF Begin, TypeInv, TypeOK, Busy, Processes
    <2>6. QED
      BY <1>1, <2>1, <2>2, <2>5 DEF Begin, TypeInv, TypeOK, Processes, tables
  <1>2. ASSUME NEW a \in Admins, CheckReserved(a) PROVE TypeInv'
    BY <1>2 DEF CheckReserved, TypeInv, TypeOK, Busy, Processes, Stage, tables, history
  <1>3. ASSUME NEW a \in Admins, Edit(a) PROVE TypeInv'
    <2>1. op[a] # None /\ Edited(a)
      BY <1>3, EditIsDraft
    <2>2. PICK draft \in Snapshot, place \in [Codes -> Nat], held \in SUBSET Codes :
            Draft(a, draft, place, held)
      BY <2>1 DEF Edited
    <2>3. Enter({a}, "reload")
      BY <2>2 DEF Draft, Persist
    <2>4. raced' \in [Processes -> BOOLEAN]
      BY <2>2 DEF Draft, Persist, Overlapped, TypeInv, TypeOK
    <2>5. /\ stage' \in [Processes -> Stage] /\ snap' \in [Processes -> Snapshot]
          /\ op' \in [Processes -> Op \cup {None}] /\ Busy'
      BY <2>1, <2>3, EnterTypes DEF Stage
    <2>6. QED
      BY <2>2, <2>4, <2>5 DEF Draft, Persist, TypeInv, TypeOK
  <1>4. ASSUME NEW a \in Admins, Grant(a) PROVE TypeInv'
    <2>1. a \in Processes /\ op[a] # None /\ op[a].codes \subseteq Codes
      BY <1>4, OpTypes DEF Grant, TypeInv, Busy, Processes
    <2>2. Enter({a}, "idle")
      BY <1>4 DEF Grant
    <2>3. /\ stage' \in [Processes -> Stage] /\ snap' \in [Processes -> Snapshot]
          /\ op' \in [Processes -> Op \cup {None}] /\ Busy'
      BY <2>2, EnterTypes DEF Stage
    <2>4. QED
      BY <1>4, <2>1, <2>3 DEF Grant, TypeInv, TypeOK, history
  <1>5. ASSUME NEW a \in Admins, EntityResourceExists(a) PROVE TypeInv'
    <2>1. Enter({a}, "source") /\ op[a] # None /\ op[a].kind \in Naming
      BY <1>5 DEF EntityResourceExists, TypeInv, Busy, Processes, Naming
    <2>2. /\ stage' \in [Processes -> Stage] /\ snap' \in [Processes -> Snapshot]
          /\ op' \in [Processes -> Op \cup {None}] /\ Busy'
      BY <2>1, EnterTypes DEF Stage
    <2>3. QED
      BY <1>5, <2>2 DEF EntityResourceExists, TypeInv, TypeOK, tables, history
  <1>6. ASSUME NEW a \in Admins, ReloadAdmin(a) PROVE TypeInv'
    <2>1. a \in Processes /\ op[a] # None
      BY <1>6 DEF ReloadAdmin, Reload, TypeInv, Busy, Processes
    <2>2. PICK next \in {"source", "idle"} :
            Enter({a}, next) /\ (next = "source" => op[a].kind \in Naming)
      BY <1>6 DEF ReloadAdmin, Naming
    <2>3. /\ stage' \in [Processes -> Stage] /\ snap' \in [Processes -> Snapshot]
          /\ op' \in [Processes -> Op \cup {None}] /\ Busy'
      BY <2>1, <2>2, EnterTypes DEF Stage
    <2>4. QED
      BY <1>6, <2>1, <2>3 DEF ReloadAdmin, Reload, TypeInv, TypeOK, tables
  <1>7. ASSUME NEW a \in Admins, WriteSource(a) PROVE TypeInv'
    <2>1. a \in Processes /\ op[a] # None /\ Enter({a}, "join")
      BY <1>7 DEF WriteSource, TypeInv, Busy, Processes
    <2>2. /\ stage' \in [Processes -> Stage] /\ snap' \in [Processes -> Snapshot]
          /\ op' \in [Processes -> Op \cup {None}] /\ Busy'
      BY <2>1, EnterTypes DEF Stage
    <2>3. op[a].id \in Sources
      BY <1>7, <2>1, SourceIds DEF WriteSource, TypeInv, Busy
    <2>4. QED
      BY <1>7, <2>2, <2>3 DEF WriteSource, TypeInv, TypeOK, history
  <1>8. ASSUME NEW a \in Admins, JoinSync(a) PROVE TypeInv'
    <2>1. SyncOp \in Op /\ SyncOp # None
      BY AclAssumption DEF SyncOp, Op
    <2>2. op[a] # None /\ a # Sync /\ Sync \in Processes /\ a \in Processes
      BY <1>8, AclAssumption DEF JoinSync, TypeInv, Busy, Processes
    <2>3. stage' \in [Processes -> Stage] /\ op' \in [Processes -> Op \cup {None}]
      BY <1>8, <2>1, <2>2 DEF JoinSync, TypeInv, TypeOK, Stage
    <2>4. Busy'
      <3>1. \A p \in Processes : stage'[p] # "idle" => op'[p] # None
        BY <1>8, <2>1, <2>2 DEF JoinSync, TypeInv, TypeOK, Busy
      <3>2. \A b \in Admins :
              /\ b \in Processes /\ b # Sync /\ op'[b] = op[b]
              /\ stage'[b] = "source" => stage[b] = "source"
        BY <1>8, <2>2, AclAssumption DEF JoinSync, TypeInv, TypeOK, Processes
      <3>3. \A b \in Admins : stage'[b] = "source" => op'[b].kind \in Naming
        <4>1. \A b \in Admins : stage[b] = "source" => op[b].kind \in Naming
          BY DEF TypeInv, Busy
        <4>2. QED
          BY <3>2, <4>1
      <3>4. QED
        BY <3>1, <3>3 DEF Busy
    <2>5. QED
      BY <1>8, <2>3, <2>4 DEF JoinSync, TypeInv, TypeOK, tables, history
  <1>9. ASSUME NEW p \in Processes, ReadCatalog(p) PROVE TypeInv'
    <2>1. [Nothing EXCEPT !.listed = stored.listed, !.aliases = stored.aliases] \in Snapshot
      BY NothingType DEF TypeInv, TypeOK, Snapshot
    <2>2. QED
      BY <1>9, <2>1 DEF ReadCatalog, TypeInv, TypeOK, Busy, Stage, tables
  <1>10. ASSUME NEW p \in Processes, ReadRest(p) PROVE TypeInv'
    <2>1. snap' \in [Processes -> Snapshot]
      BY <1>10, RestType DEF TypeInv
    <2>2. stage' \in [Processes -> Stage]
      BY <1>10 DEF ReadRest, TypeInv, TypeOK, Stage
    <2>3. Busy'
      BY <1>10 DEF ReadRest, TypeInv, TypeOK, Busy
    <2>4. QED
      BY <1>10, <2>1, <2>2, <2>3 DEF ReadRest, TypeInv, TypeOK, tables, history
  <1>11. ASSUME NEW p \in Processes, Fail(p) PROVE TypeInv'
    <2>1. PICK ps : Enter(ps, "idle")
      BY <1>11 DEF Fail
    <2>2. /\ stage' \in [Processes -> Stage] /\ snap' \in [Processes -> Snapshot]
          /\ op' \in [Processes -> Op \cup {None}] /\ Busy'
      BY <2>1, EnterTypes DEF Stage
    <2>3. found' \subseteq SUBSET Sources /\ raced' \in [Processes -> BOOLEAN]
      BY <1>11 DEF Fail, TypeInv, TypeOK
    <2>4. behind' \in BOOLEAN /\ calm' \in BOOLEAN
      BY <1>11 DEF Fail, TypeInv, TypeOK
    <2>5. QED
      BY <1>11, <2>2, <2>3, <2>4 DEF Fail, TypeInv, TypeOK, tables
  <1>12. ASSUME Discover PROVE TypeInv'
    BY <1>12 DEF Discover, TypeInv, TypeOK, Busy, tables, history
  <1>13. ASSUME SyncNothing PROVE TypeInv'
    <2>1. Enter({Sync} \cup Waiting, "idle")
      BY <1>13 DEF SyncNothing, EndSync
    <2>2. /\ stage' \in [Processes -> Stage] /\ snap' \in [Processes -> Snapshot]
          /\ op' \in [Processes -> Op \cup {None}] /\ Busy'
      BY <2>1, EnterTypes DEF Stage
    <2>3. QED
      BY <1>13, <2>2 DEF SyncNothing, EndSync, TypeInv, TypeOK, tables, history
  <1>14. ASSUME SyncWrite PROVE TypeInv'
    <2>1. Sync \in Processes /\ op[Sync] # None /\ Enter({Sync}, "reload")
      BY <1>14 DEF SyncWrite, TypeInv, Busy, Processes
    <2>2. /\ stage' \in [Processes -> Stage] /\ snap' \in [Processes -> Snapshot]
          /\ op' \in [Processes -> Op \cup {None}] /\ Busy'
      BY <2>1, EnterTypes DEF Stage
    <2>3. stored' \in Snapshot
      <3>1. PICK present \in found :
              stored' = [stored EXCEPT !.resources = Merge(snap[Sync].resources, present)]
        BY <1>14 DEF SyncWrite
      <3>2. stored \in Snapshot /\ snap[Sync] \in Snapshot
        BY <2>1 DEF TypeInv, TypeOK
      <3>3. QED
        BY <3>1, <3>2, SyncDraft
    <2>4. raced' \in [Processes -> BOOLEAN]
      BY <1>14 DEF SyncWrite, Overlapped, TypeInv, TypeOK
    <2>5. QED
      BY <1>14, <2>2, <2>3, <2>4 DEF SyncWrite, TypeInv, TypeOK
  <1>15. ASSUME SyncReload PROVE TypeInv'
    <2>1. Enter({Sync} \cup Waiting, "idle") /\ Sync \in Processes
      BY <1>15 DEF SyncReload, EndSync, Processes
    <2>2. /\ stage' \in [Processes -> Stage] /\ snap' \in [Processes -> Snapshot]
          /\ op' \in [Processes -> Op \cup {None}] /\ Busy'
      BY <2>1, EnterTypes DEF Stage
    <2>3. QED
      BY <1>15, <2>1, <2>2 DEF SyncReload, EndSync, Reload, TypeInv, TypeOK, tables
  <1>16. ASSUME Restart PROVE TypeInv'
    <2>1. Enter(Processes, "idle")
      BY <1>16 DEF Restart
    <2>2. /\ stage' \in [Processes -> Stage] /\ snap' \in [Processes -> Snapshot]
          /\ op' \in [Processes -> Op \cup {None}] /\ Busy'
      BY <2>1, EnterTypes DEF Stage
    <2>3. stored' \in Snapshot /\ acl' \in Snapshot
      BY <1>16, SyncDraft DEF Restart, TypeInv, TypeOK
    <2>4. QED
      BY <1>16, <2>2, <2>3 DEF Restart, TypeInv, TypeOK
  <1>17. ASSUME UNCHANGED vars PROVE TypeInv'
    BY <1>17 DEF vars, tables, local, history, TypeInv, TypeOK, Busy
  <1>18. QED
    BY <1>1, <1>2, <1>3, <1>4, <1>5, <1>6, <1>7, <1>8, <1>9, <1>10, <1>11, <1>12, <1>13,
       <1>14, <1>15, <1>16, <1>17 DEF Next, Edit

\* The state is what its declaration says in every behaviour (class AclService, the
\* tables, AclAdminConfigService).
THEOREM TypeCorrect == Spec => []TypeOK
  <1>1. Init => TypeInv
    BY InitType
  <1>2. TypeInv /\ [Next]_vars => TypeInv'
    BY TypeStep
  <1>3. TypeInv => TypeOK
    BY DEF TypeInv
  <1>4. QED
    BY <1>1, <1>2, <1>3, PTL DEF Spec

-----------------------------------------------------------------------------
(* A draft is validated in the order an edit leaves it in, and read back in    *)
(* the order of the codes: the two differ by one permission at most.           *)

LEMMA MergeLoadable ==
    ASSUME NEW s \in Snapshot, NEW present, Loadable(s)
    PROVE  Loadable([s EXCEPT !.resources = Merge(s.resources, present)])
  <1> DEFINE d == [s EXCEPT !.resources = Merge(s.resources, present)]
  <1>1. /\ d.listed = s.listed /\ d.aliases = s.aliases /\ d.defaults = s.defaults
        /\ d.resources = Merge(s.resources, present)
    BY DEF Snapshot
  <1>2. AliasesAccepted(d, Sorted)
    BY <1>1 DEF Loadable, Valid, AliasesAccepted
  <1>3. ReferencesListed(d)
    <2>1. s.resources \in ResourceMap
      BY DEF Snapshot, ResourceMap
    <2>2. ASSUME NEW r \in Resources, d.resources[r] # None
          PROVE  d.resources[r].perms \subseteq d.listed
      BY <1>1, <2>1, <2>2, MergeFacts DEF Loadable, Valid, ReferencesListed
    <2>3. QED
      BY <1>1, <2>2 DEF Loadable, Valid, ReferencesListed
  <1>4. QED
    BY <1>2, <1>3 DEF Loadable, Valid

\* What is left of a draft without the permission that stood elsewhere can be loaded.
LEMMA PlacedRepairs ==
    ASSUME NEW s \in Snapshot, NEW place \in [Codes -> Nat], Placed(s, place), Valid(s, place)
    PROVE  Loadable(s) \/ \E c \in s.listed : Loadable(WithoutPermission(s, c))
  <1>1. CASE place = Sorted
    BY <1>1 DEF Loadable
  <1>2. ASSUME NEW x \in s.listed, NEW n \in Nat, place = [Sorted EXCEPT ![x] = n]
        PROVE  Loadable(WithoutPermission(s, x))
    <2> DEFINE t == WithoutPermission(s, x)
    <2>1. /\ s.listed \subseteq Codes /\ s.aliases \in [Codes -> SUBSET Codes]
          /\ s.resources \in ResourceMap
      BY DEF Snapshot, ResourceMap
    <2>2. /\ t.listed = s.listed \ {x} /\ t.defaults = s.defaults \ {x}
          /\ \A c \in t.listed : t.aliases[c] = s.aliases[c]
      BY <2>1 DEF WithoutPermission
    <2>3. \A c \in Codes \ {x} : place[c] = Sorted[c]
      BY <1>2 DEF Sorted
    <2>4. AliasesAccepted(s, place) /\ ReferencesListed(s)
      BY DEF Valid
    <2>5. AliasesAccepted(t, Sorted)
      <3>1. ASSUME NEW c \in t.listed, NEW alias \in t.aliases[c]
            PROVE  /\ alias \in t.listed => Sorted[alias] > Sorted[c]
                   /\ \A d \in t.listed : d # c => alias \notin t.aliases[d]
        <4>1. /\ c \in s.listed /\ c \in Codes \ {x} /\ alias \in s.aliases[c]
              /\ \A d \in t.listed : d \in s.listed /\ d \in Codes \ {x}
          BY <2>1, <2>2, <3>1
        <4>2. /\ alias \in s.listed => place[alias] > place[c]
              /\ \A d \in s.listed : d # c => alias \notin s.aliases[d]
          BY <2>4, <4>1 DEF AliasesAccepted
        <4>3. QED
          BY <2>2, <2>3, <4>1, <4>2
      <3>2. QED
        BY <3>1 DEF AliasesAccepted
    <2>6. ReferencesListed(t)
      <3>1. ASSUME NEW r \in Resources, t.resources[r] # None
            PROVE  t.resources[r].perms \subseteq t.listed
        <4>1. /\ s.resources[r] # None
              /\ t.resources[r] = [s.resources[r] EXCEPT !.perms = @ \ {x}]
          BY <3>1 DEF WithoutPermission
        <4>2. s.resources[r] \in Resource
          BY <2>1, <4>1 DEF ResourceMap
        <4>3. t.resources[r].perms = s.resources[r].perms \ {x}
          BY <4>1, <4>2 DEF Resource
        <4>4. QED
          BY <2>2, <2>4, <4>1, <4>3 DEF ReferencesListed
      <3>2. QED
        BY <2>2, <2>4, <3>1 DEF ReferencesListed
    <2>7. QED
      BY <2>5, <2>6 DEF Loadable, Valid
  <1>3. QED
    BY <1>1, <1>2 DEF Placed

\* What stands in the tables was accepted in an order that is the one it is read back
\* in, but for one permission.
RepairInv == \E place \in [Codes -> Nat] : Placed(stored, place) /\ Valid(stored, place)

LEMMA LoadableAccepted ==
    ASSUME Loadable(stored) PROVE RepairInv
  BY SortedType DEF RepairInv, Loadable, Placed

\* The order is checked of the permissions alone.
LEMMA SamePermissions ==
    ASSUME NEW s, NEW t, s.listed = t.listed, s.aliases = t.aliases, NEW place
    PROVE  /\ AliasesAccepted(s, place) => AliasesAccepted(t, place)
           /\ Placed(s, place) => Placed(t, place)
  BY DEF AliasesAccepted, Placed

LEMMA RepairStep == ASSUME TypeInv, RepairInv, [Next]_vars PROVE RepairInv'
  <1>1. CASE stored' = stored
    BY <1>1 DEF RepairInv, Placed, Valid, AliasesAccepted, ReferencesListed
  <1>2. ASSUME NEW a \in Admins, Edit(a) PROVE RepairInv'
    <2>1. PICK draft \in Snapshot, place \in [Codes -> Nat], held \in SUBSET Codes :
            Draft(a, draft, place, held)
      BY <1>2, EditIsDraft DEF Edited
    <2>2. stored' = draft /\ Placed(draft, place) /\ Valid(draft, place)
      BY <2>1 DEF Draft, Persist
    <2>3. QED
      BY <2>2 DEF RepairInv, Placed, Valid, AliasesAccepted, ReferencesListed
  <1>3. ASSUME SyncWrite PROVE RepairInv'
    <2>1. PICK present \in found :
            /\ stored' = [stored EXCEPT !.resources = Merge(snap[Sync].resources, present)]
            /\ ReferencesListed(stored')
      BY <1>3 DEF SyncWrite, ReferencesListed
    <2>2. stored'.listed = stored.listed /\ stored'.aliases = stored.aliases
      BY <2>1 DEF TypeInv, TypeOK, Snapshot
    <2>3. PICK place \in [Codes -> Nat] : Placed(stored, place) /\ Valid(stored, place)
      BY DEF RepairInv
    <2>4. Placed(stored', place) /\ Valid(stored', place)
      BY <2>1, <2>2, <2>3, SamePermissions DEF Valid
    <2>5. QED
      BY <2>4 DEF RepairInv, Placed, Valid, AliasesAccepted, ReferencesListed
  <1>4. ASSUME Restart PROVE RepairInv'
    <2>1. /\ stored' = [stored EXCEPT !.resources = Merge(stored.resources, sources)]
          /\ Loadable(stored) /\ stored \in Snapshot
      BY <1>4 DEF Restart, TypeInv, TypeOK
    <2>2. Loadable(stored')
      BY <2>1, MergeLoadable
    <2>3. Placed(stored', Sorted) /\ Valid(stored', Sorted)
      BY <2>2 DEF Placed, Loadable
    <2>4. QED
      BY <2>3, SortedType DEF RepairInv, Placed, Valid, AliasesAccepted, ReferencesListed
  <1>5. ASSUME NEW a \in Admins,
               \/ (\E o \in Op : Begin(a, o)) \/ CheckReserved(a) \/ Grant(a)
               \/ EntityResourceExists(a) \/ WriteSource(a) \/ JoinSync(a) \/ ReloadAdmin(a)
        PROVE  stored' = stored
    BY <1>5 DEF Begin, CheckReserved, Grant, EntityResourceExists, WriteSource, JoinSync,
                ReloadAdmin, Reload, tables
  <1>6. ASSUME NEW p \in Processes, ReadCatalog(p) \/ ReadRest(p) \/ Fail(p)
        PROVE  stored' = stored
    BY <1>6 DEF ReadCatalog, ReadRest, Fail, tables
  <1>7. ASSUME Discover \/ SyncNothing \/ SyncReload PROVE stored' = stored
    BY <1>7 DEF Discover, SyncNothing, SyncReload, Reload, tables
  <1>8. ASSUME UNCHANGED vars PROVE stored' = stored
    BY <1>8 DEF vars, tables
  <1>9. QED
    BY <1>1, <1>2, <1>3, <1>4, <1>5, <1>6, <1>7, <1>8 DEF Next, Edit

\* Whatever administrators and synchronisations commit over one another, one deletion
\* at most separates the tables from what a reload and a start accept (persistSnapshot,
\* replaceResources).
THEOREM Repairable == Spec => []OneDeletionAway
  <1>1. Init => TypeInv /\ RepairInv
    BY InitType, LoadableAccepted, AclAssumption DEF Init
  <1>2. TypeInv /\ RepairInv /\ [Next]_vars => TypeInv' /\ RepairInv'
    BY TypeStep, RepairStep
  <1>3. TypeInv /\ RepairInv => OneDeletionAway
    BY PlacedRepairs DEF TypeInv, TypeOK, RepairInv, OneDeletionAway
  <1>4. QED
    BY <1>1, <1>2, <1>3, PTL DEF Spec

-----------------------------------------------------------------------------
(* What reloads read is what the tables hold, unless something was committed in *)
(* between; and while the memory is behind, a reload is on its way or one was    *)
(* raced or failed.                                                              *)

ReadsCurrent ==
    /\ \A p \in Processes : stage[p] = "reloadRest" /\ ~raced[p] =>
            snap[p].listed = stored.listed /\ snap[p].aliases = stored.aliases
    /\ \A p \in Processes : stage[p] = "apply" /\ ~raced[p] => snap[p] = stored

Awaited == acl = stored \/ behind \/ \E p \in Processes : stage[p] \in Reloading

CurrencyInv == ReadsCurrent /\ Awaited

\* Of a process that has entered a stage before its reload, or left it, nothing is asked.
LEMMA CommitCurrent ==
    ASSUME TypeInv, NEW p \in Processes, Enter({p}, "reload"), raced' = Overlapped(p)
    PROVE  CurrencyInv'
  <1>1. stage'[p] = "reload"
    BY DEF Enter
  <1>2. \A q \in Processes \ {p} : stage'[q] = stage[q]
    BY DEF Enter
  <1>3. \A q \in Processes : stage'[q] \in {"reloadRest", "apply"} => raced'[q]
    BY <1>1, <1>2 DEF Overlapped
  <1>4. ReadsCurrent'
    BY <1>3 DEF ReadsCurrent
  <1>5. QED
    BY <1>1, <1>4 DEF CurrencyInv, Awaited, Reloading

\* A process goes on, none of those reading or about to; the tables stay.
LEMMA PassCurrent ==
    ASSUME TypeInv, CurrencyInv, UNCHANGED <<stored, acl, raced, behind>>,
           \A p \in Processes :
                \/ stage'[p] = stage[p] /\ snap'[p] = snap[p]
                \/ stage[p] \notin Reloading /\ stage'[p] \notin Reloading
    PROVE  CurrencyInv'
  BY DEF CurrencyInv, ReadsCurrent, Awaited, Reloading

LEMMA EnterStage ==
    ASSUME TypeInv, NEW ps, NEW next, Enter(ps, next)
    PROVE  \A q \in Processes : IF q \in ps THEN stage'[q] = next
                                ELSE stage'[q] = stage[q] /\ snap'[q] = snap[q]
  BY DEF Enter

\* A reload ends, and callers that waited for it.
LEMMA ReloadCurrent ==
    ASSUME TypeInv, CurrencyInv, NEW p \in Processes, Reload(p), NEW ps, NEW next \in Stage,
           Enter(ps, next), p \in ps, next \notin Reloading
    PROVE  CurrencyInv'
  <1>1. stage[p] = "apply" /\ acl' = snap[p] /\ behind' = raced[p] /\ stored' = stored
        /\ raced[p] \in BOOLEAN
    BY DEF Reload, tables, TypeInv, TypeOK
  <1>2. acl' = stored' \/ behind'
    BY <1>1 DEF CurrencyInv, ReadsCurrent
  <1>3. \A q \in Processes : stage'[q] \in Reloading =>
            q # p /\ stage'[q] = stage[q] /\ snap'[q] = snap[q] /\ raced'[q] = raced[q]
    <2>1. \A q \in Processes : stage'[q] \in Reloading =>
            q # p /\ stage'[q] = stage[q] /\ snap'[q] = snap[q]
      BY EnterStage
    <2>2. \A q \in Processes \ {p} : raced'[q] = raced[q]
      BY DEF Reload, TypeInv, TypeOK
    <2>3. QED
      BY <2>1, <2>2
  <1>4. ReadsCurrent'
    BY <1>1, <1>3 DEF CurrencyInv, ReadsCurrent, Reloading
  <1>5. QED
    BY <1>2, <1>4 DEF CurrencyInv, Awaited

LEMMA CurrencyStep == ASSUME TypeInv, CurrencyInv, [Next]_vars PROVE CurrencyInv'
  <1>1. ASSUME NEW a \in Admins, NEW o \in Op, Begin(a, o) PROVE CurrencyInv'
    <2>1. FirstStage(o) \notin Reloading
      BY DEF FirstStage, Reloading
    <2>2. \A p \in Processes : snap'[p] = snap[p] /\ (stage'[p] = stage[p] \/
            (stage[p] \notin Reloading /\ stage'[p] \notin Reloading))
      BY <1>1, <2>1 DEF Begin, TypeInv, TypeOK, Reloading
    <2>3. QED
      BY <1>1, <2>2, PassCurrent DEF Begin, tables
  <1>2. ASSUME NEW a \in Admins, CheckReserved(a) PROVE CurrencyInv'
    <2>1. \A p \in Processes : snap'[p] = snap[p] /\ (stage'[p] = stage[p] \/
            (stage[p] \notin Reloading /\ stage'[p] \notin Reloading))
      BY <1>2 DEF CheckReserved, TypeInv, TypeOK, Reloading
    <2>2. QED
      BY <1>2, <2>1, PassCurrent DEF CheckReserved, tables, history
  <1>3. ASSUME NEW a \in Admins, Edit(a) PROVE CurrencyInv'
    BY <1>3, EditIsDraft, CommitCurrent DEF Edited, Draft, Persist
  <1>4. ASSUME NEW a \in Admins, Grant(a) PROVE CurrencyInv'
    <2>1. \A q \in Processes : IF q = a THEN stage'[q] = "idle" /\ stage[q] = "write"
                               ELSE stage'[q] = stage[q] /\ snap'[q] = snap[q]
      BY <1>4, EnterStage DEF Grant
    <2>2. QED
      BY <1>4, <2>1, PassCurrent DEF Grant, history, Reloading
  <1>5. ASSUME NEW a \in Admins, EntityResourceExists(a) PROVE CurrencyInv'
    <2>1. \A q \in Processes : IF q = a THEN stage'[q] = "source" /\ stage[q] = "write"
                               ELSE stage'[q] = stage[q] /\ snap'[q] = snap[q]
      BY <1>5, EnterStage DEF EntityResourceExists
    <2>2. QED
      BY <1>5, <2>1, PassCurrent DEF EntityResourceExists, tables, history, Reloading
  <1>6. ASSUME NEW a \in Admins, ReloadAdmin(a) PROVE CurrencyInv'
    <2>1. a \in Processes /\ Reload(a)
      BY <1>6 DEF ReloadAdmin, Processes
    <2>2. PICK next \in {"source", "idle"} : Enter({a}, next)
      BY <1>6 DEF ReloadAdmin
    <2>3. next \in Stage /\ next \notin Reloading
      BY DEF Stage, Reloading
    <2>4. QED
      BY <2>1, <2>2, <2>3, ReloadCurrent
  <1>7. ASSUME NEW a \in Admins, WriteSource(a) PROVE CurrencyInv'
    <2>1. \A q \in Processes : IF q = a THEN stage'[q] = "join" /\ stage[q] = "source"
                               ELSE stage'[q] = stage[q] /\ snap'[q] = snap[q]
      BY <1>7, EnterStage DEF WriteSource
    <2>2. QED
      BY <1>7, <2>1, PassCurrent DEF WriteSource, history, Reloading
  <1>8. ASSUME NEW a \in Admins, JoinSync(a) PROVE CurrencyInv'
    <2>1. \A p \in Processes : snap'[p] = snap[p] /\ (stage'[p] = stage[p] \/
            (stage[p] \notin Reloading /\ stage'[p] \notin Reloading))
      BY <1>8, AclAssumption DEF JoinSync, TypeInv, TypeOK, Reloading
    <2>2. QED
      BY <1>8, <2>1, PassCurrent DEF JoinSync, tables, history
  <1>9. ASSUME NEW p \in Processes, ReadCatalog(p) PROVE CurrencyInv'
    <2>1. snap'[p].listed = stored.listed /\ snap'[p].aliases = stored.aliases
      BY <1>9 DEF ReadCatalog, TypeInv, TypeOK, Nothing
    <2>2. \A q \in Processes \ {p} : snap'[q] = snap[q] /\ stage'[q] = stage[q] /\ raced'[q] = raced[q]
      BY <1>9 DEF ReadCatalog, TypeInv, TypeOK
    <2>3. stage'[p] # "apply" /\ (stage[p] \in Reloading => stage'[p] \in Reloading)
          /\ stored' = stored /\ acl' = acl /\ behind' = behind
      BY <1>9 DEF ReadCatalog, TypeInv, TypeOK, tables, Reloading
    <2>4. ReadsCurrent'
      BY <2>1, <2>2, <2>3 DEF CurrencyInv, ReadsCurrent
    <2>5. Awaited'
      BY <2>2, <2>3 DEF CurrencyInv, Awaited
    <2>6. QED
      BY <2>4, <2>5 DEF CurrencyInv
  <1>10. ASSUME NEW p \in Processes, ReadRest(p) PROVE CurrencyInv'
    <2>1. /\ snap'[p].listed = snap[p].listed /\ snap'[p].aliases = snap[p].aliases
          /\ snap'[p].defaults = stored.defaults /\ snap'[p].resources = stored.resources
          /\ \A q \in Processes \ {p} : snap'[q] = snap[q]
          /\ snap'[p] \in Snapshot
      BY <1>10, RestType DEF TypeInv
    <2>2. /\ \A q \in Processes \ {p} : stage'[q] = stage[q]
          /\ stage'[p] # "reloadRest"
          /\ stage'[p] = "apply" <=> stage[p] = "reloadRest"
          /\ stage[p] \in {"loadRest", "reloadRest"}
          /\ raced' = raced /\ stored' = stored /\ acl' = acl /\ behind' = behind
      BY <1>10 DEF ReadRest, TypeInv, TypeOK, tables, history
    <2>3. stage[p] = "reloadRest" /\ ~raced[p] => snap'[p] = stored
      <3>1. SUFFICES ASSUME stage[p] = "reloadRest", ~raced[p] PROVE snap'[p] = stored
        OBVIOUS
      <3>2. snap'[p].listed = stored.listed /\ snap'[p].aliases = stored.aliases
        BY <2>1, <3>1 DEF CurrencyInv, ReadsCurrent
      <3>3. stored \in Snapshot
        BY DEF TypeInv, TypeOK
      <3>4. QED
        BY <2>1, <3>2, <3>3 DEF Snapshot
    <2>4. ReadsCurrent'
      BY <2>1, <2>2, <2>3 DEF CurrencyInv, ReadsCurrent
    <2>5. Awaited'
      BY <2>2 DEF CurrencyInv, Awaited, Reloading
    <2>6. QED
      BY <2>4, <2>5 DEF CurrencyInv
  <1>11. ASSUME NEW p \in Processes, Fail(p) PROVE CurrencyInv'
    <2> DEFINE ps == IF p = Sync THEN {Sync} \cup Waiting ELSE {p}
    <2>1. \A q \in Processes : IF q \in ps THEN stage'[q] = "idle"
                               ELSE stage'[q] = stage[q] /\ snap'[q] = snap[q]
      BY <1>11, EnterStage DEF Fail
    <2>2. \A q \in ps : q = p \/ stage[q] = "wait"
      BY DEF Waiting
    <2>3. /\ stored' = stored /\ acl' = acl
          /\ behind' = (behind \/ stage[p] \in Reloading)
          /\ \A q \in Processes \ {p} : raced'[q] = raced[q]
      BY <1>11 DEF Fail, tables, TypeInv, TypeOK
    <2>4. p \in ps
      OBVIOUS
    <2>5. ReadsCurrent'
      BY <2>1, <2>3, <2>4 DEF CurrencyInv, ReadsCurrent
    <2>6. Awaited'
      BY <2>1, <2>2, <2>3 DEF CurrencyInv, Awaited, Reloading
    <2>7. QED
      BY <2>5, <2>6 DEF CurrencyInv
  <1>12. ASSUME Discover PROVE CurrencyInv'
    BY <1>12, PassCurrent DEF Discover, tables, history
  <1>13. ASSUME SyncNothing PROVE CurrencyInv'
    <2>1. \A q \in Processes : IF q \in {Sync} \cup Waiting THEN stage'[q] = "idle"
                               ELSE stage'[q] = stage[q] /\ snap'[q] = snap[q]
      BY <1>13, EnterStage DEF SyncNothing, EndSync
    <2>2. \A q \in {Sync} \cup Waiting : stage[q] \notin Reloading
      BY <1>13 DEF SyncNothing, Waiting, Reloading
    <2>3. \A q \in Processes :
                \/ stage'[q] = stage[q] /\ snap'[q] = snap[q]
                \/ stage[q] \notin Reloading /\ stage'[q] \notin Reloading
      BY <2>1, <2>2 DEF Reloading
    <2>4. QED
      BY <1>13, <2>3, PassCurrent DEF SyncNothing, tables, history
  <1>14. ASSUME SyncWrite PROVE CurrencyInv'
    BY <1>14, CommitCurrent DEF SyncWrite, Processes
  <1>15. ASSUME SyncReload PROVE CurrencyInv'
    <2>1. Sync \in Processes /\ "idle" \in Stage /\ "idle" \notin Reloading
      BY DEF Processes, Stage, Reloading
    <2>2. QED
      BY <1>15, <2>1, ReloadCurrent DEF SyncReload, EndSync
  <1>16. ASSUME Restart PROVE CurrencyInv'
    <2>1. \A q \in Processes : stage'[q] = "idle"
      BY <1>16, EnterStage DEF Restart
    <2>2. QED
      BY <1>16, <2>1 DEF Restart, CurrencyInv, ReadsCurrent, Awaited
  <1>17. ASSUME UNCHANGED vars PROVE CurrencyInv'
    BY <1>17, PassCurrent DEF vars, tables, local, history
  <1>18. QED
    BY <1>1, <1>2, <1>3, <1>4, <1>5, <1>6, <1>7, <1>8, <1>9, <1>10, <1>11, <1>12, <1>13,
       <1>14, <1>15, <1>16, <1>17 DEF Next, Edit

\* The memory falls behind the tables only through a commit during the reload it
\* came from, or a reload that failed (persistSnapshot, AclService.reload).
THEOREM MemoryCurrent == Spec => []StaleOnlyByRace
  <1>1. Init => TypeInv /\ CurrencyInv
    <2>1. Init => CurrencyInv
      BY DEF Init, CurrencyInv, ReadsCurrent, Awaited
    <2>2. QED
      BY <2>1, InitType
  <1>2. TypeInv /\ CurrencyInv /\ [Next]_vars => TypeInv' /\ CurrencyInv'
    BY TypeStep, CurrencyStep
  <1>3. CurrencyInv => StaleOnlyByRace
    BY DEF CurrencyInv, Awaited, StaleOnlyByRace
  <1>4. QED
    BY <1>1, <1>2, <1>3, PTL DEF Spec

-----------------------------------------------------------------------------
(* A template nobody decided about is closed in the tables, in the memory and  *)
(* in whatever anyone has read and may yet write back or load.                 *)

ClosedInv == \A r \in Queries \ decided :
    /\ Closed(stored, r) /\ Closed(acl, r)
    /\ \A p \in Processes : Closed(snap[p], r)

LEMMA ClosedIsDenied ==
    ASSUME NEW s \in Snapshot, NEW r \in Resources, Closed(s, r)
    PROVE  ~CanAccess(s, Codes, r)
  BY DEF Closed, CanAccess

LEMMA EnterClosed ==
    ASSUME NEW r \in Queries, \A p \in Processes : Closed(snap[p], r), NEW ps, NEW next, Enter(ps, next)
    PROVE  \A p \in Processes : Closed(snap'[p], r)
  <1>1. r \in Resources
    BY DEF Resources, Sources
  <1>2. Closed(Nothing, r)
    BY <1>1 DEF Nothing, Closed
  <1>3. \A p \in Processes : snap'[p] = Nothing \/ snap'[p] = snap[p]
    BY DEF Enter
  <1>4. QED
    BY <1>2, <1>3 DEF Closed

LEMMA ClosedStep == ASSUME TypeInv, ClosedInv, [Next]_vars PROVE ClosedInv'
  \* Nothing is decided, read, written or loaded.
  <1>a. ASSUME UNCHANGED <<stored, acl, snap, decided>> PROVE ClosedInv'
    BY <1>a DEF ClosedInv, Closed
  \* Someone goes on, and no table or memory changes.
  <1>b. ASSUME UNCHANGED <<stored, acl, decided>>, NEW ps, NEW next, Enter(ps, next)
        PROVE  ClosedInv'
    <2>1. SUFFICES ASSUME NEW r \in Queries \ decided
                   PROVE  /\ Closed(stored', r) /\ Closed(acl', r)
                          /\ \A p \in Processes : Closed(snap'[p], r)
      BY <1>b DEF ClosedInv, Closed
    <2>2. \A p \in Processes : Closed(snap'[p], r)
      BY <1>b, EnterClosed DEF ClosedInv
    <2>3. QED
      BY <1>b, <2>2 DEF ClosedInv
  <1>c. Queries \subseteq Resources /\ stored \in Snapshot /\ acl \in Snapshot
        /\ \A p \in Processes : snap[p] \in Snapshot
    BY DEF Resources, Sources, TypeInv, TypeOK
  <1>1. ASSUME NEW a \in Admins, NEW o \in Op, Begin(a, o) PROVE ClosedInv'
    BY <1>1, <1>a DEF Begin, tables
  <1>2. ASSUME NEW a \in Admins, CheckReserved(a) PROVE ClosedInv'
    BY <1>2, <1>a DEF CheckReserved, tables, history
  <1>3. ASSUME NEW a \in Admins, Edit(a) PROVE ClosedInv'
    <2>1. a \in Processes /\ Edited(a)
      BY <1>3, EditIsDraft
    <2>2. PICK draft \in Snapshot, place \in [Codes -> Nat], held \in SUBSET Codes :
            Draft(a, draft, place, held)
      BY <2>1 DEF Edited
    <2>3. stored' = draft /\ acl' = acl /\ Enter({a}, "reload") /\ decided \subseteq decided'
      BY <2>2 DEF Draft, Persist
    <2>4. SUFFICES ASSUME NEW r \in Queries, r \notin decided'
                   PROVE  /\ Closed(stored', r) /\ Closed(acl', r)
                          /\ \A p \in Processes : Closed(snap'[p], r)
      BY DEF ClosedInv, Closed
    <2>5. Closed(acl, r) /\ \A p \in Processes : Closed(snap[p], r)
      BY <2>3, <2>4 DEF ClosedInv
    <2>6. Closed(draft, r)
      BY <2>1, <2>2, <2>4, <2>5 DEF Draft
    <2>7. QED
      BY <2>3, <2>5, <2>6, EnterClosed
  <1>4. ASSUME NEW a \in Admins, Grant(a) \/ EntityResourceExists(a) \/ WriteSource(a)
        PROVE  ClosedInv'
    BY <1>4, <1>b DEF Grant, EntityResourceExists, WriteSource, tables, history
  <1>5. ASSUME NEW a \in Admins, JoinSync(a) PROVE ClosedInv'
    BY <1>5, <1>a DEF JoinSync, tables, history
  <1>6. ASSUME NEW p \in Processes, Reload(p), NEW ps, NEW next, Enter(ps, next)
        PROVE  ClosedInv'
    <2>1. SUFFICES ASSUME NEW r \in Queries \ decided
                   PROVE  /\ Closed(stored', r) /\ Closed(acl', r)
                          /\ \A q \in Processes : Closed(snap'[q], r)
      BY <1>6 DEF ClosedInv, Closed, Reload
    <2>2. Closed(stored, r) /\ \A q \in Processes : Closed(snap[q], r)
      BY <2>1 DEF ClosedInv
    <2>3. \A q \in Processes : Closed(snap'[q], r)
      BY <1>6, <2>2, EnterClosed
    <2>4. QED
      BY <1>6, <2>2, <2>3 DEF Reload, tables
  <1>7. ASSUME NEW a \in Admins, ReloadAdmin(a) PROVE ClosedInv'
    <2>1. a \in Processes /\ Reload(a)
      BY <1>7 DEF ReloadAdmin, Processes
    <2>2. QED
      BY <1>6, <1>7, <2>1 DEF ReloadAdmin
  <1>8. ASSUME NEW p \in Processes, ReadCatalog(p) \/ ReadRest(p) PROVE ClosedInv'
    <2>1. /\ snap'[p].resources = Nothing.resources \/ snap'[p].resources = stored.resources
          /\ \A q \in Processes \ {p} : snap'[q] = snap[q]
      <3>1. CASE ReadCatalog(p)
        BY <3>1 DEF ReadCatalog, TypeInv, TypeOK, Nothing
      <3>2. CASE ReadRest(p)
        BY <3>2, RestType DEF TypeInv
      <3>3. QED
        BY <1>8, <3>1, <3>2
    <2>2. stored' = stored /\ acl' = acl /\ decided' = decided
      BY <1>8 DEF ReadCatalog, ReadRest, tables, history
    <2>3. SUFFICES ASSUME NEW r \in Queries \ decided
                   PROVE  /\ Closed(stored', r) /\ Closed(acl', r)
                          /\ \A q \in Processes : Closed(snap'[q], r)
      BY <2>2 DEF ClosedInv, Closed
    <2>4. Closed(stored, r) /\ Closed(acl, r) /\ \A q \in Processes : Closed(snap[q], r)
      BY <2>3 DEF ClosedInv
    <2>5. Closed(Nothing, r)
      BY <1>c DEF Nothing, Closed
    <2>6. Closed(snap'[p], r)
      BY <2>1, <2>4, <2>5 DEF Closed
    <2>7. QED
      BY <2>1, <2>2, <2>4, <2>6
  <1>9. ASSUME NEW p \in Processes, Fail(p) PROVE ClosedInv'
    BY <1>9, <1>b DEF Fail, tables
  <1>10. ASSUME Discover PROVE ClosedInv'
    BY <1>10, <1>a DEF Discover, tables, history
  <1>11. ASSUME SyncNothing PROVE ClosedInv'
    BY <1>11, <1>b DEF SyncNothing, EndSync, tables, history
  <1>12. ASSUME SyncWrite PROVE ClosedInv'
    <2>1. PICK present \in found :
            stored' = [stored EXCEPT !.resources = Merge(snap[Sync].resources, present)]
      BY <1>12 DEF SyncWrite
    <2>2. acl' = acl /\ decided' = decided /\ Enter({Sync}, "reload") /\ Sync \in Processes
      BY <1>12 DEF SyncWrite, Processes
    <2>3. SUFFICES ASSUME NEW r \in Queries \ decided
                   PROVE  /\ Closed(stored', r) /\ Closed(acl', r)
                          /\ \A p \in Processes : Closed(snap'[p], r)
      BY <2>2 DEF ClosedInv, Closed
    <2>4. Closed(acl, r) /\ \A p \in Processes : Closed(snap[p], r)
      BY <2>3 DEF ClosedInv
    <2>5. Closed(stored', r)
      BY <1>c, <2>1, <2>2, <2>4, SyncDraft
    <2>6. QED
      BY <2>2, <2>4, <2>5, EnterClosed
  <1>13. ASSUME SyncReload PROVE ClosedInv'
    <2>1. Sync \in Processes
      BY DEF Processes
    <2>2. QED
      BY <1>6, <1>13, <2>1 DEF SyncReload, EndSync
  <1>14. ASSUME Restart PROVE ClosedInv'
    <2>1. /\ stored' = [stored EXCEPT !.resources = Merge(stored.resources, sources)]
          /\ acl' = stored' /\ decided' = decided /\ Enter(Processes, "idle")
      BY <1>14 DEF Restart
    <2>2. SUFFICES ASSUME NEW r \in Queries \ decided
                   PROVE  Closed(stored', r) /\ \A p \in Processes : Closed(snap'[p], r)
      BY <2>1 DEF ClosedInv, Closed
    <2>3. Closed(stored, r) /\ \A p \in Processes : Closed(snap[p], r)
      BY <2>2 DEF ClosedInv
    <2>4. Closed(stored', r)
      BY <1>c, <2>1, <2>3, SyncDraft
    <2>5. QED
      BY <2>1, <2>3, <2>4, EnterClosed
  <1>15. ASSUME UNCHANGED vars PROVE ClosedInv'
    BY <1>15, <1>a DEF vars, tables, local, history
  <1>16. QED
    BY <1>1, <1>2, <1>3, <1>4, <1>5, <1>7, <1>8, <1>9, <1>10, <1>11, <1>12, <1>13,
       <1>14, <1>15 DEF Next, Edit

\* No order of edits, synchronisations, lost updates, failures and restarts opens a
\* query template an administrator has not decided about.
THEOREM UndecidedClosed == Spec => []ClosedUntilDecided
  <1>1. Init => TypeInv /\ ClosedInv
    <2>1. SUFFICES ASSUME Init PROVE ClosedInv
      BY InitType
    <2>2. \A r \in Queries : r \in Resources
      BY DEF Resources, Sources
    <2>3. \A r \in Queries \ decided : Closed(stored, r) /\ acl = stored /\ Closed(Nothing, r)
      BY <2>1, <2>2 DEF Init, Closed, Nothing
    <2>4. \A p \in Processes : snap[p] = Nothing
      BY <2>1 DEF Init
    <2>5. QED
      BY <2>3, <2>4 DEF ClosedInv
  <1>2. TypeInv /\ ClosedInv /\ [Next]_vars => TypeInv' /\ ClosedInv'
    BY TypeStep, ClosedStep
  <1>3. TypeInv /\ ClosedInv => ClosedUntilDecided
    <2>1. SUFFICES ASSUME TypeInv, ClosedInv, NEW r \in Queries \ decided
                   PROVE  ~CanAccess(stored, Codes, r) /\ ~CanAccess(acl, Codes, r)
      BY DEF ClosedUntilDecided
    <2>2. r \in Resources /\ stored \in Snapshot /\ acl \in Snapshot
      BY <2>1 DEF Resources, Sources, TypeInv, TypeOK
    <2>3. QED
      BY <2>1, <2>2, ClosedIsDenied DEF ClosedInv
  <1>4. QED
    BY <1>1, <1>2, <1>3, PTL DEF Spec

-----------------------------------------------------------------------------
(* Undisturbed, at most one administrator is at work, and the synchronisation *)
(* only while that one waits for it; then what was read is what the tables    *)
(* hold when it is written back.                                              *)

Alone ==
    /\ \A a, b \in Admins : stage[a] # "idle" /\ stage[b] # "idle" => a = b
    /\ stage[Sync] # "idle" => \E a \in Admins : stage[a] = "wait"
    /\ ~behind /\ \A p \in Processes : ~raced[p]

HasRead ==
    /\ \A p \in Processes : stage[p] = "loadRest" =>
            snap[p].listed = stored.listed /\ snap[p].aliases = stored.aliases
    /\ \A a \in Admins : stage[a] \in {"check", "write"} =>
            snap[a] = stored \/ (op[a].kind = "grant" /\ op[a].codes = {})
    /\ stage[Sync] \in {"check", "write"} => snap[Sync] = stored

\* The resources are those of the sources but between the write of a source and
\* the write of the synchronisation it awaits.
Aligned ==
    /\ grants \subseteq stored.listed \ stored.defaults
    /\ found \subseteq {sources} /\ (stage[Sync] = "idle" => found = {})
    /\ (\A a \in Admins : stage[a] \notin {"join", "wait"}) \/ stage[Sync] \in Reloading =>
            PresentIn(stored.resources) = sources

CalmInv == calm => Alone /\ HasRead /\ Aligned

\* What a synchronisation leaves present is what it discovered.
LEMMA MergePresent ==
    ASSUME NEW m \in ResourceMap, NEW present \in SUBSET Resources
    PROVE  PresentIn(Merge(m, present)) = present
  <1>1. ASSUME NEW r \in Resources
        PROVE  r \in PresentIn(Merge(m, present)) <=> r \in present
    <2>1. None \notin Resource /\ (m[r] = None \/ m[r] \in Resource)
      BY AclAssumption DEF ResourceMap
    <2>2. CASE m[r] = None
      <3>1. Merge(m, present)[r] =
              IF r \in present
              THEN [mode |-> "disabled", managedBy |-> "system", syncState |-> "present", perms |-> {}]
              ELSE None
        BY <2>2 DEF Merge
      <3>2. [mode |-> "disabled", managedBy |-> "system", syncState |-> "present", perms |-> {}] # None
        BY <2>1 DEF Resource, Modes
      <3>3. QED
        BY <3>1, <3>2 DEF PresentIn
    <2>3. CASE m[r] # None /\ r \in present
      <3>1. Merge(m, present)[r] = [m[r] EXCEPT !.managedBy = "system", !.syncState = "present"]
        BY <2>3 DEF Merge
      <3>2. /\ Merge(m, present)[r] \in Resource
            /\ Merge(m, present)[r].managedBy = "system" /\ Merge(m, present)[r].syncState = "present"
        BY <2>1, <2>3, <3>1 DEF Resource
      <3>3. QED
        BY <2>1, <2>3, <3>2 DEF PresentIn
    <2>4. CASE m[r] # None /\ r \notin present
      <3>1. Merge(m, present)[r] = IF m[r].managedBy = "system"
                                   THEN [m[r] EXCEPT !.syncState = "stale"] ELSE m[r]
        BY <2>4 DEF Merge
      <3>2. \/ Merge(m, present)[r].syncState = "stale"
            \/ Merge(m, present)[r].managedBy # "system"
        BY <2>1, <2>4, <3>1 DEF Resource
      <3>3. QED
        BY <2>4, <3>2 DEF PresentIn
    <2>5. QED
      BY <2>2, <2>3, <2>4
  <1>2. PresentIn(Merge(m, present)) \subseteq Resources
    BY DEF PresentIn
  <1>3. QED
    BY <1>1, <1>2

\* An edit of one resource, from absent or manual to manual, leaves those present.
LEMMA WithResourcePresent ==
    ASSUME NEW s \in Snapshot, NEW id \in Resources, NEW x \in {None} \cup Resource,
           (x # None /\ x.managedBy = "system" /\ x.syncState = "present") <=> id \in PresentIn(s.resources)
    PROVE  PresentIn(WithResource(s, id, x).resources) = PresentIn(s.resources)
  <1>1. /\ WithResource(s, id, x).resources[id] = x
        /\ \A r \in Resources \ {id} : WithResource(s, id, x).resources[r] = s.resources[r]
    BY WithResourceFacts
  <1>2. QED
    BY <1>1 DEF PresentIn

LEMMA WithPermissionPresent ==
    ASSUME NEW s \in Snapshot, NEW prev \in Codes \cup {None}, NEW x \in PermissionInput
    PROVE  PresentIn(WithPermission(s, prev, x).resources) = PresentIn(s.resources)
  <1> DEFINE R == WithPermission(s, prev, x).resources
  <1>0. x.code \in Codes
    BY DEF PermissionInput
  <1>1. ASSUME NEW r \in Resources
        PROVE  r \in PresentIn(R) <=> r \in PresentIn(s.resources)
    <2>1. CASE s.resources[r] = None
      BY <2>1 DEF WithPermission, PresentIn
    <2>2. CASE s.resources[r] # None
      <3> DEFINE perms == (Rename(s.resources[r].perms, prev, x.code) \ {x.code})
                          \cup (IF r \in x.ids THEN {x.code} ELSE {})
                 mode == IF r \in x.ids /\ s.resources[r].mode = "disabled"
                         THEN "permission-bound" ELSE s.resources[r].mode
      <3>1. s.resources[r] \in Resource /\ None \notin Resource
        BY <2>2, AclAssumption DEF Snapshot
      <3>2. R[r] = [s.resources[r] EXCEPT !.perms = perms, !.mode = mode]
        BY <2>2 DEF WithPermission
      <3>3. perms \subseteq Codes /\ mode \in Modes
        BY <1>0, <3>1 DEF Rename, Resource, Modes
      <3> HIDE DEF perms, mode
      <3>4. /\ R[r] \in Resource
            /\ R[r].managedBy = s.resources[r].managedBy /\ R[r].syncState = s.resources[r].syncState
        BY <3>1, <3>2, <3>3 DEF Resource
      <3>5. QED
        BY <2>2, <3>1, <3>4 DEF PresentIn
    <2>3. QED
      BY <2>1, <2>2
  <1>2. PresentIn(R) \subseteq Resources /\ PresentIn(s.resources) \subseteq Resources
    BY DEF PresentIn
  <1>3. QED
    BY <1>1, <1>2

\* What an edit of what the tables hold leaves: the same resources present, and
\* with the contact permissions of the new catalogue.
Harmless(a, draft, place, held) ==
    /\ stage[a] = "write" /\ Persist(a, draft, place, held)
    /\ PresentIn(draft.resources) = PresentIn(snap[a].resources)
    /\ grants \subseteq snap[a].listed => held \subseteq draft.listed
HarmlessEdit(a) == \E draft, place, held : Harmless(a, draft, place, held)

LEMMA EditHarmless ==
    ASSUME TypeOK, NEW a \in Admins, op[a] # None, Edit(a)
    PROVE  HarmlessEdit(a) /\ op[a].kind # "grant"
  <1> DEFINE s == snap[a]
  <1>0. s \in Snapshot /\ None \notin Codes /\ None \notin Resource /\ a \in Processes
    BY AclAssumption DEF TypeOK, Processes
  <1>1. \A r \in Resources : s.resources[r] = None \/ s.resources[r] \in Resource
    BY <1>0 DEF Snapshot
  \* An edit of the resources only.
  <1>2. ASSUME NEW draft, stage[a] = "write", Persist(a, draft, Sorted, grants),
               PresentIn(draft.resources) = PresentIn(s.resources), draft.listed = s.listed
        PROVE  HarmlessEdit(a)
    BY <1>2 DEF HarmlessEdit, Harmless
  <1>3. \A id, x : WithResource(s, id, x).listed = s.listed
    BY <1>0 DEF WithResource, Snapshot
  <1>4. CASE CreatePermission(a)
    <2> DEFINE x == op[a].input
               draft == WithPermission(s, None, x)
    <2>1. x \in PermissionInput
      BY <1>4, OpTypes DEF CreatePermission
    <2>2. PresentIn(draft.resources) = PresentIn(s.resources)
      BY <1>0, <2>1, WithPermissionPresent
    <2>3. grants \subseteq s.listed => grants \subseteq draft.listed
      BY <1>0 DEF WithPermission, Snapshot
    <2>4. Harmless(a, draft, [Sorted EXCEPT ![x.code] = Last], grants)
      BY <1>4, <2>2, <2>3 DEF CreatePermission, Harmless
    <2>5. QED
      BY <1>4, <2>4 DEF HarmlessEdit, CreatePermission
  <1>5. CASE UpdatePermission(a)
    <2> DEFINE x == op[a].input
               prev == op[a].prev
               draft == WithPermission(s, prev, x)
               held == Rename(grants, prev, x.code)
    <2>1. x \in PermissionInput /\ prev \in Codes
      BY <1>5, OpTypes DEF UpdatePermission
    <2>2. PresentIn(draft.resources) = PresentIn(s.resources)
      BY <1>0, <2>1, WithPermissionPresent
    <2>3. grants \subseteq s.listed => held \subseteq draft.listed
      BY DEF WithPermission, Rename
    <2>4. Harmless(a, draft, [Sorted EXCEPT ![x.code] = prev], held)
      BY <1>5, <2>2, <2>3 DEF UpdatePermission, Harmless
    <2>5. QED
      BY <1>5, <2>4 DEF HarmlessEdit, UpdatePermission
  <1>6. CASE DeletePermission(a)
    <2> DEFINE code == op[a].code
               R == [r \in Resources |-> IF s.resources[r] = None THEN None
                                         ELSE [s.resources[r] EXCEPT !.perms = @ \ {code}]]
               draft == WithoutPermission(s, code)
    <2>1. ASSUME NEW r \in Resources PROVE r \in PresentIn(R) <=> r \in PresentIn(s.resources)
      <3>1. CASE s.resources[r] = None
        BY <3>1 DEF PresentIn
      <3>2. CASE s.resources[r] # None
        <4>1. s.resources[r] \in Resource /\ R[r] = [s.resources[r] EXCEPT !.perms = @ \ {code}]
          BY <1>1, <3>2
        <4>2. /\ R[r] \in Resource /\ R[r].managedBy = s.resources[r].managedBy
              /\ R[r].syncState = s.resources[r].syncState
          BY <4>1 DEF Resource
        <4>3. QED
          BY <1>0, <3>2, <4>2 DEF PresentIn
      <3>3. QED
        BY <3>1, <3>2
    <2>2. PresentIn(R) = PresentIn(s.resources)
      BY <2>1 DEF PresentIn
    <2>3. stage[a] = "write" /\ op[a].kind = "deletePermission" /\ Persist(a, draft, Sorted, grants \ {code})
      BY <1>6 DEF DeletePermission
    <2>4. draft.listed = s.listed \ {code} /\ draft.resources = R
      BY DEF WithoutPermission
    <2> HIDE DEF R, draft
    <2>5. Harmless(a, draft, Sorted, grants \ {code})
      BY <2>2, <2>3, <2>4 DEF Harmless
    <2>6. QED
      BY <2>3, <2>5 DEF HarmlessEdit
  <1>7. CASE UpdateDefaults(a)
    <2>1. [s EXCEPT !.defaults = op[a].codes].resources = s.resources
          /\ [s EXCEPT !.defaults = op[a].codes].listed = s.listed
      BY <1>0 DEF Snapshot
    <2>2. QED
      BY <1>2, <1>7, <2>1 DEF UpdateDefaults
  <1>8. CASE CreateResource(a)
    <2> DEFINE x == op[a].input
    <2>1. x.id \in Resources /\ Manual(x.mode, x.perms) \in Resource
      BY <1>8, OpTypes, ManualType DEF CreateResource, ResourceInput
    <2>2. x.id \notin PresentIn(s.resources) /\ Manual(x.mode, x.perms).managedBy # "system"
      BY <1>8 DEF CreateResource, PresentIn, Manual
    <2>3. PresentIn(WithResource(s, x.id, Manual(x.mode, x.perms)).resources) = PresentIn(s.resources)
      BY <1>0, <2>1, <2>2, WithResourcePresent
    <2>4. QED
      BY <1>2, <1>3, <1>8, <2>3 DEF CreateResource
  <1>9. CASE UpdateResource(a)
    <2> DEFINE x == op[a].input
               prev == op[a].prev
               y == Manual(x.mode, x.perms)
               z == [s.resources[prev] EXCEPT !.mode = x.mode, !.perms = x.perms]
               t == WithResource(s, prev, None)
    <2>1. /\ x.id \in Resources /\ prev \in Resources /\ s.resources[prev] # None
          /\ stage[a] = "write" /\ op[a].kind = "updateResource"
          /\ x.mode \in Modes /\ x.perms \in SUBSET Codes
      BY <1>9, OpTypes DEF UpdateResource, ResourceInput
    <2>2. y \in Resource /\ y.managedBy = "manual"
      BY <2>1, ManualType DEF Manual
    <2>3. CASE s.resources[prev].managedBy = "system"
      <3>1. /\ z \in Resource /\ z.managedBy = s.resources[prev].managedBy
            /\ z.syncState = s.resources[prev].syncState
        BY <1>1, <2>1 DEF Resource
      <3>2. Persist(a, WithResource(s, prev, z), Sorted, grants)
        BY <1>9, <2>3 DEF UpdateResource
      <3> HIDE DEF z
      <3>3. z # None /\ (prev \in PresentIn(s.resources) <=> z.managedBy = "system" /\ z.syncState = "present")
        BY <1>0, <2>1, <3>1 DEF PresentIn
      <3>4. PresentIn(WithResource(s, prev, z).resources) = PresentIn(s.resources)
        BY <1>0, <2>1, <3>1, <3>3, WithResourcePresent
      <3>5. QED
        BY <1>2, <1>3, <2>1, <3>2, <3>4
    <2>4. CASE s.resources[prev].managedBy # "system"
      <3>1. /\ Persist(a, WithResource(t, x.id, y), Sorted, grants)
            /\ x.id # prev => s.resources[x.id] = None
        BY <1>9, <2>4 DEF UpdateResource
      <3>2. prev \notin PresentIn(s.resources)
        BY <2>4 DEF PresentIn
      <3>3. t \in Snapshot /\ PresentIn(t.resources) = PresentIn(s.resources) /\ t.listed = s.listed
        BY <1>0, <1>3, <2>1, <3>2, WithResourceFacts, WithResourcePresent
      <3>4. x.id \notin PresentIn(t.resources)
        BY <3>1, <3>2, <3>3 DEF PresentIn
      <3> HIDE DEF t, y
      <3>5. PresentIn(WithResource(t, x.id, y).resources) = PresentIn(s.resources)
        BY <2>1, <2>2, <3>3, <3>4, WithResourcePresent
      <3>6. WithResource(t, x.id, y).listed = s.listed
        BY <3>3 DEF WithResource, Snapshot
      <3>7. QED
        BY <1>2, <2>1, <3>1, <3>5, <3>6
    <2>5. QED
      BY <2>3, <2>4
  <1>10. CASE DeleteResource(a)
    <2> DEFINE id == op[a].id
    <2>1. id \in Resources
      BY <1>10, OpTypes DEF DeleteResource
    <2>2. id \notin PresentIn(s.resources)
      BY <1>10 DEF DeleteResource, PresentIn
    <2>3. PresentIn(WithResource(s, id, None).resources) = PresentIn(s.resources)
      BY <1>0, <2>1, <2>2, WithResourcePresent
    <2>4. QED
      BY <1>2, <1>3, <1>10, <2>3 DEF DeleteResource
  <1>11. CASE EnsureEntityResource(a)
    <2> DEFINE id == op[a].id
               y == Manual("authenticated", {})
    <2>1. id \in Resources /\ y \in Resource /\ y.managedBy = "manual"
      BY <1>11, OpTypes, ManualType DEF EnsureEntityResource, Manual, Modes, Resources, Sources
    <2>2. id \notin PresentIn(s.resources)
      BY <1>11 DEF EnsureEntityResource, PresentIn
    <2>3. PresentIn(WithResource(s, id, y).resources) = PresentIn(s.resources)
      BY <1>0, <2>1, <2>2, WithResourcePresent
    <2>4. QED
      BY <1>2, <1>3, <1>11, <2>3 DEF EnsureEntityResource
  <1>12. QED
    BY <1>4, <1>5, <1>6, <1>7, <1>8, <1>9, <1>10, <1>11 DEF Edit

LEMMA OthersIdle ==
    ASSUME Alone, NEW a \in Admins, stage[a] \notin {"idle", "wait"}
    PROVE  \A p \in Processes \ {a} : stage[p] = "idle"
  <1>1. \A b \in Admins \ {a} : stage[b] = "idle"
    BY DEF Alone
  <1>2. stage[Sync] = "idle"
    BY <1>1 DEF Alone
  <1>3. QED
    BY <1>1, <1>2 DEF Processes

LEMMA WhileSyncing ==
    ASSUME Alone, stage[Sync] # "idle"
    PROVE  \A a \in Admins : stage[a] \in {"idle", "wait"}
  BY DEF Alone

\* A step of the one administrator at work.
LEMMA AdminCalm ==
    ASSUME TypeInv, Alone, HasRead, Aligned', NEW a \in Admins,
           stage[a] \notin {"idle", "wait"},
           \A p \in Processes \ {a} : stage'[p] = stage[p],
           ~behind', \A p \in Processes : ~raced'[p],
           stage'[a] = "loadRest" =>
                snap'[a].listed = stored'.listed /\ snap'[a].aliases = stored'.aliases,
           stage'[a] \in {"check", "write"} =>
                snap'[a] = stored' \/ (op'[a].kind = "grant" /\ op'[a].codes = {})
    PROVE  CalmInv'
  <1>1. \A p \in Processes \ {a} : stage'[p] = "idle"
    BY OthersIdle
  <1>2. \A b \in Admins \ {a} : stage'[b] = "idle"
    BY <1>1 DEF Processes
  <1>3. stage'[Sync] = "idle"
    BY <1>1, AclAssumption DEF Processes
  <1>4. Alone'
    BY <1>2, <1>3 DEF Alone
  <1>5. HasRead'
    BY <1>1, <1>2, <1>3 DEF HasRead, Processes
  <1>6. QED
    BY <1>4, <1>5 DEF CalmInv

\* The tables, the sources and what is found stay as they are.
LEMMA AlignedKept ==
    ASSUME TypeInv, Aligned, UNCHANGED <<stored, grants, sources, found>>,
           stage'[Sync] = stage[Sync],
           \A a \in Admins : stage[a] \in {"join", "wait"} => stage'[a] \in {"join", "wait"}
    PROVE  Aligned'
  <1>1. PresentIn(stored.resources)' = PresentIn(stored.resources)
    BY DEF PresentIn
  <1>2. QED
    BY <1>1 DEF Aligned, Reloading

\* Undisturbed, a step of the administrator a keeps all of it.
LEMMA CalmOfAdmin ==
    ASSUME TypeInv, CalmInv, calm', NEW a \in Admins,
           \/ \E o \in Op : Begin(a, o)
           \/ CheckReserved(a) \/ Edit(a) \/ Grant(a) \/ EntityResourceExists(a)
           \/ ReloadAdmin(a) \/ WriteSource(a) \/ JoinSync(a)
    PROVE  CalmInv'
  <1>0. a \in Processes /\ Sync \in Processes /\ a # Sync
    BY AclAssumption DEF Processes
  <1>1. ASSUME NEW o \in Op, Begin(a, o) PROVE CalmInv'
    <2>1. calm /\ \A p \in Processes : stage[p] = "idle"
      BY <1>1 DEF Begin, TypeInv, TypeOK
    <2>2. Alone /\ HasRead /\ Aligned
      BY <2>1 DEF CalmInv
    <2>3. /\ \A p \in Processes \ {a} : stage'[p] = "idle"
          /\ stage'[a] = FirstStage(o) /\ op'[a] = o
          /\ UNCHANGED <<stored, grants, sources, found, raced, behind>>
      BY <1>0, <1>1, <2>1 DEF Begin, TypeInv, TypeOK, tables
    <2>4. \A b \in Admins \ {a} : stage'[b] = "idle"
      BY <2>3 DEF Processes
    <2>5. stage'[Sync] = "idle"
      BY <1>0, <2>3
    <2>6. Alone'
      BY <2>2, <2>3, <2>4, <2>5 DEF Alone
    <2>7. \A p \in Processes : stage'[p] # "loadRest"
      BY <2>3 DEF FirstStage
    <2>8. stage'[a] # "check" /\ (stage'[a] = "write" => o.kind = "grant" /\ o.codes = {})
      BY <2>3 DEF FirstStage
    <2>9. HasRead'
      BY <2>3, <2>4, <2>5, <2>7, <2>8 DEF HasRead
    <2>10. PresentIn(stored.resources) = sources
      BY <2>1, <2>2 DEF Aligned, Processes
    <2>11. PresentIn(stored.resources)' = sources'
      BY <2>3, <2>10 DEF PresentIn
    <2>12. Aligned'
      BY <2>2, <2>3, <2>5, <2>11, <1>0, <2>1 DEF Aligned
    <2>13. QED
      BY <2>6, <2>9, <2>12 DEF CalmInv
  <1>2. ASSUME CheckReserved(a) PROVE CalmInv'
    <2>1. /\ stage[a] = "check" /\ stage' = [stage EXCEPT ![a] = "write"] /\ calm
          /\ UNCHANGED <<stored, grants, sources, found, raced, behind, snap, op>>
      BY <1>2 DEF CheckReserved, tables, history
    <2>2. Alone /\ HasRead /\ Aligned
      BY <2>1 DEF CalmInv
    <2>3. /\ \A p \in Processes \ {a} : stage'[p] = stage[p]
          /\ stage'[a] = "write"
      BY <1>0, <2>1 DEF TypeInv, TypeOK
    <2>4. Aligned'
      BY <1>0, <2>1, <2>2, <2>3, AlignedKept DEF Processes
    <2>5. QED
      BY <2>1, <2>2, <2>3, <2>4, AdminCalm DEF Alone, HasRead
  <1>3. ASSUME Edit(a) PROVE CalmInv'
    <2>1. op[a] # None /\ op[a].kind # "grant"
      BY <1>3, EditIsDraft, EditHarmless DEF TypeInv
    <2>2. PICK draft, place, held : Harmless(a, draft, place, held)
      BY <1>3, <2>1, EditHarmless DEF TypeInv, HarmlessEdit
    <2>3. /\ stage[a] = "write" /\ Enter({a}, "reload") /\ raced' = Overlapped(a) /\ calm
          /\ stored' = draft /\ grants' = held \ draft.defaults
          /\ UNCHANGED <<sources, found, behind>>
      BY <2>2 DEF Harmless, Persist
    <2>4. Alone /\ HasRead /\ Aligned
      BY <2>3 DEF CalmInv
    <2>5. snap[a] = stored
      BY <2>1, <2>3, <2>4 DEF HasRead
    <2>6. /\ \A p \in Processes \ {a} : stage'[p] = stage[p] /\ stage[p] = "idle"
          /\ stage'[a] = "reload"
      BY <1>0, <2>3, <2>4, EnterStage, OthersIdle
    <2>7. \A p \in Processes : ~raced'[p]
      BY <2>3, <2>4, <2>6 DEF Overlapped, Alone
    <2>8. \A b \in Admins : stage[b] \notin {"join", "wait"}
      BY <1>0, <2>3, <2>6 DEF Processes
    <2>9. PresentIn(stored.resources)' = sources'
      BY <2>2, <2>3, <2>4, <2>5, <2>8 DEF Harmless, Aligned, PresentIn
    <2>10. held \subseteq draft.listed
      BY <2>2, <2>4, <2>5 DEF Harmless, Aligned
    <2>11. Aligned'
      BY <1>0, <2>3, <2>4, <2>6, <2>9, <2>10 DEF Aligned
    <2>12. QED
      BY <2>3, <2>4, <2>6, <2>7, <2>11, AdminCalm DEF Alone
  <1>4. ASSUME Grant(a) PROVE CalmInv'
    <2>1. /\ stage[a] = "write" /\ op[a].kind = "grant" /\ Enter({a}, "idle") /\ calm
          /\ op[a].codes # {} => op[a].codes \subseteq snap[a].listed \ snap[a].defaults
          /\ grants' = op[a].codes
          /\ UNCHANGED <<stored, sources, found, raced, behind>>
      BY <1>4 DEF Grant, history
    <2>2. Alone /\ HasRead /\ Aligned
      BY <2>1 DEF CalmInv
    <2>3. grants' \subseteq stored.listed \ stored.defaults
      BY <2>1, <2>2 DEF HasRead
    <2>4. /\ \A p \in Processes \ {a} : stage'[p] = stage[p] /\ stage[p] = "idle"
          /\ stage'[a] = "idle"
      BY <1>0, <2>1, <2>2, EnterStage, OthersIdle
    <2>5. \A b \in Admins : stage[b] \notin {"join", "wait"}
      BY <1>0, <2>1, <2>4 DEF Processes
    <2>6. PresentIn(stored.resources)' = sources'
      BY <2>1, <2>2, <2>5 DEF Aligned, PresentIn
    <2>7. Aligned'
      BY <1>0, <2>1, <2>2, <2>3, <2>4, <2>6 DEF Aligned
    <2>8. QED
      BY <2>1, <2>2, <2>4, <2>7, AdminCalm DEF Alone
  <1>5. ASSUME EntityResourceExists(a) PROVE CalmInv'
    <2>1. /\ stage[a] = "write" /\ Enter({a}, "source") /\ calm
          /\ UNCHANGED <<stored, grants, sources, found, raced, behind>>
      BY <1>5 DEF EntityResourceExists, tables, history
    <2>2. Alone /\ HasRead /\ Aligned
      BY <2>1 DEF CalmInv
    <2>3. /\ \A p \in Processes \ {a} : stage'[p] = stage[p]
          /\ stage'[a] = "source"
      BY <1>0, <2>1, EnterStage
    <2>4. Aligned'
      BY <1>0, <2>1, <2>2, <2>3, AlignedKept DEF Processes
    <2>5. QED
      BY <2>1, <2>2, <2>3, <2>4, AdminCalm DEF Alone
  <1>6. ASSUME ReloadAdmin(a) PROVE CalmInv'
    <2>1. PICK next \in {"source", "idle"} : Enter({a}, next)
      BY <1>6 DEF ReloadAdmin
    <2>2. /\ stage[a] = "apply" /\ calm /\ behind' = raced[a]
          /\ raced' = [raced EXCEPT ![a] = FALSE]
          /\ UNCHANGED <<stored, grants, sources, found>>
      BY <1>6 DEF ReloadAdmin, Reload, tables
    <2>3. Alone /\ HasRead /\ Aligned
      BY <2>2 DEF CalmInv
    <2>4. /\ \A p \in Processes \ {a} : stage'[p] = stage[p]
          /\ stage'[a] = next
      BY <1>0, <2>1, EnterStage
    <2>5. Aligned'
      BY <1>0, <2>2, <2>3, <2>4, AlignedKept DEF Processes
    <2>6. ~behind' /\ \A p \in Processes : ~raced'[p]
      BY <1>0, <2>2, <2>3 DEF Alone, TypeInv, TypeOK
    <2>7. QED
      BY <2>2, <2>3, <2>4, <2>5, <2>6, AdminCalm
  <1>7. ASSUME WriteSource(a) PROVE CalmInv'
    <2>1. /\ stage[a] = "source" /\ Enter({a}, "join") /\ calm
          /\ UNCHANGED <<stored, grants, found, raced, behind>>
      BY <1>7 DEF WriteSource, history
    <2>2. Alone /\ HasRead /\ Aligned
      BY <2>1 DEF CalmInv
    <2>3. /\ \A p \in Processes \ {a} : stage'[p] = stage[p] /\ stage[p] = "idle"
          /\ stage'[a] = "join"
      BY <1>0, <2>1, <2>2, EnterStage, OthersIdle
    <2>4. stage'[Sync] = "idle" /\ found' = {}
      BY <1>0, <2>1, <2>2, <2>3 DEF Aligned
    <2>5. Aligned'
      BY <2>1, <2>2, <2>3, <2>4 DEF Aligned, Reloading
    <2>6. QED
      BY <2>1, <2>2, <2>3, <2>5, AdminCalm DEF Alone
  <1>8. ASSUME JoinSync(a) PROVE CalmInv'
    <2>1. /\ stage[a] = "join" /\ calm
          /\ stage' = [stage EXCEPT ![a] = "wait",
                                    ![Sync] = IF stage[Sync] = "idle" THEN "load" ELSE stage[Sync]]
          /\ UNCHANGED <<stored, grants, sources, found, raced, behind>>
      BY <1>8 DEF JoinSync, tables, history
    <2>2. Alone /\ HasRead /\ Aligned
      BY <2>1 DEF CalmInv
    <2>3. \A p \in Processes \ {a} : stage[p] = "idle"
      BY <2>1, <2>2, OthersIdle
    <2>4. /\ stage'[a] = "wait" /\ stage'[Sync] = "load"
          /\ \A p \in Processes \ {a, Sync} : stage'[p] = "idle"
      BY <1>0, <2>1, <2>3 DEF TypeInv, TypeOK
    <2>5. \A b \in Admins \ {a} : stage'[b] = "idle"
      BY <2>4, AclAssumption DEF Processes
    <2>6. Alone'
      BY <2>1, <2>2, <2>4, <2>5 DEF Alone
    <2>7. HasRead'
      BY <2>4, <2>5 DEF HasRead, Processes
    <2>8. Aligned'
      BY <2>1, <2>2, <2>4 DEF Aligned, Reloading
    <2>9. QED
      BY <2>6, <2>7, <2>8 DEF CalmInv
  <1>9. QED
    BY <1>1, <1>2, <1>3, <1>4, <1>5, <1>6, <1>7, <1>8

\* A process reads the tables, on behalf of a load or of a reload.
LEMMA CalmReads ==
    ASSUME TypeInv, CalmInv, CurrencyInv, calm', NEW p \in Processes, ReadCatalog(p) \/ ReadRest(p)
    PROVE  CalmInv'
  <1>0. /\ calm /\ UNCHANGED <<stored, grants, sources, found, behind, op>>
        /\ \A q \in Processes \ {p} : /\ stage'[q] = stage[q] /\ snap'[q] = snap[q]
                                      /\ raced'[q] = raced[q]
        /\ stage[p] \notin {"idle", "wait", "join"} /\ stage'[p] \notin {"idle", "wait", "join"}
        /\ stage[p] \in Reloading <=> stage'[p] \in Reloading
    <2>1. CASE ReadCatalog(p)
      BY <2>1 DEF ReadCatalog, tables, TypeInv, TypeOK, Reloading
    <2>2. CASE ReadRest(p)
      BY <2>2 DEF ReadRest, tables, history, TypeInv, TypeOK, Reloading
    <2>3. QED
      BY <2>1, <2>2
  <1>1. Alone /\ HasRead /\ Aligned
    BY <1>0 DEF CalmInv
  <1>2. raced'[p] = FALSE
    BY <1>1 DEF ReadCatalog, ReadRest, history, TypeInv, TypeOK, Alone
  <1>3. Alone'
    BY <1>0, <1>1, <1>2 DEF Alone, Processes
  <1>4. Aligned'
    <2>1. PresentIn(stored.resources)' = PresentIn(stored.resources)
      BY <1>0 DEF PresentIn
    <2>2. stage'[Sync] \in Reloading <=> stage[Sync] \in Reloading
      BY <1>0 DEF Processes
    <2>3. stage'[Sync] = "idle" <=> stage[Sync] = "idle"
      BY <1>0 DEF Processes
    <2>4. (\A a \in Admins : stage'[a] \notin {"join", "wait"})
            <=> (\A a \in Admins : stage[a] \notin {"join", "wait"})
      BY <1>0 DEF Processes
    <2>5. QED
      BY <1>0, <1>1, <2>1, <2>2, <2>3, <2>4 DEF Aligned
  \* What p has read.
  <1>5. stage'[p] = "loadRest" => snap'[p].listed = stored'.listed /\ snap'[p].aliases = stored'.aliases
    <2>1. CASE ReadCatalog(p)
      BY <1>0, <2>1 DEF ReadCatalog, TypeInv, TypeOK, Nothing
    <2>2. CASE ReadRest(p)
      BY <1>0, <2>2 DEF ReadRest, TypeInv, TypeOK
    <2>3. QED
      BY <2>1, <2>2
  <1>6. stage'[p] \in {"check", "write"} => snap'[p] = stored'
    <2> SUFFICES ASSUME stage'[p] \in {"check", "write"} PROVE snap'[p] = stored'
      OBVIOUS
    <2>1. ReadRest(p) /\ stage[p] = "loadRest"
      BY DEF ReadCatalog, ReadRest, TypeInv, TypeOK
    <2>2. /\ snap'[p] \in Snapshot /\ stored \in Snapshot
          /\ snap'[p].listed = stored.listed /\ snap'[p].aliases = stored.aliases
          /\ snap'[p].defaults = stored.defaults /\ snap'[p].resources = stored.resources
      BY <1>1, <2>1, RestType DEF TypeInv, TypeOK, HasRead
    <2>3. QED
      BY <1>0, <2>2 DEF Snapshot
  <1>7. HasRead'
    <2>1. \A q \in Processes : stage'[q] = "loadRest" =>
            snap'[q].listed = stored'.listed /\ snap'[q].aliases = stored'.aliases
      BY <1>0, <1>1, <1>5 DEF HasRead
    <2>2. \A a \in Admins : stage'[a] \in {"check", "write"} =>
            snap'[a] = stored' \/ (op'[a].kind = "grant" /\ op'[a].codes = {})
      BY <1>0, <1>1, <1>6 DEF HasRead, Processes
    <2>3. stage'[Sync] \in {"check", "write"} => snap'[Sync] = stored'
      BY <1>0, <1>1, <1>6 DEF HasRead, Processes
    <2>4. QED
      BY <2>1, <2>2, <2>3 DEF HasRead
  <1>8. QED
    BY <1>3, <1>4, <1>7 DEF CalmInv

\* The synchronisation and those that wait for it are done.
LEMMA CalmEnd ==
    ASSUME TypeInv, Alone, HasRead, Aligned, stage[Sync] # "idle",
           Enter({Sync} \cup Waiting, "idle"), found' = {},
           UNCHANGED <<stored, grants, sources>>, ~behind', \A p \in Processes : ~raced'[p],
           PresentIn(stored.resources) = sources
    PROVE  CalmInv'
  <1>1. \A a \in Admins : stage'[a] = "idle"
    BY WhileSyncing DEF Enter, Waiting, Processes
  <1>2. stage'[Sync] = "idle"
    BY DEF Enter, Processes
  <1>3. Alone'
    BY <1>1, <1>2 DEF Alone
  <1>4. HasRead'
    BY <1>1, <1>2 DEF HasRead, Processes
  <1>5. PresentIn(stored.resources)' = sources'
    BY DEF PresentIn
  <1>6. Aligned'
    BY <1>5 DEF Aligned
  <1>7. QED
    BY <1>3, <1>4, <1>6 DEF CalmInv

LEMMA CalmOfSync ==
    ASSUME TypeInv, CalmInv, calm', Discover \/ SyncNothing \/ SyncWrite \/ SyncReload
    PROVE  CalmInv'
  <1>0. calm /\ Sync \in Processes /\ stage[Sync] # "idle"
    BY DEF Discover, SyncNothing, SyncWrite, SyncReload, Reload, history, Processes
  <1>1. Alone /\ HasRead /\ Aligned
    BY <1>0 DEF CalmInv
  <1>2. sources \in SUBSET Resources
    BY DEF TypeInv, TypeOK, Resources
  <1>3. CASE Discover
    <2>1. PresentIn(stored.resources)' = PresentIn(stored.resources)
      BY <1>3 DEF Discover, tables, PresentIn
    <2>2. Aligned'
      BY <1>0, <1>1, <1>3, <2>1 DEF Discover, tables, Aligned, Reloading
    <2>3. Alone' /\ HasRead'
      BY <1>1, <1>3 DEF Discover, tables, history, Alone, HasRead
    <2>4. QED
      BY <2>2, <2>3 DEF CalmInv
  <1>4. CASE SyncNothing
    <2>1. PICK present \in found : Merge(snap[Sync].resources, present) = snap[Sync].resources
      BY <1>4 DEF SyncNothing
    <2>2. present = sources /\ snap[Sync] = stored /\ stored.resources \in ResourceMap
      BY <1>1, <1>4, <2>1 DEF SyncNothing, Aligned, HasRead, TypeInv, TypeOK, Snapshot, ResourceMap
    <2>3. PresentIn(stored.resources) = sources
      BY <1>2, <2>1, <2>2, MergePresent
    <2>4. QED
      BY <1>0, <1>1, <1>4, <2>3, CalmEnd DEF SyncNothing, EndSync, tables, history, Alone
  <1>5. CASE SyncWrite
    <2>1. PICK present \in found :
            stored' = [stored EXCEPT !.resources = Merge(snap[Sync].resources, present)]
      BY <1>5 DEF SyncWrite
    <2>2. /\ stage[Sync] = "write" /\ Enter({Sync}, "reload") /\ raced' = Overlapped(Sync)
          /\ UNCHANGED <<grants, sources, found, behind>>
      BY <1>5 DEF SyncWrite
    <2>3. present = sources /\ snap[Sync] = stored /\ stored \in Snapshot /\ stored.resources \in ResourceMap
      BY <1>1, <2>1, <2>2 DEF Aligned, HasRead, TypeInv, TypeOK, Snapshot, ResourceMap
    <2>4. /\ stored'.listed = stored.listed /\ stored'.defaults = stored.defaults
          /\ PresentIn(stored'.resources) = sources'
      BY <1>2, <2>1, <2>2, <2>3, MergePresent DEF Snapshot
    <2>5. /\ stage'[Sync] = "reload"
          /\ \A a \in Admins : stage'[a] = stage[a] /\ stage[a] \in {"idle", "wait"}
      BY <1>0, <1>1, <2>2, EnterStage, WhileSyncing, AclAssumption DEF Processes
    <2>6. \A p \in Processes : ~raced'[p]
      BY <1>1, <2>2, <2>5 DEF Overlapped, Alone, Processes
    <2>7. Alone'
      BY <1>1, <2>2, <2>5, <2>6 DEF Alone
    <2>8. HasRead'
      BY <2>5 DEF HasRead, Processes
    <2>9. PresentIn(stored.resources)' = sources'
      BY <2>4 DEF PresentIn
    <2>10. Aligned'
      BY <1>1, <2>2, <2>4, <2>5, <2>9 DEF Aligned
    <2>11. QED
      BY <2>7, <2>8, <2>10 DEF CalmInv
  <1>6. CASE SyncReload
    <2>1. /\ stage[Sync] = "apply" /\ behind' = raced[Sync] /\ raced' = [raced EXCEPT ![Sync] = FALSE]
          /\ UNCHANGED <<stored, grants, sources>>
          /\ Enter({Sync} \cup Waiting, "idle") /\ found' = {}
      BY <1>6 DEF SyncReload, Reload, EndSync, tables
    <2>2. ~behind' /\ \A p \in Processes : ~raced'[p]
      BY <1>0, <1>1, <2>1 DEF Alone, TypeInv, TypeOK
    <2>3. PresentIn(stored.resources) = sources
      BY <1>1, <2>1 DEF Aligned, Reloading
    <2>4. QED
      BY <1>0, <1>1, <2>1, <2>2, <2>3, CalmEnd
  <1>7. QED
    BY <1>3, <1>4, <1>5, <1>6

\* Undisturbed, an operation fails before it has changed anything.
LEMMA CalmOfFailure ==
    ASSUME TypeInv, CalmInv, calm', NEW p \in Processes, Fail(p)
    PROVE  CalmInv'
  <1>1. /\ calm /\ p # Sync /\ stage[p] \in {"load", "loadRest", "check", "write"}
        /\ Enter({p}, "idle") /\ behind' = (behind \/ stage[p] \in Reloading)
        /\ raced' = [raced EXCEPT ![p] = FALSE]
        /\ UNCHANGED <<stored, grants, sources, found>>
    BY DEF Fail, tables, TypeInv, TypeOK
  <1>2. Alone /\ HasRead /\ Aligned /\ p \in Admins
    BY <1>1 DEF CalmInv, Processes
  <1>3. /\ \A q \in Processes \ {p} : stage'[q] = stage[q]
        /\ stage'[p] = "idle"
    BY <1>1, EnterStage
  <1>4. Aligned'
    BY <1>1, <1>2, <1>3, AlignedKept DEF Processes
  <1>5. ~behind' /\ \A q \in Processes : ~raced'[q]
    BY <1>1, <1>2 DEF Alone, Reloading, TypeInv, TypeOK
  <1>6. QED
    BY <1>1, <1>2, <1>3, <1>4, <1>5, AdminCalm

\* A restart synchronises before it listens, and leaves no one at work.
LEMMA CalmOfRestart ==
    ASSUME TypeInv, CalmInv, calm', Restart
    PROVE  CalmInv'
  <1>1. /\ calm /\ stored' = [stored EXCEPT !.resources = Merge(stored.resources, sources)]
        /\ Enter(Processes, "idle") /\ found' = {} /\ ~behind' /\ \A p \in Processes : ~raced'[p]
        /\ UNCHANGED <<grants, sources>>
    BY DEF Restart
  <1>2. Aligned /\ stored \in Snapshot /\ stored.resources \in ResourceMap
        /\ sources \in SUBSET Resources
    BY <1>1 DEF CalmInv, TypeInv, TypeOK, Snapshot, ResourceMap, Resources
  <1>3. /\ stored'.listed = stored.listed /\ stored'.defaults = stored.defaults
        /\ PresentIn(stored'.resources) = sources'
    BY <1>1, <1>2, MergePresent DEF Snapshot
  <1>4. \A p \in Processes : stage'[p] = "idle"
    BY <1>1, EnterStage
  <1>5. Sync \in Processes /\ \A a \in Admins : a \in Processes
    BY DEF Processes
  <1>6. Alone' /\ HasRead'
    BY <1>1, <1>4, <1>5 DEF Alone, HasRead
  <1>7. PresentIn(stored.resources)' = sources'
    BY <1>3 DEF PresentIn
  <1>8. Aligned'
    BY <1>1, <1>2, <1>3, <1>7 DEF Aligned
  <1>9. QED
    BY <1>6, <1>8 DEF CalmInv

LEMMA CalmStep == ASSUME TypeInv, CurrencyInv, CalmInv, [Next]_vars PROVE CalmInv'
  <1> SUFFICES ASSUME calm' PROVE CalmInv'
    BY DEF CalmInv
  <1>1. CASE UNCHANGED vars
    <2>1. CalmInv' <=> CalmInv
      BY <1>1 DEF vars, tables, local, history, CalmInv, Alone, HasRead, Aligned, PresentIn
    <2>2. QED
      BY <2>1
  <1>2. QED
    BY <1>1, CalmOfAdmin, CalmReads, CalmOfSync, CalmOfFailure, CalmOfRestart DEF Next, Edit

\* When operations do not overlap and none fails halfway, each leaves nothing to do
\* for the next: the system resources decisions are made from are those of what
\* exists, and a contact holds codes of the catalogue that are not defaults
\* (syncSystemResources, replaceSnapshot).
THEOREM EffectsDone == Spec => []UndisturbedEffects
  <1>1. Init => TypeInv /\ CurrencyInv /\ CalmInv
    <2>1. Init => CurrencyInv
      BY DEF Init, CurrencyInv, ReadsCurrent, Awaited
    <2>2. ASSUME Init PROVE CalmInv
      <3>1. /\ Sync \in Processes /\ \A a \in Admins : a \in Processes
        BY DEF Processes
      <3>2. Alone /\ HasRead
        BY <2>2, <3>1 DEF Init, Alone, HasRead
      <3>3. Aligned
        BY <2>2, <3>1 DEF Init, Aligned
      <3>4. QED
        BY <3>2, <3>3 DEF CalmInv
    <2>3. QED
      BY <2>1, <2>2, InitType
  <1>2. TypeInv /\ CurrencyInv /\ CalmInv /\ [Next]_vars => (TypeInv /\ CurrencyInv /\ CalmInv)'
    BY TypeStep, CurrencyStep, CalmStep
  <1>3. TypeInv /\ CurrencyInv /\ CalmInv => UndisturbedEffects
    <2> SUFFICES ASSUME TypeInv, CurrencyInv, CalmInv, calm, Quiet
                 PROVE  /\ PresentIn(acl.resources) = sources
                        /\ grants \subseteq stored.listed \ stored.defaults
      BY DEF UndisturbedEffects
    <2>1. Alone /\ Aligned
      BY DEF CalmInv
    <2>2. acl = stored
      BY <2>1 DEF CurrencyInv, Awaited, Quiet, Alone, Reloading
    <2>3. \A a \in Admins : stage[a] \notin {"join", "wait"}
      BY DEF Quiet, Processes
    <2>4. QED
      BY <2>1, <2>2, <2>3 DEF Aligned
  <1>4. QED
    BY <1>1, <1>2, <1>3, PTL DEF Spec

-----------------------------------------------------------------------------
(* The other configuration a process keeps in memory: query templates and entity *)
(* configurations (ConfigCache).                                                 *)

\* A load that no change overlapped has read what the table holds.
LoadsCurrent ==
    \A l \in Loads : load[l] # Absent /\ ~load[l].raced =>
        \A p \in DOMAIN load[l].seen : load[l].seen[p] = table[load[l].id]

CacheInv == LoadsCurrent /\ CachedIsCurrent

LEMMA AppendSeen ==
    ASSUME NEW s \in Seq(Read), NEW v \in Read
    PROVE  /\ Append(s, v) \in Seq(Read)
           /\ \A p \in DOMAIN Append(s, v) : (p \in DOMAIN s /\ Append(s, v)[p] = s[p])
                                             \/ Append(s, v)[p] = v
  OBVIOUS

LEMMA OverlappedType ==
    ASSUME CacheTypeOK, NEW i \in Ids
    PROVE  /\ Outdated(i) \in [Loads -> Load \cup {Absent}]
           /\ \A l \in Loads : /\ (Outdated(i)[l] = Absent) <=> (load[l] = Absent)
                               /\ load[l] # Absent => /\ Outdated(i)[l].id = load[l].id
                                                    /\ Outdated(i)[l].seen = load[l].seen
                               /\ load[l] # Absent /\ ~Outdated(i)[l].raced =>
                                    /\ ~load[l].raced
                                    /\ load[l].id = i => load[l].seen = <<>>
  <1>1. \A l \in Loads : load[l] # Absent => load[l] \in Load /\ load[l] # Absent
    BY DEF CacheTypeOK
  <1>2. Absent \notin Load
    BY ConfigCacheAssumption
  <1>3. ASSUME NEW l \in Loads, load[l] # Absent
        PROVE  [load[l] EXCEPT !.raced = TRUE] \in Load
    BY <1>1, <1>3 DEF Load
  <1>4. QED
    BY <1>1, <1>2, <1>3 DEF Outdated, Load

LEMMA ReadPartType ==
    ASSUME CacheTypeOK, NEW l \in Loads, ReadPart(l)
    PROVE  load'[l] \in Load /\ load' = [load EXCEPT ![l] = load'[l]]
  <1>1. load[l] \in Load /\ table[load[l].id] \in Read
    BY DEF ReadPart, Load, Read, CacheTypeOK
  <1> DEFINE seen == Append(load[l].seen, table[load[l].id])
             state == IF Len(seen) < Parts THEN "reading" ELSE "read"
  <1>2. seen \in Seq(Read)
    BY <1>1, AppendSeen DEF Load
  <1>3. load' = [load EXCEPT ![l].seen = seen, ![l].state = state]
    BY DEF ReadPart
  <1>4. state \in {"reading", "read", "failed"}
    OBVIOUS
  <1> HIDE DEF seen, state
  <1>5. [[load[l] EXCEPT !.seen = seen] EXCEPT !.state = state] \in Load
    BY <1>1, <1>2, <1>4 DEF Load
  <1>6. QED
    BY <1>3, <1>5 DEF CacheTypeOK

LEMMA CacheTypeStep ==
    ASSUME CacheTypeOK, [CacheNext]_(cacheVars)
    PROVE  CacheTypeOK'
  <1> USE DEF CacheTypeOK
  <1>1. ASSUME NEW r \in Requests, NEW i \in Ids, GetCached(r, i) PROVE CacheTypeOK'
    BY <1>1 DEF GetCached, Reply, Request
  <1>2. ASSUME NEW r \in Requests, NEW i \in Ids, Join(r, i) PROVE CacheTypeOK'
    BY <1>2 DEF Join, Wait, Request
  <1>3. ASSUME NEW r \in Requests, NEW i \in Ids, BeginLoad(r, i) PROVE CacheTypeOK'
    <2>1. PICK l \in Loads :
            /\ load' = [load EXCEPT ![l] = [id |-> i, seen |-> <<>>, state |-> "reading",
                                           raced |-> FALSE]]
            /\ inFlight' = [inFlight EXCEPT ![i] = l]
            /\ Wait(r, l)
      BY <1>3 DEF BeginLoad
    <2>2. [id |-> i, seen |-> <<>>, state |-> "reading", raced |-> FALSE] \in Load
      BY DEF Load
    <2>3. request' \in [Requests -> Request]
      BY <2>1 DEF Wait, Request
    <2>4. QED
      BY <1>3, <2>1, <2>2, <2>3 DEF BeginLoad
  <1>4. ASSUME NEW r \in Requests, Leave(r) PROVE CacheTypeOK'
    BY <1>4 DEF Leave, Reply, Request
  <1>5. ASSUME NEW l \in Loads, ReadPart(l) PROVE CacheTypeOK'
    BY <1>5, ReadPartType DEF ReadPart
  <1>6. ASSUME NEW l \in Loads, FailLoad(l) PROVE CacheTypeOK'
    BY <1>6 DEF FailLoad, Load
  <1>7. ASSUME NEW l \in Loads, Finish(l) PROVE CacheTypeOK'
    <2>1. load[l] \in Load
      BY <1>7 DEF Finish
    <2>2. cache' \in [Ids -> Cached \cup {Absent}]
      BY <1>7, <2>1 DEF Finish, Store, Load, Cached
    <2>3. request' \in [Requests -> Request]
      BY <1>7 DEF Finish, Resume, Request
    <2>4. QED
      BY <1>7, <2>1, <2>2, <2>3 DEF Finish, Load
  <1>8. ASSUME NEW a \in Editors, NEW i \in Ids, Upsert(a, i) PROVE CacheTypeOK'
    <2>1. load' \in [Loads -> Load \cup {Absent}]
      BY <1>8, OverlappedType DEF Upsert
    <2>2. writes' \in 0 .. MaxWrites /\ writes' \in Version
      BY <1>8, ConfigCacheAssumption DEF Upsert, Version
    <2>3. QED
      BY <1>8, <2>1, <2>2 DEF Upsert
  <1>9. ASSUME NEW a \in Editors, NEW i \in Ids, Delete(a, i) PROVE CacheTypeOK'
    <2>1. load' \in [Loads -> Load \cup {Absent}]
      BY <1>9, OverlappedType DEF Delete
    <2>2. QED
      BY <1>9, <2>1 DEF Delete
  <1>10. ASSUME NEW a \in Editors, Evict(a) PROVE CacheTypeOK'
    BY <1>10 DEF Evict
  <1>11. ASSUME RestartCache PROVE CacheTypeOK'
    BY <1>11 DEF RestartCache, Request
  <1>12. CASE UNCHANGED cacheVars
    BY <1>12 DEF cacheVars
  <1>13. QED
    BY <1>1, <1>2, <1>3, <1>4, <1>5, <1>6, <1>7, <1>8, <1>9, <1>10, <1>11, <1>12 DEF CacheNext

\* Every variable keeps its type (QueryTemplateRepository, EntityConfigRepository).
THEOREM CachesTyped == CacheSpec => []CacheTypeOK
  <1>1. CacheInit => CacheTypeOK
    BY ConfigCacheAssumption DEF CacheInit, CacheTypeOK, Request
  <1>2. QED
    BY <1>1, CacheTypeStep, PTL DEF CacheSpec

-----------------------------------------------------------------------------
LEMMA CacheStep ==
    ASSUME CacheTypeOK, CacheInv, [CacheNext]_(cacheVars)
    PROVE  CacheInv'
  <1> USE DEF CacheInv, LoadsCurrent, CachedIsCurrent
  <1>1. ASSUME NEW r \in Requests, NEW i \in Ids, GetCached(r, i) PROVE CacheInv'
    BY <1>1 DEF GetCached
  <1>2. ASSUME NEW r \in Requests, NEW i \in Ids, Join(r, i) PROVE CacheInv'
    BY <1>2 DEF Join
  <1>3. ASSUME NEW r \in Requests, NEW i \in Ids, BeginLoad(r, i) PROVE CacheInv'
    <2>1. PICK l \in Loads :
            load' = [load EXCEPT ![l] = [id |-> i, seen |-> <<>>, state |-> "reading",
                                           raced |-> FALSE]]
      BY <1>3 DEF BeginLoad
    <2>2. LoadsCurrent'
      BY <1>3, <2>1 DEF BeginLoad, CacheTypeOK
    <2>3. QED
      BY <1>3, <2>2 DEF BeginLoad
  <1>4. ASSUME NEW r \in Requests, Leave(r) PROVE CacheInv'
    BY <1>4 DEF Leave
  <1>5. ASSUME NEW l \in Loads, ReadPart(l) PROVE CacheInv'
    <2>1. load[l] \in Load /\ table[load[l].id] \in Read
      BY <1>5 DEF ReadPart, Load, Read, CacheTypeOK
    <2> DEFINE seen == Append(load[l].seen, table[load[l].id])
               state == IF Len(seen) < Parts THEN "reading" ELSE "read"
    <2>2. \A p \in DOMAIN seen : (p \in DOMAIN load[l].seen /\ seen[p] = load[l].seen[p])
                                 \/ seen[p] = table[load[l].id]
      BY <2>1, AppendSeen DEF Load
    <2>3. load' = [load EXCEPT ![l].seen = seen, ![l].state = state]
      BY <1>5 DEF ReadPart
    <2> HIDE DEF seen, state
    <2>4. /\ load'[l].seen = seen /\ load'[l].id = load[l].id
          /\ load'[l].raced = load[l].raced
          /\ \A k \in Loads : k # l => load'[k] = load[k]
      BY <2>1, <2>3 DEF CacheTypeOK, Load
    <2>5. table' = table /\ cache' = cache /\ admin' = admin /\ load[l] # Absent
      BY <1>5 DEF ReadPart
    <2>6. LoadsCurrent'
      BY <2>2, <2>4, <2>5
    <2>7. QED
      BY <2>5, <2>6
  <1>6. ASSUME NEW l \in Loads, FailLoad(l) PROVE CacheInv'
    <2>1. load[l] \in Load /\ load[l] # Absent
      BY <1>6 DEF FailLoad, CacheTypeOK
    <2>2. /\ load'[l].seen = load[l].seen /\ load'[l].id = load[l].id
          /\ load'[l].raced = load[l].raced
          /\ \A k \in Loads : k # l => load'[k] = load[k]
      BY <1>6, <2>1 DEF FailLoad, CacheTypeOK, Load
    <2>3. QED
      BY <1>6, <2>1, <2>2 DEF FailLoad
  <1>7. ASSUME NEW l \in Loads, Finish(l) PROVE CacheInv'
    <2>1. load[l] \in Load /\ load[l] # Absent /\ load[l].id \in Ids
      BY <1>7 DEF Finish, CacheTypeOK, Load
    <2>2. table' = table /\ admin' = admin /\ load' = [load EXCEPT ![l] = Absent]
      BY <1>7 DEF Finish
    <2>3. LoadsCurrent'
      BY <2>2 DEF CacheTypeOK
    <2>4. ASSUME NEW i \in Ids, cache'[i] # Absent, ~cache'[i].raced,
                 \A a \in Editors : admin'[a] # i
          PROVE  \A p \in DOMAIN cache'[i].value : cache'[i].value[p] = table'[i]
      <3>1. CASE cache'[i] = cache[i]
        BY <2>2, <2>4, <3>1
      <3>2. CASE cache'[i] # cache[i]
        <4>1. /\ i = load[l].id
              /\ cache'[i] = [value |-> load[l].seen, raced |-> load[l].raced]
          BY <1>7, <2>1, <3>2 DEF Finish, Store, CacheTypeOK
        <4>2. QED
          BY <2>1, <2>2, <2>4, <4>1
      <3>3. QED
        BY <3>1, <3>2
    <2>5. QED
      BY <2>3, <2>4
  <1>8. ASSUME NEW a \in Editors, NEW i \in Ids, Upsert(a, i) \/ Delete(a, i) PROVE CacheInv'
    <2>1. /\ load' = Outdated(i) /\ cache' = cache /\ admin' = [admin EXCEPT ![a] = i]
          /\ admin[a] = Absent
          /\ \A j \in Ids : j # i => table'[j] = table[j]
      BY <1>8 DEF Upsert, Delete, CacheTypeOK
    <2>2. ASSUME NEW l \in Loads, load'[l] # Absent, ~load'[l].raced
          PROVE  \A p \in DOMAIN load'[l].seen : load'[l].seen[p] = table'[load'[l].id]
      <3>1. /\ load[l] # Absent /\ ~load[l].raced /\ load[l] \in Load
            /\ load'[l].id = load[l].id /\ load'[l].seen = load[l].seen
            /\ load[l].id = i => load[l].seen = <<>>
        BY <2>1, <2>2, OverlappedType DEF CacheTypeOK
      <3>2. CASE load[l].id = i
        BY <3>1, <3>2
      <3>3. CASE load[l].id # i
        BY <2>1, <3>1, <3>3 DEF Load
      <3>4. QED
        BY <3>2, <3>3
    <2>3. CachedIsCurrent'
      BY <2>1, ConfigCacheAssumption DEF CacheTypeOK
    <2>4. QED
      BY <2>2, <2>3
  <1>9. ASSUME NEW a \in Editors, Evict(a) PROVE CacheInv'
    <2>1. /\ table' = table /\ cache' = [cache EXCEPT ![admin[a]] = Absent]
          /\ admin[a] \in Ids /\ admin' = [admin EXCEPT ![a] = Absent]
      BY <1>9 DEF Evict, CacheTypeOK
    <2>2. load' = load
      BY <1>9 DEF Evict
    <2>3. LoadsCurrent'
      BY <2>1, <2>2
    <2>4. CachedIsCurrent'
      BY <2>1 DEF CacheTypeOK
    <2>5. QED
      BY <2>3, <2>4
  <1>10. ASSUME RestartCache PROVE CacheInv'
    BY <1>10 DEF RestartCache
  <1>11. CASE UNCHANGED cacheVars
    BY <1>11 DEF cacheVars
  <1>12. QED
    BY <1>1, <1>2, <1>3, <1>4, <1>5, <1>6, <1>7, <1>8, <1>9, <1>10, <1>11 DEF CacheNext

\* A stale entry that no eviction is about to remove was read while its row changed:
\* for any number of calls and administrators (getTemplate, getEntityConfig).
THEOREM CacheCurrent == CacheSpec => []CachedIsCurrent
  <1>1. CacheInit => CacheInv
    BY DEF CacheInit, CacheInv, LoadsCurrent, CachedIsCurrent
  <1>2. CacheInv => CachedIsCurrent
    BY DEF CacheInv
  <1>3. QED
    BY <1>1, <1>2, CacheStep, CachesTyped, PTL DEF CacheSpec

-----------------------------------------------------------------------------
LEMMA LiveStep ==
    ASSUME CacheTypeOK, InFlightIsLive, [CacheNext]_(cacheVars)
    PROVE  InFlightIsLive'
  <1> USE DEF CacheTypeOK, InFlightIsLive
  <1>0. Absent \notin Loads
    BY ConfigCacheAssumption
  <1>1. ASSUME NEW r \in Requests, NEW i \in Ids, BeginLoad(r, i) PROVE InFlightIsLive'
    <2>1. PICK l \in Loads :
            /\ load[l] = Absent
            /\ load' = [load EXCEPT ![l] = [id |-> i, seen |-> <<>>, state |-> "reading",
                                           raced |-> FALSE]]
            /\ inFlight' = [inFlight EXCEPT ![i] = l]
      BY <1>1 DEF BeginLoad
    <2>2. load'[l].id = i /\ load'[l] \in Load
      BY <2>1 DEF Load
    <2>3. load'[l] # Absent
      BY <2>2, ConfigCacheAssumption
    <2>4. QED
      BY <2>1, <2>2, <2>3
  <1>2. ASSUME NEW l \in Loads, ReadPart(l) \/ FailLoad(l) PROVE InFlightIsLive'
    <2>1. inFlight' = inFlight /\ load[l] \in Load
      BY <1>2 DEF ReadPart, FailLoad
    <2>2. \A k \in Loads : k # l => load'[k] = load[k]
      BY <1>2 DEF ReadPart, FailLoad
    <2>3. load'[l].id = load[l].id
      BY <1>2, <2>1 DEF ReadPart, FailLoad, Load
    <2>4. load'[l] \in Load
      BY <1>2, <2>1, ReadPartType DEF FailLoad, Load
    <2>5. load'[l] # Absent
      BY <2>4, ConfigCacheAssumption
    <2>6. QED
      BY <2>1, <2>2, <2>3, <2>5
  <1>3. ASSUME NEW l \in Loads, Finish(l) PROVE InFlightIsLive'
    <2>1. /\ load' = [load EXCEPT ![l] = Absent]
          /\ inFlight' = [inFlight EXCEPT ![load[l].id] = Absent]
          /\ load[l].id \in Ids
      BY <1>3 DEF Finish, Load
    <2>2. QED
      BY <2>1
  <1>4. ASSUME NEW a \in Editors, NEW i \in Ids, Upsert(a, i) \/ Delete(a, i)
        PROVE  InFlightIsLive'
    BY <1>4, OverlappedType DEF Upsert, Delete
  <1>5. ASSUME NEW a \in Editors, Evict(a) PROVE InFlightIsLive'
    BY <1>5 DEF Evict
  <1>6. ASSUME RestartCache PROVE InFlightIsLive'
    BY <1>6 DEF RestartCache
  <1>7. CASE UNCHANGED <<inFlight, load>>
    BY <1>7
  <1>8. QED
    BY <1>1, <1>2, <1>3, <1>4, <1>5, <1>6, <1>7 DEF CacheNext, cacheVars, GetCached, Join, Leave

\* The map of loads never names one that has ended, so a caller that joins a load
\* joins one that will answer it (getTemplate, getEntityConfig).
THEOREM JoinedLoadsLive == CacheSpec => []InFlightIsLive
  <1>1. CacheInit => InFlightIsLive
    BY DEF CacheInit, InFlightIsLive
  <1>2. QED
    BY <1>1, LiveStep, CachesTyped, PTL DEF CacheSpec
=============================================================================
