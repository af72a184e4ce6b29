------------------------------ MODULE AclConfig ------------------------------
(***************************************************************************)
(* The ACL configuration (src/backend/src/acl): the tables, the copy every *)
(* authorisation decision reads in memory (AclService), the administrators *)
(* who rewrite the tables from a snapshot they loaded before               *)
(* (AclAdminConfigService), and the synchronisation that aligns the system *)
(* resources with the entities and query templates that exist              *)
(* (AclResourceSyncService).                                               *)
(*                                                                         *)
(* An operation loads the snapshot, checks and edits it, replaces the      *)
(* tables in one transaction, then reloads the memory.  A load is an array *)
(* of statements, each with its own view of the committed rows: the        *)
(* permissions first, then the rest.  A replacement deletes and recreates  *)
(* every row, so of two that overlap one waits for the other's locks or    *)
(* fails: a commit is one step.                                            *)
(***************************************************************************)
EXTENDS Naturals

CONSTANTS
    Codes,          \* permission codes and aliases, numbers in their sort order
    Last,           \* a place after all of them
    Entities,       \* resources of entities
    Queries,        \* resources of query templates
    Others,         \* resources discovery does not know
    Admins,         \* concurrent administrators
    PermissionInputs, ResourceInputs, DefaultInputs, GrantInputs,
    InitSnapshots,  \* the tables at the start
    MaxOps,         \* bound: operations of one behaviour
    Sync,           \* the synchronisation, as a process
    None

Sources == Entities \cup Queries
Resources == Sources \cup Others
Processes == Admins \cup {Sync}

Modes == {"disabled", "authenticated", "permission-bound"}
Resource == [mode : Modes, managedBy : {"manual", "system"},
             syncState : {"present", "stale"}, perms : SUBSET Codes]
\* listed: the codes of the catalogue; aliases: those of each, none if not listed.
Snapshot == [listed : SUBSET Codes, aliases : [Codes -> SUBSET Codes],
             defaults : SUBSET Codes, resources : [Resources -> {None} \cup Resource]]
PermissionInput == [code : Codes, aliases : SUBSET Codes, ids : SUBSET Resources]
ResourceInput == [id : Resources, mode : Modes, perms : SUBSET Codes]

Op == [kind : {"createPermission"}, input : PermissionInputs]
      \cup [kind : {"updatePermission"}, prev : Codes, input : PermissionInputs]
      \cup [kind : {"deletePermission"}, code : Codes]
      \cup [kind : {"createResource"}, input : ResourceInputs]
      \cup [kind : {"updateResource"}, prev : Resources, input : ResourceInputs]
      \cup [kind : {"deleteResource"}, id : Resources]
      \cup [kind : {"updateDefaults"}, codes : DefaultInputs]
      \cup [kind : {"grant"}, codes : GrantInputs]
      \cup [kind : {"putEntity"}, id : Entities]
      \cup [kind : {"putTemplate"}, id : Queries]
      \cup [kind : {"deleteSource"}, id : Sources]
      \cup [kind : {"sync"}]
SyncOp == [kind |-> "sync"]

Stage == {"idle", "load", "loadRest", "check", "write", "reload", "reloadRest", "apply",
          "source", "join", "wait"}
Reloading == {"reload", "reloadRest", "apply"}

VARIABLES
    stored,      \* the tables of the configuration
    grants,      \* acl_contact_permissions of one contact
    sources,     \* the entities and templates that exist
    acl,         \* what AclService holds in memory
    op, stage, snap,          \* per process: its operation, where it is, what it read
    found,       \* {what the synchronisation under way discovered}, or {}
    ops,         \* operations begun
    \* History.  raced: something was committed since the reload of a process
    \* began to read; behind: the memory comes from such a reload, or the last
    \* reload failed; decided: the resources an administrator has ruled on; calm:
    \* no two operations overlapped, none failed after it had changed something.
    raced, behind, decided, calm

tables == <<stored, grants, sources>>
local == <<op, stage, snap, found>>
history == <<raced, behind, decided, calm>>
vars == <<tables, acl, local, ops, history>>

-----------------------------------------------------------------------------
(* Snapshots: normalizeAclConfigSnapshot. *)

\* Permissions are checked in the order of the list, an alias against the codes
\* up to its own permission only: place[c] is where c stands in the list.
AliasesAccepted(s, place) ==
    \A c \in s.listed : \A alias \in s.aliases[c] :
        /\ alias \in s.listed => place[alias] > place[c]
        /\ \A d \in s.listed : d # c => alias \notin s.aliases[d]

ReferencesListed(s) ==
    /\ s.defaults \subseteq s.listed
    /\ \A r \in Resources : s.resources[r] # None => s.resources[r].perms \subseteq s.listed

Valid(s, place) == AliasesAccepted(s, place) /\ ReferencesListed(s)

\* A list read from the tables is sorted by code.
Sorted == [c \in Codes |-> c]
Loadable(s) == Valid(s, Sorted)

\* AclService.canAccess, for a subject with the given canonical permissions.
CanAccess(s, held, r) ==
    /\ s.resources[r] # None
    /\ s.resources[r].syncState = "present"
    /\ \/ s.resources[r].mode = "authenticated"
       \/ s.resources[r].mode = "permission-bound" /\ s.resources[r].perms \cap held # {}

\* Mutant: a resource that is new opens to every session.
MergeOpen(resources, present) ==
    [r \in Resources |->
        IF r \in present
        THEN IF resources[r] = None
             THEN [mode |-> "authenticated", managedBy |-> "system", syncState |-> "present", perms |-> {}]
             ELSE [resources[r] EXCEPT !.managedBy = "system", !.syncState = "present"]
        ELSE IF resources[r] # None /\ resources[r].managedBy = "system"
             THEN [resources[r] EXCEPT !.syncState = "stale"]
             ELSE resources[r]]

\* syncSystemResourcesInternal: what is discovered becomes a present system
\* resource and keeps its access, what is not becomes stale, the new is disabled.
Merge(resources, present) ==
    [r \in Resources |->
        IF r \in present
        THEN IF resources[r] = None
             THEN [mode |-> "disabled", managedBy |-> "system", syncState |-> "present", perms |-> {}]
             ELSE [resources[r] EXCEPT !.managedBy = "system", !.syncState = "present"]
        ELSE IF resources[r] # None /\ resources[r].managedBy = "system"
             THEN [resources[r] EXCEPT !.syncState = "stale"]
             ELSE resources[r]]

PresentIn(resources) ==
    {r \in Resources : /\ resources[r] # None /\ resources[r].managedBy = "system"
                       /\ resources[r].syncState = "present"}

-----------------------------------------------------------------------------
ASSUME AclAssumption ==
    /\ Codes \subseteq Nat /\ MaxOps \in Nat /\ Last \in Nat
    /\ \A c \in Codes : c < Last
    /\ PermissionInputs \subseteq PermissionInput /\ ResourceInputs \subseteq ResourceInput
    /\ DefaultInputs \subseteq SUBSET Codes /\ GrantInputs \subseteq SUBSET Codes
    /\ Sync \notin Admins
    /\ Entities \cap Queries = {}
    /\ None \notin Codes /\ None \notin Resource /\ None \notin Op
    /\ \A s \in InitSnapshots :
        s \in Snapshot /\ Loadable(s) /\ PresentIn(s.resources) \subseteq Sources

Nothing == [listed |-> {}, aliases |-> [c \in Codes |-> {}], defaults |-> {},
            resources |-> [r \in Resources |-> None]]

\* The server has booted: reload, then a synchronisation with no one else at work.
Init ==
    /\ stored \in InitSnapshots
    /\ sources = PresentIn(stored.resources)
    /\ acl = stored
    /\ grants = {}
    /\ op = [p \in Processes |-> None]
    /\ stage = [p \in Processes |-> "idle"]
    /\ snap = [p \in Processes |-> Nothing]
    /\ found = {}
    /\ ops = 0
    /\ raced = [p \in Processes |-> FALSE]
    /\ behind = FALSE
    /\ decided = {r \in Resources : stored.resources[r] # None}
    /\ calm = TRUE

\* Processes ps go on at a stage and forget what they read; idle ones have no operation.
Enter(ps, next) ==
    /\ stage' = [p \in Processes |-> IF p \in ps THEN next ELSE stage[p]]
    /\ snap' = [p \in Processes |-> IF p \in ps THEN Nothing ELSE snap[p]]
    /\ op' = [p \in Processes |-> IF p \in ps /\ next = "idle" THEN None ELSE op[p]]

\* Operations that edit the snapshot load it first, the others start elsewhere.
FirstStage(o) ==
    IF o.kind \in {"putTemplate", "deleteSource"} THEN "source"
    ELSE IF o.kind = "sync" THEN "join"
    ELSE IF o.kind = "grant" /\ o.codes = {} THEN "write" ELSE "load"

Begin(a, o) ==
    /\ stage[a] = "idle"
    /\ ops < MaxOps
    /\ ops' = ops + 1
    /\ op' = [op EXCEPT ![a] = o]
    /\ stage' = [stage EXCEPT ![a] = FirstStage(o)]
    /\ calm' = (calm /\ \A p \in Processes : stage[p] = "idle")
    /\ UNCHANGED <<tables, acl, snap, found, raced, behind, decided>>

\* AclConfigRepository.loadSnapshot, on behalf of a load or of a reload.
ReadCatalog(p) ==
    /\ stage[p] \in {"load", "reload"}
    /\ snap' = [snap EXCEPT ![p] = [Nothing EXCEPT !.listed = stored.listed,
                                              !.aliases = stored.aliases]]
    /\ stage' = [stage EXCEPT ![p] = IF stage[p] = "load" THEN "loadRest" ELSE "reloadRest"]
    /\ raced' = [raced EXCEPT ![p] = FALSE]
    /\ UNCHANGED <<tables, acl, op, found, ops, behind, decided, calm>>

\* A new or renamed custom resource is checked against discovery before the write.
NeedsCheck(p) ==
    \/ op[p].kind = "createResource"
    \/ /\ op[p].kind = "updateResource" /\ op[p].prev # op[p].input.id
       /\ stored.resources[op[p].prev] # None
       /\ stored.resources[op[p].prev].managedBy = "manual"

ReadRest(p) ==
    /\ stage[p] \in {"loadRest", "reloadRest"}
    /\ snap' = [snap EXCEPT ![p].defaults = stored.defaults,
                            ![p].resources = stored.resources]
    /\ stage' = [stage EXCEPT ![p] = IF stage[p] = "reloadRest" THEN "apply"
                                     ELSE IF NeedsCheck(p) THEN "check" ELSE "write"]
    /\ UNCHANGED <<tables, acl, op, found, ops, history>>

\* assertResourceIdNotReserved: discovery is asked again, what it says is not locked.
CheckReserved(a) ==
    /\ stage[a] = "check"
    /\ op[a].input.id \notin sources
    /\ stage' = [stage EXCEPT ![a] = "write"]
    /\ UNCHANGED <<tables, acl, op, snap, found, ops, history>>

\* replaceSnapshot commits the draft; the permission codes given to the contact
\* are renamed with their permission, and deleted when it is, or is now a default.
Rename(held, prev, next) == (held \ {prev}) \cup (IF prev \in held THEN {next} ELSE {})

Overlapped(p) ==
    [q \in Processes |-> raced[q] \/ (q # p /\ stage[q] \in {"reloadRest", "apply"})]

\* Mutant: the contacts keep the permissions that were deleted.
PersistKeepsGrants(a, draft, place, held) ==
    /\ Valid(draft, place)
    /\ stored' = draft
    /\ grants' = grants
    /\ Enter({a}, "reload")
    /\ raced' = Overlapped(a)
    /\ UNCHANGED <<sources, acl, found, ops, behind, calm>>

\* Mutant: the memory is not reloaded.
PersistOnly(a, draft, place, held) ==
    /\ Valid(draft, place)
    /\ stored' = draft
    /\ grants' = held \ draft.defaults
    /\ Enter({a}, IF op[a].kind = "putEntity" THEN "source" ELSE "idle")
    /\ raced' = Overlapped(a)
    /\ UNCHANGED <<sources, acl, found, ops, behind, calm>>

\* Mutant: the draft is not checked as a whole, only the foreign keys are.
PersistUnchecked(a, draft, place, held) ==
    /\ ReferencesListed(draft)
    /\ stored' = draft
    /\ grants' = held \ draft.defaults
    /\ Enter({a}, "reload")
    /\ raced' = Overlapped(a)
    /\ UNCHANGED <<sources, acl, found, ops, behind, calm>>

Persist(a, draft, place, held) ==
    /\ Valid(draft, place)
    /\ stored' = draft
    /\ grants' = held \ draft.defaults
    /\ Enter({a}, "reload")
    /\ raced' = Overlapped(a)
    /\ UNCHANGED <<sources, acl, found, ops, behind, calm>>

Decide(rs) == decided' = decided \cup rs

\* upsertPermissionInSnapshot; prev is None for a new permission.
WithPermission(s, prev, x) ==
    LET listed == (s.listed \ {prev}) \cup {x.code}
        Edit(r) ==
            [s.resources[r] EXCEPT
                !.perms = (Rename(s.resources[r].perms, prev, x.code) \ {x.code})
                          \cup (IF r \in x.ids THEN {x.code} ELSE {}),
                !.mode = IF r \in x.ids /\ s.resources[r].mode = "disabled"
                         THEN "permission-bound" ELSE s.resources[r].mode]
    IN  [listed |-> listed,
         aliases |-> [c \in Codes |-> IF c = x.code THEN x.aliases
                                      ELSE IF c = prev THEN {} ELSE s.aliases[c]],
         defaults |-> Rename(s.defaults, prev, x.code) \cap listed,
         resources |-> [r \in Resources |->
                            IF s.resources[r] = None THEN None ELSE Edit(r)]]

\* The new permission stands last in the list that is checked.
CreatePermission(a) ==
    /\ stage[a] = "write" /\ op[a].kind = "createPermission"
    /\ LET x == op[a].input
           s == snap[a]
       IN  /\ x.code \notin s.listed
           /\ \A r \in x.ids : s.resources[r] # None
           /\ Persist(a, WithPermission(s, None, x), [Sorted EXCEPT ![x.code] = Last], grants)
           /\ Decide(x.ids)

\* A renamed permission stands where it stood.
UpdatePermission(a) ==
    /\ stage[a] = "write" /\ op[a].kind = "updatePermission"
    /\ LET x == op[a].input
           prev == op[a].prev
           s == snap[a]
       IN  /\ prev \in s.listed
           /\ x.code # prev => x.code \notin s.listed
           /\ x.code # prev => ~(prev \in grants /\ x.code \in grants)    \* primary key
           /\ \A r \in x.ids : s.resources[r] # None
           /\ Persist(a, WithPermission(s, prev, x), [Sorted EXCEPT ![x.code] = prev],
                      Rename(grants, prev, x.code))
           /\ Decide(x.ids)

\* deletePermissionFromSnapshot
WithoutPermission(s, code) ==
    [listed |-> s.listed \ {code},
     aliases |-> [s.aliases EXCEPT ![code] = {}],
     defaults |-> s.defaults \ {code},
     resources |-> [r \in Resources |->
                        IF s.resources[r] = None THEN None
                        ELSE [s.resources[r] EXCEPT !.perms = @ \ {code}]]]

DeletePermission(a) ==
    /\ stage[a] = "write" /\ op[a].kind = "deletePermission"
    /\ op[a].code \in snap[a].listed
    /\ Persist(a, WithoutPermission(snap[a], op[a].code), Sorted, grants \ {op[a].code})
    /\ UNCHANGED decided

UpdateDefaults(a) ==
    /\ stage[a] = "write" /\ op[a].kind = "updateDefaults"
    /\ Persist(a, [snap[a] EXCEPT !.defaults = op[a].codes], Sorted, grants)
    /\ UNCHANGED decided

Manual(mode, perms) ==
    [mode |-> mode, managedBy |-> "manual", syncState |-> "present", perms |-> perms]

WithResource(s, id, resource) == [s EXCEPT !.resources[id] = resource]

CreateResource(a) ==
    /\ stage[a] = "write" /\ op[a].kind = "createResource"
    /\ LET x == op[a].input
       IN  /\ snap[a].resources[x.id] = None
           /\ Persist(a, WithResource(snap[a], x.id, Manual(x.mode, x.perms)), Sorted, grants)
           /\ Decide({x.id})

\* Of a system resource only the access mode and the permissions can be edited.
UpdateResource(a) ==
    /\ stage[a] = "write" /\ op[a].kind = "updateResource"
    /\ LET x == op[a].input
           prev == op[a].prev
           s == snap[a]
       IN  /\ s.resources[prev] # None
           /\ IF s.resources[prev].managedBy = "system"
              THEN /\ Persist(a, WithResource(s, prev, [s.resources[prev] EXCEPT
                                    !.mode = x.mode, !.perms = x.perms]), Sorted, grants)
                   /\ Decide({prev})
              ELSE /\ x.id # prev => s.resources[x.id] = None
                   /\ Persist(a, WithResource(WithResource(s, prev, None), x.id,
                                    Manual(x.mode, x.perms)), Sorted, grants)
                   /\ Decide({x.id})

DeleteResource(a) ==
    /\ stage[a] = "write" /\ op[a].kind = "deleteResource"
    /\ LET id == op[a].id
           s == snap[a]
       IN  /\ s.resources[id] # None
           /\ s.resources[id].managedBy = "system" =>
                s.resources[id].syncState = "stale" /\ s.resources[id].perms = {}
           /\ Persist(a, WithResource(s, id, None), Sorted, grants)
    /\ UNCHANGED decided

\* ensureEntityResource: a resource that is not there yet is submitted without an
\* access mode, which normalizeAccessMode makes "authenticated".
EnsureEntityResource(a) ==
    /\ stage[a] = "write" /\ op[a].kind = "putEntity"
    /\ snap[a].resources[op[a].id] = None
    /\ Persist(a, WithResource(snap[a], op[a].id, Manual("authenticated", {})), Sorted, grants)
    /\ UNCHANGED decided

EntityResourceExists(a) ==
    /\ stage[a] = "write" /\ op[a].kind = "putEntity"
    /\ snap[a].resources[op[a].id] # None
    /\ Enter({a}, "source")
    /\ UNCHANGED <<tables, acl, found, ops, history>>

\* updateContactPermissions, checked against the snapshot, and with no code
\* deleteContactPermissions; the memory has no part in them.
Grant(a) ==
    /\ stage[a] = "write" /\ op[a].kind = "grant"
    /\ IF op[a].codes = {} THEN grants # {}
       ELSE op[a].codes \subseteq snap[a].listed \ snap[a].defaults
    /\ grants' = op[a].codes
    /\ Enter({a}, "idle")
    /\ UNCHANGED <<stored, sources, acl, found, ops, history>>

\* AclService.reload: a snapshot that does not validate leaves the memory as it is
\* and fails the operation (Fail).
Reload(p) ==
    /\ stage[p] = "apply"
    /\ Loadable(snap[p])
    /\ acl' = snap[p]
    /\ behind' = raced[p]
    /\ raced' = [raced EXCEPT ![p] = FALSE]
    /\ UNCHANGED <<tables, ops, decided, calm>>

ReloadAdmin(a) ==
    /\ Reload(a)
    /\ Enter({a}, IF op[a].kind = "putEntity" THEN "source" ELSE "idle")
    /\ UNCHANGED found

\* The entity or template is written or deleted, then a synchronisation is awaited.
WriteSource(a) ==
    /\ stage[a] = "source"
    /\ op[a].kind = "deleteSource" => op[a].id \in sources
    /\ sources' = IF op[a].kind = "deleteSource" THEN sources \ {op[a].id}
                                                 ELSE sources \cup {op[a].id}
    /\ Enter({a}, "join")
    /\ UNCHANGED <<stored, grants, acl, found, ops, history>>

-----------------------------------------------------------------------------
(* syncSystemResources: one at a time, further callers wait for the one under way. *)

JoinSync(a) ==
    /\ stage[a] = "join"
    /\ stage' = [stage EXCEPT ![a] = "wait",
                              ![Sync] = IF stage[Sync] = "idle" THEN "load" ELSE stage[Sync]]
    /\ op' = [op EXCEPT ![Sync] = SyncOp]
    /\ UNCHANGED <<tables, acl, snap, found, ops, history>>

Waiting == {a \in Admins : stage[a] = "wait"}

\* Discovery reads next to the load of the snapshot, in any order.
Discover ==
    /\ stage[Sync] \in {"load", "loadRest", "write"}
    /\ found = {}
    /\ found' = {sources}
    /\ UNCHANGED <<tables, acl, op, stage, snap, ops, history>>

EndSync == Enter({Sync} \cup Waiting, "idle") /\ found' = {}

SyncNothing ==
    /\ stage[Sync] = "write"
    /\ \E present \in found : Merge(snap[Sync].resources, present) = snap[Sync].resources
    /\ EndSync
    /\ UNCHANGED <<tables, acl, ops, history>>

\* replaceResources: the permissions must still exist (foreign key).  A new label
\* or target, which the model leaves out, makes it write equal resources as well.
SyncWrite ==
    /\ stage[Sync] = "write"
    /\ \E present \in found :
        LET draft == [stored EXCEPT !.resources = Merge(snap[Sync].resources, present)]
        IN  ReferencesListed(draft) /\ stored' = draft
    /\ Enter({Sync}, "reload")
    /\ raced' = Overlapped(Sync)
    /\ UNCHANGED <<grants, sources, acl, found, ops, behind, decided, calm>>

SyncReload == Reload(Sync) /\ EndSync

-----------------------------------------------------------------------------
\* An operation is rejected or meets an error at any await; callers that wait for a
\* synchronisation fail with it.
Fail(p) ==
    /\ stage[p] \notin {"idle", "join", "wait"}
    /\ Enter(IF p = Sync THEN {Sync} \cup Waiting ELSE {p}, "idle")
    /\ found' = IF p = Sync THEN {} ELSE found
    /\ raced' = [raced EXCEPT ![p] = FALSE]
    /\ behind' = (behind \/ stage[p] \in Reloading)
    /\ calm' = (calm /\ p # Sync /\ stage[p] \in {"load", "loadRest", "check", "write"})
    /\ UNCHANGED <<tables, acl, ops, decided>>

\* The server restarts: it loads the tables, or does not come up, and synchronises
\* before it listens.
Restart ==
    /\ Loadable(stored)
    /\ stored' = [stored EXCEPT !.resources = Merge(stored.resources, sources)]
    /\ acl' = stored'
    /\ Enter(Processes, "idle")
    /\ found' = {}
    /\ raced' = [p \in Processes |-> FALSE]
    /\ behind' = FALSE
    /\ UNCHANGED <<grants, sources, ops, decided, calm>>

Next ==
    \/ \E a \in Admins :
        \/ \E o \in Op : Begin(a, o)
        \/ CheckReserved(a)
        \/ CreatePermission(a) \/ UpdatePermission(a) \/ DeletePermission(a)
        \/ UpdateDefaults(a) \/ Grant(a)
        \/ CreateResource(a) \/ UpdateResource(a) \/ DeleteResource(a)
        \/ EnsureEntityResource(a) \/ EntityResourceExists(a)
        \/ ReloadAdmin(a) \/ WriteSource(a) \/ JoinSync(a)
    \/ \E p \in Processes : ReadCatalog(p) \/ ReadRest(p) \/ Fail(p)
    \/ Discover \/ SyncNothing \/ SyncWrite \/ SyncReload
    \/ Restart

Spec == Init /\ [][Next]_vars

-----------------------------------------------------------------------------
(* Properties. *)

TypeOK ==
    /\ stored \in Snapshot /\ acl \in Snapshot
    /\ grants \subseteq Codes /\ sources \subseteq Sources
    /\ op \in [Processes -> Op \cup {None}]
    /\ stage \in [Processes -> Stage]
    /\ snap \in [Processes -> Snapshot]
    /\ found \subseteq SUBSET Sources
    /\ ops \in 0 .. MaxOps
    /\ raced \in [Processes -> BOOLEAN]
    /\ behind \in BOOLEAN /\ calm \in BOOLEAN
    /\ decided \subseteq Resources

Quiet == \A p \in Processes : stage[p] = "idle"

\* What administrators and synchronisations leave in the tables, working from what they
\* read before one another's commits, can be loaded, or can once one permission is
\* deleted, which asks for no reload.  A created permission is checked at the end of the
\* list and a renamed one at its old place, and both are read back in the order of the
\* codes: an alias that was accepted can then stop every reload and the next start of the
\* server.  It never takes more than that one permission (persistSnapshot, replaceResources).
OneDeletionAway ==
    \/ Loadable(stored)
    \/ \E c \in stored.listed : Loadable(WithoutPermission(stored, c))

\* The memory is what the tables hold, unless a commit fell into the reload it came
\* from or a reload failed (persistSnapshot, syncSystemResourcesInternal).
StaleOnlyByRace ==
    (\A p \in Processes : stage[p] \notin Reloading) /\ ~behind => acl = stored

\* A resource nobody has decided about is closed, also to an administrator: true of
\* query templates, through every edit, synchronisation and lost update.
ClosedUntilDecided ==
    \A r \in Queries \ decided : ~CanAccess(stored, Codes, r) /\ ~CanAccess(acl, Codes, r)

\* Undisturbed, what one operation leaves for the others to do is done: the system
\* resources in memory are those of the entities and templates that exist, and a
\* contact holds permissions of the catalogue that are not defaults, renamed and
\* revoked with them (syncSystemResources, replaceSnapshot).
UndisturbedEffects ==
    calm /\ Quiet =>
        /\ PresentIn(acl.resources) = sources
        /\ grants \subseteq stored.listed \ stored.defaults

=============================================================================
