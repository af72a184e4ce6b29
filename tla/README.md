# Verification of sfdc-external

`sfdc-external` gives contacts of a Salesforce organisation a portal over its
records. The backend (NestJS, TypeScript, one Node.js process, PostgreSQL
through Prisma) decides for every request what may be used (ACL) and what may
be seen (visibility cones), reads and writes Salesforce on the contact's behalf,
keeps the configuration of entities and query templates, and records what it
did; the frontend (React) is a single-page application over it. This directory
holds TLA+ models of the parts where a mistake is hard to test, the TLC runs
that check them on small instances, and proofs for every value of the constants.

Paths below are relative to `src/backend/src` unless they start with `docs/` or
`frontend/` (`src/frontend/src`).

Contents: 1 the system · 2 the modules · 3 the runs · 4 bounds, symmetry,
deadlock and fairness · 5 the proofs · 6 disagreements found · 7 what is left
out · 8 plan · 9 how to run.

## 1. The system

### Components, state, operations

| component | state it keeps | operations | modelled in |
|---|---|---|---|
| Visibility evaluation (`visibility/visibility.service.runtime.ts`) | two cache tables: policy definitions by object and version, user scopes by key and expiry | `evaluate`, with or without caches | VisibilityPolicy, VisibilityFreshness, VisibilityDecision |
| Visibility administration (`visibility-admin.service.runtime.ts`, its repositories) | cones, rules, assignments; the global policy version and one per object | create, update, delete of each; bootstrap of an entity's policy | VisibilityPolicy |
| Debug preview (`services/visibility-admin-debug-preview.service.ts`) | none | evaluation that bypasses the caches | VisibilityPolicy |
| ACL (`acl/acl.service.ts`, `acl-admin-config.*`, `acl-config.*`) | permissions, aliases, defaults, resources; a copy of them in memory | load, reload, edits by read-modify-write of all tables | AclConfig |
| ACL synchronisation (`acl-resource-sync.service.ts`) | the promise of the run under way | align system resources with entities and templates | AclConfig |
| ACL contact permissions (`acl-contact-permissions-admin.service.ts`) | permissions given to one contact | replace, delete; follow renames and deletions; read by a session | AclConfig, Accounts |
| Query templates, entity configuration (`query/`, `entities/services/entity-config.repository.ts`) | cache and map of loads in memory | get, upsert, delete, evict | ConfigCache; ACL side in AclConfig |
| Entity lists, cursors, detail (`entities/`) | cursor rows: rows already fetched, locator of the others, fingerprint, expiry | page, continue, expire, read one | DataRequests, PagedResult |
| Entity writes (`entity-write.runtime.ts`) | none | create, update, delete in Salesforce | DataRequests |
| Report runs (`reports/report-cursor*`) | cursor rows of their own | run, continue | DataRequests, PagedResult |
| Audit trail (`audit/`) | intent and completion rows; security and visibility rows | begin, complete, fail | DataRequests, Accounts, MetadataDeploy |
| Metadata deploy (`metadata/`) | writes the visibility, ACL, entity, template and app tables | preview, deploy | MetadataDeploy |
| Reports and dashboards (`reports/`, `dashboards/`) | folders, items, share grants | create, update, share, delete; decide access | Sharing |
| Home page of an app (`apps/`) | blocks that name dashboards | save | Sharing |
| Setup (`setup/`) | one setup row | complete | Accounts |
| Authentication, local credentials (`auth/`) | sessions and identities belong to a platform service | log in and out, resolve a session, administer credentials | Accounts |
| Report and dashboard workspaces (`frontend/features/reports`, `.../dashboards`) | the state of a page: what its route names, draft, mode, rows, requests under way | follow a link, run, edit, save, delete | ModuleWorkspace |
| Entity pages (`frontend/features/entities`) | rows, cursor history, recovery; record or form shown; requests under way | open, search, page, recover, delete; update a status, save | EntityList, EntityRecord, EntityPages |
| Session, access and workspace in the browser (`frontend/features/auth`, `setup`, `route-access`, `apps`) | user, routes, apps, selection in localStorage | restore, log in and out, load, select | BrowserSession |
| Controllers and DTOs, audit reading, normalisers, SOQL text, navigation, search, health, route catalogue, other pages | none of their own | | no (section 7) |

### How they interact

* A data request resolves a session into a contact and permissions, asks
  `AclService.canAccess` (memory only), then `VisibilityService.evaluate` for
  the object it reads, and applies the answer to the query and to its rows.
  Every query and write is announced in the audit trail before it is sent and
  completed after; the pages after the first are read through a cursor row whose
  fingerprint ties it to the contact, the view and the policy version.
* Administrators change the policy in database transactions that bump the
  versions of the objects they list and delete their cached rows. Evaluations
  read the version first and use it in every key they look up or store: the
  version is the only link between the two sides, there is no lock.
* Administrators of the ACL load the whole configuration, edit it, replace all
  its tables in one transaction and reload the memory. Writing an entity or a
  template ends with a synchronisation of the system resources, shared by
  whoever asks for one while it runs.
* Templates and entity configurations are read through an in-memory cache with
  no expiry; an administrator evicts after the commit.
* A metadata deploy writes records of all these tables one by one, with the
  invalidation of each on the way and one for the visibility caches at the end.
* Dashboards are built on reports: a dashboard must not be shared with somebody
  who does not see its report. The two features have separate copies of the
  access policy, and reports change without looking at the dashboards.
* A session is resolved at each request, and so are the permissions: two reads,
  of the contact's grants and of the setup record.
* The pages of the frontend follow their URL; a request goes out for what the URL
  names, and its answer may come after the user has left. Around them a chain of
  providers asks for the setup, then the session, then the routes and apps of its
  user, and guards redirect by what they hold.

### What is hard, and what makes each part correct

`PROJECT.json` lists every hazard at its line, with the properties that watch it.
In short:

* **Visibility**: an evaluation is a chain of awaits over state others change.
  Correct means: what is cached under the current version is what the tables
  say; an answer applies only rules that were in force during the request and
  misses none that stood throughout; a policy that does not compile shows
  nothing; a cached answer is the one that would have been computed.
* **ACL**: whole-table read-modify-write without a lock, torn reads, reloads
  that overlap or fail, a background writer. Correct means: what is stored can be
  loaded, or repaired by one deletion; the configuration in memory is current
  unless a race or a failure explains it; nothing opens a resource nobody decided
  about.
* **Configuration caches**: loads, evictions and callbacks in any order. Correct
  means: what is served is what is stored unless it changed while it was read;
  the map of loads never names one that ended; every caller is answered.
* **Data requests**: the policy may change between two pages, a cursor may expire
  under a request, every statement may fail before or after its effect, the
  process may die. Correct means: rows of one policy only; pages without gaps or
  repetitions; a trail that never claims what did not happen, complete for
  whoever was given an answer.
* **Deploys**: no transaction around them, a fingerprint checked once, one
  invalidation at the end. Correct means: what is overwritten is what the
  preview showed; stale policies only while it runs or after it failed.
* **Sharing**: a check, then a transaction, then an answer, with other requests
  between. Correct means: no dashboard for somebody who does not see its report,
  whatever was shared, moved or narrowed in which order.
* **Accounts**: three external writes make a setup; the grounds of an
  administrator are read one after the other; an update keeps what a request
  leaves out, from an earlier read. Correct means: whole setups, no change
  without an administrator, outcomes on record, a credential found disabled left so.
* **Pages**: answers in any order, failures, navigation in the middle of a save;
  nothing is cancelled in the entity pages. Correct means: the page shows what its
  route names and never stays blank or busy; a save sends its own draft, to the
  record that was seen, once; rows belong to the definition shown; an expired cursor
  leads to the first page of what the user asked for last.
* **Session**: restore, login and logout are not ordered and share one cookie with
  other tabs. Correct means: the user, routes and apps a tab holds are those of the
  session, nothing of a user stays after signing out, no splash screen stays.

## 2. The modules

```
VisibilityTerms ─┬─ VisibilityPolicy ┬─ MCVisibilityPolicy
                 │                   └─ VisibilityFreshness ── MCVisibilityFreshness
                 └─ VisibilityDecision ── MCVisibilityDecision
      VisibilityFreshness, VisibilityDecision ── VisibilityProofs

ConfigCache ── MCConfigCache                  AclConfig ── MCAclConfig
      AclConfig, ConfigCache ── AclConfigProofs

DataRequests ── MCDataRequests                MetadataDeploy ── MCMetadataDeploy
  Pages == INSTANCE PagedResult WITH ...            └─ MetadataDeployProofs
      └─ DataRequestsProofs                   Accounts ── MCAccounts
Sharing ── MCSharing                                └─ AccountsProofs
      └─ SharingProofs                        ModuleWorkspace ── MCModuleWorkspace
                                                    └─ ModuleWorkspaceProofs
Browser ─┬─ BrowserSession ── MCBrowserSession
         └─ EntityPage ─┬─ EntityList ──┐
                        └─ EntityRecord ┴─ EntityPages ── MCEntityPages
      BrowserSession, EntityPages ── BrowserProofs
```

A line is EXTENDS; `INSTANCE` is written out. A module of proofs extends what it is
about, and some extend two components; the names of those do not meet (`List...` and
`Record...` in the entity pages, `Decision...`, `Cache...`), so that either half
can be read without the other. VisibilityTerms declares the two constants that the
policy and the decision share; Browser has the bounds of a behaviour of the frontend.

`VisibilityPolicy` composes the evaluations with the administrators through the
shared tables, versions and caches. `VisibilityDecision` is what one evaluation
computes from a policy, which `VisibilityPolicy` leaves abstract (`Bodies`,
`Applicable`). `DataRequests` takes the decision as a set of visible records per
contact, view and policy version, and composes authorisation, cursors, queries,
writes and the audit trail. `MetadataDeploy` composes the deployment with other
administrators and with the requests that fill the caches. `AclConfig` composes the
administrators, the synchronisation, the memory and the sources of entities and
templates.

### VisibilityPolicy

| model | code |
|---|---|
| `cones`, `rules`, `assigns` | the three policy tables, with the cascades of their foreign keys |
| `policyVersion`, `objVersion` | `policy_meta`, `object_policy_version` |
| `defCache`, `scopeCache` | `policyDefinitionCache`, `userScopeCache`, by their keys |
| `tx[a]` | the transaction an administrator has open: what it will write and the objects it listed |
| `pc`, `req`, `sel`, `def`, `scope` of a reader | where an evaluation waits and its local variables |
| `now` | the clock that validity dates and expiries are compared with |
| `CreateCone` … `DeleteAssignment`, `EnsureBootstrap` | the part of each operation up to and including its listing of the objects it affects, which precedes every write |
| `Commit`, `Bump` | the writes, the version bumps and the cache deletions (`bumpPolicyVersionAndInvalidateCaches`), at the commit |
| `BeginEvaluate` … `StoreScope` | one action per await of `evaluate`: version, definition lookup, cone selection, compilation, insertion, second read after a unique violation, scope lookup, assignments, storing the scope |
| `EndEvaluate` | the answer, or a request lost at any await |

Transactions run at READ COMMITTED. All their data statements come after the
listing and the version row is locked until the commit, so the rest of a
transaction is one step; two transactions still overlap between listing and
commit. Each commit moves the global version, and the version of each listed
object, by one; keys of cache rows use the object's.

### VisibilityFreshness

Adds one history variable, `past`: what the moments of a request had in common
(standing entitlement, rules in force that do not compile), what was seen at any of
them (rules in force, enabled cones, assigned cones), and whether its own read of the
version failed (`blind`). It restricts no step. This is the
abstract promise of an evaluation: an answer lies between what stood throughout
and what was in force at some moment.

### VisibilityDecision

The decision itself: which assignments apply (`Applies`), the field list
(`CompiledFields`, the intersection of the allowed lists by path prefix, then
the denied ones), the predicate (`CompiledPredicate`), the outcome, and its
conversion to and from a cache row (`Stored`, `CachedEvaluation`). A predicate
is the set of records it selects; a field path is a sequence of names; an empty
list and no list become the same value in a row, as in the code. `Guide*` are
reference definitions written from `docs/visibility-cones-guide.md` without
looking at how the code computes them. `SaveAgain` reorders the rules as a save
does (the code orders by `updatedAt`), because the intersection depends on it.

### ConfigCache

An action is the code from one await to the next. `load[l]` is a promise with
what it has read; `inFlight` and `cache` are the two maps; `admin[a]` is the
identifier written and not yet evicted. A configuration takes `Parts`
statements (1 for a template, several for an entity), each with its own view of
the committed rows; only the first needs the record to be there, so a deletion in the
middle leaves a partial configuration, which is returned and cached. `Finish` stores the result, runs the `finally` callback
(which removes whatever the map holds for the identifier) and resumes callers.
`Restart` keeps the tables only.

### AclConfig

`stored` is the configuration in the tables, `acl` the one in memory, `snap[p]`
what a process has read. An operation goes through the stages of the code:
load the catalogue, load the rest, check the identifier against discovery,
edit and commit (one action per operation), reload in two reads, assign; entity
and template operations continue with their source and a synchronisation.
`Valid(s, place)` is `validateSnapshotConsistency`, which depends on where a
permission stands in the list (`place`). `Fail` is an error or a rejection at
any await, `Restart` a new process. History variables (`raced`, `behind`,
`decided`, `calm`, defined at their declaration) serve the properties.

### DataRequests and PagedResult

| model | code |
|---|---|
| `GetEntityList` … `DeleteEntityRecord` | the entry points of `EntitiesService` and `ReportsService.runReport` |
| `Sweep`, `Access`, `Deny` | `deleteExpiredCursors`; configuration, `authorizeObjectAccess`, `ensureVisibleFields`; the log row before a refusal |
| `ReadCursor`, `DropExpired`, `Refuse` | `readCursor`, `assertCursorMatches`, the exception filter |
| `Intent`, `Call`, `Complete`, `RecordVisibility`, `Failure`, `FailureVisibility` | `executeWithAudit`, try and catch, one await each |
| `Paginate`, `Mint` | the loop of `materializeCursorPage`, `createCursor` |
| `Decision` … `Unwritten` | the scope query, the payload, intent, call and completion of a write |
| `Crash` | the process dies: only what was stored stays |

A policy version stands for everything the decision depends on; `Visible` gives
the records it selects and `Results` the order in which Salesforce returns them.
A cursor's locator is the sequence of rows it still stands for. A call that fails
may have had its effect. `PagedResult` is the abstract specification: requests
claim rows, are handed their first page, and leave the rest to a new cursor, which
means the same for as long as it exists. `DataRequests` implements it under the
mapping `Pages` at its end: a cursor stands for its rows followed by those of its
locator, and a request claims what it has fetched followed by the rest.

### MetadataDeploy

`rows` are the tables, `memory` what the process has of entities, templates and
access rules, `policy` the cached policy per object. `Preview` takes the
fingerprint, `DeployPackage` compares it once, and `Turn` gives the order of
`applyDeployableEntries`. The look-up of a rule or assignment and its upsert are
two steps, the replacement of the access rules three, and the invalidation of the
policies (list, bump) comes last. `Edit` is another administrator with a correct
invalidation; `Evaluate` and `ReadConfig` are requests that fill the caches;
`Fail` and `Crash` leave a deployment half done. History: `touched` (what others
wrote since the fingerprint was checked) and `owed` (objects a failed or overtaken
deployment left behind).

### Sharing

Rows of folders, reports and dashboards with their owner, mode and grants; the
blocks of the home page. A request passes its checks (one step, with the rows it
read remembered), opens its transaction, commits and answers; between two of
these every other request may act. `CanAccessReport` and `CanUseReport` are the
two copies of the reports' policy, `Envelope` and `Compatible` the check that a
dashboard stays within its report. `kept` in `Replace` is what READ COMMITTED
leaves of an overlapping replacement. History: `stale`, `overtaken`, `raced`,
`loose`, `orphaned`, `late`.

### Accounts

`setup`, `granted` are the portal's tables; `identity`, `connector` belong to the
platform and are seen through calls that may fail before or after their effect.
`AssertPending` … `SaveCompletedSetup` are the awaits of `completeSetup`;
`CheckPassword` … `LoginFailed` those of a login, `ResolveSession`, `ReadGrants`,
`ReadAdminEmail`, `CheckAcl` the guards, and the rest the administration of
credentials. `log[c]` is what the request has left in the security and audit logs.
"denied" stands for 401, 403 or the error that kept a client out; an identity's
email stands for its id. `Remember` keeps what happened since a request began, and in
`had` what provisioning last read of the credentials it is about to write.

### ModuleWorkspace

One page of `ReportRuntimeWorkspace` or `DashboardRuntimeWorkspace` (`kind`; the
two differ in what a failed run leaves). `route` is what is shown, `target` where
a navigation will lead; `Commit` is the render of the new route with its effects.
`loads`, `runs`, `refreshes` are the requests under way, answered in any order, the
first with their `cancelled` flag. `RunEffect` starts a run when what it depends on
changes. `Write`, `WriteAnswer`, `RefreshAnswer` and `Finish` are a save, creation
or deletion through to its navigation. Going to another page of rows, changing a
filter and running again are one action; the inside of the dialogs is left out.

### EntityPages

One of the two pages below is open in a behaviour: they share the browser (EntityPage)
and the server's answers, and no state of one outlives the other, so a behaviour of
EntityPages is one of EntityList or one of EntityRecord, with the variables of the
other None. Its properties are those of the page that is open.

### EntityList

A list, or a related list: `url` is its route with query (view and search together)
and cursor, `target` where a navigation leads. `Open` is a new instance of the page,
`Renew` the same one with other parameters; the index of `recoveryKeys` numbers the
instances, so that an answer finds its own or none. `Recover` is the answer of a
refused cursor the first time, `GiveUp` an error, a second refusal included. A cursor
carries what it was made for and an `epoch`, which moves when cursors expire.
`Back` is the browser's history. History variables: `behind` (an answer used after
that of a later request), `hasty` (the user acted while a navigation was under way),
`astray` (a step that leaves the cursors kept apart from the way taken), `pulled`
(moved by a late answer), `returned`, `wanted` (where the user asked to be).

### EntityRecord

The two components of a record, detail and form. `instance` numbers their mounts; a
component lives on when only the record of its route changes (`Renew`). `shown` is the
last answer used, a record with its version; the server's answer holds any version
there since it was asked. A write that fails for the page may have reached the server,
its answer then lost (`MayHaveReached`). `StatusSaved` continues with a load for the record the
update was made for, also if the page has turned to another one. Values typed into
the form are not told apart: what matters is whose values they were.

### BrowserSession

One tab: `setup`, `user`, `bootstrapping` of the outer providers, `loaded`, `data`
and `load` of the two that ask for routes and apps (`loadedUserSub`, whose data, the
request), `persisted` and `stored` for the selection. `Render` is what guards and
effects make of a change: the redirection, then which requests are kept, cancelled or
sent, then what is stored. The page of login leads a signed-in user to any place: to
where a guard sent the visitor from, now or earlier in the tab, or home. A request carries the cookie the browser has when it is
sent. `parted` marks what the code cannot see or does not order: a cookie changed
in another tab, a session that could not be read, a login sent during the restore.


## 3. The runs

Every property of a passing run has a mutant in `PROJECT.json`: a plausible bug in a
named definition under which the same run fails.

| run | states | what it asks, and shows |
|---|---|---|
| visibility | 1.84M | one administrator, two evaluations or previews, dated assignments, versions that cannot be read: both caches agree with the tables under the current version (`CachesCoherent`), the answer of an evaluation that has read the version lies between what stood throughout the request and what was in force at some moment of it, and none is given while one rule that does not compile stood throughout (`AnswersTheRequest`), a request that loses the race to store a definition fails only when the policy changed (`FailureMeansPolicyChanged`) |
| visibility_decision | 199K | 2880 small policies × 4 sessions: no field and no record beyond the guide (`WithinGuide`), and a cached answer is the computed one for its key, with one exception (section 6) (`CachedAnswerAgrees`) |
| config_cache | 192K | two identifiers, two-statement loads with changes and deletions between the statements, two administrators, restarts: stale or partial entries only by a race (`CachedIsCurrent`), every waiting call is answered (`EveryCallAnswered`) |
| acl_config | 6.13M | two administrators and the synchronisation, three operations of every kind, torn loads, failures, restarts: what is stored can be loaded, or can be once one permission is deleted (`OneDeletionAway`), the memory is current unless a race or failure explains it (`StaleOnlyByRace`), undecided templates stay closed (`ClosedUntilDecided`), and an undisturbed operation ends with the resources and contact permissions it should (`UndisturbedEffects`) |
| data_requests | 2.03M | three requests of two clients, pages of four rows in batches, cursors that expire, a policy change, one fault or crash: rows and writes of one policy (`WithinPolicy`), a complete and true trail (`Audited`) that changes once at most (`TrailIsFinal`), and the refinement of PagedResult (`PagesInOrder`) |
| metadata_deploy | 1.27M | two deployments of a package that moves a rule and an assignment, another administrator, failures and crashes: what is overwritten was previewed (`OverwritesWhatWasPreviewed`), stale policies are explained (`StaleOnlyAfterFailure`), a deployment that succeeded is served (`DeployedIsServed`) |
| sharing | 207K | three starting points, two requests of three users in every interleaving: no dashboard beyond its report (`DashboardWithinReport`), no grant beyond the envelope (`WithinEnvelope`), grants that fit modes (`GrantsFitModes`), a home page that resolves (`HomeResolves`) |
| accounts | 6.80M | a portal to install and three installed ones, two contacts with one email, three requests of two clients, a change of grants, one fault: setups are whole (`CompletedOnceAndWhole`), changes are made for administrators (`AdministratorsOnly`), outcomes are on record (`OutcomesAreRecorded`), a credential its contact was last found to have disabled is not enabled unasked (`DisabledStays`) |
| module_workspace | 10.1M | reports or dashboards, a folder and two items, four acts or three and a failure, answers in any order: the page shows its route (`DetailOfRoute`) and is never blank (`NeverBlank`), a save sends its own draft (`SavesOwnDraft`), and once nothing is under way what is on the page is what is stored (`SettlesOnStored`) |
| entity_pages | 2.17M | a list (two lists, two queries, three pages) or the pages of a record (two records and one to be created), five acts, failures, lost answers and expired cursors: rows of the URL (`RowsOfUrl`), cursors of the way taken (`HistoryIsPath`), the user ends where they asked to be or on its first page (`UserGoesThere`); the record of the route with what the user wrote (`RecordOfRoute`), writes to the record that was seen, unless a late answer showed it (`WritesWhatIsSeen`), no button, step or spinner left busy, one save of a form at a time (`BusyHasRequest`) |
| browser_session | 392K | two users, two apps, any initial cookie, selection and route, four acts, two faults: user of the cookie, guards by that user's routes (`UserOfCookie`), nothing left after signing out (`NothingLeft`), the selection held (`SelectionHeld`), waiting ends (`WaitingEnds`) |
| visibility_concurrent_admins | | one administrator edits a cone while another creates its first rule on an object (section 6): TLC finds the trace |

## 4. Bounds, symmetry, deadlock and fairness

**Visibility.** One object, one cone, rule and assignment: each may be created,
switched off, narrowed and deleted, so one identifier passes through every relation.
Two evaluations or previews for the unique violation and for one filling what the
other reads. Versions start at 3 (the policy in service is not new) and reach 4: a
commit during the evaluations, with everything read before or after it. `MaxTime = 1`
and `TTL = 1` make a date pass and a row expire. Initial policies hold a rule that
compiles or one that does not; version reads may fail (`VersionReadMayFail`), and then
count as version 1, which no object has. visibility_concurrent_admins has one object and
no rule at first, two cones, two administrators and versions up to 5, one for each
commit. Rules that move between objects, where a listing can miss the old or the new
one, are in the proofs, which hold for any number of objects.

**Decision.** Paths of length one and two give the prefix cases (equal, above,
below, unrelated); two ALLOW rules and an optional DENY give every order of
intersection; selectors by contact, permission and trait, alone and combined.

**ConfigCache.** `Parts = 2` is the smallest torn read, two loads of one
identifier the smallest load that outlives its eviction, `MaxWrites = 2` the
smallest history with an old, a new and a newer version.

**AclConfig.** Two codes, so that an alias can stand before or after its
permission; one entity, one query template, one custom resource, because the
code treats the three differently; three operations, which allow an overlap and
a third operation that meets its result. Three is a bound on operations only:
synchronisations, reloads, failures and restarts are not counted.

**DataRequests.** Three requests are a first page and two continuations, or a
continuation twice with the same cursor; four rows in pages of two and batches of
one or three make pages shorter than, equal to and longer than a batch; two
contacts and three views, so that a cursor meets the wrong one of each; one
policy change, one fault, an expiry. Single-record requests share nothing with
pages but the policy and come first (`MaxSingles = 1`).

**MetadataDeploy.** Two deployments of one package: a template, an access rule (of
two), a cone, a rule that moves to another object, an assignment that moves to
another cone; one edit by somebody else, which moves the rule too.

**Sharing.** Two grants, an owner of the report, an owner of the dashboard and an
administrator; two of everything else, so that an item moves and a second one is
created. Two requests in flight give each pair in each interleaving; the starting
points hold what a third would have done: a dashboard within its report, one whose
report was narrowed, everything inherited.

**Accounts.** Two emails, one of them that of two contacts, so that one finds no
credential of its own where the other has one; three requests give an
installation that fails, one that completes and a login, or two that overlap and
a third that meets their result; one fault and one change of grants.

**ModuleWorkspace.** `MaxActs = 4` bounds what the user does and what fails, of
which one may fail (`MaxFaults`): enough to open an item, edit or run it, save it
and leave while any answer is under way. A behaviour begins with everything there,
with one of the items still to be created, or with nothing.

**EntityPages.** Three pages of rows are a first, a middle and a last one; five acts open a
list, go two pages on, come back or turn to the other list or query, with an expiry
or failure under way; or open a record, write, leave for the
other one, write there and return; two failures may meet both writes. Loads caused
by acts are not counted. **BrowserSession.** Four acts are a reload, a logout, a
login of somebody else and a navigation; two faults an unreadable session and a
changed cookie. Two apps tell the first from the selected one.

**Symmetry** is declared over evaluations, administrators of the ACL, clients, deployers,
the lists (or the records there at first) and the items of a workspace, which no
definition tells apart; no liveness property is checked in those runs.

**Deadlock** is checked in the visibility runs and in config_cache. In the others
requests are counted and the bound may leave nothing to do: `CHECK_DEADLOCK FALSE`.

**Fairness** is assumed in config_cache: a statement sent to the database is
answered, with a row or an error, and the callbacks of a settled promise run; and
in browser_session: the requests a tab waits for (setup, session, routes, apps) end,
with an answer or an error, as a browser's requests do. Nothing is assumed of
callers, administrators and users. The other runs check safety
only: a request or an operation may be lost at any await.

## 5. The proofs

All proofs are checked to the last leaf. Assumptions: the named ASSUMEs of the
modules (bounds are natural numbers, inputs have their type, `None` is in no
set of values, what is there at the start fits together), which TLC evaluates in
the runs. The type invariants are theorems, or parts of the invariants below, and are
not run. Every safety property of a passing run is a theorem.

| module | theorem | property, for every instance |
|---|---|---|
| VisibilityProofs | SerialCoherence | `SerialAdmins =>` `CachesCoherent` |
| | FreshAnswers | `SerialAdmins =>` `AnswersTheRequest` |
| | FailuresExplained | `FailureMeansPolicyChanged` |
| | GuideKept, CacheAgrees | `WithinGuide`, `CachedAnswerAgrees` |
| | TypeCorrect, DecisionTypeCorrect, NoRowFromTheFuture, RowsAttached, SerialDecisions, FieldsSound, RecordsSound | the type invariants, `NoFutureRows`, `ReferencesExist`, `SettledDecision`, `FieldsWithinGuide`, `RecordsWithinGuide` |
| AclConfigProofs | Repairable, MemoryCurrent, UndecidedClosed, EffectsDone | `OneDeletionAway`, `StaleOnlyByRace`, `ClosedUntilDecided`, `UndisturbedEffects` |
| | TypeCorrect | `TypeOK` |
| | CacheCurrent | `CachedIsCurrent` of ConfigCache |
| | CachesTyped, JoinedLoadsLive | `CacheTypeOK`, `InFlightIsLive` |
| DataRequestsProofs | PolicyKept, AuditedRequests, TrailFinal, PagesKept | `WithinPolicy`, `Audited`, `TrailIsFinal`, `PagesInOrder` |
| | TypeCorrect, OnePolicy, ScopedWrites, OutcomesRecorded, TrailTrue | `TypeOK` and the parts of the first two |
| MetadataDeployProofs | PoliciesCatchUp, PreviewedOverwrites, DeployedServed | `StaleOnlyAfterFailure`, `OverwritesWhatWasPreviewed`, `DeployedIsServed` |
| | TypeCorrect | `TypeOK` |
| SharingProofs | DashboardsWithinReports, EnvelopesKept, GrantsFit, HomeResolved | the four properties of the run |
| | TypeCorrect, LateRefusals | `TypeOK`, `LateRefusalExplained` |
| AccountsProofs | Administrators, OnRecord | `AdministratorsOnly`, `OutcomesAreRecorded` |
| | InstalledOnce | `NotInstalledByHand =>` `CompletedOnceAndWhole` |
| | StaysDisabled | `DisabledStays` |
| | TypeCorrect | `TypeOK` |
| ModuleWorkspaceProofs | OwnDrafts, AlwaysSomething, DetailsOfRoute, Settles | `SavesOwnDraft`, `NeverBlank`, `DetailOfRoute`, `SettlesOnStored` |
| | TypeCorrect | `TypeOK` |
| BrowserProofs | RightUser, NobodyHolds, LastAppOffered | `UserOfCookie`, `NothingLeft`, `SelectionHeld` |
| | ListShowsItsUrl, PreviousLeadsBack, BrowserArrives | `RowsOfUrl`, `HistoryIsPath`, `UserGoesThere` |
| | PageShowsRecord, SeenIsWritten, BusyWhileWaiting | `RecordOfRoute`, `WritesWhatIsSeen`, `BusyHasRequest` |
| | TypeCorrect | `TypeOK` of BrowserSession |

**Visibility, versions.** `TypeInv` adds to the types that versions stay within
the bound. `VersionInv` adds `NoFutureRows` and `RequestsBehind`: the version an
evaluation carries is at most its object's. Whatever is then stored under it is
unreachable as soon as the object's version moves.

**Visibility, coherence.** `DefinitionCacheCoherent` is not inductive: a row is
stored from local variables read several steps before. `CoherenceInv` adds that
an evaluation whose version is still current holds the live selection,
definition and scope (`EvaluationsLive`), that the objects an open transaction
listed cover those whose live definition or scope its commit changes
(`TransactionsCover`), and `ReferencesExist`. The second holds only while
administrators do not overlap: `SerialAdmins` is an assumption of the theorems
and visibility_concurrent_admins is the trace without it. Each commit is one
lemma per table: an object it did not list keeps its live definition.

**Visibility, freshness.** `FreshInv` says at each place of an evaluation what its
local variables have in common with `past` (`Fitting`): the selection was in force at
some moment, the definition and the scope that go with it leave out nothing that stood
throughout. What is found in a cache fits because the cache is coherent under the
version read, and that version was current at a moment of the request; that step needs
`SerialAdmins`. An evaluation whose read of the version failed is `blind`: of its own
answer nothing is said, but the rows it stores must spoil no other's. A rule that does not compile is
never submitted once the policy is in service (`SubmittedCompile`), so a bad rule in
force only ever goes away (`Decays`).

**Decision.** `FreshInv` says a computed answer is `ResolvedEvaluation` of its
session under the present rules or the invalid one, `RowInv` the same of each cache
row. The lemmas are about `CompiledFields`: what survives the intersection is below
an entry of every list, because being below is reflexive and transitive, and clear
of every denied path. An applicable selector is one the guide accepts, because
every part of it is compared.

**Caches.** `LoadsCurrent`: a load that did not race has read, in every
statement, the row that is stored now. With it `CachedIsCurrent` is inductive.

**ACL.** `TypeInv` adds `Busy` (a process at work has an operation). For `Repairable`,
`RepairInv` says that what is stored was accepted in some order of the permissions that
differs from the one it is read back in by one of them at most (`Placed`): every commit
is checked so, whatever snapshot it started from, and a synchronisation replaces the
resources only. Without that one permission both orders are the same (`PlacedRepairs`).
`CurrencyInv` adds that a process that reloads without a race holds what is
stored (`ReadsCurrent`) and that a reload is under way whenever memory and
tables differ without such an excuse (`Awaited`). `ClosedInv` says undecided
templates are closed in the tables, in the memory and in every snapshot a process
holds: the last is needed because an edit writes back what it read long before.
One lemma, `EditStep`, states for every edit what its commit keeps.
`CalmInv`, for `UndisturbedEffects`: as long as nothing overlapped, raced or failed, one
process works at a time (`Alone`), has read what is stored (`HasRead`), and the
resources are aligned with the sources wherever no synchronisation is due (`Aligned`);
what a synchronisation leaves present is what it discovered (`MergePresent`).

**Data requests.** `Base` adds to the types where a request may stand
(`Places`). `Trails` says of each row of a trail what its place allows: all but
the last are settled, and the last one matches the call under way. `Scoped` says
that what a client or a cursor holds is selected by the policy of its scope: a
cursor gives its rows only to a request of the same scope (`Matches`), which is
why the fingerprint must name the policy version.

**Pages.** `PagesKept` proves the refinement step by step: every action of DataRequests
maps to an action of PagedResult or to none of its. `Stands`, `Claims` and `Handed` are
what PagedResult sees of cursors, requests and clients; the invariant `Paging` says that
a cursor is created only when rows are left, that the page of a request that goes on from
a cursor is full by then, that a first batch is empty only if the result is, and that
tokens not yet minted name no cursor. The work is in lemmas on sequences: fetching a
batch, then cutting a page off it, is cutting the page off the whole.

**Deploys.** `Plans` ties what a deployment has done to its place in the order.
`Covered` is the invariant behind `StaleOnlyAfterFailure`: an object whose cached
policy is stale is owed, or a running deployment has noted it, directly or by one
of its cones (`Covers`); the cones are listed at the end, so the invariant speaks of
the rules as they are then, and each step keeps what was covered (`Grows`). `Fresh`
says that what is still to be written is as previewed, or touched. `Served` follows a
deployment item by item: what it has written is in the tables unless touched since, and
in memory unless a reload is still to come (`MemoryOK`); with `Covered` that is
`DeployedIsServed`.

**Sharing.** A request whose check is not stale still has its check true
(`Checks`, with `Right`): whatever it read is unchanged, so it may be used at the
commit. `Fresh` is about ids being given out, `Answers` about what a committed
change leaves its author. `WithinEnvelope` follows for dashboards not in `loose`
because the checks of the dashboards' side re-establish it and only a narrowing of
the reports' side breaks it, which marks them. `DashboardWithinReport` needs no
history: it is a fact about the two policies on any tables.

**Accounts.** `Inv` has per client: its request goes where requests of its kind go
(`Routed`), its place says what is on record by now (`Recorded`), which identity it will
write and for whom (`Written`), and whether its user was an administrator at some moment
or throughout (`Entitled`). `Installation` says how far each completion is and that a
portal not installed has no administrators; it holds if none was granted by hand
(`NotInstalledByHand`), as in the portals the run starts from; section 6 says what happens
without. `Asleep` says that what provisioning found disabled, and is not asked to enable,
will be written disabled; the other steps keep it, since what was read and what will be
written belong to the request.

**Workspaces.** `Inv` has: each write is an act of the user (`Counted`), an action waits
for one list at most (`Waited`), the one answer that will be used is of the route
(`Awaited`), the draft belongs to the item shown (`Edited`), and a place is waited
for, failed, or there (`Settled`). Cancelled answers are what makes `Awaited`
inductive; `Settled` is `NeverBlank` told of the requests. `Settling` adds, for `SettlesOnStored`,
that what is on the page or under way is of a version that was stored (`Stored`), that a
run waits for its effect, is under way or has left its rows (`RunsMeet`), and, as long as
nothing failed, that the item and the folders are as saved last or will be loaded again
(`Watched`, `Listed`).

**Session.** The invariant has: which requests may be under way at which stage of the
setup (`Underway`), where a user can be (`Placed`), for whom a source is asked (`Asked`),
what is empty when (`Emptied`), what is known of the cookie (`Known`, `Owned`), and the
selection (`Selected`). A render is one lemma (`RenderStep`), cited by every action that
ends with one.

**Entity pages.** `PagesInv` is `ListInv` or `RecordInv`, after the page that is open.
Requests are a sequence in the order they were asked, so "the last one of this page"
can be said: `ListCurrent` and `RecordCurrent` state that the last live request is late or
of the URL, and that once none is left the page shows what it should, or is about to
turn. That the requests answered late come before all others (`late` is closed downwards)
is what makes it inductive. `Pathed` ties the cursors kept, and those a request will
leave, to the pages before the one shown; `Going` says where a navigation leads; `Dated`
that no cursor is of an epoch to come, `Single` that a page reached by a cursor is asked
for alone, and `Recovered` that after a recovery every cursor of the page is newer than
the one that had expired: with these a second refusal of the same cursor cannot come
unless the user went back to it (`NoLoop`). For a record, `Sent` says which component sends what, `Held` that a form
with a save under way has its button disabled, `Seen` that without a spinner the values
shown are of the record of the route.

**Only model-checked**: `EveryCallAnswered` and `WaitingEnds`. Liveness is out of the
prover's reach, as are ENABLED and induction over data. `DefinitionCacheCoherent` without
`SerialAdmins` is false, and is the run that TLC refutes.
No module declares a RECURSIVE operator.

## 6. Disagreements found

One is a run that TLC refutes, with the quoted documentation in `PROJECT.json`.

* **Overlapping administrators** (visibility_concurrent_admins). One edits a
  cone that has no rule yet, and has listed no object; the other creates the cone's
  first rule on an object and commits. The edit commits last: the object's version does
  not move for it, and a definition cached between the two commits stays.
  `docs/visibility-cones-guide.md:259-262` asks for a bump of every object
  involved, atomically.

Seen while modelling, with no run of their own.

Visibility:

* A failed version read is taken for version 1. The caches under the current
  version stay coherent, and evaluations that read the version are not affected; but a
  request that read version 1 can store its definition after a commit that deleted the
  object's rows, and the next one whose read fails is answered from it.
  `AnswersTheRequest` exempts these (`blind`).
* Cones and rules are read by two statements: an object whose policy was invalid at
  every moment may be answered, when the cones were read before one was switched on and
  the rules after another bad one went.
* `validTo` is compared when the assignments are read; a scope row lives 300 s and
  is not compared again. `docs/visibility-cones-guide.md:348` says an expired
  assignment does not apply, `:274` within 120 s.
* An empty field set is stored as JSON null and read back as "no list": DENY /
  `FIELDSET_EMPTY` on the first request, ALLOW on the second (`:360`).
  `CachedAnswerAgrees` names this as its one exception.
* An entry of the first allowed list that lies above an entry of another one is
  dropped rather than narrowed, so the field list depends on which rule was saved
  last. It can be smaller than the guide's (`:162`), never larger.
* One rule that does not compile withdraws the object's whole policy, where the
  guide (`:169-170, :345`) drops the rule and keeps the others.
* `ensureVisibleFields` answers 403 and writes no log row
  (`docs/security-model.md:120`).

ACL, configuration and deploys:

* A new permission may take a code that is already an alias: an alias is compared
  with the codes that stand before it in the list, a new permission stands last,
  but is sorted on the next load. The reload of the same request fails and the
  server does not start again (`docs/acl-resources-map.md:22, :64`). While it still
  runs an administrator can delete the permission, since administrators load what is
  stored without that check (`OneDeletionAway`).
* An entity deleted while it is being loaded is returned, and cached until it is
  evicted, without the sections that were read after the deletion.
* Creating an entity takes four commits of their own, and provisions its resource
  as `authenticated`; `docs/entity-config-guide.md:28` says disabled.
* A deploy looks the contact of an assignment up again and throws the blockers away: an
  assignment that also names a permission is stored for everybody who has it, where
  `docs/metadata-package-guide.md:49` says such a deploy is refused.
* Permissions given to a contact are checked against a snapshot and written later.
* A caller that joins a synchronisation which had already discovered leaves
  without a resource for what it wrote; the next synchronisation repairs it.
* A load that read a template before its deletion stores it after the eviction, in
  a cache with no expiry; `docs/query-template-guide.md:23` promises 404.
* After an eviction, a finished load removes its successor from the map, so two
  loads of one identifier may run where one was meant to be shared.
* The retry of a deploy that failed between a moved rule and the invalidation sees
  the rule in its new place and never invalidates the old one; and a rule somebody
  moves between a deploy's look-up and its upsert leaves the object in between stale
  (`docs/visibility-cones-guide.md:352, :390`).

Data requests:

* Two requests that meet the same expired cursor both delete it: the second gets a
  500 and no security event, where `docs/entity-config-guide.md:129` and
  `docs/solution.md:237` promise the answer of an invalid cursor
  (`entities/services/entity-query-cursor.service.ts:119`, and the same in reports).
* A page served only from the rows a cursor kept leaves no audit row.

Reports, dashboards, home page:

* Deleting a dashboard folder deletes the dashboards in it without looking at the
  home page, whose blocks then name nothing.
* Overlapping replacements of shares leave the union of both.
* Replacing the shares of a dashboard commits and then answers 403 when its author
  can no longer see the report.

Setup and accounts:

* Two requests past `assertPending` both complete the setup: the second overwrites
  the record and the connector and identity may be mixed (`setup.service.ts:155`).
* Two contacts with one email share an identity. An upsert for one of them finds no
  credential of its own, takes `enabled` for TRUE, and enables the one that was disabled
  for the other. `DisabledStays` names this as an exception (`had[c] = {}`).
* Where PORTAL_ADMIN was granted before the portal is installed, an administrator could
  disable or delete the installer's identity before the completion. `InstalledOnce`
  assumes that nobody was granted it (`NotInstalledByHand`).
* An update of a credential without `enabled` may enable one that was disabled
  after it was last read (`local-credential-provisioning.service.ts:27-28`), the other
  exception of `DisabledStays`, and the audit
  row carries an `enabled` read before the write
  (`local-credential-admin.service.ts:41, :57`).
* `docs/architecture-overview.md:81` and `docs/solution.md:273` say permissions
  change only with a new session; the code resolves them at each request.
* `getSession` resolves the session once more, without a SESSION_INVALID row.

Pages of the frontend:

* Leaving an item that is still loading for the list leaves its spinner on.
* Rows of an earlier run, or of another report, replace later ones when answers
  overtake each other; a save while the user has switched to running shows rows of
  the old definition; a link from one running item to another runs the second twice.
* A late save navigates the user back to what was saved; before that, what was saved
  may be shown under another URL.
* The dialog for a new item shares the draft of the editor beneath it.
* The list asked for when the page opened may replace the one after an action, and a
  saved folder is not shown again on its own page.
* Lists of entities: deleting a record on the first page does not load it again, and a
  failed deletion is not reported. A link to the list that is open, or the browser's
  history, leaves the cursors of other pages behind "previous"; going back to a dead
  cursor that was recovered from shows an error. A late recovery or deletion moves
  the user from where they went meanwhile.
* The page of details keeps the title and the buttons of the old record while another
  one loads; its button deletes the record of the URL. An earlier answer that comes
  last stands under the later URL, and in a form its values may be saved there.
* A failed save hides the form behind the error and loses the draft. Between the
  answer of a save and the navigation the button is enabled, and a creation whose answer
  was lost may be sent again: either way a record may be created twice.
* On the first render after a reload the list of apps is empty, no selection can be
  computed, and the effect that stores the selection clears it: the first app is offered
  and stored. `docs/architecture-overview.md:106` says the selection is kept in
  localStorage.
* A login sent while the session is being restored is undone by the restore's answer;
  between two users without a logout the apps of the first are shown until those of
  the second arrive. When the list of apps cannot be loaded the selection is cleared.
* A test of the wizard of the setup that answers late moves to the last step with
  passwords that were edited and not confirmed since.

## 7. Not modelled

* **One process.** The in-memory caches, the ACL copy and the coalesced
  synchronisation are those of one Node.js process; several processes over one
  database would keep separate ones and nothing in the code connects them.
* **Text**: predicates, SOQL, normalisation of inputs, ZIP and YAML, wording of
  audit entries and errors. Normalisation decides which rows exist, so inputs are
  normalised.
* **Two overlapping ACL commits** are one after the other (each rewrites every
  row, so one waits or fails). A load is two statements, catalogue and rest,
  the smallest number that tears it; the code issues more. `Restart` of AclConfig
  is possible only when the tables load (otherwise the server stays down). The
  assignments of resources to apps, rewritten in the same transaction, decide
  nothing the properties speak of.
* **Data requests**: forms and lookups use the same audited query and are not
  actions of their own; grouping of report rows and the suggestions of the editors
  are computed from one answer.
* **Deploys**: the final list of contact permissions, the blockers and the export.
  The reads of one preview are a step.
* **Sharing**: the reads of one check are a step; lists of a workspace and the runs
  of widgets (a report's query again, aggregated) are left out; so is the deletion of
  an app, which takes its home page along.
* **Accounts**: OIDC and its providers, the CSRF token, the test of a connection, the
  encryption of secrets; the login rate limiter is provided and used by no one.
* **The frontend** besides the workspaces, the entity pages and the session: editors,
  widgets, builders and administration pages are most of its lines. They hold the
  state of forms in one component, with one request at a time, over rules the backend
  enforces; a model of them would repeat `useState` assignments. Of the entity pages
  the inputs of the form, lookups and panels of related lists are left out; of the
  session, login through a provider, the menus and the wizard, and what the page of login
  keeps in sessionStorage of where to return (`LoginPage.tsx:14, :36-37, :98-100`): its
  redirection may lead to any place, and `NothingLeft` does not speak of it. Another tab changes
  the cookie, and not the selection both share.
* **Navigation, global search, health, DTOs, normalisers, controllers, route
  catalogue, SOQL builder, audit reading**: stateless reads, text, validation and
  wiring. These and the frontend are why the map covers a tenth of the lines.

## 8. Plan

Done, in this order: VisibilityPolicy, VisibilityFreshness, VisibilityDecision,
ConfigCache, AclConfig; then DataRequests with PagedResult, MetadataDeploy, Sharing,
Accounts, ModuleWorkspace; then EntityList, EntityRecord, BrowserSession; the proofs of
section 5, with which every safety property of a passing run is a theorem.

| next | what it would add |
|---|---|
| The read-through cache as an atomic register of bounded staleness, implemented by ConfigCache | a second refinement |
| `DefinitionCacheCoherent` under a repair: the listing inside the locked part of the transaction | a theorem without `SerialAdmins` for the repaired code |
| Widgets of a dashboard | one query each, with partial failure, over DataRequests |

## 9. How to run

```
tlc -workers 2 -config Visibility.cfg MCVisibilityFreshness.tla
tlapm VisibilityProofs.tla
```

`PROJECT.json` names the module and configuration of every run, its properties,
the mutants, and for every definition the lines of the source it models. The
longest run takes under three minutes on two cores, the longest module of proofs a few
minutes.
