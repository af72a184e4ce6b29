----------------------------- MODULE ConfigCache -----------------------------
(***************************************************************************)
(* The in-memory caches of query templates and entity configurations       *)
(* (QueryTemplateRepository, EntityConfigRepository): requests share one   *)
(* load per identifier, administrators write the tables and then evict.    *)
(*                                                                         *)
(* Between two awaits nothing else runs, so an action is the code from one *)
(* await to the next.  A configuration is read in Parts statements: one    *)
(* for a query template; for an entity the record, then its sections,      *)
(* which are not read in one snapshot.                                     *)
(***************************************************************************)
EXTENDS Naturals, FiniteSets, Sequences

CONSTANTS
    Ids,          \* templates or entities
    Requests,     \* concurrent getTemplate / getEntityConfig calls
    Loads,        \* loads under way, at most
    Editors,       \* concurrent administrators
    Parts,        \* statements of one load
    MaxWrites,    \* bound: commits of one behaviour
    Absent

Version == 1 .. MaxWrites

\* seen: what each statement returned; a section read after the record was deleted is
\* Absent.  raced is history: whether the table changed since the first read.
Read == Version \cup {Absent}
Load == [id : Ids, seen : Seq(Read), state : {"reading", "read", "failed"},
         raced : BOOLEAN]
Cached == [value : Seq(Read), raced : BOOLEAN]
Request == [state : {"idle", "done", "error"}, load : {Absent}]
           \cup [state : {"waiting"}, load : Loads]

ASSUME ConfigCacheAssumption ==
    /\ Parts \in Nat \ {0}
    /\ MaxWrites \in Nat
    /\ Absent \notin Nat
    /\ Absent \notin Loads
    /\ Absent \notin Ids
    /\ Absent \notin Load /\ Absent \notin Cached

VARIABLES
    table,       \* committed version of each configuration
    cache,       \* templateCache / entityCache: the versions of the parts
    inFlight,    \* inFlightLoads
    load,        \* the loads: what they read so far
    request,     \* the calls: the load each waits for, or its answer
    admin,       \* the identifier an administrator has written and not evicted
    writes       \* commits so far

cacheVars == <<table, cache, inFlight, load, request, admin, writes>>

-----------------------------------------------------------------------------
CacheInit ==
    /\ table = [i \in Ids |-> Absent]
    /\ cache = [i \in Ids |-> Absent]
    /\ inFlight = [i \in Ids |-> Absent]
    /\ load = [l \in Loads |-> Absent]
    /\ request = [r \in Requests |-> [state |-> "idle", load |-> Absent]]
    /\ admin = [a \in Editors |-> Absent]
    /\ writes = 0

Reply(r, state) == request' = [request EXCEPT ![r] = [state |-> state, load |-> Absent]]
Wait(r, l) == request' = [request EXCEPT ![r] = [state |-> "waiting", load |-> l]]

\* The call answers from the cache, joins the load in flight, or begins one.
GetCached(r, i) ==
    /\ request[r].state = "idle"
    /\ cache[i] # Absent
    /\ Reply(r, "done")
    /\ UNCHANGED <<table, cache, inFlight, load, admin, writes>>

Join(r, i) ==
    /\ request[r].state = "idle"
    /\ cache[i] = Absent /\ inFlight[i] # Absent
    /\ Wait(r, inFlight[i])
    /\ UNCHANGED <<table, cache, inFlight, load, admin, writes>>

BeginLoad(r, i) ==
    /\ request[r].state = "idle"
    /\ cache[i] = Absent /\ inFlight[i] = Absent
    /\ \E l \in Loads :
        /\ load[l] = Absent
        /\ load' = [load EXCEPT ![l] = [id |-> i, seen |-> <<>>, state |-> "reading",
                                       raced |-> FALSE]]
        /\ inFlight' = [inFlight EXCEPT ![i] = l]
        /\ Wait(r, l)
    /\ UNCHANGED <<table, cache, admin, writes>>

Leave(r) ==
    /\ request[r].state \in {"done", "error"}
    /\ Reply(r, "idle")
    /\ UNCHANGED <<table, cache, inFlight, load, admin, writes>>

\* The database executes the next statement of the load.  Only the first, for the
\* record itself, needs a row: a configuration whose sections are gone by then is one
\* without them, and is returned and cached.
ReadPart(l) ==
    /\ load[l] # Absent /\ load[l].state = "reading"
    /\ load[l].seen = <<>> => table[load[l].id] # Absent
    /\ LET seen == Append(load[l].seen, table[load[l].id])
       IN  load' = [load EXCEPT ![l].seen = seen,
                               ![l].state = IF Len(seen) < Parts THEN "reading" ELSE "read"]
    /\ UNCHANGED <<table, cache, inFlight, request, admin, writes>>

\* The record is missing, a part is refused (a list without views, a detail without
\* sections: they may belong to two versions, or be gone), or the statement fails.
FailLoad(l) ==
    /\ load[l] # Absent /\ load[l].state = "reading"
    /\ load' = [load EXCEPT ![l].state = "failed"]
    /\ UNCHANGED <<table, cache, inFlight, request, admin, writes>>

Resume(l) ==
    request' = [r \in Requests |->
                    IF request[r].load # l THEN request[r]
                    ELSE [state |-> IF load[l].state = "read" THEN "done" ELSE "error",
                          load |-> Absent]]

\* A failed load leaves the cache as it is.
Store(l) ==
    cache' = IF load[l].state = "failed" THEN cache
             ELSE [cache EXCEPT ![load[l].id] = [value |-> load[l].seen,
                                                 raced |-> load[l].raced]]


\* The answer arrives: the result goes into the cache, the finally callback takes
\* out whatever load the map holds for the identifier, and the callers resume.
Finish(l) ==
    /\ load[l] # Absent /\ load[l].state # "reading"
    /\ Store(l)
    /\ inFlight' = [inFlight EXCEPT ![load[l].id] = Absent]
    /\ Resume(l)
    /\ load' = [load EXCEPT ![l] = Absent]
    /\ UNCHANGED <<table, admin, writes>>

Outdated(i) ==
    [l \in Loads |-> IF load[l] # Absent /\ load[l].id = i /\ load[l].seen # <<>>
                     THEN [load[l] EXCEPT !.raced = TRUE] ELSE load[l]]

\* The upsert commits; the caller resumes later and evicts.
Upsert(a, i) ==
    /\ admin[a] = Absent
    /\ writes < MaxWrites
    /\ writes' = writes + 1
    /\ table' = [table EXCEPT ![i] = writes + 1]
    /\ load' = Outdated(i)
    /\ admin' = [admin EXCEPT ![a] = i]
    /\ UNCHANGED <<cache, inFlight, request>>

Delete(a, i) ==
    /\ admin[a] = Absent
    /\ table[i] # Absent
    /\ table' = [table EXCEPT ![i] = Absent]
    /\ load' = Outdated(i)
    /\ admin' = [admin EXCEPT ![a] = i]
    /\ UNCHANGED <<cache, inFlight, request, writes>>

\* Mutant: the map of loads is cleared, the cache is not.
EvictLoadOnly(a) ==
    /\ admin[a] # Absent
    /\ inFlight' = [inFlight EXCEPT ![admin[a]] = Absent]
    /\ admin' = [admin EXCEPT ![a] = Absent]
    /\ UNCHANGED <<table, cache, load, request, writes>>

\* Mutant: the loads under way are dropped with their callers.
EvictAndDrop(a) ==
    /\ admin[a] # Absent
    /\ cache' = [cache EXCEPT ![admin[a]] = Absent]
    /\ inFlight' = [inFlight EXCEPT ![admin[a]] = Absent]
    /\ load' = [l \in Loads |-> IF load[l] # Absent /\ load[l].id = admin[a]
                                THEN Absent ELSE load[l]]
    /\ admin' = [admin EXCEPT ![a] = Absent]
    /\ UNCHANGED <<table, request, writes>>

\* evictTemplate, evictEntityConfig: a load under way is forgotten, not stopped.
Evict(a) ==
    /\ admin[a] # Absent
    /\ cache' = [cache EXCEPT ![admin[a]] = Absent]
    /\ inFlight' = [inFlight EXCEPT ![admin[a]] = Absent]
    /\ admin' = [admin EXCEPT ![a] = Absent]
    /\ UNCHANGED <<table, load, request, writes>>

\* The process restarts: what is committed stays.
RestartCache ==
    /\ cache' = [i \in Ids |-> Absent]
    /\ inFlight' = [i \in Ids |-> Absent]
    /\ load' = [l \in Loads |-> Absent]
    /\ request' = [r \in Requests |-> [state |-> "idle", load |-> Absent]]
    /\ admin' = [a \in Editors |-> Absent]
    /\ UNCHANGED <<table, writes>>

CacheNext ==
    \/ \E r \in Requests, i \in Ids : GetCached(r, i) \/ Join(r, i) \/ BeginLoad(r, i)
    \/ \E r \in Requests : Leave(r)
    \/ \E l \in Loads : ReadPart(l) \/ FailLoad(l) \/ Finish(l)
    \/ \E a \in Editors, i \in Ids : Upsert(a, i) \/ Delete(a, i)
    \/ \E a \in Editors : Evict(a)
    \/ RestartCache

CacheSpec == CacheInit /\ [][CacheNext]_cacheVars

\* The database answers every statement, with a row or an error, and callbacks run.
FairSpec ==
    /\ CacheSpec
    /\ \A l \in Loads : WF_cacheVars(ReadPart(l) \/ FailLoad(l)) /\ WF_cacheVars(Finish(l))

-----------------------------------------------------------------------------
(* Properties. *)

CacheTypeOK ==
    /\ table \in [Ids -> Version \cup {Absent}]
    /\ cache \in [Ids -> Cached \cup {Absent}]
    /\ inFlight \in [Ids -> Loads \cup {Absent}]
    /\ load \in [Loads -> Load \cup {Absent}]
    /\ request \in [Requests -> Request]
    /\ admin \in [Editors -> Ids \cup {Absent}]
    /\ writes \in 0 .. MaxWrites

\* What the cache serves is what the table holds, all parts of one version, unless
\* an eviction is on its way or the table changed while it was read
\* (upsertTemplate, deleteTemplate, upsertEntityConfig, deleteEntityConfig).
CachedIsCurrent ==
    \A i \in Ids :
        cache[i] # Absent /\ ~cache[i].raced /\ (\A a \in Editors : admin[a] # i) =>
            \A p \in DOMAIN cache[i].value : cache[i].value[p] = table[i]

\* The map never hands out a load that has ended: a load that failed is not
\* remembered, and a caller that joins will be answered (getTemplate).
InFlightIsLive ==
    \A i \in Ids : inFlight[i] # Absent =>
        load[inFlight[i]] # Absent /\ load[inFlight[i]].id = i

\* A call that waits for a load is answered, whatever is evicted meanwhile.
EveryCallAnswered ==
    \A r \in Requests : request[r].state = "waiting" ~> request[r].state # "waiting"
=============================================================================
