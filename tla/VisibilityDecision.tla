-------------------------- MODULE VisibilityDecision --------------------------
(***************************************************************************)
(* What one policy says to one subject: assignments choose cones, cones    *)
(* bring rules, rules make a predicate and a field list, and the result is *)
(* kept in the scope cache and turned back into an answer (resolveScope,   *)
(* buildEvaluationFromResolvedScope, upsertUserScopeCache,                 *)
(* buildEvaluationFromCachedScope, applyFieldVisibility).                  *)
(*                                                                         *)
(* A predicate is the set of records it selects and a field path is a      *)
(* sequence of names, so that Account covers Account.Name.                 *)
(***************************************************************************)
EXTENDS Naturals, Sequences, VisibilityTerms

CONSTANTS
    Records,        \* records of the object
    Names, Paths,   \* names, and the field paths made of them
    Subjects, Permissions, Traits,    \* what assignments select on
    Policies,       \* policies in service: ordered rules, selectors of each cone
    Contexts        \* who asks

Rule == [cone : Cones, effect : {"ALLOW", "DENY"}, valid : BOOLEAN, when : SUBSET Records,
         allowed : SUBSET Paths, denied : SUBSET Paths]
Selector == [contact : Subjects \cup {None}, permission : Permissions \cup {None},
             trait : Traits \cup {None}]
Context == [subject : Subjects, alternates : SUBSET Subjects,
            permissions : SUBSET Permissions, trait : Traits \cup {None}]

Evaluation == [reason : {"ALLOW_MATCH", "NO_ALLOW_RULE", "FIELDSET_EMPTY",
                         "INVALID_RULE_DROPPED"},
               predicate : {None} \cup SUBSET Records,
               fields : {None} \cup SUBSET Paths,
               denied : SUBSET Paths]
CachedScope == [predicate : {None} \cup SUBSET Records, fields : {None} \cup SUBSET Paths,
                denied : SUBSET Paths]
Key == [subject : Subjects, permissions : SUBSET Permissions, trait : Traits \cup {None}]

ASSUME DecisionAssumption ==
    /\ Paths \subseteq Seq(Names)
    /\ \A s \in SUBSET Records : None # s
    /\ \A s \in SUBSET Paths : None # s
    /\ None \notin Subjects /\ None \notin Permissions /\ None \notin Traits
    /\ None \notin Evaluation /\ None \notin CachedScope
    /\ \A p \in Policies : /\ p.rules \in Seq(Rule)
                           /\ p.selectors \in [Cones -> SUBSET Selector]
    /\ Contexts \subseteq Context

VARIABLES
    ruleList,        \* active rules on the object, in the order of the cones and of updatedAt
    selectors,    \* the assignments of each cone
    row,          \* the scope cache under the object's current version
    answer        \* the last evaluation: who asked, whether from the cache, and the result

decisionVars == <<ruleList, selectors, row, answer>>

-----------------------------------------------------------------------------
\* matchesVisibilityFieldPath: the path itself or one below it.
Under(f, e) == Len(e) <= Len(f) /\ \A i \in 1 .. Len(e) : f[i] = e[i]

Covered(f, es) == \E e \in es : Under(f, e)


\* The query of findApplicableAssignments: one selector matches, none mismatches.
Applies(s, c) ==
    /\ \/ s.contact \in {c.subject} \cup c.alternates
       \/ s.permission \in c.permissions
       \/ c.trait # None /\ s.trait = c.trait
    /\ s.contact = None \/ s.contact \in {c.subject} \cup c.alternates
    /\ s.permission = None \/ s.permission \in c.permissions
    /\ s.trait = None \/ s.trait = c.trait

ApplicableRules(c) ==
    {i \in DOMAIN ruleList : \E s \in selectors[ruleList[i].cone] : Applies(s, c)}

Allows(c) == {i \in ApplicableRules(c) : ruleList[i].effect = "ALLOW"}
Denies(c) == {i \in ApplicableRules(c) : ruleList[i].effect = "DENY"}

DeniedFields(c) == UNION {ruleList[i].denied : i \in ApplicableRules(c)}

\* Mutant: the last list replaces the earlier ones.
CompiledFieldsLastWins(c) ==
    LET lists == {i \in Allows(c) : ruleList[i].allowed # {}}
    IN  IF lists = {} THEN None
        ELSE {f \in Paths : \E i \in lists :
                /\ \A j \in lists : j <= i
                /\ f \in ruleList[i].allowed
                /\ ~Covered(f, DeniedFields(c))}

\* resolveCompiledFields: the first list, narrowed by every other one.  An ALLOW
\* rule without a list does not widen the others.
CompiledFields(c) ==
    LET lists == {i \in Allows(c) : ruleList[i].allowed # {}}
    IN  IF lists = {} THEN None
        ELSE {f \in Paths : \E i \in lists :
                /\ \A j \in lists : i <= j
                /\ f \in ruleList[i].allowed
                /\ \A j \in lists \ {i} : Covered(f, ruleList[j].allowed)
                /\ ~Covered(f, DeniedFields(c))}

\* composeCompiledPredicate
CompiledPredicate(c) ==
    IF Allows(c) = {} THEN None
    ELSE {x \in Records : /\ \E i \in Allows(c) : x \in ruleList[i].when
                          /\ \A i \in Denies(c) : x \notin ruleList[i].when}

\* buildDecisionState
Reason(predicate, fields) ==
    IF predicate = None THEN "NO_ALLOW_RULE"
    ELSE IF fields = {} THEN "FIELDSET_EMPTY" ELSE "ALLOW_MATCH"

\* One rule on the object that does not compile denies every subject.
Invalid == \E i \in DOMAIN ruleList : ~ruleList[i].valid

InvalidEvaluation ==
    [reason |-> "INVALID_RULE_DROPPED", predicate |-> None, fields |-> None, denied |-> {}]

ResolvedEvaluation(c) ==
    [reason |-> Reason(CompiledPredicate(c), CompiledFields(c)),
     predicate |-> CompiledPredicate(c), fields |-> CompiledFields(c),
     denied |-> DeniedFields(c)]

\* buildCacheKey leaves the alternate subject identifiers out.
KeyOf(c) == [subject |-> c.subject, permissions |-> c.permissions, trait |-> c.trait]

\* Mutant: the denied fields are not written to the row.
StoredNoDenied(e) ==
    [predicate |-> e.predicate, fields |-> IF e.fields = {} THEN None ELSE e.fields,
     denied |-> {}]

\* upsertUserScopeCache writes an empty field list as null, getCachedUserScope
\* reads null back as no list.
Stored(e) ==
    [predicate |-> e.predicate, fields |-> IF e.fields = {} THEN None ELSE e.fields,
     denied |-> e.denied]

CachedEvaluation(s) ==
    [reason |-> Reason(s.predicate, s.fields), predicate |-> s.predicate,
     fields |-> s.fields, denied |-> s.denied]

\* authorizeObjectAccess refuses a DENY; applyFieldVisibility filters the rest.
ShownFields(e) ==
    {f \in Paths : /\ e.reason = "ALLOW_MATCH"
                   /\ e.fields \notin {None, {}} => Covered(f, e.fields)
                   /\ ~Covered(f, e.denied)}

ShownRecords(e) == IF e.reason = "ALLOW_MATCH" THEN e.predicate ELSE {}

-----------------------------------------------------------------------------
DecisionInit ==
    /\ \E p \in Policies : ruleList = p.rules /\ selectors = p.selectors
    /\ row = [k \in Key |-> None]
    /\ answer = None

Answer(c, cached, e) == answer' = [who |-> c, cached |-> cached, result |-> e]

\* The definition is checked before the scope cache.
Refuse(c) ==
    /\ Invalid
    /\ Answer(c, FALSE, InvalidEvaluation)
    /\ UNCHANGED <<ruleList, selectors, row>>

Resolve(c) ==
    /\ ~Invalid
    /\ row[KeyOf(c)] = None
    /\ Answer(c, FALSE, ResolvedEvaluation(c))
    /\ row' = [row EXCEPT ![KeyOf(c)] = Stored(ResolvedEvaluation(c))]
    /\ UNCHANGED <<ruleList, selectors>>

AnswerFromCache(c) ==
    /\ ~Invalid
    /\ row[KeyOf(c)] # None
    /\ Answer(c, TRUE, CachedEvaluation(row[KeyOf(c)]))
    /\ UNCHANGED <<ruleList, selectors, row>>

\* A rule saved again without a change: its updatedAt makes it the last one of its
\* cone, and the caches of the object go.
SaveAgain(i) ==
    \E last \in DOMAIN ruleList :
        /\ ruleList[last].cone = ruleList[i].cone
        /\ \A j \in DOMAIN ruleList : ruleList[j].cone = ruleList[i].cone => j <= last
        /\ ruleList' = [j \in DOMAIN ruleList |->
                        IF j < i \/ j > last THEN ruleList[j]
                        ELSE IF j = last THEN ruleList[i] ELSE ruleList[j + 1]]
        /\ row' = [k \in Key |-> None]
        /\ answer' = None
        /\ UNCHANGED selectors

Expire(k) ==
    /\ row[k] # None
    /\ row' = [row EXCEPT ![k] = None]
    /\ UNCHANGED <<ruleList, selectors, answer>>

DecisionNext ==
    \/ \E c \in Contexts : Refuse(c) \/ Resolve(c) \/ AnswerFromCache(c)
    \/ \E i \in DOMAIN ruleList : SaveAgain(i)
    \/ \E k \in Key : Expire(k)

DecisionSpec == DecisionInit /\ [][DecisionNext]_decisionVars

-----------------------------------------------------------------------------
(* What the guide of the visibility cones promises (section numbers of
   docs/visibility-cones-guide.md). *)

\* Section 8: one selector is valued, and every valued one matches.
GuideApplies(s, c) ==
    LET valued == {k \in DOMAIN s : s[k] # None}
    IN  /\ valued # {}
        /\ "contact" \in valued => s.contact = c.subject \/ s.contact \in c.alternates
        /\ "permission" \in valued => s.permission \in c.permissions
        /\ "trait" \in valued => s.trait = c.trait

GuideRules(c, effect) ==
    {i \in DOMAIN ruleList : /\ ruleList[i].effect = effect
                             /\ \E s \in selectors[ruleList[i].cone] : GuideApplies(s, c)}

\* Section 9: the field is below an entry of every list, and below no denied one.
GuideFields(c) ==
    {f \in Paths :
        /\ \A i \in GuideRules(c, "ALLOW") :
            ruleList[i].allowed # {} => Covered(f, ruleList[i].allowed)
        /\ \A i \in GuideRules(c, "ALLOW") \cup GuideRules(c, "DENY") :
            ~Covered(f, ruleList[i].denied)}

GuideRecords(c) ==
    {x \in Records : /\ \E i \in GuideRules(c, "ALLOW") : x \in ruleList[i].when
                     /\ \A i \in GuideRules(c, "DENY") : x \notin ruleList[i].when}

-----------------------------------------------------------------------------
(* Properties. *)

DecisionTypeOK ==
    /\ ruleList \in Seq(Rule)
    /\ selectors \in [Cones -> SUBSET Selector]
    /\ row \in [Key -> CachedScope \cup {None}]
    /\ answer \in [who : Context, cached : BOOLEAN, result : Evaluation] \cup {None}

Fresh == answer # None /\ ~answer.cached

\* A computed answer shows no field outside a list or below a denied path, whatever
\* the order and the depth of the paths (resolveCompiledFields, applyFieldVisibility).
FieldsWithinGuide == Fresh => ShownFields(answer.result) \subseteq GuideFields(answer.who)

\* A computed answer shows records that an applicable ALLOW selects and none that an
\* applicable DENY does (findApplicableAssignments, composeCompiledPredicate).
RecordsWithinGuide == Fresh => ShownRecords(answer.result) \subseteq GuideRecords(answer.who)

\* A computed answer shows no field and no record that the guide withholds.
WithinGuide == FieldsWithinGuide /\ RecordsWithinGuide

\* An answer from the cache is the one computed for a subject of the same key,
\* unless that one had a field list with nothing left in it (getCachedUserScope).
CachedAnswerAgrees ==
    answer # None /\ answer.cached =>
        \E c \in Context :
            /\ KeyOf(c) = KeyOf(answer.who)
            /\ \/ answer.result = ResolvedEvaluation(c)
               \/ ResolvedEvaluation(c).fields = {}
=============================================================================
