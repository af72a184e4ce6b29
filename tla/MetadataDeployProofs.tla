------------------------- MODULE MetadataDeployProofs -------------------------
(* Theorems about MetadataDeploy, for any package, any records and any number   *)
(* of deployments.  A cached policy that lags behind the tables is covered by a *)
(* deployment that has yet to invalidate it, until that deployment fails.       *)
EXTENDS MetadataDeploy, TLAPS

\* Where a deployment stands: what is done, and what a step has looked up.
PlanOK(d) ==
    /\ pc[d] \in {"idle", "previewed", "intent"} => done[d] = {} /\ affected[d] = Nothing
    /\ pc[d] = "bump" => "invalidate" \in Steps \ done[d]
    /\ pc[d] = "bump" \/ (Running(d) /\ "invalidate" \in done[d]) =>
           \A i \in Files : Types[i] \in Visibility => i \in done[d]
    /\ Running(d) /\ affected[d] # Nothing => \E i \in done[d] : i \in Files /\ Types[i] \in Visibility
    /\ pc[d] \in {"replace", "reload"} => Acl \cap Files \cap done[d] = {}
    /\ Running(d) => Acl \cap Files \subseteq done[d] \/ Acl \cap done[d] = {}
    /\ pc[d] = "upsert" =>
           /\ held[d].item \in Files \ done[d]
           /\ Types[held[d].item] \in {"rule", "assign"}
           /\ held[d].row = None \/ held[d].row \in Contents(held[d].item)
           /\ held[d].new \in Resolved(held[d].item)
    /\ pc[d] = "replace" => \A i \in Acl : held[d][i] = None \/ held[d][i] \in Contents(i)
Plans == \A d \in Deployers : PlanOK(d)

LEMMA RankOf ==
    ASSUME NEW k \in 1 .. 10, NEW s, Kind(s) = Order[k]
    PROVE  Rank(s) = k
  <1>1. Len(Order) = 10
    BY DEF Order
  <1>2. \A n \in 1 .. 10 : Order[n] = Order[k] => n = k
    BY DEF Order
  <1>3. QED
    BY <1>1, <1>2 DEF Rank

LEMMA Ranks ==
    /\ Rank("invalidate") = 8 /\ Rank("sync") = 10
    /\ \A i \in Files : Types[i] \in Visibility => Rank(i) \in 5 .. 7
  <1>1. Kind("invalidate") = Order[8] /\ Kind("sync") = Order[10]
    BY MetadataDeployAssumption DEF Kind, Files, Order
  <1>2. \A i \in Files : Types[i] = "cone" => Kind(i) = Order[5]
    BY DEF Kind, Order
  <1>3. \A i \in Files : Types[i] = "rule" => Kind(i) = Order[6]
    BY DEF Kind, Order
  <1>4. \A i \in Files : Types[i] = "assign" => Kind(i) = Order[7]
    BY DEF Kind, Order
  <1>5. /\ Rank("invalidate") = 8 /\ Rank("sync") = 10
    BY <1>1, RankOf
  <1>6. ASSUME NEW i \in Files, Types[i] \in Visibility PROVE Rank(i) \in 5 .. 7
    BY <1>2, <1>3, <1>4, <1>6, RankOf DEF Visibility
  <1>7. QED
    BY <1>5, <1>6

\* Its turn comes to the invalidation after the last visibility record, and to the
\* end after the invalidation.
LEMMA Turns ==
    ASSUME NEW d \in Deployers
    PROVE  /\ Turn(d, "invalidate") =>
                \A i \in Files : Types[i] \in Visibility => i \in done[d]
           /\ Turn(d, "sync") => \A s \in Steps : s # "sync" => s \in done[d]
  <1>1. ASSUME Turn(d, "invalidate"), NEW i \in Files, Types[i] \in Visibility, i \notin done[d]
        PROVE  FALSE
    <2>1. i \in Steps
      BY DEF Steps
    <2>2. Rank("invalidate") <= Rank(i)
      BY <1>1, <2>1 DEF Turn
    <2>3. QED
      BY <1>1, <2>2, Ranks
  <1>2. ASSUME Turn(d, "sync"), NEW s \in Steps, s # "sync", s \notin done[d]
        PROVE  FALSE
    <2>1. Rank("sync") <= Rank(s)
      BY <1>2 DEF Turn
    <2>2. \E k \in 1 .. 9 : Kind(s) = Order[k]
      <3>1. CASE s \in Files
        <4>1. Types[s] \in {"entity", "acl", "template", "app", "cone", "rule", "assign", "grants"}
          BY <3>1, MetadataDeployAssumption DEF Files
        <4>2. Kind(s) = Types[s]
          BY <3>1 DEF Kind
        <4>3. /\ Order[1] = "entity" /\ Order[2] = "acl" /\ Order[3] = "template" /\ Order[4] = "app"
              /\ Order[5] = "cone" /\ Order[6] = "rule" /\ Order[7] = "assign" /\ Order[9] = "grants"
          BY DEF Order
        <4>4. QED
          BY <4>1, <4>2, <4>3
      <3>2. CASE s = "invalidate"
        <4>1. Kind(s) = Order[8]
          BY <3>2, MetadataDeployAssumption DEF Kind, Files, Order
        <4>2. QED
          BY <4>1
      <3>3. QED
        BY <1>2, <3>1, <3>2 DEF Steps
    <2>3. QED
      BY <2>1, <2>2, RankOf, Ranks
  <1>3. QED
    BY <1>1, <1>2

-----------------------------------------------------------------------------
(* What a change of one record changes of the policies. *)

LEMMA SameView ==
    ASSUME NEW R, NEW Q, NEW o,
           RulesOn(R, o) = RulesOn(Q, o),
           \A r \in RulesOn(R, o) : R[r] = Q[r],
           \A b \in Of("assign") :
              \/ R[b] = Q[b]
              \/ /\ R[b] # None => R[b].cone \notin ConesOn(R, o)
                 /\ Q[b] # None => Q[b].cone \notin ConesOn(R, o)
    PROVE  View(R, o) = View(Q, o)
  <1>1. ConesOn(R, o) = ConesOn(Q, o)
    BY DEF ConesOn
  <1>2. {<<r, R[r]>> : r \in RulesOn(R, o)} = {<<r, Q[r]>> : r \in RulesOn(Q, o)}
    OBVIOUS
  <1>3. ASSUME NEW b \in Of("assign")
        PROVE  (R[b] # None /\ R[b].cone \in ConesOn(R, o)) <=> (Q[b] # None /\ Q[b].cone \in ConesOn(Q, o))
    BY <1>1
  <1>4. {b \in Of("assign") : R[b] # None /\ R[b].cone \in ConesOn(R, o)}
            = {b \in Of("assign") : Q[b] # None /\ Q[b].cone \in ConesOn(Q, o)}
    BY <1>3
  <1>5. {<<a, R[a]>> : a \in {b \in Of("assign") : R[b] # None /\ R[b].cone \in ConesOn(R, o)}}
            = {<<a, Q[a]>> : a \in {b \in Of("assign") : Q[b] # None /\ Q[b].cone \in ConesOn(Q, o)}}
    BY <1>1, <1>4
  <1>6. QED
    BY <1>2, <1>5 DEF View

LEMMA Reached ==
    ASSUME TypeOK, NEW i \in Items, NEW new \in Contents(i), NEW o \in Objects,
           o \notin Reaches(rows, i, rows[i], new)
    PROVE  View(rows, o) = View([rows EXCEPT ![i] = new], o)
  <1> DEFINE R == [rows EXCEPT ![i] = new]
  <1>1. /\ DOMAIN rows = Items /\ R[i] = new
        /\ \A j \in Items : j # i => R[j] = rows[j]
        /\ Types[i] \in {"entity", "acl", "template", "app", "cone", "rule", "assign", "grants"}
    BY MetadataDeployAssumption DEF TypeOK
  <1>2. \A j \in Items : /\ Types[j] = "rule" => rows[j] = None \/ rows[j] \in RuleRow
                         /\ Types[j] = "assign" => rows[j] = None \/ rows[j] \in AssignRow
    BY DEF TypeOK, Contents
  <1> HIDE DEF R
  <1>3. CASE Types[i] = "rule"
    <2>1. /\ rows[i] # None => rows[i].obj # o
          /\ new.obj # o
      <3>1. new \in RuleRow
        BY <1>3 DEF Contents
      <3>2. QED
        BY <1>2, <1>3, <3>1, MetadataDeployAssumption DEF Reaches, ObjsOf
    <2>2. \A r \in Of("rule") : r # i /\ rows[r] # None => rows[r].cone # i /\ rows[r].cone \in Items
      BY <1>2, <1>3 DEF RuleRow, Of
    <2>3. RulesOn(rows, o) = RulesOn(R, o) /\ \A r \in RulesOn(rows, o) : rows[r] = R[r]
      BY <1>1, <2>1, <2>2 DEF RulesOn, Of
    <2>4. \A b \in Of("assign") : rows[b] = R[b]
      BY <1>1, <1>3 DEF Of
    <2>5. QED
      BY <2>3, <2>4, SameView DEF R
  <1>4. CASE Types[i] = "cone"
    <2>1. \A r \in Of("rule") : rows[r] # None /\ rows[r].obj = o => rows[r].cone # i
      BY <1>4 DEF Reaches, ObjectsOfCones
    <2>2. \A r \in Of("rule") : r # i /\ (rows[r] # None => rows[r].cone \in Items)
      BY <1>2, <1>4 DEF RuleRow, Of
    <2>3. RulesOn(rows, o) = RulesOn(R, o) /\ \A r \in RulesOn(rows, o) : rows[r] = R[r]
      BY <1>1, <2>1, <2>2 DEF RulesOn, Of
    <2>4. \A b \in Of("assign") : rows[b] = R[b]
      BY <1>1, <1>4 DEF Of
    <2>5. QED
      BY <2>3, <2>4, SameView DEF R
  <1>5. CASE Types[i] = "assign"
    <2>1. \A r \in Of("rule") : r # i /\ (rows[r] # None => rows[r].cone \in Items /\ rows[r].cone # i)
      BY <1>2, <1>5 DEF RuleRow, Of
    <2>2. RulesOn(rows, o) = RulesOn(R, o) /\ \A r \in RulesOn(rows, o) : rows[r] = R[r]
      BY <1>1, <2>1 DEF RulesOn, Of
    <2>3. /\ rows[i] # None => rows[i].cone \notin ConesOn(rows, o)
          /\ new # None => new.cone \notin ConesOn(rows, o)
      BY <1>5 DEF Reaches, ObjectsOfCones, ConesOf, ConesOn, RulesOn
    <2>4. \A b \in Of("assign") :
              \/ rows[b] = R[b]
              \/ /\ rows[b] # None => rows[b].cone \notin ConesOn(rows, o)
                 /\ R[b] # None => R[b].cone \notin ConesOn(rows, o)
      BY <1>1, <2>3 DEF Of
    <2>5. QED
      BY <2>2, <2>4, SameView DEF R
  <1>6. CASE Types[i] \notin {"rule", "cone", "assign"}
    <2>1. \A r \in Of("rule") : r # i /\ (rows[r] # None => rows[r].cone \in Items /\ rows[r].cone # i)
      BY <1>2, <1>6 DEF RuleRow, Of
    <2>2. RulesOn(rows, o) = RulesOn(R, o) /\ \A r \in RulesOn(rows, o) : rows[r] = R[r]
      BY <1>1, <2>1 DEF RulesOn, Of
    <2>3. \A b \in Of("assign") : rows[b] = R[b]
      BY <1>1, <1>6 DEF Of
    <2>4. QED
      BY <2>2, <2>3, SameView DEF R
  <1>7. QED
    BY <1>3, <1>4, <1>5, <1>6

-----------------------------------------------------------------------------
(* Types. *)

IInv == TypeOK /\ Plans

LEMMA VisTypes ==
    /\ \A i \in Files : i \in Items /\ Package[i] \in Contents(i) /\ i \in Steps
    /\ \A i \in Items : Types[i] = "cone" <=> i \in Of("cone")
    /\ Acl \subseteq Items /\ Cached \subseteq Items /\ Acl \cap Cached = {}
    /\ "sync" \in Steps
    /\ \A i \in Files : Types[i] \in Visibility => "invalidate" \in Steps
  BY MetadataDeployAssumption DEF Files, Steps, Of, Acl, Cached

LEMMA ResolvedType ==
    ASSUME NEW i \in Files, NEW x \in Resolved(i)
    PROVE  x \in Contents(i) /\ (Types[i] # "assign" => x = Package[i])
  <1>1. Package[i] \in Contents(i)
    BY VisTypes
  <1>2. CASE x = Package[i]
    BY <1>1, <1>2
  <1>3. CASE Types[i] = "assign" /\ x = [Package[i] EXCEPT !.contact = FALSE]
    BY <1>1, <1>3 DEF Contents, AssignRow
  <1>4. QED
    BY <1>2, <1>3 DEF Resolved

\* What an upsert of a rule or an assignment finds.
LEMMA HeldType ==
    ASSUME IInv, NEW d \in Deployers, pc[d] = "upsert"
    PROVE  LET h == held[d]
           IN  /\ h.item \in Files /\ h.item \in Items /\ h.item \notin done[d]
               /\ Types[h.item] \in {"rule", "assign"} /\ "invalidate" \in Steps
               /\ h.new \in Contents(h.item)
               /\ rows[h.item] = None \/ rows[h.item] \in Contents(h.item)
               /\ ConesOf(h.row) \subseteq Of("cone") /\ ConesOf(h.new) \subseteq Of("cone")
               /\ ObjsOf(h.item, h.row) \subseteq Objects /\ ObjsOf(h.item, h.new) \subseteq Objects
               /\ ObjsOf(h.item, rows[h.item]) \subseteq Objects
  <1>1. PlanOK(d)
    BY DEF IInv, Plans
  <1> DEFINE h == held[d]
  <1>2. /\ h.item \in Files \ done[d] /\ Types[h.item] \in {"rule", "assign"}
        /\ h.row = None \/ h.row \in Contents(h.item)
        /\ h.new \in Contents(h.item) /\ h.item \in Items /\ "invalidate" \in Steps
        /\ rows[h.item] = None \/ rows[h.item] \in Contents(h.item)
    BY <1>1, ResolvedType, VisTypes DEF PlanOK, IInv, TypeOK, Visibility
  <1> HIDE DEF h
  <1>3. \A x : x = None \/ x \in Contents(h.item) =>
            ConesOf(x) \subseteq Of("cone") /\ ObjsOf(h.item, x) \subseteq Objects
    BY <1>2 DEF Contents, RuleRow, AssignRow, ConesOf, ObjsOf
  <1>4. QED
    BY <1>2, <1>3 DEF h

LEMMA TypeStep == ASSUME IInv, [Next]_vars PROVE TypeOK'
  <1> USE VisTypes DEF IInv, TypeOK
  <1>1. ASSUME NEW d \in Deployers, Preview(d) PROVE TypeOK'
    BY <1>1 DEF Preview, Goto, target, Applying, Fingerprint
  <1>2. ASSUME NEW d \in Deployers, DeployPackage(d) PROVE TypeOK'
    <2>1. CASE seen[d] = Fingerprint
      <3>1. deploys' \in 0 .. MaxDeploys
        BY <1>2, <2>1, MetadataDeployAssumption DEF DeployPackage
      <3>2. QED
        BY <1>2, <2>1, <3>1 DEF DeployPackage, Goto, target, Applying
    <2>2. CASE seen[d] # Fingerprint
      BY <1>2, <2>2 DEF DeployPackage, Goto, target, Applying
    <2>3. QED
      BY <2>1, <2>2
  <1>3. ASSUME NEW d \in Deployers, Intent(d) PROVE TypeOK'
    BY <1>3 DEF Intent, Goto, target, Applying
  <1>4. ASSUME NEW d \in Deployers, NEW i \in Files, Upsert(d, i) PROVE TypeOK'
    <2>1. /\ \A j \in Items : rows'[j] = None \/ rows'[j] \in Contents(j)
          /\ \A j \in DOMAIN memory' : memory'[j] = None \/ memory'[j] \in Contents(j)
          /\ DOMAIN rows' = Items /\ DOMAIN memory' = Cached \cup Acl
      BY <1>4 DEF Upsert
    <2>2. /\ done' \in [Deployers -> SUBSET Steps] /\ touched' \in [Deployers -> SUBSET Items]
      BY <1>4 DEF Upsert, Finished, TouchedBy
    <2>3. QED
      BY <1>4, <2>1, <2>2 DEF Upsert, Turn, Applying
  <1>5. ASSUME NEW d \in Deployers, NEW i \in Files, ApplyCone(d, i) PROVE TypeOK'
    BY <1>5 DEF ApplyCone, Turn, Finished, TouchedBy, Affects, Applying
  <1>6. ASSUME NEW d \in Deployers, NEW i \in Files, LookUp(d, i) PROVE TypeOK'
    <2>1. PICK new \in Resolved(i) :
            held' = [held EXCEPT ![d] = [item |-> i, row |-> rows[i], new |-> new]]
      BY <1>6 DEF LookUp
    <2>2. new \in Contents(i)
      BY ResolvedType
    <2>3. QED
      BY <1>6, <2>1, <2>2 DEF LookUp, Turn, Goto, target, Applying
  <1>7. ASSUME NEW d \in Deployers, LoadAcl(d) PROVE TypeOK'
    BY <1>7 DEF LoadAcl, Turn, Goto, target, Applying
  <1>8. ASSUME NEW d \in Deployers, ReplaceAcl(d) PROVE TypeOK'
    <2>1. \A i \in Items : rows'[i] = None \/ rows'[i] \in Contents(i)
      BY <1>8 DEF ReplaceAcl, Plans, PlanOK
    <2>2. QED
      BY <1>8, <2>1 DEF ReplaceAcl, Goto, TouchedBy, Applying
  <1>9. ASSUME NEW d \in Deployers, ReloadAcl(d) PROVE TypeOK'
    BY <1>9 DEF ReloadAcl, Finished, Goto, Applying
  <1>10. ASSUME NEW d \in Deployers, UpsertPolicyRow(d) PROVE TypeOK'
    <2> DEFINE h == held[d]
               R == [rows EXCEPT ![h.item] = h.new]
    <2>1. pc[d] = "upsert"
      BY <1>10 DEF UpsertPolicyRow
    <2>2. /\ h.item \in Files /\ h.item \in Items /\ h.new \in Contents(h.item)
          /\ ConesOf(h.row) \subseteq Of("cone") /\ ConesOf(h.new) \subseteq Of("cone")
          /\ ObjsOf(h.item, h.row) \subseteq Objects /\ ObjsOf(h.item, h.new) \subseteq Objects
          /\ ObjsOf(h.item, rows[h.item]) \subseteq Objects
      BY <2>1, HeldType
    <2>3. owed' \subseteq Objects
      BY <1>10, <2>2 DEF UpsertPolicyRow, Changed
    <2>4. /\ rows' = R /\ held' = [held EXCEPT ![d] = None]
          /\ Affects(d, ConesOf(h.new) \cup ConesOf(h.row),
                        ObjsOf(h.item, h.new) \cup ObjsOf(h.item, h.row))
          /\ Finished(d, {h.item}) /\ TouchedBy(d, {h.item}) /\ Goto(d, "apply")
          /\ UNCHANGED <<memory, policy, seen, audit, deploys, edits>>
      BY <1>10 DEF UpsertPolicyRow
    <2> HIDE DEF h
    <2>5. affected' \in [Deployers -> [cones : SUBSET Of("cone"), objs : SUBSET Objects]]
      BY <2>2, <2>4 DEF Affects
    <2>6. /\ done' \in [Deployers -> SUBSET Steps] /\ touched' \in [Deployers -> SUBSET Items]
      BY <2>2, <2>4 DEF Finished, TouchedBy
    <2>7. DOMAIN rows' = Items /\ \A i \in Items : rows'[i] = None \/ rows'[i] \in Contents(i)
      BY <2>2, <2>4
    <2>8. QED
      BY <2>1, <2>3, <2>4, <2>5, <2>6, <2>7 DEF Goto, Applying
  <1>11. ASSUME NEW d \in Deployers, ListAffected(d) PROVE TypeOK'
    <2>1. ObjectsOfCones(rows, affected[d].cones) \subseteq Objects
      BY DEF ObjectsOfCones, Of, Contents, RuleRow
    <2>2. affected' \in [Deployers -> [cones : SUBSET Of("cone"), objs : SUBSET Objects]]
      BY <1>11, <2>1 DEF ListAffected, Affects
    <2>3. QED
      BY <1>11, <2>2 DEF ListAffected, Turn, Goto, target, Applying
  <1>12. ASSUME NEW d \in Deployers, InvalidatePolicy(d) PROVE TypeOK'
    <2>1. "invalidate" \in Steps
      BY <1>12 DEF InvalidatePolicy, Plans, PlanOK
    <2>2. QED
      BY <1>12, <2>1 DEF InvalidatePolicy, Invalidated, Finished, Goto, Applying
  <1>13. ASSUME NEW d \in Deployers, Complete(d) PROVE TypeOK'
    BY <1>13 DEF Complete, Turn, Finished, Goto, target, Applying
  <1>14. ASSUME NEW d \in Deployers, Fail(d) PROVE TypeOK'
    BY <1>14 DEF Fail, Goto, target, Applying, Nothing
  <1>15. ASSUME NEW d \in Deployers, Leave(d) PROVE TypeOK'
    BY <1>15 DEF Leave, Goto, target, Applying, Nothing
  <1>16. ASSUME NEW o \in Objects, Evaluate(o) PROVE TypeOK'
    BY <1>16 DEF Evaluate, own, Applying
  <1>17. ASSUME NEW i \in Items, ReadConfig(i) PROVE TypeOK'
    BY <1>17 DEF ReadConfig, own, Applying
  <1>18. ASSUME NEW e \in Edits, Edit(e) PROVE TypeOK'
    <2>1. e[1] \in Items /\ e[2] \in Contents(e[1]) /\ edits' \in 0 .. MaxEdits
      BY <1>18, MetadataDeployAssumption DEF Edit
    <2>2. QED
      BY <1>18, <2>1 DEF Edit, Invalidated, own, Applying
  <1>19. CASE Crash
    BY <1>19 DEF Crash, Running, Applying, Nothing
  <1>20. CASE UNCHANGED vars
    BY <1>20 DEF vars, target, own, Applying
  <1>21. QED
    BY <1>1, <1>2, <1>3, <1>4, <1>5, <1>6, <1>7, <1>8, <1>9, <1>10, <1>11, <1>12, <1>13,
       <1>14, <1>15, <1>16, <1>17, <1>18, <1>19, <1>20 DEF Next, Step

-----------------------------------------------------------------------------
(* Plans. *)

\* Nothing of deployment e changes.
Same(e) == /\ pc'[e] = pc[e] /\ done'[e] = done[e] /\ held'[e] = held[e]
           /\ affected'[e] = affected[e] /\ seen'[e] = seen[e]

LEMMA PlanKept ==
    ASSUME NEW e \in Deployers, PlanOK(e), Same(e)
    PROVE  PlanOK(e)'
  BY DEF PlanOK, Same, Running

LEMMA OthersSame ==
    ASSUME TypeOK, NEW d \in Deployers, Step(d), NEW e \in Deployers, e # d
    PROVE  Same(e)
  <1> USE DEF TypeOK, Same
  <1>1. CASE Preview(d) \/ DeployPackage(d) \/ Intent(d) \/ Complete(d) \/ Fail(d) \/ Leave(d)
    BY <1>1 DEF Preview, DeployPackage, Intent, Complete, Fail, Leave, Goto, Finished
  <1>2. ASSUME NEW i \in Files, Upsert(d, i) \/ ApplyCone(d, i) \/ LookUp(d, i) PROVE Same(e)
    BY <1>2 DEF Upsert, ApplyCone, LookUp, Goto, Finished, Affects
  <1>3. CASE LoadAcl(d) \/ ReplaceAcl(d) \/ ReloadAcl(d)
    BY <1>3 DEF LoadAcl, ReplaceAcl, ReloadAcl, Goto, Finished
  <1>4. CASE UpsertPolicyRow(d) \/ ListAffected(d) \/ InvalidatePolicy(d)
    BY <1>4 DEF UpsertPolicyRow, ListAffected, InvalidatePolicy, Goto, Finished, Affects
  <1>5. QED
    BY <1>1, <1>2, <1>3, <1>4 DEF Step

LEMMA OwnPlan ==
    ASSUME IInv, NEW d \in Deployers, Step(d)
    PROVE  PlanOK(d)'
  <1> USE VisTypes DEF TypeOK, PlanOK, Running, Applying, Nothing
  <1>0. PlanOK(d) /\ TypeOK
    BY DEF IInv, Plans
  <1>1. CASE Preview(d)
    BY <1>0, <1>1 DEF Preview, Goto
  <1>2. CASE DeployPackage(d)
    BY <1>0, <1>2 DEF DeployPackage, Goto
  <1>3. CASE Intent(d)
    BY <1>0, <1>3 DEF Intent, Goto
  <1>4. ASSUME NEW i \in Files, Upsert(d, i) PROVE PlanOK(d)'
    <2>1. i \notin Acl /\ i # "invalidate"
      BY <1>4, MetadataDeployAssumption DEF Upsert, Acl, Of, Files
    <2>2. QED
      BY <1>0, <1>4, <2>1 DEF Upsert, Turn, Finished
  <1>5. ASSUME NEW i \in Files, ApplyCone(d, i) PROVE PlanOK(d)'
    <2>1. i \notin Acl /\ i # "invalidate" /\ Types[i] \in Visibility
      BY <1>5, MetadataDeployAssumption DEF ApplyCone, Acl, Of, Files, Visibility
    <2>2. QED
      BY <1>0, <1>5, <2>1 DEF ApplyCone, Turn, Finished, Affects
  <1>6. ASSUME NEW i \in Files, LookUp(d, i) PROVE PlanOK(d)'
    <2>1. PICK new \in Resolved(i) :
            held' = [held EXCEPT ![d] = [item |-> i, row |-> rows[i], new |-> new]]
      BY <1>6 DEF LookUp
    <2>2. /\ held'[d].item = i /\ held'[d].row = rows[i] /\ held'[d].new = new
          /\ rows[i] = None \/ rows[i] \in Contents(i)
      BY <1>0, <2>1
    <2>3. /\ pc' = [pc EXCEPT ![d] = "upsert"] /\ pc[d] = "apply" /\ i \notin done[d]
          /\ Types[i] \in {"rule", "assign"} /\ done' = done /\ affected' = affected
      BY <1>6 DEF LookUp, Turn, Goto
    <2>4. QED
      BY <1>0, <2>2, <2>3
  <1>7. CASE LoadAcl(d)
    <2>1. PICK i \in Acl : Turn(d, i)
      BY <1>7 DEF LoadAcl
    <2>2. i \in Files /\ i \notin done[d]
      BY <2>1, MetadataDeployAssumption DEF Turn, Steps, Acl, Of
    <2>3. \A j \in Acl : held'[d][j] = None \/ held'[d][j] \in Contents(j)
      BY <1>0, <1>7 DEF LoadAcl
    <2>4. /\ pc' = [pc EXCEPT ![d] = "replace"] /\ pc[d] = "apply"
          /\ done' = done /\ affected' = affected
      BY <1>7, <2>1 DEF LoadAcl, Turn, Goto
    <2>5. QED
      BY <1>0, <2>1, <2>2, <2>3, <2>4
  <1>8. CASE ReplaceAcl(d)
    BY <1>0, <1>8 DEF ReplaceAcl, Goto
  <1>9. CASE ReloadAcl(d)
    <2>1. "invalidate" \notin Acl
      BY MetadataDeployAssumption
    <2>2. QED
      BY <1>0, <1>9, <2>1 DEF ReloadAcl, Goto, Finished
  <1>10. CASE UpsertPolicyRow(d)
    <2> DEFINE i == held[d].item
    <2>1. pc[d] = "upsert"
      BY <1>10 DEF UpsertPolicyRow
    <2>2. i \in Files /\ i \notin Acl /\ i # "invalidate" /\ Types[i] \in Visibility
      BY <2>1, HeldType, MetadataDeployAssumption DEF Acl, Of, Files, Visibility
    <2>3. /\ pc' = [pc EXCEPT ![d] = "apply"] /\ done' = [done EXCEPT ![d] = @ \cup {i}]
      BY <1>10 DEF UpsertPolicyRow, Goto, Finished
    <2> HIDE DEF i
    <2>4. QED
      BY <1>0, <2>1, <2>2, <2>3
  <1>11. CASE ListAffected(d)
    <2>1. \A i \in Files : Types[i] \in Visibility => i \in done[d]
      BY <1>11, Turns DEF ListAffected
    <2>2. \E i \in Files : Types[i] \in Visibility
      BY <1>11, MetadataDeployAssumption DEF ListAffected, Turn, Steps, Files
    <2>3. /\ pc' = [pc EXCEPT ![d] = "bump"] /\ pc[d] = "apply" /\ done' = done
          /\ "invalidate" \in Steps \ done[d]
      BY <1>11 DEF ListAffected, Turn, Goto
    <2>4. QED
      BY <1>0, <2>1, <2>2, <2>3
  <1>12. CASE InvalidatePolicy(d)
    <2>1. "invalidate" \notin Acl
      BY MetadataDeployAssumption
    <2>2. QED
      BY <1>0, <1>12, <2>1 DEF InvalidatePolicy, Goto, Finished
  <1>13. CASE Complete(d)
    BY <1>0, <1>13 DEF Complete, Goto
  <1>14. CASE Fail(d)
    BY <1>0, <1>14 DEF Fail, Goto
  <1>15. CASE Leave(d)
    BY <1>0, <1>15 DEF Leave, Goto
  <1>16. QED
    BY <1>1, <1>2, <1>3, <1>4, <1>5, <1>6, <1>7, <1>8, <1>9, <1>10, <1>11, <1>12, <1>13,
       <1>14, <1>15 DEF Step

LEMMA PlansStep == ASSUME IInv, [Next]_vars PROVE Plans'
  <1> SUFFICES ASSUME NEW e \in Deployers PROVE PlanOK(e)'
    BY DEF Plans
  <1>0. PlanOK(e) /\ TypeOK
    BY DEF IInv, Plans
  <1>1. ASSUME NEW d \in Deployers, Step(d) PROVE PlanOK(e)'
    BY <1>0, <1>1, OwnPlan, OthersSame, PlanKept
  <1>2. CASE Crash
    BY <1>0, <1>2 DEF Crash, PlanOK, TypeOK, Running, Applying
  <1>3. CASE UNCHANGED <<pc, own>>
    BY <1>0, <1>3, PlanKept DEF own, Same
  <1>4. QED
    BY <1>1, <1>2, <1>3 DEF Next, Evaluate, ReadConfig, Edit, vars, own

LEMMA Inductive == Spec => []IInv
  <1>1. Init => IInv
    BY VisTypes, MetadataDeployAssumption
       DEF Init, IInv, TypeOK, Plans, PlanOK, Running, Applying, Nothing
  <1>2. IInv /\ [Next]_vars => IInv'
    BY TypeStep, PlansStep DEF IInv
  <1>3. QED
    BY <1>1, <1>2, PTL DEF Spec

\* Every variable keeps its type: whatever other administrators write, and
\* wherever it fails, a deployment stores records of their types and goes on with
\* what it looked up.
THEOREM TypeCorrect == Spec => []TypeOK
  BY Inductive, PTL DEF IInv

-----------------------------------------------------------------------------
(* Cached policies. *)

\* Deployment d will invalidate object o, unless it fails.
Covers(d, o) ==
    /\ Running(d) /\ "invalidate" \notin done[d]
    /\ \/ o \in affected[d].objs
       \/ pc[d] # "bump" /\ o \in ObjectsOfCones(rows, affected[d].cones)

Covered == \A o \in Objects : Stale(o) => o \in owed \/ \E d \in Deployers : Covers(d, o)

\* Deployment d goes on, with all it has noted.
Grows(d) ==
    /\ Running(d)' /\ "invalidate" \notin done'[d] /\ (pc'[d] = "bump" => pc[d] = "bump")
    /\ affected[d].cones \subseteq affected'[d].cones /\ affected[d].objs \subseteq affected'[d].objs

LEMMA SameGrows == ASSUME NEW d \in Deployers, NEW o, Covers(d, o), Same(d) PROVE Grows(d)
  BY DEF Covers, Same, Grows, Running

\* An object is covered through a rule; it stays so until that rule is changed.
LEMMA CoverKept ==
    ASSUME TypeOK, NEW d \in Deployers, NEW o, Covers(d, o), Grows(d),
           NEW i \in Items, \A j \in Items : j # i => rows'[j] = rows[j],
           o \notin ObjsOf(i, rows[i])
    PROVE  Covers(d, o)'
  <1>1. CASE o \in affected[d].objs
    BY <1>1 DEF Covers, Grows
  <1>2. CASE pc[d] # "bump" /\ o \in ObjectsOfCones(rows, affected[d].cones)
    <2>1. PICK r \in Of("rule") : rows[r] # None /\ rows[r].cone \in affected[d].cones /\ rows[r].obj = o
      BY <1>2 DEF ObjectsOfCones
    <2>2. r # i /\ r \in Items
      BY <2>1 DEF ObjsOf, Of
    <2>3. rows'[r] = rows[r] /\ affected[d].cones \subseteq affected'[d].cones
      BY <2>2 DEF Grows
    <2>4. o \in ObjectsOfCones(rows, affected[d].cones)'
      BY <2>1, <2>3 DEF ObjectsOfCones
    <2>5. QED
      BY <1>2, <2>4 DEF Covers, Grows
  <1>3. QED
    BY <1>1, <1>2 DEF Covers

LEMMA CoverKeptSame ==
    ASSUME NEW d \in Deployers, NEW o, Covers(d, o), Grows(d),
           \A j \in Of("rule") : rows'[j] = rows[j]
    PROVE  Covers(d, o)'
  <1>1. CASE o \in affected[d].objs
    BY <1>1 DEF Covers, Grows
  <1>2. CASE pc[d] # "bump" /\ o \in ObjectsOfCones(rows, affected[d].cones)
    <2>1. o \in ObjectsOfCones(rows, affected[d].cones)'
      BY <1>2 DEF ObjectsOfCones, Grows
    <2>2. QED
      BY <1>2, <2>1 DEF Covers, Grows
  <1>3. QED
    BY <1>1, <1>2 DEF Covers

\* Records of other types are no part of a policy.
LEMMA OtherRecords ==
    ASSUME TypeOK, \A j \in Items : Types[j] \in Visibility => rows'[j] = rows[j]
    PROVE  /\ \A o \in Objects : View(rows, o)' = View(rows, o)
           /\ \A r \in Of("rule") : rows'[r] = rows[r]
  <1>1. /\ \A r \in Of("rule") : rows'[r] = rows[r]
        /\ \A r \in Of("assign") : rows'[r] = rows[r]
        /\ \A r \in Of("cone") : rows'[r] = rows[r]
    BY DEF Of, Visibility
  <1>2. ASSUME NEW o \in Objects PROVE View(rows, o)' = View(rows, o)
    <2>1. \A r \in Of("rule") : rows[r] # None => rows[r].cone \in Of("cone")
      BY DEF TypeOK, Contents, RuleRow, Of
    <2>2. RulesOn(rows, o) = RulesOn(rows', o) /\ \A r \in RulesOn(rows, o) : rows[r] = rows'[r]
      BY <1>1, <2>1 DEF RulesOn
    <2>3. View(rows, o) = View(rows', o)
      BY <1>1, <2>2, SameView
    <2>4. QED
      BY <2>3 DEF View, RulesOn, ConesOn
  <1>3. QED
    BY <1>1, <1>2

\* A step that changes no visibility record, no policy, and forgets nothing.
LEMMA CoveredQuiet ==
    ASSUME TypeOK, Covered, policy' = policy, owed \subseteq owed',
           \A j \in Items : Types[j] \in Visibility => rows'[j] = rows[j],
           \A d \in Deployers : \A o \in Objects : Covers(d, o) => Grows(d)
    PROVE  Covered'
  <1> SUFFICES ASSUME NEW o \in Objects, Stale(o)', o \notin owed'
               PROVE  \E d \in Deployers : Covers(d, o)'
    BY DEF Covered
  <1>1. Stale(o)
    BY OtherRecords DEF Stale
  <1>2. PICK d \in Deployers : Covers(d, o)
    BY <1>1 DEF Covered
  <1>3. QED
    BY <1>2, OtherRecords, CoverKeptSame

LEMMA CoveredByUpsert ==
    ASSUME IInv, Covered, NEW d \in Deployers, UpsertPolicyRow(d)
    PROVE  Covered'
  <1> DEFINE h == held[d]
             i == h.item
             R == [rows EXCEPT ![i] = h.new]
  <1>1. pc[d] = "upsert" /\ PlanOK(d) /\ TypeOK
    BY DEF UpsertPolicyRow, IInv, Plans
  <1>2. /\ i \in Files /\ i \in Items /\ Types[i] \in {"rule", "assign"}
        /\ h.new \in Contents(i) /\ "invalidate" \in Steps /\ i # "invalidate"
    BY <1>1, HeldType, MetadataDeployAssumption
  <1>3. "invalidate" \notin done[d]
    BY <1>1, <1>2 DEF PlanOK, Running, Applying, Visibility
  <1>4. /\ rows' = R /\ policy' = policy
        /\ affected'[d].cones = affected[d].cones \cup ConesOf(h.new) \cup ConesOf(h.row)
        /\ affected'[d].objs = affected[d].objs \cup ObjsOf(i, h.new) \cup ObjsOf(i, h.row)
        /\ done'[d] = done[d] \cup {i} /\ pc'[d] = "apply"
        /\ owed' = IF rows[i] = h.row THEN owed
                   ELSE owed \cup Changed(rows, R) \cup ObjsOf(i, rows[i])
    BY <1>1 DEF UpsertPolicyRow, Affects, Finished, Goto, TypeOK
  <1>5. \A j \in Items : j # i => rows'[j] = rows[j]
    BY <1>2, <1>4
  <1>6. Running(d)' /\ Grows(d)
    BY <1>1, <1>2, <1>3, <1>4 DEF Grows, Running, Applying
  <1> SUFFICES ASSUME NEW o \in Objects, Stale(o)', o \notin owed'
               PROVE  \E e \in Deployers : Covers(e, o)'
    BY DEF Covered
  <1>7. ASSUME rows[i] = h.row, o \in ObjsOf(i, h.row) \cup ObjsOf(i, h.new)
        PROVE  Covers(d, o)'
    BY <1>4, <1>6, <1>7 DEF Covers, Grows
  <1>8. CASE Stale(o)
    <2>1. o \notin owed
      BY <1>4
    <2>2. PICK e \in Deployers : Covers(e, o)
      BY <1>8, <2>1 DEF Covered
    <2>3. Grows(e)
      <3>1. CASE e = d
        BY <1>6, <3>1
      <3>2. CASE e # d
        BY <1>1, <2>2, <3>2, OthersSame, SameGrows DEF Step
      <3>3. QED
        BY <3>1, <3>2
    <2>4. CASE o \in ObjsOf(i, rows[i])
      BY <1>4, <1>7, <2>4
    <2>5. CASE o \notin ObjsOf(i, rows[i])
      BY <1>1, <1>2, <1>5, <2>2, <2>3, <2>5, CoverKept
    <2>6. QED
      BY <2>4, <2>5
  <1>9. CASE ~ Stale(o)
    <2>1. View(rows, o) # View(R, o)
      <3>1. policy[o] # None /\ policy[o] # View(rows, o)' /\ policy[o] = View(rows, o)
        BY <1>4, <1>9 DEF Stale
      <3>2. View(rows, o)' = View(R, o)
        BY <1>4 DEF View, RulesOn, ConesOn
      <3>3. QED
        BY <3>1, <3>2
    <2>2. o \in Changed(rows, R)
      BY <2>1 DEF Changed
    <2>3. rows[i] = h.row
      BY <1>4, <2>2
    <2>4. o \in Reaches(rows, i, rows[i], h.new)
      BY <1>1, <1>2, <2>1, Reached
    <2>5. CASE Types[i] = "rule"
      BY <1>7, <2>3, <2>4, <2>5 DEF Reaches
    <2>6. CASE Types[i] = "assign"
      <3>1. o \in ObjectsOfCones(rows, ConesOf(h.row) \cup ConesOf(h.new))
        BY <2>3, <2>4, <2>6 DEF Reaches
      <3>2. \A r \in Of("rule") : rows'[r] = rows[r]
        BY <1>5, <2>6 DEF Of
      <3>3. o \in ObjectsOfCones(rows, affected[d].cones)'
        BY <1>4, <3>1, <3>2 DEF ObjectsOfCones
      <3>4. QED
        BY <1>4, <1>6, <3>3 DEF Covers, Grows
    <2>7. QED
      BY <1>2, <2>5, <2>6
  <1>10. QED
    BY <1>8, <1>9

LEMMA CoveredByCone ==
    ASSUME IInv, Covered, NEW d \in Deployers, NEW i \in Files, ApplyCone(d, i)
    PROVE  Covered'
  <1>1. /\ i \in Items /\ Package[i] \in Contents(i) /\ "invalidate" \in Steps /\ i # "invalidate"
        /\ Types[i] = "cone" /\ pc[d] = "apply" /\ PlanOK(d) /\ TypeOK /\ i \notin done[d]
    BY VisTypes, MetadataDeployAssumption DEF ApplyCone, Turn, IInv, Plans, Visibility, Files
  <1>2. "invalidate" \notin done[d]
    BY <1>1 DEF PlanOK, Running, Applying, Visibility
  <1>3. /\ rows' = [rows EXCEPT ![i] = Package[i]] /\ policy' = policy /\ owed' = owed
        /\ affected'[d].cones = affected[d].cones \cup {i} /\ affected'[d].objs = affected[d].objs
        /\ done'[d] = done[d] \cup {i} /\ pc'[d] = "apply"
    BY <1>1 DEF ApplyCone, Affects, Finished, TypeOK
  <1>4. Grows(d)
    BY <1>1, <1>2, <1>3 DEF Grows, Running, Applying
  <1>5. \A r \in Of("rule") : rows'[r] = rows[r]
    BY <1>1, <1>3 DEF Of
  <1> SUFFICES ASSUME NEW o \in Objects, Stale(o)', o \notin owed'
               PROVE  \E e \in Deployers : Covers(e, o)'
    BY DEF Covered
  <1>6. CASE Stale(o)
    <2>1. PICK e \in Deployers : Covers(e, o)
      BY <1>3, <1>6 DEF Covered
    <2>2. Grows(e)
      <3>1. CASE e = d
        BY <1>4, <3>1
      <3>2. CASE e # d
        BY <1>1, <2>1, <3>2, OthersSame, SameGrows DEF Step
      <3>3. QED
        BY <3>1, <3>2
    <2>3. QED
      BY <1>5, <2>1, <2>2, CoverKeptSame
  <1>7. CASE ~ Stale(o)
    <2>1. View(rows, o) # View([rows EXCEPT ![i] = Package[i]], o)
      <3>1. policy[o] # View(rows, o)' /\ policy[o] = View(rows, o)
        BY <1>3, <1>7 DEF Stale
      <3>2. View(rows, o)' = View([rows EXCEPT ![i] = Package[i]], o)
        BY <1>3 DEF View, RulesOn, ConesOn
      <3>3. QED
        BY <3>1, <3>2
    <2>2. o \in ObjectsOfCones(rows, {i})
      BY <1>1, <2>1, Reached DEF Reaches
    <2>3. o \in ObjectsOfCones(rows, affected[d].cones)'
      BY <1>3, <1>5, <2>2 DEF ObjectsOfCones
    <2>4. QED
      BY <1>3, <1>4, <2>3 DEF Covers, Grows
  <1>8. QED
    BY <1>6, <1>7

LEMMA CoveredByEdit ==
    ASSUME IInv, Covered, NEW e \in Edits, Edit(e)
    PROVE  Covered'
  <1> DEFINE i == e[1]
             new == e[2]
             reached == Reaches(rows, i, rows[i], new)
  <1>1. i \in Items /\ new \in Contents(i) /\ TypeOK
    BY MetadataDeployAssumption DEF IInv
  <1>2. /\ rows' = [rows EXCEPT ![i] = new] /\ policy' = Invalidated(policy, reached)
        /\ owed' = owed \ reached /\ UNCHANGED <<pc, own>>
    BY DEF Edit
  <1>3. \A j \in Items : j # i => rows'[j] = rows[j]
    BY <1>1, <1>2 DEF TypeOK
  <1> HIDE DEF reached
  <1> SUFFICES ASSUME NEW o \in Objects, Stale(o)', o \notin owed'
               PROVE  \E d \in Deployers : Covers(d, o)'
    BY DEF Covered
  <1>4. o \notin reached /\ policy'[o] = policy[o]
    BY <1>2 DEF Stale, Invalidated
  <1>5. View(rows, o)' = View(rows, o)
    <2>1. View(rows, o) = View([rows EXCEPT ![i] = new], o)
      BY <1>1, <1>4, Reached DEF reached
    <2>2. View(rows, o)' = View([rows EXCEPT ![i] = new], o)
      BY <1>2 DEF View, RulesOn, ConesOn
    <2>3. QED
      BY <2>1, <2>2
  <1>6. Stale(o) /\ o \notin owed
    BY <1>2, <1>4, <1>5 DEF Stale
  <1>7. PICK d \in Deployers : Covers(d, o)
    BY <1>6 DEF Covered
  <1>8. o \notin ObjsOf(i, rows[i])
    BY <1>4 DEF reached, Reaches, ObjsOf
  <1>9. Same(d)
    BY <1>2 DEF Same, own
  <1>10. QED
    BY <1>1, <1>3, <1>7, <1>8, <1>9, SameGrows, CoverKept

\* The steps of a deployment that write no visibility record and no policy.
LEMMA CoveredByQuietStep ==
    ASSUME IInv, Covered, NEW d \in Deployers,
           \/ Preview(d) \/ DeployPackage(d) \/ Intent(d) \/ Complete(d) \/ Leave(d)
           \/ \E i \in Files : Upsert(d, i) \/ LookUp(d, i)
           \/ LoadAcl(d) \/ ReplaceAcl(d) \/ ReloadAcl(d)
    PROVE  Covered'
  <1>0. PlanOK(d) /\ TypeOK /\ Step(d)
    BY DEF IInv, Plans, Step
  <1>1. ASSUME NEW e \in Deployers, e # d, NEW o, Covers(e, o) PROVE Grows(e)
    BY <1>0, <1>1, OthersSame, SameGrows
  <1> DEFINE Quiet == /\ policy' = policy /\ owed \subseteq owed'
                      /\ \A j \in Items : Types[j] \in Visibility => rows'[j] = rows[j]
                      /\ \A o \in Objects : Covers(d, o) => Grows(d)
  <1> SUFFICES Quiet
    BY <1>0, <1>1, CoveredQuiet
  <1> USE <1>0 DEF TypeOK, Covers, Grows, Running, Applying
  <1>2. CASE Preview(d) \/ DeployPackage(d) \/ Leave(d)
    BY <1>2 DEF Preview, DeployPackage, Leave, target
  <1>3. CASE Intent(d)
    BY <1>3 DEF Intent, Goto, target
  <1>4. CASE Complete(d)
    <2>1. \A s \in Steps : s # "sync" => s \in done[d]
      BY <1>4, Turns DEF Complete
    <2>2. ASSUME NEW o \in Objects, Covers(d, o) PROVE FALSE
      <3>1. "invalidate" \notin Steps
        BY <2>1, <2>2
      <3>2. affected[d] = Nothing
        BY <3>1, <2>2 DEF PlanOK, Steps
      <3>3. QED
        BY <2>2, <3>2 DEF Nothing, ObjectsOfCones
    <2>3. QED
      BY <1>4, <2>2 DEF Complete, target
  <1>5. ASSUME NEW i \in Files, Upsert(d, i) PROVE Quiet
    <2>1. i # "invalidate" /\ i \in Items /\ Types[i] \notin Visibility
      BY <1>5, MetadataDeployAssumption DEF Upsert, Files, Visibility
    <2>2. QED
      BY <1>5, <2>1 DEF Upsert, Turn, Finished
  <1>6. ASSUME NEW i \in Files, LookUp(d, i) PROVE Quiet
    BY <1>6 DEF LookUp, Turn, Goto, target
  <1>7. CASE LoadAcl(d)
    BY <1>7 DEF LoadAcl, Turn, Goto, target
  <1>8. CASE ReplaceAcl(d)
    <2>1. \A j \in Items : Types[j] \in Visibility => j \notin Acl
      BY DEF Acl, Of, Visibility
    <2>2. QED
      BY <1>8, <2>1 DEF ReplaceAcl, Goto
  <1>9. CASE ReloadAcl(d)
    <2>1. "invalidate" \notin Acl
      BY MetadataDeployAssumption DEF Acl, Of
    <2>2. QED
      BY <1>9, <2>1 DEF ReloadAcl, Goto, Finished
  <1>10. QED
    BY <1>2, <1>3, <1>4, <1>5, <1>6, <1>7, <1>8, <1>9

LEMMA CoveredByListing ==
    ASSUME IInv, Covered, NEW d \in Deployers, ListAffected(d)
    PROVE  Covered'
  <1> SUFFICES ASSUME NEW o \in Objects, Stale(o)', o \notin owed'
               PROVE  \E e \in Deployers : Covers(e, o)'
    BY DEF Covered
  <1>0. TypeOK /\ Step(d)
    BY DEF IInv, Step
  <1>1. /\ rows' = rows /\ policy' = policy /\ owed' = owed /\ done' = done
        /\ pc'[d] = "bump"
        /\ affected'[d].objs = affected[d].objs \cup ObjectsOfCones(rows, affected[d].cones)
    BY <1>0 DEF ListAffected, Affects, Goto, target, TypeOK
  <1>2. View(rows, o)' = View(rows, o)
    BY <1>0, <1>1, OtherRecords
  <1>3. PICK e \in Deployers : Covers(e, o)
    BY <1>1, <1>2 DEF Covered, Stale
  <1>4. CASE e = d
    BY <1>1, <1>3, <1>4 DEF Covers, Running, Applying
  <1>5. CASE e # d
    BY <1>0, <1>1, <1>3, <1>5, OthersSame, SameGrows, CoverKeptSame
  <1>6. QED
    BY <1>4, <1>5

LEMMA CoveredByInvalidation ==
    ASSUME IInv, Covered, NEW d \in Deployers, InvalidatePolicy(d)
    PROVE  Covered'
  <1> SUFFICES ASSUME NEW o \in Objects, Stale(o)', o \notin owed'
               PROVE  \E e \in Deployers : Covers(e, o)'
    BY DEF Covered
  <1>0. TypeOK /\ Step(d)
    BY DEF IInv, Step
  <1>1. /\ rows' = rows /\ policy' = Invalidated(policy, affected[d].objs)
        /\ owed' = owed \ affected[d].objs /\ pc[d] = "bump"
    BY DEF InvalidatePolicy
  <1>2. View(rows, o)' = View(rows, o)
    BY <1>0, <1>1, OtherRecords
  <1>3. o \notin affected[d].objs /\ policy'[o] = policy[o]
    BY <1>1 DEF Stale, Invalidated
  <1>4. PICK e \in Deployers : Covers(e, o)
    BY <1>1, <1>2, <1>3 DEF Covered, Stale
  <1>5. e # d
    BY <1>1, <1>3, <1>4 DEF Covers
  <1>6. QED
    BY <1>0, <1>1, <1>4, <1>5, OthersSame, SameGrows, CoverKeptSame

LEMMA CoveredByFailure ==
    ASSUME IInv, Covered, (\E d \in Deployers : Fail(d)) \/ Crash
    PROVE  Covered'
  <1>1. rows' = rows /\ policy' = policy /\ {o \in Objects : Stale(o)} \subseteq owed'
    BY DEF Fail, Crash, target
  <1>2. \A o \in Objects : Stale(o)' <=> Stale(o)
    BY <1>1, OtherRecords DEF IInv, Stale
  <1>3. QED
    BY <1>1, <1>2 DEF Covered

LEMMA CoveredStep == ASSUME IInv, Covered, [Next]_vars PROVE Covered'
  <1>0. TypeOK
    BY DEF IInv
  <1>1. ASSUME NEW d \in Deployers, Step(d) PROVE Covered'
    BY <1>1, CoveredByQuietStep, CoveredByCone, CoveredByUpsert, CoveredByListing,
       CoveredByInvalidation, CoveredByFailure DEF Step
  <1>2. ASSUME NEW o \in Objects, Evaluate(o) PROVE Covered'
    <2>1. /\ policy' = [policy EXCEPT ![o] = View(rows, o)] /\ rows' = rows
          /\ UNCHANGED <<pc, own, owed>>
      BY <1>2 DEF Evaluate
    <2> SUFFICES ASSUME NEW p \in Objects, Stale(p)', p \notin owed'
                 PROVE  \E e \in Deployers : Covers(e, p)'
      BY DEF Covered
    <2>2. View(rows, p)' = View(rows, p)
      BY <1>0, <2>1, OtherRecords
    <2>3. p # o /\ policy'[p] = policy[p]
      BY <1>0, <2>1, <2>2 DEF Stale, TypeOK
    <2>4. PICK e \in Deployers : Covers(e, p)
      BY <2>1, <2>2, <2>3 DEF Covered, Stale
    <2>5. Same(e)
      BY <2>1 DEF Same, own
    <2>6. QED
      BY <2>1, <2>4, <2>5, SameGrows, CoverKeptSame
  <1>3. ASSUME UNCHANGED <<rows, policy, pc, own, owed>> PROVE Covered'
    <2>1. \A e \in Deployers : Same(e)
      BY <1>3 DEF Same, own
    <2>2. QED
      BY <1>0, <1>3, <2>1, SameGrows, CoveredQuiet
  <1>4. ASSUME NEW i \in Items, ReadConfig(i) PROVE Covered'
    BY <1>3, <1>4 DEF ReadConfig
  <1>5. ASSUME NEW e \in Edits, Edit(e) PROVE Covered'
    BY <1>5, CoveredByEdit
  <1>6. CASE Crash
    BY <1>6, CoveredByFailure
  <1>7. CASE UNCHANGED vars
    BY <1>3, <1>7 DEF vars, own
  <1>8. QED
    BY <1>1, <1>2, <1>4, <1>5, <1>6, <1>7 DEF Next

\* A deployment that fails or overwrites a move it had not seen is the only one that
\* leaves cached policies behind; any other has yet to invalidate what is stale.
THEOREM PoliciesCatchUp == Spec => []StaleOnlyAfterFailure
  <1>1. Init => Covered
    BY DEF Init, Covered, Stale
  <1>2. IInv /\ Covered /\ [Next]_vars => Covered'
    BY CoveredStep
  <1>3. IInv /\ Covered => StaleOnlyAfterFailure
    <2> SUFFICES ASSUME IInv, Covered, NEW o \in Objects, Stale(o), o \notin owed
                 PROVE  \E d \in Deployers :
                          /\ Running(d) /\ "invalidate" \notin done[d]
                          /\ \E i \in done[d] : Kind(i) \in Visibility
      BY DEF StaleOnlyAfterFailure
    <2>1. PICK d \in Deployers : Covers(d, o)
      BY DEF Covered
    <2>2. affected[d] # Nothing
      BY <2>1 DEF Covers, Nothing, ObjectsOfCones
    <2>3. PICK i \in done[d] : i \in Files /\ Types[i] \in Visibility
      BY <2>1, <2>2 DEF IInv, Plans, PlanOK, Covers
    <2>4. Kind(i) \in Visibility
      BY <2>3 DEF Kind
    <2>5. QED
      BY <2>1, <2>3, <2>4 DEF Covers
  <1>4. QED
    BY <1>1, <1>2, <1>3, Inductive, PTL DEF Spec
-----------------------------------------------------------------------------
(* What a deployment overwrites. *)

\* What deployment d has yet to write is as its preview showed it, or somebody wrote
\* it since; so are the access rules it has read.
FreshOf(d) ==
    /\ Running(d) => \A i \in Files \ done[d] :
           \/ i \in touched[d] \/ rows[i] = seen[d][i]
           \/ pc[d] = "reload" /\ i \in Acl
    /\ pc[d] = "replace" => \A i \in Acl : held[d][i] = rows[i] \/ i \in touched[d]
Fresh == \A d \in Deployers : FreshOf(d)

LEMMA FreshKept ==
    ASSUME NEW e \in Deployers, FreshOf(e), Same(e), touched[e] \subseteq touched'[e],
           \A i \in Items : rows'[i] = rows[i] \/ i \in touched'[e]
    PROVE  FreshOf(e)'
  BY VisTypes DEF FreshOf, Same, Running

\* A deployment records what it writes with all the others.
LEMMA OthersAreTold ==
    ASSUME IInv, NEW d \in Deployers, Step(d), NEW e \in Deployers, e # d
    PROVE  /\ touched[e] \subseteq touched'[e]
           /\ \A i \in Items : rows'[i] = rows[i] \/ i \in touched'[e]
  <1> USE DEF IInv, TypeOK
  <1>1. CASE Preview(d) \/ DeployPackage(d) \/ Intent(d) \/ Complete(d) \/ Fail(d) \/ Leave(d)
    BY <1>1 DEF Preview, DeployPackage, Intent, Complete, Fail, Leave, target
  <1>2. ASSUME NEW i \in Files, Upsert(d, i) \/ ApplyCone(d, i) \/ LookUp(d, i)
        PROVE  /\ touched[e] \subseteq touched'[e]
               /\ \A j \in Items : rows'[j] = rows[j] \/ j \in touched'[e]
    BY <1>2 DEF Upsert, ApplyCone, LookUp, TouchedBy, target
  <1>3. CASE LoadAcl(d) \/ ReplaceAcl(d) \/ ReloadAcl(d)
    BY <1>3 DEF LoadAcl, ReplaceAcl, ReloadAcl, TouchedBy, target
  <1>4. CASE UpsertPolicyRow(d)
    BY <1>4 DEF UpsertPolicyRow, TouchedBy
  <1>5. CASE ListAffected(d) \/ InvalidatePolicy(d)
    BY <1>5 DEF ListAffected, InvalidatePolicy, target
  <1>6. QED
    BY <1>1, <1>2, <1>3, <1>4, <1>5 DEF Step

\* Nothing that deployment d noted or wrote changes but what it finishes.
LEMMA OwnFreshKept ==
    ASSUME NEW d \in Deployers, FreshOf(d), Running(d), pc[d] # "reload",
           pc'[d] \notin {"replace", "reload"}, done[d] \subseteq done'[d],
           seen'[d] = seen[d], touched'[d] = touched[d],
           \A i \in Files : i \notin done'[d] => rows'[i] = rows[i]
    PROVE  FreshOf(d)'
  BY DEF FreshOf

LEMMA OwnFresh ==
    ASSUME IInv, Fresh, NEW d \in Deployers, Step(d)
    PROVE  FreshOf(d)'
  <1>0. TypeOK /\ PlanOK(d) /\ FreshOf(d)
    BY DEF IInv, Plans, Fresh
  <1> USE <1>0 DEF TypeOK, Running, Applying
  <1>1. CASE Preview(d) \/ Complete(d) \/ Fail(d) \/ Leave(d)
    BY <1>1 DEF Preview, Complete, Fail, Leave, Goto, FreshOf
  <1>2. CASE DeployPackage(d)
    BY <1>2 DEF DeployPackage, Goto, FreshOf, Fingerprint, target
  <1>3. CASE Intent(d)
    BY <1>3, OwnFreshKept DEF Intent, Goto, target
  <1>4. ASSUME NEW i \in Files, Upsert(d, i) PROVE FreshOf(d)'
    BY <1>4, OwnFreshKept DEF Upsert, Turn, Finished, TouchedBy
  <1>5. ASSUME NEW i \in Files, ApplyCone(d, i) PROVE FreshOf(d)'
    BY <1>5, OwnFreshKept DEF ApplyCone, Turn, Finished, TouchedBy
  <1>6. ASSUME NEW i \in Files, LookUp(d, i) PROVE FreshOf(d)'
    BY <1>6, OwnFreshKept DEF LookUp, Turn, Goto, target
  <1>7. CASE LoadAcl(d)
    BY <1>7 DEF LoadAcl, Turn, Goto, FreshOf, target
  <1>8. CASE ReplaceAcl(d)
    BY <1>8, VisTypes DEF ReplaceAcl, Goto, FreshOf, TouchedBy
  <1>9. CASE ReloadAcl(d)
    BY <1>9 DEF ReloadAcl, Goto, FreshOf, Finished
  <1>10. CASE UpsertPolicyRow(d)
    <2>1. pc[d] = "upsert" /\ held[d].item \in Files
      BY <1>10 DEF UpsertPolicyRow, PlanOK
    <2>2. /\ rows' = [rows EXCEPT ![held[d].item] = held[d].new] /\ pc'[d] = "apply"
          /\ done'[d] = done[d] \cup {held[d].item} /\ touched'[d] = touched[d] /\ seen' = seen
      BY <1>10 DEF UpsertPolicyRow, Finished, TouchedBy, Goto
    <2>3. QED
      BY <2>1, <2>2, VisTypes, OwnFreshKept
  <1>11. CASE ListAffected(d)
    BY <1>11, OwnFreshKept DEF ListAffected, Turn, Goto, target
  <1>12. CASE InvalidatePolicy(d)
    BY <1>12, OwnFreshKept DEF InvalidatePolicy, Finished, Goto
  <1>13. QED
    BY <1>1, <1>2, <1>3, <1>4, <1>5, <1>6, <1>7, <1>8, <1>9, <1>10, <1>11, <1>12 DEF Step

LEMMA FreshStep == ASSUME IInv, Fresh, [Next]_vars PROVE Fresh'
  <1> SUFFICES ASSUME NEW e \in Deployers PROVE FreshOf(e)'
    BY DEF Fresh
  <1>0. TypeOK /\ FreshOf(e)
    BY DEF IInv, Fresh
  <1>1. ASSUME NEW d \in Deployers, Step(d) PROVE FreshOf(e)'
    BY <1>0, <1>1, OwnFresh, OthersSame, OthersAreTold, FreshKept
  <1>2. ASSUME UNCHANGED <<rows, pc, own, touched>> PROVE FreshOf(e)'
    BY <1>0, <1>2, FreshKept DEF own, Same
  <1>3. ASSUME NEW x \in Edits, Edit(x) PROVE FreshOf(e)'
    <2>1. Same(e) /\ touched'[e] = touched[e] \cup {x[1]}
      BY <1>3 DEF Edit, Same, own
    <2>2. \A i \in Items : rows'[i] = rows[i] \/ i \in touched'[e]
      BY <1>0, <1>3, <2>1 DEF Edit, TypeOK
    <2>3. QED
      BY <1>0, <2>1, <2>2, FreshKept
  <1>4. CASE Crash
    BY <1>0, <1>4 DEF Crash, FreshOf, TypeOK, Running, Applying
  <1>5. QED
    BY <1>1, <1>2, <1>3, <1>4 DEF Next, Evaluate, ReadConfig, vars, own

\* What deployment d may change with a step of its own.
Overwritten(d) == \A i \in Items : rows'[i] # rows[i] =>
                     (i \in Files /\ rows[i] = seen[d][i]) \/ i \in touched[d]

LEMMA OwnOverwrites ==
    ASSUME IInv, Fresh, NEW d \in Deployers, Step(d)
    PROVE  Overwritten(d)
  <1>0. TypeOK /\ PlanOK(d) /\ FreshOf(d)
    BY DEF IInv, Plans, Fresh
  <1> USE <1>0 DEF TypeOK, Running, Applying, Overwritten
  <1>1. CASE rows' = rows
    BY <1>1
  <1>2. ASSUME NEW i \in Files, Upsert(d, i) \/ ApplyCone(d, i) PROVE Overwritten(d)
    BY <1>2 DEF Upsert, ApplyCone, Turn, FreshOf
  <1>3. CASE ReplaceAcl(d)
    <2>1. pc[d] = "replace" /\ Running(d) /\ \A i \in Acl : held[d][i] = rows[i] \/ i \in touched[d]
      BY <1>3 DEF ReplaceAcl, FreshOf
    <2>2. \A i \in Acl \cap Files : i \notin done[d] /\ (i \in touched[d] \/ rows[i] = seen[d][i])
      BY <2>1 DEF PlanOK, FreshOf
    <2>3. QED
      BY <1>3, <2>1, <2>2 DEF ReplaceAcl
  <1>4. CASE UpsertPolicyRow(d)
    <2>1. pc[d] = "upsert" /\ held[d].item \in Files \ done[d]
      BY <1>4 DEF UpsertPolicyRow, PlanOK
    <2>2. rows' = [rows EXCEPT ![held[d].item] = held[d].new]
      BY <1>4 DEF UpsertPolicyRow
    <2>3. held[d].item \in touched[d] \/ rows[held[d].item] = seen[d][held[d].item]
      BY <2>1 DEF FreshOf
    <2>4. QED
      BY <2>1, <2>2, <2>3
  <1>5. QED
    BY <1>1, <1>2, <1>3, <1>4 DEF Step, Preview, DeployPackage, Intent, LookUp, LoadAcl,
       ReloadAcl, ListAffected, InvalidatePolicy, Complete, Fail, Leave, target

\* A deployment writes only what its package names, and over nothing its preview did
\* not show, unless somebody else wrote it after the comparison.
THEOREM PreviewedOverwrites == Spec => OverwritesWhatWasPreviewed
  <1> DEFINE A == \A d \in Deployers : pc'[d] # pc[d] \/ done'[d] # done[d] =>
                     \A i \in Items : rows'[i] # rows[i] =>
                        (i \in Files /\ rows[i] = seen[d][i]) \/ i \in touched[d]
  <1>1. Init => Fresh
    BY DEF Init, Fresh, FreshOf, Running, Applying
  <1>2. IInv /\ Fresh /\ [Next]_vars => Fresh'
    BY FreshStep
  <1>3. IInv /\ Fresh /\ [Next]_vars => [A]_vars
    <2> SUFFICES ASSUME IInv, Fresh, Next, NEW d \in Deployers,
                        pc'[d] # pc[d] \/ done'[d] # done[d], rows' # rows
                 PROVE  Overwritten(d)
      BY DEF Overwritten
    <2>1. PICK e \in Deployers : Step(e)
      BY DEF Next, Evaluate, ReadConfig, Edit, Crash, own
    <2>2. e = d
      BY <2>1, OthersSame DEF IInv, Same
    <2>3. QED
      BY <2>1, <2>2, OwnOverwrites
  <1>4. QED
    BY <1>1, <1>2, <1>3, Inductive, PTL DEF Spec, OverwritesWhatWasPreviewed

-----------------------------------------------------------------------------
(* What a deployment that succeeded leaves. *)

Live(d) == Running(d) \/ audit[d] = "SUCCESS"
Written(d, i) == i \in done[d] \/ (pc[d] = "reload" /\ i \in Acl)

\* What deployment d has written stands as it resolved it, and the access rules it
\* has reloaded are those of the table, but for what somebody wrote since.
ServedOf(d) ==
    /\ audit[d] = "SUCCESS" => pc[d] = "done" /\ Files \subseteq done[d]
    /\ pc[d] \in {"replace", "reload"} => Acl \cap Files # {}
    /\ Live(d) => \A i \in Files :
           Written(d, i) => i \in touched[d] \/ rows[i] \in Resolved(i)
    /\ Live(d) /\ Acl \cap Files # {} /\ Acl \cap Files \subseteq done[d] =>
           \A i \in Acl : i \in touched[d] \/ memory[i] = rows[i]

\* Entities and templates are evicted with each write; without access rules in the
\* package only those who reload them write them.
MemoryOK ==
    /\ \A i \in Cached : memory[i] = None \/ memory[i] = rows[i]
    /\ Acl \cap Files = {} => \A i \in Acl : memory[i] = rows[i]
Served == \A d \in Deployers : ServedOf(d)

\* A change of another deployer or administrator.
Apart(e) ==
    /\ Same(e) /\ audit'[e] = audit[e] /\ touched[e] \subseteq touched'[e]
    /\ \A i \in Items : rows'[i] = rows[i] \/ i \in touched'[e]
    /\ \A i \in Acl : \/ memory'[i] = rows'[i] \/ i \in touched'[e]
                      \/ memory'[i] = memory[i] /\ rows'[i] = rows[i]

LEMMA ServedKept == ASSUME NEW e \in Deployers, ServedOf(e), Apart(e) PROVE ServedOf(e)'
  <1> USE DEF Apart, Same
  <1>1. /\ Live(e)' <=> Live(e)
        /\ \A i : Written(e, i)' <=> Written(e, i)
    BY DEF Live, Running, Written
  <1>2. ASSUME Live(e)', NEW i \in Files, Written(e, i)'
        PROVE  i \in touched'[e] \/ rows'[i] \in Resolved(i)
    BY <1>1, <1>2, VisTypes DEF ServedOf
  <1>3. ASSUME Live(e)', Acl \cap Files # {}, Acl \cap Files \subseteq done'[e], NEW i \in Acl
        PROVE  i \in touched'[e] \/ memory'[i] = rows'[i]
    BY <1>1, <1>3 DEF ServedOf
  <1>4. Resolved(1)' = Resolved(1) /\ \A i : Resolved(i)' = Resolved(i)
    BY DEF Resolved
  <1>5. QED
    BY <1>2, <1>3, <1>4 DEF ServedOf

\* Access rules change with their reload, or are recorded with all the others.
LEMMA OthersApart ==
    ASSUME IInv, NEW d \in Deployers, Step(d), NEW e \in Deployers, e # d
    PROVE  Apart(e)
  <1> USE DEF IInv, TypeOK
  <1> DEFINE Rest == /\ audit'[e] = audit[e]
                     /\ \A i \in Acl : \/ memory'[i] = rows'[i] \/ i \in touched'[e]
                                       \/ memory'[i] = memory[i] /\ rows'[i] = rows[i]
  <1>1. ASSUME Preview(d) \/ DeployPackage(d) \/ Intent(d) \/ Complete(d) \/ Fail(d) \/ Leave(d) PROVE Rest
    <2>1. rows' = rows /\ memory' = memory
      BY <1>1 DEF Preview, DeployPackage, Intent, Complete, Fail, Leave, target
    <2>2. audit'[e] = audit[e]
      BY <1>1 DEF Preview, DeployPackage, Intent, Complete, Fail, Leave, own
    <2>3. QED
      BY <2>1, <2>2
  <1>2. ASSUME NEW i \in Files, Upsert(d, i) \/ ApplyCone(d, i) \/ LookUp(d, i) PROVE Rest
    <2>1. CASE Upsert(d, i)
      <3>1. i \notin Acl
        BY <2>1 DEF Upsert, Acl, Of
      <3>2. QED
        BY <2>1, <3>1, VisTypes DEF Upsert
    <2>2. CASE ApplyCone(d, i)
      <3>1. i \notin Acl
        BY <2>2 DEF ApplyCone, Acl, Of
      <3>2. QED
        BY <2>2, <3>1, VisTypes DEF ApplyCone
    <2>3. CASE LookUp(d, i)
      BY <2>3 DEF LookUp, target
    <2>4. QED
      BY <1>2, <2>1, <2>2, <2>3
  <1>3. ASSUME LoadAcl(d) PROVE Rest
    BY <1>3 DEF LoadAcl, target
  <1>4. ASSUME ReplaceAcl(d) PROVE Rest
    BY <1>4 DEF ReplaceAcl, TouchedBy
  <1>5. ASSUME ReloadAcl(d) PROVE Rest
    BY <1>5 DEF ReloadAcl
  <1>6. ASSUME UpsertPolicyRow(d) PROVE Rest
    <2>1. held[d].item \in Items /\ held[d].item \notin Acl
      BY <1>6, HeldType DEF UpsertPolicyRow, Acl, Of
    <2>2. rows' = [rows EXCEPT ![held[d].item] = held[d].new] /\ memory' = memory /\ audit' = audit
      BY <1>6 DEF UpsertPolicyRow
    <2>3. QED
      BY <2>1, <2>2, VisTypes
  <1>7. ASSUME ListAffected(d) \/ InvalidatePolicy(d) PROVE Rest
    BY <1>7 DEF ListAffected, InvalidatePolicy, target
  <1>8. Rest
    BY <1>1, <1>2, <1>3, <1>4, <1>5, <1>6, <1>7 DEF Step
  <1>9. QED
    BY <1>8, OthersSame, OthersAreTold DEF Apart

\* A deployment that goes on has only finished more, of what is as it resolved it;
\* of access rules it has finished none, or they are as they were.
LEMMA OwnServedKept ==
    ASSUME NEW d \in Deployers, ServedOf(d), PlanOK(d), Running(d), pc[d] # "reload",
           pc'[d] \notin {"reload", "done", "replace"}, audit'[d] # "SUCCESS",
           touched'[d] = touched[d],
           \A i \in Files : \/ i \in done'[d] /\ rows'[i] \in Resolved(i)
                            \/ rows'[i] = rows[i] /\ (i \in done'[d] => i \in done[d]),
           Acl \cap Files \cap done'[d] = Acl \cap Files \cap done[d],
           \A i \in Acl : memory'[i] = memory[i] /\ rows'[i] = rows[i]
    PROVE  ServedOf(d)'
  <1>1. \A i : Resolved(i)' = Resolved(i)
    BY DEF Resolved
  <1>2. ASSUME NEW i \in Files, Written(d, i)'
        PROVE  i \in touched'[d] \/ rows'[i] \in Resolved(i)
    BY <1>2 DEF ServedOf, Live, Written
  <1>3. ASSUME Acl \cap Files # {}, Acl \cap Files \subseteq done'[d], NEW i \in Acl
        PROVE  i \in touched'[d] \/ memory'[i] = rows'[i]
    BY <1>3 DEF ServedOf, Live
  <1>4. QED
    BY <1>1, <1>2, <1>3 DEF ServedOf

LEMMA OwnServed ==
    ASSUME IInv, Served, NEW d \in Deployers, Step(d)
    PROVE  ServedOf(d)'
  <1>0. TypeOK /\ PlanOK(d) /\ ServedOf(d)
    BY DEF IInv, Plans, Served
  <1>a. \A i : Resolved(i)' = Resolved(i) /\ Package[i] \in Resolved(i)
    BY DEF Resolved
  <1>b. pc[d] # "done" => audit[d] # "SUCCESS"
    BY <1>0 DEF ServedOf
  <1> USE <1>0 DEF TypeOK, Running, Applying
  <1>1. CASE Preview(d) \/ Fail(d) \/ Leave(d)
    BY <1>1 DEF Preview, Fail, Leave, Goto, ServedOf, Live
  <1>2. CASE DeployPackage(d)
    <2>1. done'[d] = {} /\ audit'[d] # "SUCCESS" /\ pc'[d] \in {"idle", "intent"}
      BY <1>2, <1>b DEF DeployPackage, Goto, PlanOK
    <2>2. QED
      BY <2>1 DEF ServedOf, Written
  <1>3. CASE Intent(d)
    <2>1. done'[d] = {} /\ audit'[d] = "PENDING" /\ pc'[d] = "apply"
      BY <1>3 DEF Intent, Goto, PlanOK
    <2>2. QED
      BY <2>1 DEF ServedOf, Written
  <1>4. ASSUME NEW i \in Files, Upsert(d, i) PROVE ServedOf(d)'
    <2>1. i \notin Acl
      BY <1>4 DEF Upsert, Acl, Of
    <2>2. /\ pc[d] = "apply" /\ pc'[d] = "apply" /\ audit'[d] # "SUCCESS" /\ touched'[d] = touched[d]
          /\ done'[d] = done[d] \cup {i} /\ rows' = [rows EXCEPT ![i] = Package[i]]
          /\ \A j \in Acl : memory'[j] = memory[j]
      BY <1>4, <1>b, <2>1 DEF Upsert, Turn, Finished, TouchedBy
    <2>3. QED
      BY <1>a, <2>1, <2>2, VisTypes, OwnServedKept
  <1>5. ASSUME NEW i \in Files, ApplyCone(d, i) PROVE ServedOf(d)'
    <2>1. i \notin Acl
      BY <1>5 DEF ApplyCone, Acl, Of
    <2>2. /\ pc[d] = "apply" /\ pc'[d] = "apply" /\ audit'[d] # "SUCCESS" /\ touched'[d] = touched[d]
          /\ done'[d] = done[d] \cup {i} /\ rows' = [rows EXCEPT ![i] = Package[i]]
          /\ memory' = memory
      BY <1>5, <1>b DEF ApplyCone, Turn, Finished, TouchedBy
    <2>3. QED
      BY <1>a, <2>1, <2>2, VisTypes, OwnServedKept
  <1>6. ASSUME NEW i \in Files, LookUp(d, i) PROVE ServedOf(d)'
    BY <1>6, <1>b, OwnServedKept DEF LookUp, Turn, Goto, target
  <1>7. CASE LoadAcl(d)
    <2>1. PICK i \in Acl : Turn(d, i)
      BY <1>7 DEF LoadAcl
    <2>2. i \in Files /\ i \notin done[d] /\ pc[d] = "apply"
      BY <2>1, MetadataDeployAssumption DEF Turn, Steps, Acl, Of
    <2>3. pc'[d] = "replace" /\ UNCHANGED <<rows, memory, done, audit, touched>>
      BY <1>7, <2>2 DEF LoadAcl, Goto, target
    <2>4. \A j \in Files : Written(d, j)' => Written(d, j)
      BY <2>3 DEF Written
    <2>5. QED
      BY <1>a, <1>b, <2>1, <2>2, <2>3, <2>4 DEF ServedOf, Live
  <1>8. CASE ReplaceAcl(d)
    <2>1. /\ pc[d] = "replace" /\ pc'[d] = "reload" /\ done' = done /\ audit'[d] # "SUCCESS"
          /\ touched'[d] = touched[d] /\ Acl \cap Files # {}
          /\ \A i \in Files : rows'[i] = IF i \in Acl THEN Package[i] ELSE rows[i]
      BY <1>8, <1>b, VisTypes DEF ReplaceAcl, Goto, TouchedBy, ServedOf
    <2>2. Acl \cap Files \cap done[d] = {}
      BY <2>1 DEF PlanOK
    <2>3. \A i \in Files : Written(d, i)' => i \in touched'[d] \/ rows'[i] \in Resolved(i)
      BY <1>a, <2>1 DEF ServedOf, Live, Written
    <2>4. QED
      BY <1>a, <2>1, <2>2, <2>3 DEF ServedOf
  <1>9. CASE ReloadAcl(d)
    <2>1. /\ pc[d] = "reload" /\ pc'[d] = "apply" /\ audit'[d] # "SUCCESS"
          /\ done'[d] = done[d] \cup (Acl \cap Files) /\ UNCHANGED <<rows, touched>>
          /\ \A i \in Acl : memory'[i] = rows[i]
      BY <1>9, <1>b DEF ReloadAcl, Goto, Finished
    <2>2. \A i \in Files : Written(d, i)' => Written(d, i)
      BY <2>1 DEF Written
    <2>3. QED
      BY <1>a, <2>1, <2>2 DEF ServedOf, Live
  <1>10. CASE UpsertPolicyRow(d)
    <2>1. pc[d] = "upsert" /\ held[d].item \in Files /\ held[d].item \in Items
          /\ held[d].item \notin Acl /\ held[d].new \in Resolved(held[d].item)
      BY <1>10, HeldType DEF UpsertPolicyRow, PlanOK, Acl, Of
    <2>2. /\ rows' = [rows EXCEPT ![held[d].item] = held[d].new] /\ pc'[d] = "apply"
          /\ done'[d] = done[d] \cup {held[d].item} /\ touched'[d] = touched[d]
          /\ memory' = memory /\ audit' = audit
      BY <1>10 DEF UpsertPolicyRow, Finished, TouchedBy, Goto
    <2>3. QED
      BY <1>b, <2>1, <2>2, VisTypes, OwnServedKept
  <1>11. CASE ListAffected(d)
    BY <1>11, <1>b, OwnServedKept DEF ListAffected, Turn, Goto, target
  <1>12. CASE InvalidatePolicy(d)
    <2>1. "invalidate" \notin Files
      BY MetadataDeployAssumption DEF Files
    <2>2. QED
      BY <1>12, <1>b, <2>1, OwnServedKept DEF InvalidatePolicy, Finished, Goto
  <1>13. CASE Complete(d)
    <2>1. "sync" \notin Files /\ \A s \in Steps : s # "sync" => s \in done[d]
      BY <1>13, Turns, MetadataDeployAssumption DEF Complete, Files
    <2>2. Files \subseteq done[d]
      BY <2>1 DEF Steps
    <2>3. /\ pc[d] = "apply" /\ pc'[d] = "done" /\ done[d] \subseteq done'[d]
          /\ UNCHANGED <<rows, memory, touched>>
      BY <1>13 DEF Complete, Turn, Finished, Goto, target
    <2>4. QED
      BY <1>a, <2>2, <2>3 DEF ServedOf, Live, Written
  <1>14. QED
    BY <1>1, <1>2, <1>3, <1>4, <1>5, <1>6, <1>7, <1>8, <1>9, <1>10, <1>11, <1>12, <1>13 DEF Step

LEMMA ServedStep == ASSUME IInv, Served, [Next]_vars PROVE Served'
  <1> SUFFICES ASSUME NEW e \in Deployers PROVE ServedOf(e)'
    BY DEF Served
  <1>0. TypeOK /\ ServedOf(e)
    BY DEF IInv, Served
  <1>1. ASSUME NEW d \in Deployers, Step(d) PROVE ServedOf(e)'
    BY <1>0, <1>1, OwnServed, OthersApart, ServedKept
  <1>2. ASSUME UNCHANGED <<rows, pc, own, touched>>, \A i \in Acl : memory'[i] = memory[i]
        PROVE  ServedOf(e)'
    BY <1>0, <1>2, ServedKept DEF own, Same, Apart
  <1>3. ASSUME NEW i \in Items, ReadConfig(i) PROVE ServedOf(e)'
    BY <1>0, <1>2, <1>3, VisTypes DEF ReadConfig, TypeOK
  <1>4. ASSUME NEW x \in Edits, Edit(x) PROVE ServedOf(e)'
    <2>1. Same(e) /\ audit' = audit /\ touched'[e] = touched[e] \cup {x[1]}
      BY <1>4 DEF Edit, Same, own
    <2>2. \A i \in Items : rows'[i] = rows[i] \/ i \in touched'[e]
      BY <1>0, <1>4, <2>1 DEF Edit, TypeOK
    <2>3. \A i \in Acl : memory'[i] = rows'[i]
      BY <1>4 DEF Edit
    <2>4. QED
      BY <1>0, <2>1, <2>2, <2>3, ServedKept DEF Apart
  <1>5. CASE Crash
    <2>1. CASE Running(e)
      BY <1>0, <1>5, <2>1 DEF Crash, ServedOf, Live, TypeOK, Running, Applying
    <2>2. CASE ~ Running(e)
      <3>1. /\ pc'[e] = pc[e] /\ done'[e] = done[e] /\ touched'[e] = touched[e] /\ audit'[e] = audit[e]
            /\ rows' = rows /\ \A i \in Acl : memory'[i] = rows'[i]
        BY <1>5, <2>2 DEF Crash
      <3>2. /\ Live(e)' <=> Live(e)
            /\ \A i : Written(e, i)' <=> Written(e, i)
            /\ \A i : Resolved(i)' = Resolved(i)
        BY <3>1 DEF Live, Running, Written, Resolved
      <3>3. QED
        BY <1>0, <3>1, <3>2 DEF ServedOf
    <2>3. QED
      BY <2>1, <2>2
  <1>6. ASSUME NEW o \in Objects, Evaluate(o) PROVE ServedOf(e)'
    BY <1>2, <1>6 DEF Evaluate
  <1>7. CASE UNCHANGED vars
    BY <1>2, <1>7 DEF vars, own
  <1>8. QED
    BY <1>1, <1>3, <1>4, <1>5, <1>6, <1>7 DEF Next

LEMMA MemoryStep == ASSUME IInv, Served, MemoryOK, [Next]_vars PROVE MemoryOK'
  <1>0. TypeOK /\ Plans
    BY DEF IInv
  <1> USE <1>0, VisTypes DEF TypeOK, MemoryOK
  <1>1. ASSUME rows' = rows, memory' = memory PROVE MemoryOK'
    BY <1>1
  <1>2. ASSUME NEW d \in Deployers, NEW i \in Files, Upsert(d, i) PROVE MemoryOK'
    <2>1. i \notin Acl
      BY <1>2 DEF Upsert, Acl, Of
    <2>2. QED
      BY <1>2, <2>1 DEF Upsert
  <1>3. ASSUME memory' = memory, NEW i \in Items, Types[i] \in Visibility,
               \A j \in Items : j # i => rows'[j] = rows[j]
        PROVE  MemoryOK'
    <2>1. i \notin Acl \cup Cached
      BY <1>3 DEF Acl, Cached, Of, Visibility
    <2>2. QED
      BY <1>3, <2>1
  <1>4. ASSUME NEW d \in Deployers, NEW i \in Files, ApplyCone(d, i) PROVE MemoryOK'
    BY <1>3, <1>4 DEF ApplyCone, Visibility
  <1>5. ASSUME NEW d \in Deployers, UpsertPolicyRow(d) PROVE MemoryOK'
    <2>1. held[d].item \in Items /\ Types[held[d].item] \in Visibility
      BY <1>5, HeldType DEF UpsertPolicyRow, Visibility
    <2>2. rows' = [rows EXCEPT ![held[d].item] = held[d].new] /\ memory' = memory
      BY <1>5 DEF UpsertPolicyRow
    <2>3. QED
      BY <1>3, <2>1, <2>2
  <1>6. ASSUME NEW d \in Deployers, ReplaceAcl(d) PROVE MemoryOK'
    <2>1. Acl \cap Files # {}
      BY <1>6 DEF ReplaceAcl, Served, ServedOf
    <2>2. memory' = memory /\ \A j \in Cached : rows'[j] = rows[j]
      BY <1>6 DEF ReplaceAcl
    <2>3. QED
      BY <2>1, <2>2
  <1>7. ASSUME NEW d \in Deployers, ReloadAcl(d) PROVE MemoryOK'
    BY <1>7 DEF ReloadAcl
  <1>8. ASSUME NEW d \in Deployers, Step(d) PROVE MemoryOK'
    BY <1>1, <1>2, <1>4, <1>5, <1>6, <1>7, <1>8 DEF Step, Preview, DeployPackage, Intent, LookUp,
       LoadAcl, ListAffected, InvalidatePolicy, Complete, Fail, Leave, target
  <1>9. ASSUME NEW i \in Items, ReadConfig(i) PROVE MemoryOK'
    BY <1>9 DEF ReadConfig
  <1>10. ASSUME NEW x \in Edits, Edit(x) PROVE MemoryOK'
    BY <1>10 DEF Edit
  <1>11. CASE Crash
    BY <1>11 DEF Crash
  <1>12. QED
    BY <1>1, <1>8, <1>9, <1>10, <1>11 DEF Next, Evaluate, vars, target

\* Once a deployment has succeeded and nobody else wrote, the tables hold its
\* package, the process answers from them, and a policy that lags behind is owed by
\* a deployment that failed or is still under way.
THEOREM DeployedServed == Spec => []DeployedIsServed
  <1>1. Init => Served /\ MemoryOK /\ Covered
    BY VisTypes DEF Init, Served, ServedOf, MemoryOK, Live, Running, Applying, Covered, Stale
  <1>2. IInv /\ Served /\ MemoryOK /\ Covered /\ [Next]_vars => (Served /\ MemoryOK /\ Covered)'
    BY ServedStep, MemoryStep, CoveredStep
  <1>3. IInv /\ Served /\ MemoryOK /\ Covered => DeployedIsServed
    <2> SUFFICES ASSUME IInv, Served, MemoryOK, Covered,
                        NEW d \in Deployers, audit[d] = "SUCCESS", touched[d] = {}
                 PROVE  /\ \A i \in Files :
                            \/ rows[i] = Package[i]
                            \/ Types[i] = "assign" /\ rows[i] = [Package[i] EXCEPT !.contact = FALSE]
                        /\ \A i \in DOMAIN memory :
                               memory[i] = rows[i] \/ (i \in Cached /\ memory[i] = None)
                        /\ \A o \in Objects : Stale(o) => o \in owed \/ \E e \in Deployers : Running(e)
      BY DEF DeployedIsServed
    <2>1. ServedOf(d) /\ Live(d) /\ Files \subseteq done[d]
      BY DEF Served, ServedOf, Live
    <2>2. ASSUME NEW i \in Files PROVE rows[i] \in Resolved(i)
      BY <2>1 DEF ServedOf, Written
    <2>3. \A i \in Files : \/ rows[i] = Package[i]
                           \/ Types[i] = "assign" /\ rows[i] = [Package[i] EXCEPT !.contact = FALSE]
      BY <2>2 DEF Resolved
    <2>4. \A i \in Acl : memory[i] = rows[i]
      BY <2>1 DEF ServedOf, MemoryOK
    <2>5. \A i \in DOMAIN memory : memory[i] = rows[i] \/ (i \in Cached /\ memory[i] = None)
      BY <2>4 DEF MemoryOK, IInv, TypeOK
    <2>6. \A o \in Objects : Stale(o) => o \in owed \/ \E e \in Deployers : Running(e)
      BY DEF Covered, Covers
    <2>7. QED
      BY <2>3, <2>5, <2>6
  <1>4. QED
    BY <1>1, <1>2, <1>3, Inductive, PTL DEF Spec
=============================================================================
