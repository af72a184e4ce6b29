------------------------ MODULE MCVisibilityDecision ------------------------
(* Small instances of VisibilityDecision for the model checker. *)
EXTENDS VisibilityDecision

A == <<"Account">>
AN == <<"Account", "Name">>
B == <<"Phone">>

MCNames == {"Account", "Name", "Phone"}
MCPaths == {A, AN, B}
MCRecords == {"p1", "p2"}

Lists == {{}, {A}, {AN}, {AN, B}}
Hidden == {{}, {A}, {AN}}

Allow(cone, valid, when, allowed, denied) ==
    [cone |-> cone, effect |-> "ALLOW", valid |-> valid, when |-> when,
     allowed |-> allowed, denied |-> denied]
Deny(cone, when, denied) ==
    [cone |-> cone, effect |-> "DENY", valid |-> TRUE, when |-> when,
     allowed |-> {}, denied |-> denied]

Select(contact, permission, trait) ==
    [contact |-> contact, permission |-> permission, trait |-> trait]

\* Two ALLOW rules, in one cone or in two, then perhaps a DENY rule.
MCRules ==
    {<<Allow("k1", TRUE, {"p2"}, l1, {}), Allow(k, v, {"p1", "p2"}, l2, h)>> \o tail :
        l1 \in Lists, l2 \in Lists, h \in Hidden, k \in {"k1", "k2"},
        v \in BOOLEAN, tail \in {<<>>, <<Deny("k2", {"p2"}, {})>>, <<Deny("k2", {"p1"}, {B})>>}}

MCSelectors ==
    {[k1 |-> {Select(None, "q1", None)}, k2 |-> s] :
        s \in {{}, {Select("s2", None, None)}, {Select(None, None, None)},
               {Select("s1", "q2", None)}, {Select(None, "q1", "t1")}}}

MCPolicies == {[rules |-> r, selectors |-> s] : r \in MCRules, s \in MCSelectors}

Who(alternates, permissions, trait) ==
    [subject |-> "s1", alternates |-> alternates, permissions |-> permissions, trait |-> trait]

MCContexts == {Who({}, {"q1"}, None), Who({"s2"}, {"q1"}, None), Who({}, {"q1"}, "t1"),
               Who({}, {"q2"}, None)}
=============================================================================
