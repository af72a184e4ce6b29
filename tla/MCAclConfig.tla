----------------------------- MODULE MCAclConfig -----------------------------
(* Small instances of AclConfig for the model checker. *)
EXTENDS AclConfig, TLC

CONSTANTS x1, x2

Row(mode, managedBy, perms) ==
    [mode |-> mode, managedBy |-> managedBy, syncState |-> "present", perms |-> perms]

\* Permission 2 opens the custom resource; no source exists, or an entity does,
\* disabled as discovery left it; or permissions 2 and 4 have aliases that sort before
\* them, which new permissions can make unloadable.
PlainSnapshots ==
    {[listed |-> {2}, aliases |-> [c \in Codes |-> {}], defaults |-> {},
      resources |-> [r \in Resources |->
                        IF r = "m" THEN Row("permission-bound", "manual", {2})
                        ELSE IF r \in found0 THEN Row("disabled", "system", {}) ELSE None]] :
        found0 \in {{}, {"e"}}}

MCSnapshots ==
    PlainSnapshots \cup {[s EXCEPT !.listed = {2, 4}, !.aliases[2] = {1}, !.aliases[4] = {3}] :
                            s \in {t \in PlainSnapshots : t.resources["e"] = None}}

MCPermissions == {[code |-> 1, aliases |-> {}, ids |-> {"m"}],
                  [code |-> 3, aliases |-> {2}, ids |-> {"q"}]}
MCResources == {[id |-> "m", mode |-> "authenticated", perms |-> {}],
                [id |-> "q", mode |-> "permission-bound", perms |-> {2}]}

MCSymmetry == Permutations(Admins)
=============================================================================
