----------------------------- MODULE MCAccounts ------------------------------
(* Small instances of Accounts for the model checker. *)
EXTENDS Accounts, TLC

CONSTANTS c1, c2, k1, k2, boss, other, s1, s2, p1, p2

\* Both contacts have the same email.
MCEmailOf == [k \in Contacts |-> other]

Ask(op, e, p, s, subject, enabled) ==
    [op |-> op, email |-> e, pwd |-> p, source |-> s, subject |-> subject, enabled |-> enabled]
Install(e, s) == Ask("setup", e, p1, s, e, None)
Login(e, p) == Ask("login", e, p, s1, e, None)
Manage(op, subject, p, enabled) == Ask(op, boss, p, s1, subject, enabled)

MCRequests ==
    {Install(boss, s1), Install(other, s2), Login(boss, p1), Login(other, p1),
     Ask("logout", boss, None, s1, boss, None),
     Manage("list", boss, None, None), Manage("upsert", k1, p1, None),
     Manage("upsert", k1, None, FALSE), Manage("upsert", k1, None, None),
     Manage("upsert", k2, p1, None),
     Manage("delete", k1, None, None), Manage("delete", boss, None, None)}

Nobody == [e \in Emails |-> None]
Credential(p, on, subject) == [pwd |-> p, enabled |-> on, subject |-> subject]
Beside(other_) == [e \in Emails |-> IF e = boss THEN Credential(p1, TRUE, boss) ELSE other_]
\* A portal to install; installed ones whose other user is enabled, is not, or was
\* left by an installation that failed.
MCPortals ==
    {[setup |-> None, source |-> None, identity |-> Nobody, granted |-> {}]} \cup
    {[setup |-> [admin |-> boss, source |-> s1], source |-> s1,
      identity |-> Beside(o), granted |-> {}] :
        o \in {Credential(p2, TRUE, k1), Credential(p2, FALSE, k1),
               Credential(p2, TRUE, other)}}

ClientSymmetry == Permutations(Clients)
=============================================================================
