----------------------------- MODULE MCSharing -----------------------------
(* An instance of Sharing: a report shared with two groups, a dashboard built *)
(* on it by somebody else, shown on the home page, and one more dashboard.    *)
EXTENDS Sharing, TLC

CONSTANTS rf, rf2, r1, r2, df, df2, d1, d2, alice, bob, admin, g1, g2

ClientSymmetry == Permutations(Clients)

MCMatches == alice :> {g1} @@ bob :> {g2} @@ admin :> {}

Base == rf :> NewRow(alice, [mode |-> "shared", grants |-> {g1, g2}], None, None)
     @@ r1 :> NewRow(alice, [mode |-> "restricted", grants |-> {g1, g2}], rf, None)
     @@ df :> NewRow(bob, [mode |-> "shared", grants |-> {g2}], None, None)
     @@ d1 :> NewRow(bob, [mode |-> "restricted", grants |-> {g2}], df, r1)

\* The report was narrowed since the dashboard was shared.
Narrow == r1 :> NewRow(alice, [mode |-> "restricted", grants |-> {g1}], rf, None) @@ Base

\* Everything inherits; the dashboard's folder is its owner's.
Plain == r1 :> NewRow(alice, [mode |-> "inherit", grants |-> {}], rf, None)
      @@ df :> NewRow(bob, [mode |-> "personal", grants |-> {}], None, None)
      @@ d1 :> NewRow(bob, [mode |-> "inherit", grants |-> {}], df, r1)
      @@ Base

MCInitRows == {[n \in Nodes |-> IF n \in DOMAIN s THEN s[n] ELSE None] : s \in {Base, Narrow, Plain}}
=============================================================================
