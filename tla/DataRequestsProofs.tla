------------------------- MODULE DataRequestsProofs --------------------------
(* Theorems about DataRequests, for any requests, results, policies and faults: *)
(* what a client is given is of one policy, what is written was in scope, and   *)
(* the audit trail of a request agrees with what became of it.                  *)
EXTENDS DataRequests, SequenceTheorems, TLAPS

\* What a client does.
Act(c) ==
    \/ \E q \in Requests :
        \/ GetEntityList(c, q) \/ GetEntityRelatedList(c, q) \/ RunReport(c, q)
        \/ GetEntity(c, q) \/ CreateEntityRecord(c, q)
        \/ UpdateEntityRecord(c, q) \/ DeleteEntityRecord(c, q)
    \/ Serve(c)
    \/ Leave(c)

\* The requests of clients, whichever they are.
Begins(c) == \E q \in Requests, t \in Tokens \cup {None}, l \in {"sweep", "access"} :
    /\ l = "sweep" => q.op = "page"
    /\ l = "access" => q.op # "page" /\ t = None
    /\ Begin(c, q, t, l)

LEMMA BeginsAll ==
    ASSUME TypeOK, NEW c \in Clients, NEW q \in Requests,
           \/ GetEntityList(c, q) \/ GetEntityRelatedList(c, q) \/ RunReport(c, q)
           \/ GetEntity(c, q) \/ CreateEntityRecord(c, q)
           \/ UpdateEntityRecord(c, q) \/ DeleteEntityRecord(c, q)
    PROVE  Begins(c)
  <1>1. 1 .. minted \subseteq Tokens
    BY DataRequestsAssumption DEF TypeOK, Tokens
  <1>2. ASSUME NEW kind, BeginPage(c, q, kind) PROVE Begins(c)
    BY <1>1, <1>2 DEF BeginPage, Begins
  <1>3. ASSUME NEW op, op # "page", BeginSingle(c, q, op) PROVE Begins(c)
    BY <1>3 DEF BeginSingle, Begins
  <1>4. QED
    BY <1>2, <1>3 DEF GetEntityList, GetEntityRelatedList, RunReport, GetEntity,
       CreateEntityRecord, UpdateEntityRecord, DeleteEntityRecord

-----------------------------------------------------------------------------
(* Sequences of rows. *)

LEMMA Split ==
    ASSUME NEW S, NEW s \in Seq(S), NEW n \in 0 .. Len(s)
    PROVE  /\ First(s, n) \in Seq(S) /\ Len(First(s, n)) = n
           /\ After(s, n) \in Seq(S) /\ Len(After(s, n)) = Len(s) - n
           /\ \A i \in 1 .. n : First(s, n)[i] = s[i]
           /\ \A i \in 1 .. Len(s) - n : After(s, n)[i] = s[n + i]
           /\ First(s, n) \o After(s, n) = s
  <1>1. Len(s) \in Nat /\ \A i \in 1 .. Len(s) : s[i] \in S
    BY LenProperties, ElementOfSeq
  <1>2. /\ SubSeq(s, 1, n) \in Seq(S)
        /\ Len(SubSeq(s, 1, n)) = n
        /\ \A i \in 1 .. n : SubSeq(s, 1, n)[i] = s[i]
    <2>1. \A i \in 1 .. n : s[i] \in S
      BY <1>1
    <2>2. QED
      BY <1>1, <2>1, SubSeqProperties
  <1>3. /\ SubSeq(s, n + 1, Len(s)) \in Seq(S)
        /\ Len(SubSeq(s, n + 1, Len(s))) = Len(s) - n
        /\ \A i \in 1 .. Len(s) - n : SubSeq(s, n + 1, Len(s))[i] = s[n + i]
    <2>1. \A i \in n + 1 .. Len(s) : s[i] \in S
      BY <1>1
    <2>2. /\ SubSeq(s, n + 1, Len(s)) \in Seq(S)
          /\ Len(SubSeq(s, n + 1, Len(s))) = IF n + 1 <= Len(s) THEN Len(s) - (n + 1) + 1 ELSE 0
          /\ \A i \in 1 .. Len(s) - (n + 1) + 1 : SubSeq(s, n + 1, Len(s))[i] = s[(n + 1) + i - 1]
      BY <1>1, <2>1, SubSeqProperties
    <2>3. \A i \in 1 .. Len(s) - n : (n + 1) + i - 1 = n + i
      BY <1>1
    <2>4. QED
      BY <1>1, <2>2, <2>3
  <1>4. First(s, n) \o After(s, n) = s
    <2>1. 1 \in 1 .. Len(s) + 1 /\ n \in 1 - 1 .. Len(s) /\ Len(s) \in n .. Len(s)
      BY <1>1
    <2>2. SubSeq(s, 1, n) \o SubSeq(s, n + 1, Len(s)) = SubSeq(s, 1, Len(s))
      BY <2>1, ConcatAdjacentSubSeq
    <2>3. QED
      BY <2>2, SubSeqFull DEF First, After
  <1>5. QED
    BY <1>2, <1>3, <1>4 DEF First, After

\* The page that is cut, and what is left.
LEMMA Cut ==
    ASSUME NEW S, NEW c, work[c] \in Seq(S), req[c].size \in Nat \ {0}
    PROVE  /\ PageOf(c) \in Seq(S) /\ LeftOf(c) \in Seq(S)
           /\ Len(PageOf(c)) = IF Len(work[c]) < req[c].size THEN Len(work[c]) ELSE req[c].size
           /\ PageOf(c) = First(work[c], Len(PageOf(c)))
           /\ LeftOf(c) = After(work[c], Len(PageOf(c)))
           /\ Len(PageOf(c)) \in 0 .. Len(work[c])
  <1> DEFINE n == IF Len(work[c]) < req[c].size THEN Len(work[c]) ELSE req[c].size
  <1>1. n \in 0 .. Len(work[c])
    BY LenProperties
  <1>2. PageOf(c) = First(work[c], n)
    BY DEF PageOf
  <1> HIDE DEF n
  <1>3. Len(PageOf(c)) = n /\ PageOf(c) \in Seq(S)
    BY <1>1, <1>2, Split
  <1>4. LeftOf(c) = After(work[c], n) /\ LeftOf(c) \in Seq(S)
    BY <1>1, <1>3, Split DEF LeftOf
  <1>5. QED
    BY <1>1, <1>2, <1>3, <1>4 DEF n

-----------------------------------------------------------------------------
(* The trail of one request. *)

LEMMA Announced ==
    ASSUME trail \in [Clients -> Seq(AuditRow)], NEW c \in Clients,
           NEW call \in {"query", "write"}, Announce(c, call)
    PROVE  /\ trail' \in [Clients -> Seq(AuditRow)]
           /\ Last(c)' = Last(c) + 1 /\ Last(c) \in Nat
           /\ trail'[c][Last(c)'] = [call |-> call, status |-> "PENDING",
                                     effect |-> FALSE, seen |-> FALSE]
           /\ \A i \in 1 .. Last(c) : trail'[c][i] = trail[c][i]
           /\ \A e \in Clients : e # c => trail'[e] = trail[e]
  <1> DEFINE row == [call |-> call, status |-> "PENDING", effect |-> FALSE, seen |-> FALSE]
  <1>1. row \in AuditRow
    BY DEF AuditRow
  <1> HIDE DEF row
  <1>2. trail' = [trail EXCEPT ![c] = Append(trail[c], row)]
    BY DEF Announce, row
  <1>3. /\ Append(trail[c], row) \in Seq(AuditRow)
        /\ Len(Append(trail[c], row)) = Len(trail[c]) + 1
        /\ \A i \in 1 .. Len(trail[c]) : Append(trail[c], row)[i] = trail[c][i]
        /\ Append(trail[c], row)[Len(trail[c]) + 1] = row
    BY <1>1, AppendProperties
  <1>4. trail'[c] = Append(trail[c], row) /\ Len(trail[c]) \in Nat
    BY <1>2, LenProperties
  <1>5. QED
    BY <1>2, <1>3, <1>4 DEF Last, row

\* The last row is replaced.
Rewrites(c, row) == trail' = [trail EXCEPT ![c] = [trail[c] EXCEPT ![Last(c)] = row]]

LEMMA Rewritten ==
    ASSUME trail \in [Clients -> Seq(AuditRow)], NEW c \in Clients,
           NEW row \in AuditRow, Rewrites(c, row), Last(c) > 0
    PROVE  /\ trail' \in [Clients -> Seq(AuditRow)]
           /\ Last(c)' = Last(c) /\ Last(c) \in Nat \ {0}
           /\ trail'[c][Last(c)] = row
           /\ \A i \in 1 .. Last(c) : i # Last(c) => trail'[c][i] = trail[c][i]
           /\ \A e \in Clients : e # c => trail'[e] = trail[e]
  <1>1. Last(c) \in 1 .. Len(trail[c]) /\ Last(c) = Len(trail[c]) /\ Last(c) \in Nat \ {0}
    BY LenProperties DEF Last
  <1>2. /\ [trail[c] EXCEPT ![Last(c)] = row] \in Seq(AuditRow)
        /\ Len([trail[c] EXCEPT ![Last(c)] = row]) = Len(trail[c])
        /\ \A j \in 1 .. Len(trail[c]) :
              [trail[c] EXCEPT ![Last(c)] = row][j] = IF j = Last(c) THEN row ELSE trail[c][j]
    BY <1>1, ExceptSeq
  <1>3. trail'[c] = [trail[c] EXCEPT ![Last(c)] = row]
    BY DEF Rewrites
  <1>4. trail' \in [Clients -> Seq(AuditRow)] /\ \A e \in Clients : e # c => trail'[e] = trail[e]
    BY <1>2 DEF Rewrites
  <1>5. QED
    BY <1>1, <1>2, <1>3, <1>4 DEF Last

LastRow(c) == trail[c][Last(c)]

\* Only these fields of the last row ever change.
LEMMA RowFields ==
    ASSUME trail \in [Clients -> Seq(AuditRow)], NEW c \in Clients, Last(c) > 0
    PROVE  /\ LastRow(c) \in AuditRow
           /\ \A status \in {"PENDING", "SUCCESS", "FAILURE"} :
                /\ [LastRow(c) EXCEPT !.status = status] \in AuditRow
                /\ Mark(c, status) => Rewrites(c, [LastRow(c) EXCEPT !.status = status])
           /\ \A b \in BOOLEAN :
                /\ [LastRow(c) EXCEPT !.effect = b] \in AuditRow
                /\ [LastRow(c) EXCEPT !.seen = b] \in AuditRow
                /\ trail' = [trail EXCEPT ![c][Last(c)].effect = b]
                      => Rewrites(c, [LastRow(c) EXCEPT !.effect = b])
                /\ trail' = [trail EXCEPT ![c][Last(c)].seen = b]
                      => Rewrites(c, [LastRow(c) EXCEPT !.seen = b])
  <1>1. LastRow(c) \in AuditRow
    BY LenProperties, ElementOfSeq DEF Last, LastRow
  <1>2. QED
    BY <1>1 DEF AuditRow, Mark, Rewrites, LastRow

-----------------------------------------------------------------------------
(* Types, and where a request stands. *)

Busy == {"call", "complete", "visibility", "failure", "unseen", "write", "written", "unwritten"}
WriteLabels == {"decision", "announce", "write", "written", "unwritten"}

PlaceOf(c) ==
    /\ pc[c] = "idle" => trail[c] = <<>> /\ work[c] = <<>> /\ rest[c] = <<>>
    /\ outcome[c] # "none" <=> pc[c] = "done"
    /\ pc[c] \in {"cursor", "expired"} => token[c] # None
    /\ pc[c] \in {"sweep", "cursor", "expired", "mint"} => req[c].op = "page"
    /\ pc[c] \in WriteLabels => req[c].op \in {"create", "update", "delete"}
    /\ pc[c] \in Busy => Last(c) > 0
Places == \A c \in Clients : PlaceOf(c)
Base == TypeOK /\ Places

\* Nothing of client e changes.
Same(e) ==
    /\ pc'[e] = pc[e] /\ req'[e] = req[e] /\ token'[e] = token[e] /\ ver'[e] = ver[e]
    /\ work'[e] = work[e] /\ rest'[e] = rest[e] /\ trail'[e] = trail[e]
    /\ filed'[e] = filed[e] /\ outcome'[e] = outcome[e]

LEMMA Requested ==
    ASSUME TypeOK, NEW c \in Clients, pc[c] # "idle"
    PROVE  /\ req[c] \in Requests /\ req[c].size \in Nat \ {0} /\ req[c].op \in Ops
           /\ req[c].contact \in Contacts /\ req[c].view \in Views
           /\ ScopeOf(c) \in Scope
           /\ req[c].op \in {"update", "delete", "read"} => req[c].record \in Records
  BY DataRequestsAssumption DEF TypeOK, Request, ScopeOf, Scope

LEMMA FaultsGrow ==
    ASSUME TypeOK, Works \/ Fails
    PROVE  faults' \in 0 .. MaxFaults /\ faults <= faults' /\ (Fails => faults' > 0)
  BY DataRequestsAssumption DEF TypeOK, Works, Fails

LEMMA ClearType ==
    ASSUME TypeOK, NEW cs, Clear(cs)
    PROVE  /\ pc' \in [Clients -> Labels] /\ req' \in [Clients -> Requests \cup {None}]
           /\ \A c \in Clients : pc'[c] # "idle" => req'[c] \in Requests
           /\ token' \in [Clients -> Tokens \cup {None}] /\ ver' \in [Clients -> Versions]
           /\ work' \in [Clients -> Seq(Records)] /\ rest' \in [Clients -> Seq(Records)]
           /\ trail' \in [Clients -> Seq(AuditRow)] /\ filed' \in [Clients -> BOOLEAN]
           /\ outcome' \in [Clients -> {"none", "ok", "refused", "hidden", "missing", "error"}]
  <1>1. 1 \in Versions
    BY DataRequestsAssumption DEF Versions
  <1>2. <<>> \in Seq(Records) /\ <<>> \in Seq(AuditRow)
    BY EmptySeq
  <1>3. QED
    BY <1>1, <1>2 DEF TypeOK, Clear, Labels

\* What Salesforce returns.
LEMMA Fetched ==
    ASSUME TypeOK, NEW c \in Clients, pc[c] = "call", Fetch(c), NEW S,
           Visible[ScopeOf(c)] \subseteq S,
           work[c] \in Seq(S), rest[c] \in Seq(S)
    PROVE  /\ \E w \in Seq(S), r \in Seq(S) : /\ work' = [work EXCEPT ![c] = w]
                                             /\ rest' = [rest EXCEPT ![c] = r]
           /\ req[c].op # "page" => work'[c] \in {<<>>, <<req[c].record>>}
           /\ req[c].op # "page" /\ work'[c] # <<>> => req[c].record \in Visible[ScopeOf(c)]
  <1>1. ScopeOf(c) \in Scope /\ req[c].size \in Nat \ {0}
    BY Requested
  <1>2. \A s \in Seq(S) : Batches(s) \subseteq 0 .. Len(s)
    BY LenProperties, DataRequestsAssumption DEF Batches
  <1>3. CASE req[c].op = "page" /\ token[c] = None
    <2>1. PICK s \in Results[ScopeOf(c)] : \E n \in Batches(s) :
            /\ work' = [work EXCEPT ![c] = First(s, n)]
            /\ rest' = [rest EXCEPT ![c] = After(s, n)]
      BY <1>3 DEF Fetch
    <2>2. s \in Seq(Visible[ScopeOf(c)])
      BY <1>1, <2>1, DataRequestsAssumption
    <2>3. s \in Seq(S)
      BY <2>2, SeqMonotonic
    <2>4. QED
      BY <1>2, <1>3, <2>1, <2>3, Split
  <1>4. CASE req[c].op = "page" /\ token[c] # None
    <2>1. PICK n \in Batches(rest[c]) :
            /\ work' = [work EXCEPT ![c] = work[c] \o First(rest[c], n)]
            /\ rest' = [rest EXCEPT ![c] = After(rest[c], n)]
      BY <1>4 DEF Fetch
    <2>2. First(rest[c], n) \in Seq(S) /\ After(rest[c], n) \in Seq(S)
      BY <1>2, Split
    <2>3. work[c] \o First(rest[c], n) \in Seq(S)
      BY <2>2, ConcatProperties
    <2>4. QED
      BY <1>4, <2>1, <2>2, <2>3
  <1>5. CASE req[c].op # "page"
    <2>1. PICK s \in Lookups(c) : work' = [work EXCEPT ![c] = s] /\ rest' = rest
      BY <1>5 DEF Fetch
    <2>2. s \in {<<>>, <<req[c].record>>} /\ (s # <<>> => req[c].record \in Visible[ScopeOf(c)])
      BY <2>1 DEF Lookups
    <2>3. s \in Seq(S)
      <3>1. CASE s = <<>>
        BY <3>1, EmptySeq
      <3>2. CASE s = <<req[c].record>> /\ req[c].record \in S
        BY <3>2
      <3>3. QED
        BY <2>2, <3>1, <3>2
    <2>4. rest' = [rest EXCEPT ![c] = rest[c]] /\ work'[c] = s
      BY <2>1 DEF TypeOK
    <2>5. QED
      BY <1>5, <2>1, <2>2, <2>3, <2>4
  <1>6. QED
    BY <1>3, <1>4, <1>5

\* Where the loop of the pages goes.
LEMMA Paginated ==
    ASSUME NEW c \in Clients, NEW w, NEW r, Paginate(c, w, r)
    PROVE  /\ work' = [work EXCEPT ![c] = w] /\ rest' = [rest EXCEPT ![c] = r]
           /\ \/ pc' = [pc EXCEPT ![c] = "intent"] /\ outcome' = outcome
              \/ pc' = [pc EXCEPT ![c] = "mint"] /\ outcome' = outcome
              \/ pc' = [pc EXCEPT ![c] = "done"] /\ outcome' = [outcome EXCEPT ![c] = "ok"]
  BY DEF Paginate, Goto, Answer

LEMMA Proceeded ==
    ASSUME TypeOK, NEW c \in Clients, pc[c] = "visibility", Proceed(c)
    PROVE  /\ UNCHANGED held
           /\ \/ pc' = [pc EXCEPT ![c] = "intent"] /\ outcome' = outcome
              \/ pc' = [pc EXCEPT ![c] = "mint"] /\ outcome' = outcome /\ req[c].op = "page"
              \/ /\ pc' = [pc EXCEPT ![c] = "decision"] /\ outcome' = outcome
                 /\ req[c].op \in {"create", "update", "delete"} /\ work[c] # <<>>
              \/ /\ pc' = [pc EXCEPT ![c] = "done"] /\ outcome' = [outcome EXCEPT ![c] = "ok"]
                 /\ req[c].op \in {"page", "read"}
              \/ pc' = [pc EXCEPT ![c] = "done"] /\ outcome' = [outcome EXCEPT ![c] = "missing"]
  <1>1. req[c].op \in Ops
    BY Requested
  <1>2. CASE req[c].op = "page"
    <2>1. Paginate(c, work[c], rest[c])
      BY <1>2 DEF Proceed
    <2>2. work' = work /\ rest' = rest
      BY <2>1, Paginated DEF TypeOK
    <2>3. QED
      BY <1>2, <2>1, <2>2 DEF held, Paginate, Goto, Answer
  <1>3. CASE req[c].op # "page"
    BY <1>1, <1>3 DEF Proceed, Goto, Answer, Ops
  <1>4. QED
    BY <1>2, <1>3

LEMMA CursorType ==
    ASSUME Base, NEW c \in Clients, pc[c] = "cursor", Found(c)
    PROVE  cursors[token[c]] \in Cursor
  <1>1. token[c] \in Tokens
    BY DEF Base, Places, PlaceOf, TypeOK
  <1>2. QED
    BY <1>1 DEF Base, TypeOK, Found

\* What becomes of the trail.
LEMMA TrailType ==
    ASSUME Base, NEW c \in Clients,
           \/ \E call \in {"query", "write"} : Announce(c, call)
           \/ /\ pc[c] \in Busy
              /\ \/ \E status \in {"PENDING", "SUCCESS", "FAILURE"} : Mark(c, status)
                 \/ \E b \in BOOLEAN : trail' = [trail EXCEPT ![c][Last(c)].effect = b]
                 \/ \E b \in BOOLEAN : trail' = [trail EXCEPT ![c][Last(c)].seen = b]
    PROVE  trail' \in [Clients -> Seq(AuditRow)]
  <1> USE DEF Base, TypeOK
  <1>1. ASSUME NEW call \in {"query", "write"}, Announce(c, call)
        PROVE  trail' \in [Clients -> Seq(AuditRow)]
    BY <1>1, Announced
  <1>2. ASSUME pc[c] \in Busy PROVE Last(c) > 0
    BY <1>2 DEF Places, PlaceOf
  <1>3. QED
    BY <1>1, <1>2, RowFields, Rewritten

\* A cursor that is accepted.
LEMMA CursorRead ==
    ASSUME Base, NEW c \in Clients, ReadCursor(c)
    PROVE  \/ /\ pc' = [pc EXCEPT ![c] = "refuse"] \/ pc' = [pc EXCEPT ![c] = "expired"]
              /\ UNCHANGED <<held, outcome>>
           \/ /\ Found(c) /\ Matches(c, cursors[token[c]]) /\ cursors[token[c]] \in Cursor
              /\ Paginate(c, cursors[token[c]].records, cursors[token[c]].locator)
              /\ cursors[token[c]].records \in Seq(Records)
              /\ cursors[token[c]].locator \in Seq(Records)
  <1>1. pc[c] = "cursor"
    BY DEF ReadCursor
  <1>2. Found(c) => cursors[token[c]] \in Cursor
    BY <1>1, CursorType
  <1>3. Found(c) => /\ cursors[token[c]].records \in Seq(Records)
                    /\ cursors[token[c]].locator \in Seq(Records)
    BY <1>2 DEF Cursor
  <1>4. QED
    BY <1>2, <1>3 DEF ReadCursor, Goto

LEMMA TypeStep == ASSUME Base, [Next]_vars PROVE TypeOK'
  <1>0. TypeOK /\ (Works \/ Fails => faults' \in 0 .. MaxFaults)
    BY FaultsGrow DEF Base
  <1> USE <1>0 DEF TypeOK
  <1>1. ASSUME NEW c \in Clients, Begins(c) PROVE TypeOK'
    BY <1>1, DataRequestsAssumption DEF Begins, Begin, Goto, Labels, held
  <1>2. ASSUME NEW c \in Clients, Sweep(c) PROVE TypeOK'
    BY <1>2 DEF Sweep, Goto, Answer, Labels, fixed, held
  <1>3. ASSUME NEW c \in Clients, Access(c) PROVE TypeOK'
    BY <1>3 DEF Access, AfterAccess, Deny, Goto, Answer, Labels, store, held
  <1>4. ASSUME NEW c \in Clients, ReadCursor(c) PROVE TypeOK'
    <2>1. UNCHANGED <<store, fixed, trail, filed, faults, now>> /\ pc[c] = "cursor"
      BY <1>4 DEF ReadCursor
    <2>2. CASE /\ pc' = [pc EXCEPT ![c] = "refuse"] \/ pc' = [pc EXCEPT ![c] = "expired"]
               /\ UNCHANGED <<held, outcome>>
      BY <2>1, <2>2 DEF Labels, store, fixed, held
    <2>3. ASSUME NEW w \in Seq(Records), NEW r \in Seq(Records), Paginate(c, w, r)
          PROVE  TypeOK'
      <3>1. work' \in [Clients -> Seq(Records)] /\ rest' \in [Clients -> Seq(Records)]
        <4>1. work' = [work EXCEPT ![c] = w] /\ rest' = [rest EXCEPT ![c] = r]
          BY <2>3, Paginated
        <4>2. QED
          BY <4>1
      <3>2. /\ pc' \in [Clients -> Labels] /\ (\A e \in Clients : pc'[e] # "idle" => pc[e] # "idle")
            /\ outcome' \in [Clients -> {"none", "ok", "refused", "hidden", "missing", "error"}]
        BY <2>1, <2>3, Paginated DEF Labels
      <3>3. QED
        BY <2>1, <3>1, <3>2 DEF store, fixed
    <2>4. QED
      BY <1>4, <2>2, <2>3, CursorRead
  <1>5. ASSUME NEW c \in Clients, DropExpired(c) PROVE TypeOK'
    BY <1>5 DEF DropExpired, Goto, Answer, Labels, fixed, held
  <1>6. ASSUME NEW c \in Clients, Refuse(c) PROVE TypeOK'
    BY <1>6 DEF Refuse, Deny, Answer, Goto, Labels, store, fixed, held
  <1>7. ASSUME NEW c \in Clients, Mint(c) PROVE TypeOK'
    <2>1. ASSUME minted < MaxRequests, minted' = minted + 1,
                 cursors' = [cursors EXCEPT ![minted + 1] =
                    [scope |-> ScopeOf(c), size |-> req[c].size,
                     records |-> LeftOf(c), locator |-> rest[c], expires |-> now + TTL]],
                 Answer(c, "ok"), work' = [work EXCEPT ![c] = PageOf(c)],
                 rest' = [rest EXCEPT ![c] = <<>>], Works
          PROVE  TypeOK'
      <3>1. pc[c] # "idle" /\ UNCHANGED <<version, asked, fixed, trail, filed, now>>
        BY <1>7 DEF Mint
      <3>2. /\ ScopeOf(c) \in Scope /\ req[c].size \in Nat \ {0}
            /\ PageOf(c) \in Seq(Records) /\ LeftOf(c) \in Seq(Records)
        BY <3>1, Requested, Cut
      <3>3. [scope |-> ScopeOf(c), size |-> req[c].size, records |-> LeftOf(c),
             locator |-> rest[c], expires |-> now + TTL] \in Cursor
        BY <3>2, DataRequestsAssumption DEF Cursor
      <3>4. cursors' \in [Tokens -> Cursor \cup {None}] /\ minted' \in 0 .. MaxRequests
        BY <2>1, <3>3, DataRequestsAssumption DEF Tokens
      <3>5. work' \in [Clients -> Seq(Records)] /\ rest' \in [Clients -> Seq(Records)]
        BY <2>1, <3>2, EmptySeq
      <3>6. QED
        BY <2>1, <3>1, <3>4, <3>5 DEF Answer, Goto, Labels, fixed
    <2>2. QED
      BY <1>7, <2>1 DEF Mint, Answer, Goto, Labels, fixed, held
  <1>8. ASSUME NEW c \in Clients, Intent(c) PROVE TypeOK'
    BY <1>8, TrailType DEF Intent, Goto, Answer, Labels, store, fixed, held
  <1>9. ASSUME NEW c \in Clients, Call(c) PROVE TypeOK'
    <2>1. ASSUME Works, Fetch(c), trail' = [trail EXCEPT ![c][Last(c)].effect = TRUE],
                 Goto(c, "complete")
          PROVE  TypeOK'
      <3>1. ScopeOf(c) \in Scope
        BY <1>9, Requested DEF Call
      <3>0. Visible[ScopeOf(c)] \subseteq Records /\ pc[c] = "call"
        BY <1>9, <3>1, DataRequestsAssumption DEF Call
      <3>2. work' \in [Clients -> Seq(Records)] /\ rest' \in [Clients -> Seq(Records)]
        <4>1. \E w \in Seq(Records), r \in Seq(Records) : /\ work' = [work EXCEPT ![c] = w]
                                                       /\ rest' = [rest EXCEPT ![c] = r]
          BY <2>1, <3>0, Fetched
        <4>2. QED
          BY <4>1
      <3>3. trail' \in [Clients -> Seq(AuditRow)]
        BY <1>9, <2>1, TrailType DEF Call, Busy
      <3>4. QED
        BY <1>9, <2>1, <3>2, <3>3 DEF Call, Goto, Labels, store, fixed
    <2>2. QED
      BY <1>9, <2>1 DEF Call, Goto, Labels, store, fixed, held
  <1>10. ASSUME NEW c \in Clients, Complete(c) PROVE TypeOK'
    <2>1. trail' \in [Clients -> Seq(AuditRow)]
      BY <1>10, TrailType DEF Complete, Busy
    <2>2. QED
      BY <1>10, <2>1 DEF Complete, Goto, Labels, store, fixed, held
  <1>11. ASSUME NEW c \in Clients, RecordVisibility(c) PROVE TypeOK'
    <2>1. trail' \in [Clients -> Seq(AuditRow)]
      BY <1>11, TrailType DEF RecordVisibility, Busy
    <2>2. Proceed(c) => /\ pc' \in [Clients -> Labels] /\ UNCHANGED held
                        /\ \A e \in Clients : pc'[e] # "idle" => pc[e] # "idle"
                        /\ outcome' \in [Clients -> {"none", "ok", "refused", "hidden", "missing", "error"}]
      BY <1>11, Proceeded DEF RecordVisibility, Labels
    <2>3. QED
      BY <1>11, <2>1, <2>2 DEF RecordVisibility, Goto, Labels, store, fixed, held
  <1>12. ASSUME NEW c \in Clients, Failure(c) PROVE TypeOK'
    <2>1. trail' \in [Clients -> Seq(AuditRow)]
      BY <1>12, TrailType DEF Failure, Busy
    <2>2. QED
      BY <1>12, <2>1 DEF Failure, Goto, Answer, Labels, store, fixed, held
  <1>13. ASSUME NEW c \in Clients, FailureVisibility(c) PROVE TypeOK'
    <2>1. trail' \in [Clients -> Seq(AuditRow)]
      BY <1>13, TrailType DEF FailureVisibility, Busy
    <2>2. QED
      BY <1>13, <2>1 DEF FailureVisibility, Goto, Answer, Labels, store, fixed, held
  <1>14. ASSUME NEW c \in Clients, Decision(c) PROVE TypeOK'
    BY <1>14 DEF Decision, Goto, Answer, Labels, store, fixed, held
  <1>15. ASSUME NEW c \in Clients, AnnounceWrite(c) PROVE TypeOK'
    BY <1>15, TrailType DEF AnnounceWrite, Goto, Answer, Labels, store, fixed, held
  <1>16. ASSUME NEW c \in Clients, Write(c) PROVE TypeOK'
    <2>1. trail' \in [Clients -> Seq(AuditRow)]
      BY <1>16, TrailType DEF Write, Busy
    <2>2. QED
      BY <1>16, <2>1 DEF Write, Goto, Labels, store, fixed, held
  <1>17. ASSUME NEW c \in Clients, Written(c) PROVE TypeOK'
    <2>1. trail' \in [Clients -> Seq(AuditRow)]
      BY <1>17, TrailType DEF Written, Busy
    <2>2. QED
      BY <1>17, <2>1 DEF Written, Goto, Answer, Labels, store, fixed, held
  <1>18. ASSUME NEW c \in Clients, Unwritten(c) PROVE TypeOK'
    <2>1. trail' \in [Clients -> Seq(AuditRow)]
      BY <1>18, TrailType DEF Unwritten, Busy
    <2>2. QED
      BY <1>18, <2>1 DEF Unwritten, Goto, Answer, Labels, store, fixed, held
  <1>19. ASSUME NEW c \in Clients, Leave(c) PROVE TypeOK'
    BY <1>19, ClearType DEF Leave, store
  <1>20. CASE Crash
    BY <1>20 DEF Crash, Labels, store, fixed, held
  <1>21. CASE ChangePolicy
    BY <1>21, DataRequestsAssumption DEF ChangePolicy, Versions, fixed, held
  <1>22. CASE Tick
    BY <1>22, DataRequestsAssumption DEF Tick, store, fixed, held
  <1>23. CASE UNCHANGED vars
    BY <1>23 DEF vars
  <1>24. QED
    BY <1>1, <1>2, <1>3, <1>4, <1>5, <1>6, <1>7, <1>8, <1>9, <1>10, <1>11, <1>12, <1>13,
       <1>14, <1>15, <1>16, <1>17, <1>18, <1>19, <1>20, <1>21, <1>22, <1>23, BeginsAll
       DEF Next, Serve
-----------------------------------------------------------------------------
(* The trail of a request, row by row. *)

Settled(r) == r.status = "SUCCESS" /\ r.effect /\ (r.call = "query" => r.seen)
Querying == {"call", "complete", "visibility", "failure", "unseen"}
Writing == {"write", "written", "unwritten"}

\* All rows but the last are settled, and the last one when no call is under way.
TrailOf(c) ==
    /\ \A i \in 1 .. Last(c) :
        /\ trail[c][i].status = "SUCCESS" => trail[c][i].effect
        /\ \/ i < Last(c)
           \/ pc[c] \notin Busy \cup {"done"}
           \/ pc[c] = "done" /\ (outcome[c] = "ok" \/ faults = 0)
           => Settled(trail[c][i])
        /\ pc[c] \notin Writing \cup {"done"} \/ outcome[c] = "refused" => trail[c][i].call # "write"
    /\ pc[c] \in Querying => LastRow(c).call = "query"
    /\ pc[c] \in Writing => LastRow(c).call = "write"
    /\ pc[c] \in {"call", "complete", "write", "written"} => LastRow(c).status = "PENDING"
    /\ pc[c] \in {"complete", "visibility", "written"} => LastRow(c).effect
    /\ pc[c] = "visibility" => LastRow(c).status = "SUCCESS"
    /\ pc[c] \in {"failure", "unwritten"} => LastRow(c).status # "FAILURE"
    /\ pc[c] \in {"failure", "unseen", "unwritten"} => faults > 0
    /\ outcome[c] = "ok" /\ req[c].op \in {"create", "update", "delete"} =>
           Last(c) > 0 /\ LastRow(c).call = "write"
    /\ outcome[c] = "refused" => filed[c]
Trails == \A c \in Clients : TrailOf(c)

LEMMA Kept ==
    ASSUME NEW e \in Clients, Same(e), PlaceOf(e), TrailOf(e), faults \in Nat, faults' \in Nat, faults <= faults'
    PROVE  PlaceOf(e)' /\ TrailOf(e)'
  BY DEF Same, PlaceOf, TrailOf, Last, LastRow, Settled

LEMMA OthersSame ==
    ASSUME Base, NEW c \in Clients, Act(c), NEW e \in Clients, e # c
    PROVE  Same(e)
  <1> USE DEF Base, TypeOK, Same
  <1>1. CASE Begins(c)
    BY <1>1 DEF Begins, Begin, Goto, held
  <1>2. CASE Sweep(c) \/ Access(c) \/ DropExpired(c) \/ Refuse(c) \/ Mint(c)
    BY <1>2 DEF Sweep, Access, DropExpired, Refuse, Mint, Deny, Goto, Answer, fixed, held, store
  <1>3. CASE ReadCursor(c)
    BY <1>3 DEF ReadCursor, Paginate, Goto, Answer, fixed, held, store
  <1>4. CASE Intent(c) \/ AnnounceWrite(c)
    BY <1>4 DEF Intent, AnnounceWrite, Announce, Goto, Answer, fixed, held, store
  <1>5. CASE Call(c)
    BY <1>5 DEF Call, Fetch, Goto, fixed, held, store
  <1>6. CASE Complete(c) \/ Failure(c) \/ FailureVisibility(c)
    BY <1>6 DEF Complete, Failure, FailureVisibility, Mark, Goto, Answer, fixed, held, store
  <1>7. CASE RecordVisibility(c)
    <2>1. Proceed(c) => /\ pc'[e] = pc[e] /\ work'[e] = work[e] /\ rest'[e] = rest[e]
                        /\ outcome'[e] = outcome[e]
      BY DEF Proceed, Paginate, Goto, Answer, held
    <2>2. trail'[e] = trail[e]
      BY <1>7 DEF RecordVisibility
    <2>3. QED
      BY <1>7, <2>1, <2>2 DEF RecordVisibility, Goto, fixed, held, store
  <1>8. CASE Decision(c) \/ Write(c) \/ Written(c) \/ Unwritten(c)
    BY <1>8 DEF Decision, Write, Written, Unwritten, Mark, Goto, Answer, fixed, held, store
  <1>9. CASE Leave(c)
    BY <1>9 DEF Leave, Clear, store
  <1>10. QED
    BY <1>1, <1>2, <1>3, <1>4, <1>5, <1>6, <1>7, <1>8, <1>9, BeginsAll DEF Act, Serve

\* The rows are as they were, but for the last, which stands for the same call.
OneRow(c) ==
    /\ Last(c)' = Last(c) /\ Last(c) \in Nat \ {0}
    /\ trail'[c][Last(c)] = LastRow(c)' /\ LastRow(c)'.call = LastRow(c).call
    /\ \A i \in 1 .. Last(c) : i # Last(c) => trail'[c][i] = trail[c][i]

LEMMA LastKept ==
    ASSUME Base, NEW c \in Clients, pc[c] \in Busy, trail' = trail
    PROVE  OneRow(c) /\ LastRow(c)' = LastRow(c)
  <1>1. Last(c) \in Nat \ {0}
    BY LenProperties DEF Base, Places, PlaceOf, TypeOK, Last
  <1>2. Last(c)' = Last(c) /\ LastRow(c)' = LastRow(c)
    BY DEF Last, LastRow
  <1>3. QED
    BY <1>1, <1>2 DEF OneRow, LastRow

LEMMA LastSet ==
    ASSUME Base, NEW c \in Clients, pc[c] \in Busy, NEW row \in AuditRow,
           row.call = LastRow(c).call, Rewrites(c, row)
    PROVE  OneRow(c) /\ LastRow(c)' = row
  <1>1. Last(c) > 0 /\ trail \in [Clients -> Seq(AuditRow)]
    BY DEF Base, Places, PlaceOf, TypeOK
  <1>2. /\ Last(c)' = Last(c) /\ Last(c) \in Nat \ {0} /\ trail'[c][Last(c)] = row
        /\ \A i \in 1 .. Last(c) : i # Last(c) => trail'[c][i] = trail[c][i]
    BY <1>1, Rewritten
  <1>3. LastRow(c)' = row
    BY <1>2 DEF LastRow
  <1>4. QED
    BY <1>2, <1>3 DEF OneRow

\* Steps of client c that change no row: where it was, all were settled, or it ends.
LEMMA QuietTrail ==
    ASSUME NEW c \in Clients, PlaceOf(c), TrailOf(c), trail'[c] = trail[c],
           req'[c] = req[c], faults \in Nat, faults' \in Nat, faults <= faults',
           pc[c] \notin {"idle", "done"},
           outcome'[c] # "none" <=> pc'[c] = "done",
           pc'[c] \notin Busy \cup {"idle"},
           pc'[c] = "done" => /\ outcome'[c] # "ok"
                              /\ faults' > 0 \/ pc[c] \notin Busy
                              /\ outcome'[c] = "refused" => pc[c] \notin Busy /\ filed'[c],
           pc'[c] # "done" => pc[c] \notin Busy,
           pc'[c] \in {"cursor", "expired"} => token'[c] # None,
           pc'[c] \in {"sweep", "cursor", "expired", "mint"} => req[c].op = "page",
           pc'[c] \in WriteLabels => req[c].op \in {"create", "update", "delete"}
    PROVE  PlaceOf(c)' /\ TrailOf(c)'
  <1>1. Last(c)' = Last(c) /\ LastRow(c)' = LastRow(c) /\ \A i : trail'[c][i] = trail[c][i]
    BY DEF Last, LastRow
  <1>2. PlaceOf(c)'
    BY <1>1 DEF PlaceOf, Busy, WriteLabels
  <1>3. TrailOf(c)'
    BY <1>1 DEF TrailOf, PlaceOf, Busy, Writing, Querying
  <1>4. QED
    BY <1>2, <1>3

LEMMA OwnQuiet ==
    ASSUME Base, Trails, NEW c \in Clients,
           \/ Sweep(c) \/ Access(c) \/ ReadCursor(c) \/ DropExpired(c) \/ Refuse(c)
           \/ Mint(c) \/ Decision(c)
    PROVE  PlaceOf(c)' /\ TrailOf(c)'
  <1>0. PlaceOf(c) /\ TrailOf(c) /\ TypeOK
    BY DEF Base, Places, Trails
  <1>1. Works \/ Fails => faults \in Nat /\ faults' \in Nat /\ faults <= faults' /\ (Fails => faults' > 0)
    BY <1>0, FaultsGrow DEF TypeOK
  <1>2. faults \in Nat
    BY <1>0 DEF TypeOK
  <1> USE <1>0, <1>1, <1>2 DEF TypeOK, Goto, Answer, PlaceOf, Busy, WriteLabels
  <1>3. CASE Sweep(c)
    BY <1>3, QuietTrail DEF Sweep, fixed
  <1>4. CASE Access(c)
    <2>1. req[c].op \in Ops
      BY <1>4, Requested DEF Access
    <2>2. QED
      BY <1>4, <2>1, QuietTrail DEF Access, AfterAccess, Deny, Ops
  <1>5. CASE DropExpired(c)
    BY <1>5, QuietTrail DEF DropExpired, fixed
  <1>6. CASE Refuse(c)
    BY <1>6, QuietTrail DEF Refuse, Deny, fixed
  <1>7. CASE Decision(c)
    BY <1>7, QuietTrail DEF Decision, fixed
  <1>8. CASE Mint(c)
    <2>1. CASE outcome'[c] # "ok"
      BY <1>8, <2>1, QuietTrail DEF Mint, fixed
    <2>2. CASE outcome'[c] = "ok"
      <3>1. /\ pc[c] = "mint" /\ pc'[c] = "done" /\ trail' = trail /\ req' = req
            /\ faults' = faults
        BY <1>8, <2>2 DEF Mint, fixed, Works
      <3>2. Last(c)' = Last(c) /\ LastRow(c)' = LastRow(c)
        BY <3>1 DEF Last, LastRow
      <3>3. QED
        BY <2>2, <3>1, <3>2 DEF TrailOf, Writing, Querying
    <2>3. QED
      BY <2>1, <2>2
  <1>9. CASE ReadCursor(c)
    <2>1. /\ pc[c] = "cursor" /\ trail' = trail /\ req' = req /\ faults' = faults /\ token' = token
          /\ filed' = filed
      BY <1>9 DEF ReadCursor, fixed
    <2>2. Last(c)' = Last(c) /\ LastRow(c)' = LastRow(c)
      BY <2>1 DEF Last, LastRow
    <2>3. \/ pc'[c] \in {"refuse", "expired", "intent", "mint"} /\ outcome'[c] = outcome[c]
          \/ pc'[c] = "done" /\ outcome'[c] = "ok"
      BY <1>9, CursorRead, Paginated
    <2>4. QED
      BY <2>1, <2>2, <2>3 DEF TrailOf, Writing, Querying
  <1>10. QED
    BY <1>3, <1>4, <1>5, <1>6, <1>7, <1>8, <1>9

\* A row is announced.
LEMMA OwnAnnounce ==
    ASSUME Base, Trails, NEW c \in Clients, Intent(c) \/ AnnounceWrite(c)
    PROVE  PlaceOf(c)' /\ TrailOf(c)'
  <1>0. PlaceOf(c) /\ TrailOf(c) /\ TypeOK
    BY DEF Base, Places, Trails
  <1>1. faults \in Nat /\ faults' \in Nat /\ faults <= faults' /\ (Fails => faults' > 0)
    BY <1>0, FaultsGrow DEF TypeOK, Intent, AnnounceWrite
  <1>2. PICK call \in {"query", "write"} :
            /\ pc[c] = (IF call = "query" THEN "intent" ELSE "announce")
            /\ UNCHANGED <<fixed, filed>>
            /\ \/ /\ Announce(c, call)
                  /\ pc'[c] = (IF call = "query" THEN "call" ELSE "write") /\ outcome'[c] = outcome[c]
               \/ /\ Fails /\ (Announce(c, call) \/ UNCHANGED trail)
                  /\ pc'[c] = "done" /\ outcome'[c] = "error"
    BY <1>0 DEF Intent, AnnounceWrite, Goto, Answer, TypeOK
  <1>3. CASE Announce(c, call)
    <2>1. /\ Last(c)' = Last(c) + 1 /\ Last(c) \in Nat
          /\ LastRow(c)' = [call |-> call, status |-> "PENDING", effect |-> FALSE, seen |-> FALSE]
          /\ trail'[c][Last(c)'] = LastRow(c)'
          /\ \A i \in 1 .. Last(c) : trail'[c][i] = trail[c][i]
      BY <1>0, <1>3, Announced DEF TypeOK, LastRow
    <2>2. \A i \in 1 .. Last(c)' : \/ i \in 1 .. Last(c) /\ i < Last(c)'
                                   \/ i = Last(c)' /\ i > Last(c)
      BY <2>1
    <2>3. \A i \in 1 .. Last(c) : Settled(trail[c][i]) /\ trail[c][i].call # "write"
      BY <1>0, <1>2 DEF TrailOf, Busy, Writing
    <2>4. PlaceOf(c)'
      BY <1>0, <1>2, <2>1 DEF PlaceOf, Busy, WriteLabels, fixed
    <2>5. TrailOf(c)'
      BY <1>0, <1>1, <1>2, <2>1, <2>2, <2>3 DEF TrailOf, PlaceOf, Busy, Writing, Querying, Settled, fixed
    <2>6. QED
      BY <2>4, <2>5
  <1>4. CASE Fails /\ UNCHANGED trail /\ pc'[c] = "done" /\ outcome'[c] = "error"
    BY <1>0, <1>1, <1>2, <1>4, QuietTrail DEF Busy, WriteLabels, fixed
  <1>5. QED
    BY <1>2, <1>3, <1>4

\* A step that goes on with the last row, or ends with it.
LEMMA OwnMark ==
    ASSUME Base, Trails, NEW c \in Clients, pc[c] \in Busy, OneRow(c),
           faults \in Nat, faults' \in Nat, faults <= faults', req'[c] = req[c],
           outcome'[c] # "none" <=> pc'[c] = "done", outcome'[c] # "refused",
           pc'[c] \notin {"idle", "sweep", "cursor", "expired"},
           pc'[c] = "mint" => req[c].op = "page",
           pc'[c] \in WriteLabels => req[c].op \in {"create", "update", "delete"},
           LastRow(c)'.status = "SUCCESS" => LastRow(c)'.effect,
           \/ pc'[c] \notin Busy \cup {"done"}
           \/ pc'[c] = "done" /\ (outcome'[c] = "ok" \/ faults' = 0)
           => Settled(LastRow(c)'),
           pc'[c] \notin Writing \cup {"done"} => LastRow(c).call # "write" /\ pc[c] \notin Writing,
           pc'[c] \in Querying => LastRow(c).call = "query",
           pc'[c] \in Writing => LastRow(c).call = "write",
           pc'[c] \in {"call", "complete", "write", "written"} => LastRow(c)'.status = "PENDING",
           pc'[c] \in {"complete", "visibility", "written"} => LastRow(c)'.effect,
           pc'[c] = "visibility" => LastRow(c)'.status = "SUCCESS",
           pc'[c] \in {"failure", "unwritten"} => LastRow(c)'.status # "FAILURE",
           pc'[c] \in {"failure", "unseen", "unwritten"} => faults' > 0,
           outcome'[c] = "ok" /\ req[c].op \in {"create", "update", "delete"} => LastRow(c).call = "write"
    PROVE  PlaceOf(c)' /\ TrailOf(c)'
  <1>0. PlaceOf(c) /\ TrailOf(c)
    BY DEF Base, Places, Trails
  <1>1. PlaceOf(c)'
    BY DEF PlaceOf, Busy, WriteLabels, OneRow
  <1>2. ASSUME NEW i \in 1 .. Last(c)
        PROVE  /\ trail'[c][i].status = "SUCCESS" => trail'[c][i].effect
               /\ \/ i < Last(c)
                  \/ pc'[c] \notin Busy \cup {"done"}
                  \/ pc'[c] = "done" /\ (outcome'[c] = "ok" \/ faults' = 0)
                  => Settled(trail'[c][i])
               /\ pc'[c] \notin Writing \cup {"done"} => trail'[c][i].call # "write"
    <2>1. CASE i = Last(c)
      BY <2>1 DEF OneRow
    <2>2. CASE i # Last(c)
      <3>1. i < Last(c) /\ Settled(trail[c][i]) /\ trail'[c][i] = trail[c][i]
        BY <1>0, <2>2 DEF TrailOf, OneRow
      <3>2. pc'[c] \notin Writing \cup {"done"} => trail[c][i].call # "write"
        BY <1>0, <3>1 DEF TrailOf, Busy, Writing
      <3>3. QED
        BY <3>1, <3>2 DEF Settled
    <2>3. QED
      BY <2>1, <2>2
  <1>3. TrailOf(c)'
    BY <1>2 DEF TrailOf, OneRow
  <1>4. QED
    BY <1>1, <1>3

LEMMA OwnBusy ==
    ASSUME Base, Trails, NEW c \in Clients,
           \/ Call(c) \/ Complete(c) \/ RecordVisibility(c) \/ Failure(c) \/ FailureVisibility(c)
           \/ Write(c) \/ Written(c) \/ Unwritten(c)
    PROVE  PlaceOf(c)' /\ TrailOf(c)'
  <1>0. PlaceOf(c) /\ TrailOf(c) /\ TypeOK
    BY DEF Base, Places, Trails
  <1>1. /\ pc[c] \in Busy /\ pc[c] # "done" /\ outcome[c] = "none" /\ req' = req
        /\ Works \/ Fails
    BY <1>0 DEF Call, Complete, RecordVisibility, Failure, FailureVisibility, Write, Written,
       Unwritten, Busy, PlaceOf, fixed
  <1>2. /\ faults \in Nat /\ faults' \in Nat /\ faults <= faults' /\ (Fails => faults' > 0)
        /\ req[c].op \in Ops /\ Last(c) > 0
    BY <1>0, <1>1, FaultsGrow, Requested DEF TypeOK, Busy, PlaceOf
  <1>3. /\ LastRow(c) \in AuditRow
        /\ LastRow(c).status = "SUCCESS" => LastRow(c).effect
    <2>1. LastRow(c) \in AuditRow
      BY <1>0, <1>2, RowFields DEF TypeOK
    <2>2. Last(c) \in Nat
      BY <1>0, LenProperties DEF TypeOK, Last
    <2>3. QED
      BY <1>0, <1>2, <2>1, <2>2 DEF TrailOf, LastRow
  <1>4. trail' = trail => OneRow(c) /\ LastRow(c)' = LastRow(c)
    BY <1>1, LastKept
  <1>40. ASSUME NEW status \in {"SUCCESS", "FAILURE"}, Mark(c, status)
         PROVE  OneRow(c) /\ LastRow(c)' = [LastRow(c) EXCEPT !.status = status]
    <2>1. Rewrites(c, [LastRow(c) EXCEPT !.status = status]) /\ [LastRow(c) EXCEPT !.status = status] \in AuditRow
      BY <1>3, <1>40 DEF Mark, Rewrites, LastRow, AuditRow
    <2>2. QED
      BY <1>1, <1>3, <2>1, LastSet DEF AuditRow
  <1>41. \A l : Goto(c, l) => pc'[c] = l
    BY <1>0 DEF Goto, TypeOK
  <1>42. \A how : Answer(c, how) => pc'[c] = "done" /\ outcome'[c] = how
    BY <1>0, <1>41 DEF Answer, TypeOK
  <1>43. PlaceOf(c) /\ TrailOf(c)
    BY <1>0
  <1> USE <1>1, <1>2, <1>3, <1>4, <1>40, <1>41, <1>42, <1>43
  <1>5. CASE Call(c)
    <2>1. CASE trail' = [trail EXCEPT ![c][Last(c)].effect = TRUE] /\ Goto(c, "complete") /\ outcome' = outcome
      <3>1. Rewrites(c, [LastRow(c) EXCEPT !.effect = TRUE]) /\ [LastRow(c) EXCEPT !.effect = TRUE] \in AuditRow
        BY <2>1 DEF Rewrites, LastRow, AuditRow
      <3>2. OneRow(c) /\ LastRow(c)' = [LastRow(c) EXCEPT !.effect = TRUE]
        BY <3>1, LastSet DEF AuditRow
      <3>3. QED
        BY <1>5, <2>1, <3>2, OwnMark DEF Call, Busy, WriteLabels, Writing, Querying, TrailOf, AuditRow
    <2>2. CASE Fails /\ Goto(c, "failure") /\ trail' = trail /\ outcome' = outcome
      BY <1>5, <2>2, OwnMark DEF Call, Busy, WriteLabels, Writing, Querying, TrailOf
    <2>3. QED
      BY <1>5, <2>1, <2>2 DEF Call
  <1>6. CASE Complete(c)
    <2>1. /\ pc[c] = "complete" /\ outcome' = outcome /\ OneRow(c)
          /\ \/ LastRow(c)' = [LastRow(c) EXCEPT !.status = "SUCCESS"] /\ pc'[c] = "visibility"
             \/ /\ Fails /\ pc'[c] = "failure"
                /\ \/ LastRow(c)' = [LastRow(c) EXCEPT !.status = "SUCCESS"]
                   \/ LastRow(c)' = LastRow(c)
      BY <1>6 DEF Complete
    <2>2. QED
      BY <2>1, OwnMark DEF Busy, WriteLabels, Writing, Querying, TrailOf, AuditRow
  <1>7. CASE Failure(c)
    <2>1. /\ pc[c] = "failure" /\ OneRow(c)
          /\ \/ /\ LastRow(c)' = [LastRow(c) EXCEPT !.status = "FAILURE"]
                /\ pc'[c] = "unseen" /\ outcome' = outcome
             \/ /\ Fails /\ pc'[c] = "done" /\ outcome'[c] = "error"
                /\ LastRow(c)' = LastRow(c)
      BY <1>7 DEF Failure
    <2>2. QED
      BY <2>1, OwnMark DEF Busy, WriteLabels, Writing, Querying, TrailOf, AuditRow
  <1>8. CASE Written(c)
    <2>1. /\ pc[c] = "written" /\ OneRow(c)
          /\ \/ /\ LastRow(c)' = [LastRow(c) EXCEPT !.status = "SUCCESS"]
                /\ pc'[c] = "done" /\ outcome'[c] = "ok"
             \/ /\ Fails /\ pc'[c] = "unwritten" /\ outcome' = outcome
                /\ \/ LastRow(c)' = [LastRow(c) EXCEPT !.status = "SUCCESS"]
                   \/ LastRow(c)' = LastRow(c)
      BY <1>8 DEF Written
    <2>2. LastRow(c).effect /\ LastRow(c).call = "write" /\ LastRow(c).status = "PENDING"
      BY <2>1 DEF TrailOf, Writing
    <2>3. /\ LastRow(c)'.effect /\ LastRow(c)'.call = "write"
          /\ LastRow(c)'.status # "FAILURE"
          /\ pc'[c] = "done" => LastRow(c)'.status = "SUCCESS"
      BY <2>1, <2>2 DEF AuditRow
    <2>4. pc'[c] = "done" => Settled(LastRow(c)')
      BY <2>3 DEF Settled
    <2>5. req[c].op \in {"create", "update", "delete"}
      BY <2>1 DEF PlaceOf, WriteLabels
    <2>6. QED
      BY <2>1, <2>2, <2>3, <2>4, <2>5, OwnMark DEF Busy, WriteLabels, Writing, Querying
  <1>9. CASE Unwritten(c)
    <2>1. /\ pc[c] = "unwritten" /\ OneRow(c) /\ pc'[c] = "done" /\ outcome'[c] = "error"
          /\ \/ LastRow(c)' = [LastRow(c) EXCEPT !.status = "FAILURE"]
             \/ LastRow(c)' = LastRow(c)
      BY <1>9 DEF Unwritten
    <2>2. QED
      BY <2>1, OwnMark DEF Busy, WriteLabels, Writing, Querying, TrailOf, AuditRow
  <1>10. CASE Write(c)
    <2>1. PICK done \in BOOLEAN :
            /\ trail' = [trail EXCEPT ![c][Last(c)].effect = done]
            /\ \/ Works /\ done /\ Goto(c, "written")
               \/ Fails /\ Goto(c, "unwritten")
      BY <1>10 DEF Write
    <2>2. Rewrites(c, [LastRow(c) EXCEPT !.effect = done]) /\ [LastRow(c) EXCEPT !.effect = done] \in AuditRow
      BY <2>1 DEF Rewrites, LastRow, AuditRow
    <2>3. OneRow(c) /\ LastRow(c)' = [LastRow(c) EXCEPT !.effect = done]
      BY <2>2, LastSet DEF AuditRow
    <2>4. /\ pc[c] = "write" /\ outcome' = outcome
          /\ LastRow(c).call = "write" /\ LastRow(c).status = "PENDING"
      BY <1>10 DEF Write, TrailOf, Writing
    <2>5. /\ LastRow(c)'.call = "write" /\ LastRow(c)'.status = "PENDING"
          /\ LastRow(c)'.effect = done
      BY <2>3, <2>4 DEF AuditRow
    <2>6. req[c].op \in {"create", "update", "delete"}
      BY <2>4 DEF PlaceOf, WriteLabels
    <2>7. \/ pc'[c] = "written" /\ LastRow(c)'.effect
          \/ pc'[c] = "unwritten" /\ faults' > 0
      BY <2>1, <2>5
    <2>8. QED
      BY <2>3, <2>4, <2>5, <2>6, <2>7, OwnMark DEF Busy, WriteLabels, Writing, Querying
  <1>11. ASSUME trail' = [trail EXCEPT ![c][Last(c)].seen = TRUE]
         PROVE  OneRow(c) /\ LastRow(c)' = [LastRow(c) EXCEPT !.seen = TRUE]
    <2>1. Rewrites(c, [LastRow(c) EXCEPT !.seen = TRUE]) /\ [LastRow(c) EXCEPT !.seen = TRUE] \in AuditRow
      BY <1>11 DEF Rewrites, LastRow, AuditRow
    <2>2. QED
      BY <2>1, LastSet DEF AuditRow
  <1>12. CASE RecordVisibility(c)
    <2>1. pc[c] = "visibility"
      BY <1>12 DEF RecordVisibility
    <2>2. CASE OneRow(c) /\ LastRow(c)' = [LastRow(c) EXCEPT !.seen = TRUE] /\ Proceed(c)
      <3>1. \/ pc'[c] \in {"intent"} /\ outcome' = outcome
            \/ pc'[c] = "mint" /\ outcome' = outcome /\ req[c].op = "page"
            \/ pc'[c] = "decision" /\ outcome' = outcome /\ req[c].op \in {"create", "update", "delete"}
            \/ pc'[c] = "done" /\ outcome'[c] = "ok" /\ req[c].op \in {"page", "read"}
            \/ pc'[c] = "done" /\ outcome'[c] = "missing"
        BY <1>0, <2>1, <2>2, Proceeded DEF TypeOK
      <3>2. QED
        BY <2>1, <2>2, <3>1, OwnMark DEF Busy, WriteLabels, Writing, Querying, TrailOf, AuditRow, Settled
    <2>3. CASE Fails /\ Goto(c, "failure") /\ trail' = trail /\ outcome' = outcome
      BY <2>1, <2>3, OwnMark DEF Busy, WriteLabels, Writing, Querying, TrailOf
    <2>4. QED
      BY <1>11, <1>12, <2>2, <2>3 DEF RecordVisibility
  <1>13. CASE FailureVisibility(c)
    <2>1. /\ pc[c] = "unseen" /\ OneRow(c) /\ pc'[c] = "done" /\ outcome'[c] = "error"
          /\ \/ LastRow(c)' = [LastRow(c) EXCEPT !.seen = TRUE]
             \/ LastRow(c)' = LastRow(c)
      BY <1>11, <1>13 DEF FailureVisibility
    <2>2. QED
      BY <2>1, OwnMark DEF Busy, WriteLabels, Writing, Querying, TrailOf, AuditRow
  <1>14. QED
    BY <1>5, <1>6, <1>7, <1>8, <1>9, <1>10, <1>12, <1>13

LEMMA OwnEnds ==
    ASSUME Base, Trails, NEW c \in Clients, Begins(c) \/ Leave(c)
    PROVE  PlaceOf(c)' /\ TrailOf(c)'
  <1>0. PlaceOf(c) /\ TypeOK
    BY DEF Base, Places
  <1>1. Len(<<>>) = 0
    BY EmptySeq
  <1>2. CASE Begins(c)
    <2>1. /\ pc'[c] \in {"sweep", "access"} /\ trail'[c] = <<>> /\ outcome'[c] = "none"
          /\ pc'[c] = "sweep" => req'[c].op = "page"
      BY <1>0, <1>2 DEF Begins, Begin, Goto, PlaceOf, TypeOK
    <2>2. Last(c)' = 0
      BY <1>1, <2>1 DEF Last
    <2>3. QED
      BY <2>1, <2>2 DEF PlaceOf, TrailOf, Busy, WriteLabels, Writing, Querying
  <1>3. CASE Leave(c)
    <2>1. /\ pc'[c] = "idle" /\ trail'[c] = <<>> /\ outcome'[c] = "none"
          /\ work'[c] = <<>> /\ rest'[c] = <<>>
      BY <1>0, <1>3 DEF Leave, Clear, TypeOK
    <2>2. Last(c)' = 0
      BY <1>1, <2>1 DEF Last
    <2>3. QED
      BY <2>1, <2>2 DEF PlaceOf, TrailOf, Busy, WriteLabels, Writing, Querying
  <1>4. QED
    BY <1>2, <1>3

LEMMA OwnStep ==
    ASSUME Base, Trails, NEW c \in Clients, Act(c)
    PROVE  PlaceOf(c)' /\ TrailOf(c)' /\ faults' \in Nat /\ faults <= faults'
  <1>1. Works \/ Fails \/ faults' = faults
    BY BeginsAll DEF Base, Act, Serve, Begins, Begin, Sweep, Access, Deny, ReadCursor, DropExpired,
       Refuse, Mint, Intent, Call, Complete, RecordVisibility, Failure, FailureVisibility,
       Decision, AnnounceWrite, Write, Written, Unwritten, Leave
  <1>2. faults' \in Nat /\ faults <= faults'
    BY <1>1, FaultsGrow DEF Base, TypeOK
  <1>3. PlaceOf(c)' /\ TrailOf(c)'
    BY BeginsAll, OwnEnds, OwnQuiet, OwnAnnounce, OwnBusy DEF Base, Act, Serve
  <1>4. QED
    BY <1>2, <1>3

LEMMA RequestStep == ASSUME Base, Trails, [Next]_vars PROVE Base' /\ Trails'
  <1> SUFFICES ASSUME NEW e \in Clients PROVE PlaceOf(e)' /\ TrailOf(e)'
    BY TypeStep DEF Base, Places, Trails
  <1>0. PlaceOf(e) /\ TrailOf(e) /\ TypeOK /\ faults \in Nat
    BY DEF Base, Places, Trails, TypeOK
  <1>1. ASSUME NEW c \in Clients, Act(c) PROVE PlaceOf(e)' /\ TrailOf(e)'
    BY <1>0, <1>1, OwnStep, OthersSame, Kept
  <1>2. CASE ChangePolicy \/ Tick \/ UNCHANGED vars
    BY <1>0, <1>2, Kept DEF ChangePolicy, Tick, vars, Same, fixed, held
  <1>3. CASE Crash
    <2>1. faults' \in Nat /\ faults' > 0
      BY <1>0, <1>3, FaultsGrow DEF Crash, TypeOK
    <2>2. /\ trail' = trail /\ req' = req /\ token' = token /\ work' = work /\ rest' = rest /\ filed' = filed
          /\ \/ pc[e] = "idle" /\ pc'[e] = "idle" /\ outcome'[e] = outcome[e]
             \/ pc[e] = "done" /\ pc'[e] = "done" /\ outcome'[e] = outcome[e]
             \/ pc'[e] = "done" /\ outcome'[e] = "error" /\ pc[e] # "idle"
      BY <1>0, <1>3 DEF Crash, fixed, held
    <2>3. Last(e)' = Last(e) /\ LastRow(e)' = LastRow(e)
      BY <2>2 DEF Last, LastRow
    <2>4. PlaceOf(e)'
      BY <1>0, <2>2, <2>3 DEF PlaceOf, Busy, WriteLabels
    <2>5. TrailOf(e)'
      BY <1>0, <2>1, <2>2, <2>3 DEF TrailOf, PlaceOf, Busy, Writing, Querying
    <2>6. QED
      BY <2>4, <2>5
  <1>4. QED
    BY <1>1, <1>2, <1>3 DEF Next, Act

LEMMA Inductive == Spec => [](Base /\ Trails)
  <1>1. Init => Base /\ Trails
    <2> SUFFICES ASSUME Init PROVE Base /\ Trails
      OBVIOUS
    <2>1. TypeOK
      BY DataRequestsAssumption, EmptySeq DEF Init, TypeOK, Versions, Labels
    <2>2. \A c \in Clients : Last(c) = 0
      BY EmptySeq DEF Init, Last
    <2>3. Places /\ Trails
      BY <2>2 DEF Init, Places, PlaceOf, Trails, TrailOf, Busy, WriteLabels, Writing, Querying
    <2>4. QED
      BY <2>1, <2>3 DEF Base
  <1>2. Base /\ Trails /\ [Next]_vars => (Base /\ Trails)'
    BY RequestStep
  <1>3. QED
    BY <1>1, <1>2, PTL DEF Spec

LEMMA RowsAre ==
    ASSUME Base, NEW c \in Clients
    PROVE  DOMAIN trail[c] = 1 .. Last(c) /\ Last(c) \in Nat
  BY LenProperties DEF Base, TypeOK, Last

\* Every variable keeps its type: cursors, pages and audit rows are what they are
\* declared to be, whatever fails.
THEOREM TypeCorrect == Spec => []TypeOK
  BY Inductive, PTL DEF Base

LEMMA GivenIsRecorded ==
    ASSUME Base, Trails, NEW c \in Clients, Given(c)
    PROVE  Recorded(c)
  <1>1. TrailOf(c) /\ pc[c] = "done" /\ outcome[c] = "ok"
    BY DEF Trails, Given
  <1>2. \A i \in 1 .. Last(c) : Settled(trail[c][i])
    BY <1>1 DEF TrailOf
  <1>3. req[c].op \in {"create", "update", "delete"} =>
            Last(c) \in 1 .. Last(c) /\ trail[c][Last(c)].call = "write"
    BY <1>1, RowsAre DEF TrailOf, LastRow
  <1>4. QED
    BY <1>2, <1>3, RowsAre DEF Settled, Recorded

\* What was given, and what was written, is completely on record; what was refused
\* is in a log, and nothing was written for it (executeWithAudit, EntityWriteRuntime,
\* AuditExceptionFilter).
THEOREM OutcomesRecorded == Spec => []OutcomesAreRecorded
  <1>1. ASSUME Base, Trails, NEW c \in Clients, outcome[c] = "refused"
        PROVE  filed[c] /\ \A i \in DOMAIN trail[c] : trail[c][i].call # "write"
    BY <1>1, RowsAre DEF Trails, TrailOf
  <1>2. Base /\ Trails => OutcomesAreRecorded
    BY <1>1, GivenIsRecorded DEF OutcomesAreRecorded
  <1>3. QED
    BY <1>2, Inductive, PTL

\* The trail claims no success that did not take place, and is exact where nothing
\* failed (executeWithAudit, EntityWriteRuntime).
THEOREM TrailTrue == Spec => []TrailIsTrue
  <1>1. Base /\ Trails => TrailIsTrue
    <2> SUFFICES ASSUME Base, Trails, NEW c \in Clients, NEW i \in DOMAIN trail[c]
                 PROVE  /\ trail[c][i].status = "SUCCESS" => trail[c][i].effect
                        /\ faults = 0 => trail[c][i].status # "FAILURE"
                        /\ faults = 0 /\ pc[c] = "done" => trail[c][i].status = "SUCCESS"
      BY DEF TrailIsTrue
    <2>1. TrailOf(c) /\ PlaceOf(c) /\ i \in 1 .. Last(c) /\ Last(c) \in Nat
      BY RowsAre DEF Trails, Base, Places
    <2>2. i < Last(c) \/ i = Last(c)
      BY <2>1
    <2>3. QED
      BY <2>1, <2>2 DEF TrailOf, Settled, LastRow, Busy
  <1>2. QED
    BY <1>1, Inductive, PTL

\* How the status of the last row changes.
LEMMA BusyStatus ==
    ASSUME Base, NEW c \in Clients,
           \/ Call(c) \/ Complete(c) \/ RecordVisibility(c) \/ Failure(c) \/ FailureVisibility(c)
           \/ Write(c) \/ Written(c) \/ Unwritten(c)
    PROVE  /\ OneRow(c)
           /\ \/ LastRow(c)'.status = LastRow(c).status
              \/ pc[c] \in {"complete", "written"} /\ LastRow(c)'.status = "SUCCESS"
              \/ /\ pc[c] \in {"failure", "unwritten"} /\ LastRow(c)'.status = "FAILURE"
                 /\ pc'[c] = "unseen" \/ outcome'[c] = "error"
  <1>0. TypeOK /\ pc[c] \in Busy /\ Last(c) > 0
    BY DEF Base, Places, PlaceOf, Call, Complete, RecordVisibility, Failure, FailureVisibility, Write,
       Written, Unwritten, Busy
  <1>1. LastRow(c) \in AuditRow
    BY <1>0, RowFields DEF TypeOK
  <1>2. ASSUME NEW row \in AuditRow, row.call = LastRow(c).call, Rewrites(c, row)
        PROVE  OneRow(c) /\ LastRow(c)' = row
    BY <1>0, <1>2, LastSet
  <1>3. trail' = trail => OneRow(c) /\ LastRow(c)' = LastRow(c)
    BY <1>0, LastKept
  <1>4. ASSUME NEW status \in {"SUCCESS", "FAILURE"}, Mark(c, status)
        PROVE  OneRow(c) /\ LastRow(c)'.status = status
    <2>1. Rewrites(c, [LastRow(c) EXCEPT !.status = status]) /\ [LastRow(c) EXCEPT !.status = status] \in AuditRow
      BY <1>1, <1>4 DEF Mark, Rewrites, LastRow, AuditRow
    <2>2. QED
      BY <1>1, <1>2, <2>1 DEF AuditRow
  <1>5. ASSUME trail' = [trail EXCEPT ![c][Last(c)].seen = TRUE]
        PROVE  OneRow(c) /\ LastRow(c)'.status = LastRow(c).status
    <2>1. Rewrites(c, [LastRow(c) EXCEPT !.seen = TRUE]) /\ [LastRow(c) EXCEPT !.seen = TRUE] \in AuditRow
      BY <1>1, <1>5 DEF Rewrites, LastRow, AuditRow
    <2>2. QED
      BY <1>1, <1>2, <2>1 DEF AuditRow
  <1>6. ASSUME NEW done, done \in BOOLEAN, trail' = [trail EXCEPT ![c][Last(c)].effect = done]
        PROVE  OneRow(c) /\ LastRow(c)'.status = LastRow(c).status
    <2>1. Rewrites(c, [LastRow(c) EXCEPT !.effect = done]) /\ [LastRow(c) EXCEPT !.effect = done] \in AuditRow
      BY <1>1, <1>6 DEF Rewrites, LastRow, AuditRow
    <2>2. QED
      BY <1>1, <1>2, <2>1 DEF AuditRow
  <1>7. CASE Call(c) \/ Write(c)
    BY <1>3, <1>6, <1>7 DEF Call, Write
  <1>8. CASE RecordVisibility(c) \/ FailureVisibility(c)
    BY <1>3, <1>5, <1>8 DEF RecordVisibility, FailureVisibility
  <1>9. CASE Complete(c) \/ Written(c)
    BY <1>3, <1>4, <1>9 DEF Complete, Written
  <1>10. CASE Failure(c) \/ Unwritten(c)
    BY <1>0, <1>3, <1>4, <1>10 DEF Failure, Unwritten, Goto, Answer, TypeOK
  <1>11. QED
    BY <1>7, <1>8, <1>9, <1>10

\* The trail has all that was given or written, and claims no more, whatever fails
\* (executeWithAudit, EntityWriteRuntime).
THEOREM AuditedRequests == Spec => []Audited
  BY OutcomesRecorded, TrailTrue, PTL DEF Audited

\* A completed row is changed once more at most, from a success to a failure, and
\* then nothing is given (the catch blocks of executeWithAudit, EntityWriteRuntime).
THEOREM TrailFinal == Spec => TrailIsFinal
  <1> DEFINE Final(c, i) == i \in DOMAIN trail'[c] /\ trail'[c][i].status # trail[c][i].status =>
                /\ trail[c][i].status # "FAILURE" /\ trail'[c][i].status # "PENDING"
                /\ trail[c][i].status = "SUCCESS" =>
                    pc'[c] = "unseen" \/ outcome'[c] = "error"
             A == \A c \in Clients : \A i \in DOMAIN trail[c] : Final(c, i)
  <1>1. ASSUME Base, Trails, Next, NEW e \in Clients, NEW i \in DOMAIN trail[e], trail'[e] # trail[e]
        PROVE  Final(e, i)
    <2>0. TypeOK /\ TrailOf(e) /\ i \in 1 .. Last(e) /\ Last(e) \in Nat
      BY <1>1, RowsAre DEF Base, Trails
    <2>1. PICK c \in Clients : Act(c)
      BY <1>1 DEF Next, Act, Crash, ChangePolicy, Tick
    <2>2. e = c
      BY <1>1, <2>1, OthersSame DEF Same
    <2>3. CASE \/ Call(e) \/ Complete(e) \/ RecordVisibility(e) \/ Failure(e) \/ FailureVisibility(e)
               \/ Write(e) \/ Written(e) \/ Unwritten(e)
      <3>1. /\ OneRow(e)
            /\ \/ LastRow(e)'.status = LastRow(e).status
               \/ pc[e] \in {"complete", "written"} /\ LastRow(e)'.status = "SUCCESS"
               \/ /\ pc[e] \in {"failure", "unwritten"} /\ LastRow(e)'.status = "FAILURE"
                  /\ pc'[e] = "unseen" \/ outcome'[e] = "error"
        BY <1>1, <2>3, BusyStatus
      <3>2. CASE i # Last(e)
        BY <2>0, <3>1, <3>2 DEF OneRow
      <3>3. CASE i = Last(e)
        BY <2>0, <3>1, <3>3 DEF OneRow, TrailOf, LastRow
      <3>4. QED
        BY <3>2, <3>3
    <2>4. ASSUME NEW call \in {"query", "write"}, Announce(e, call) PROVE Final(e, i)
      BY <2>0, <2>4, Announced DEF TypeOK
    <2>5. CASE Leave(e)
      <3>1. trail'[e] = <<>>
        BY <2>0, <2>5 DEF Leave, Clear, TypeOK
      <3>2. QED
        BY <3>1
    <2>6. QED
      BY <1>1, <2>0, <2>1, <2>2, <2>3, <2>4, <2>5, BeginsAll DEF Act, Serve, Begins, Begin, Sweep, Access,
         ReadCursor, DropExpired, Refuse, Mint, Intent, Decision, AnnounceWrite
  <1>2. Base /\ Trails /\ [Next]_vars => [A]_vars
    BY <1>1
  <1>3. QED
    BY <1>2, Inductive, PTL DEF Spec, TrailIsFinal

-----------------------------------------------------------------------------
(* Whose rows. *)

\* What client c holds is selected by the policy it was given, and a record it is
\* about to write was found by it.
ScopedOf(c) ==
    /\ pc[c] \in {"sweep", "access"} => work[c] = <<>> /\ rest[c] = <<>>
    /\ pc[c] # "idle" => work[c] \in Seq(Visible[ScopeOf(c)]) /\ rest[c] \in Seq(Visible[ScopeOf(c)])
    /\ req[c].op \in {"update", "delete"} =>
        /\ work[c] # <<>> => req[c].record \in Visible[ScopeOf(c)]
        /\ \/ pc[c] \in WriteLabels
           \/ \E i \in 1 .. Last(c) : trail[c][i].call = "write"
           => work[c] # <<>>
ScopedCursors ==
    \A t \in Tokens : cursors[t] # None =>
        /\ cursors[t].records \in Seq(Visible[cursors[t].scope])
        /\ cursors[t].locator \in Seq(Visible[cursors[t].scope])
Scoped == ScopedCursors /\ \A c \in Clients : ScopedOf(c)

LEMMA ScopedKept ==
    ASSUME NEW e \in Clients, Same(e), ScopedOf(e)
    PROVE  ScopedOf(e)'
  BY DEF Same, ScopedOf, ScopeOf, Last

\* Steps that leave what the client holds.
LEMMA ScopedHeld ==
    ASSUME Base, Trails, NEW c \in Clients, ScopedOf(c), pc[c] # "idle", pc'[c] # "idle",
           req'[c] = req[c], ver'[c] = ver[c], work'[c] = work[c], rest'[c] = rest[c],
           pc'[c] \in {"sweep", "access"} => pc[c] \in {"sweep", "access"},
           pc'[c] \in WriteLabels /\ req[c].op \in {"update", "delete"} => pc[c] \in WriteLabels \/ work[c] # <<>>,
           \A i \in 1 .. Last(c)' : trail'[c][i].call = "write" =>
                pc[c] \in WriteLabels \/ (i \in 1 .. Last(c) /\ trail[c][i].call = "write")
    PROVE  ScopedOf(c)'
  <1>1. ScopeOf(c)' = ScopeOf(c)
    BY DEF ScopeOf
  <1>2. QED
    BY <1>1 DEF ScopedOf

\* A write row is announced at "announce" only.
LEMMA WriteRows ==
    ASSUME Base, Trails, NEW c \in Clients, Act(c)
    PROVE  \A i \in 1 .. Last(c)' : trail'[c][i].call = "write" =>
              pc[c] \in WriteLabels \/ (i \in 1 .. Last(c) /\ trail[c][i].call = "write")
  <1>0. TypeOK /\ Last(c) \in Nat
    BY RowsAre DEF Base
  <1>1. CASE \/ Call(c) \/ Complete(c) \/ RecordVisibility(c) \/ Failure(c) \/ FailureVisibility(c)
             \/ Write(c) \/ Written(c) \/ Unwritten(c)
    <2>1. OneRow(c)
      BY <1>1, BusyStatus
    <2>2. QED
      BY <2>1 DEF OneRow, LastRow
  <1>2. ASSUME NEW call \in {"query", "write"}, Announce(c, call),
               call = "write" => pc[c] \in WriteLabels
        PROVE  \A i \in 1 .. Last(c)' : trail'[c][i].call = "write" =>
                 pc[c] \in WriteLabels \/ (i \in 1 .. Last(c) /\ trail[c][i].call = "write")
    <2>1. /\ Last(c)' = Last(c) + 1 /\ trail'[c][Last(c)'].call = call
          /\ \A i \in 1 .. Last(c) : trail'[c][i] = trail[c][i]
      BY <1>0, <1>2, Announced DEF TypeOK
    <2>2. \A i \in 1 .. Last(c)' : i \in 1 .. Last(c) \/ i = Last(c)'
      BY <1>0, <2>1
    <2>3. QED
      BY <1>2, <2>1, <2>2
  <1>3. CASE trail'[c] = trail[c]
    BY <1>3 DEF Last
  <1>4. CASE Leave(c)
    <2>1. trail'[c] = <<>>
      BY <1>0, <1>4 DEF Leave, Clear, TypeOK
    <2>2. Last(c)' = 0
      BY <2>1, EmptySeq DEF Last
    <2>3. QED
      BY <2>2
  <1>5. CASE AnnounceWrite(c)
    <2>1. Announce(c, "write") \/ trail' = trail
      BY <1>5 DEF AnnounceWrite
    <2>2. pc[c] \in WriteLabels
      BY <1>5 DEF AnnounceWrite, WriteLabels
    <2>3. QED
      BY <2>2
  <1>6. CASE Intent(c)
    BY <1>2, <1>3, <1>6 DEF Intent
  <1>7. QED
    BY <1>0, <1>1, <1>3, <1>4, <1>5, <1>6, BeginsAll DEF Act, Serve, Begins, Begin, Sweep, Access,
       ReadCursor, DropExpired, Refuse, Mint, Decision

LEMMA ScopedOwn ==
    ASSUME Base, Trails, Scoped, NEW c \in Clients, Act(c)
    PROVE  ScopedOf(c)'
  <1>0. TypeOK /\ PlaceOf(c) /\ TrailOf(c) /\ ScopedOf(c)
    BY DEF Base, Places, Trails, Scoped
  <1>1. \A i \in 1 .. Last(c)' : trail'[c][i].call = "write" =>
              pc[c] \in WriteLabels \/ (i \in 1 .. Last(c) /\ trail[c][i].call = "write")
    BY WriteRows
  <1>2. <<>> \in Seq(Visible[ScopeOf(c)']) /\ Len(<<>>) = 0
    BY EmptySeq
  <1>3. ASSUME Last(c)' = 0, work'[c] = <<>>, rest'[c] = <<>>, pc'[c] \notin WriteLabels
        PROVE  ScopedOf(c)'
    BY <1>2, <1>3 DEF ScopedOf
  <1>4. CASE Begins(c)
    <2>1. trail'[c] = <<>> /\ work'[c] = <<>> /\ rest'[c] = <<>> /\ pc'[c] \in {"sweep", "access"}
      BY <1>0, <1>4 DEF Begins, Begin, Goto, PlaceOf, held, TypeOK
    <2>2. QED
      BY <1>2, <1>3, <2>1 DEF Last, WriteLabels
  <1>5. CASE Leave(c)
    <2>1. trail'[c] = <<>> /\ work'[c] = <<>> /\ rest'[c] = <<>> /\ pc'[c] = "idle"
      BY <1>0, <1>5 DEF Leave, Clear, TypeOK
    <2>2. QED
      BY <1>2, <1>3, <2>1 DEF Last, WriteLabels
  <1>6. CASE Access(c)
    <2>1. /\ pc[c] = "access" /\ trail' = trail /\ work' = work /\ rest' = rest /\ req' = req
          /\ pc'[c] \in WriteLabels => req[c].op = "create"
          /\ pc'[c] \notin {"sweep", "access", "idle"}
      BY <1>0, <1>6 DEF Access, AfterAccess, Deny, Goto, Answer, WriteLabels, held, TypeOK
    <2>2. \A i \in 1 .. Last(c)' : trail'[c][i].call # "write"
      BY <1>0, <2>1 DEF TrailOf, Last, Writing
    <2>3. work'[c] = <<>> /\ rest'[c] = <<>>
      BY <1>0, <2>1 DEF ScopedOf
    <2>4. QED
      BY <1>2, <2>1, <2>2, <2>3 DEF ScopedOf
  <1>7. CASE ReadCursor(c)
    <2>1. /\ pc[c] = "cursor" /\ req' = req /\ ver' = ver /\ trail' = trail
          /\ req[c].op = "page"
      BY <1>0, <1>7 DEF ReadCursor, fixed, PlaceOf
    <2>2. CASE /\ pc' = [pc EXCEPT ![c] = "refuse"] \/ pc' = [pc EXCEPT ![c] = "expired"]
               /\ UNCHANGED <<held, outcome>>
      BY <1>0, <1>1, <2>1, <2>2, ScopedHeld DEF WriteLabels, held, TypeOK
    <2>3. CASE /\ Found(c) /\ Matches(c, cursors[token[c]])
               /\ Paginate(c, cursors[token[c]].records, cursors[token[c]].locator)
      <3>1. token[c] \in Tokens /\ cursors[token[c]] # None
        BY <1>0, <2>1, <2>3 DEF PlaceOf, TypeOK, Found
      <3>2. /\ cursors[token[c]].records \in Seq(Visible[ScopeOf(c)])
            /\ cursors[token[c]].locator \in Seq(Visible[ScopeOf(c)])
        BY <2>3, <3>1 DEF Scoped, ScopedCursors, Matches
      <3>3. /\ work'[c] = cursors[token[c]].records /\ rest'[c] = cursors[token[c]].locator
            /\ pc'[c] \in {"intent", "mint", "done"}
        BY <1>0, <2>3, Paginated DEF TypeOK
      <3>4. ScopeOf(c)' = ScopeOf(c) /\ req'[c] = req[c]
        BY <2>1 DEF ScopeOf
      <3>5. QED
        BY <2>1, <3>2, <3>3, <3>4 DEF ScopedOf
    <2>4. QED
      BY <1>7, <2>2, <2>3, CursorRead
  <1>8. CASE Call(c)
    <2>1. /\ pc[c] = "call" /\ req' = req /\ ver' = ver
      BY <1>8 DEF Call, fixed
    <2>2. CASE Goto(c, "failure") /\ UNCHANGED <<held, trail>>
      BY <1>0, <1>1, <2>1, <2>2, ScopedHeld DEF WriteLabels, held, Goto, TypeOK
    <2>3. CASE Fetch(c) /\ Goto(c, "complete")
      <3>1. ScopeOf(c)' = ScopeOf(c) /\ pc'[c] = "complete" /\ req'[c] = req[c]
        BY <1>0, <2>1, <2>3 DEF ScopeOf, Goto, TypeOK
      <3>2. work[c] \in Seq(Visible[ScopeOf(c)]) /\ rest[c] \in Seq(Visible[ScopeOf(c)])
        BY <1>0, <2>1 DEF ScopedOf
      <3>3. /\ \E w \in Seq(Visible[ScopeOf(c)]), r \in Seq(Visible[ScopeOf(c)]) :
                    work' = [work EXCEPT ![c] = w] /\ rest' = [rest EXCEPT ![c] = r]
            /\ req[c].op # "page" /\ work'[c] # <<>> => req[c].record \in Visible[ScopeOf(c)]
        BY <1>0, <2>1, <2>3, <3>2, Fetched
      <3>4. work'[c] \in Seq(Visible[ScopeOf(c)]) /\ rest'[c] \in Seq(Visible[ScopeOf(c)])
        BY <1>0, <3>3 DEF TypeOK
      <3>5. \A i \in 1 .. Last(c)' : trail'[c][i].call # "write"
        BY <1>0, <1>1, <2>1 DEF TrailOf, Writing, WriteLabels
      <3>6. QED
        BY <3>1, <3>3, <3>4, <3>5 DEF ScopedOf, WriteLabels
    <2>4. QED
      BY <1>8, <2>2, <2>3 DEF Call
  <1>9. CASE Mint(c)
    <2>1. /\ pc[c] = "mint" /\ req' = req /\ ver' = ver /\ trail' = trail /\ req[c].op = "page"
          /\ pc'[c] = "done"
      BY <1>0, <1>9 DEF Mint, fixed, PlaceOf, Answer, Goto, TypeOK
    <2>2. CASE UNCHANGED held
      BY <1>0, <1>1, <2>1, <2>2, ScopedHeld DEF WriteLabels, held
    <2>3. CASE work' = [work EXCEPT ![c] = PageOf(c)] /\ rest' = [rest EXCEPT ![c] = <<>>]
      <3>1. work[c] \in Seq(Visible[ScopeOf(c)]) /\ req[c].size \in Nat \ {0}
        BY <1>0, <2>1, Requested DEF ScopedOf
      <3>2. PageOf(c) \in Seq(Visible[ScopeOf(c)])
        BY <3>1, Cut
      <3>3. /\ ScopeOf(c)' = ScopeOf(c) /\ req'[c] = req[c]
            /\ work'[c] = PageOf(c) /\ rest'[c] = <<>>
        BY <1>0, <2>1, <2>3 DEF ScopeOf, TypeOK
      <3>4. QED
        BY <1>2, <2>1, <3>2, <3>3 DEF ScopedOf
    <2>4. QED
      BY <1>9, <2>2, <2>3 DEF Mint
  <1>10. CASE RecordVisibility(c)
    <2>1. /\ pc[c] = "visibility" /\ req' = req /\ ver' = ver
      BY <1>10 DEF RecordVisibility, fixed
    <2>2. CASE Proceed(c)
      <3>1. UNCHANGED held /\ pc'[c] \in {"intent", "mint", "decision", "done"}
            /\ (pc'[c] = "decision" => work[c] # <<>>)
        BY <1>0, <2>1, <2>2, Proceeded DEF TypeOK
      <3>2. QED
        BY <1>0, <1>1, <2>1, <3>1, ScopedHeld DEF WriteLabels, held
    <2>3. CASE Goto(c, "failure") /\ UNCHANGED held
      BY <1>0, <1>1, <2>1, <2>3, ScopedHeld DEF WriteLabels, held, Goto, TypeOK
    <2>4. QED
      BY <1>10, <2>2, <2>3 DEF RecordVisibility
  <1>11. CASE \/ Sweep(c) \/ DropExpired(c) \/ Refuse(c) \/ Intent(c) \/ Complete(c) \/ Failure(c)
              \/ FailureVisibility(c) \/ Decision(c) \/ AnnounceWrite(c) \/ Write(c) \/ Written(c)
              \/ Unwritten(c)
    <2>1. req' = req /\ ver' = ver /\ work' = work /\ rest' = rest
      BY <1>11 DEF Sweep, DropExpired, Refuse, Intent, Complete, Failure, FailureVisibility,
         Decision, AnnounceWrite, Write, Written, Unwritten, fixed, held
    <2>2. CASE Sweep(c) \/ DropExpired(c) \/ Refuse(c)
      <3>1. \/ pc[c] = "sweep" /\ pc'[c] \in {"access", "done"}
            \/ pc[c] \in {"expired", "refuse"} /\ pc'[c] \in {"refuse", "done"}
        BY <1>0, <2>2 DEF Sweep, DropExpired, Refuse, Deny, Goto, Answer, TypeOK
      <3>2. QED
        BY <1>0, <1>1, <2>1, <3>1, ScopedHeld DEF WriteLabels
    <2>3. CASE Intent(c) \/ Complete(c) \/ Failure(c) \/ FailureVisibility(c)
      <3>1. /\ pc[c] \in {"intent", "complete", "failure", "unseen"}
            /\ pc'[c] \in {"call", "visibility", "failure", "unseen", "done"}
        BY <1>0, <2>3 DEF Intent, Complete, Failure, FailureVisibility, Goto, Answer, TypeOK
      <3>2. QED
        BY <1>0, <1>1, <2>1, <3>1, ScopedHeld DEF WriteLabels
    <2>4. CASE \/ Decision(c) \/ AnnounceWrite(c) \/ Write(c) \/ Written(c) \/ Unwritten(c)
      <3>1. /\ pc[c] \in {"decision", "announce", "write", "written", "unwritten"}
            /\ pc'[c] \in {"announce", "refuse", "write", "written", "unwritten", "done"}
        BY <1>0, <2>4 DEF Decision, AnnounceWrite, Write, Written, Unwritten, Goto, Answer, TypeOK
      <3>2. QED
        BY <1>0, <1>1, <2>1, <3>1, ScopedHeld DEF WriteLabels
    <2>5. QED
      BY <1>11, <2>2, <2>3, <2>4
  <1>12. QED
    BY <1>0, <1>4, <1>5, <1>6, <1>7, <1>8, <1>9, <1>10, <1>11, BeginsAll DEF Act, Serve

LEMMA CursorsStep ==
    ASSUME Base, Trails, Scoped, [Next]_vars
    PROVE  ScopedCursors'
  <1>0. TypeOK /\ ScopedCursors
    BY DEF Base, Scoped
  <1>1. ASSUME \A t \in Tokens : cursors'[t] \in {cursors[t], None} PROVE ScopedCursors'
    BY <1>0, <1>1 DEF ScopedCursors
  <1>2. ASSUME NEW c \in Clients, Mint(c), cursors' # cursors PROVE ScopedCursors'
    <2>1. /\ pc[c] = "mint"
          /\ cursors' = [cursors EXCEPT ![minted + 1] =
                [scope |-> ScopeOf(c), size |-> req[c].size,
                 records |-> LeftOf(c), locator |-> rest[c], expires |-> now + TTL]]
      BY <1>2 DEF Mint
    <2>2. req[c].size \in Nat \ {0}
      BY <1>0, <2>1, Requested
    <2>3. work[c] \in Seq(Visible[ScopeOf(c)]) /\ rest[c] \in Seq(Visible[ScopeOf(c)])
      BY <2>1 DEF Scoped, ScopedOf
    <2>4. LeftOf(c) \in Seq(Visible[ScopeOf(c)])
      BY <2>2, <2>3, Cut
    <2>5. QED
      BY <1>0, <2>1, <2>3, <2>4 DEF ScopedCursors, TypeOK
  <1>3. CASE cursors' = cursors
    BY <1>1, <1>3
  <1>4. ASSUME NEW c \in Clients, Sweep(c) \/ DropExpired(c) PROVE ScopedCursors'
    BY <1>0, <1>1, <1>4 DEF Sweep, DropExpired, TypeOK
  <1>5. ASSUME NEW c \in Clients, Act(c) PROVE ScopedCursors'
    BY <1>0, <1>2, <1>3, <1>4, <1>5, BeginsAll DEF Act, Serve, Begins, Begin, Access, ReadCursor, Refuse, Intent, Call,
       Complete, RecordVisibility, Failure, FailureVisibility, Decision, AnnounceWrite, Write, Written,
       Unwritten, Leave, store
  <1>6. QED
    BY <1>3, <1>5 DEF Next, Act, Crash, ChangePolicy, Tick, vars, store

LEMMA InScope == Spec => []Scoped
  <1>1. Init => Scoped
    BY EmptySeq DEF Init, Scoped, ScopedCursors, ScopedOf, Last, WriteLabels
  <1>2. Base /\ Trails /\ Scoped /\ [Next]_vars => Scoped'
    <2> SUFFICES ASSUME Base, Trails, Scoped, [Next]_vars, NEW e \in Clients PROVE ScopedOf(e)'
      BY CursorsStep DEF Scoped
    <2>0. ScopedOf(e) /\ TypeOK /\ PlaceOf(e)
      BY DEF Scoped, Base, Places
    <2>1. ASSUME NEW c \in Clients, Act(c) PROVE ScopedOf(e)'
      BY <2>0, <2>1, ScopedOwn, OthersSame, ScopedKept
    <2>2. CASE ChangePolicy \/ Tick \/ UNCHANGED vars
      BY <2>0, <2>2, ScopedKept DEF ChangePolicy, Tick, vars, Same, fixed, held
    <2>3. CASE Crash
      <3>1. /\ req' = req /\ ver' = ver /\ work' = work /\ rest' = rest /\ trail' = trail
            /\ pc'[e] = IF pc[e] = "idle" THEN "idle" ELSE "done"
        BY <2>3 DEF Crash, fixed, held
      <3>2. ScopeOf(e)' = ScopeOf(e) /\ Last(e)' = Last(e)
        BY <3>1 DEF ScopeOf, Last
      <3>3. QED
        BY <2>0, <3>1, <3>2 DEF ScopedOf, WriteLabels
    <2>4. QED
      BY <2>1, <2>2, <2>3 DEF Next, Act
  <1>3. QED
    BY <1>1, <1>2, Inductive, PTL DEF Spec

\* Whatever cursors, batches and policy changes it went through, a page shows rows
\* that the policy its request was authorised under selects
\* (buildEntityQueryFingerprint, materializeCursorPage).
THEOREM OnePolicy == Spec => []RowsOfOnePolicy
  <1>1. Base /\ Scoped => RowsOfOnePolicy
    BY DEF RowsOfOnePolicy, Scoped, ScopedOf, Given
  <1>2. QED
    BY <1>1, Inductive, InScope, PTL

\* What is updated or deleted was in the scope of the contact
\* (assertRecordInWriteScope).
THEOREM ScopedWrites == Spec => []WritesInScope
  <1>1. Base /\ Scoped => WritesInScope
    BY RowsAre DEF WritesInScope, Scoped, ScopedOf
  <1>2. QED
    BY <1>1, Inductive, InScope, PTL

\* What is given and what is written keeps to the policy the request was authorised
\* under (buildEntityQueryFingerprint, assertRecordInWriteScope).
THEOREM PolicyKept == Spec => []WithinPolicy
  BY OnePolicy, ScopedWrites, PTL DEF WithinPolicy

-----------------------------------------------------------------------------
(* Pages: DataRequests implements PagedResult.                              *)

\* What PagedResult sees of a cursor and of a request.
Stands == [t \in Tokens |->
            IF cursors[t] = None THEN None
            ELSE [scope |-> cursors[t].scope, size |-> cursors[t].size,
                  rows |-> cursors[t].records \o cursors[t].locator]]
Claims == [c \in Clients |->
            IF ~Reading(c) THEN None
            ELSE [scope |-> ScopeOf(c), size |-> req[c].size,
                  rows |-> work[c] \o rest[c], fresh |-> token[c] = None]]
Handed == [c \in Clients |->
            IF Given(c) /\ req[c].op = "page" THEN work[c] ELSE None]

LEMMA MapsInit ==
    ASSUME Stands = [k \in Tokens |-> None], Claims = [c \in Clients |-> None],
           Handed = [c \in Clients |-> None]
    PROVE  Pages!PInit
  BY DEF Pages!PInit, Stands, Claims, Handed

LEMMA MapsAsk ==
    ASSUME NEW c \in Clients, Claims[c] = None, Handed[c] = None, Claims'[c] # None,
           NEW s \in DOMAIN Results, NEW q \in Requests, NEW rows \in Results[s],
           Claims' = [Claims EXCEPT ![c] = [scope |-> s, size |-> q.size, rows |-> rows,
                                            fresh |-> TRUE]],
           Stands' = Stands, Handed' = Handed
    PROVE  Pages!Ask(c)
  <1>1. \E x \in DOMAIN Results, z \in {r.size : r \in Requests} : \E y \in Results[x] :
            Claims' = [Claims EXCEPT ![c] = [scope |-> x, size |-> z, rows |-> y,
                                             fresh |-> TRUE]]
    OBVIOUS
  <1>2. QED
    BY <1>1 DEF Pages!Ask, Stands, Claims, Handed

LEMMA MapsPresent ==
    ASSUME NEW c \in Clients, NEW k \in Tokens, Claims[c] = None, Handed[c] = None,
           Stands[k] # None,
           Claims' = [Claims EXCEPT ![c] = [scope |-> Stands[k].scope, size |-> Stands[k].size,
                                            rows |-> Stands[k].rows, fresh |-> FALSE]],
           Stands' = Stands, Handed' = Handed
    PROVE  Pages!Present(c, k)
  BY DEF Pages!Present, Stands, Claims, Handed

LEMMA MapsHand ==
    ASSUME NEW c \in Clients, Claims[c] # None,
           NEW n \in 0 .. Pages!Shorter(Claims[c].size, Len(Claims[c].rows)),
           Claims[c].fresh \/ n = Pages!Shorter(Claims[c].size, Len(Claims[c].rows)),
           n = 0 => Claims[c].rows = <<>>,
           Handed' = [Handed EXCEPT ![c] = First(Claims[c].rows, n)],
           IF n = Len(Claims[c].rows)
           THEN Stands' = Stands
           ELSE \E k \in Tokens :
                    /\ Stands[k] = None
                    /\ Stands' = [Stands EXCEPT ![k] =
                            [scope |-> Claims[c].scope, size |-> Claims[c].size,
                             rows |-> After(Claims[c].rows, n)]],
           Claims' = [Claims EXCEPT ![c] = None]
    PROVE  Pages!Hand(c)
  BY DEF Pages!Hand, Pages!First, Pages!After, First, After, Stands, Claims, Handed

LEMMA MapsHandLast ==
    ASSUME NEW c \in Clients, NEW k \in Tokens, Claims[c] = None, Handed[c] = None,
           Stands[k] # None, Len(Stands[k].rows) <= Stands[k].size,
           Handed' = [Handed EXCEPT ![c] = Stands[k].rows],
           Stands' = Stands, Claims' = Claims
    PROVE  Pages!HandLast(c, k)
  BY DEF Pages!HandLast, Stands, Claims, Handed

LEMMA MapsEnd ==
    ASSUME NEW c \in Clients, Claims' = [Claims EXCEPT ![c] = None],
           Handed' = [Handed EXCEPT ![c] = None], Stands' = Stands
    PROVE  Pages!End(c)
  BY DEF Pages!End, Stands, Claims, Handed

LEMMA MapsEndAll ==
    ASSUME Claims' = [c \in Clients |-> None], Handed' = Handed, Stands' = Stands
    PROVE  Pages!EndAll
  BY DEF Pages!EndAll, Stands, Claims, Handed

LEMMA MapsForget ==
    ASSUME \A k \in Tokens : Stands'[k] \in {Stands[k], None}, Claims' = Claims, Handed' = Handed
    PROVE  Pages!Forget
  BY DEF Pages!Forget, Stands, Claims, Handed

\* What a request does alone leaves the claims and the pages of the others.
LEMMA Entries ==
    ASSUME Base, NEW c \in Clients, Act(c)
    PROVE  /\ Claims' = [Claims EXCEPT ![c] = Claims'[c]]
           /\ Handed' = [Handed EXCEPT ![c] = Handed'[c]]
  <1>1. ASSUME NEW e \in Clients, e # c
        PROVE  Claims'[e] = Claims[e] /\ Handed'[e] = Handed[e]
    <2>1. Same(e)
      BY <1>1, OthersSame
    <2>2. Reading(e)' = Reading(e) /\ Given(e)' = Given(e) /\ ScopeOf(e)' = ScopeOf(e)
      BY <2>1 DEF Same, Reading, Given, ScopeOf
    <2>3. QED
      BY <2>1, <2>2 DEF Same, Claims, Handed
  <1>2. \A e \in Clients : /\ Claims'[e] = [Claims EXCEPT ![c] = Claims'[c]][e]
                           /\ Handed'[e] = [Handed EXCEPT ![c] = Handed'[c]][e]
    BY <1>1 DEF Claims, Handed
  <1> DEFINE C == Claims'
             H == Handed'
  <1>3. C = [e \in Clients |-> C[e]] /\ H = [e \in Clients |-> H[e]]
    BY DEF Claims, Handed
  <1>4. /\ [Claims EXCEPT ![c] = C[c]] = [e \in Clients |-> [Claims EXCEPT ![c] = C[c]][e]]
        /\ [Handed EXCEPT ![c] = H[c]] = [e \in Clients |-> [Handed EXCEPT ![c] = H[c]][e]]
    BY DEF Claims, Handed
  <1> HIDE DEF C, H
  <1>5. QED
    BY <1>2, <1>3, <1>4 DEF C, H

\* Who claims nothing, and who has been handed nothing.
LEMMA Resting ==
    ASSUME NEW c \in Clients
    PROVE  /\ \/ pc[c] \notin {"complete", "visibility", "mint", "intent", "call"}
              \/ pc[c] \in {"intent", "call"} /\ token[c] = None
              \/ req[c].op # "page"
              => Claims[c] = None
           /\ pc[c] # "done" \/ outcome[c] # "ok" \/ req[c].op # "page" => Handed[c] = None
  BY DEF Claims, Handed, Reading, Given

LEMMA ClaimRecords ==
    ASSUME TypeOK, NEW c \in Clients, Reading(c)
    PROVE  /\ Claims[c] = [scope |-> ScopeOf(c), size |-> req[c].size,
                           rows |-> work[c] \o rest[c], fresh |-> token[c] = None]
           /\ work[c] \o rest[c] \in Seq(Records) /\ req[c].size \in Nat \ {0}
           /\ Claims[c] # None
  <1>1. pc[c] # "idle" /\ req[c].op = "page"
    BY DEF Reading
  <1>2. ScopeOf(c) \in Scope /\ req[c].size \in Nat \ {0}
    BY <1>1, Requested
  <1>3. work[c] \o rest[c] \in Seq(Records)
    BY ConcatProperties DEF TypeOK
  <1>4. Claims[c] = [scope |-> ScopeOf(c), size |-> req[c].size,
                     rows |-> work[c] \o rest[c], fresh |-> token[c] = None]
    BY DEF Claims
  <1>5. Claims[c] \in [scope : Scope, size : Nat \ {0}, rows : Seq(Records), fresh : BOOLEAN]
    BY <1>2, <1>3, <1>4
  <1>6. QED
    BY <1>2, <1>3, <1>4, <1>5, DataRequestsAssumption

LEMMA StandRecords ==
    ASSUME TypeOK, NEW t \in Tokens, cursors[t] # None
    PROVE  /\ Stands[t] = [scope |-> cursors[t].scope, size |-> cursors[t].size,
                           rows |-> cursors[t].records \o cursors[t].locator]
           /\ Stands[t] # None
  <1>1. cursors[t] \in Cursor
    BY DEF TypeOK
  <1>2. cursors[t].records \o cursors[t].locator \in Seq(Records)
    BY <1>1, ConcatProperties DEF Cursor
  <1>3. Stands[t] = [scope |-> cursors[t].scope, size |-> cursors[t].size,
                     rows |-> cursors[t].records \o cursors[t].locator]
    BY DEF Stands
  <1>4. Stands[t] \in [scope : Scope, size : Nat \ {0}, rows : Seq(Records)]
    BY <1>1, <1>2, <1>3 DEF Cursor
  <1>5. QED
    BY <1>3, <1>4, DataRequestsAssumption

\* A page cut from the rows at hand is cut from all rows.
LEMMA CutOfAll ==
    ASSUME NEW S, NEW w \in Seq(S), NEW r \in Seq(S), NEW n \in 0 .. Len(w)
    PROVE  /\ First(w \o r, n) = First(w, n)
           /\ After(w \o r, n) = After(w, n) \o r
  <1>1. /\ w \o r \in Seq(S) /\ Len(w \o r) = Len(w) + Len(r)
        /\ Len(w) \in Nat /\ Len(r) \in Nat
        /\ \A i \in 1 .. Len(w) + Len(r) :
             (w \o r)[i] = IF i <= Len(w) THEN w[i] ELSE r[i - Len(w)]
    BY ConcatProperties, LenProperties
  <1>2. n \in 0 .. Len(w \o r)
    BY <1>1
  <1>3. /\ First(w, n) \in Seq(S) /\ Len(First(w, n)) = n
        /\ After(w, n) \in Seq(S) /\ Len(After(w, n)) = Len(w) - n
        /\ \A i \in 1 .. n : First(w, n)[i] = w[i]
        /\ \A i \in 1 .. Len(w) - n : After(w, n)[i] = w[n + i]
    BY Split
  <1>4. /\ First(w \o r, n) \in Seq(S) /\ Len(First(w \o r, n)) = n
        /\ After(w \o r, n) \in Seq(S) /\ Len(After(w \o r, n)) = Len(w \o r) - n
        /\ \A i \in 1 .. n : First(w \o r, n)[i] = (w \o r)[i]
        /\ \A i \in 1 .. Len(w \o r) - n : After(w \o r, n)[i] = (w \o r)[n + i]
    BY <1>1, <1>2, Split
  <1>5. /\ After(w, n) \o r \in Seq(S) /\ Len(After(w, n) \o r) = (Len(w) - n) + Len(r)
        /\ \A i \in 1 .. (Len(w) - n) + Len(r) :
             (After(w, n) \o r)[i] = IF i <= Len(w) - n THEN After(w, n)[i]
                                     ELSE r[i - (Len(w) - n)]
    BY <1>3, ConcatProperties
  <1>6. \A i \in 1 .. n : First(w \o r, n)[i] = First(w, n)[i]
    BY <1>1, <1>3, <1>4
  <1>7. \A i \in 1 .. (Len(w) - n) + Len(r) : After(w \o r, n)[i] = (After(w, n) \o r)[i]
    <2> TAKE i \in 1 .. (Len(w) - n) + Len(r)
    <2>1. /\ n + i \in 1 .. Len(w) + Len(r) /\ (n + i <= Len(w) <=> i <= Len(w) - n)
          /\ (n + i) - Len(w) = i - (Len(w) - n) /\ (i <= Len(w) - n => i \in 1 .. Len(w) - n)
      BY <1>1
    <2>2. After(w \o r, n)[i] = (w \o r)[n + i]
      BY <1>1, <1>4
    <2>3. QED
      BY <1>1, <1>3, <1>5, <2>1, <2>2
  <1>8. First(w \o r, n) = First(w, n)
    BY <1>3, <1>4, <1>6, SeqEqual
  <1>9. Len(w \o r) - n = (Len(w) - n) + Len(r)
    BY <1>1
  <1>10. After(w \o r, n) = After(w, n) \o r
    BY <1>4, <1>5, <1>7, <1>9, SeqEqual
  <1>11. QED
    BY <1>8, <1>10

LEMMA Regroup ==
    ASSUME NEW S, NEW a \in Seq(S), NEW b \in Seq(S), NEW d \in Seq(S)
    PROVE  (a \o b) \o d = a \o (b \o d)
  <1>1. PICK l : l = a \o b
    OBVIOUS
  <1>2. PICK r : r = b \o d
    OBVIOUS
  <1>3. PICK x : x = l \o d
    OBVIOUS
  <1>4. PICK y : y = a \o r
    OBVIOUS
  <1>5. Len(a) \in Nat /\ Len(b) \in Nat /\ Len(d) \in Nat
    BY LenProperties
  <1>6. /\ l \in Seq(S) /\ Len(l) = Len(a) + Len(b)
        /\ \A i \in 1 .. Len(a) + Len(b) : l[i] = IF i <= Len(a) THEN a[i] ELSE b[i - Len(a)]
    BY <1>1, ConcatProperties
  <1>7. /\ r \in Seq(S) /\ Len(r) = Len(b) + Len(d)
        /\ \A i \in 1 .. Len(b) + Len(d) : r[i] = IF i <= Len(b) THEN b[i] ELSE d[i - Len(b)]
    BY <1>2, ConcatProperties
  <1>8. /\ x \in Seq(S) /\ Len(x) = Len(l) + Len(d)
        /\ \A i \in 1 .. Len(l) + Len(d) : x[i] = IF i <= Len(l) THEN l[i] ELSE d[i - Len(l)]
    <2>1. l \in Seq(S)
      BY <1>6
    <2>2. QED
      BY <1>3, <2>1, ConcatProperties
  <1>9. /\ y \in Seq(S) /\ Len(y) = Len(a) + Len(r)
        /\ \A i \in 1 .. Len(a) + Len(r) : y[i] = IF i <= Len(a) THEN a[i] ELSE r[i - Len(a)]
    <2>1. r \in Seq(S)
      BY <1>7
    <2>2. QED
      BY <1>4, <2>1, ConcatProperties
  <1>10. Len(x) = Len(y) /\ Len(x) = Len(a) + Len(b) + Len(d)
    BY <1>5, <1>6, <1>7, <1>8, <1>9
  <1>11. \A i \in 1 .. Len(x) : x[i] = y[i]
    <2> TAKE i \in 1 .. Len(x)
    <2>1. i \in Nat /\ i >= 1 /\ i <= Len(a) + Len(b) + Len(d)
      BY <1>5, <1>10
    <2>2. CASE i <= Len(a)
      <3>1. x[i] = l[i] /\ l[i] = a[i]
        BY <1>5, <1>6, <1>8, <2>1, <2>2
      <3>2. y[i] = a[i]
        BY <1>5, <1>7, <1>9, <2>1, <2>2
      <3>3. QED
        BY <3>1, <3>2
    <2>3. CASE i > Len(a) /\ i <= Len(a) + Len(b)
      <3>1. x[i] = b[i - Len(a)]
        BY <1>5, <1>6, <1>8, <2>1, <2>3
      <3>2. y[i] = r[i - Len(a)] /\ i - Len(a) \in 1 .. Len(b)
        BY <1>5, <1>7, <1>9, <2>1, <2>3
      <3>3. QED
        BY <1>5, <1>7, <3>1, <3>2
    <2>4. CASE i > Len(a) + Len(b)
      <3>1. x[i] = d[i - (Len(a) + Len(b))]
        BY <1>5, <1>6, <1>8, <2>1, <2>4
      <3>2. y[i] = r[i - Len(a)] /\ i - Len(a) \in 1 .. Len(b) + Len(d) /\ i - Len(a) > Len(b)
        BY <1>5, <1>7, <1>9, <2>1, <2>4
      <3>3. r[i - Len(a)] = d[(i - Len(a)) - Len(b)] /\ (i - Len(a)) - Len(b) = i - (Len(a) + Len(b))
        BY <1>5, <1>7, <2>1, <3>2
      <3>4. QED
        BY <3>1, <3>2, <3>3
    <2>5. QED
      BY <1>5, <2>1, <2>2, <2>3, <2>4
  <1>12. x = y
    BY <1>8, <1>9, <1>10, <1>11, SeqEqual
  <1>13. QED
    BY <1>1, <1>2, <1>3, <1>4, <1>12

\* The length of the page that is cut.
LEMMA CutLength ==
    ASSUME NEW w \in Nat, NEW r \in Nat, NEW z \in Nat \ {0}, NEW n,
           n = IF w < z THEN w ELSE z
    PROVE  /\ n \in Nat /\ n \in 0 .. Pages!Shorter(z, w + r)
           /\ w > z \/ r > 0 => n # w + r
           /\ w # 0 => n # 0
           /\ w >= z => n = Pages!Shorter(z, w + r)
  BY DEF Pages!Shorter

\* Where the loop of the pages stands: a cursor is created only when rows are left, the
\* page of a cursor is full by then, the first batch is empty only if the result is, and
\* the next cursor is a new one.
PagingOf(c) ==
    /\ pc[c] = "mint" => Len(work[c]) > req[c].size \/ rest[c] # <<>>
    /\ pc[c] = "mint" /\ token[c] # None => Len(work[c]) >= req[c].size
    /\ /\ pc[c] \in {"complete", "visibility", "mint"} /\ req[c].op = "page"
       /\ token[c] = None /\ work[c] = <<>>
       => rest[c] = <<>>
Unminted == \A t \in Tokens : t > minted => cursors[t] = None
Paging == Unminted /\ \A c \in Clients : PagingOf(c)

LEMMA PagingKept ==
    ASSUME NEW e \in Clients, Same(e), PagingOf(e)
    PROVE  PagingOf(e)'
  BY DEF Same, PagingOf

\* A batch is empty only if nothing is left.
LEMMA FirstBatch ==
    ASSUME Base, NEW c \in Clients, Call(c), pc'[c] = "complete", req[c].op = "page"
    PROVE  \/ /\ token[c] = None
              /\ \E s \in Results[ScopeOf(c)] : \E n \in 0 .. Len(s) :
                    /\ s \in Seq(Records) /\ (n = 0 => s = <<>>)
                    /\ work'[c] = First(s, n) /\ rest'[c] = After(s, n)
           \/ /\ token[c] # None
              /\ \E n \in 0 .. Len(rest[c]) :
                    work'[c] = work[c] \o First(rest[c], n) /\ rest'[c] = After(rest[c], n)
  <1>0. TypeOK /\ pc[c] = "call" /\ Fetch(c)
    BY DEF Base, Call, Goto, TypeOK
  <1>1. ScopeOf(c) \in Scope
    BY <1>0, Requested
  <1>2. \A s \in Seq(Records) : \A n \in Batches(s) : n \in 0 .. Len(s) /\ (n = 0 => Len(s) = 0)
    BY LenProperties, DataRequestsAssumption DEF Batches
  <1>3. CASE token[c] = None
    <2>a. PICK s \in Results[ScopeOf(c)] : \E n \in Batches(s) :
            /\ work' = [work EXCEPT ![c] = First(s, n)]
            /\ rest' = [rest EXCEPT ![c] = After(s, n)]
      BY <1>0, <1>3 DEF Fetch
    <2>1. PICK n \in Batches(s) :
            /\ work' = [work EXCEPT ![c] = First(s, n)]
            /\ rest' = [rest EXCEPT ![c] = After(s, n)]
      BY <2>a
    <2>2. s \in Seq(Visible[ScopeOf(c)]) /\ Visible[ScopeOf(c)] \subseteq Records
      BY <1>1, <2>1, DataRequestsAssumption
    <2>3. s \in Seq(Records)
      BY <2>2, SeqMonotonic
    <2>4. n \in 0 .. Len(s) /\ (n = 0 => s = <<>>)
      BY <1>2, <2>3, EmptySeq
    <2>5. work'[c] = First(s, n) /\ rest'[c] = After(s, n)
      BY <1>0, <2>1 DEF TypeOK
    <2>6. QED
      BY <1>3, <2>1, <2>3, <2>4, <2>5
  <1>4. CASE token[c] # None
    <2>1. PICK n \in Batches(rest[c]) :
            /\ work' = [work EXCEPT ![c] = work[c] \o First(rest[c], n)]
            /\ rest' = [rest EXCEPT ![c] = After(rest[c], n)]
      BY <1>0, <1>4 DEF Fetch
    <2>2. n \in 0 .. Len(rest[c])
      BY <1>0, <1>2, <2>1 DEF TypeOK
    <2>3. QED
      BY <1>0, <1>4, <2>1, <2>2 DEF TypeOK
  <1>5. QED
    BY <1>3, <1>4

\* What each choice of the loop requires.
LEMMA Loop ==
    ASSUME NEW c \in Clients, NEW w, NEW r, Paginate(c, w, r), pc \in [Clients -> Labels],
           Len(w) \in Nat, req[c].size \in Nat
    PROVE  /\ pc'[c] = "intent" => token[c] # None
           /\ pc'[c] = "mint" => /\ Len(w) > req[c].size \/ r # <<>>
                                 /\ token[c] # None => Len(w) >= req[c].size
           /\ pc'[c] = "done" => Len(w) <= req[c].size /\ r = <<>>
  BY DEF Paginate, Goto, Answer, Labels

LEMMA PagingOwn ==
    ASSUME Base, NEW c \in Clients, PagingOf(c), Act(c)
    PROVE  PagingOf(c)'
  <1>0. TypeOK /\ PlaceOf(c)
    BY DEF Base, Places
  <1>1. ASSUME pc'[c] \notin {"complete", "visibility", "mint"} PROVE PagingOf(c)'
    BY <1>1 DEF PagingOf
  <1>2. CASE \/ Begins(c) \/ Sweep(c) \/ Access(c) \/ DropExpired(c) \/ Refuse(c)
             \/ Intent(c) \/ Failure(c) \/ FailureVisibility(c) \/ Mint(c)
             \/ Decision(c) \/ AnnounceWrite(c) \/ Write(c) \/ Written(c) \/ Unwritten(c) \/ Leave(c)
    <2>1. pc'[c] \notin {"complete", "visibility", "mint"}
      BY <1>0, <1>2 DEF Begins, Begin, Sweep, Access, AfterAccess, DropExpired, Refuse, Deny, Intent,
         Failure, FailureVisibility, Mint, Decision, AnnounceWrite, Write, Written, Unwritten,
         Leave, Clear, Goto, Answer, TypeOK
    <2>2. QED
      BY <1>1, <2>1
  <1>3. CASE ReadCursor(c)
    <2>1. token[c] # None /\ token' = token /\ req' = req /\ req[c].size \in Nat \ {0} /\ pc[c] = "cursor"
      BY <1>0, <1>3, Requested DEF ReadCursor, PlaceOf, fixed
    <2>2. ASSUME NEW w \in Seq(Records), NEW r \in Seq(Records), Paginate(c, w, r)
          PROVE  PagingOf(c)'
      <3>1. work'[c] = w /\ rest'[c] = r /\ pc'[c] \in {"intent", "mint", "done"}
        BY <1>0, <2>2, Paginated DEF TypeOK
      <3>2. Len(w) \in Nat
        BY LenProperties
      <3>3. pc'[c] = "mint" => (Len(w) > req[c].size \/ r # <<>>) /\ Len(w) >= req[c].size
        BY <1>0, <2>1, <2>2, <3>2, Loop DEF TypeOK
      <3>4. QED
        BY <2>1, <3>1, <3>3 DEF PagingOf
    <2>3. CASE pc' = [pc EXCEPT ![c] = "refuse"] \/ pc' = [pc EXCEPT ![c] = "expired"]
      BY <1>0, <1>1, <2>3 DEF TypeOK
    <2>4. QED
      BY <1>3, <2>2, <2>3, CursorRead
  <1>4. CASE Call(c)
    <2>1. token' = token /\ req' = req /\ pc'[c] \in {"complete", "failure"}
      BY <1>0, <1>4 DEF Call, fixed, Goto, TypeOK
    <2>2. ASSUME pc'[c] = "complete", req[c].op = "page", token[c] = None, work'[c] = <<>>
          PROVE  rest'[c] = <<>>
      <3>a. PICK s \in Results[ScopeOf(c)] : \E n \in 0 .. Len(s) :
                    /\ s \in Seq(Records) /\ (n = 0 => s = <<>>)
                    /\ work'[c] = First(s, n) /\ rest'[c] = After(s, n)
        BY <1>4, <2>2, FirstBatch
      <3>1. PICK n \in 0 .. Len(s) :
                    /\ s \in Seq(Records) /\ (n = 0 => s = <<>>)
                    /\ work'[c] = First(s, n) /\ rest'[c] = After(s, n)
        BY <3>a
      <3>2. Len(First(s, n)) = n /\ After(s, n) \in Seq(Records) /\ Len(After(s, n)) = Len(s) - n
        BY <3>1, Split
      <3>3. n = 0 /\ Len(s) = 0
        BY <2>2, <3>1, <3>2, EmptySeq
      <3>4. QED
        BY <3>1, <3>2, <3>3, EmptySeq
    <2>3. QED
      BY <2>1, <2>2 DEF PagingOf
  <1>5. CASE Complete(c)
    <2>1. pc[c] = "complete" /\ pc'[c] \in {"visibility", "failure"} /\ UNCHANGED <<fixed, held>>
      BY <1>0, <1>5 DEF Complete, Goto, TypeOK
    <2>2. QED
      BY <2>1 DEF PagingOf, fixed, held
  <1>6. CASE RecordVisibility(c)
    <2>1. pc[c] = "visibility" /\ UNCHANGED fixed
      BY <1>6 DEF RecordVisibility
    <2>2. CASE Proceed(c)
      <3>1. UNCHANGED held /\ pc'[c] \in {"intent", "mint", "decision", "done"}
            /\ (pc'[c] = "mint" => req[c].op = "page")
        BY <1>0, <2>1, <2>2, Proceeded DEF TypeOK
      <3>2. ASSUME pc'[c] = "mint"
            PROVE  /\ Len(work[c]) > req[c].size \/ rest[c] # <<>>
                   /\ token[c] # None => Len(work[c]) >= req[c].size
        <4>1. Paginate(c, work[c], rest[c])
          BY <2>2, <3>1, <3>2 DEF Proceed
        <4>2. Len(work[c]) \in Nat /\ req[c].size \in Nat
          BY <1>0, <2>1, Requested, LenProperties DEF TypeOK
        <4>3. QED
          BY <1>0, <3>2, <4>1, <4>2, Loop DEF TypeOK
      <3>3. QED
        BY <2>1, <3>1, <3>2 DEF PagingOf, fixed, held
    <2>3. CASE Goto(c, "failure")
      BY <1>0, <1>1, <2>3 DEF Goto, TypeOK
    <2>4. QED
      BY <1>6, <2>2, <2>3 DEF RecordVisibility
  <1>7. QED
    BY <1>0, <1>2, <1>3, <1>4, <1>5, <1>6, BeginsAll DEF Act, Serve

LEMMA UnmintedStep ==
    ASSUME Base, Unminted, [Next]_vars
    PROVE  Unminted'
  <1>0. TypeOK /\ minted \in Nat
    BY DataRequestsAssumption DEF Base, TypeOK
  <1>1. ASSUME minted' = minted, \A t \in Tokens : cursors'[t] \in {cursors[t], None} PROVE Unminted'
    BY <1>1 DEF Unminted
  <1>2. ASSUME NEW c \in Clients, Mint(c) PROVE Unminted'
    <2>1. \/ cursors' = cursors /\ minted' = minted
          \/ minted' = minted + 1 /\ \A t \in Tokens : t # minted + 1 => cursors'[t] = cursors[t]
      BY <1>0, <1>2 DEF Mint, TypeOK
    <2>2. \A t \in Tokens : t \in Nat
      BY DataRequestsAssumption DEF Tokens
    <2>3. QED
      BY <1>0, <2>1, <2>2 DEF Unminted
  <1>3. CASE cursors' = cursors /\ minted' = minted
    BY <1>1, <1>3
  <1>4. ASSUME NEW c \in Clients, Sweep(c) \/ DropExpired(c) PROVE Unminted'
    BY <1>0, <1>1, <1>4 DEF Sweep, DropExpired, TypeOK
  <1>5. ASSUME NEW c \in Clients, Act(c) PROVE Unminted'
    BY <1>0, <1>2, <1>3, <1>4, <1>5, BeginsAll DEF Act, Serve, Begins, Begin, Access, ReadCursor,
       Refuse, Intent, Call, Complete, RecordVisibility, Failure, FailureVisibility, Decision,
       AnnounceWrite, Write, Written, Unwritten, Leave, store
  <1>6. QED
    BY <1>3, <1>5 DEF Next, Act, Crash, ChangePolicy, Tick, vars, store

LEMMA PagingInductive == Spec => []Paging
  <1>1. Init => Paging
    BY DEF Init, Paging, Unminted, PagingOf
  <1>2. Base /\ Paging /\ [Next]_vars => Paging'
    <2> SUFFICES ASSUME Base, Paging, [Next]_vars, NEW e \in Clients PROVE PagingOf(e)'
      BY UnmintedStep DEF Paging
    <2>0. PagingOf(e) /\ TypeOK
      BY DEF Paging, Base
    <2>1. ASSUME NEW c \in Clients, Act(c) PROVE PagingOf(e)'
      BY <2>0, <2>1, PagingOwn, OthersSame, PagingKept
    <2>2. CASE ChangePolicy \/ Tick \/ UNCHANGED vars
      BY <2>0, <2>2, PagingKept DEF ChangePolicy, Tick, vars, Same, fixed, held
    <2>3. CASE Crash
      BY <2>0, <2>3 DEF Crash, PagingOf
    <2>4. QED
      BY <2>1, <2>2, <2>3 DEF Next, Act
  <1>3. QED
    BY <1>1, <1>2, Inductive, PTL DEF Spec

-----------------------------------------------------------------------------
(* Every step maps to one of PagedResult, or to none. *)

LEMMA MapsNone ==
    ASSUME Stands' = Stands, Claims' = Claims, Handed' = Handed
    PROVE  UNCHANGED Pages!pvars
  BY DEF Pages!pvars, Stands, Claims, Handed

\* What becomes of the claim and the page of a request.
LEMMA After1 ==
    ASSUME NEW c \in Clients
    PROVE  /\ ~Reading(c)' => Claims'[c] = None
           /\ Reading(c)' => Claims'[c] = [scope |-> ScopeOf(c)', size |-> req'[c].size,
                                           rows |-> work'[c] \o rest'[c],
                                           fresh |-> token'[c] = None]
           /\ Given(c)' /\ req'[c].op = "page" => Handed'[c] = work'[c]
           /\ ~(Given(c)' /\ req'[c].op = "page") => Handed'[c] = None
  BY DEF Claims, Handed

LEMMA StandsKept == ASSUME cursors' = cursors PROVE Stands' = Stands
  BY DEF Stands

PStep == Pages!PNext \/ UNCHANGED Pages!pvars

\* A request that has no claim afterwards, and no page, has ended.
LEMMA Ends ==
    ASSUME Base, NEW c \in Clients, Act(c), cursors' = cursors,
           ~Reading(c)', ~(Given(c)' /\ req'[c].op = "page")
    PROVE  PStep
  BY After1, Entries, StandsKept, MapsEnd DEF PStep, Pages!PNext

LEMMA Goes ==
    ASSUME Base, NEW c \in Clients, Act(c), cursors' = cursors,
           Claims'[c] = Claims[c], Handed'[c] = Handed[c]
    PROVE  PStep
  <1>1. Claims' = Claims /\ Handed' = Handed
    <2>1. /\ [Claims EXCEPT ![c] = Claims[c]] = Claims
          /\ [Handed EXCEPT ![c] = Handed[c]] = Handed
      BY DEF Claims, Handed
    <2>2. QED
      BY <2>1, Entries
  <1>2. QED
    BY <1>1, StandsKept, MapsNone DEF PStep

\* Cursors are forgotten; no request that reads is concerned.
LEMMA Forgets ==
    ASSUME Base, NEW c \in Clients, Act(c), \A t \in Tokens : cursors'[t] \in {cursors[t], None},
           Claims[c] = None, Handed[c] = None,
           ~Reading(c)', ~(Given(c)' /\ req'[c].op = "page")
    PROVE  PStep
  <1>1. Claims'[c] = None /\ Handed'[c] = None
    BY After1
  <1>2. Claims' = Claims /\ Handed' = Handed
    <2>1. /\ [Claims EXCEPT ![c] = Claims[c]] = Claims
          /\ [Handed EXCEPT ![c] = Handed[c]] = Handed
      BY DEF Claims, Handed
    <2>2. QED
      BY <1>1, <2>1, Entries
  <1>3. \A k \in Tokens : Stands'[k] \in {Stands[k], None}
    BY DEF Stands
  <1>4. QED
    BY <1>2, <1>3, MapsForget DEF PStep, Pages!PNext

\* Begun, refused, failed, written, or left.
LEMMA PagesQuiet ==
    ASSUME Base, NEW c \in Clients, Act(c),
           \/ Begins(c) \/ Access(c) \/ Refuse(c) \/ Failure(c) \/ FailureVisibility(c)
           \/ Decision(c) \/ AnnounceWrite(c) \/ Write(c) \/ Written(c) \/ Unwritten(c) \/ Leave(c)
    PROVE  PStep
  <1>0. TypeOK /\ PlaceOf(c)
    BY DEF Base, Places
  <1>1. cursors' = cursors
    BY DEF Begins, Begin, Access, Refuse, Failure, FailureVisibility, Decision, AnnounceWrite, Write,
       Written, Unwritten, Leave, store
  <1>2. CASE Begins(c) \/ Leave(c)
    <2>1. pc'[c] \in {"sweep", "access", "idle"}
      BY <1>0, <1>2 DEF Begins, Begin, Leave, Clear, Goto, TypeOK
    <2>2. QED
      BY <1>1, <2>1, Ends DEF Reading, Given
  <1>3. CASE Access(c)
    <2>1. /\ req' = req /\ token' = token
          /\ \/ pc'[c] \in {"cursor", "decision"}
             \/ pc'[c] = "intent" /\ (req[c].op # "page" \/ token[c] = None)
             \/ pc'[c] = "done" /\ outcome'[c] # "ok"
      BY <1>0, <1>3 DEF Access, AfterAccess, Deny, Goto, Answer, TypeOK
    <2>2. ~Reading(c)' /\ ~Given(c)'
      BY <2>1 DEF Reading, Given
    <2>3. QED
      BY <1>1, <2>2, Ends
  <1>4. CASE Refuse(c) \/ Failure(c) \/ FailureVisibility(c)
    <2>1. pc'[c] = "unseen" \/ (pc'[c] = "done" /\ outcome'[c] # "ok")
      BY <1>0, <1>4 DEF Refuse, Deny, Failure, FailureVisibility, Goto, Answer, TypeOK
    <2>2. QED
      BY <1>1, <2>1, Ends DEF Reading, Given
  <1>5. CASE Decision(c) \/ AnnounceWrite(c) \/ Write(c) \/ Written(c) \/ Unwritten(c)
    <2>1. /\ req' = req /\ pc[c] \in WriteLabels
          /\ pc'[c] \in {"announce", "refuse", "write", "written", "unwritten", "done"}
      BY <1>0, <1>5 DEF Decision, AnnounceWrite, Write, Written, Unwritten, Goto, Answer, TypeOK,
         fixed, WriteLabels
    <2>2. req'[c].op # "page"
      BY <1>0, <2>1 DEF PlaceOf
    <2>3. QED
      BY <1>1, <2>2, Ends DEF Reading
  <1>6. QED
    BY <1>2, <1>3, <1>4, <1>5

LEMMA PagesForget ==
    ASSUME Base, NEW c \in Clients, Act(c), Sweep(c) \/ DropExpired(c)
    PROVE  PStep
  <1>0. TypeOK
    BY DEF Base
  <1>1. /\ pc[c] \in {"sweep", "expired"}
        /\ pc'[c] \in {"access", "refuse"} \/ (pc'[c] = "done" /\ outcome'[c] # "ok")
    BY <1>0 DEF Sweep, DropExpired, Goto, Answer, TypeOK
  <1>2. \A t \in Tokens : cursors'[t] \in {cursors[t], None}
    BY <1>0 DEF Sweep, DropExpired, TypeOK
  <1>3. ~Reading(c)' /\ ~Given(c)'
    BY <1>1 DEF Reading, Given
  <1>4. Claims[c] = None /\ Handed[c] = None
    BY <1>1, Resting
  <1>5. QED
    BY <1>2, <1>3, <1>4, Forgets

LEMMA PagesQuery ==
    ASSUME Base, NEW c \in Clients, Act(c), Intent(c) \/ Complete(c)
    PROVE  PStep
  <1>0. TypeOK
    BY DEF Base
  <1>1. cursors' = cursors /\ UNCHANGED <<fixed, held>>
    BY DEF Intent, Complete, store
  <1>2. /\ pc[c] \in {"intent", "complete"}
        /\ \/ pc[c] = "intent" /\ pc'[c] = "call"
           \/ pc[c] = "complete" /\ pc'[c] = "visibility"
           \/ pc'[c] = "failure"
           \/ pc'[c] = "done" /\ outcome'[c] # "ok"
    BY <1>0 DEF Intent, Complete, Goto, Answer, TypeOK
  <1>3. CASE pc'[c] = "failure" \/ (pc'[c] = "done" /\ outcome'[c] # "ok")
    BY <1>1, <1>3, Ends DEF Reading, Given
  <1>4. CASE \/ pc[c] = "intent" /\ pc'[c] = "call"
             \/ pc[c] = "complete" /\ pc'[c] = "visibility"
    <2>1. (Reading(c)' <=> Reading(c)) /\ ~Given(c) /\ ~Given(c)' /\ ScopeOf(c)' = ScopeOf(c)
      BY <1>1, <1>4 DEF Reading, Given, fixed, ScopeOf
    <2>2. Claims'[c] = Claims[c] /\ Handed'[c] = Handed[c]
      BY <1>1, <2>1 DEF Claims, Handed, fixed, held
    <2>3. QED
      BY <1>1, <2>2, Goes
  <1>5. QED
    BY <1>2, <1>3, <1>4

\* The first batch claims a result; the next ones only move rows.
LEMMA PagesCall ==
    ASSUME Base, NEW c \in Clients, Act(c), Call(c)
    PROVE  PStep
  <1>0. TypeOK
    BY DEF Base
  <1>1. cursors' = cursors /\ UNCHANGED fixed /\ pc[c] = "call" /\ pc'[c] \in {"complete", "failure"}
    BY <1>0 DEF Call, store, Goto, TypeOK
  <1>2. req[c] \in Requests /\ ScopeOf(c) \in Scope /\ ScopeOf(c)' = ScopeOf(c)
    BY <1>0, <1>1, Requested DEF fixed, ScopeOf
  <1>3. CASE pc'[c] = "failure" \/ req[c].op # "page"
    <2>1. ~Reading(c)' /\ ~Given(c)'
      BY <1>1, <1>3 DEF Reading, Given, fixed
    <2>2. QED
      BY <1>1, <2>1, Ends
  <1>4. ASSUME pc'[c] = "complete", req[c].op = "page", token[c] = None,
               NEW s \in Results[ScopeOf(c)], NEW n \in 0 .. Len(s), s \in Seq(Records),
               work'[c] = First(s, n), rest'[c] = After(s, n)
        PROVE  PStep
    <2>1. work'[c] \o rest'[c] = s
      BY <1>4, Split
    <2>2. Reading(c)' /\ ~Given(c)'
      BY <1>1, <1>4 DEF Reading, Given, fixed
    <2>3. Claims'[c] = [scope |-> ScopeOf(c), size |-> req[c].size, rows |-> s, fresh |-> TRUE]
      BY <1>1, <1>2, <1>4, <2>1, <2>2, After1 DEF fixed
    <2>4. Claims'[c] # None
      <3>1. Claims'[c] \in [scope : Scope, size : Nat \ {0}, rows : Seq(Records), fresh : BOOLEAN]
        BY <1>0, <1>1, <1>2, <1>4, <2>3, Requested
      <3>2. QED
        BY <3>1, DataRequestsAssumption
    <2>5. Claims[c] = None /\ Handed[c] = None /\ Handed'[c] = None
      BY <1>1, <1>4, <2>2, Resting, After1
    <2>6. Handed' = Handed
      <3>1. [Handed EXCEPT ![c] = Handed[c]] = Handed
        BY DEF Handed
      <3>2. QED
        BY <2>5, <3>1, Entries
    <2>7. ScopeOf(c) \in DOMAIN Results
      BY <1>2, DataRequestsAssumption
    <2>8. Claims' = [Claims EXCEPT ![c] = [scope |-> ScopeOf(c), size |-> req[c].size,
                                           rows |-> s, fresh |-> TRUE]]
      BY <2>3, Entries
    <2>9. Pages!Ask(c)
      BY <1>1, <1>2, <1>4, <2>4, <2>5, <2>6, <2>7, <2>8, StandsKept, MapsAsk
    <2>10. QED
      BY <2>9 DEF PStep, Pages!PNext
  <1>5. ASSUME pc'[c] = "complete", req[c].op = "page", token[c] # None,
               NEW n \in 0 .. Len(rest[c]),
               work'[c] = work[c] \o First(rest[c], n), rest'[c] = After(rest[c], n)
        PROVE  PStep
    <2>1. work'[c] \o rest'[c] = work[c] \o rest[c]
      <3>1. work[c] \in Seq(Records) /\ rest[c] \in Seq(Records)
        BY <1>0 DEF TypeOK
      <3>2. /\ First(rest[c], n) \in Seq(Records) /\ After(rest[c], n) \in Seq(Records)
            /\ First(rest[c], n) \o After(rest[c], n) = rest[c]
        BY <3>1, Split
      <3>3. PICK a : a = work[c]
        OBVIOUS
      <3>4. PICK b : b = First(rest[c], n)
        OBVIOUS
      <3>5. PICK d : d = After(rest[c], n)
        OBVIOUS
      <3>6. (a \o b) \o d = a \o (b \o d)
        <4>1. a \in Seq(Records) /\ b \in Seq(Records) /\ d \in Seq(Records)
          BY <3>1, <3>2, <3>3, <3>4, <3>5
        <4>2. QED
          BY <4>1, Regroup
      <3>7. QED
        BY <1>5, <3>2, <3>3, <3>4, <3>5, <3>6
    <2>2. Reading(c) /\ Reading(c)' /\ ~Given(c) /\ ~Given(c)'
      BY <1>1, <1>5 DEF Reading, Given, fixed
    <2>3. Claims'[c] = Claims[c] /\ Handed'[c] = Handed[c]
      BY <1>1, <1>2, <2>1, <2>2 DEF Claims, Handed, fixed
    <2>4. QED
      BY <1>1, <2>3, Goes
  <1>6. QED
    BY <1>1, <1>3, <1>4, <1>5, FirstBatch

\* A cursor is presented, or is the last page of its result.
LEMMA PagesCursor ==
    ASSUME Base, NEW c \in Clients, Act(c), ReadCursor(c)
    PROVE  PStep
  <1>0. TypeOK /\ PlaceOf(c)
    BY DEF Base, Places
  <1>1. cursors' = cursors /\ UNCHANGED fixed /\ pc[c] = "cursor"
    BY DEF ReadCursor, store
  <1>2. token[c] \in Tokens /\ token[c] # None /\ req[c].op = "page" /\ req[c].size \in Nat \ {0}
    BY <1>0, <1>1, Requested DEF PlaceOf, TypeOK
  <1>3. Claims[c] = None /\ Handed[c] = None /\ ScopeOf(c)' = ScopeOf(c)
    BY <1>1, Resting DEF fixed, ScopeOf
  <1>4. CASE pc' = [pc EXCEPT ![c] = "refuse"] \/ pc' = [pc EXCEPT ![c] = "expired"]
    <2>1. pc'[c] \in {"refuse", "expired"}
      BY <1>0, <1>4 DEF TypeOK
    <2>2. QED
      BY <1>1, <2>1, Ends DEF Reading, Given
  <1>5. ASSUME NEW k, k = cursors[token[c]], k # None, Matches(c, k), k \in Cursor,
               Paginate(c, k.records, k.locator),
               k.records \in Seq(Records), k.locator \in Seq(Records)
        PROVE  PStep
    <2>1. PICK rows : rows = k.records \o k.locator
      OBVIOUS
    <2>a. /\ Stands[token[c]] = [scope |-> k.scope, size |-> k.size, rows |-> rows]
          /\ Stands[token[c]] # None
      BY <1>0, <1>2, <1>5, <2>1, StandRecords
    <2>2. /\ Stands[token[c]].scope = k.scope /\ Stands[token[c]].size = k.size
          /\ Stands[token[c]].rows = rows /\ Stands[token[c]] # None
      BY <2>a
    <2>3. k.scope = ScopeOf(c) /\ k.size = req[c].size
      BY <1>5 DEF Matches
    <2>4. work'[c] = k.records /\ rest'[c] = k.locator
      BY <1>0, <1>5, Paginated DEF TypeOK
    <2>5. Len(k.records) \in Nat
      BY <1>5, LenProperties
    <2>6. \/ pc'[c] \in {"intent", "mint"}
          \/ pc'[c] = "done" /\ outcome'[c] = "ok"
      BY <1>0, <1>5, Paginated DEF TypeOK
    <2>7. CASE pc'[c] \in {"intent", "mint"}
      <3>1. Reading(c)' /\ ~Given(c)'
        BY <1>1, <1>2, <2>7 DEF Reading, Given, fixed
      <3>2. Claims'[c] = [scope |-> ScopeOf(c), size |-> req[c].size,
                          rows |-> rows, fresh |-> FALSE]
        BY <1>1, <1>2, <1>3, <2>1, <2>4, <3>1, After1 DEF fixed
      <3>3. Claims' = [Claims EXCEPT ![c] =
                [scope |-> Stands[token[c]].scope, size |-> Stands[token[c]].size,
                 rows |-> Stands[token[c]].rows, fresh |-> FALSE]]
        BY <2>2, <2>3, <3>2, Entries
      <3>4. Handed' = Handed
        <4>1. [Handed EXCEPT ![c] = Handed[c]] = Handed /\ Handed'[c] = None
          BY <3>1, After1 DEF Handed
        <4>2. QED
          BY <1>3, <4>1, Entries
      <3>t. PICK t \in Tokens : t = token[c]
        BY <1>2
      <3>5. Pages!Present(c, t)
        BY <1>1, <1>3, <2>2, <3>3, <3>4, <3>t, StandsKept, MapsPresent
      <3>6. QED
        BY <3>5 DEF PStep, Pages!PNext
    <2>8. CASE pc'[c] = "done" /\ outcome'[c] = "ok"
      <3>1. Len(k.records) <= k.size /\ k.locator = <<>>
        BY <1>0, <1>2, <1>5, <2>3, <2>5, <2>8, Loop DEF TypeOK
      <3>2. rows = k.records
        BY <1>5, <2>1, <3>1, ConcatEmptySeq
      <3>3. Given(c)' /\ ~Reading(c)' /\ req'[c].op = "page"
        BY <1>1, <1>2, <2>8 DEF Reading, Given, fixed
      <3>4. Handed'[c] = Stands[token[c]].rows
        BY <2>2, <2>4, <3>2, <3>3, After1
      <3>5. Handed' = [Handed EXCEPT ![c] = Stands[token[c]].rows]
        BY <3>4, Entries
      <3>6. Claims' = Claims
        <4>1. [Claims EXCEPT ![c] = Claims[c]] = Claims /\ Claims'[c] = None
          BY <3>3, After1 DEF Claims
        <4>2. QED
          BY <1>3, <4>1, Entries
      <3>7. Len(Stands[token[c]].rows) <= Stands[token[c]].size
        BY <2>2, <3>1, <3>2
      <3>t. PICK t \in Tokens : t = token[c]
        BY <1>2
      <3>8. Pages!HandLast(c, t)
        BY <1>1, <1>3, <2>2, <3>5, <3>6, <3>7, <3>t, StandsKept, MapsHandLast
      <3>9. QED
        BY <3>8 DEF PStep, Pages!PNext
    <2>9. QED
      BY <2>6, <2>7, <2>8
  <1>6. QED
    BY <1>4, <1>5, CursorRead DEF Found

\* The page is full, or the first, and a new cursor stands for what is left.
LEMMA PagesMint ==
    ASSUME Base, Paging, NEW c \in Clients, Act(c), Mint(c)
    PROVE  PStep
  <1>0. TypeOK /\ PlaceOf(c) /\ PagingOf(c) /\ Unminted
    BY DEF Base, Places, Paging
  <1>1. UNCHANGED fixed /\ pc[c] = "mint" /\ pc'[c] = "done"
    BY <1>0 DEF Mint, Answer, Goto, TypeOK
  <1>2. req[c].op = "page" /\ req[c].size \in Nat \ {0} /\ ScopeOf(c)' = ScopeOf(c)
    BY <1>0, <1>1, Requested DEF PlaceOf, fixed, ScopeOf
  <1>3. ~Reading(c)' /\ Reading(c) /\ ~Given(c)
    BY <1>1, <1>2 DEF Reading, Given
  <1>4. CASE Answer(c, "error") /\ cursors' = cursors
    <2>1. outcome'[c] # "ok"
      BY <1>0, <1>4 DEF Answer, TypeOK
    <2>2. QED
      BY <1>3, <1>4, <2>1, Ends DEF Given
  <1>5. ASSUME minted < MaxRequests, Answer(c, "ok"),
               cursors' = [cursors EXCEPT ![minted + 1] =
                    [scope |-> ScopeOf(c), size |-> req[c].size,
                     records |-> LeftOf(c), locator |-> rest[c], expires |-> now + TTL]],
               work' = [work EXCEPT ![c] = PageOf(c)]
        PROVE  PStep
    <2>n. PICK n : n = Len(PageOf(c))
      OBVIOUS
    <2>a. PICK all : all = work[c] \o rest[c]
      OBVIOUS
    <2>1. work[c] \in Seq(Records) /\ rest[c] \in Seq(Records)
      BY <1>0 DEF TypeOK
    <2>2. /\ PageOf(c) = First(work[c], n) /\ LeftOf(c) = After(work[c], n)
          /\ n = IF Len(work[c]) < req[c].size THEN Len(work[c]) ELSE req[c].size
          /\ n \in 0 .. Len(work[c])
      BY <1>2, <2>n, <2>1, Cut
    <2>3. /\ Len(work[c]) \in Nat /\ Len(rest[c]) \in Nat /\ n \in Nat
          /\ Len(all) = Len(work[c]) + Len(rest[c])
      BY <2>1, <2>2, <2>a, LenProperties, ConcatProperties
    <2>4. /\ Claims[c] = [scope |-> ScopeOf(c), size |-> req[c].size, rows |-> all,
                          fresh |-> token[c] = None]
          /\ Claims[c] # None
      BY <1>0, <1>3, <2>a, ClaimRecords
    <2>b. /\ Claims[c].scope = ScopeOf(c) /\ Claims[c].size = req[c].size
          /\ Claims[c].rows = all /\ Claims[c].fresh = (token[c] = None)
      BY <2>4
    <2>5. First(all, n) = PageOf(c) /\ After(all, n) = LeftOf(c) \o rest[c]
      BY <2>1, <2>2, <2>a, CutOfAll
    <2>c. /\ n \in 0 .. Pages!Shorter(req[c].size, Len(work[c]) + Len(rest[c]))
          /\ Len(work[c]) > req[c].size \/ Len(rest[c]) > 0 => n # Len(work[c]) + Len(rest[c])
          /\ Len(work[c]) # 0 => n # 0
          /\ Len(work[c]) >= req[c].size
                => n = Pages!Shorter(req[c].size, Len(work[c]) + Len(rest[c]))
      BY <1>2, <2>2, <2>3, CutLength
    <2>6. n # Len(all)
      <3>1. rest[c] # <<>> => Len(rest[c]) > 0
        BY <2>1, <2>3, EmptySeq
      <3>2. Len(work[c]) > req[c].size \/ Len(rest[c]) > 0
        BY <1>0, <1>1, <3>1 DEF PagingOf
      <3>3. QED
        BY <2>3, <2>c, <3>2
    <2>7. n # 0
      <3>1. Len(work[c]) = 0 => work[c] = <<>>
        BY <2>1, EmptySeq
      <3>2. CASE Len(work[c]) = 0 /\ token[c] = None
        <4>1. rest[c] = <<>> /\ ~(Len(work[c]) > req[c].size)
          BY <1>0, <1>1, <1>2, <3>1, <3>2 DEF PagingOf
        <4>2. QED
          BY <1>0, <1>1, <4>1 DEF PagingOf
      <3>3. CASE Len(work[c]) = 0 /\ token[c] # None
        BY <1>0, <1>1, <1>2, <3>3 DEF PagingOf
      <3>4. QED
        BY <2>c, <3>2, <3>3
    <2>8. n \in 0 .. Pages!Shorter(Claims[c].size, Len(Claims[c].rows))
      BY <2>3, <2>b, <2>c
    <2>9. Claims[c].fresh \/ n = Pages!Shorter(Claims[c].size, Len(Claims[c].rows))
      <3>1. CASE token[c] # None
        BY <1>0, <1>1, <2>3, <2>b, <2>c, <3>1 DEF PagingOf
      <3>2. QED
        BY <2>b, <3>1
    <2>10. Handed' = [Handed EXCEPT ![c] = First(Claims[c].rows, n)]
      <3>1. Given(c)' /\ req'[c].op = "page" /\ work'[c] = PageOf(c)
        BY <1>0, <1>1, <1>2, <1>5, <2>1 DEF Given, Answer, fixed, TypeOK
      <3>2. Handed'[c] = First(Claims[c].rows, n)
        BY <2>b, <2>5, <3>1, After1
      <3>3. QED
        BY <3>2, Entries
    <2>11. Claims' = [Claims EXCEPT ![c] = None]
      BY <1>3, After1, Entries
    <2>12. minted + 1 \in Tokens /\ Stands[minted + 1] = None
      <3>1. minted + 1 \in Tokens /\ minted + 1 > minted
        BY <1>0, <1>5, DataRequestsAssumption DEF TypeOK, Tokens
      <3>2. cursors[minted + 1] = None
        BY <1>0, <3>1 DEF Unminted
      <3>3. QED
        BY <3>1, <3>2 DEF Stands
    <2>13. Stands' = [Stands EXCEPT ![minted + 1] =
                [scope |-> Claims[c].scope, size |-> Claims[c].size,
                 rows |-> After(Claims[c].rows, n)]]
      <3>0. PICK new : new = [scope |-> ScopeOf(c), size |-> req[c].size,
                              records |-> LeftOf(c), locator |-> rest[c], expires |-> now + TTL]
        OBVIOUS
      <3>1. /\ new # None /\ new.scope = ScopeOf(c) /\ new.size = req[c].size
            /\ new.records = LeftOf(c) /\ new.locator = rest[c]
        <4>1. LeftOf(c) \in Seq(Records) /\ ScopeOf(c) \in Scope
          BY <1>0, <1>1, <1>2, <2>1, Cut, Requested
        <4>2. new \in Cursor
          BY <1>0, <1>2, <2>1, <3>0, <4>1, DataRequestsAssumption DEF Cursor, TypeOK
        <4>3. QED
          BY <3>0, <4>2, DataRequestsAssumption
      <3>2. cursors'[minted + 1] = new
        BY <1>0, <1>5, <2>12, <3>0 DEF TypeOK
      <3>3. \A t \in Tokens : t # minted + 1 => cursors'[t] = cursors[t]
        BY <1>0, <1>5 DEF TypeOK
      <3>4. Stands'[minted + 1] = [scope |-> ScopeOf(c), size |-> req[c].size,
                                   rows |-> LeftOf(c) \o rest[c]]
        BY <2>12, <3>1, <3>2 DEF Stands
      <3>5. \A t \in Tokens : t # minted + 1 => Stands'[t] = Stands[t]
        BY <3>3 DEF Stands
      <3>6. [scope |-> Claims[c].scope, size |-> Claims[c].size,
             rows |-> After(Claims[c].rows, n)]
            = [scope |-> ScopeOf(c), size |-> req[c].size, rows |-> LeftOf(c) \o rest[c]]
        BY <2>b, <2>5
      <3> DEFINE T == Stands'
      <3>7. T = [t \in Tokens |-> T[t]] /\ Stands = [t \in Tokens |-> Stands[t]]
        BY DEF Stands
      <3>8. T[minted + 1] = [scope |-> ScopeOf(c), size |-> req[c].size,
                             rows |-> LeftOf(c) \o rest[c]]
            /\ \A t \in Tokens : t # minted + 1 => T[t] = Stands[t]
        BY <3>4, <3>5
      <3> HIDE DEF T
      <3>9. T = [Stands EXCEPT ![minted + 1] = [scope |-> ScopeOf(c), size |-> req[c].size,
                                                rows |-> LeftOf(c) \o rest[c]]]
        BY <2>12, <3>7, <3>8
      <3>10. QED
        BY <3>6, <3>9 DEF T
    <2>14. \E k \in Tokens :
                    /\ Stands[k] = None
                    /\ Stands' = [Stands EXCEPT ![k] =
                            [scope |-> Claims[c].scope, size |-> Claims[c].size,
                             rows |-> After(Claims[c].rows, n)]]
      BY <2>12, <2>13
    <2>15. Len(Claims[c].rows) = Len(all)
      BY <2>b
    <2>16. Pages!Hand(c)
      BY <2>4, <2>6, <2>7, <2>8, <2>9, <2>10, <2>11, <2>14, <2>15, MapsHand
    <2>17. QED
      BY <2>16 DEF PStep, Pages!PNext
  <1>6. QED
    BY <1>4, <1>5 DEF Mint

\* The whole result is handed, or the loop goes on.
LEMMA PagesRecord ==
    ASSUME Base, NEW c \in Clients, Act(c), RecordVisibility(c)
    PROVE  PStep
  <1>0. TypeOK
    BY DEF Base
  <1>1. cursors' = cursors /\ UNCHANGED fixed /\ pc[c] = "visibility"
    BY DEF RecordVisibility, store
  <1>2. req[c].size \in Nat \ {0} /\ ScopeOf(c)' = ScopeOf(c)
    BY <1>0, <1>1, Requested DEF fixed, ScopeOf
  <1>3. CASE Goto(c, "failure")
    <2>1. pc'[c] = "failure"
      BY <1>0, <1>3 DEF Goto, TypeOK
    <2>2. QED
      BY <1>1, <2>1, Ends DEF Reading, Given
  <1>4. CASE req[c].op # "page"
    BY <1>1, <1>4, Ends DEF Reading, fixed
  <1>5. ASSUME req[c].op = "page", Proceed(c) PROVE PStep
    <2>1. UNCHANGED held /\ Paginate(c, work[c], rest[c])
      BY <1>0, <1>1, <1>5, Proceeded DEF Proceed
    <2>2. work[c] \in Seq(Records) /\ rest[c] \in Seq(Records) /\ Len(work[c]) \in Nat
      BY <1>0, LenProperties DEF TypeOK
    <2>3. Reading(c) /\ ~Given(c)
      BY <1>1, <1>5 DEF Reading, Given
    <2>4. \/ pc'[c] \in {"intent", "mint"}
          \/ pc'[c] = "done" /\ outcome'[c] = "ok"
      BY <1>0, <2>1, Paginated DEF TypeOK
    <2>5. CASE pc'[c] \in {"intent", "mint"}
      <3>1. Reading(c)' /\ ~Given(c)'
        BY <1>0, <1>1, <1>2, <1>5, <2>1, <2>2, <2>5, Loop DEF Reading, Given, fixed, TypeOK
      <3>2. Claims'[c] = Claims[c] /\ Handed'[c] = Handed[c]
        BY <1>1, <1>2, <2>1, <2>3, <3>1 DEF Claims, Handed, fixed, held
      <3>3. QED
        BY <1>1, <3>2, Goes
    <2>6. CASE pc'[c] = "done" /\ outcome'[c] = "ok"
      <3>n. PICK n : n = Len(work[c])
        OBVIOUS
      <3>1. n <= req[c].size /\ rest[c] = <<>>
        BY <1>0, <1>2, <2>1, <2>2, <2>6, <3>n, Loop DEF TypeOK
      <3>2. work[c] \o rest[c] = work[c]
        BY <2>2, <3>1, ConcatEmptySeq
      <3>3. /\ Claims[c] = [scope |-> ScopeOf(c), size |-> req[c].size, rows |-> work[c],
                            fresh |-> token[c] = None]
            /\ Claims[c] # None
        BY <1>0, <2>3, <3>2, ClaimRecords
      <3>a. Claims[c].size = req[c].size /\ Claims[c].rows = work[c]
        BY <3>3
      <3>4. n = Pages!Shorter(Claims[c].size, Len(Claims[c].rows))
        BY <1>2, <2>2, <3>n, <3>1, <3>a DEF Pages!Shorter
      <3>5. First(work[c], n) = work[c]
        BY <2>2, <3>n, SubSeqFull DEF First
      <3>6. ~Reading(c)' /\ Given(c)' /\ req'[c].op = "page"
        BY <1>1, <1>5, <2>6 DEF Reading, Given, fixed
      <3>7. Handed' = [Handed EXCEPT ![c] = First(Claims[c].rows, n)]
        <4>1. Handed'[c] = First(Claims[c].rows, n)
          BY <2>1, <3>a, <3>5, <3>6, After1 DEF held
        <4>2. QED
          BY <4>1, Entries
      <3>8. Claims' = [Claims EXCEPT ![c] = None]
        BY <3>6, After1, Entries
      <3>9. n = Len(Claims[c].rows) /\ (n = 0 => Claims[c].rows = <<>>)
        BY <2>2, <3>n, <3>a, EmptySeq
      <3>10. Stands' = Stands /\ n \in 0 .. Pages!Shorter(Claims[c].size, Len(Claims[c].rows))
        BY <1>1, <2>2, <3>n, <3>4, StandsKept
      <3>11. Pages!Hand(c)
        BY <3>3, <3>4, <3>7, <3>8, <3>9, <3>10, MapsHand
      <3>12. QED
        BY <3>11 DEF PStep, Pages!PNext
    <2>7. QED
      BY <2>4, <2>5, <2>6
  <1>6. QED
    BY <1>3, <1>4, <1>5 DEF RecordVisibility

LEMMA PagesStep ==
    ASSUME Base, Paging, [Next]_vars
    PROVE  PStep
  <1>1. ASSUME NEW c \in Clients, Act(c) PROVE PStep
    BY <1>1, BeginsAll, PagesQuiet, PagesForget, PagesQuery, PagesCall, PagesCursor, PagesMint,
       PagesRecord DEF Base, Act, Serve
  <1>2. CASE ChangePolicy \/ Tick \/ UNCHANGED vars
    <2>1. UNCHANGED <<cursors, pc, req, token, ver, work, rest, outcome>>
      BY <1>2 DEF ChangePolicy, Tick, vars, store, fixed, held
    <2>2. Stands' = Stands /\ Claims' = Claims /\ Handed' = Handed
      BY <2>1 DEF Stands, Claims, Handed, Reading, Given, ScopeOf
    <2>3. QED
      BY <2>2, MapsNone DEF PStep
  <1>3. CASE Crash
    <2>1. /\ cursors' = cursors /\ UNCHANGED <<fixed, held>>
          /\ pc' = [c \in Clients |-> IF pc[c] = "idle" THEN "idle" ELSE "done"]
          /\ outcome' = [c \in Clients |-> IF pc[c] \in {"idle", "done"} THEN outcome[c] ELSE "error"]
      BY <1>3 DEF Crash, store
    <2>2. \A c \in Clients : ~Reading(c)' /\ (Given(c)' <=> Given(c))
      BY <2>1 DEF Reading, Given
    <2>3. Claims' = [c \in Clients |-> None]
      BY <2>2 DEF Claims
    <2>4. Handed' = Handed
      BY <2>1, <2>2 DEF Handed, fixed, held
    <2>5. QED
      BY <2>1, <2>3, <2>4, StandsKept, MapsEndAll DEF PStep, Pages!PNext
  <1>4. QED
    BY <1>1, <1>2, <1>3 DEF Next, Act

\* Whatever pages are asked for, in whatever order, by whichever requests, and
\* whatever fails in between: the pages read through cursors are those of one result,
\* in order, without gaps or repetitions, each given to the scope the result was made
\* for; DataRequests implements PagedResult (materializeCursorPage, createCursor,
\* readCursor, assertCursorMatches).
THEOREM PagesKept == Spec => PagesInOrder
  <1>1. Init => Pages!PInit
    <2>1. ASSUME Init PROVE /\ Stands = [k \in Tokens |-> None]
                            /\ Claims = [c \in Clients |-> None]
                            /\ Handed = [c \in Clients |-> None]
      BY <2>1 DEF Init, Stands, Claims, Handed, Reading, Given
    <2>2. QED
      BY <2>1, MapsInit
  <1>2. Base /\ Paging /\ [Next]_vars => [Pages!PNext]_(Pages!pvars)
    BY PagesStep DEF PStep
  <1>3. QED
    BY <1>1, <1>2, Inductive, PagingInductive, PTL DEF Spec, PagesInOrder, Pages!PSpec
=============================================================================
