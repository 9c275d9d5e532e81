-------------------------- MODULE DeploymentProofs --------------------------
(***************************************************************************)
(* Theorems of Deployment and of Migrations, for all releases, rows and    *)
(* bounds: a database has the schema of its revision, a running service    *)
(* the schema it was written for, and a rollback gives the rows back.      *)
(*                                                                         *)
(* What a script makes of the schema does not depend on the rows, as long  *)
(* as it succeeds (ExecuteAlike).  So the schemas of one database without  *)
(* rows, which TLC computes (RevisionsAssumption), stand for those of      *)
(* every database that upgrades and downgrades ever produced.              *)
(*                                                                         *)
(* And what it makes of a row does not depend on the other rows: a script  *)
(* that succeeds on all of them succeeds where every row is like that one, *)
(* and makes the same of it (ExecuteFollows).  So the databases of one     *)
(* kind of row each, which TLC computes (RowsAssumption), stand for those  *)
(* with any rows.                                                          *)
(***************************************************************************)
EXTENDS Deployment, WellFoundedInduction, TLAPS

-----------------------------------------------------------------------------
(* One statement.                                                          *)

Fields == {"rev", "ok", "wide", "tables", "refs", "columns", "nullable", "filled",
           "constraints", "allowed", "rows"}

Database(d) == d = [f \in Fields |-> d[f]]

\* What is not a row: the schema, its revision, and whether it is whole.
Alike(d, e) == \A f \in Fields \ {"rows", "wide"} : d[f] = e[f]

LEMMA Singleton ==
    ASSUME NEW x
    PROVE  Only({x}) = x
BY DEF Only

LEMMA EffectIsDatabase ==
    ASSUME NEW d, Database(d), NEW s
    PROVE  /\ Database(Effect(d, s)) /\ Effect(d, s).rev = d.rev /\ Effect(d, s).ok = d.ok
           /\ Effect(d, s).wide \in {d.wide, TRUE}
<1>0. DOMAIN d = Fields
  BY DEF Database
<1>1. CASE s.op = "create"
  BY ZenonT(60), <1>0, <1>1 DEF Effect, Database, Fields
<1>2. CASE s.op = "drop"
  BY ZenonT(60), <1>0, <1>2 DEF Effect, Database, Fields
<1>3. CASE s.op = "add"
  BY ZenonT(60), <1>0, <1>3 DEF Effect, Database, Fields
<1>4. CASE s.op = "remove"
  BY ZenonT(60), <1>0, <1>4 DEF Effect, Database, Fields
<1>5. CASE s.op = "fill"
  BY ZenonT(60), <1>0, <1>5 DEF Effect, Database, Fields
<1>6. CASE s.op = "require"
  BY ZenonT(60), <1>0, <1>6 DEF Effect, Database, Fields
<1>7. CASE s.op = "optional"
  BY ZenonT(60), <1>0, <1>7 DEF Effect, Database, Fields
<1>8. CASE s.op = "refer"
  BY ZenonT(60), <1>0, <1>8 DEF Effect, Database, Fields
<1>9. CASE s.op = "unrefer"
  BY ZenonT(60), <1>0, <1>9 DEF Effect, Database, Fields
<1>10. CASE s.op = "constrain"
  BY ZenonT(60), <1>0, <1>10 DEF Effect, Database, Fields
<1>11. CASE s.op = "release"
  BY ZenonT(60), <1>0, <1>11 DEF Effect, Database, Fields
<1>12. CASE s.op = "allow"
  BY ZenonT(60), <1>0, <1>12 DEF Effect, Database, Fields
<1>13. CASE s.op = "disallow"
  BY ZenonT(60), <1>0, <1>13 DEF Effect, Database, Fields
<1>14. CASE s.op = "widen"
  BY ZenonT(60), <1>0, <1>14 DEF Effect, Database, Fields
<1>15. CASE s.op = "convert"
  BY ZenonT(60), <1>0, <1>15 DEF Effect, Database, Fields
<1>16. CASE s.op = "delete"
  BY ZenonT(60), <1>0, <1>16 DEF Effect, Database, Fields
<1>17. CASE s.op \notin {"create", "drop", "add", "remove", "fill", "require", "optional", "refer",
                      "unrefer", "constrain", "release", "allow", "disallow", "widen",
                      "convert", "delete"}
  BY ZenonT(60), <1>0, <1>17 DEF Effect, Database, Fields
<1> QED
  BY <1>1, <1>2, <1>3, <1>4, <1>5, <1>6, <1>7, <1>8,
     <1>9, <1>10, <1>11, <1>12, <1>13, <1>14, <1>15, <1>16, <1>17

LEMMA EffectAlike ==
    ASSUME NEW d, NEW e, Database(d), Database(e), Alike(d, e), NEW s
    PROVE  Alike(Effect(d, s), Effect(e, s))
<1>0. DOMAIN d = Fields /\ DOMAIN e = Fields
  BY DEF Database
<1>1. CASE s.op = "create"
  BY ZenonT(60), <1>0, <1>1 DEF Effect, Alike, Fields
<1>2. CASE s.op = "drop"
  BY ZenonT(60), <1>0, <1>2 DEF Effect, Alike, Fields
<1>3. CASE s.op = "add"
  BY ZenonT(60), <1>0, <1>3 DEF Effect, Alike, Fields
<1>4. CASE s.op = "remove"
  BY ZenonT(60), <1>0, <1>4 DEF Effect, Alike, Fields
<1>5. CASE s.op = "fill"
  BY <1>0, <1>5 DEF Effect, Alike, Fields
<1>6. CASE s.op = "require"
  BY <1>0, <1>6 DEF Effect, Alike, Fields
<1>7. CASE s.op = "optional"
  BY <1>0, <1>7 DEF Effect, Alike, Fields
<1>8. CASE s.op = "refer"
  BY <1>0, <1>8 DEF Effect, Alike, Fields
<1>9. CASE s.op = "unrefer"
  BY <1>0, <1>9 DEF Effect, Alike, Fields
<1>10. CASE s.op = "constrain"
  BY <1>0, <1>10 DEF Effect, Alike, Fields
<1>11. CASE s.op = "release"
  BY <1>0, <1>11 DEF Effect, Alike, Fields
<1>12. CASE s.op = "allow"
  BY <1>0, <1>12 DEF Effect, Alike, Fields
<1>13. CASE s.op = "disallow"
  BY <1>0, <1>13 DEF Effect, Alike, Fields
<1>14. CASE s.op = "widen"
  BY <1>0, <1>14 DEF Effect, Alike, Fields
<1>15. CASE s.op = "convert"
  BY <1>0, <1>15 DEF Effect, Alike, Fields
<1>16. CASE s.op = "delete"
  BY <1>0, <1>16 DEF Effect, Alike, Fields
<1>17. CASE s.op \notin {"create", "drop", "add", "remove", "fill", "require", "optional", "refer",
                      "unrefer", "constrain", "release", "allow", "disallow", "widen",
                      "convert", "delete"}
  BY <1>0, <1>17 DEF Effect, Alike, Fields
<1> QED
  BY <1>1, <1>2, <1>3, <1>4, <1>5, <1>6, <1>7, <1>8,
     <1>9, <1>10, <1>11, <1>12, <1>13, <1>14, <1>15, <1>16, <1>17

-----------------------------------------------------------------------------
(* Scripts: one statement after another.                                   *)

\* Induction over a set.
LEMMA Induct ==
    ASSUME NEW S, 0 \in S, \A n \in Nat : n \in S => n + 1 \in S
    PROVE  Nat \subseteq S
<1> SUFFICES ASSUME Nat \ S # {} PROVE FALSE
  OBVIOUS
<1> DEFINE R == OpToRel(<, Nat)
<1>1. IsWellFoundedOn(R, Nat)
  BY NatLessThanWellFounded
<1>2. \A m, n \in Nat : m < n => <<m, n>> \in R
  BY DEF OpToRel
<1> HIDE DEF R
<1>3. PICK m \in Nat \ S : \A n \in Nat \ S : ~ (<<n, m>> \in R)
  BY <1>1, WFMin
<1>4. m # 0 /\ m - 1 \in Nat /\ m - 1 < m /\ (m - 1) + 1 = m
  BY <1>3
<1>5. m - 1 \in S
  BY <1>2, <1>3, <1>4
<1> QED BY <1>3, <1>4, <1>5

\* Execute goes through the databases f[0], f[1] and so on.
LEMMA ExecuteSteps ==
    ASSUME NEW db0, NEW script, Len(script) \in Nat
    PROVE  \E f : /\ f[0] = db0
                  /\ \A k \in 1 .. Len(script) : f[k] = Attempt(f[k - 1], script[k])
                  /\ Execute(db0, script) = f[Len(script)]
<1> DEFINE N == Len(script)
           Body(f) == [k \in 0 .. N |-> IF k = 0 THEN db0
                         ELSE Only({Attempt(d, script[k]) : d \in {f[k - 1]}})]
           Runs(f, n) == /\ DOMAIN f = 0 .. n
                         /\ f[0] = db0
                         /\ \A k \in 1 .. n : f[k] = Attempt(f[k - 1], script[k])
           S == {n \in Nat : \E f : Runs(f, n)}
<1>1. 0 \in S
  <2>1. Runs([k \in 0 .. 0 |-> db0], 0)
    OBVIOUS
  <2> QED BY <2>1
<1>2. ASSUME NEW n \in Nat, n \in S PROVE n + 1 \in S
  <2>1. PICK g : Runs(g, n)
    BY <1>2
  <2> DEFINE f == [k \in 0 .. n + 1 |-> IF k <= n THEN g[k] ELSE Attempt(g[n], script[n + 1])]
  <2>2. Runs(f, n + 1)
    <3>1. DOMAIN f = 0 .. n + 1 /\ f[0] = db0
      BY <2>1
    <3>2. ASSUME NEW k \in 1 .. n + 1 PROVE f[k] = Attempt(f[k - 1], script[k])
      <4>1. CASE k <= n
        BY <2>1, <4>1
      <4>2. CASE k = n + 1
        <5>1. f[k] = Attempt(g[n], script[n + 1]) /\ f[k - 1] = g[n]
          BY <4>2
        <5> QED BY <4>2, <5>1
      <4> QED BY <4>1, <4>2
    <3> QED BY <3>1, <3>2
  <2> HIDE DEF f, Runs
  <2> QED BY <2>2
<1> HIDE DEF S
<1>3. N \in S
  BY <1>1, <1>2, Induct
<1>4. PICK g : Runs(g, N)
  BY <1>3 DEF S
<1>5. \A x, s : Only({Attempt(d, s) : d \in {x}}) = Attempt(x, s)
  <2>1. \A x, s : {Attempt(d, s) : d \in {x}} = {Attempt(x, s)}
    OBVIOUS
  <2> QED BY <2>1, Singleton
<1> DEFINE h == [k \in 0 .. N |-> g[k]]
<1>6. h = Body(h)
  <2>1. ASSUME NEW k \in 0 .. N
        PROVE  h[k] = IF k = 0 THEN db0 ELSE Only({Attempt(d, script[k]) : d \in {h[k - 1]}})
    <3>1. CASE k = 0
      BY <1>4, <3>1
    <3>2. CASE k # 0
      <4>1. k \in 1 .. N /\ k - 1 \in 0 .. N
        BY <3>2
      <4>2. h[k] = Attempt(h[k - 1], script[k])
        BY <1>4, <4>1
      <4> QED BY <1>5, <3>2, <4>2
    <3> QED BY <3>1, <3>2
  <2> QED BY <2>1
<1> DEFINE after == CHOOSE f : f = Body(f)
<1>7. after = Body(after)
  <2> HIDE DEF Body, h
  <2> QED BY <1>6
<1>8. Execute(db0, script) = after[N]
  BY DEF Execute
<1> HIDE DEF after
<1>9. after[0] = db0 /\ \A k \in 1 .. N : after[k] = Attempt(after[k - 1], script[k])
  <2>1. \A k \in 0 .. N : after[k] = IF k = 0 THEN db0
                             ELSE Only({Attempt(d, script[k]) : d \in {after[k - 1]}})
    BY <1>7
  <2>2. 0 \in 0 .. N /\ \A k \in 1 .. N : k \in 0 .. N /\ k # 0
    OBVIOUS
  <2>3. ASSUME NEW k \in 1 .. N PROVE after[k] = Attempt(after[k - 1], script[k])
    BY <1>5, <2>1, <2>2
  <2>4. after[0] = db0
    BY <2>1, <2>2
  <2> QED BY <2>3, <2>4
<1> QED BY <1>8, <1>9

LEMMA AttemptIsDatabase ==
    ASSUME NEW d, Database(d), NEW s
    PROVE  /\ Database(Attempt(d, s)) /\ Attempt(d, s).rev = d.rev
           /\ Attempt(d, s).ok => d.ok
<1>1. CASE d.ok /\ Accepted(d, s)
  BY <1>1, EffectIsDatabase DEF Attempt
<1>2. CASE ~(d.ok /\ Accepted(d, s))
  <2>1. DOMAIN d = Fields
    BY DEF Database
  <2> QED BY <1>2, <2>1 DEF Attempt, Database, Fields
<1> QED BY <1>1, <1>2

LEMMA AttemptAlike ==
    ASSUME NEW d, NEW e, Database(d), Database(e), Alike(d, e), NEW s,
           Attempt(d, s).ok, Attempt(e, s).ok
    PROVE  Alike(Attempt(d, s), Attempt(e, s))
<1>1. ASSUME NEW c, Database(c), Attempt(c, s).ok PROVE Attempt(c, s) = Effect(c, s)
  <2>1. CASE c.ok /\ Accepted(c, s)
    BY <2>1 DEF Attempt
  <2>2. CASE ~(c.ok /\ Accepted(c, s))
    <3>1. DOMAIN c = Fields
      BY <1>1 DEF Database
    <3> QED BY <1>1, <2>2, <3>1 DEF Attempt, Fields
  <2> QED BY <2>1, <2>2
<1> QED BY <1>1, EffectAlike

\* A script that succeeds succeeded with each of its statements.
LEMMA ExecuteIsDatabase ==
    ASSUME NEW d, Database(d), NEW script, Len(script) \in Nat,
           NEW f, f[0] = d, \A k \in 1 .. Len(script) : f[k] = Attempt(f[k - 1], script[k])
    PROVE  /\ \A k \in 0 .. Len(script) : Database(f[k]) /\ f[k].rev = d.rev
           /\ \A k \in 0 .. Len(script) : f[Len(script)].ok => f[k].ok
<1> DEFINE N == Len(script)
           S == {k \in Nat : k <= N => Database(f[k]) /\ f[k].rev = d.rev}
           T == {n \in Nat : n <= N => (f[N].ok => f[N - n].ok)}
<1>1. ASSUME NEW k \in 1 .. N PROVE f[k] = Attempt(f[k - 1], script[k])
  OBVIOUS
<1>2. 0 \in S
  OBVIOUS
<1>3. ASSUME NEW k \in Nat, k \in S PROVE k + 1 \in S
  <2>1. CASE k + 1 <= N
    <3>1. Database(f[k]) /\ f[k].rev = d.rev /\ f[k + 1] = Attempt(f[k], script[k + 1])
      BY <1>1, <1>3, <2>1
    <3> QED BY <3>1, AttemptIsDatabase
  <2> QED BY <2>1
<1> HIDE DEF S
<1>4. Nat \subseteq S
  BY <1>2, <1>3, Induct
<1>5. ASSUME NEW k \in 0 .. N PROVE Database(f[k]) /\ f[k].rev = d.rev
  <2>1. k \in S
    BY <1>4
  <2> QED BY <2>1 DEF S
<1>6. 0 \in T
  OBVIOUS
<1>7. ASSUME NEW n \in Nat, n \in T PROVE n + 1 \in T
  <2>1. CASE n + 1 <= N
    <3> DEFINE k == N - n
    <3>1. k \in 1 .. N /\ k - 1 = N - (n + 1) /\ k - 1 \in 0 .. N
      BY <2>1
    <3>2. f[N].ok => f[k].ok
      BY <1>7, <2>1
    <3> HIDE DEF k
    <3>3. f[k].ok => f[k - 1].ok
      BY <1>1, <1>5, <3>1, AttemptIsDatabase
    <3> QED BY <3>1, <3>2, <3>3
  <2> QED BY <2>1
<1> HIDE DEF T
<1>8. Nat \subseteq T
  BY <1>6, <1>7, Induct
<1>9. ASSUME NEW k \in 0 .. N PROVE f[N].ok => f[k].ok
  <2>1. N - k \in Nat /\ N - (N - k) = k /\ N - k <= N
    OBVIOUS
  <2>2. N - k \in T
    BY <1>8, <2>1
  <2> QED BY <2>1, <2>2 DEF T
<1> QED BY <1>5, <1>9

LEMMA ExecuteSucceeds ==
    ASSUME NEW d, Database(d), NEW script, Len(script) \in Nat
    PROVE  /\ Database(Execute(d, script)) /\ Execute(d, script).rev = d.rev
           /\ Execute(d, script).ok => d.ok
<1>1. PICK f : /\ f[0] = d
               /\ \A k \in 1 .. Len(script) : f[k] = Attempt(f[k - 1], script[k])
               /\ Execute(d, script) = f[Len(script)]
  BY ZenonT(60), ExecuteSteps
<1>2. 0 \in 0 .. Len(script) /\ Len(script) \in 0 .. Len(script)
  OBVIOUS
<1> QED BY <1>1, <1>2, ExecuteIsDatabase

\* What a script makes of the schema does not depend on the rows, if it succeeds.
LEMMA ExecuteAlike ==
    ASSUME NEW d, NEW e, Database(d), Database(e), Alike(d, e),
           NEW script, Len(script) \in Nat,
           Execute(d, script).ok, Execute(e, script).ok
    PROVE  Alike(Execute(d, script), Execute(e, script))
<1> DEFINE N == Len(script)
<1>1. PICK f : /\ f[0] = d
               /\ \A k \in 1 .. N : f[k] = Attempt(f[k - 1], script[k])
               /\ Execute(d, script) = f[N]
  BY ExecuteSteps
<1>2. PICK g : /\ g[0] = e
               /\ \A k \in 1 .. N : g[k] = Attempt(g[k - 1], script[k])
               /\ Execute(e, script) = g[N]
  BY ExecuteSteps
<1>3. \A k \in 0 .. N : Database(f[k]) /\ f[k].ok
  BY <1>1, ExecuteIsDatabase
<1>4. \A k \in 0 .. N : Database(g[k]) /\ g[k].ok
  BY <1>2, ExecuteIsDatabase
<1> DEFINE S == {k \in Nat : k <= N => Alike(f[k], g[k])}
<1>5. 0 \in S
  BY <1>1, <1>2
<1>6. ASSUME NEW k \in Nat, k \in S PROVE k + 1 \in S
  <2>1. CASE k + 1 <= N
    <3>1. Alike(f[k], g[k]) /\ k \in 0 .. N /\ k + 1 \in 1 .. N /\ (k + 1) - 1 = k
      BY <1>6, <2>1
    <3>2. f[k + 1] = Attempt(f[k], script[k + 1]) /\ g[k + 1] = Attempt(g[k], script[k + 1])
      BY <1>1, <1>2, <3>1
    <3>3. Database(f[k]) /\ Database(g[k]) /\ f[k + 1].ok /\ g[k + 1].ok
      BY <1>3, <1>4, <3>1
    <3> QED BY <3>1, <3>2, <3>3, AttemptAlike
  <2> QED BY <2>1
<1> HIDE DEF S
<1>7. N \in S
  BY <1>5, <1>6, Induct
<1> QED BY <1>1, <1>2, <1>7 DEF S

-----------------------------------------------------------------------------
(* One revision up or down.                                                *)

Newest == Len(Revisions)

LEMMA NewestIsNatural == Newest \in Nat
BY DEF Newest, Revisions

LEMMA RecordIsDatabase ==
    ASSUME NEW d, Database(d), NEW r
    PROVE  /\ Database(Record(d, r))
           /\ Record(d, r).ok => d.ok /\ Record(d, r) = [d EXCEPT !.rev = r]
           /\ Record(d, r).ok => Record(d, r).rev = r
<1>0. DOMAIN d = Fields
  BY DEF Database
<1>1. CASE r \in LongNames /\ ~ d.wide
  BY <1>0, <1>1 DEF Record, Database, Fields
<1>2. CASE ~(r \in LongNames /\ ~ d.wide)
  BY <1>0, <1>2 DEF Record, Database, Fields
<1> QED BY <1>1, <1>2

LEMMA RecordAlike ==
    ASSUME NEW d, NEW e, Database(d), Database(e), Alike(d, e), NEW r,
           Record(d, r).ok, Record(e, r).ok
    PROVE  Alike(Record(d, r), Record(e, r))
<1>0. DOMAIN d = Fields /\ DOMAIN e = Fields
  BY DEF Database
<1>1. Record(d, r) = [d EXCEPT !.rev = r] /\ Record(e, r) = [e EXCEPT !.rev = r]
  BY RecordIsDatabase
<1> QED BY <1>0, <1>1 DEF Alike, Fields

LEMMA ScriptsAreFinite ==
    /\ \A r \in 1 .. Newest : Len(Revisions[r].up) \in Nat
    /\ \A r \in 0 .. Newest - 1 : Len(Revisions[r + 1].down) \in Nat
<1>1. \A r \in 0 .. Newest - 1 : r + 1 \in 1 .. Newest
  BY NewestIsNatural
<1> QED BY <1>1, RevisionsAssumption DEF Newest

LEMMA UpIsDatabase ==
    ASSUME NEW d, Database(d), NEW r \in 1 .. Newest
    PROVE  Database(Up(d, r)) /\ (Up(d, r).ok => d.ok /\ Up(d, r).rev = r)
BY ScriptsAreFinite, ExecuteSucceeds, RecordIsDatabase DEF Up

LEMMA DownIsDatabase ==
    ASSUME NEW d, Database(d), NEW r \in 0 .. Newest - 1
    PROVE  Database(Down(d, r)) /\ (Down(d, r).ok => d.ok /\ Down(d, r).rev = r)
BY ScriptsAreFinite, ExecuteSucceeds, RecordIsDatabase DEF Down

LEMMA UpAlike ==
    ASSUME NEW d, NEW e, Database(d), Database(e), Alike(d, e), NEW r \in 1 .. Newest,
           Up(d, r).ok, Up(e, r).ok
    PROVE  Alike(Up(d, r), Up(e, r))
BY ScriptsAreFinite, ExecuteSucceeds, ExecuteAlike, RecordIsDatabase, RecordAlike DEF Up

LEMMA DownAlike ==
    ASSUME NEW d, NEW e, Database(d), Database(e), Alike(d, e), NEW r \in 0 .. Newest - 1,
           Down(d, r).ok, Down(e, r).ok
    PROVE  Alike(Down(d, r), Down(e, r))
BY ScriptsAreFinite, ExecuteSucceeds, ExecuteAlike, RecordIsDatabase, RecordAlike DEF Down

LEMMA SchemaIsAlike ==
    ASSUME NEW d, NEW e, Database(d), Database(e)
    PROVE  Schema(d) = Schema(e) <=> Alike(d, e)
<1>0. DOMAIN d = Fields /\ DOMAIN e = Fields
  BY DEF Database
<1>1. ASSUME NEW c, Database(c)
      PROVE  Schema(c) = [f \in Fields |-> IF f = "rows" THEN [i \in RowIds |-> NoRow]
                                           ELSE IF f = "wide" THEN TRUE ELSE c[f]]
  <2>1. DOMAIN c = Fields
    BY <1>1 DEF Database
  <2> QED BY <2>1 DEF Schema, Fields
<1>2. ASSUME Alike(d, e) PROVE Schema(d) = Schema(e)
  <2> DEFINE F(c) == [f \in Fields |-> IF f = "rows" THEN [i \in RowIds |-> NoRow]
                                       ELSE IF f = "wide" THEN TRUE ELSE c[f]]
  <2>1. \A f \in Fields \ {"rows", "wide"} : d[f] = e[f]
    BY <1>2 DEF Alike
  <2>2. F(d) = F(e)
    BY <2>1
  <2>3. Schema(d) = F(d) /\ Schema(e) = F(e)
    BY <1>1
  <2> HIDE DEF F
  <2> QED BY <2>2, <2>3
<1>3. ASSUME Schema(d) = Schema(e) PROVE Alike(d, e)
  <2>1. \A f \in Fields \ {"rows", "wide"} : Schema(d)[f] = d[f] /\ Schema(e)[f] = e[f]
    BY <1>1
  <2> QED BY <1>3, <2>1 DEF Alike
<1> QED BY <1>2, <1>3

-----------------------------------------------------------------------------
(* alembic upgrade and downgrade, revision after revision.                 *)

LEMMA UpgradeSteps ==
    ASSUME NEW db0, db0.rev \in Nat, NEW to \in Nat, db0.rev <= to
    PROVE  \E f : /\ f[db0.rev] = db0
                  /\ \A r \in db0.rev + 1 .. to : f[r] = Up(f[r - 1], r)
                  /\ Upgraded(db0, to) = f[to]
<1> DEFINE from == db0.rev
           Body(f) == [r \in from .. to |->
                          IF r = from THEN db0 ELSE Only({Up(d, r) : d \in {f[r - 1]}})]
           Runs(f, n) == /\ DOMAIN f = from .. n
                         /\ f[from] = db0
                         /\ \A r \in from + 1 .. n : f[r] = Up(f[r - 1], r)
           S == {n \in Nat : \E f : Runs(f, from + n)}
<1>1. 0 \in S
  <2>1. Runs([r \in from .. from + 0 |-> db0], from + 0)
    OBVIOUS
  <2> QED BY <2>1
<1>2. ASSUME NEW n \in Nat, n \in S PROVE n + 1 \in S
  <2> DEFINE m == from + n
  <2>1. PICK g : Runs(g, m)
    BY <1>2
  <2>2. m \in Nat /\ from <= m /\ from + (n + 1) = m + 1
    OBVIOUS
  <2> HIDE DEF m
  <2> DEFINE f == [r \in from .. m + 1 |-> IF r <= m THEN g[r] ELSE Up(g[m], m + 1)]
  <2>3. Runs(f, m + 1)
    <3>1. DOMAIN f = from .. m + 1 /\ f[from] = db0
      BY <2>1, <2>2
    <3>2. ASSUME NEW r \in from + 1 .. m + 1 PROVE f[r] = Up(f[r - 1], r)
      <4>1. CASE r <= m
        BY <2>1, <2>2, <4>1
      <4>2. CASE r = m + 1
        <5>1. f[r] = Up(g[m], m + 1) /\ f[r - 1] = g[m]
          BY <2>2, <4>2
        <5> QED BY <4>2, <5>1
      <4> QED BY <2>2, <4>1, <4>2
    <3> QED BY <3>1, <3>2
  <2> HIDE DEF f, Runs
  <2> QED BY <2>2, <2>3
<1> HIDE DEF S
<1>3. to - from \in S /\ from + (to - from) = to
  BY <1>1, <1>2, Induct
<1>4. PICK g : Runs(g, to)
  <2> HIDE DEF Runs
  <2>1. \E g : Runs(g, from + (to - from))
    BY <1>3 DEF S
  <2> QED BY <1>3, <2>1
<1>5. \A x, r : Only({Up(d, r) : d \in {x}}) = Up(x, r)
  <2>1. \A x, r : {Up(d, r) : d \in {x}} = {Up(x, r)}
    OBVIOUS
  <2> QED BY <2>1, Singleton
<1> DEFINE h == [r \in from .. to |-> g[r]]
<1>6. h = Body(h)
  <2>1. ASSUME NEW r \in from .. to
        PROVE  h[r] = IF r = from THEN db0 ELSE Only({Up(d, r) : d \in {h[r - 1]}})
    <3>1. CASE r = from
      BY <1>4, <3>1
    <3>2. CASE r # from
      <4>1. r \in from + 1 .. to /\ r - 1 \in from .. to
        BY <3>2
      <4>2. h[r] = Up(h[r - 1], r)
        BY <1>4, <4>1
      <4> QED BY <1>5, <3>2, <4>2
    <3> QED BY <3>1, <3>2
  <2> QED BY <2>1
<1> DEFINE at == CHOOSE f : f = Body(f)
<1>7. at = Body(at)
  <2> HIDE DEF Body, h
  <2> QED BY <1>6
<1>8. Upgraded(db0, to) = at[to]
  BY DEF Upgraded
<1> HIDE DEF at
<1>9. at[from] = db0 /\ \A r \in from + 1 .. to : at[r] = Up(at[r - 1], r)
  <2>1. \A r \in from .. to : at[r] = IF r = from THEN db0
                                      ELSE Only({Up(d, r) : d \in {at[r - 1]}})
    BY <1>7
  <2>2. from \in from .. to /\ \A r \in from + 1 .. to : r \in from .. to /\ r # from
    OBVIOUS
  <2>3. ASSUME NEW r \in from + 1 .. to PROVE at[r] = Up(at[r - 1], r)
    BY <1>5, <2>1, <2>2
  <2>4. at[from] = db0
    BY <2>1, <2>2
  <2> QED BY <2>3, <2>4
<1> QED BY <1>8, <1>9

LEMMA DowngradeSteps ==
    ASSUME NEW db0, db0.rev \in Nat, NEW to \in Nat, to <= db0.rev
    PROVE  \E f : /\ f[db0.rev] = db0
                  /\ \A r \in to .. db0.rev - 1 : f[r] = Down(f[r + 1], r)
                  /\ Downgraded(db0, to) = f[to]
<1> DEFINE from == db0.rev
           Body(f) == [r \in to .. from |->
                          IF r = from THEN db0 ELSE Only({Down(d, r) : d \in {f[r + 1]}})]
           Runs(f, n) == /\ DOMAIN f = n .. from
                         /\ f[from] = db0
                         /\ \A r \in n .. from - 1 : f[r] = Down(f[r + 1], r)
           S == {n \in Nat : \E f : Runs(f, from - n)}
<1>1. 0 \in S
  <2>1. Runs([r \in from - 0 .. from |-> db0], from - 0)
    OBVIOUS
  <2> QED BY <2>1
<1>2. ASSUME NEW n \in Nat, n \in S PROVE n + 1 \in S
  <2> DEFINE m == from - n
  <2>1. PICK g : Runs(g, m)
    BY <1>2
  <2>2. m \in Int /\ m <= from /\ from - (n + 1) = m - 1
    OBVIOUS
  <2> HIDE DEF m
  <2> DEFINE f == [r \in m - 1 .. from |-> IF m <= r THEN g[r] ELSE Down(g[m], m - 1)]
  <2>3. Runs(f, m - 1)
    <3>1. DOMAIN f = m - 1 .. from /\ f[from] = db0
      BY <2>1, <2>2
    <3>2. ASSUME NEW r \in m - 1 .. from - 1 PROVE f[r] = Down(f[r + 1], r)
      <4>1. CASE m <= r
        BY <2>1, <2>2, <4>1
      <4>2. CASE r = m - 1
        <5>1. f[r] = Down(g[m], m - 1) /\ f[r + 1] = g[m]
          BY <2>2, <4>2
        <5> QED BY <4>2, <5>1
      <4> QED BY <2>2, <4>1, <4>2
    <3> QED BY <3>1, <3>2
  <2> HIDE DEF f, Runs
  <2> QED BY <2>2, <2>3
<1> HIDE DEF S
<1>3. from - to \in S /\ from - (from - to) = to
  BY <1>1, <1>2, Induct
<1>4. PICK g : Runs(g, to)
  <2> HIDE DEF Runs
  <2>1. \E g : Runs(g, from - (from - to))
    BY <1>3 DEF S
  <2> QED BY <1>3, <2>1
<1>5. \A x, r : Only({Down(d, r) : d \in {x}}) = Down(x, r)
  <2>1. \A x, r : {Down(d, r) : d \in {x}} = {Down(x, r)}
    OBVIOUS
  <2> QED BY <2>1, Singleton
<1> DEFINE h == [r \in to .. from |-> g[r]]
<1>6. h = Body(h)
  <2>1. ASSUME NEW r \in to .. from
        PROVE  h[r] = IF r = from THEN db0 ELSE Only({Down(d, r) : d \in {h[r + 1]}})
    <3>1. CASE r = from
      BY <1>4, <3>1
    <3>2. CASE r # from
      <4>1. r \in to .. from - 1 /\ r + 1 \in to .. from
        BY <3>2
      <4>2. h[r] = Down(h[r + 1], r)
        BY <1>4, <4>1
      <4> QED BY <1>5, <3>2, <4>2
    <3> QED BY <3>1, <3>2
  <2> QED BY <2>1
<1> DEFINE at == CHOOSE f : f = Body(f)
<1>7. at = Body(at)
  <2> HIDE DEF Body, h
  <2> QED BY <1>6
<1>8. Downgraded(db0, to) = at[to]
  BY DEF Downgraded
<1> HIDE DEF at
<1>9. at[from] = db0 /\ \A r \in to .. from - 1 : at[r] = Down(at[r + 1], r)
  <2>1. \A r \in to .. from : at[r] = IF r = from THEN db0
                                      ELSE Only({Down(d, r) : d \in {at[r + 1]}})
    BY <1>7
  <2>2. from \in to .. from /\ \A r \in to .. from - 1 : r \in to .. from /\ r # from
    OBVIOUS
  <2>3. ASSUME NEW r \in to .. from - 1 PROVE at[r] = Down(at[r + 1], r)
    BY <1>5, <2>1, <2>2
  <2>4. at[from] = db0
    BY <2>1, <2>2
  <2> QED BY <2>3, <2>4
<1> QED BY <1>8, <1>9

\* The schema of each revision is the one before, upgraded by one.
LEMMA SchemasFollow ==
    /\ SchemaAt[0] = Empty
    /\ \A r \in 1 .. Newest : SchemaAt[r] = Up(SchemaAt[r - 1], r)
<1>0. Empty.rev = 0
  BY DEF Empty
<1>1. \A r \in 0 .. Newest : SchemaAt[r] = Upgraded(Empty, r)
  BY DEF SchemaAt, Newest
<1>2. SchemaAt[0] = Empty
  <2>1. PICK f : f[0] = Empty /\ Upgraded(Empty, 0) = f[0]
    BY <1>0, UpgradeSteps
  <2> QED BY <1>1, <2>1, NewestIsNatural
<1>3. ASSUME NEW r \in 1 .. Newest PROVE SchemaAt[r] = Up(SchemaAt[r - 1], r)
  <2>0. r \in Nat /\ r - 1 \in Nat /\ r - 1 \in 0 .. Newest /\ r \in 0 .. Newest
    BY NewestIsNatural
  <2>1. PICK f : /\ f[0] = Empty
                 /\ \A q \in 1 .. r : f[q] = Up(f[q - 1], q)
                 /\ Upgraded(Empty, r) = f[r]
    BY <1>0, <2>0, UpgradeSteps
  <2>2. PICK g : /\ g[0] = Empty
                 /\ \A q \in 1 .. r - 1 : g[q] = Up(g[q - 1], q)
                 /\ Upgraded(Empty, r - 1) = g[r - 1]
    BY <1>0, <2>0, UpgradeSteps
  <2> DEFINE S == {n \in Nat : n <= r - 1 => f[n] = g[n]}
  <2>3. 0 \in S
    BY <2>1, <2>2
  <2>4. ASSUME NEW n \in Nat, n \in S PROVE n + 1 \in S
    <3>1. CASE n + 1 <= r - 1
      <4>1. n + 1 \in 1 .. r /\ n + 1 \in 1 .. r - 1 /\ (n + 1) - 1 = n /\ f[n] = g[n]
        BY <2>4, <3>1
      <4> QED BY <2>1, <2>2, <4>1
    <3> QED BY <3>1
  <2> HIDE DEF S
  <2>5. r - 1 \in S
    BY <2>0, <2>3, <2>4, Induct
  <2>6. f[r - 1] = g[r - 1]
    BY <2>0, <2>5 DEF S
  <2>7. f[r] = Up(f[r - 1], r)
    BY <2>0, <2>1
  <2> QED BY <1>1, <2>0, <2>1, <2>2, <2>6, <2>7
<1> QED BY <1>2, <1>3

LEMMA SchemasAreDatabases ==
    \A r \in 0 .. Newest : Database(SchemaAt[r]) /\ SchemaAt[r].ok /\ SchemaAt[r].rev = r
<1>1. Database(Empty) /\ Empty.ok /\ Empty.rev = 0
  BY DEF Empty, Database, Fields
<1> DEFINE S == {r \in Nat : r <= Newest => Database(SchemaAt[r])}
<1>2. 0 \in S
  BY <1>1, SchemasFollow
<1>3. ASSUME NEW r \in Nat, r \in S PROVE r + 1 \in S
  <2>1. CASE r + 1 <= Newest
    <3>1. r + 1 \in 1 .. Newest /\ (r + 1) - 1 = r /\ Database(SchemaAt[r])
      BY <1>3, <2>1, NewestIsNatural
    <3> QED BY <3>1, SchemasFollow, UpIsDatabase
  <2> QED BY <2>1
<1> HIDE DEF S
<1>4. Nat \subseteq S
  BY <1>2, <1>3, Induct
<1>5. ASSUME NEW r \in 0 .. Newest PROVE Database(SchemaAt[r])
  <2>1. r \in S
    BY <1>4
  <2> QED BY <2>1, NewestIsNatural DEF S
<1>6. ASSUME NEW r \in 1 .. Newest PROVE SchemaAt[r].ok /\ SchemaAt[r].rev = r
  <2>1. Database(SchemaAt[r - 1]) /\ SchemaAt[r] = Up(SchemaAt[r - 1], r) /\ SchemaAt[r].ok
    BY <1>5, SchemasFollow, RevisionsAssumption, NewestIsNatural DEF Newest
  <2> QED BY <2>1, UpIsDatabase
<1>7. SchemaAt[0].ok /\ SchemaAt[0].rev = 0
  BY <1>1, SchemasFollow
<1>8. \A r \in 0 .. Newest : r = 0 \/ r \in 1 .. Newest
  BY NewestIsNatural
<1> QED BY <1>5, <1>6, <1>7, <1>8

\* A database that has the schema of its revision.
Genuine(d) == Database(d) /\ d.rev \in 0 .. Newest /\ Alike(d, SchemaAt[d.rev])

\* An upgrade that succeeds goes from one such database to the next.
LEMMA UpgradeRuns ==
    ASSUME NEW d, Genuine(d), NEW to \in 0 .. Newest, d.rev <= to, Upgraded(d, to).ok
    PROVE  \E f : /\ f[d.rev] = d /\ Upgraded(d, to) = f[to]
                  /\ \A r \in d.rev .. to : Genuine(f[r]) /\ f[r].rev = r
                  /\ \A r \in d.rev + 1 .. to : f[r] = Up(f[r - 1], r) /\ f[r].ok
<1> DEFINE from == d.rev
<1>0. from \in Nat /\ to \in Nat /\ from <= to /\ from \in 0 .. Newest /\ Newest \in Nat
  BY NewestIsNatural DEF Genuine
<1>1. PICK f : /\ f[from] = d
               /\ \A r \in from + 1 .. to : f[r] = Up(f[r - 1], r)
               /\ Upgraded(d, to) = f[to]
  BY <1>0, UpgradeSteps
<1> HIDE DEF from
<1> DEFINE S == {n \in Nat : from + n <= to => Database(f[from + n])}
<1>2. 0 \in S
  BY <1>0, <1>1 DEF Genuine
<1>3. ASSUME NEW n \in Nat, n \in S PROVE n + 1 \in S
  <2>1. CASE from + (n + 1) <= to
    <3> DEFINE r == from + (n + 1)
    <3>1. r \in from + 1 .. to /\ r \in 1 .. Newest /\ r - 1 = from + n /\ Database(f[r - 1])
      BY <1>0, <1>3, <2>1
    <3>2. f[r] = Up(f[r - 1], r)
      BY <1>1, <3>1
    <3> QED BY <3>1, <3>2, UpIsDatabase
  <2> QED BY <2>1
<1> HIDE DEF S
<1>4. ASSUME NEW r \in from .. to PROVE Database(f[r])
  <2>1. r - from \in S /\ from + (r - from) = r /\ r <= to
    BY <1>0, <1>2, <1>3, Induct
  <2> QED BY <2>1 DEF S
<1>5. ASSUME NEW r \in from + 1 .. to, f[r].ok
      PROVE  r \in 1 .. Newest /\ f[r].rev = r /\ f[r - 1].ok /\ f[r] = Up(f[r - 1], r)
  <2>1. r \in 1 .. Newest /\ r - 1 \in from .. to
    BY <1>0
  <2> QED BY <1>1, <1>4, <1>5, <2>1, UpIsDatabase
<1> DEFINE T == {n \in Nat : from <= to - n => f[to - n].ok}
<1>6. 0 \in T
  BY <1>0, <1>1
<1>7. ASSUME NEW n \in Nat, n \in T PROVE n + 1 \in T
  <2>1. CASE from <= to - (n + 1)
    <3>1. to - n \in from + 1 .. to /\ (to - n) - 1 = to - (n + 1) /\ f[to - n].ok
      BY <1>0, <1>7, <2>1
    <3> QED BY <1>5, <3>1
  <2> QED BY <2>1
<1> HIDE DEF T
<1>8. ASSUME NEW r \in from .. to PROVE f[r].ok
  <2>1. to - r \in T /\ to - (to - r) = r
    BY <1>0, <1>6, <1>7, Induct
  <2> QED BY <1>0, <2>1 DEF T
<1> DEFINE U == {n \in Nat : from + n <= to => Alike(f[from + n], SchemaAt[from + n])}
<1>9. 0 \in U
  BY <1>0, <1>1 DEF Genuine, from
<1>10. ASSUME NEW n \in Nat, n \in U PROVE n + 1 \in U
  <2>1. CASE from + (n + 1) <= to
    <3> DEFINE r == from + (n + 1)
    <3>1. /\ r \in from + 1 .. to /\ r \in from .. to /\ r - 1 \in from .. to /\ r \in 1 .. Newest
          /\ r - 1 \in 0 .. Newest /\ r \in 0 .. Newest
          /\ r - 1 = from + n /\ Alike(f[r - 1], SchemaAt[r - 1])
      BY <1>0, <1>10, <2>1
    <3> HIDE DEF r
    <3>2. f[r] = Up(f[r - 1], r) /\ SchemaAt[r] = Up(SchemaAt[r - 1], r)
      BY <1>1, <3>1, SchemasFollow
    <3>3. /\ Database(f[r - 1]) /\ Database(SchemaAt[r - 1])
          /\ Up(f[r - 1], r).ok /\ Up(SchemaAt[r - 1], r).ok
      BY <1>4, <1>8, <3>1, <3>2, SchemasAreDatabases
    <3>4. Alike(f[r], SchemaAt[r])
      BY <3>1, <3>2, <3>3, UpAlike
    <3> QED BY <3>4 DEF r
  <2> QED BY <2>1
<1> HIDE DEF U
<1>11. ASSUME NEW r \in from .. to PROVE Alike(f[r], SchemaAt[r])
  <2>1. r - from \in U /\ from + (r - from) = r
    BY <1>0, <1>9, <1>10, Induct
  <2> QED BY <1>0, <2>1 DEF U
<1>12. ASSUME NEW r \in from .. to PROVE Genuine(f[r]) /\ f[r].rev = r
  <2>1. f[r].rev = r
    <3>1. CASE r = from
      BY <1>1, <3>1 DEF from
    <3>2. CASE r \in from + 1 .. to
      BY <1>5, <1>8, <3>2
    <3> QED BY <1>0, <3>1, <3>2
  <2>2. Database(f[r]) /\ Alike(f[r], SchemaAt[r]) /\ r \in 0 .. Newest
    BY <1>0, <1>4, <1>11
  <2> QED BY <2>1, <2>2 DEF Genuine
<1>13. \A r \in from + 1 .. to : f[r] = Up(f[r - 1], r) /\ f[r].ok
  BY <1>0, <1>1, <1>8
<1> QED BY <1>1, <1>12, <1>13 DEF from

LEMMA GenuineUpgrade ==
    ASSUME NEW d, Genuine(d), NEW to \in 0 .. Newest, d.rev <= to, Upgraded(d, to).ok
    PROVE  Genuine(Upgraded(d, to)) /\ Upgraded(d, to).rev = to
<1>1. to \in d.rev .. to
  BY NewestIsNatural DEF Genuine
<1> QED BY <1>1, UpgradeRuns

LEMMA DowngradeRuns ==
    ASSUME NEW d, Genuine(d), NEW to \in 0 .. Newest, to <= d.rev, Downgraded(d, to).ok
    PROVE  \E f : /\ f[d.rev] = d /\ Downgraded(d, to) = f[to]
                  /\ \A r \in to .. d.rev : Genuine(f[r]) /\ f[r].rev = r
                  /\ \A r \in to .. d.rev - 1 : f[r] = Down(f[r + 1], r) /\ f[r].ok
<1> DEFINE from == d.rev
<1>0. from \in Nat /\ to \in Nat /\ to <= from /\ from \in 0 .. Newest /\ Newest \in Nat
  BY NewestIsNatural DEF Genuine
<1>1. PICK f : /\ f[from] = d
               /\ \A r \in to .. from - 1 : f[r] = Down(f[r + 1], r)
               /\ Downgraded(d, to) = f[to]
  BY <1>0, DowngradeSteps
<1> HIDE DEF from
<1> DEFINE S == {n \in Nat : to <= from - n => Database(f[from - n])}
<1>2. 0 \in S
  BY <1>0, <1>1 DEF Genuine
<1>3. ASSUME NEW n \in Nat, n \in S PROVE n + 1 \in S
  <2>1. CASE to <= from - (n + 1)
    <3> DEFINE r == from - (n + 1)
    <3>1. /\ r \in to .. from - 1 /\ r \in 0 .. Newest - 1
          /\ r + 1 = from - n /\ Database(f[r + 1])
      BY <1>0, <1>3, <2>1
    <3>2. f[r] = Down(f[r + 1], r)
      BY <1>1, <3>1
    <3> QED BY <3>1, <3>2, DownIsDatabase
  <2> QED BY <2>1
<1> HIDE DEF S
<1>4. ASSUME NEW r \in to .. from PROVE Database(f[r])
  <2>1. from - r \in S /\ from - (from - r) = r /\ to <= r
    BY <1>0, <1>2, <1>3, Induct
  <2> QED BY <2>1 DEF S
<1>5. ASSUME NEW r \in to .. from - 1, f[r].ok
      PROVE  r \in 0 .. Newest - 1 /\ f[r].rev = r /\ f[r + 1].ok /\ f[r] = Down(f[r + 1], r)
  <2>1. r \in 0 .. Newest - 1 /\ r + 1 \in to .. from
    BY <1>0
  <2> QED BY <1>1, <1>4, <1>5, <2>1, DownIsDatabase
<1> DEFINE T == {n \in Nat : to + n <= from => f[to + n].ok}
<1>6. 0 \in T
  BY <1>0, <1>1
<1>7. ASSUME NEW n \in Nat, n \in T PROVE n + 1 \in T
  <2>1. CASE to + (n + 1) <= from
    <3>1. to + n \in to .. from - 1 /\ (to + n) + 1 = to + (n + 1) /\ f[to + n].ok
      BY <1>0, <1>7, <2>1
    <3> QED BY <1>5, <3>1
  <2> QED BY <2>1
<1> HIDE DEF T
<1>8. ASSUME NEW r \in to .. from PROVE f[r].ok
  <2>1. r - to \in T /\ to + (r - to) = r
    BY <1>0, <1>6, <1>7, Induct
  <2> QED BY <1>0, <2>1 DEF T
<1> DEFINE U == {n \in Nat : to <= from - n => Alike(f[from - n], SchemaAt[from - n])}
<1>9. 0 \in U
  BY <1>0, <1>1 DEF Genuine, from
<1>10. ASSUME NEW n \in Nat, n \in U PROVE n + 1 \in U
  <2>1. CASE to <= from - (n + 1)
    <3> DEFINE r == from - (n + 1)
    <3>1. /\ r \in to .. from - 1 /\ r \in to .. from /\ r + 1 \in to .. from
          /\ r \in 0 .. Newest - 1 /\ r + 1 \in 1 .. Newest /\ (r + 1) - 1 = r
          /\ r + 1 \in 0 .. Newest /\ r \in 0 .. Newest
          /\ r + 1 = from - n /\ Alike(f[r + 1], SchemaAt[r + 1])
      BY <1>0, <1>10, <2>1
    <3> HIDE DEF r
    <3>2. f[r] = Down(f[r + 1], r)
      BY <1>1, <3>1
    <3>3. Database(f[r + 1]) /\ Database(SchemaAt[r + 1]) /\ Database(SchemaAt[r])
      BY <1>4, <3>1, SchemasAreDatabases
    <3>4. Alike(Down(SchemaAt[r + 1], r), SchemaAt[r])
      <4>1. Schema(Down(SchemaAt[r + 1], r)) = Schema(SchemaAt[r])
        BY <3>1, RevisionsAssumption DEF Newest
      <4>2. Database(Down(SchemaAt[r + 1], r))
        BY <3>1, <3>3, DownIsDatabase
      <4> QED BY <3>3, <4>1, <4>2, SchemaIsAlike
    <3>5. Down(f[r + 1], r).ok /\ Down(SchemaAt[r + 1], r).ok
      <4>1. SchemaAt[r].ok
        BY <3>1, SchemasAreDatabases
      <4>2. Down(SchemaAt[r + 1], r).ok = SchemaAt[r].ok
        BY <3>4 DEF Alike, Fields
      <4> QED BY <1>8, <3>1, <3>2, <4>1, <4>2
    <3>6. Alike(f[r], Down(SchemaAt[r + 1], r))
      BY <3>1, <3>2, <3>3, <3>5, DownAlike
    <3>7. Alike(f[r], SchemaAt[r])
      BY <3>4, <3>6 DEF Alike
    <3> QED BY <3>7 DEF r
  <2> QED BY <2>1
<1> HIDE DEF U
<1>11. ASSUME NEW r \in to .. from PROVE Alike(f[r], SchemaAt[r])
  <2>1. from - r \in U /\ from - (from - r) = r
    BY <1>0, <1>9, <1>10, Induct
  <2> QED BY <1>0, <2>1 DEF U
<1>12. ASSUME NEW r \in to .. from PROVE Genuine(f[r]) /\ f[r].rev = r
  <2>1. f[r].rev = r
    <3>1. CASE r = from
      BY <1>1, <3>1 DEF from
    <3>2. CASE r \in to .. from - 1
      BY <1>5, <1>8, <3>2
    <3> QED BY <1>0, <3>1, <3>2
  <2>2. Database(f[r]) /\ Alike(f[r], SchemaAt[r]) /\ r \in 0 .. Newest
    BY <1>0, <1>4, <1>11
  <2> QED BY <2>1, <2>2 DEF Genuine
<1>13. \A r \in to .. from - 1 : f[r] = Down(f[r + 1], r) /\ f[r].ok
  BY <1>0, <1>1, <1>8
<1> QED BY <1>1, <1>12, <1>13 DEF from

LEMMA GenuineDowngrade ==
    ASSUME NEW d, Genuine(d), NEW to \in 0 .. Newest, to <= d.rev, Downgraded(d, to).ok
    PROVE  Genuine(Downgraded(d, to)) /\ Downgraded(d, to).rev = to
<1>1. to \in to .. d.rev
  BY NewestIsNatural DEF Genuine
<1> QED BY <1>1, DowngradeRuns

-----------------------------------------------------------------------------
(* What a statement makes of a row.                                        *)

IsRow(z) == /\ z = [t |-> z.t, val |-> z.val, open |-> z.open, legacy |-> z.legacy]
            /\ z.open \in BOOLEAN

Rows(d) == d.rows = [i \in RowIds |-> d.rows[i]] /\ \A i \in RowIds : IsRow(d.rows[i])

\* Rows stay rows, of their table or gone.
KeepsRows(new, old) ==
    Rows(new) /\ \A i \in RowIds : new.rows[i].t \in {old.rows[i].t, "none"}

\* The statements that leave the rows as they are.
Harmless == {"create", "fill", "require", "optional", "refer", "unrefer", "constrain",
             "release", "allow", "disallow", "widen"}

RowAfter(row, s) ==
    IF row.t # s.t \/ s.op \in Harmless THEN row
    ELSE IF s.op = "drop" THEN NoRow
    ELSE IF s.op = "add"
        THEN IF s.c = CheckedColumn(s.t) THEN [row EXCEPT !.val = s.default] ELSE row
    ELSE IF s.op = "remove"
        THEN IF s.c = CheckedColumn(s.t) THEN [row EXCEPT !.val = "none"] ELSE row
    ELSE IF s.op = "convert"
        THEN IF row.val = s.from THEN [row EXCEPT !.val = s.to] ELSE row
    ELSE IF s.op = "delete" THEN IF row.val = s.val THEN NoRow ELSE row
    ELSE IF row.val \in s.kinds /\ (s.legacyOnly => row.legacy)
        THEN [row EXCEPT !.open = FALSE] ELSE row

LEMMA EffectRows ==
    ASSUME NEW d, Database(d), Rows(d), NEW s
    PROVE  Effect(d, s).rows = [i \in RowIds |-> RowAfter(d.rows[i], s)]
<1>0. /\ DOMAIN d = Fields
      /\ d.rows = [i \in RowIds |-> d.rows[i]]
  BY DEF Database, Rows
<1>1. CASE s.op = "drop"
  <2>1. Effect(d, s).rows = Rewritten(d, s.t, LAMBDA row : NoRow)
    BY <1>0, <1>1 DEF Effect, Fields
  <2> QED BY <1>1, <2>1 DEF Rewritten, RowAfter, Harmless
<1>2. CASE s.op = "add"
  <2>1. CASE s.c = CheckedColumn(s.t)
    <3>1. Effect(d, s).rows = Rewritten(d, s.t, LAMBDA row : [row EXCEPT !.val = s.default])
      BY <1>0, <1>2, <2>1 DEF Effect, Fields
    <3> QED BY <1>2, <2>1, <3>1 DEF Rewritten, RowAfter, Harmless
  <2>2. CASE s.c # CheckedColumn(s.t)
    <3>1. Effect(d, s).rows = d.rows
      BY <1>0, <1>2, <2>2 DEF Effect, Fields
    <3> QED BY <1>0, <1>2, <2>2, <3>1 DEF RowAfter, Harmless
  <2> QED BY <2>1, <2>2
<1>3. CASE s.op = "remove"
  <2>1. CASE s.c = CheckedColumn(s.t)
    <3>1. Effect(d, s).rows = Rewritten(d, s.t, LAMBDA row : [row EXCEPT !.val = "none"])
      BY <1>0, <1>3, <2>1 DEF Effect, Fields
    <3> QED BY <1>3, <2>1, <3>1 DEF Rewritten, RowAfter, Harmless
  <2>2. CASE s.c # CheckedColumn(s.t)
    <3>1. Effect(d, s).rows = d.rows
      BY <1>0, <1>3, <2>2 DEF Effect, Fields
    <3> QED BY <1>0, <1>3, <2>2, <3>1 DEF RowAfter, Harmless
  <2> QED BY <2>1, <2>2
<1>4. CASE s.op = "convert"
  <2>1. Effect(d, s).rows = Rewritten(d, s.t, LAMBDA row :
                                IF row.val = s.from THEN [row EXCEPT !.val = s.to] ELSE row)
    BY <1>0, <1>4 DEF Effect, Fields
  <2> QED BY <1>4, <2>1 DEF Rewritten, RowAfter, Harmless
<1>5. CASE s.op = "delete"
  <2>1. Effect(d, s).rows = Rewritten(d, s.t, LAMBDA row : IF row.val = s.val THEN NoRow ELSE row)
    BY <1>0, <1>5 DEF Effect, Fields
  <2> QED BY <1>5, <2>1 DEF Rewritten, RowAfter, Harmless
<1>6. CASE s.op \notin Harmless \cup {"drop", "add", "remove", "convert", "delete"}
  <2>1. Effect(d, s).rows = Rewritten(d, s.t, LAMBDA row :
                                IF row.val \in s.kinds /\ (s.legacyOnly => row.legacy)
                                    THEN [row EXCEPT !.open = FALSE] ELSE row)
    BY <1>0, <1>6 DEF Effect, Fields, Harmless
  <2> QED BY <1>6, <2>1 DEF Rewritten, RowAfter, Harmless
<1>7. CASE s.op \in Harmless
  <2>1. Effect(d, s).rows = d.rows
    BY <1>0, <1>7 DEF Effect, Fields, Harmless
  <2>2. \A i \in RowIds : RowAfter(d.rows[i], s) = d.rows[i]
    BY <1>7 DEF RowAfter
  <2> QED BY <1>0, <2>1, <2>2
<1> QED BY <1>1, <1>2, <1>3, <1>4, <1>5, <1>6, <1>7

LEMMA RowStaysRow ==
    ASSUME NEW row, IsRow(row), NEW s
    PROVE  /\ IsRow(RowAfter(row, s)) /\ RowAfter(row, s).t \in {row.t, "none"}
BY DEF IsRow, RowAfter, NoRow

LEMMA SameRowAfter ==
    ASSUME NEW y, NEW x, IsRow(y), IsRow(x), SameRow(y, x), NEW s
    PROVE  SameRow(RowAfter(y, s), RowAfter(x, s))
BY DEF IsRow, RowAfter, SameRow, NoRow

-----------------------------------------------------------------------------
(* A row that others follow.                                               *)

\* e has the schema of d and nothing but rows like its row i, whose work may
\* still be open.
Follows(d, e, i) ==
    /\ Database(d) /\ Database(e) /\ Rows(d) /\ Rows(e)
    /\ Alike(d, e) /\ e.wide = TRUE
    /\ \A j \in RowIds : SameRow(d.rows[i], e.rows[j])

LEMMA EffectKeepsRows ==
    ASSUME NEW d, Database(d), Rows(d), NEW s
    PROVE  KeepsRows(Effect(d, s), d)
<1>1. Effect(d, s).rows = [i \in RowIds |-> RowAfter(d.rows[i], s)]
  BY EffectRows
<1>2. \A i \in RowIds : /\ IsRow(RowAfter(d.rows[i], s))
                       /\ RowAfter(d.rows[i], s).t \in {d.rows[i].t, "none"}
  BY RowStaysRow DEF Rows
<1> QED BY <1>1, <1>2 DEF Rows, KeepsRows

LEMMA EffectFollows ==
    ASSUME NEW i \in RowIds, NEW d, NEW e, Follows(d, e, i), NEW s
    PROVE  Follows(Effect(d, s), Effect(e, s), i)
<1>1. /\ Database(Effect(d, s)) /\ Database(Effect(e, s))
      /\ Rows(Effect(d, s)) /\ Rows(Effect(e, s))
      /\ Alike(Effect(d, s), Effect(e, s))
  BY EffectIsDatabase, EffectKeepsRows, EffectAlike DEF Follows, KeepsRows
<1>2. Effect(e, s).wide = TRUE
  BY EffectIsDatabase DEF Follows
<1>3. ASSUME NEW j \in RowIds PROVE SameRow(Effect(d, s).rows[i], Effect(e, s).rows[j])
  <2>1. /\ Effect(d, s).rows = [k \in RowIds |-> RowAfter(d.rows[k], s)]
        /\ Effect(e, s).rows = [k \in RowIds |-> RowAfter(e.rows[k], s)]
    BY EffectRows DEF Follows
  <2>2. SameRow(RowAfter(d.rows[i], s), RowAfter(e.rows[j], s))
    BY SameRowAfter DEF Follows, Rows
  <2> QED BY <2>1, <2>2
<1> QED BY <1>1, <1>2, <1>3 DEF Follows

\* What PostgreSQL accepts on d it accepts on rows that all are like one of d's.
LEMMA AcceptedFollows ==
    ASSUME NEW i \in RowIds, NEW d, NEW e, Follows(d, e, i), NEW s, Accepted(d, s)
    PROVE  Accepted(e, s)
<1>1. \A f \in Fields \ {"rows", "wide"} : d[f] = e[f]
  BY DEF Follows, Alike
<1>2. \A j \in RowIds : e.rows[j].t = d.rows[i].t /\ e.rows[j].val = d.rows[i].val
  BY DEF Follows, SameRow
<1>3. CASE s.op = "require"
  BY <1>1, <1>2, <1>3 DEF Accepted, Unfilled, RowsOf, Fields
<1>4. CASE s.op = "allow"
  BY <1>1, <1>2, <1>4 DEF Accepted, RowsOf, Fields
<1>5. CASE s.op \notin {"require", "allow"}
  BY <1>1, <1>5 DEF Accepted, Fields
<1> QED BY <1>3, <1>4, <1>5

LEMMA AttemptKeepsRows ==
    ASSUME NEW d, Database(d), Rows(d), NEW s
    PROVE  KeepsRows(Attempt(d, s), d)
<1>1. CASE d.ok /\ Accepted(d, s)
  BY <1>1, EffectKeepsRows DEF Attempt
<1>2. CASE ~(d.ok /\ Accepted(d, s))
  BY <1>2 DEF Attempt, Database, Fields, Rows, KeepsRows
<1> QED BY <1>1, <1>2

LEMMA AttemptFollows ==
    ASSUME NEW i \in RowIds, NEW d, NEW e, Follows(d, e, i), NEW s, Attempt(d, s).ok
    PROVE  Attempt(e, s).ok /\ Follows(Attempt(d, s), Attempt(e, s), i)
<1>1. d.ok /\ Accepted(d, s)
  BY DEF Attempt, Follows, Database, Fields
<1>2. e.ok /\ Accepted(e, s)
  BY <1>1, AcceptedFollows DEF Follows, Alike, Fields
<1>3. Attempt(d, s) = Effect(d, s) /\ Attempt(e, s) = Effect(e, s)
  BY <1>1, <1>2 DEF Attempt
<1>4. Effect(e, s).ok
  BY <1>2, EffectIsDatabase DEF Follows
<1> QED BY <1>3, <1>4, EffectFollows

LEMMA ExecuteFollows ==
    ASSUME NEW i \in RowIds, NEW d, NEW e, Follows(d, e, i), NEW script, Len(script) \in Nat,
           Execute(d, script).ok
    PROVE  Execute(e, script).ok /\ Follows(Execute(d, script), Execute(e, script), i)
<1> DEFINE N == Len(script)
<1>1. PICK f : /\ f[0] = d
               /\ \A k \in 1 .. N : f[k] = Attempt(f[k - 1], script[k])
               /\ Execute(d, script) = f[N]
  BY ExecuteSteps
<1>2. PICK g : /\ g[0] = e
               /\ \A k \in 1 .. N : g[k] = Attempt(g[k - 1], script[k])
               /\ Execute(e, script) = g[N]
  BY ExecuteSteps
<1>3. \A k \in 0 .. N : f[k].ok
  BY <1>1, ExecuteIsDatabase DEF Follows
<1> DEFINE S == {k \in Nat : k <= N => g[k].ok /\ Follows(f[k], g[k], i)}
<1>4. 0 \in S
  <2>1. d.ok = e.ok /\ d.ok /\ 0 \in 0 .. N
    BY <1>1, <1>3 DEF Follows, Alike, Fields
  <2> QED BY <1>1, <1>2, <2>1
<1>5. ASSUME NEW k \in Nat, k \in S PROVE k + 1 \in S
  <2>1. CASE k + 1 <= N
    <3>1. Follows(f[k], g[k], i) /\ k + 1 \in 1 .. N /\ k + 1 \in 0 .. N /\ (k + 1) - 1 = k
      BY <1>5, <2>1
    <3>2. f[k + 1] = Attempt(f[k], script[k + 1]) /\ g[k + 1] = Attempt(g[k], script[k + 1])
      BY <1>1, <1>2, <3>1
    <3>3. f[k + 1].ok
      BY <1>3, <3>1
    <3> QED BY <3>1, <3>2, <3>3, AttemptFollows
  <2> QED BY <2>1
<1> HIDE DEF S
<1>6. N \in S
  BY <1>4, <1>5, Induct
<1> QED BY <1>1, <1>2, <1>6 DEF S

LEMMA ExecuteKeepsRows ==
    ASSUME NEW d, Database(d), Rows(d), NEW script, Len(script) \in Nat
    PROVE  KeepsRows(Execute(d, script), d)
<1> DEFINE N == Len(script)
<1>1. PICK f : /\ f[0] = d
               /\ \A k \in 1 .. N : f[k] = Attempt(f[k - 1], script[k])
               /\ Execute(d, script) = f[N]
  BY ExecuteSteps
<1>2. \A k \in 0 .. N : Database(f[k])
  BY <1>1, ExecuteIsDatabase
<1> DEFINE S == {k \in Nat : k <= N => KeepsRows(f[k], d)}
<1>3. 0 \in S
  BY <1>1 DEF KeepsRows
<1>4. ASSUME NEW k \in Nat, k \in S PROVE k + 1 \in S
  <2>1. CASE k + 1 <= N
    <3>1. KeepsRows(f[k], d) /\ k \in 0 .. N /\ k + 1 \in 1 .. N /\ (k + 1) - 1 = k
      BY <1>4, <2>1
    <3>2. f[k + 1] = Attempt(f[k], script[k + 1]) /\ Database(f[k]) /\ Rows(f[k])
      BY <1>1, <1>2, <3>1 DEF KeepsRows
    <3>3. KeepsRows(f[k + 1], f[k])
      BY <3>2, AttemptKeepsRows
    <3> QED BY <3>1, <3>3 DEF KeepsRows
  <2> QED BY <2>1
<1> HIDE DEF S
<1>5. N \in S
  BY <1>3, <1>4, Induct
<1> QED BY <1>1, <1>5 DEF S

LEMMA RecordKeepsRows ==
    ASSUME NEW d, Database(d), Rows(d), NEW r
    PROVE  KeepsRows(Record(d, r), d) /\ Record(d, r).rows = d.rows
BY DEF Record, Database, Fields, Rows, KeepsRows

LEMMA RecordFollows ==
    ASSUME NEW i \in RowIds, NEW d, NEW e, Follows(d, e, i), NEW r, Record(d, r).ok
    PROVE  Record(e, r).ok /\ Follows(Record(d, r), Record(e, r), i)
<1>1. Database(d) /\ Database(e) /\ DOMAIN e = Fields
  BY DEF Follows, Database
<1>2. d.ok /\ e.ok
  BY <1>1, RecordIsDatabase DEF Follows, Alike, Fields
<1>3. Record(e, r) = [e EXCEPT !.rev = r]
  BY DEF Record, Follows
<1>4. Record(e, r).ok /\ Record(e, r).wide = TRUE
  BY <1>1, <1>2, <1>3 DEF Follows, Fields
<1>5. Database(Record(d, r)) /\ Database(Record(e, r))
  BY <1>1, RecordIsDatabase
<1>6. Alike(Record(d, r), Record(e, r))
  BY <1>4, RecordAlike DEF Follows
<1>7. /\ Rows(Record(d, r)) /\ Record(d, r).rows = d.rows
      /\ Rows(Record(e, r)) /\ Record(e, r).rows = e.rows
  BY RecordKeepsRows DEF Follows, KeepsRows
<1> QED BY <1>4, <1>5, <1>6, <1>7 DEF Follows

LEMMA UpFollows ==
    ASSUME NEW i \in RowIds, NEW d, NEW e, Follows(d, e, i), NEW r \in 1 .. Newest, Up(d, r).ok
    PROVE  Up(e, r).ok /\ Follows(Up(d, r), Up(e, r), i)
<1>1. Len(Revisions[r].up) \in Nat /\ Database(d)
  BY ScriptsAreFinite DEF Follows
<1>2. Execute(d, Revisions[r].up).ok
  BY <1>1, ExecuteSucceeds, RecordIsDatabase DEF Up
<1> QED BY <1>1, <1>2, ExecuteFollows, RecordFollows DEF Up

LEMMA DownFollows ==
    ASSUME NEW i \in RowIds, NEW d, NEW e, Follows(d, e, i), NEW r \in 0 .. Newest - 1,
           Down(d, r).ok
    PROVE  Down(e, r).ok /\ Follows(Down(d, r), Down(e, r), i)
<1>1. Len(Revisions[r + 1].down) \in Nat /\ Database(d)
  BY ScriptsAreFinite DEF Follows
<1>2. Execute(d, Revisions[r + 1].down).ok
  BY <1>1, ExecuteSucceeds, RecordIsDatabase DEF Down
<1> QED BY <1>1, <1>2, ExecuteFollows, RecordFollows DEF Down

LEMMA UpKeepsRows ==
    ASSUME NEW d, Database(d), Rows(d), NEW r \in 1 .. Newest
    PROVE  KeepsRows(Up(d, r), d)
<1>1. Database(Execute(d, Revisions[r].up)) /\ KeepsRows(Execute(d, Revisions[r].up), d)
  BY ScriptsAreFinite, ExecuteSucceeds, ExecuteKeepsRows
<1> QED BY <1>1, RecordKeepsRows DEF Up, KeepsRows

LEMMA DownKeepsRows ==
    ASSUME NEW d, Database(d), Rows(d), NEW r \in 0 .. Newest - 1
    PROVE  KeepsRows(Down(d, r), d)
<1>1. /\ Database(Execute(d, Revisions[r + 1].down))
      /\ KeepsRows(Execute(d, Revisions[r + 1].down), d)
  BY ScriptsAreFinite, ExecuteSucceeds, ExecuteKeepsRows
<1> QED BY <1>1, RecordKeepsRows DEF Down, KeepsRows

-----------------------------------------------------------------------------
(* The rows of a revision.                                                 *)

\* Followed rows are such as the revision stores.
RowsStored(d) ==
    Rows(d) /\ \A i \in RowIds : d.rows[i].t \in Followed => d.rows[i] \in Shapes(d.rev)

LEMMA ShapesAreRows ==
    ASSUME NEW r, NEW x \in Shapes(r)
    PROVE  IsRow(x) /\ x.t \in Followed /\ x.t # "none"
BY DEF Shapes, IsRow, Followed

LEMMA ShapeIsSame ==
    ASSUME NEW r, NEW x \in Shapes(r), NEW y, IsRow(y), SameRow(y, x)
    PROVE  y \in Shapes(r)
<1>1. PICK w \in {v \in Storable(SchemaAt[r]) : v[1] \in Followed}, o \in BOOLEAN, l \in BOOLEAN :
          x = [t |-> w[1], val |-> w[2], open |-> o, legacy |-> l]
  BY DEF Shapes
<1>2. y = [t |-> w[1], val |-> w[2], open |-> y.open, legacy |-> l] /\ y.open \in BOOLEAN
  BY <1>1 DEF IsRow, SameRow
<1> QED BY <1>2 DEF Shapes

LEMMA SameRowTransitive ==
    ASSUME NEW z, NEW y, NEW x, SameRow(z, y), SameRow(y, x)
    PROVE  SameRow(z, x)
BY DEF SameRow

LEMMA FilledFollows ==
    ASSUME NEW d, Genuine(d), Rows(d), NEW i \in RowIds, NEW x, IsRow(x), SameRow(d.rows[i], x)
    PROVE  Follows(d, Filled(d.rev, x), i)
<1> DEFINE c == SchemaAt[d.rev]
           e == Filled(d.rev, x)
<1>1. Database(c) /\ DOMAIN c = Fields /\ Database(d) /\ Alike(d, c)
  BY SchemasAreDatabases DEF Genuine, Database
<1>2. e = [c EXCEPT !.wide = TRUE, !.rows = [j \in RowIds |-> x]]
  BY DEF Filled
<1> HIDE DEF c, e
<1>3. /\ Database(e) /\ e.wide = TRUE /\ e.rows = [j \in RowIds |-> x]
      /\ \A f \in Fields \ {"rows", "wide"} : e[f] = c[f]
  BY <1>1, <1>2 DEF Database, Fields
<1>4. Rows(e)
  BY <1>3 DEF Rows
<1> QED BY <1>1, <1>3, <1>4 DEF Follows, Alike, e

\* One revision up: a followed row becomes one of that revision, which its
\* downgrade makes what it was.
LEMMA RowsGoUp ==
    ASSUME NEW r \in 1 .. Newest, NEW d, Genuine(d), d.rev = r - 1, Rows(d), Up(d, r).ok,
           NEW i \in RowIds, NEW x \in Shapes(r - 1), SameRow(d.rows[i], x)
    PROVE  \E y \in Shapes(r) : /\ SameRow(Up(d, r).rows[i], y)
                               /\ SameRow(Down(Filled(r, y), r - 1).rows[i], x)
<1> DEFINE e == Filled(r - 1, x)
<1>1. Follows(d, e, i)
  BY FilledFollows, ShapesAreRows
<1>2. Follows(Up(d, r), Up(e, r), i)
  BY <1>1, UpFollows
<1>3. /\ Up(e, r).rows[i] \in Shapes(r)
      /\ SameRow(Down(Filled(r, Up(e, r).rows[i]), r - 1).rows[i], x)
  BY RowsAssumption DEF Newest
<1>4. SameRow(Up(d, r).rows[i], Up(e, r).rows[i])
  BY <1>2 DEF Follows
<1> QED BY <1>3, <1>4

\* One revision down: a row like y becomes like what y becomes.
LEMMA RowsGoDown ==
    ASSUME NEW r \in 0 .. Newest - 1, NEW d, Genuine(d), d.rev = r + 1, Rows(d), Down(d, r).ok,
           NEW i \in RowIds, NEW y \in Shapes(r + 1), SameRow(d.rows[i], y)
    PROVE  /\ Down(Filled(r + 1, y), r).ok
           /\ SameRow(Down(d, r).rows[i], Down(Filled(r + 1, y), r).rows[i])
<1> DEFINE e == Filled(r + 1, y)
<1>1. Follows(d, e, i)
  BY FilledFollows, ShapesAreRows
<1>2. Down(e, r).ok /\ Follows(Down(d, r), Down(e, r), i)
  BY <1>1, DownFollows
<1> QED BY <1>2 DEF Follows

LEMMA StoredUp ==
    ASSUME NEW r \in 1 .. Newest, NEW d, Genuine(d), d.rev = r - 1, RowsStored(d),
           Up(d, r).ok
    PROVE  RowsStored(Up(d, r))
<1>1. KeepsRows(Up(d, r), d) /\ Up(d, r).rev = r
  BY UpKeepsRows, UpIsDatabase DEF RowsStored, Genuine
<1>2. ASSUME NEW i \in RowIds, Up(d, r).rows[i].t \in Followed
      PROVE  Up(d, r).rows[i] \in Shapes(r)
  <2>1. d.rows[i].t \in Followed
    BY <1>1, <1>2 DEF KeepsRows, Followed
  <2>2. d.rows[i] \in Shapes(r - 1) /\ SameRow(d.rows[i], d.rows[i])
    BY <2>1 DEF RowsStored, SameRow
  <2>3. PICK y \in Shapes(r) : SameRow(Up(d, r).rows[i], y)
    BY <2>2, RowsGoUp DEF RowsStored
  <2> QED BY <1>1, <2>3, ShapeIsSame DEF KeepsRows, Rows
<1> QED BY <1>1, <1>2 DEF RowsStored, KeepsRows

LEMMA StoredDown ==
    ASSUME NEW r \in 0 .. Newest - 1, NEW d, Genuine(d), d.rev = r + 1, RowsStored(d),
           Down(d, r).ok
    PROVE  RowsStored(Down(d, r))
<1>0. r + 1 \in 1 .. Newest /\ (r + 1) - 1 = r
  BY NewestIsNatural
<1>1. KeepsRows(Down(d, r), d) /\ Down(d, r).rev = r
  BY DownKeepsRows, DownIsDatabase DEF RowsStored, Genuine
<1>2. ASSUME NEW i \in RowIds, Down(d, r).rows[i].t \in Followed
      PROVE  Down(d, r).rows[i] \in Shapes(r)
  <2>1. d.rows[i].t \in Followed
    BY <1>1, <1>2 DEF KeepsRows, Followed
  <2> DEFINE y == d.rows[i]
             down == Down(Filled(r + 1, y), r)
  <2>2. y \in Shapes(r + 1) /\ SameRow(y, y)
    BY <2>1 DEF RowsStored, SameRow
  <2>3. down.ok /\ SameRow(Down(d, r).rows[i], down.rows[i])
    BY <2>2, RowsGoDown DEF RowsStored
  <2>4. down.rows[i].t \in Followed
    BY <1>2, <2>3 DEF SameRow
  <2>5. down.rows[i] \in Shapes(r)
    BY <1>0, <2>2, <2>3, <2>4, RowsAssumption DEF Newest
  <2> QED BY <1>1, <2>3, <2>5, ShapeIsSame DEF KeepsRows, Rows
<1> QED BY <1>1, <1>2 DEF RowsStored, KeepsRows

\* The row f[from] as it goes up from revision to revision, and what the
\* downgrade of each of them makes of it.
WayBack(f, from, to, i) ==
    /\ \A r \in from .. to : f[r] \in Shapes(r)
    /\ \A r \in from .. to - 1 : SameRow(Down(Filled(r + 1, f[r + 1]), r).rows[i], f[r])

LEMMA WayUp ==
    ASSUME NEW d, Genuine(d), RowsStored(d), NEW to \in 0 .. Newest, d.rev <= to,
           Upgraded(d, to).ok
    PROVE  /\ RowsStored(Upgraded(d, to)) /\ KeepsRows(Upgraded(d, to), d)
           /\ \A i \in RowIds, x \in Shapes(d.rev) : SameRow(d.rows[i], x) =>
                 \E g : /\ g[d.rev] = x /\ WayBack(g, d.rev, to, i)
                       /\ SameRow(Upgraded(d, to).rows[i], g[to])
<1> DEFINE from == d.rev
<1>0. from \in Nat /\ to \in Nat /\ from <= to /\ Newest \in Nat /\ to <= Newest
  BY NewestIsNatural DEF Genuine
<1>1. PICK f : /\ f[from] = d /\ Upgraded(d, to) = f[to]
               /\ \A r \in from .. to : Genuine(f[r]) /\ f[r].rev = r
               /\ \A r \in from + 1 .. to : f[r] = Up(f[r - 1], r) /\ f[r].ok
  BY UpgradeRuns
<1>2. RowsStored(f[from]) /\ KeepsRows(f[from], d)
  BY <1>1 DEF RowsStored, KeepsRows
<1> HIDE DEF from
<1>3. ASSUME NEW n \in Nat, from + (n + 1) <= to
      PROVE  /\ from + (n + 1) \in 1 .. Newest /\ (from + (n + 1)) - 1 = from + n
             /\ Genuine(f[from + n]) /\ f[from + n].rev = from + n
             /\ f[from + (n + 1)] = Up(f[from + n], from + (n + 1))
             /\ Up(f[from + n], from + (n + 1)).ok
  <2> DEFINE r == from + (n + 1)
  <2>1. r \in from + 1 .. to /\ r - 1 \in from .. to /\ r \in 1 .. Newest /\ r - 1 = from + n
    BY <1>0, <1>3
  <2> HIDE DEF r
  <2>2. f[r] = Up(f[r - 1], r) /\ f[r].ok /\ Genuine(f[r - 1]) /\ f[r - 1].rev = r - 1
    BY <1>1, <2>1
  <2> QED BY <2>1, <2>2 DEF r
<1> DEFINE S == {n \in Nat : from + n <= to =>
                   RowsStored(f[from + n]) /\ KeepsRows(f[from + n], d)}
<1>4. 0 \in S
  BY <1>0, <1>2
<1>5. ASSUME NEW n \in Nat, n \in S PROVE n + 1 \in S
  <2>1. CASE from + (n + 1) <= to
    <3>1. RowsStored(f[from + n]) /\ KeepsRows(f[from + n], d)
      BY <1>0, <1>5, <2>1
    <3>2. RowsStored(f[from + (n + 1)])
      BY <1>3, <2>1, <3>1, StoredUp
    <3>3. KeepsRows(f[from + (n + 1)], f[from + n])
      BY <1>3, <2>1, <3>1, UpKeepsRows DEF KeepsRows, Genuine
    <3>4. KeepsRows(f[from + (n + 1)], d)
      BY <3>1, <3>3 DEF KeepsRows
    <3> QED BY <3>2, <3>4
  <2> QED BY <2>1
<1> HIDE DEF S
<1>6. ASSUME NEW r \in from .. to PROVE RowsStored(f[r]) /\ KeepsRows(f[r], d)
  <2>1. r - from \in S /\ from + (r - from) = r
    BY <1>0, <1>4, <1>5, Induct
  <2> QED BY <1>0, <2>1 DEF S
<1>7. ASSUME NEW i \in RowIds, NEW x \in Shapes(from), SameRow(d.rows[i], x)
      PROVE  \E g : g[from] = x /\ WayBack(g, from, to, i) /\ SameRow(f[to].rows[i], g[to])
  <2> DEFINE Way(g, r) == /\ DOMAIN g = from .. r /\ g[from] = x
                          /\ WayBack(g, from, r, i) /\ SameRow(f[r].rows[i], g[r])
             T == {n \in Nat : from + n <= to => \E g : Way(g, from + n)}
  <2>1. 0 \in T
    <3> DEFINE g == [r \in from .. from |-> x]
    <3>1. g[from] = x /\ from + 0 = from
      BY <1>0
    <3>2. WayBack(g, from, from, i)
      BY <1>0, <1>7, <3>1 DEF WayBack
    <3>3. Way(g, from)
      BY <1>1, <1>7, <3>1, <3>2
    <3> HIDE DEF Way, g
    <3> QED BY <3>1, <3>3
  <2>2. ASSUME NEW n \in Nat, n \in T PROVE n + 1 \in T
    <3>1. CASE from + (n + 1) <= to
      <4> DEFINE m == from + n
      <4>0. m \in Nat /\ from <= m /\ from + (n + 1) = m + 1 /\ m + 1 <= to /\ m \in from .. to
        BY <1>0, <3>1
      <4>1. /\ m + 1 \in 1 .. Newest /\ (m + 1) - 1 = m
            /\ Genuine(f[m]) /\ f[m].rev = m /\ f[m + 1] = Up(f[m], m + 1) /\ Up(f[m], m + 1).ok
        BY <1>3, <3>1, <4>0
      <4>2. PICK g : Way(g, m)
        BY <2>2, <4>0
      <4> HIDE DEF m
      <4>3. g[m] \in Shapes(m) /\ SameRow(f[m].rows[i], g[m]) /\ Rows(f[m])
        BY <1>6, <4>0, <4>2 DEF WayBack, RowsStored
      <4>4. PICK y \in Shapes(m + 1) : /\ SameRow(Up(f[m], m + 1).rows[i], y)
                                      /\ SameRow(Down(Filled(m + 1, y), m).rows[i], g[m])
        BY <4>1, <4>3, RowsGoUp
      <4> DEFINE h == [r \in from .. m + 1 |-> IF r = m + 1 THEN y ELSE g[r]]
      <4>5. /\ DOMAIN h = from .. m + 1 /\ h[from] = x /\ h[m + 1] = y
            /\ \A r \in from .. m : h[r] = g[r]
        BY <1>0, <4>0, <4>2
      <4> HIDE DEF h
      <4>6. ASSUME NEW r \in from .. m + 1 PROVE h[r] \in Shapes(r)
        BY <1>0, <4>0, <4>2, <4>4, <4>5, <4>6 DEF WayBack
      <4>7. ASSUME NEW r \in from .. (m + 1) - 1
            PROVE  SameRow(Down(Filled(r + 1, h[r + 1]), r).rows[i], h[r])
        <5>1. CASE r = m
          BY <4>0, <4>4, <4>5, <5>1
        <5>2. CASE r # m
          <6>1. r \in from .. m - 1 /\ r \in from .. m /\ r + 1 \in from .. m
            BY <1>0, <4>0, <5>2
          <6> QED BY <4>2, <4>5, <6>1 DEF WayBack
        <5> QED BY <5>1, <5>2
      <4>8. WayBack(h, from, m + 1, i)
        BY <4>6, <4>7 DEF WayBack
      <4>9. Way(h, m + 1)
        BY <4>1, <4>4, <4>5, <4>8
      <4> HIDE DEF Way
      <4> QED BY <4>0, <4>9
    <3> QED BY <3>1
  <2> HIDE DEF T
  <2>3. to - from \in T /\ from + (to - from) = to /\ to - from \in Nat
    BY <1>0, <2>1, <2>2, Induct
  <2>4. PICK g : Way(g, to)
    <3> HIDE DEF Way
    <3> QED BY <1>0, <2>3 DEF T
  <2> QED BY <2>4
<1>8. RowsStored(f[to]) /\ KeepsRows(f[to], d)
  BY <1>0, <1>6
<1> QED BY <1>1, <1>7, <1>8 DEF from

LEMMA WayDown ==
    ASSUME NEW d, Genuine(d), RowsStored(d), NEW to \in 0 .. Newest, to <= d.rev,
           Downgraded(d, to).ok
    PROVE  /\ RowsStored(Downgraded(d, to))
           /\ \A i \in RowIds : \A g : WayBack(g, to, d.rev, i) /\ SameRow(d.rows[i], g[d.rev])
                                   => SameRow(Downgraded(d, to).rows[i], g[to])
<1> DEFINE from == d.rev
<1>0. from \in Nat /\ to \in Nat /\ to <= from /\ Newest \in Nat /\ from <= Newest
  BY NewestIsNatural DEF Genuine
<1>1. PICK f : /\ f[from] = d /\ Downgraded(d, to) = f[to]
               /\ \A r \in to .. from : Genuine(f[r]) /\ f[r].rev = r
               /\ \A r \in to .. from - 1 : f[r] = Down(f[r + 1], r) /\ f[r].ok
  BY DowngradeRuns
<1>2. RowsStored(f[from])
  BY <1>1
<1> HIDE DEF from
<1>3. ASSUME NEW n \in Nat, to <= from - (n + 1)
      PROVE  /\ from - (n + 1) \in 0 .. Newest - 1 /\ (from - (n + 1)) + 1 = from - n
             /\ Genuine(f[from - n]) /\ f[from - n].rev = from - n
             /\ f[from - (n + 1)] = Down(f[from - n], from - (n + 1))
             /\ Down(f[from - n], from - (n + 1)).ok
  <2> DEFINE r == from - (n + 1)
  <2>1. /\ r \in to .. from - 1 /\ r + 1 \in to .. from /\ r \in 0 .. Newest - 1
        /\ r + 1 = from - n
    BY <1>0, <1>3
  <2> HIDE DEF r
  <2>2. f[r] = Down(f[r + 1], r) /\ f[r].ok /\ Genuine(f[r + 1]) /\ f[r + 1].rev = r + 1
    BY <1>1, <2>1
  <2> QED BY <2>1, <2>2 DEF r
<1> DEFINE S == {n \in Nat : to <= from - n => RowsStored(f[from - n])}
<1>4. 0 \in S
  BY <1>0, <1>2
<1>5. ASSUME NEW n \in Nat, n \in S PROVE n + 1 \in S
  <2>1. CASE to <= from - (n + 1)
    <3>1. RowsStored(f[from - n])
      BY <1>0, <1>5, <2>1
    <3> QED BY <1>3, <2>1, <3>1, StoredDown
  <2> QED BY <2>1
<1> HIDE DEF S
<1>6. ASSUME NEW r \in to .. from PROVE RowsStored(f[r])
  <2>1. from - r \in S /\ from - (from - r) = r
    BY <1>0, <1>4, <1>5, Induct
  <2> QED BY <1>0, <2>1 DEF S
<1>7. ASSUME NEW i \in RowIds, NEW g, WayBack(g, to, from, i), SameRow(d.rows[i], g[from])
      PROVE  SameRow(f[to].rows[i], g[to])
  <2> DEFINE T == {n \in Nat : to <= from - n => SameRow(f[from - n].rows[i], g[from - n])}
  <2>1. 0 \in T
    BY <1>0, <1>1, <1>7
  <2>2. ASSUME NEW n \in Nat, n \in T PROVE n + 1 \in T
    <3>1. CASE to <= from - (n + 1)
      <4> DEFINE r == from - (n + 1)
      <4>1. /\ r \in 0 .. Newest - 1 /\ r + 1 = from - n
            /\ r \in to .. from - 1 /\ r + 1 \in to .. from
        BY <1>0, <3>1
      <4>2. /\ Genuine(f[r + 1]) /\ f[r + 1].rev = r + 1
            /\ f[r] = Down(f[r + 1], r) /\ Down(f[r + 1], r).ok
        BY <1>3, <3>1, <4>1
      <4>3. SameRow(f[r + 1].rows[i], g[r + 1])
        BY <1>0, <2>2, <3>1, <4>1
      <4> HIDE DEF r
      <4>4. g[r + 1] \in Shapes(r + 1) /\ Rows(f[r + 1])
        BY <1>6, <1>7, <4>1 DEF WayBack, RowsStored
      <4>5. SameRow(f[r].rows[i], Down(Filled(r + 1, g[r + 1]), r).rows[i])
        BY <4>1, <4>2, <4>3, <4>4, RowsGoDown
      <4>6. SameRow(Down(Filled(r + 1, g[r + 1]), r).rows[i], g[r])
        BY <1>7, <4>1 DEF WayBack
      <4>7. SameRow(f[r].rows[i], g[r])
        BY <4>5, <4>6, SameRowTransitive
      <4> QED BY <4>7 DEF r
    <3> QED BY <3>1
  <2> HIDE DEF T
  <2>3. from - to \in T /\ from - (from - to) = to
    BY <1>0, <2>1, <2>2, Induct
  <2> QED BY <1>0, <2>3 DEF T
<1>8. RowsStored(f[to])
  BY <1>0, <1>6
<1> QED BY <1>1, <1>7, <1>8 DEF from

-----------------------------------------------------------------------------
(* The switch and its rollback.                                            *)

\* Releases in place, and a plan made of two of them.
ReleasesKnown ==
    /\ unit \in Releases /\ current \in Releases /\ server \in Releases \cup {0}
    /\ plan # NoPlan => /\ plan.prior \in Releases /\ plan.target \in Releases
                        /\ plan.prior # plan.target /\ plan.schema = HeadOf[plan.prior]
    /\ phase # "idle" => plan # NoPlan

\* The rehearsal let through what can be upgraded only.
GoesUp ==
    \/ phase \notin {"idle", "prepared"}
    \/ phase = "idle" /\ plan # NoPlan /\ current = plan.target
    => plan.schema <= HeadOf[plan.target]

\* Where the schema, the unit file and the link stand in each phase.
InStep ==
    /\ phase = "idle" => unit = current /\ db.rev = HeadOf[current]
    /\ phase \in {"prepared", "rehearsed", "configured"} =>
           unit = plan.prior /\ current = plan.prior /\ db.rev = plan.schema
    /\ phase \in {"replaced", "stopped", "dumped"} => unit = plan.target /\ db.rev = plan.schema
    /\ phase \in {"migrated", "switched", "restarted"} =>
           unit = plan.target /\ db.rev = HeadOf[plan.target]
    /\ phase \in {"rollback", "rbStopped", "interrupted"} =>
           db.rev \in {plan.schema, HeadOf[plan.target]}
    /\ phase \in {"rbDowngraded", "rbRestored"} => db.rev = plan.schema
    /\ phase = "rbRestored" => unit = plan.prior /\ current = plan.prior

\* No server runs while the schema moves.
Quiet ==
    phase \in {"stopped", "dumped", "migrated", "switched",
               "rbStopped", "rbDowngraded", "rbRestored", "refused"} => server = 0

DeployInv ==
    Genuine(db) /\ ReleasesKnown /\ GoesUp /\ InStep /\ Quiet /\ ServerMatchesSchema

LEMMA HeadsAreRevisions ==
    \A r \in Releases : HeadOf[r] \in Nat /\ HeadOf[r] \in 0 .. Newest /\ r # 0
BY DeploymentAssumption, NewestIsNatural DEF DeploymentAssumption, Releases, Newest

LEMMA InitDeployInv == Init => DeployInv
<1> SUFFICES ASSUME Init PROVE DeployInv
  OBVIOUS
<1>1. current \in Releases /\ db = SchemaAt[HeadOf[current]] /\ HeadOf[current] \in 0 .. Newest
  BY HeadsAreRevisions DEF Init
<1>2. Database(db) /\ db.rev = HeadOf[current]
  BY <1>1, SchemasAreDatabases
<1>3. Genuine(db)
  BY <1>1, <1>2 DEF Genuine, Alike
<1>4. ReleasesKnown /\ GoesUp /\ InStep /\ Quiet /\ ServerMatchesSchema
  BY <1>1, <1>2 DEF Init, ReleasesKnown, GoesUp, InStep, Quiet, ServerMatchesSchema
<1> QED BY <1>3, <1>4 DEF DeployInv

\* A request changes rows only.
LEMMA RowsStep ==
    ASSUME Genuine(db), NEW i \in RowIds, Write(i) \/ Close(i)
    PROVE  Genuine(db') /\ db'.rev = db.rev
<1>0. DOMAIN db = Fields
  BY DEF Genuine, Database
<1>1. \E rows : db' = [db EXCEPT !.rows = rows]
  BY DEF Write, Close
<1>2. PICK rows : db' = [db EXCEPT !.rows = rows]
  BY <1>1
<1>3. Database(db')
  BY <1>0, <1>2 DEF Database, Fields
<1>4. \A f \in Fields \ {"rows", "wide"} : db'[f] = db[f]
  BY <1>0, <1>2 DEF Fields
<1>5. db'.rev = db.rev
  BY <1>4 DEF Fields
<1> QED BY <1>3, <1>4, <1>5 DEF Genuine, Alike

LEMMA ServedStep ==
    ASSUME DeployInv, NEW i \in RowIds, Write(i) \/ Close(i)
    PROVE  DeployInv'
<1>1. UNCHANGED <<server, current, unit, phase, plan, disturbed>>
  BY DEF Write, Close
<1>2. Genuine(db') /\ db'.rev = db.rev
  BY RowsStep DEF DeployInv
<1> QED BY <1>1, <1>2
        DEF DeployInv, ReleasesKnown, GoesUp, InStep, Quiet, ServerMatchesSchema

\* Steps of the script and of the host that leave the database alone.
LEMMA StillStep ==
    ASSUME DeployInv,
           \/ \E r \in Releases : Backup(r)
           \/ Rehearse \/ Configure \/ ReplaceUnit \/ Stop \/ Snapshot \/ SwitchLink
           \/ Restart \/ Verify \/ Fail \/ RollbackStop \/ RollbackFiles \/ RollbackRestart
           \/ Reboot \/ OperatorRollback
    PROVE  DeployInv'
<1>0. UNCHANGED db => Genuine(db')
  BY DEF DeployInv
<1>1. ASSUME NEW r \in Releases, Backup(r) PROVE DeployInv'
  <2>1. plan' # NoPlan
    BY <1>1, HeadsAreRevisions DEF Backup, NoPlan, DeployInv, ReleasesKnown
  <2> QED BY <1>0, <1>1, <2>1
          DEF Backup, DeployInv, ReleasesKnown, GoesUp, InStep, Quiet, ServerMatchesSchema
<1>2. CASE Rehearse
  BY <1>0, <1>2, HeadsAreRevisions
     DEF Rehearse, Rehearsed, DeployInv, ReleasesKnown, GoesUp, InStep, Quiet, ServerMatchesSchema
<1>3. CASE Configure
  BY <1>0, <1>3
     DEF Configure, DeployInv, ReleasesKnown, GoesUp, InStep, Quiet, ServerMatchesSchema
<1>4. CASE ReplaceUnit
  BY <1>0, <1>4
     DEF ReplaceUnit, DeployInv, ReleasesKnown, GoesUp, InStep, Quiet, ServerMatchesSchema
<1>5. CASE Stop
  BY <1>0, <1>5 DEF Stop, DeployInv, ReleasesKnown, GoesUp, InStep, Quiet, ServerMatchesSchema
<1>6. CASE Snapshot
  BY <1>0, <1>6
     DEF Snapshot, DeployInv, ReleasesKnown, GoesUp, InStep, Quiet, ServerMatchesSchema
<1>7. CASE SwitchLink
  BY <1>0, <1>7
     DEF SwitchLink, DeployInv, ReleasesKnown, GoesUp, InStep, Quiet, ServerMatchesSchema
<1>8. CASE Restart
  BY <1>0, <1>8 DEF Restart, DeployInv, ReleasesKnown, GoesUp, InStep, Quiet, ServerMatchesSchema
<1>9. CASE Verify
  BY <1>0, <1>9 DEF Verify, DeployInv, ReleasesKnown, GoesUp, InStep, Quiet, ServerMatchesSchema
<1>10. CASE Fail
  <2>1. \/ phase \in {"prepared", "rehearsed"} /\ phase' = "idle"
        \/ phase \in Mutated /\ phase' = "rollback"
    BY <1>10 DEF Fail, Mutated
  <2>2. CASE phase \in {"prepared", "rehearsed"} /\ phase' = "idle"
    BY <1>0, <1>10, <2>2
       DEF Fail, DeployInv, ReleasesKnown, GoesUp, InStep, Quiet, ServerMatchesSchema
  <2>3. CASE phase \in Mutated /\ phase' = "rollback"
    BY <1>0, <1>10, <2>3
       DEF Fail, Mutated, DeployInv, ReleasesKnown, GoesUp, InStep, Quiet, ServerMatchesSchema
  <2> QED BY <2>1, <2>2, <2>3
<1>11. CASE RollbackStop
  BY <1>0, <1>11
     DEF RollbackStop, DeployInv, ReleasesKnown, GoesUp, InStep, Quiet, ServerMatchesSchema
<1>12. CASE RollbackFiles
  BY <1>0, <1>12
     DEF RollbackFiles, DeployInv, ReleasesKnown, GoesUp, InStep, Quiet, ServerMatchesSchema
<1>13. CASE RollbackRestart
  BY <1>0, <1>13
     DEF RollbackRestart, DeployInv, ReleasesKnown, GoesUp, InStep, Quiet, ServerMatchesSchema
<1>14. CASE Reboot
  <2>1. \/ phase \in {"prepared", "rehearsed"} /\ phase \notin Mutated /\ phase' = "idle"
        \/ phase \in Mutated /\ phase' = "interrupted"
    BY <1>14 DEF Reboot, Mutated
  <2>2. CASE phase \in {"prepared", "rehearsed"} /\ phase \notin Mutated /\ phase' = "idle"
    BY <1>0, <1>14, <2>2
       DEF Reboot, DeployInv, ReleasesKnown, GoesUp, InStep, Quiet, ServerMatchesSchema
  <2>3. CASE phase \in Mutated /\ phase' = "interrupted"
    BY <1>0, <1>14, <2>3
       DEF Reboot, Mutated, DeployInv, ReleasesKnown, GoesUp, InStep, Quiet, ServerMatchesSchema
  <2> QED BY <2>1, <2>2, <2>3
<1>15. CASE OperatorRollback
  BY <1>0, <1>15
     DEF OperatorRollback, DeployInv, ReleasesKnown, GoesUp, InStep, Quiet, ServerMatchesSchema
<1> QED BY <1>1, <1>2, <1>3, <1>4, <1>5, <1>6, <1>7, <1>8, <1>9, <1>10, <1>11, <1>12, <1>13,
           <1>14, <1>15

LEMMA MigrateStep ==
    ASSUME DeployInv, Migrate
    PROVE  DeployInv'
<1> DEFINE to == HeadOf[plan.target]
           up == Upgraded(db, to)
<1>1. Genuine(db) /\ to \in 0 .. Newest /\ db.rev <= to
  BY HeadsAreRevisions DEF Migrate, DeployInv, ReleasesKnown, GoesUp, InStep
<1>2. up.ok => Genuine(up) /\ up.rev = to
  BY <1>1, GenuineUpgrade
<1>3. \/ up.ok /\ db' = up /\ phase' = "migrated"
      \/ UNCHANGED db /\ phase' = "rollback"
  BY DEF Migrate
<1>4. phase = "dumped" /\ UNCHANGED <<server, current, unit, plan, disturbed>>
  BY DEF Migrate
<1> HIDE DEF up
<1>5. CASE up.ok /\ db' = up /\ phase' = "migrated"
  BY <1>2, <1>4, <1>5
     DEF DeployInv, ReleasesKnown, GoesUp, InStep, Quiet, ServerMatchesSchema
<1>6. CASE UNCHANGED db /\ phase' = "rollback"
  BY <1>1, <1>4, <1>6
     DEF DeployInv, ReleasesKnown, GoesUp, InStep, Quiet, ServerMatchesSchema
<1> QED BY <1>3, <1>5, <1>6

LEMMA RollbackStep ==
    ASSUME DeployInv, RollbackSchema
    PROVE  DeployInv'
<1> DEFINE to == plan.schema
           down == Downgraded(db, to)
<1>1. Genuine(db) /\ to \in 0 .. Newest /\ to <= db.rev
  BY HeadsAreRevisions, NewestIsNatural
     DEF RollbackSchema, DeployInv, ReleasesKnown, GoesUp, InStep
<1>2. down.ok => Genuine(down) /\ down.rev = to
  BY <1>1, GenuineDowngrade
<1>3. \/ down.ok /\ db' = down /\ phase' = "rbDowngraded"
      \/ UNCHANGED db /\ phase' = "refused"
  BY DEF RollbackSchema
<1>4. phase = "rbStopped" /\ UNCHANGED <<server, current, unit, plan, disturbed>>
  BY DEF RollbackSchema
<1> HIDE DEF down
<1>5. CASE down.ok /\ db' = down /\ phase' = "rbDowngraded"
  BY <1>2, <1>4, <1>5
     DEF DeployInv, ReleasesKnown, GoesUp, InStep, Quiet, ServerMatchesSchema
<1>6. CASE UNCHANGED db /\ phase' = "refused"
  BY <1>1, <1>4, <1>6
     DEF DeployInv, ReleasesKnown, GoesUp, InStep, Quiet, ServerMatchesSchema
<1> QED BY <1>3, <1>5, <1>6

LEMMA NextDeployInv == DeployInv /\ [Next]_vars => DeployInv'
<1> SUFFICES ASSUME DeployInv, [Next]_vars PROVE DeployInv'
  OBVIOUS
<1>1. CASE UNCHANGED vars
  BY <1>1
     DEF vars, DeployInv, ReleasesKnown, GoesUp, InStep, Quiet, ServerMatchesSchema
<1>2. CASE \E i \in RowIds : Write(i) \/ Close(i)
  BY <1>2, ServedStep
<1>3. CASE Migrate
  BY <1>3, MigrateStep
<1>4. CASE RollbackSchema
  BY <1>4, RollbackStep
<1>5. CASE ~(Migrate \/ RollbackSchema) /\ (Script \/ Reboot \/ OperatorRollback)
  BY <1>5, StillStep DEF Script
<1>6. CASE \E r \in Releases : Backup(r)
  BY <1>6, StillStep
<1> QED BY <1>1, <1>2, <1>3, <1>4, <1>5, <1>6 DEF Next

\* switch-release.sh and its rollback script: the schema, the unit file and the
\* link are in step in every phase, whatever fails and whenever the host stops.
THEOREM SwitchConsistent == Spec => []DeployInv
BY InitDeployInv, NextDeployInv, PTL DEF Spec

\* A running service finds the schema it was written for, for all releases and
\* any number of switches, failures and rollbacks (a restart of the host in the
\* middle of a switch excepted, until the rollback has run).
THEOREM ServersMatch == Spec => []ServerMatchesSchema
<1>1. DeployInv => ServerMatchesSchema
  BY DEF DeployInv
<1> QED BY <1>1, SwitchConsistent, PTL

\* Whatever upgrades, downgrades and repeated upgrades made of a database with
\* whatever rows, it has the schema of its revision: enough that this holds of
\* each revision alone on a database without rows (RevisionsAssumption).
THEOREM SchemasAreOfTheirRevision == Spec => []SchemaOfRevision
<1>1. DeployInv => SchemaOfRevision
  <2> SUFFICES ASSUME DeployInv PROVE SchemaOfRevision
    OBVIOUS
  <2>1. Genuine(db)
    BY DEF DeployInv
  <2>2. Database(db) /\ Database(SchemaAt[db.rev])
    BY <2>1, SchemasAreDatabases DEF Genuine
  <2> QED BY <2>1, <2>2, SchemaIsAlike DEF SchemaOfRevision, Genuine
<1> QED BY <1>1, SwitchConsistent, PTL

-----------------------------------------------------------------------------
(* The rows across a switch and its rollback.                              *)

\* A rollback may run, or be asked for.
Planned == plan # NoPlan /\ (phase # "idle" \/ current = plan.target)

\* Row i is the one of the dump, brought to the revision the database has now.
Traced(i) ==
    \E g : /\ g[plan.schema] = dump.rows[i]
          /\ WayBack(g, plan.schema, db.rev, i)
          /\ SameRow(db.rows[i], g[db.rev])

RowsInv ==
    /\ RowsStored(db)
    /\ Planned => /\ plan.schema <= db.rev
                  /\ \A i \in RowIds : dump.rows[i].t \in Followed => Traced(i)

\* A row of the revision the plan began with is on its way at the start of it.
LEMMA TraceBegins ==
    ASSUME NEW a \in Nat, NEW i \in RowIds, NEW x \in Shapes(a)
    PROVE  \E g : g[a] = x /\ WayBack(g, a, a, i) /\ SameRow(x, g[a])
<1> DEFINE g == [r \in {a} |-> x]
<1>1. g[a] = x /\ SameRow(x, x)
  BY DEF SameRow
<1>2. WayBack(g, a, a, i)
  BY DEF WayBack
<1> HIDE DEF g
<1> QED BY <1>1, <1>2

LEMMA StorableAlike ==
    ASSUME NEW d, NEW e, Alike(d, e)
    PROVE  Storable(d) = Storable(e)
BY DEF Alike, Fields, Storable

LEMMA InitRowsInv == Init => RowsInv
<1> SUFFICES ASSUME Init PROVE RowsInv
  OBVIOUS
<1>1. plan = NoPlan /\ db = SchemaAt[HeadOf[current]] /\ HeadOf[current] \in 0 .. Newest
  BY HeadsAreRevisions DEF Init
<1>2. ASSUME NEW r \in 0 .. Newest
      PROVE  Rows(SchemaAt[r]) /\ \A i \in RowIds : SchemaAt[r].rows[i].t = "none"
  <2> DEFINE S == {n \in Nat : n <= Newest =>
                     Rows(SchemaAt[n]) /\ \A i \in RowIds : SchemaAt[n].rows[i].t = "none"}
  <2>1. 0 \in S
    <3>1. Empty.rows = [i \in RowIds |-> NoRow] /\ IsRow(NoRow) /\ NoRow.t = "none"
      BY DEF Empty, IsRow, NoRow
    <3> QED BY <3>1, SchemasFollow DEF Rows
  <2>2. ASSUME NEW n \in Nat, n \in S PROVE n + 1 \in S
    <3>1. CASE n + 1 <= Newest
      <4>1. n + 1 \in 1 .. Newest /\ n \in 0 .. Newest /\ (n + 1) - 1 = n
        BY <3>1, NewestIsNatural
      <4>2. /\ SchemaAt[n + 1] = Up(SchemaAt[n], n + 1) /\ Database(SchemaAt[n])
            /\ Rows(SchemaAt[n]) /\ \A i \in RowIds : SchemaAt[n].rows[i].t = "none"
        BY <2>2, <3>1, <4>1, SchemasFollow, SchemasAreDatabases
      <4>3. KeepsRows(SchemaAt[n + 1], SchemaAt[n])
        BY <4>1, <4>2, UpKeepsRows
      <4> QED BY <4>2, <4>3 DEF KeepsRows
    <3> QED BY <3>1
  <2> HIDE DEF S
  <2>3. r \in S
    BY <2>1, <2>2, Induct, NewestIsNatural
  <2> QED BY <2>3, NewestIsNatural DEF S
<1> QED BY <1>1, <1>2 DEF RowsInv, RowsStored, Planned, Followed

\* A service writes where no row is, rows of its schema, and ends work.
LEMMA ServedRows ==
    ASSUME DeployInv, RowsInv, NEW k \in RowIds, Write(k) \/ Close(k)
    PROVE  RowsInv'
<1>1. UNCHANGED <<phase, plan, current, dump>>
  BY DEF Write, Close
<1>2. Genuine(db) /\ Rows(db) /\ db'.rev = db.rev
  BY RowsStep DEF DeployInv, RowsInv, RowsStored
<1>3. DOMAIN db = Fields /\ db.rows = [i \in RowIds |-> db.rows[i]]
  BY <1>2 DEF Genuine, Database, Rows
<1>4. CASE Write(k)
  <2>1. PICK w \in Storable(db), old \in BOOLEAN :
            db' = [db EXCEPT !.rows[k] = [t |-> w[1], val |-> w[2],
                                          open |-> w[1] = "task_assignments", legacy |-> old]]
    BY <1>4 DEF Write
  <2> DEFINE new == [t |-> w[1], val |-> w[2], open |-> w[1] = "task_assignments", legacy |-> old]
  <2>2. db'.rows = [i \in RowIds |-> IF i = k THEN new ELSE db.rows[i]]
    BY <1>3, <2>1 DEF Fields
  <2>3. IsRow(new)
    BY DEF IsRow
  <2>4. new.t \in Followed => new \in Shapes(db.rev)
    <3>1. w \in Storable(SchemaAt[db.rev])
      BY <1>2, <2>1, StorableAlike DEF Genuine
    <3>2. new = [t |-> w[1], val |-> w[2], open |-> new.open, legacy |-> old]
      OBVIOUS
    <3>3. new.open \in BOOLEAN /\ new.t = w[1]
      OBVIOUS
    <3> HIDE DEF new
    <3> QED BY <3>1, <3>2, <3>3 DEF Shapes
  <2> HIDE DEF new
  <2>5. RowsStored(db')
    BY <1>2, <2>2, <2>3, <2>4 DEF RowsStored, Rows, RowsInv
  <2>6. ASSUME Planned, NEW i \in RowIds, dump.rows[i].t \in Followed
        PROVE  Traced(i)'
    <3>1. PICK g : /\ g[plan.schema] = dump.rows[i] /\ WayBack(g, plan.schema, db.rev, i)
                   /\ SameRow(db.rows[i], g[db.rev])
      BY <2>6 DEF RowsInv, Traced
    <3>2. g[db.rev] \in Shapes(db.rev)
      <4>1. plan.schema \in Nat /\ db.rev \in Nat /\ plan.schema <= db.rev
        BY <1>2, <2>6, HeadsAreRevisions, NewestIsNatural
           DEF RowsInv, Planned, DeployInv, ReleasesKnown, Genuine
      <4>2. db.rev \in plan.schema .. db.rev
        BY <4>1
      <4> QED BY <3>1, <4>2 DEF WayBack
    <3>3. i # k
      BY <1>4, <3>1, <3>2, ShapesAreRows DEF Write, NoRow, SameRow
    <3>4. db'.rows[i] = db.rows[i]
      BY <2>2, <3>3
    <3> QED BY <1>1, <1>2, <3>1, <3>4 DEF Traced
  <2> QED BY <1>1, <1>2, <2>5, <2>6 DEF RowsInv, Planned
<1>5. CASE Close(k)
  <2> DEFINE new == [db.rows[k] EXCEPT !.open = FALSE]
  <2>1. db'.rows = [i \in RowIds |-> IF i = k THEN new ELSE db.rows[i]]
    BY <1>3, <1>5 DEF Close, Fields
  <2>2. IsRow(new) /\ SameRow(new, db.rows[k])
    <3>1. IsRow(db.rows[k])
      BY <1>2 DEF Rows
    <3>2. new = [db.rows[k] EXCEPT !.open = FALSE]
      OBVIOUS
    <3> HIDE DEF new
    <3>3. /\ new = [t |-> new.t, val |-> new.val, open |-> new.open, legacy |-> new.legacy]
          /\ new.open = FALSE /\ new.t = db.rows[k].t /\ new.val = db.rows[k].val
          /\ new.legacy = db.rows[k].legacy
      BY <3>1, <3>2 DEF IsRow
    <3> QED BY <3>3 DEF IsRow, SameRow
  <2> HIDE DEF new
  <2>3. new.t \in Followed => new \in Shapes(db.rev)
    BY <2>2, ShapeIsSame DEF RowsInv, RowsStored, SameRow
  <2>4. RowsStored(db')
    BY <1>2, <2>1, <2>2, <2>3 DEF RowsStored, Rows, RowsInv
  <2>5. ASSUME Planned, NEW i \in RowIds, dump.rows[i].t \in Followed
        PROVE  Traced(i)'
    <3>1. PICK g : /\ g[plan.schema] = dump.rows[i] /\ WayBack(g, plan.schema, db.rev, i)
                   /\ SameRow(db.rows[i], g[db.rev])
      BY <2>5 DEF RowsInv, Traced
    <3>2. SameRow(db'.rows[i], g[db.rev])
      BY <2>1, <2>2, <3>1, SameRowTransitive
    <3> QED BY <1>1, <1>2, <3>1, <3>2 DEF Traced
  <2> QED BY <1>1, <1>2, <2>4, <2>5 DEF RowsInv, Planned
<1> QED BY <1>4, <1>5

\* The dump is taken of the schema the plan goes back to.
LEMMA DumpRows ==
    ASSUME RowsStored(db), db.rev \in Nat, UNCHANGED db, plan'.schema = db.rev, dump' = db
    PROVE  RowsInv'
<1>1. ASSUME NEW i \in RowIds, db.rows[i].t \in Followed
      PROVE  \E g : /\ g[db.rev] = db.rows[i] /\ WayBack(g, db.rev, db.rev, i)
                   /\ SameRow(db.rows[i], g[db.rev])
  BY <1>1, TraceBegins DEF RowsStored
<1>2. \A i \in RowIds : db.rows[i].t \in Followed => Traced(i)'
  BY <1>1 DEF Traced
<1> QED BY <1>2 DEF RowsInv

LEMMA MigrateRows ==
    ASSUME DeployInv, RowsInv, Migrate
    PROVE  RowsInv'
<1> DEFINE to == HeadOf[plan.target]
           up == Upgraded(db, to)
<1>1. Genuine(db) /\ RowsStored(db) /\ to \in 0 .. Newest /\ db.rev <= to
  BY HeadsAreRevisions DEF Migrate, DeployInv, ReleasesKnown, GoesUp, InStep, RowsInv
<1>2. /\ phase = "dumped" /\ plan # NoPlan /\ db.rev = plan.schema
      /\ UNCHANGED <<plan, dump, current>>
  BY DEF Migrate, DeployInv, ReleasesKnown, InStep
<1>3. \/ up.ok /\ db' = up
      \/ UNCHANGED db
  BY DEF Migrate
<1>4. CASE UNCHANGED db
  BY <1>2, <1>4 DEF RowsInv, Planned, Traced
<1>5. CASE up.ok /\ db' = up
  <2>1. /\ RowsStored(up) /\ up.rev = to
        /\ \A i \in RowIds, x \in Shapes(db.rev) : SameRow(db.rows[i], x) =>
              \E g : /\ g[db.rev] = x /\ WayBack(g, db.rev, to, i)
                    /\ SameRow(up.rows[i], g[to])
    BY <1>1, <1>5, WayUp, GenuineUpgrade
  <2>2. ASSUME NEW i \in RowIds, dump.rows[i].t \in Followed PROVE Traced(i)'
    <3>1. dump.rows[i] \in Shapes(db.rev) /\ SameRow(db.rows[i], dump.rows[i])
      <4>1. PICK g : /\ g[db.rev] = dump.rows[i] /\ WayBack(g, db.rev, db.rev, i)
                     /\ SameRow(db.rows[i], g[db.rev])
        BY <1>2, <2>2 DEF RowsInv, Planned, Traced
      <4>2. db.rev \in db.rev .. db.rev
        BY <1>1, NewestIsNatural DEF Genuine
      <4> QED BY <4>1, <4>2 DEF WayBack
    <3>2. PICK g : /\ g[db.rev] = dump.rows[i] /\ WayBack(g, db.rev, to, i)
                   /\ SameRow(up.rows[i], g[to])
      BY <2>1, <3>1
    <3> HIDE DEF up, to
    <3> QED BY <1>2, <1>5, <2>1, <3>2 DEF Traced
  <2> HIDE DEF up, to
  <2> QED BY <1>1, <1>2, <1>5, <2>1, <2>2 DEF RowsInv
<1> QED BY <1>3, <1>4, <1>5

LEMMA RollbackRows ==
    ASSUME DeployInv, RowsInv, RollbackSchema
    PROVE  RowsInv'
<1> DEFINE to == plan.schema
           down == Downgraded(db, to)
<1>1. Genuine(db) /\ RowsStored(db) /\ to \in 0 .. Newest /\ to <= db.rev
  BY HeadsAreRevisions, NewestIsNatural
     DEF RollbackSchema, DeployInv, ReleasesKnown, GoesUp, InStep, RowsInv
<1>2. phase = "rbStopped" /\ plan # NoPlan /\ UNCHANGED <<plan, dump, current>>
  BY DEF RollbackSchema, DeployInv, ReleasesKnown
<1>3. \/ down.ok /\ db' = down
      \/ UNCHANGED db
  BY DEF RollbackSchema
<1>4. CASE UNCHANGED db
  BY <1>2, <1>4 DEF RowsInv, Planned, Traced
<1>5. CASE down.ok /\ db' = down
  <2>1. RowsStored(down) /\ down.rev = to
    BY <1>1, <1>5, WayDown, GenuineDowngrade
  <2>2. ASSUME NEW i \in RowIds, dump.rows[i].t \in Followed PROVE Traced(i)'
    <3>1. PICK g : /\ g[to] = dump.rows[i] /\ WayBack(g, to, db.rev, i)
                   /\ SameRow(db.rows[i], g[db.rev])
      BY <1>2, <2>2 DEF RowsInv, Planned, Traced
    <3>2. SameRow(down.rows[i], g[to])
      BY <1>1, <1>5, <3>1, WayDown
    <3>3. WayBack(g, to, to, i)
      BY <1>1, <3>1, NewestIsNatural DEF WayBack, Genuine
    <3> HIDE DEF down
    <3> QED BY <1>2, <1>5, <2>1, <3>1, <3>2, <3>3 DEF Traced
  <2>3. to <= to
    BY <1>1, NewestIsNatural
  <2> HIDE DEF down
  <2> QED BY <1>2, <1>5, <2>1, <2>2, <2>3 DEF RowsInv
<1> QED BY <1>3, <1>4, <1>5

\* Every other step leaves the database, the dump and the plan alone, and needs
\* the rollback only where it was needed before.
LEMMA StillRows ==
    ASSUME DeployInv, RowsInv,
           \/ Rehearse \/ Configure \/ ReplaceUnit \/ Stop \/ SwitchLink
           \/ Restart \/ Verify \/ Fail \/ RollbackStop \/ RollbackFiles \/ RollbackRestart
           \/ Reboot \/ OperatorRollback
    PROVE  RowsInv'
<1>1. UNCHANGED <<db, dump, plan>>
  BY DEF Rehearse, Configure, ReplaceUnit, Stop, SwitchLink, Restart, Verify, Fail,
         RollbackStop, RollbackFiles, RollbackRestart, Reboot, OperatorRollback
<1>2. Planned' => Planned
  BY DEF Planned, DeployInv, ReleasesKnown, Rehearse, Configure, ReplaceUnit, Stop, SwitchLink,
         Restart, Verify, Fail, RollbackStop, RollbackFiles, RollbackRestart, Reboot,
         OperatorRollback, Mutated
<1> QED BY <1>1, <1>2 DEF RowsInv, Traced

LEMMA NextRowsInv == DeployInv /\ RowsInv /\ [Next]_vars => RowsInv'
<1> SUFFICES ASSUME DeployInv, RowsInv, [Next]_vars PROVE RowsInv'
  OBVIOUS
<1>1. CASE UNCHANGED vars
  BY <1>1 DEF vars, RowsInv, Planned, Traced
<1>2. CASE \E i \in RowIds : Write(i) \/ Close(i)
  BY <1>2, ServedRows
<1>3. CASE \E r \in Releases : Backup(r)
  BY <1>3, DumpRows, NewestIsNatural DEF Backup, RowsInv, DeployInv, Genuine
<1>4. CASE Snapshot
  BY <1>4, DumpRows, NewestIsNatural DEF Snapshot, RowsInv, DeployInv, Genuine, InStep
<1>5. CASE Migrate
  BY <1>5, MigrateRows
<1>6. CASE RollbackSchema
  BY <1>6, RollbackRows
<1>7. CASE \/ Rehearse \/ Configure \/ ReplaceUnit \/ Stop \/ SwitchLink
           \/ Restart \/ Verify \/ Fail \/ RollbackStop \/ RollbackFiles \/ RollbackRestart
           \/ Reboot \/ OperatorRollback
  BY <1>7, StillRows
<1> QED BY <1>1, <1>2, <1>3, <1>4, <1>5, <1>6, <1>7 DEF Next, Script

\* Rows, their schema and the dump agree at every step of every switch: what the
\* prior release had stored can be brought back to what it was.
THEOREM RowsTraced == Spec => []RowsInv
BY InitDeployInv, NextDeployInv, InitRowsInv, NextRowsInv, PTL DEF Spec

\* A rollback gives the prior release its assignments and wake channels back, as
\* they were stored when the switch began, and no ended work is open again.
THEOREM RollbacksKeepRows == Spec => []RollbackKeepsRows
<1>1. DeployInv /\ RowsInv => RollbackKeepsRows
  <2> SUFFICES ASSUME DeployInv, RowsInv, phase \in {"rbDowngraded", "rbRestored"},
                      NEW i \in RowIds, dump.rows[i].t \in Followed
               PROVE  SameRow(db.rows[i], dump.rows[i])
    BY DEF RollbackKeepsRows, SameRow, Followed
  <2>1. db.rev = plan.schema /\ Planned
    BY DEF DeployInv, InStep, ReleasesKnown, Planned
  <2> QED BY <2>1 DEF RowsInv, Traced
<1> QED BY <1>1, SwitchConsistent, RowsTraced, PTL

-----------------------------------------------------------------------------
(* The dump of a switch.                                                   *)

\* From the dump to the migration nothing is written.
DumpInv == (phase = "dumped" => dump.rows = db.rows) /\ SnapshotHoldsAll

LEMMA NextDumpInv == DeployInv /\ RowsInv /\ DumpInv /\ [Next]_vars => DumpInv'
<1> SUFFICES ASSUME DeployInv, RowsInv, DumpInv, [Next]_vars PROVE DumpInv'
  OBVIOUS
<1>1. CASE UNCHANGED vars
  BY <1>1 DEF vars, DumpInv, SnapshotHoldsAll
<1>2. CASE \E i \in RowIds : Write(i) \/ Close(i)
  <2>1. phase \notin {"dumped", "migrated", "switched"} /\ UNCHANGED phase
    BY <1>2 DEF Write, Close, DeployInv, Quiet
  <2> QED BY <2>1 DEF DumpInv, SnapshotHoldsAll
<1>3. CASE Snapshot
  BY <1>3 DEF Snapshot, DumpInv, SnapshotHoldsAll
<1>4. CASE Migrate
  <2> DEFINE to == HeadOf[plan.target]
             up == Upgraded(db, to)
  <2>1. Genuine(db) /\ RowsStored(db) /\ to \in 0 .. Newest /\ db.rev <= to
    BY <1>4, HeadsAreRevisions DEF Migrate, DeployInv, ReleasesKnown, GoesUp, InStep, RowsInv
  <2>2. up.ok => KeepsRows(up, db)
    BY <2>1, WayUp
  <2>3. /\ dump' = dump /\ dump.rows = db.rows
        /\ \/ up.ok /\ db' = up /\ phase' = "migrated"
           \/ phase' = "rollback"
    BY <1>4 DEF Migrate, DumpInv
  <2> HIDE DEF up
  <2> QED BY <2>2, <2>3 DEF KeepsRows, DumpInv, SnapshotHoldsAll
<1>5. CASE SwitchLink
  BY <1>5 DEF SwitchLink, DumpInv, SnapshotHoldsAll
<1>6. CASE (\E r \in Releases : Backup(r)) \/ RollbackSchema
  BY <1>6 DEF Backup, RollbackSchema, DumpInv, SnapshotHoldsAll
<1>7. CASE \/ Rehearse \/ Configure \/ ReplaceUnit \/ Stop
           \/ Restart \/ Verify \/ Fail \/ RollbackStop \/ RollbackFiles \/ RollbackRestart
           \/ Reboot \/ OperatorRollback
  <2>1. phase' \notin {"dumped", "migrated", "switched"}
    BY <1>7 DEF Rehearse, Configure, ReplaceUnit, Stop, Restart, Verify, Fail, RollbackStop,
                RollbackFiles, RollbackRestart, Reboot, OperatorRollback
  <2> QED BY <2>1 DEF DumpInv, SnapshotHoldsAll
<1> QED BY <1>1, <1>2, <1>3, <1>4, <1>5, <1>6, <1>7 DEF Next, Script

\* The second dump of the switch misses no row: it is taken after the last old
\* writer has stopped, and what the migration makes are those same rows.
THEOREM SnapshotsHoldAll == Spec => []SnapshotHoldsAll
<1>1. Init => DumpInv
  BY DEF Init, DumpInv, SnapshotHoldsAll
<1>2. DumpInv => SnapshotHoldsAll
  BY DEF DumpInv
<1> QED BY <1>1, <1>2, SwitchConsistent, RowsTraced, NextDumpInv, PTL DEF Spec
=============================================================================
