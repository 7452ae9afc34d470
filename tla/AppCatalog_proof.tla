-------------------------- MODULE AppCatalog_proof --------------------------
(***************************************************************************)
(* Proofs about AppCatalog: its types, that what is created is complete    *)
(* and that what is deployed is whole.  Both rest on the same invariant:   *)
(* the rows of a request are in the tables up to its place in its          *)
(* description, nothing else is under its keys, and no other request's     *)
(* keys are among them.  A profile has components of one description only, *)
(* also where the application is half in.                                  *)
(***************************************************************************)
EXTENDS AppCatalog, TLAPS

\* The requests that have the row of their application in.
Writers == {c \in Callers : pc[c] \in {"insert", "created"} /\ at[c].profile # 0}

\* The profiles of its description that have their row in, and a profile's components.
ProfilesIn(c) ==
  {i \in 1 .. Len(Description(c).profiles) :
     i < at[c].profile \/ (i = at[c].profile /\ 0 < at[c].part)}
PartsIn(c, i) ==
  {j \in 1 .. Len(Description(c).profiles[i].parts) :
     i < at[c].profile \/ (i = at[c].profile /\ j < at[c].part)}

-----------------------------------------------------------------------------
(* The invariants, each of them checked by TLC on the instance of the run. *)

\* A request that has gone past a step has what that step gave it.
StepsInv == \A c \in Callers :
  /\ pc[c] # "new" => want[c] \in Wanted
  /\ pc[c] \in Steps \ ({"new", "set"} \union Ended) => url # None
  /\ pc[c] \in {"insert", "created"} =>
       have[c] \in Registries /\ Description(c) \in Descriptions
  /\ pc[c] = "created" =>
       at[c] = [profile |-> Len(Description(c).profiles) + 1, part |-> 0]

\* No key is there twice, and every row has the row that it is under.
KeysInv == \A x, y \in rows :
  x.table # "component" /\ x.table = y.table /\ x.key = y.key => x = y
ParentInv == \A x \in rows :
  /\ x.table = "profile" => \E y \in rows : y.table = "app" /\ y.key = x.under
  /\ x.table = "component" => \E y \in rows : y.table = "profile" /\ y.key = x.under

\* What a request has written is in the tables.
HeldInv == \A c \in Writers :
  /\ AppRow(Description(c)) \in rows
  /\ \A i \in ProfilesIn(c) :
       /\ ProfileRow(Description(c), i) \in rows
       /\ \A j \in PartsIn(c, i) : PartRow(Description(c), i, j) \in rows

\* Under its keys is nothing else.
OnlyInv == \A c \in Writers, x \in rows :
  /\ x.table = "profile" /\ x.under = Description(c).id =>
       \E i \in ProfilesIn(c) : x = ProfileRow(Description(c), i)
  /\ \A i \in ProfilesIn(c) :
       x.table = "component" /\ x.under = Description(c).profiles[i].id =>
         \E j \in PartsIn(c, i) : x = PartRow(Description(c), i, j)

\* No two applications and no two profiles that are written have one key, whether they
\* are of one request or of two.
ApartInv == \A c, e \in Writers :
  /\ Description(c).id = Description(e).id => c = e
  /\ \A i \in ProfilesIn(c), k \in ProfilesIn(e) :
       Description(c).profiles[i].id = Description(e).profiles[k].id => c = e /\ i = k

\* The components under a profile's key are of the description that it is of, and so is
\* whoever writes them.
IsOf(x, e, i) ==
  /\ ProfileRow(e, i) = x
  /\ \A y \in rows : y.table = "component" /\ y.under = x.key =>
       y.key \in Elements(e.profiles[i].parts)
  /\ \A c \in Writers : \A k \in ProfilesIn(c) :
       Description(c).profiles[k].id = x.key => Description(c) = e /\ k = i
OfOneInv == \A x \in rows : x.table = "profile" =>
  \E e \in Descriptions : \E i \in 1 .. Len(e.profiles) : IsOf(x, e, i)

\* A request for a deployment goes by rows that are there.
ReaderInv == \A d \in Deployers : reader[d] # None =>
  /\ \A c \in reader[d].from : pc[c] = "created" /\ Description(c).id = reader[d].app
  /\ reader[d].step # "app" => \E x \in rows :
       x.table = "profile" /\ x.key = reader[d].profile /\ x.under = reader[d].app

-----------------------------------------------------------------------------
(* The rows of a description and their places.                             *)

LEMMA DescriptionSizes ==
  ASSUME NEW d \in Descriptions
  PROVE  /\ Len(d.profiles) \in Nat
         /\ \A i \in 1 .. Len(d.profiles) : Len(d.profiles[i].parts) \in Nat
  BY CatalogAssumption

\* The row at a place of a description is one of its rows.
LEMMA RowIsOfDescription ==
  ASSUME NEW d \in Descriptions, NEW p \in [profile : Nat, part : Nat], IsPlace(d, p)
  PROVE  RowAt(d, p) \in RowsOf(d) /\ RowAt(d, p) \in AllRows
<1>1. CASE p.profile = 0
  <2>1. RowAt(d, p) = AppRow(d)
    BY <1>1 DEF RowAt
  <2>2. QED
    BY <2>1 DEF RowsOf, AllRows
<1>2. CASE p.profile # 0
  <2>1. p.profile \in 1 .. Len(d.profiles)
    BY <1>2, DescriptionSizes DEF IsPlace
  <2>2. CASE p.part = 0
    <3>1. RowAt(d, p) = ProfileRow(d, p.profile)
      BY <1>2, <2>2 DEF RowAt
    <3>2. QED
      BY <3>1, <2>1 DEF RowsOf, AllRows
  <2>3. CASE p.part # 0
    <3>1. RowAt(d, p) = PartRow(d, p.profile, p.part)
      BY <1>2, <2>3 DEF RowAt
    <3>2. p.part \in 1 .. Len(d.profiles[p.profile].parts)
      BY <1>2, <2>1, <2>3, DescriptionSizes DEF IsPlace, Parts
    <3>3. QED
      BY <3>1, <3>2, <2>1 DEF RowsOf, AllRows
  <2>4. QED
    BY <2>2, <2>3
<1>3. QED
  BY <1>1, <1>2

\* After a place comes another one, or the end.
LEMMA AfterAPlace ==
  ASSUME NEW d \in Descriptions, NEW p \in [profile : Nat, part : Nat], IsPlace(d, p)
  PROVE  /\ After(d, p) \in [profile : Nat, part : Nat]
         /\ After(d, p).profile # 0
         /\ After(d, p).profile <= Len(d.profiles) => IsPlace(d, After(d, p))
         /\ After(d, p).profile > Len(d.profiles) =>
              After(d, p) = [profile |-> Len(d.profiles) + 1, part |-> 0]
<1>1. p.profile \in 0 .. Len(d.profiles) /\ p.part \in 0 .. Parts(d, p.profile)
  BY DEF IsPlace
<1>2. Parts(d, 0) = 0 /\ \A i \in 1 .. Len(d.profiles) : Parts(d, i) \in Nat
  BY DescriptionSizes DEF Parts
<1>3. Parts(d, p.profile) \in Nat /\ Len(d.profiles) \in Nat
  BY <1>1, <1>2, DescriptionSizes
<1>4. CASE p.part < Parts(d, p.profile)
  <2>1. After(d, p) = [profile |-> p.profile, part |-> p.part + 1]
    BY <1>4 DEF After
  <2>2. p.profile # 0
    BY <1>2, <1>4
  <2>3. QED
    BY <1>1, <1>3, <1>4, <2>1, <2>2 DEF IsPlace
<1>5. CASE ~(p.part < Parts(d, p.profile))
  <2>1. After(d, p) = [profile |-> p.profile + 1, part |-> 0]
    BY <1>5 DEF After
  <2>2. p.profile + 1 <= Len(d.profiles) => Parts(d, p.profile + 1) \in Nat
    BY <1>1, <1>2, <1>3
  <2>3. QED
    BY <1>1, <1>3, <2>1, <2>2 DEF IsPlace
<1>6. QED
  BY <1>4, <1>5

-----------------------------------------------------------------------------
(* Types.                                                                  *)

TypeInv == CatalogTypeOK /\ StepsInv

Caches == [of : Registries, state : {"whole", "torn"} \union Callers] \union {None}

LEMMA TypeInit == CatalogInit => TypeInv
  BY CatalogAssumption DEF CatalogInit, TypeInv, CatalogTypeOK, StepsInv, Steps, Ended

\* A step of a request that is between the check for duplicates and the insertions.
LEMMA TypeFetch ==
  ASSUME TypeInv, NEW c \in Callers, NEW s \in Steps \ {"new", "insert", "created"},
         pc[c] # "new", Goto(c, s), UNCHANGED <<want, have, at, rows, reader>>,
         url' \in Registries \union {None}, cache' \in Caches,
         url # None => url' # None, s \in {"set"} \union Ended \/ url' # None
  PROVE  TypeInv'
<1>1. pc' \in [Callers -> Steps] /\ pc' = [pc EXCEPT ![c] = s]
  BY DEF TypeInv, CatalogTypeOK, Goto
<1>2. \A e \in Callers : Description(e)' = Description(e)
  BY DEF Description
<1>3. \A e \in Callers : pc'[e] = IF e = c THEN s ELSE pc[e]
  BY DEF TypeInv, CatalogTypeOK, Goto
<1>4. CatalogTypeOK'
  BY <1>1, <1>2, <1>3 DEF TypeInv, CatalogTypeOK, Caches
<1>5. StepsInv'
  BY <1>2, <1>3 DEF TypeInv, StepsInv
<1>6. QED
  BY <1>4, <1>5 DEF TypeInv

\* A step of a reader changes nothing but what the reader knows.
LEMMA TypeRead ==
  ASSUME TypeInv, UNCHANGED <<fetchVars, pc, want, have, at, rows>>,
         reader' \in [Deployers -> {None} \union
           [step : {"app", "profile", "deployed"}, app : Keys, profile : Keys \union {None},
            parts : SUBSET Keys, from : SUBSET Callers]]
  PROVE  TypeInv'
<1>1. \A e \in Callers : Description(e)' = Description(e)
  BY DEF Description
<1>2. CatalogTypeOK'
  BY <1>1 DEF TypeInv, CatalogTypeOK, fetchVars
<1>3. StepsInv'
  BY <1>1 DEF TypeInv, StepsInv, fetchVars
<1>4. QED
  BY <1>2, <1>3 DEF TypeInv

LEMMA TypeFetches ==
  ASSUME TypeInv, NEW c \in Callers, Fetch(c)
  PROVE  TypeInv'
<1> USE DEF fetchVars, Steps, Ended
<1>1. url \in Registries \union {None} /\ cache \in Caches
  BY DEF TypeInv, CatalogTypeOK, Caches
<1>2. pc[c] \notin {"new", "set"} \union Ended => url # None
  BY DEF TypeInv, CatalogTypeOK, StepsInv
<1>3. cache # None => cache \in [of : Registries, state : {"whole", "torn"} \union Callers]
  BY <1>1 DEF Caches
<1>4. CASE Stat(c)
  <2>1. \E s \in {"clone", "open"} : Goto(c, s)
    BY <1>4 DEF Stat
  <2>2. QED
    BY <1>4, <2>1, <1>1, <1>2, TypeFetch DEF Stat
<1>5. CASE Clone(c)
  <2>1. cache' \in Caches
    BY <1>5, <1>1, <1>2 DEF Clone, Caches
  <2>2. QED
    BY <1>5, <2>1, <1>1, <1>2, TypeFetch DEF Clone
<1>6. CASE CloneMeets(c)
  <2>1. cache' \in Caches
    BY <1>6, <1>1, <1>2, <1>3 DEF CloneMeets, Caches
  <2>2. \E s \in {"failed", "cloning"} : Goto(c, s)
    BY <1>6 DEF CloneMeets
  <2>3. QED
    BY <1>6, <2>1, <2>2, <1>1, <1>2, TypeFetch DEF CloneMeets
<1>7. CASE CloneEnds(c)
  <2>1. cache' \in Caches
    BY <1>7, <1>3 DEF CloneEnds, Undisturbed, Caches
  <2>2. QED
    BY <1>7, <2>1, <1>1, <1>2, TypeFetch DEF CloneEnds
<1>8. CASE CloneEndsTorn(c)
  <2>1. cache' \in Caches
    BY <1>8, <1>1, <1>3 DEF CloneEndsTorn, Caches
  <2>2. QED
    BY <1>8, <2>1, <1>1, <1>2, TypeFetch DEF CloneEndsTorn
<1>9. CASE CloneFails(c)
  <2>1. cache' \in Caches
    BY <1>9, <1>1, <1>3 DEF CloneFails, Undisturbed, Caches
  <2>2. QED
    BY <1>9, <2>1, <1>1, <1>2, TypeFetch DEF CloneFails
<1>10. CASE Open(c)
  <2>1. \E s \in {"pull", "purge"} : Goto(c, s)
    BY <1>10 DEF Open
  <2>2. QED
    BY <1>10, <2>1, <1>1, <1>2, TypeFetch DEF Open
<1>11. CASE Pull(c)
  <2>1. cache' \in Caches
    BY <1>11, <1>1, <1>3 DEF Pull, Caches
  <2>2. QED
    BY <1>11, <2>1, <1>1, <1>2, TypeFetch DEF Pull
<1>12. CASE PullFails(c)
  BY <1>12, <1>1, <1>2, TypeFetch DEF PullFails
<1>13. CASE Purge(c)
  BY <1>13, <1>1, <1>2, TypeFetch DEF Purge, Caches
<1>14. CASE PurgeFails(c)
  <2>1. cache' \in Caches
    BY <1>14, <1>3 DEF PurgeFails, Caches
  <2>2. QED
    BY <1>14, <2>1, <1>1, <1>2, TypeFetch DEF PurgeFails
<1>15. QED
  BY <1>4, <1>5, <1>6, <1>7, <1>8, <1>9, <1>10, <1>11, <1>12, <1>13, <1>14 DEF Fetch

\* The rows that a request inserts.
LEMMA TypeInsert ==
  ASSUME TypeInv, NEW c \in Callers, Insert(c)
  PROVE  TypeInv'
<1> DEFINE d == Description(c)
           q == After(d, at[c])
<1>1. d \in Descriptions /\ IsPlace(d, at[c]) /\ pc[c] = "insert"
  BY DEF Insert, TypeInv, CatalogTypeOK, StepsInv, Steps
<1>2. at[c] \in [profile : Nat, part : Nat]
  BY DEF TypeInv, CatalogTypeOK
<1>3. /\ q \in [profile : Nat, part : Nat]
      /\ q.profile <= Len(d.profiles) => IsPlace(d, q)
      /\ q.profile > Len(d.profiles) => q = [profile |-> Len(d.profiles) + 1, part |-> 0]
  BY <1>1, <1>2, AfterAPlace
<1>4. NextRow(c) \in AllRows
  BY <1>1, <1>2, RowIsOfDescription DEF NextRow
<1>5. \A e \in Callers : Description(e)' = Description(e)
  BY DEF Insert, Description
<1>6. \A e \in Callers : at'[e] = IF e = c THEN q ELSE at[e]
  BY DEF Insert, TypeInv, CatalogTypeOK
<1>7. \A e \in Callers : e # c => pc'[e] = pc[e]
  BY DEF Insert, Goto, TypeInv, CatalogTypeOK
<1>8. /\ IsPast(c, q) => pc'[c] = "created"
      /\ ~IsPast(c, q) => pc'[c] = "insert"
  BY <1>6 DEF Insert, Goto, TypeInv, CatalogTypeOK
<1>9. pc' \in [Callers -> Steps]
  BY DEF Insert, Goto, TypeInv, CatalogTypeOK, Steps, Ended
<1>10. Len(d.profiles) \in Nat
  BY <1>1, DescriptionSizes
<1>11. pc'[c] = "insert" => IsPlace(d, q)
  BY <1>3, <1>8, <1>10 DEF IsPast
<1>12. pc'[c] = "created" => q = [profile |-> Len(d.profiles) + 1, part |-> 0]
  BY <1>3, <1>8, <1>10 DEF IsPast
<1>13. CatalogTypeOK'
  <2>1. at' \in [Callers -> [profile : Nat, part : Nat]]
    BY <1>3 DEF Insert, TypeInv, CatalogTypeOK
  <2>2. rows' \subseteq AllRows
    BY <1>4 DEF Insert, TypeInv, CatalogTypeOK
  <2>3. \A e \in Callers : pc'[e] = "insert" => IsPlace(Description(e), at[e])'
    <3>1. ASSUME NEW e \in Callers, pc'[e] = "insert", e # c
          PROVE  IsPlace(Description(e), at[e])'
      <4>1. IsPlace(Description(e), at[e])
        BY <3>1, <1>7 DEF TypeInv, CatalogTypeOK
      <4>2. QED
        BY <3>1, <4>1, <1>5, <1>6 DEF IsPlace, Parts
    <3>2. ASSUME pc'[c] = "insert"
          PROVE  IsPlace(Description(c), at[c])'
      BY <3>2, <1>5, <1>6, <1>11 DEF IsPlace, Parts
    <3>3. QED
      BY <3>1, <3>2
  <2>4. QED
    BY <1>9, <2>1, <2>2, <2>3 DEF Insert, TypeInv, CatalogTypeOK, fetchVars
<1>14. StepsInv'
  <2>1. ASSUME NEW e \in Callers, e # c
        PROVE  /\ pc'[e] = pc[e] /\ at'[e] = at[e] /\ Description(e)' = Description(e)
               /\ want'[e] = want[e] /\ have'[e] = have[e] /\ url' = url
    BY <2>1, <1>5, <1>6, <1>7 DEF Insert, fetchVars
  <2>2. want'[c] \in Wanted /\ url' # None /\ have'[c] \in Registries
        /\ Description(c)' \in Descriptions
    BY <1>1, <1>5 DEF Insert, fetchVars, TypeInv, StepsInv, Steps, Ended
  <2>3. pc'[c] = "created" =>
          at'[c] = [profile |-> Len(Description(c)'.profiles) + 1, part |-> 0]
    BY <1>5, <1>6, <1>12
  <2>4. QED
    BY <2>1, <2>2, <2>3 DEF TypeInv, StepsInv
<1>15. QED
  BY <1>13, <1>14 DEF TypeInv

LEMMA TypeCreateApp ==
  ASSUME TypeInv, NEW c \in Callers, CreateApp(c)
  PROVE  TypeInv'
<1> USE DEF fetchVars, Steps, Ended
<1>1. url \in Registries \union {None} /\ cache \in Caches
  BY DEF TypeInv, CatalogTypeOK, Caches
<1>2. pc[c] \notin {"new", "set"} \union Ended => url # None
  BY DEF TypeInv, CatalogTypeOK, StepsInv
<1>3. CASE Check(c)
  <2>1. PICK a \in Apps, r \in Registries :
          want' = [want EXCEPT ![c] = [app |-> a, registry |-> r]]
    BY <1>3 DEF Check
  <2>2. PICK s \in {"failed", "rejected", "set"} : Goto(c, s)
    BY <1>3 DEF Check
  <2>3. pc[c] = "new" /\ UNCHANGED <<url, cache, have, at, rows, reader>>
    BY <1>3 DEF Check
  <2>4. \A e \in Callers : e # c => pc'[e] = pc[e] /\ want'[e] = want[e]
    BY <2>1, <2>2 DEF Goto, TypeInv, CatalogTypeOK
  <2>5. pc'[c] = s /\ want'[c] \in Wanted
    BY <2>1, <2>2 DEF Goto, TypeInv, CatalogTypeOK, Wanted
  <2>6. pc' \in [Callers -> Steps] /\ want' \in [Callers -> Wanted \union {None}]
    BY <2>1, <2>2 DEF Goto, TypeInv, CatalogTypeOK, Wanted
  <2>7. \A e \in Callers : e # c => Description(e)' = Description(e)
    BY <2>3, <2>4 DEF Description
  <2>8. CatalogTypeOK'
    BY <2>3, <2>4, <2>5, <2>6, <2>7 DEF TypeInv, CatalogTypeOK
  <2>9. StepsInv'
    BY <2>3, <2>4, <2>5, <2>7 DEF TypeInv, StepsInv
  <2>10. QED
    BY <2>8, <2>9 DEF TypeInv
<1>4. CASE SetUrl(c)
  <2>1. want[c] \in Wanted
    BY <1>4 DEF SetUrl, TypeInv, StepsInv
  <2>2. url' \in Registries /\ url' # None
    BY <1>4, <2>1, CatalogAssumption DEF SetUrl, Wanted
  <2>3. QED
    BY <1>4, <2>2, <1>1, TypeFetch DEF SetUrl
<1>5. CASE Fetch(c)
  BY <1>5, TypeFetches
<1>6. CASE Read(c)
  <2>1. cache \in [of : Registries, state : {"whole", "torn"} \union Callers]
    BY <1>6, <1>1 DEF Read, Caches
  <2>2. want[c] \in Wanted /\ url # None
    BY <1>6, <1>2 DEF Read, TypeInv, StepsInv
  <2>3. cache.of \in Registries /\ want[c].app \in Apps
    BY <2>1, <2>2 DEF Wanted
  <2>4. /\ have'[c] = cache.of /\ at'[c] = [profile |-> 0, part |-> 0]
        /\ pc'[c] = "insert" /\ want'[c] = want[c]
    BY <1>6 DEF Read, Goto, TypeInv, CatalogTypeOK
  <2>5. Description(c)' = Described[cache.of][want[c].app]
    BY <2>4 DEF Description
  <2>6. Description(c)' \in Descriptions
    BY <1>6, <2>3, <2>5 DEF Read, Descriptions
  <2>7. IsPlace(Description(c), at[c])'
    BY <2>4, <2>5, <2>6, DescriptionSizes DEF IsPlace, Parts
  <2>8. \A e \in Callers : e # c =>
          pc'[e] = pc[e] /\ have'[e] = have[e] /\ at'[e] = at[e] /\ want'[e] = want[e]
    BY <1>6 DEF Read, Goto, TypeInv, CatalogTypeOK
  <2>9. \A e \in Callers : e # c => Description(e)' = Description(e)
    BY <2>8 DEF Description
  <2>10. /\ pc' \in [Callers -> Steps] /\ have' \in [Callers -> Registries \union {None}]
         /\ at' \in [Callers -> [profile : Nat, part : Nat]]
    BY <1>6, <2>3 DEF Read, Goto, TypeInv, CatalogTypeOK
  <2>11. \A e \in Callers : pc'[e] = "insert" => IsPlace(Description(e), at[e])'
    BY <2>7, <2>8, <2>9 DEF TypeInv, CatalogTypeOK
  <2>12. CatalogTypeOK'
    BY <1>6, <2>10, <2>11 DEF Read, TypeInv, CatalogTypeOK
  <2>13. url' = url
    BY <1>6 DEF Read
  <2>14. StepsInv'
    BY <2>2, <2>3, <2>4, <2>6, <2>8, <2>9, <2>13 DEF TypeInv, StepsInv
  <2>15. QED
    BY <2>12, <2>14 DEF TypeInv
<1>7. CASE ReadFails(c)
  BY <1>7, <1>1, <1>2, TypeFetch DEF ReadFails
<1>8. CASE Insert(c)
  BY <1>8, TypeInsert
<1>9. CASE InsertFails(c)
  BY <1>9, <1>1, <1>2, TypeFetch DEF InsertFails
<1>10. QED
  BY <1>3, <1>4, <1>5, <1>6, <1>7, <1>8, <1>9 DEF CreateApp

LEMMA TypeCreateDeployment ==
  ASSUME TypeInv, NEW d \in Deployers, CreateDeployment(d)
  PROVE  TypeInv'
<1> DEFINE Reader == [step : {"app", "profile", "deployed"}, app : Keys,
                      profile : Keys \union {None}, parts : SUBSET Keys, from : SUBSET Callers]
<1>1. reader \in [Deployers -> {None} \union Reader] /\ \A x \in rows : x.key \in Keys
  BY DEF TypeInv, CatalogTypeOK, Keys
<1>2. reader[d] # None => reader[d] \in Reader
  BY <1>1
<1>3. CASE FindApp(d)
  <2>1. PICK x \in rows : reader' = [reader EXCEPT ![d] =
          [step |-> "app", app |-> x.key, profile |-> None, parts |-> {},
           from |-> {c \in Callers : pc[c] = "created" /\ Description(c).id = x.key}]]
    BY <1>3 DEF FindApp
  <2>2. reader' \in [Deployers -> {None} \union Reader]
    BY <2>1, <1>1
  <2>3. QED
    BY <1>3, <2>2, TypeRead DEF FindApp
<1>4. CASE FindProfile(d)
  <2>1. PICK x \in rows :
          reader' = [reader EXCEPT ![d].step = "profile", ![d].profile = x.key]
    BY <1>4 DEF FindProfile
  <2>2. [[reader[d] EXCEPT !.step = "profile"] EXCEPT !.profile = x.key] \in Reader
    BY <1>1, <1>2, <1>4 DEF FindProfile
  <2>3. reader' \in [Deployers -> {None} \union Reader]
    BY <2>1, <2>2, <1>1
  <2>4. QED
    BY <1>4, <2>3, TypeRead DEF FindProfile
<1>5. CASE FindComponents(d)
  <2> DEFINE parts ==
        {x.key : x \in {y \in rows : y.table = "component" /\ y.under = reader[d].profile}}
  <2>1. reader' = [reader EXCEPT ![d].step = "deployed", ![d].parts = parts]
    BY <1>5 DEF FindComponents
  <2>2. parts \in SUBSET Keys
    BY <1>1
  <2> HIDE DEF parts
  <2>3. [[reader[d] EXCEPT !.step = "deployed"] EXCEPT !.parts = parts] \in Reader
    BY <1>1, <1>2, <1>5, <2>2 DEF FindComponents
  <2>4. reader' \in [Deployers -> {None} \union Reader]
    BY <2>1, <2>3, <1>1
  <2>5. QED
    BY <1>5, <2>4, TypeRead DEF FindComponents
<1>6. CASE FindFails(d)
  <2>1. reader' \in [Deployers -> {None} \union Reader]
    BY <1>6, <1>1 DEF FindFails
  <2>2. QED
    BY <1>6, <2>1, TypeRead DEF FindFails
<1>7. QED
  BY <1>3, <1>4, <1>5, <1>6 DEF CreateDeployment

LEMMA TypeCODies ==
  ASSUME TypeInv, CODies
  PROVE  TypeInv'
<1> USE DEF Steps, Ended
<1>1. \A e \in Callers : Description(e)' = Description(e)
  BY DEF CODies, Description
<1>2. \A e \in Callers : (pc'[e] = pc[e] /\ pc[e] \in Ended \union {"new"}) \/ pc'[e] = "failed"
  BY DEF CODies
<1>3. pc' \in [Callers -> Steps]
  BY DEF CODies, TypeInv, CatalogTypeOK
<1>4. cache' \in Caches
  BY DEF CODies, TypeInv, CatalogTypeOK, Caches
<1>5. reader' \in [Deployers -> {None} \union
       [step : {"app", "profile", "deployed"}, app : Keys, profile : Keys \union {None},
        parts : SUBSET Keys, from : SUBSET Callers]]
  BY DEF CODies, TypeInv, CatalogTypeOK
<1>6. CatalogTypeOK'
  BY <1>2, <1>3, <1>4, <1>5 DEF CODies, TypeInv, CatalogTypeOK, Caches
<1>7. StepsInv'
  BY <1>1, <1>2 DEF CODies, TypeInv, StepsInv
<1>8. QED
  BY <1>6, <1>7 DEF TypeInv

LEMMA TypeStep == TypeInv /\ [CatalogNext]_catalogVars => TypeInv'
<1> SUFFICES ASSUME TypeInv, [CatalogNext]_catalogVars PROVE TypeInv'
  OBVIOUS
<1>1. CASE CODies
  BY <1>1, TypeCODies
<1>2. ASSUME NEW c \in Callers, CreateApp(c) PROVE TypeInv'
  BY <1>2, TypeCreateApp
<1>3. ASSUME NEW d \in Deployers, CreateDeployment(d) PROVE TypeInv'
  BY <1>3, TypeCreateDeployment
<1>4. CASE UNCHANGED catalogVars
  <2>1. UNCHANGED <<fetchVars, pc, want, have, at, rows>> /\ reader' = reader
    BY <1>4 DEF catalogVars, fetchVars
  <2>2. QED
    BY <2>1, TypeRead DEF TypeInv, CatalogTypeOK
<1>5. QED
  BY <1>1, <1>2, <1>3, <1>4 DEF CatalogNext

\* The types are right: a request inserts at a place of the description that it has read,
\* and every row in the tables is one of a description.
THEOREM CatalogTypes == CatalogSpec => []CatalogTypeOK
<1>1. TypeInv => CatalogTypeOK
  BY DEF TypeInv
<1>2. QED
  BY <1>1, TypeInit, TypeStep, PTL DEF CatalogSpec

LEMMA TypeInvariant == CatalogSpec => []TypeInv
  BY TypeInit, TypeStep, PTL DEF CatalogSpec

-----------------------------------------------------------------------------
(* What is written.                                                        *)

WriteInv == KeysInv /\ ParentInv /\ HeldInv /\ OnlyInv /\ ApartInv

LEMMA WriteInit == CatalogInit => WriteInv
<1>1. CatalogInit => Writers = {} /\ rows = {}
  BY DEF CatalogInit, Writers
<1>2. QED
  BY <1>1 DEF WriteInv, KeysInv, ParentInv, HeldInv, OnlyInv, ApartInv

\* A step that inserts nothing, after which only those write that did before.
Quiet ==
  /\ rows' = rows /\ Writers' \subseteq Writers
  /\ \A e \in Writers' :
       /\ Description(e)' = Description(e)
       /\ ProfilesIn(e)' = ProfilesIn(e)
       /\ \A i : PartsIn(e, i)' = PartsIn(e, i)

LEMMA QuietIf ==
  ASSUME rows' = rows, Writers' \subseteq Writers,
         \A e \in Writers' : at'[e] = at[e] /\ Description(e)' = Description(e)
  PROVE  Quiet
<1>1. \A e \in Writers' : ProfilesIn(e)' = ProfilesIn(e)
  BY DEF ProfilesIn
<1>2. \A e \in Writers' : \A i : PartsIn(e, i)' = PartsIn(e, i)
  BY DEF PartsIn
<1>3. QED
  BY <1>1, <1>2 DEF Quiet

LEMMA WriteFrame ==
  ASSUME WriteInv, Quiet
  PROVE  WriteInv'
<1>1. \A e \in Writers' : ProfilesIn(e)' = ProfilesIn(e)
  BY DEF Quiet
<1>2. \A e \in Writers' : \A i : PartsIn(e, i)' = PartsIn(e, i)
  BY DEF Quiet
<1>3. KeysInv' /\ ParentInv'
  BY DEF Quiet, WriteInv, KeysInv, ParentInv
<1>4. HeldInv'
  BY <1>1, <1>2 DEF Quiet, WriteInv, HeldInv, AppRow, ProfileRow, PartRow
<1>5. OnlyInv'
  BY <1>1, <1>2 DEF Quiet, WriteInv, OnlyInv, ProfileRow, PartRow
<1>6. ApartInv'
  BY <1>1 DEF Quiet, WriteInv, ApartInv
<1>7. QED
  BY <1>3, <1>4, <1>5, <1>6 DEF WriteInv

\* An insertion moves the request's place on by the one row, and no other's.
LEMMA InsertGains ==
  ASSUME TypeInv, NEW c \in Callers, Insert(c)
  PROVE  /\ \A e \in Callers : Description(e)' = Description(e)
         /\ at[c].profile \in Nat /\ at[c].part \in Nat
         /\ Writers' = Writers \union {c}
         /\ c \in Writers <=> at[c].profile # 0
         /\ \A e \in Callers \ {c} : ProfilesIn(e)' = ProfilesIn(e)
         /\ \A e \in Callers \ {c} : \A i : PartsIn(e, i)' = PartsIn(e, i)
         /\ at[c].profile = 0 => ProfilesIn(c)' = {}
         /\ at[c].profile # 0 /\ at[c].part = 0 =>
              /\ ProfilesIn(c)' = ProfilesIn(c) \union {at[c].profile}
              /\ \A i \in ProfilesIn(c)' : PartsIn(c, i)' = PartsIn(c, i)
              /\ PartsIn(c, at[c].profile) = {}
         /\ at[c].profile # 0 /\ at[c].part # 0 =>
              /\ at[c].profile \in ProfilesIn(c) /\ ProfilesIn(c)' = ProfilesIn(c)
              /\ \A i \in ProfilesIn(c) : i # at[c].profile => PartsIn(c, i)' = PartsIn(c, i)
              /\ \A k \in ProfilesIn(c) : k = at[c].profile =>
                   PartsIn(c, k)' = PartsIn(c, k) \union {at[c].part}
<1> DEFINE d == Description(c)
           p == at[c]
           q == After(d, p)
           n == Len(d.profiles)
<1>1. d \in Descriptions /\ IsPlace(d, p) /\ pc[c] = "insert"
  BY DEF Insert, TypeInv, CatalogTypeOK, StepsInv, Steps
<1>2. p \in [profile : Nat, part : Nat] /\ p.profile \in Nat /\ p.part \in Nat
  BY DEF TypeInv, CatalogTypeOK
<1>3. at'[c] = q /\ \A e \in Callers \ {c} : at'[e] = at[e] /\ pc'[e] = pc[e]
  BY DEF Insert, Goto, TypeInv, CatalogTypeOK
<1>4. \A e \in Callers : Description(e)' = Description(e)
  BY DEF Insert, Description
<1>5. pc'[c] \in {"insert", "created"}
  BY DEF Insert, Goto, TypeInv, CatalogTypeOK
<1>6. q.profile # 0 /\ q \in [profile : Nat, part : Nat]
  BY <1>1, <1>2, AfterAPlace
<1>7. Writers' = Writers \union {c} /\ (c \in Writers <=> p.profile # 0)
  BY <1>1, <1>3, <1>5, <1>6 DEF Writers
<1>8. \A e \in Callers \ {c} : ProfilesIn(e)' = ProfilesIn(e)
  BY <1>3, <1>4 DEF ProfilesIn
<1>9. \A e \in Callers \ {c} : \A i : PartsIn(e, i)' = PartsIn(e, i)
  BY <1>3, <1>4 DEF PartsIn
<1>10. n \in Nat /\ p.profile \in 0 .. n /\ p.part \in 0 .. Parts(d, p.profile)
  BY <1>1, DescriptionSizes DEF IsPlace
<1>11. \A i \in 1 .. n : Parts(d, i) = Len(d.profiles[i].parts) /\ Parts(d, i) \in Nat
  BY <1>1, DescriptionSizes DEF Parts
<1>12. /\ p.profile = 0 => p.part = 0 /\ q.profile = 1 /\ q.part = 0
       /\ p.part < Parts(d, p.profile) => q.profile = p.profile /\ q.part = p.part + 1
       /\ p.part = Parts(d, p.profile) => q.profile = p.profile + 1 /\ q.part = 0
  BY <1>1, <1>2, <1>10, <1>11 DEF After, Parts
<1>13. p.part < Parts(d, p.profile) \/ p.part = Parts(d, p.profile)
  BY <1>10, <1>11, <1>12 DEF Parts
<1>14. /\ ProfilesIn(c) = {i \in 1 .. n : i < p.profile \/ (i = p.profile /\ 0 < p.part)}
       /\ ProfilesIn(c)' = {i \in 1 .. n : i < q.profile \/ (i = q.profile /\ 0 < q.part)}
  BY <1>3, <1>4 DEF ProfilesIn
<1>15. \A i \in 1 .. n :
       /\ PartsIn(c, i) = {j \in 1 .. Parts(d, i) :
                             i < p.profile \/ (i = p.profile /\ j < p.part)}
       /\ PartsIn(c, i)' = {j \in 1 .. Parts(d, i) :
                              i < q.profile \/ (i = q.profile /\ j < q.part)}
  BY <1>3, <1>4, <1>11 DEF PartsIn
<1> HIDE DEF p, q, n, d
<1>16. p.profile = 0 => ProfilesIn(c)' = {}
  BY <1>12, <1>14
<1>17. ASSUME p.profile # 0, p.part = 0
       PROVE  /\ ProfilesIn(c)' = ProfilesIn(c) \union {p.profile}
              /\ \A i \in ProfilesIn(c)' : PartsIn(c, i)' = PartsIn(c, i)
              /\ PartsIn(c, p.profile) = {}
  <2>1. ProfilesIn(c)' = ProfilesIn(c) \union {p.profile}
    BY <1>17, <1>2, <1>6, <1>10, <1>12, <1>13, <1>14
  <2>2. p.profile \in 1 .. n /\ PartsIn(c, p.profile) = {}
    BY <1>17, <1>2, <1>10, <1>11, <1>15
  <2>3. ASSUME NEW i \in ProfilesIn(c)'
        PROVE  PartsIn(c, i)' = PartsIn(c, i)
    <3>1. i \in 1 .. n
      BY <2>3, <1>14
    <3>2. PartsIn(c, i)' \subseteq PartsIn(c, i)
      BY <3>1, <1>17, <1>2, <1>6, <1>10, <1>11, <1>12, <1>13, <1>15
    <3>3. PartsIn(c, i) \subseteq PartsIn(c, i)'
      BY <3>1, <1>17, <1>2, <1>6, <1>10, <1>11, <1>12, <1>13, <1>15
    <3>4. QED
      BY <3>2, <3>3
  <2>4. QED
    BY <2>1, <2>2, <2>3
<1>18. ASSUME p.profile # 0, p.part # 0
       PROVE  /\ p.profile \in ProfilesIn(c) /\ ProfilesIn(c)' = ProfilesIn(c)
              /\ \A i \in ProfilesIn(c) : i # p.profile => PartsIn(c, i)' = PartsIn(c, i)
              /\ \A k \in ProfilesIn(c) : k = p.profile =>
                   PartsIn(c, k)' = PartsIn(c, k) \union {p.part}
  <2>1. p.profile \in ProfilesIn(c) /\ ProfilesIn(c)' = ProfilesIn(c)
    BY <1>18, <1>2, <1>6, <1>10, <1>12, <1>13, <1>14
  <2>2. ASSUME NEW i \in ProfilesIn(c), i # p.profile
        PROVE  PartsIn(c, i)' = PartsIn(c, i)
    <3>1. i \in 1 .. n /\ i < p.profile
      BY <2>2, <1>2, <1>10, <1>14
    <3>2. i < q.profile
      BY <3>1, <1>2, <1>6, <1>10, <1>12, <1>13
    <3>3. QED
      BY <3>1, <3>2, <1>15
  <2>3. ASSUME NEW k \in ProfilesIn(c), k = p.profile
        PROVE  PartsIn(c, k)' = PartsIn(c, k) \union {p.part}
    <3>1. k \in 1 .. n /\ p.part \in 1 .. Parts(d, k)
      BY <2>3, <1>18, <1>2, <1>10, <1>14
    <3>2. PartsIn(c, k) = {j \in 1 .. Parts(d, k) : j < p.part}
      BY <2>3, <3>1, <1>2, <1>15
    <3>3. PartsIn(c, k)' = {j \in 1 .. Parts(d, k) : k < q.profile \/ (k = q.profile /\ j < q.part)}
      BY <3>1, <1>15
    <3>4. CASE p.part < Parts(d, p.profile)
      <4>1. q.profile = k /\ q.part = p.part + 1
        BY <2>3, <3>4, <1>12
      <4>2. QED
        BY <3>1, <3>2, <3>3, <4>1, <1>2
    <3>5. CASE p.part = Parts(d, p.profile)
      <4>1. q.profile = k + 1 /\ p.part = Parts(d, k)
        BY <2>3, <3>5, <1>12
      <4>2. QED
        BY <3>1, <3>2, <3>3, <4>1, <1>2
    <3>6. QED
      BY <3>4, <3>5, <1>13
  <2>4. QED
    BY <2>1, <2>2, <2>3
<1>19. QED
  BY <1>2, <1>4, <1>7, <1>8, <1>9, <1>16, <1>17, <1>18 DEF p

LEMMA InsertApp ==
  ASSUME TypeInv, WriteInv, NEW c \in Callers, Insert(c), at[c].profile = 0
  PROVE  WriteInv'
<1> DEFINE d == Description(c)
           r == AppRow(d)
<1>1. /\ \A e \in Callers : Description(e)' = Description(e)
      /\ Writers' = Writers \union {c} /\ c \notin Writers
      /\ \A e \in Callers \ {c} : ProfilesIn(e)' = ProfilesIn(e)
      /\ \A e \in Callers \ {c} : \A i : PartsIn(e, i)' = PartsIn(e, i)
      /\ ProfilesIn(c)' = {}
  BY InsertGains
<1>2. rows' = rows \union {r} /\ ~Conflict(r)
  BY DEF Insert, NextRow, RowAt
<1>3. r.table = "app" /\ r.key = d.id
  BY DEF AppRow
<1>4. \A x \in rows : ~(x.table = "app" /\ x.key = d.id)
  BY <1>2, <1>3 DEF Conflict
<1>5. \A x \in rows : ~(x.table = "profile" /\ x.under = d.id)
  BY <1>4 DEF WriteInv, ParentInv
<1>6. Writers \subseteq Callers
  BY DEF Writers
<1> HIDE DEF r
<1>7. KeysInv'
  BY <1>2, <1>3, <1>4 DEF WriteInv, KeysInv
<1>8. ParentInv'
  BY <1>2, <1>3 DEF WriteInv, ParentInv
<1>9. HeldInv'
  BY <1>1, <1>2, <1>6 DEF WriteInv, HeldInv, AppRow, ProfileRow, PartRow, r
<1>10. OnlyInv'
  BY <1>1, <1>2, <1>3, <1>5, <1>6 DEF WriteInv, OnlyInv, ProfileRow, PartRow
<1>11. ApartInv'
  <2>1. \A e \in Writers : Description(e).id # d.id
    BY <1>4, <1>6 DEF WriteInv, HeldInv, AppRow
  <2>2. QED
    BY <1>1, <1>6, <2>1 DEF WriteInv, ApartInv
<1>12. QED
  BY <1>7, <1>8, <1>9, <1>10, <1>11 DEF WriteInv

LEMMA InsertProfile ==
  ASSUME TypeInv, WriteInv, NEW c \in Callers, Insert(c),
         at[c].profile # 0, at[c].part = 0
  PROVE  WriteInv'
<1>1. PICK k \in Nat : k = at[c].profile
  BY InsertGains
<1> DEFINE d == Description(c)
           r == ProfileRow(d, k)
<1>2. /\ \A e \in Callers : Description(e)' = Description(e)
      /\ Writers' = Writers /\ c \in Writers
      /\ \A e \in Callers \ {c} : ProfilesIn(e)' = ProfilesIn(e)
      /\ \A e \in Callers \ {c} : \A i : PartsIn(e, i)' = PartsIn(e, i)
      /\ ProfilesIn(c)' = ProfilesIn(c) \union {k}
      /\ \A i \in ProfilesIn(c)' : PartsIn(c, i)' = PartsIn(c, i)
      /\ PartsIn(c, k) = {}
  BY <1>1, InsertGains
<1>3. rows' = rows \union {r} /\ ~Conflict(r)
  BY <1>1 DEF Insert, NextRow, RowAt
<1>4. r.table = "profile" /\ r.key = d.profiles[k].id /\ r.under = d.id
  BY DEF ProfileRow
<1>5. \A x \in rows : ~(x.table = "profile" /\ x.key = d.profiles[k].id)
  BY <1>3, <1>4 DEF Conflict
<1>6. \A x \in rows : ~(x.table = "component" /\ x.under = d.profiles[k].id)
  BY <1>5 DEF WriteInv, ParentInv
<1>7. \A e \in Writers : \A i \in ProfilesIn(e) :
        Description(e).profiles[i].id # d.profiles[k].id
  BY <1>5 DEF WriteInv, HeldInv, ProfileRow
<1>8. Writers \subseteq Callers
  BY DEF Writers
<1> HIDE DEF r
<1>9. KeysInv'
  BY <1>3, <1>4, <1>5 DEF WriteInv, KeysInv
<1>10. ParentInv'
  <2>1. \E y \in rows : y.table = "app" /\ y.key = r.under
    BY <1>2, <1>4 DEF WriteInv, HeldInv, AppRow
  <2>2. QED
    BY <1>3, <1>4, <2>1 DEF WriteInv, ParentInv
<1>11. HeldInv'
  <2>1. \A e \in Writers : (AppRow(Description(e)) \in rows)'
    BY <1>2, <1>3, <1>8 DEF WriteInv, HeldInv, AppRow
  <2>2. \A e \in Writers : \A i \in ProfilesIn(e)' : (ProfileRow(Description(e), i) \in rows)'
    BY <1>2, <1>3, <1>8 DEF WriteInv, HeldInv, ProfileRow, r
  <2>3. \A e \in Writers : \A i \in ProfilesIn(e)' : \A j \in PartsIn(e, i)' :
          (PartRow(Description(e), i, j) \in rows)'
    BY <1>2, <1>3, <1>8 DEF WriteInv, HeldInv, PartRow
  <2>4. QED
    BY <1>2, <2>1, <2>2, <2>3 DEF HeldInv
<1>12. OnlyInv'
  <2>1. ASSUME NEW e \in Writers, NEW x \in rows', x.table = "profile",
               x.under = Description(e).id
        PROVE  \E i \in ProfilesIn(e)' : x = ProfileRow(Description(e), i)
    <3>1. CASE x \in rows
      BY <2>1, <3>1, <1>2, <1>8 DEF WriteInv, OnlyInv
    <3>2. CASE x = r
      <4>1. e = c
        BY <2>1, <3>2, <1>2, <1>4 DEF WriteInv, ApartInv
      <4>2. QED
        BY <4>1, <3>2, <1>2 DEF r
    <3>3. QED
      BY <3>1, <3>2, <2>1, <1>3
  <2>2. ASSUME NEW e \in Writers, NEW x \in rows', NEW i \in ProfilesIn(e)',
               x.table = "component", x.under = Description(e).profiles[i].id
        PROVE  \E j \in PartsIn(e, i)' : x = PartRow(Description(e), i, j)
    <3>1. x \in rows
      BY <2>2, <1>3, <1>4
    <3>2. i \in ProfilesIn(e)
      BY <2>2, <3>1, <1>2, <1>6, <1>8
    <3>3. PICK j \in PartsIn(e, i) : x = PartRow(Description(e), i, j)
      BY <2>2, <3>1, <3>2 DEF WriteInv, OnlyInv
    <3>4. PartsIn(e, i)' = PartsIn(e, i)
      BY <2>2, <1>2, <1>8
    <3>5. QED
      BY <3>3, <3>4
  <2>3. QED
    BY <1>2, <1>8, <2>1, <2>2 DEF OnlyInv, ProfileRow, PartRow
<1>13. ApartInv'
  BY <1>2, <1>7, <1>8 DEF WriteInv, ApartInv
<1>14. QED
  BY <1>9, <1>10, <1>11, <1>12, <1>13 DEF WriteInv

LEMMA InsertPart ==
  ASSUME TypeInv, WriteInv, NEW c \in Callers, Insert(c),
         at[c].profile # 0, at[c].part # 0
  PROVE  WriteInv'
<1>1. PICK k \in Nat, l \in Nat : k = at[c].profile /\ l = at[c].part
  BY InsertGains
<1> DEFINE d == Description(c)
           r == PartRow(d, k, l)
<1>2. /\ \A e \in Callers : Description(e)' = Description(e)
      /\ Writers' = Writers /\ c \in Writers /\ k \in ProfilesIn(c)
      /\ \A e \in Callers \ {c} : \A i : PartsIn(e, i)' = PartsIn(e, i)
      /\ \A i \in ProfilesIn(c) : i # k => PartsIn(c, i)' = PartsIn(c, i)
      /\ PartsIn(c, k)' = PartsIn(c, k) \union {l}
  BY <1>1, InsertGains
<1>3. \A e \in Callers : ProfilesIn(e)' = ProfilesIn(e)
  BY <1>1, InsertGains
<1>4. rows' = rows \union {r}
  BY <1>1 DEF Insert, NextRow, RowAt
<1>5. r.table = "component" /\ r.under = d.profiles[k].id
  BY DEF PartRow
<1>6. Writers \subseteq Callers
  BY DEF Writers
<1> HIDE DEF r
<1>7. KeysInv'
  BY <1>4, <1>5 DEF WriteInv, KeysInv
<1>8. ParentInv'
  <2>1. \E y \in rows : y.table = "profile" /\ y.key = r.under
    BY <1>2, <1>5 DEF WriteInv, HeldInv, ProfileRow
  <2>2. QED
    BY <1>4, <1>5, <2>1 DEF WriteInv, ParentInv
<1>9. HeldInv'
  <2>1. \A e \in Writers : (AppRow(Description(e)) \in rows)'
    BY <1>2, <1>4, <1>6 DEF WriteInv, HeldInv, AppRow
  <2>2. \A e \in Writers : \A i \in ProfilesIn(e)' : (ProfileRow(Description(e), i) \in rows)'
    BY <1>2, <1>3, <1>4, <1>6 DEF WriteInv, HeldInv, ProfileRow
  <2>3. ASSUME NEW e \in Writers, NEW i \in ProfilesIn(e)', NEW j \in PartsIn(e, i)'
        PROVE  (PartRow(Description(e), i, j) \in rows)'
    <3>1. j \in PartsIn(e, i) \/ (e = c /\ i = k /\ j = l)
      BY <2>3, <1>2, <1>3, <1>6
    <3>2. CASE j \in PartsIn(e, i)
      BY <2>3, <3>2, <1>2, <1>3, <1>4, <1>6 DEF WriteInv, HeldInv, PartRow
    <3>3. CASE e = c /\ i = k /\ j = l
      BY <3>3, <1>2, <1>4 DEF PartRow, r
    <3>4. QED
      BY <3>1, <3>2, <3>3
  <2>4. QED
    BY <1>2, <2>1, <2>2, <2>3 DEF HeldInv
<1>10. OnlyInv'
  <2>1. ASSUME NEW e \in Writers, NEW x \in rows', x.table = "profile",
               x.under = Description(e).id
        PROVE  \E i \in ProfilesIn(e)' : x = ProfileRow(Description(e), i)
    <3>1. x \in rows
      BY <2>1, <1>4, <1>5
    <3>2. QED
      BY <2>1, <3>1, <1>3, <1>6 DEF WriteInv, OnlyInv
  <2>2. ASSUME NEW e \in Writers, NEW x \in rows', NEW i \in ProfilesIn(e)',
               x.table = "component", x.under = Description(e).profiles[i].id
        PROVE  \E j \in PartsIn(e, i)' : x = PartRow(Description(e), i, j)
    <3>1. i \in ProfilesIn(e)
      BY <2>2, <1>3, <1>6
    <3>2. CASE x \in rows
      <4>1. PICK j \in PartsIn(e, i) : x = PartRow(Description(e), i, j)
        BY <2>2, <3>1, <3>2 DEF WriteInv, OnlyInv
      <4>2. PartsIn(e, i) \subseteq PartsIn(e, i)'
        BY <3>1, <1>2, <1>6
      <4>3. QED
        BY <4>1, <4>2
    <3>3. CASE x = r
      <4>1. e = c /\ i = k
        BY <2>2, <3>1, <3>3, <1>2, <1>5 DEF WriteInv, ApartInv
      <4>2. QED
        BY <4>1, <3>3, <1>2 DEF r
    <3>4. QED
      BY <3>2, <3>3, <2>2, <1>4
  <2>3. QED
    BY <1>2, <1>6, <2>1, <2>2 DEF OnlyInv, ProfileRow, PartRow
<1>11. ApartInv'
  <2>1. \A e \in Writers : Description(e)' = Description(e) /\ ProfilesIn(e)' = ProfilesIn(e)
    BY <1>2, <1>3, <1>6
  <2>2. Writers' = Writers /\ ApartInv
    BY <1>2 DEF WriteInv
  <2>3. QED
    BY <2>1, <2>2 DEF ApartInv
<1>12. QED
  BY <1>7, <1>8, <1>9, <1>10, <1>11 DEF WriteInv

\* Whatever else a request does inserts nothing and leaves it no writer, if it was none.
LEMMA QuietOther ==
  ASSUME TypeInv, NEW c \in Callers, CreateApp(c), ~Insert(c)
  PROVE  Quiet
<1>1. rows' = rows /\ \A e \in Callers \ {c} :
        pc'[e] = pc[e] /\ at'[e] = at[e] /\ want'[e] = want[e] /\ have'[e] = have[e]
  <2>1. CASE Check(c)
    BY <2>1 DEF Check, Goto, TypeInv, CatalogTypeOK
  <2>2. CASE Read(c)
    BY <2>2 DEF Read, Goto, TypeInv, CatalogTypeOK
  <2>3. CASE SetUrl(c) \/ ReadFails(c) \/ InsertFails(c)
    BY <2>3 DEF SetUrl, ReadFails, InsertFails, Goto, TypeInv, CatalogTypeOK
  <2>4. CASE Stat(c) \/ Clone(c) \/ CloneMeets(c) \/ CloneEnds(c) \/ CloneEndsTorn(c)
    BY <2>4 DEF Stat, Clone, CloneMeets, CloneEnds, CloneEndsTorn, Goto, TypeInv, CatalogTypeOK
  <2>5. CASE CloneFails(c) \/ Open(c) \/ Pull(c) \/ PullFails(c) \/ Purge(c) \/ PurgeFails(c)
    BY <2>5 DEF CloneFails, Open, Pull, PullFails, Purge, PurgeFails, Goto, TypeInv, CatalogTypeOK
  <2>6. QED
    BY <2>1, <2>2, <2>3, <2>4, <2>5 DEF CreateApp, Fetch
<1>2. pc'[c] \notin {"insert", "created"} \/ at'[c].profile = 0
  <2>1. CASE Check(c) \/ SetUrl(c) \/ ReadFails(c) \/ InsertFails(c)
    BY <2>1 DEF Check, SetUrl, ReadFails, InsertFails, Goto, TypeInv, CatalogTypeOK
  <2>2. CASE Read(c)
    BY <2>2 DEF Read, Goto, TypeInv, CatalogTypeOK
  <2>3. CASE Stat(c) \/ Clone(c) \/ CloneMeets(c) \/ CloneEnds(c) \/ CloneEndsTorn(c)
    BY <2>3 DEF Stat, Clone, CloneMeets, CloneEnds, CloneEndsTorn, Goto, TypeInv, CatalogTypeOK
  <2>4. CASE CloneFails(c) \/ Open(c) \/ Pull(c) \/ PullFails(c) \/ Purge(c) \/ PurgeFails(c)
    BY <2>4 DEF CloneFails, Open, Pull, PullFails, Purge, PurgeFails, Goto, TypeInv, CatalogTypeOK
  <2>5. QED
    BY <2>1, <2>2, <2>3, <2>4 DEF CreateApp, Fetch
<1>3. Writers' \subseteq Writers \ {c}
  BY <1>1, <1>2 DEF Writers
<1>4. \A e \in Writers' : at'[e] = at[e] /\ Description(e)' = Description(e)
  BY <1>1, <1>3 DEF Description, Writers
<1>5. QED
  BY <1>1, <1>3, <1>4, QuietIf

\* Only an insertion is not quiet.
LEMMA QuietOrInsert ==
  ASSUME TypeInv, [CatalogNext]_catalogVars
  PROVE  Quiet \/ \E c \in Callers : Insert(c)
<1>1. CASE CODies
  <2>1. Writers' \subseteq Writers
    BY <1>1 DEF CODies, Writers, Ended
  <2>2. \A e \in Writers' : at'[e] = at[e] /\ Description(e)' = Description(e)
    BY <1>1 DEF CODies, Description
  <2>3. QED
    BY <1>1, <2>1, <2>2, QuietIf DEF CODies
<1>2. ASSUME NEW c \in Callers, CreateApp(c), ~Insert(c) PROVE Quiet
  BY <1>2, QuietOther
<1>3. ASSUME UNCHANGED <<pc, want, have, at, rows>> PROVE Quiet
  <2>1. Writers' = Writers
    BY <1>3 DEF Writers
  <2>2. \A e \in Writers' : at'[e] = at[e] /\ Description(e)' = Description(e)
    BY <1>3 DEF Description
  <2>3. QED
    BY <1>3, <2>1, <2>2, QuietIf
<1>4. ASSUME NEW d \in Deployers, CreateDeployment(d) PROVE Quiet
  BY <1>4, <1>3 DEF CreateDeployment, FindApp, FindProfile, FindComponents, FindFails
<1>5. CASE UNCHANGED catalogVars
  BY <1>5, <1>3 DEF catalogVars
<1>6. QED
  BY <1>1, <1>2, <1>4, <1>5 DEF CatalogNext

LEMMA WriteStep == TypeInv /\ WriteInv /\ [CatalogNext]_catalogVars => WriteInv'
<1> SUFFICES ASSUME TypeInv, WriteInv, [CatalogNext]_catalogVars PROVE WriteInv'
  OBVIOUS
<1>1. CASE Quiet
  BY <1>1, WriteFrame
<1>2. ASSUME NEW c \in Callers, Insert(c) PROVE WriteInv'
  BY <1>2, InsertApp, InsertProfile, InsertPart
<1>3. QED
  BY <1>1, <1>2, QuietOrInsert

LEMMA WriteInvariant == CatalogSpec => []WriteInv
  BY TypeInvariant, WriteInit, WriteStep, PTL DEF CatalogSpec

-----------------------------------------------------------------------------
(* No profile has components of two descriptions.                          *)

LEMMA OfOneQuiet ==
  ASSUME OfOneInv, Quiet
  PROVE  OfOneInv'
<1> SUFFICES ASSUME NEW x \in rows, x.table = "profile"
             PROVE  \E e \in Descriptions : \E i \in 1 .. Len(e.profiles) : IsOf(x, e, i)'
  BY DEF Quiet, OfOneInv
<1>1. PICK e \in Descriptions : \E i \in 1 .. Len(e.profiles) : IsOf(x, e, i)
  BY DEF OfOneInv
<1>2. PICK i \in 1 .. Len(e.profiles) : IsOf(x, e, i)
  BY <1>1
<1>3. IsOf(x, e, i)'
  BY <1>2 DEF Quiet, IsOf, ProfileRow, Elements
<1>4. QED
  BY <1>3

LEMMA OfOneApp ==
  ASSUME TypeInv, OfOneInv, NEW c \in Callers, Insert(c), at[c].profile = 0
  PROVE  OfOneInv'
<1>1. /\ \A e \in Callers : Description(e)' = Description(e)
      /\ Writers' = Writers \union {c}
      /\ \A e \in Callers \ {c} : ProfilesIn(e)' = ProfilesIn(e)
      /\ ProfilesIn(c)' = {}
  BY InsertGains
<1>2. Writers \subseteq Callers
  BY DEF Writers
<1>3. PICK r : rows' = rows \union {r} /\ r.table = "app"
  BY DEF Insert, NextRow, RowAt, AppRow
<1>4. ASSUME NEW x \in rows, x.table = "profile"
      PROVE  \E e \in Descriptions : \E i \in 1 .. Len(e.profiles) : IsOf(x, e, i)'
  <2>1. PICK e \in Descriptions : \E i \in 1 .. Len(e.profiles) : IsOf(x, e, i)
    BY <1>4 DEF OfOneInv
  <2>2. PICK i \in 1 .. Len(e.profiles) : IsOf(x, e, i)
    BY <2>1
  <2>3. IsOf(x, e, i)'
    BY <2>2, <1>1, <1>2, <1>3 DEF IsOf, ProfileRow, Elements
  <2>4. QED
    BY <2>3
<1>5. QED
  BY <1>3, <1>4 DEF OfOneInv

LEMMA OfOneProfile ==
  ASSUME TypeInv, WriteInv, OfOneInv, NEW c \in Callers, Insert(c),
         at[c].profile # 0, at[c].part = 0
  PROVE  OfOneInv'
<1>1. PICK k \in Nat : k = at[c].profile
  BY InsertGains
<1> DEFINE d == Description(c)
           r == ProfileRow(d, k)
<1>2. /\ \A e \in Callers : Description(e)' = Description(e)
      /\ Writers' = Writers /\ c \in Writers
      /\ \A e \in Callers \ {c} : ProfilesIn(e)' = ProfilesIn(e)
      /\ ProfilesIn(c)' = ProfilesIn(c) \union {k}
  BY <1>1, InsertGains
<1>3. rows' = rows \union {r} /\ ~Conflict(r)
  BY <1>1 DEF Insert, NextRow, RowAt
<1>4. r.table = "profile" /\ r.key = d.profiles[k].id /\ r.under = d.id
  BY DEF ProfileRow
<1>5. \A x \in rows : ~(x.table = "profile" /\ x.key = d.profiles[k].id)
  BY <1>3, <1>4 DEF Conflict
<1>6. \A x \in rows : ~(x.table = "component" /\ x.under = d.profiles[k].id)
  BY <1>5 DEF WriteInv, ParentInv
<1>7. \A e \in Writers : \A i \in ProfilesIn(e) :
        Description(e).profiles[i].id # d.profiles[k].id
  BY <1>5 DEF WriteInv, HeldInv, ProfileRow
<1>8. Writers \subseteq Callers
  BY DEF Writers
<1>9. d \in Descriptions /\ k \in 1 .. Len(d.profiles)
  <2>1. d \in Descriptions
    BY DEF Insert, TypeInv, StepsInv
  <2>2. k \in ProfilesIn(c)'
    BY <1>2
  <2>3. k \in 1 .. Len(d.profiles)
    BY <2>2, <1>2 DEF ProfilesIn
  <2>4. QED
    BY <2>1, <2>3
<1> HIDE DEF r
<1>10. ASSUME NEW x \in rows, x.table = "profile"
       PROVE  \E e \in Descriptions : \E i \in 1 .. Len(e.profiles) : IsOf(x, e, i)'
  <2>1. PICK e \in Descriptions : \E i \in 1 .. Len(e.profiles) : IsOf(x, e, i)
    BY <1>10 DEF OfOneInv
  <2>2. PICK i \in 1 .. Len(e.profiles) : IsOf(x, e, i)
    BY <2>1
  <2>3. x.key # d.profiles[k].id
    BY <1>10, <1>5
  <2>4. IsOf(x, e, i)'
    BY <2>2, <2>3, <1>2, <1>3, <1>4, <1>8 DEF IsOf, ProfileRow, Elements
  <2>5. QED
    BY <2>4
<1>11. PICK x \in rows', e \in Descriptions : x = r /\ e = d
  BY <1>3, <1>9
<1>12. IsOf(x, e, k)'
  <2>1. \A y \in rows' : ~(y.table = "component" /\ y.under = x.key)
    BY <1>3, <1>4, <1>6, <1>11
  <2>2. \A f \in Writers : \A i \in ProfilesIn(f)' :
          Description(f).profiles[i].id = x.key => f = c /\ i = k
    BY <1>2, <1>4, <1>7, <1>8, <1>11
  <2>3. ProfileRow(e, k) = x
    BY <1>11 DEF r
  <2>4. QED
    BY <2>1, <2>2, <2>3, <1>2, <1>8, <1>11 DEF IsOf, ProfileRow
<1>13. \E f \in Descriptions : \E i \in 1 .. Len(f.profiles) : IsOf(x, f, i)'
  BY <1>9, <1>11, <1>12
<1>14. QED
  BY <1>3, <1>10, <1>11, <1>13 DEF OfOneInv

LEMMA OfOnePart ==
  ASSUME TypeInv, WriteInv, OfOneInv, NEW c \in Callers, Insert(c),
         at[c].profile # 0, at[c].part # 0
  PROVE  OfOneInv'
<1>1. PICK k \in Nat, l \in Nat : k = at[c].profile /\ l = at[c].part
  BY InsertGains
<1> DEFINE d == Description(c)
           r == PartRow(d, k, l)
<1>2. /\ \A e \in Callers : Description(e)' = Description(e)
      /\ Writers' = Writers /\ c \in Writers /\ k \in ProfilesIn(c)
      /\ PartsIn(c, k)' = PartsIn(c, k) \union {l}
  BY <1>1, InsertGains
<1>3. \A e \in Callers : ProfilesIn(e)' = ProfilesIn(e)
  BY <1>1, InsertGains
<1>4. rows' = rows \union {r}
  BY <1>1 DEF Insert, NextRow, RowAt
<1>5. /\ r.table = "component" /\ r.under = d.profiles[k].id
      /\ r.key = d.profiles[k].parts[l]
  BY DEF PartRow
<1>6. Writers \subseteq Callers
  BY DEF Writers
<1>7. l \in 1 .. Len(d.profiles[k].parts)
  <2>1. l \in PartsIn(c, k)'
    BY <1>2
  <2>2. QED
    BY <2>1, <1>2 DEF PartsIn
<1>8. r.key \in Elements(d.profiles[k].parts)
  BY <1>5, <1>7 DEF Elements
<1> HIDE DEF r
<1>9. ASSUME NEW x \in rows, x.table = "profile"
      PROVE  \E e \in Descriptions : \E i \in 1 .. Len(e.profiles) : IsOf(x, e, i)'
  <2>1. PICK e \in Descriptions : \E i \in 1 .. Len(e.profiles) : IsOf(x, e, i)
    BY <1>9 DEF OfOneInv
  <2>2. PICK i \in 1 .. Len(e.profiles) : IsOf(x, e, i)
    BY <2>1
  <2>3. r.under = x.key => r.key \in Elements(e.profiles[i].parts)
    BY <2>2, <1>2, <1>5, <1>8 DEF IsOf
  <2>4. IsOf(x, e, i)'
    BY <2>2, <2>3, <1>2, <1>3, <1>4, <1>6 DEF IsOf, ProfileRow, Elements
  <2>5. QED
    BY <2>4
<1>10. QED
  BY <1>4, <1>5, <1>9 DEF OfOneInv

LEMMA OfOneInvariant == CatalogSpec => []OfOneInv
<1>1. CatalogInit => OfOneInv
  BY DEF CatalogInit, OfOneInv
<1>2. TypeInv /\ WriteInv /\ OfOneInv /\ [CatalogNext]_catalogVars => OfOneInv'
  BY QuietOrInsert, OfOneQuiet, OfOneApp, OfOneProfile, OfOnePart
<1>3. QED
  BY <1>1, <1>2, TypeInvariant, WriteInvariant, PTL DEF CatalogSpec

-----------------------------------------------------------------------------
(* What is created.                                                        *)

\* A request that is answered has all its rows in.
LEMMA AllIn ==
  ASSUME TypeInv, NEW c \in Callers, pc[c] = "created"
  PROVE  /\ c \in Writers
         /\ ProfilesIn(c) = 1 .. Len(Description(c).profiles)
         /\ \A i \in ProfilesIn(c) : PartsIn(c, i) = 1 .. Len(Description(c).profiles[i].parts)
<1> DEFINE n == Len(Description(c).profiles)
<1>1. Description(c) \in Descriptions /\ at[c] = [profile |-> n + 1, part |-> 0]
  BY DEF TypeInv, StepsInv
<1>2. n \in Nat
  BY <1>1, DescriptionSizes
<1>3. at[c].profile = n + 1 /\ n + 1 # 0
  BY <1>1, <1>2
<1> HIDE DEF n
<1>4. c \in Writers
  BY <1>3 DEF Writers
<1>5. \A i \in 1 .. n : i < at[c].profile
  BY <1>2, <1>3
<1>6. ProfilesIn(c) = 1 .. n
  BY <1>5 DEF ProfilesIn, n
<1>7. \A i \in 1 .. n : PartsIn(c, i) = 1 .. Len(Description(c).profiles[i].parts)
  BY <1>5 DEF PartsIn
<1>8. QED
  BY <1>4, <1>6, <1>7 DEF n

LEMMA CompleteWhenCreated ==
  ASSUME TypeInv, WriteInv, NEW c \in Callers, pc[c] = "created"
  PROVE  Under(Description(c).id) = RowsOf(Description(c))
<1> DEFINE d == Description(c)
<1>1. c \in Writers
  BY AllIn
<1>2. AppRow(d) \in rows
  BY <1>1 DEF WriteInv, HeldInv
<1>3. \A i \in 1 .. Len(d.profiles) : ProfileRow(d, i) \in rows
  BY <1>1, AllIn DEF WriteInv, HeldInv
<1>4. \A i \in 1 .. Len(d.profiles) : \A j \in 1 .. Len(d.profiles[i].parts) :
        PartRow(d, i, j) \in rows
  BY <1>1, AllIn DEF WriteInv, HeldInv
<1>5. \A x \in rows : x.table = "app" /\ x.key = d.id => x = AppRow(d)
  BY <1>2 DEF WriteInv, KeysInv, AppRow
<1>6. \A x \in rows : x.table = "profile" /\ x.under = d.id =>
        \E i \in 1 .. Len(d.profiles) : x = ProfileRow(d, i)
  BY <1>1, AllIn DEF WriteInv, OnlyInv
<1>7. ASSUME NEW x \in rows, x.table = "component",
             NEW i \in 1 .. Len(d.profiles), x.under = d.profiles[i].id
      PROVE  \E j \in 1 .. Len(d.profiles[i].parts) : x = PartRow(d, i, j)
  BY <1>1, <1>7, AllIn DEF WriteInv, OnlyInv
<1> HIDE DEF d
<1>8. ASSUME NEW x \in Under(d.id)
      PROVE  x \in RowsOf(d)
  <2>1. x \in rows
    BY <1>8 DEF Under
  <2>2. CASE x.table = "app" /\ x.key = d.id
    BY <2>1, <2>2, <1>5 DEF RowsOf
  <2>3. CASE x.table = "profile" /\ x.under = d.id
    BY <2>1, <2>3, <1>6 DEF RowsOf
  <2>4. CASE x.table = "component" /\
             \E p \in rows : p.table = "profile" /\ p.under = d.id /\ x.under = p.key
    <3>1. PICK p \in rows : p.table = "profile" /\ p.under = d.id /\ x.under = p.key
      BY <2>4
    <3>2. PICK i \in 1 .. Len(d.profiles) : p = ProfileRow(d, i)
      BY <3>1, <1>6
    <3>3. x.under = d.profiles[i].id
      BY <3>1, <3>2 DEF ProfileRow
    <3>4. PICK j \in 1 .. Len(d.profiles[i].parts) : x = PartRow(d, i, j)
      BY <2>1, <2>4, <3>3, <1>7
    <3>5. QED
      BY <3>4 DEF RowsOf
  <2>5. QED
    BY <1>8, <2>2, <2>3, <2>4 DEF Under
<1>9. ASSUME NEW x \in RowsOf(d)
      PROVE  x \in Under(d.id)
  <2>1. CASE x = AppRow(d)
    BY <2>1, <1>2 DEF Under, AppRow
  <2>2. CASE \E i \in 1 .. Len(d.profiles) : x = ProfileRow(d, i)
    BY <2>2, <1>3 DEF Under, ProfileRow
  <2>3. ASSUME NEW i \in 1 .. Len(d.profiles), NEW j \in 1 .. Len(d.profiles[i].parts),
               x = PartRow(d, i, j)
        PROVE  x \in Under(d.id)
    <3>1. x \in rows /\ x.table = "component" /\ x.under = d.profiles[i].id
      BY <2>3, <1>4 DEF PartRow
    <3>2. /\ ProfileRow(d, i) \in rows /\ ProfileRow(d, i).table = "profile"
          /\ ProfileRow(d, i).under = d.id /\ ProfileRow(d, i).key = d.profiles[i].id
      BY <1>3 DEF ProfileRow
    <3>3. QED
      BY <3>1, <3>2 DEF Under
  <2>4. QED
    BY <1>9, <2>1, <2>2, <2>3 DEF RowsOf
<1>10. Under(d.id) = RowsOf(d)
  BY <1>8, <1>9
<1>11. QED
  BY <1>10 DEF d

\* A request that was told created has all its rows in the tables and nothing else is
\* under its keys: the primary keys see to it, not a transaction, which there is none of.
THEOREM CreatedComplete == CatalogSpec => []CreatedIsComplete
<1>1. TypeInv /\ WriteInv => CreatedIsComplete
  BY CompleteWhenCreated DEF CreatedIsComplete
<1>2. QED
  BY <1>1, TypeInvariant, WriteInvariant, PTL

-----------------------------------------------------------------------------
(* What is deployed.                                                       *)

\* What the components found under a profile's key are, for the request that wrote it.
WholeFor(c, profile, parts) == \E i \in 1 .. Len(Description(c).profiles) :
  Description(c).profiles[i].id = profile /\ parts = Elements(Description(c).profiles[i].parts)

\* What reader d has is of one description.
IsOfOne(d) ==
  \E e \in Descriptions : \E i \in 1 .. Len(e.profiles) : ReadFrom(d, e, i)

DeployInv == ReaderInv /\ DeployedIsWhole

\* What is created and what is written stays.
LEMMA CreatedStays ==
  ASSUME TypeInv, [CatalogNext]_catalogVars
  PROVE  /\ rows \subseteq rows'
         /\ \A c \in Callers : pc[c] = "created" =>
              pc'[c] = "created" /\ Description(c)' = Description(c)
<1>1. CASE CODies
  BY <1>1 DEF CODies, Description, Ended
<1>2. ASSUME NEW c \in Callers, CreateApp(c)
      PROVE  /\ pc[c] # "created" /\ rows \subseteq rows'
             /\ \A e \in Callers \ {c} :
                  pc'[e] = pc[e] /\ want'[e] = want[e] /\ have'[e] = have[e]
  <2>1. CASE Check(c) \/ SetUrl(c) \/ ReadFails(c) \/ InsertFails(c)
    BY <2>1 DEF Check, SetUrl, ReadFails, InsertFails, Goto, TypeInv, CatalogTypeOK
  <2>2. CASE Read(c) \/ Insert(c)
    BY <2>2 DEF Read, Insert, Goto, TypeInv, CatalogTypeOK
  <2>3. CASE Stat(c) \/ Clone(c) \/ CloneMeets(c) \/ CloneEnds(c) \/ CloneEndsTorn(c)
    BY <2>3 DEF Stat, Clone, CloneMeets, CloneEnds, CloneEndsTorn, Goto, TypeInv, CatalogTypeOK
  <2>4. CASE CloneFails(c) \/ Open(c) \/ Pull(c) \/ PullFails(c) \/ Purge(c) \/ PurgeFails(c)
    BY <2>4 DEF CloneFails, Open, Pull, PullFails, Purge, PurgeFails, Goto, TypeInv, CatalogTypeOK
  <2>5. QED
    BY <1>2, <2>1, <2>2, <2>3, <2>4 DEF CreateApp, Fetch
<1>3. CASE \E c \in Callers : CreateApp(c)
  BY <1>2, <1>3 DEF Description
<1>4. CASE \E d \in Deployers : CreateDeployment(d)
  BY <1>4 DEF CreateDeployment, FindApp, FindProfile, FindComponents, FindFails, Description
<1>5. CASE UNCHANGED catalogVars
  BY <1>5 DEF catalogVars, Description
<1>6. QED
  BY <1>1, <1>3, <1>4, <1>5 DEF CatalogNext

\* A reader that does not move keeps what it has.
LEMMA ReaderKept ==
  ASSUME TypeInv, DeployInv, [CatalogNext]_catalogVars,
         NEW d \in Deployers, reader'[d] = reader[d], reader[d] # None
  PROVE  /\ \A c \in reader'[d].from :
              pc'[c] = "created" /\ Description(c)'.id = reader'[d].app
         /\ reader'[d].step # "app" => \E x \in rows' :
              x.table = "profile" /\ x.key = reader'[d].profile /\ x.under = reader'[d].app
         /\ reader'[d].step = "deployed" =>
              /\ IsOfOne(d)'
              /\ \A c \in reader'[d].from : WholeFor(c, reader[d].profile, reader[d].parts)'
<1>1. reader[d].from \subseteq Callers
  BY DEF TypeInv, CatalogTypeOK
<1>2. \A c \in reader[d].from : pc[c] = "created" /\ Description(c).id = reader[d].app
  BY DEF DeployInv, ReaderInv
<1>3. \A c \in reader[d].from : pc'[c] = "created" /\ Description(c)' = Description(c)
  BY <1>1, <1>2, CreatedStays
<1>4. reader[d].step # "app" => \E x \in rows :
        x.table = "profile" /\ x.key = reader[d].profile /\ x.under = reader[d].app
  BY DEF DeployInv, ReaderInv
<1>5. rows \subseteq rows'
  BY CreatedStays
<1>6. ASSUME reader[d].step = "deployed", NEW c \in reader[d].from
      PROVE  WholeFor(c, reader[d].profile, reader[d].parts)'
  <2>1. \E i \in 1 .. Len(Description(c).profiles) :
          /\ Description(c).profiles[i].id = reader[d].profile
          /\ reader[d].parts = Elements(Description(c).profiles[i].parts)
    BY <1>6 DEF DeployInv, DeployedIsWhole
  <2>2. QED
    BY <2>1, <1>3, <1>6 DEF WholeFor, Elements
<1>7. reader[d].step = "deployed" => IsOfOne(d)'
  BY DEF DeployInv, DeployedIsWhole, IsOfOne, ReadFrom, Elements
<1>8. QED
  BY <1>2, <1>3, <1>4, <1>5, <1>6, <1>7

\* The components that are found under a profile of an application that is created are
\* those of its description.
LEMMA PartsAreWhole ==
  ASSUME TypeInv, WriteInv, NEW c \in Callers, pc[c] = "created",
         NEW p \in rows, p.table = "profile", p.under = Description(c).id
  PROVE  WholeFor(c, p.key,
           {x.key : x \in {y \in rows : y.table = "component" /\ y.under = p.key}})
<1> DEFINE d == Description(c)
           found == {x.key : x \in {y \in rows : y.table = "component" /\ y.under = p.key}}
<1>1. c \in Writers /\ ProfilesIn(c) = 1 .. Len(d.profiles)
  BY AllIn
<1>2. PICK i \in 1 .. Len(d.profiles) : p = ProfileRow(d, i)
  BY <1>1 DEF WriteInv, OnlyInv
<1>3. p.key = d.profiles[i].id
  BY <1>2 DEF ProfileRow
<1>4. PartsIn(c, i) = 1 .. Len(d.profiles[i].parts)
  BY <1>1, <1>2, AllIn
<1>5. \A j \in 1 .. Len(d.profiles[i].parts) : PartRow(d, i, j) \in rows
  BY <1>1, <1>2, <1>4 DEF WriteInv, HeldInv
<1>6. \A x \in rows : x.table = "component" /\ x.under = p.key =>
        \E j \in 1 .. Len(d.profiles[i].parts) : x = PartRow(d, i, j)
  BY <1>1, <1>2, <1>3, <1>4 DEF WriteInv, OnlyInv
<1>7. \A j : /\ PartRow(d, i, j).table = "component" /\ PartRow(d, i, j).under = p.key
             /\ PartRow(d, i, j).key = d.profiles[i].parts[j]
  BY <1>3 DEF PartRow
<1> HIDE DEF d
<1>8. found = Elements(d.profiles[i].parts)
  <2>1. ASSUME NEW k \in found
        PROVE  k \in Elements(d.profiles[i].parts)
    <3>1. PICK x \in rows : x.table = "component" /\ x.under = p.key /\ k = x.key
      BY <2>1
    <3>2. PICK j \in 1 .. Len(d.profiles[i].parts) : x = PartRow(d, i, j)
      BY <3>1, <1>6
    <3>3. QED
      BY <3>1, <3>2, <1>7 DEF Elements
  <2>2. ASSUME NEW k \in Elements(d.profiles[i].parts)
        PROVE  k \in found
    <3>1. PICK j \in 1 .. Len(d.profiles[i].parts) : k = d.profiles[i].parts[j]
      BY <2>2 DEF Elements
    <3>2. QED
      BY <3>1, <1>5, <1>7
  <2>3. QED
    BY <2>1, <2>2
<1> HIDE DEF found
<1>9. WholeFor(c, p.key, found)
  BY <1>2, <1>3, <1>8 DEF WholeFor, d
<1>10. QED
  BY <1>9 DEF found

\* The reader in place d holds to what it has read.
ReaderHolds(d) ==
  /\ \A c \in reader[d].from : pc[c] = "created" /\ Description(c).id = reader[d].app
  /\ reader[d].step # "app" => \E x \in rows :
       x.table = "profile" /\ x.key = reader[d].profile /\ x.under = reader[d].app
  /\ reader[d].step = "deployed" =>
       /\ IsOfOne(d)
       /\ \A c \in reader[d].from : WholeFor(c, reader[d].profile, reader[d].parts)

LEMMA DeployIsHeld == DeployInv <=> \A d \in Deployers : reader[d] # None => ReaderHolds(d)
  BY DEF DeployInv, ReaderInv, DeployedIsWhole, ReaderHolds, WholeFor, IsOfOne

LEMMA ReaderMoves ==
  ASSUME TypeInv, WriteInv, OfOneInv, DeployInv, NEW d \in Deployers, CreateDeployment(d),
         reader'[d] # None
  PROVE  ReaderHolds(d)'
<1> DEFINE Reader == [step : {"app", "profile", "deployed"}, app : Keys,
                      profile : Keys \union {None}, parts : SUBSET Keys, from : SUBSET Callers]
<1>1. DOMAIN reader = Deployers /\ (reader[d] # None => reader[d] \in Reader)
  BY DEF TypeInv, CatalogTypeOK
<1>2. UNCHANGED <<pc, want, have, rows>>
  BY DEF CreateDeployment, FindApp, FindProfile, FindComponents, FindFails
<1>3. \A c : Description(c)' = Description(c)
  BY <1>2 DEF Description
<1>4. reader[d] # None => ReaderHolds(d)
  BY DeployIsHeld
<1>5. CASE FindApp(d)
  <2>1. PICK x \in rows : reader'[d] =
          [step |-> "app", app |-> x.key, profile |-> None, parts |-> {},
           from |-> {c \in Callers : pc[c] = "created" /\ Description(c).id = x.key}]
    BY <1>1, <1>5 DEF FindApp
  <2>2. QED
    BY <2>1, <1>2, <1>3 DEF ReaderHolds
<1>6. CASE FindProfile(d)
  <2>1. PICK x \in rows :
          /\ reader[d] # None /\ x.table = "profile" /\ x.under = reader[d].app
          /\ reader' = [reader EXCEPT ![d].step = "profile", ![d].profile = x.key]
    BY <1>6 DEF FindProfile
  <2>2. reader'[d] = [[reader[d] EXCEPT !.step = "profile"] EXCEPT !.profile = x.key]
    BY <1>1, <2>1
  <2>3. /\ reader'[d].step = "profile" /\ reader'[d].profile = x.key
        /\ reader'[d].app = reader[d].app /\ reader'[d].from = reader[d].from
    BY <1>1, <2>1, <2>2
  <2>4. QED
    BY <1>2, <1>3, <1>4, <2>1, <2>3 DEF ReaderHolds
<1>7. CASE FindComponents(d)
  <2> DEFINE parts ==
        {x.key : x \in {y \in rows : y.table = "component" /\ y.under = reader[d].profile}}
  <2>1. /\ reader[d] # None /\ reader[d].step = "profile"
        /\ reader' = [reader EXCEPT ![d].step = "deployed", ![d].parts = parts]
    BY <1>7 DEF FindComponents
  <2> HIDE DEF parts
  <2>2. reader'[d] = [[reader[d] EXCEPT !.step = "deployed"] EXCEPT !.parts = parts]
    BY <1>1, <2>1
  <2>3. /\ reader'[d].step = "deployed" /\ reader'[d].parts = parts
        /\ reader'[d].profile = reader[d].profile
        /\ reader'[d].app = reader[d].app /\ reader'[d].from = reader[d].from
    BY <1>1, <2>1, <2>2
  <2>4. PICK p \in rows :
          p.table = "profile" /\ p.key = reader[d].profile /\ p.under = reader[d].app
    BY <1>4, <2>1 DEF ReaderHolds
  <2>5. ASSUME NEW c \in reader[d].from
        PROVE  WholeFor(c, reader[d].profile, parts)
    <3>1. c \in Callers /\ pc[c] = "created" /\ Description(c).id = reader[d].app
      BY <1>1, <1>4, <2>1, <2>5 DEF ReaderHolds
    <3>2. WholeFor(c, p.key,
            {x.key : x \in {y \in rows : y.table = "component" /\ y.under = p.key}})
      BY <3>1, <2>4, PartsAreWhole
    <3>3. QED
      BY <3>2, <2>4 DEF parts
  <2>6. \A c \in reader[d].from : WholeFor(c, reader[d].profile, reader[d].parts)'
    BY <1>3, <2>3, <2>5 DEF WholeFor, Elements
  <2>7. PICK e \in Descriptions : \E i \in 1 .. Len(e.profiles) : IsOf(p, e, i)
    BY <2>4 DEF OfOneInv
  <2>8. PICK i \in 1 .. Len(e.profiles) : IsOf(p, e, i)
    BY <2>7
  <2>9. parts \subseteq Elements(e.profiles[i].parts)
    BY <2>4, <2>8 DEF IsOf, parts
  <2>10. e.id = reader[d].app /\ e.profiles[i].id = reader[d].profile
    BY <2>4, <2>8 DEF IsOf, ProfileRow
  <2>11. IsOfOne(d)'
    BY <2>3, <2>9, <2>10 DEF IsOfOne, ReadFrom, Elements
  <2>12. QED
    BY <1>2, <1>3, <1>4, <2>1, <2>3, <2>4, <2>6, <2>11 DEF ReaderHolds
<1>8. CASE FindFails(d)
  BY <1>1, <1>8 DEF FindFails
<1>9. QED
  BY <1>5, <1>6, <1>7, <1>8 DEF CreateDeployment

LEMMA DeployStep ==
  TypeInv /\ WriteInv /\ OfOneInv /\ DeployInv /\ [CatalogNext]_catalogVars => DeployInv'
<1> SUFFICES ASSUME TypeInv, WriteInv, OfOneInv, DeployInv, [CatalogNext]_catalogVars,
                    NEW d \in Deployers, reader'[d] # None
             PROVE  ReaderHolds(d)'
  BY DeployIsHeld DEF DeployInv, ReaderInv, DeployedIsWhole, ReaderHolds, WholeFor, IsOfOne
<1>1. CASE reader'[d] = reader[d]
  BY <1>1, ReaderKept DEF ReaderHolds
<1>2. CASE reader'[d] # reader[d]
  <2>1. CASE CODies
    BY <1>2, <2>1 DEF CODies
  <2>2. ASSUME NEW c \in Callers, CreateApp(c)
        PROVE  FALSE
    BY <1>2, <2>2 DEF CreateApp, Fetch, Check, SetUrl, Stat, Clone, CloneMeets, CloneEnds,
       CloneEndsTorn, CloneFails, Open, Pull, PullFails, Purge, PurgeFails, Read, ReadFails, Insert,
       InsertFails
  <2>3. ASSUME NEW e \in Deployers, CreateDeployment(e)
        PROVE  e = d
    BY <1>2, <2>3 DEF CreateDeployment, FindApp, FindProfile, FindComponents, FindFails,
       TypeInv, CatalogTypeOK
  <2>4. CASE UNCHANGED catalogVars
    BY <1>2, <2>4 DEF catalogVars
  <2>5. QED
    BY <2>1, <2>2, <2>3, <2>4, ReaderMoves DEF CatalogNext
<1>3. QED
  BY <1>1, <1>2

\* A deployment has components of one description only, though it reads them in three
\* queries while the application is being added or after that has failed half-way; of an
\* application that was created when the request came it has all of its profile's.
THEOREM DeployedWhole == CatalogSpec => []DeployedIsWhole
<1>1. CatalogInit => DeployInv
  BY DEF CatalogInit, DeployInv, ReaderInv, DeployedIsWhole
<1>2. DeployInv => DeployedIsWhole
  BY DEF DeployInv
<1>3. QED
  BY <1>1, <1>2, TypeInvariant, WriteInvariant, OfOneInvariant, DeployStep, PTL DEF CatalogSpec
=============================================================================
