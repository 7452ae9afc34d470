----------------------------- MODULE AppCatalog -----------------------------
(***************************************************************************)
(* The catalogue of applications at the CO.  A request to add one fetches  *)
(* the registry into a clone that all requests share, reads the            *)
(* application's description from it and writes it to the database row by  *)
(* row.  A request for a deployment reads the rows back, table by table.   *)
(* Each request is a goroutine; nothing keeps them apart.                  *)
(***************************************************************************)
EXTENDS Naturals, Sequences

CONSTANTS Callers,     \* the requests to add an application
          Deployers,   \* the requests for a deployment
          Registries,  \* the repositories that a request may name
          Apps,        \* the directories of a registry: the application's name
          Described,   \* the descriptions: by registry and directory, or None
          Contains,    \* <<a, name>>: the application's name contains the directory's
          None         \* nothing

\* A description: [id, name, profiles], a profile: [id, parts].
Descriptions == {Described[r][a] : r \in Registries, a \in Apps} \ {None}

ASSUME CatalogAssumption ==
  /\ DOMAIN Described = Registries
  /\ \A r \in Registries : DOMAIN Described[r] = Apps
  /\ None \notin Registries /\ None \notin Callers
  /\ \A d \in Descriptions :
       /\ Len(d.profiles) \in Nat
       /\ \A i \in 1 .. Len(d.profiles) : Len(d.profiles[i].parts) \in Nat

VARIABLES url,     \* the fetcher's RepoURL, set by every request
          cache,   \* the clone in LocalDir: [of, state], or None
          pc,      \* where a request to add is
          want,    \* what it asks for: [app, registry]
          have,    \* the registry its description was read from
          at,      \* the row that it inserts next: [profile, part]
          rows,    \* the tables: [table, key, under]
          reader   \* a request for a deployment: [step, app, profile, parts, from]

catalogVars == <<url, cache, pc, want, have, at, rows, reader>>
fetchVars == <<url, cache>>

Ended == {"created", "rejected", "failed"}
Steps == {"new", "set", "stat", "clone", "cloning", "open", "pull", "purge", "read", "insert"}
           \union Ended

-----------------------------------------------------------------------------
(* The rows of a description: its own, and of each profile one and one for *)
(* each of its components.                                                 *)

AppRow(d) == [table |-> "app", key |-> d.id, under |-> d.name]
ProfileRow(d, i) == [table |-> "profile", key |-> d.profiles[i].id, under |-> d.id]
PartRow(d, i, j) ==
  [table |-> "component", key |-> d.profiles[i].parts[j], under |-> d.profiles[i].id]

RowsOf(d) ==
  {AppRow(d)} \union {ProfileRow(d, i) : i \in 1 .. Len(d.profiles)}
    \union UNION {{PartRow(d, i, j) : j \in 1 .. Len(d.profiles[i].parts)} :
                    i \in 1 .. Len(d.profiles)}

\* They are inserted in the order of two nested loops: <<0, 0>> is the place of the
\* application's row, <<i, 0>> that of a profile's, <<i, j>> that of a component's.
Parts(d, i) == IF i = 0 THEN 0 ELSE Len(d.profiles[i].parts)
IsPlace(d, p) == p.profile \in 0 .. Len(d.profiles) /\ p.part \in 0 .. Parts(d, p.profile)
RowAt(d, p) ==
  IF p.profile = 0 THEN AppRow(d)
  ELSE IF p.part = 0 THEN ProfileRow(d, p.profile) ELSE PartRow(d, p.profile, p.part)
After(d, p) ==
  IF p.part < Parts(d, p.profile) THEN [profile |-> p.profile, part |-> p.part + 1]
                                  ELSE [profile |-> p.profile + 1, part |-> 0]

Description(c) == Described[have[c]][want[c].app]
Elements(s) == {s[i] : i \in 1 .. Len(s)}

AllRows == UNION {RowsOf(d) : d \in Descriptions}
Keys == {x.key : x \in AllRows}
Wanted == [app : Apps, registry : Registries]

\* Mutant: a profile gets a number as well.
ConflictOfApps(row) ==
  /\ row.table = "app"
  /\ \E r \in rows : r.table = row.table /\ r.key = row.key

\* The primary keys: of an application its id, of a profile too; a component gets a number.
Conflict(row) ==
  /\ row.table # "component"
  /\ \E r \in rows : r.table = row.table /\ r.key = row.key

\* What a query by application finds: the row, its profiles, their components.
Under(id) ==
  LET profiles == {r \in rows : r.table = "profile" /\ r.under = id}
  IN {r \in rows : r.table = "app" /\ r.key = id} \union profiles
       \union {r \in rows : r.table = "component" /\ \E p \in profiles : r.under = p.key}

CatalogTypeOK ==
  /\ url \in Registries \union {None}
  /\ cache \in [of : Registries, state : {"whole", "torn"} \union Callers] \union {None}
  /\ pc \in [Callers -> Steps]
  /\ want \in [Callers -> Wanted \union {None}]
  /\ have \in [Callers -> Registries \union {None}]
  /\ at \in [Callers -> [profile : Nat, part : Nat]]
  /\ \A c \in Callers : pc[c] = "insert" => IsPlace(Description(c), at[c])
  /\ rows \subseteq AllRows
  /\ reader \in [Deployers -> {None} \union
       [step : {"app", "profile", "deployed"}, app : Keys, profile : Keys \union {None},
        parts : SUBSET Keys, from : SUBSET Callers]]

CatalogInit ==
  /\ url = None /\ cache = None
  /\ pc = [c \in Callers |-> "new"]
  /\ want = [c \in Callers |-> None] /\ have = [c \in Callers |-> None]
  /\ at = [c \in Callers |-> [profile |-> 0, part |-> 0]]
  /\ rows = {}
  /\ reader = [d \in Deployers |-> None]

-----------------------------------------------------------------------------
(* CreateApp, until the description is fetched.                            *)

Goto(c, step) == pc' = [pc EXCEPT ![c] = step]

\* The query for duplicates compares the names of applications with the directory.
Check(c) == \E a \in Apps, r \in Registries :
  /\ pc[c] = "new"
  /\ want' = [want EXCEPT ![c] = [app |-> a, registry |-> r]]
  /\ \/ Goto(c, "failed")
     \/ Goto(c, IF \E x \in rows : x.table = "app" /\ <<a, x.under>> \in Contains
                THEN "rejected" ELSE "set")
  /\ UNCHANGED <<fetchVars, have, at, rows, reader>>

SetUrl(c) ==
  /\ pc[c] = "set"
  /\ url' = want[c].registry
  /\ Goto(c, "stat")
  /\ UNCHANGED <<cache, want, have, at, rows, reader>>

\* CloneOrPull: is there a .git in the directory?
Stat(c) ==
  /\ pc[c] = "stat"
  /\ Goto(c, IF cache = None THEN "clone" ELSE "open")
  /\ UNCHANGED <<fetchVars, want, have, at, rows, reader>>

\* The clone is made of what the fetcher's RepoURL says by then.
Clone(c) ==
  /\ pc[c] = "clone" /\ cache = None
  /\ cache' = [of |-> url, state |-> c]
  /\ Goto(c, "cloning")
  /\ UNCHANGED <<url, want, have, at, rows, reader>>

\* Another request has cloned in the meantime, or is about to: either this one is
\* refused, or both write to the directory.
CloneMeets(c) ==
  /\ pc[c] = "clone" /\ cache # None
  /\ \/ Goto(c, "failed") /\ UNCHANGED cache
     \/ /\ cache.state \in Callers
        /\ \E r \in {url, cache.of} : cache' = [of |-> r, state |-> "torn"]
        /\ Goto(c, "cloning")
  /\ UNCHANGED <<url, want, have, at, rows, reader>>

Undisturbed(c) == cache # None /\ cache.state = c

CloneEnds(c) ==
  /\ pc[c] = "cloning" /\ Undisturbed(c)
  /\ cache' = [cache EXCEPT !.state = "whole"]
  /\ Goto(c, "read")
  /\ UNCHANGED <<url, want, have, at, rows, reader>>

\* The directory was removed or written to by others: what is left may be anything.
CloneEndsTorn(c) ==
  /\ pc[c] = "cloning" /\ ~Undisturbed(c)
  /\ cache' \in {cache} \union
       (IF cache = None THEN {[of |-> r, state |-> "torn"] : r \in Registries}
                        ELSE {[cache EXCEPT !.state = "torn"], [cache EXCEPT !.state = "whole"]})
  /\ Goto(c, "read")
  /\ UNCHANGED <<url, want, have, at, rows, reader>>

\* PlainClone removes the directory, unless something was in it when the clone began.
CloneFails(c) ==
  /\ pc[c] = "cloning"
  /\ cache' \in {None, IF Undisturbed(c) THEN [cache EXCEPT !.state = "torn"] ELSE cache}
  /\ Goto(c, "failed")
  /\ UNCHANGED <<url, want, have, at, rows, reader>>

Whole == cache # None /\ cache.state = "whole"

\* PlainOpen: it may find less than a repository.
Open(c) ==
  /\ pc[c] = "open"
  /\ \/ cache # None /\ Goto(c, "pull")
     \/ ~Whole /\ Goto(c, "purge")
  /\ UNCHANGED <<fetchVars, want, have, at, rows, reader>>

\* The clone's own origin is pulled, whatever RepoURL says.  A torn clone is put right
\* by it, or is up to date as far as its references go.
Pull(c) ==
  /\ pc[c] = "pull" /\ cache # None
  /\ \/ UNCHANGED cache
     \/ cache.state = "torn" /\ cache' = [cache EXCEPT !.state = "whole"]
  /\ Goto(c, "read")
  /\ UNCHANGED <<url, want, have, at, rows, reader>>

PullFails(c) ==
  /\ pc[c] = "pull"
  /\ Goto(c, "purge")
  /\ UNCHANGED <<fetchVars, want, have, at, rows, reader>>

\* Mutant: the directory is opened again without a look whether it is there.
PurgeAndOpen(c) ==
  /\ pc[c] = "purge"
  /\ cache' = None
  /\ Goto(c, "open")
  /\ UNCHANGED <<url, want, have, at, rows, reader>>

\* RemoveAll, whoever uses the directory, and once more.
Purge(c) ==
  /\ pc[c] = "purge"
  /\ cache' = None
  /\ Goto(c, "stat")
  /\ UNCHANGED <<url, want, have, at, rows, reader>>

\* It cannot be removed, or not all of it: nobody looks at the error.
PurgeFails(c) ==
  /\ pc[c] = "purge" /\ cache # None
  /\ cache' \in {cache, [cache EXCEPT !.state = "torn"]}
  /\ Goto(c, "stat")
  /\ UNCHANGED <<url, want, have, at, rows, reader>>

-----------------------------------------------------------------------------
(* CreateApp: the description, and Persist.                                *)

Read(c) ==
  /\ pc[c] = "read"
  /\ cache # None /\ Described[cache.of][want[c].app] # None
  /\ have' = [have EXCEPT ![c] = cache.of]
  /\ at' = [at EXCEPT ![c] = [profile |-> 0, part |-> 0]]
  /\ Goto(c, "insert")
  /\ UNCHANGED <<fetchVars, want, rows, reader>>

\* No such file, or none that can be parsed.
ReadFails(c) ==
  /\ pc[c] = "read"
  /\ Whole => Described[cache.of][want[c].app] = None
  /\ Goto(c, "failed")
  /\ UNCHANGED <<fetchVars, want, have, at, rows, reader>>

NextRow(c) == RowAt(Description(c), at[c])
IsPast(c, p) == p.profile > Len(Description(c).profiles)

\* Mutant: the end of the rows is seen one row late.
InsertOneMore(c) ==
  /\ pc[c] = "insert" /\ ~Conflict(NextRow(c))
  /\ rows' = rows \union {NextRow(c)}
  /\ at' = [at EXCEPT ![c] = After(Description(c), @)]
  /\ Goto(c, IF IsPast(c, at[c]) THEN "created" ELSE "insert")
  /\ UNCHANGED <<fetchVars, want, have, reader>>

\* Mutant: the request is answered before the last row is in.
InsertInBackground(c) ==
  /\ pc[c] \in {"insert", "created"} /\ ~IsPast(c, at[c]) /\ ~Conflict(NextRow(c))
  /\ rows' = rows \union {NextRow(c)}
  /\ at' = [at EXCEPT ![c] = After(Description(c), @)]
  /\ Goto(c, IF ~IsPast(c, at'[c]) /\ ~IsPast(c, After(Description(c), at'[c]))
             THEN "insert" ELSE "created")
  /\ UNCHANGED <<fetchVars, want, have, reader>>

\* The next row, in a statement of its own; after the last one the request is answered.
Insert(c) ==
  /\ pc[c] = "insert" /\ ~Conflict(NextRow(c))
  /\ rows' = rows \union {NextRow(c)}
  /\ at' = [at EXCEPT ![c] = After(Description(c), @)]
  /\ Goto(c, IF IsPast(c, at'[c]) THEN "created" ELSE "insert")
  /\ UNCHANGED <<fetchVars, want, have, reader>>

\* A key that exists, or an error of the database: what is written stays.
InsertFails(c) ==
  /\ pc[c] = "insert"
  /\ Goto(c, "failed")
  /\ UNCHANGED <<fetchVars, want, have, at, rows, reader>>

-----------------------------------------------------------------------------
(* CreateDeployment: application, profile, components, in three queries.   *)

\* It is deployed by id; from is the request that was told it is created, if any.
FindApp(d) == \E x \in rows :
  /\ reader[d] = None /\ x.table = "app"
  /\ reader' = [reader EXCEPT ![d] =
       [step |-> "app", app |-> x.key, profile |-> None, parts |-> {},
        from |-> {c \in Callers : pc[c] = "created" /\ Description(c).id = x.key}]]
  /\ UNCHANGED <<fetchVars, pc, want, have, at, rows>>

\* The one profile of the type that is asked for.
FindProfile(d) == \E x \in rows :
  /\ reader[d] # None /\ reader[d].step = "app"
  /\ x.table = "profile" /\ x.under = reader[d].app
  /\ reader' = [reader EXCEPT ![d].step = "profile", ![d].profile = x.key]
  /\ UNCHANGED <<fetchVars, pc, want, have, at, rows>>

FindComponents(d) ==
  /\ reader[d] # None /\ reader[d].step = "profile"
  /\ reader' = [reader EXCEPT ![d].step = "deployed",
       ![d].parts = {x.key : x \in {y \in rows : y.table = "component" /\ y.under = reader[d].profile}}]
  /\ UNCHANGED <<fetchVars, pc, want, have, at, rows>>

\* Not found, or an error of the database.
FindFails(d) ==
  /\ reader[d] # None /\ reader[d].step \in {"app", "profile"}
  /\ reader' = [reader EXCEPT ![d] = None]
  /\ UNCHANGED <<fetchVars, pc, want, have, at, rows>>

-----------------------------------------------------------------------------
\* The CO dies and starts again: requests end, a clone stays as far as it had come.
CODies ==
  /\ url' = None
  /\ cache' = IF cache # None /\ cache.state \in Callers
              THEN [cache EXCEPT !.state = "torn"] ELSE cache
  /\ pc' = [c \in Callers |-> IF pc[c] \in Ended \union {"new"} THEN pc[c] ELSE "failed"]
  /\ reader' = [d \in Deployers |->
       IF reader[d] # None /\ reader[d].step # "deployed" THEN None ELSE reader[d]]
  /\ UNCHANGED <<want, have, at, rows>>

Fetch(c) ==
  \/ Stat(c) \/ Clone(c) \/ CloneMeets(c) \/ CloneEnds(c) \/ CloneEndsTorn(c)
  \/ CloneFails(c) \/ Open(c) \/ Pull(c) \/ PullFails(c)
  \/ Purge(c) \/ PurgeFails(c)
CreateApp(c) ==
  Check(c) \/ SetUrl(c) \/ Fetch(c) \/ Read(c) \/ ReadFails(c) \/ Insert(c) \/ InsertFails(c)
CreateDeployment(d) ==
  FindApp(d) \/ FindProfile(d) \/ FindComponents(d) \/ FindFails(d)

CatalogNext ==
  \/ CODies
  \/ \E c \in Callers : CreateApp(c)
  \/ \E d \in Deployers : CreateDeployment(d)

CatalogSpec == CatalogInit /\ [][CatalogNext]_catalogVars

\* The goroutine of a request runs, and git and the database answer it.
FairCatalogSpec ==
  CatalogSpec /\ \A c \in Callers : WF_catalogVars(pc[c] # "new" /\ CreateApp(c))

-----------------------------------------------------------------------------
\* A request that was told created has all its rows in the tables, and nothing of another
\* description is among them, whatever ran beside it or had failed before.
CreatedIsComplete ==
  \A c \in Callers : pc[c] = "created" =>
    Under(Description(c).id) = RowsOf(Description(c))

\* The profile that a deployment has read, as description e has it.
ReadFrom(d, e, i) ==
  /\ e.id = reader[d].app /\ e.profiles[i].id = reader[d].profile
  /\ reader[d].parts \subseteq Elements(e.profiles[i].parts)

\* A deployment gets components of one description only, also of an application whose rows
\* are half in, were left so by a failure, or are put in by two requests at once; and if
\* the application was created when the request came, all the components of its profile.
DeployedIsWhole ==
  \A d \in Deployers :
    reader[d] # None /\ reader[d].step = "deployed" =>
      /\ \E e \in Descriptions : \E i \in 1 .. Len(e.profiles) : ReadFrom(d, e, i)
      /\ \A c \in reader[d].from : \E i \in 1 .. Len(Description(c).profiles) :
           /\ Description(c).profiles[i].id = reader[d].profile
           /\ reader[d].parts = Elements(Description(c).profiles[i].parts)

\* Every request comes to an end: requests that remove the clone under each other and
\* start again do not keep each other busy for ever.  Only a clone that cannot be removed
\* does, however often it is tried: CloneOrPull calls itself without end.
RequestsAnswered ==
  \A c \in Callers :
    \/ pc[c] # "new" ~> pc[c] \in Ended
    \/ []<><<PurgeFails(c)>>_catalogVars

\* The application that is created is the one of the repository that was asked for.
CreatedFromItsRepo ==
  \A c \in Callers : pc[c] = "created" => have[c] = want[c].registry
=============================================================================
