---------------------------- MODULE MCAppCatalog ----------------------------
(* AppCatalog for TLC: two registries that describe the same directories.  *)
EXTENDS AppCatalog

CONSTANTS r1, r2,   \* two registries
          a1, a2    \* two directories

Profile(id, parts) == [id |-> id, parts |-> parts]

\* a1 is the same application in both, in different versions; a2 is in the second only
\* and has a profile of the same id.
MCDescribed ==
  [r \in {r1, r2} |-> [a \in {a1, a2} |->
    CASE r = r1 /\ a = a1 -> [id |-> "i1", name |-> "one", profiles |-> <<Profile("p", <<"x", "y">>)>>]
      [] r = r2 /\ a = a1 -> [id |-> "i1", name |-> "one", profiles |-> <<Profile("q", <<"x">>)>>]
      [] r = r2 /\ a = a2 -> [id |-> "i2", name |-> "two", profiles |-> <<Profile("p", <<"z">>), Profile("s", <<"x">>)>>]
      [] OTHER            -> None]]

\* The first directory's name is part of its application's name, the second's is not.
MCContains == {<<a1, "one">>}
=============================================================================
