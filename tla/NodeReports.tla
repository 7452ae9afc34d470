----------------------------- MODULE NodeReports -----------------------------
(***************************************************************************)
(* What an edge node says of the requests it handles: the last report on   *)
(* each.  EdgeNode, the listener with its containers, implements it;       *)
(* DeploymentStatus takes the reports of its nodes from it.                *)
(***************************************************************************)
CONSTANTS Keys,     \* what is reported on
          Bare,     \* those that start nothing: no image listed, or a wasm node
          Imaged,   \* those whose request says which image to fetch
          Several,  \* those that list more than one image
          None      \* no report yet

VARIABLE said

Final == {"installed", "failed"}
Progress == {"pending", "installing"} \union Final

\* What may be reported next.  "completed" ends a request, however it went.
After(k, s) ==
  CASE s = None         -> IF k \in Bare THEN {"completed"} ELSE {"pending"}
    [] s = "pending"    -> {"installing"}
    [] s = "installing" -> {"failed"} \union (IF k \in Imaged THEN {"installed"} ELSE {})
    [] s = "installed"  -> {"completed"} \union (IF k \in Several THEN {"pending"} ELSE {})
    [] s = "failed"     -> {"completed"}
    [] OTHER            -> {}

ReportsInit == said = [k \in Keys |-> None]

Say(k) == \E s \in After(k, said[k]) : said' = [said EXCEPT ![k] = s]

ReportsSpec == ReportsInit /\ [][\E k \in Keys : Say(k)]_said
=============================================================================
