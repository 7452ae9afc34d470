----------------------------- MODULE MCEdgeNode -----------------------------
(* EdgeNode for TLC: requests that share revisions, with and without image. *)
EXTENDS EdgeNode

CONSTANTS d1, d2, d3, v1, v2

Request(d, rev, n) == [deployment |-> d, revision |-> rev, images |-> n, image |-> TRUE]

\* Two deployments of one revision, of which one has two images, one request without
\* images, and what a LO sends.
MCRequests ==
  {Request(d1, v1, 1), Request(d2, v1, 2), Request(d3, v2, 0), FromLO(d3, v2)}
=============================================================================
