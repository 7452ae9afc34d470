------------------------ MODULE MCLocalOrchestrator ------------------------
(* LocalOrchestrator for TLC: deployments of two sites.                    *)
EXTENDS LocalOrchestrator

CONSTANTS here, there,   \* two sites
          foreign        \* a deployment of the other site

MCSiteOf == [d \in Deployments |-> IF d = foreign THEN there ELSE here]
=============================================================================
