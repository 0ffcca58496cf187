---------------------------- MODULE MCNavigation -----------------------------
(* Instances of Navigation: which interventions each configuration makes.  *)
EXTENDS Navigation

Anything   == {"operator", "failure", "harness", "shutdown"}
Breakdowns == {"failure", "shutdown"}
==============================================================================
