---------------------------- MODULE MCConfigStore ----------------------------
(***************************************************************************)
(* ConfigStore for TLC: the view of its runs.                              *)
(***************************************************************************)
EXTENDS ConfigStore

\* For the run with faults: no guard reads promised or result, and of its properties
\* only the type invariant does.
WithoutHistory == <<file, mem, buf, pc, mode, op, spoiled>>
=============================================================================
