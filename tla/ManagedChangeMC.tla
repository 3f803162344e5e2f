---------------------------- MODULE ManagedChangeMC ----------------------------
(***************************************************************************)
(* Bounds of the run change_policy.                                        *)
(***************************************************************************)
EXTENDS ManagedChange

\* Of the crashes only those of an approve are followed; of what comes after them only
\* what has two records of different policies, no hand edit, expiry or close.  A
\* device with unsaved configuration is not edited besides, and its approval stays.
PolicyBound ==
  /\ faults > 0 => wf = "plan_ready" \/ approval # agreed
  /\ faults > 0 \/ (\E h \in Hosts : start[h].other = 0) =>
       edits = 0 /\ ~expired /\ ~closing
=============================================================================
