------------------------------- MODULE Workbench -------------------------------
(***************************************************************************)
(* Model checking of the parts of alred that work on their own: the        *)
(* renderer of OverlayRender, the lab qualification of Qualification, the  *)
(* direct pushes of FleetPush and ClabApply, the packages of               *)
(* EvidencePackages, the comparisons of HealthComparison and               *)
(* RouteComparison and the collect commands of Collection.  They share no  *)
(* state.  An engineer takes up one of them and stays with it, so that one *)
(* run checks all of them, each with its own variables.                    *)
(***************************************************************************)
EXTENDS Integers

CONSTANTS
  Vlans, L2Vnis, Vrfs, L3Vnis,                    \* of OverlayRender
  LabDevices, Lagging, MaxEvents,                 \* of Qualification
  Nodes, Workers, Inputs, Earlier, MaxRuns, MaxEdits, \* of FleetPush and ClabApply
  MaxPackages, Sensitive, KeepLatest, Procs, MaxImports, MaxKills, \* of EvidencePackages
  Names, Errors, RouteCounts, ErrorWarn, ErrorFail, RouteWarn, RouteFail,
  NtpRequired,                                    \* of HealthComparison
  NextHops, Costlier, MaxPaths, MinPaths,         \* of RouteComparison
  Inventory, Nxos, WithRun, MaxCollections          \* of Collection

ASSUME WorkbenchAssumption ==
  /\ 0 \notin Vlans /\ "none" \notin Vrfs
  /\ LabDevices \in Nat \ {0} /\ Lagging \subseteq 1 .. LabDevices /\ MaxEvents \in Nat
  /\ Nodes \in Nat \ {0} /\ Workers \in Nat \ {0} /\ MaxRuns \in Nat /\ MaxEdits \in Nat
  /\ Inputs # {} /\ (Inputs \cup Earlier) \cap {"boot", "part", "none"} = {}
  /\ MaxPackages \in Nat /\ KeepLatest \in Nat /\ MaxImports \in Nat /\ MaxKills \in Nat
  /\ Sensitive \subseteq 1 .. MaxPackages
  /\ Errors \subseteq Nat /\ RouteCounts \subseteq Nat /\ NtpRequired \in BOOLEAN
  /\ ErrorWarn \in 1 .. ErrorFail /\ RouteWarn \in 1 .. RouteFail
  /\ Costlier \subseteq NextHops /\ MaxPaths \in Nat \ {0} /\ MinPaths \subseteq Nat \ {0}
  /\ Nxos \cup WithRun \subseteq Inventory /\ MaxCollections \in Nat

VARIABLES
  tool,                                           \* what the engineer uses
  stage, change, config, sent, rendered,          \* of OverlayRender
  run, start, events, used, wf, record, raw, before, after, evals, applied, restored,
  verified, session, stale,                       \* of Qualification
  live, startup, edits, runs, touched, job, current, \* of FleetPush and ClabApply
  created, archives, checksums, dirs, imports, latest, kills, jobs, \* of EvidencePackages
  facts, how, overall,                            \* of HealthComparison
  sides, policy, check,                           \* of RouteComparison
  collection, steps, reached, threads, files, told, snapshot \* of Collection

renderVars == <<stage, change, config, sent, rendered>>
qualificationVars ==
  <<run, start, events, used, wf, record, raw, before, after, evals, applied, restored,
    verified, session, stale>>
labVars == <<live, startup, edits, runs, touched, job, current>>
evidenceVars == <<created, archives, checksums, dirs, imports, latest, kills, jobs>>
compareVars == <<facts, how, overall, sides, policy, check>>
collectVars == <<collection, steps, reached, threads, files, told, snapshot>>
vars ==
  <<tool, renderVars, qualificationVars, labVars, evidenceVars, compareVars, collectVars>>

Render == INSTANCE OverlayRender WITH before <- rendered
Qualify == INSTANCE Qualification WITH N <- LabDevices, touched <- used, job <- session
Lab == INSTANCE ClabApply WITH N <- Nodes
Evidence == INSTANCE EvidencePackages
Health == INSTANCE HealthComparison
Routing == INSTANCE RouteComparison
Snap == INSTANCE Collection WITH Hosts <- Inventory, jobs <- threads

\* The variables of the tools not used have one initial value.
Init ==
  /\ tool \in {"render", "qualify", "lab", "evidence", "health", "routes", "collect"}
  /\ Render!Init /\ Qualify!Init /\ Lab!Init /\ Evidence!Init /\ Health!Init /\ Routing!Init
  /\ Snap!Init
  /\ tool # "lab" => current = "none"
  /\ tool # "qualify" => start = run

Next ==
  /\ UNCHANGED tool
  /\ \/ /\ tool = "render" /\ Render!Next
        /\ UNCHANGED <<qualificationVars, labVars, evidenceVars, compareVars, collectVars>>
     \/ /\ tool = "qualify" /\ Qualify!Next
        /\ UNCHANGED <<renderVars, labVars, evidenceVars, compareVars, collectVars>>
     \/ /\ tool = "lab" /\ Lab!Next
        /\ UNCHANGED <<renderVars, qualificationVars, evidenceVars, compareVars>>
        /\ UNCHANGED collectVars
     \/ /\ tool = "evidence" /\ Evidence!Next
        /\ UNCHANGED <<renderVars, qualificationVars, labVars, compareVars, collectVars>>
     \/ /\ tool = "health" /\ Health!Next
        /\ UNCHANGED <<renderVars, qualificationVars, labVars, evidenceVars, collectVars>>
        /\ UNCHANGED <<sides, policy, check>>
     \/ /\ tool = "routes" /\ Routing!Next
        /\ UNCHANGED <<renderVars, qualificationVars, labVars, evidenceVars, collectVars>>
        /\ UNCHANGED <<facts, how, overall>>
     \/ /\ tool = "collect" /\ Snap!Next
        /\ UNCHANGED <<renderVars, qualificationVars, labVars, evidenceVars, compareVars>>

Spec == Init /\ [][Next]_vars

-----------------------------------------------------------------------------
(* The properties of the tools, over their own variables                   *)

\* Every variable of the tool in use has the values its module gives it.
TypeOK ==
  /\ tool = "qualify" => Qualify!TypeOK
  /\ tool = "lab" => Lab!TypeOK
  /\ tool = "evidence" => Evidence!TypeOK
  /\ tool = "health" => Health!TypeOK
  /\ tool = "routes" => Routing!TypeOK
  /\ tool = "collect" => Snap!TypeOK

\* The rollback configuration leaves no resource behind and takes none that was there
\* before, wherever the apply stopped; of their lines only attributes the plan does not
\* own differ, and the L3VNI of a VRF is gone.
RollbackScoped == Render!RollbackScoped

\* An accepted plan replaces nothing of the before configuration but RDs and what an SVI
\* has besides MTU, addresses, gateway and VRF.
ForwardKeepsCompared == Render!ForwardKeepsCompared

\* What an accepted plan configures is what its evaluation looks for, but for an SVI with
\* a VRF the plan does not state.
AppliedIsConfigured == Render!AppliedIsConfigured

\* No lab device keeps a candidate, in running-config or in startup-config.
CandidateGone == Qualify!CandidateGone

\* The baseline save writes the baseline, and only when all devices have it, apart from
\* devices somebody has used since their inspection.
SaveKeepsBaseline == Qualify!SaveKeepsBaseline

\* Fewer hosts are touched after the first failure than there are workers.
FailFastStops == Lab!FailFastStops

\* A push saves no host with a failed or ignored command.
SavesOnlyAccepted == Lab!SavesOnlyAccepted

\* When current.json comes to name an input, the nodes have it, apart from nodes the
\* connect check passed over, nodes with ignored errors, and what somebody changed since
\* their verification.
CurrentIsLive == Lab!CurrentIsLive

\* A lab node is saved with what its verification has seen, unless somebody changed it
\* in between.
SavedIsVerified == Lab!SavedIsVerified

\* The link "latest" of the imports is never broken and never names half a directory, one
\* import at a time, and none of a package that prune-imports is removing.
LatestComplete == Evidence!LatestComplete

\* Retention never leaves a group of packages without a verified one.
NewestKept == Evidence!NewestKept

\* A health comparison in which something stopped working does not pass.
NothingLostPasses == Health!NothingLostPasses

\* A route check passes only when the forwarding of the prefix is accounted for.
RoutesAccounted == Routing!RoutesAccounted

\* No answer of an earlier collection stands in for one of the last, in its Snapshot.
OwnAnswers == Snap!OwnAnswers
=============================================================================
