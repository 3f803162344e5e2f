------------------------------- MODULE ClabApply -------------------------------
(***************************************************************************)
(* clab-apply-config (cmd_clab_apply_config of alred/cli.py, with          *)
(* alred/clab_runtime.py): a Lab Transform Manifest is brought to the      *)
(* nodes of a lab.  It waits until the nodes are up, scans for risks,      *)
(* takes over what an earlier success left intact, pushes the rest with    *)
(* the code of FleetPush, verifies each node over a new connection, saves, *)
(* and moves current.json.  An input stands for a topology and a Manifest. *)
(***************************************************************************)
EXTENDS FleetPush

VARIABLES
  current  \* the input current.json names, "none" if there is no such file

vars == <<fleet, current>>

\* A new lab, or one that an earlier success has left, saved or not.
Init ==
  /\ current \in Earlier \cup {"none"}
  /\ FleetInit(IF current = "none" THEN "boot" ELSE current)

Applying(stage) == job.kind = "clab" /\ job.stage = stage
Goto(stage) == job' = [job EXCEPT !.stage = stage]

-----------------------------------------------------------------------------
(* Before the push                                                         *)

BeginApply ==
  /\ job = NoJob /\ runs < MaxRuns /\ runs' = runs + 1
  /\ \E want \in Inputs, failFast, ignore \in BOOLEAN :
       job' = [NoJob EXCEPT !.kind = "clab", !.stage = "wait", !.want = want,
                 !.failFast = failFast, !.ignore = ignore]
  /\ touched' = {} /\ UNCHANGED <<live, startup, edits, current>>

\* wait_for_clab_nodes polls until every node is ready.
NodesReady ==
  /\ Applying("wait") /\ Goto("risk")
  /\ UNCHANGED <<live, startup, edits, runs, touched, current>>

\* A node failed or was not ready in time, the risk scan blocks, or the operator
\* declines its warnings: the attempt ends before the devices are touched.
GiveUp ==
  /\ Applying("wait") \/ Applying("risk") \/ Applying("reused")
  /\ Done
  /\ UNCHANGED <<live, startup, edits, runs, touched, current>>

\* Unless all is to be applied again (--reapply-all), nodes of the current success are
\* looked at first.
ScanRisks ==
  /\ Applying("risk")
  /\ \/ /\ current = job.want
        /\ job' = [job EXCEPT !.stage = "reuse", !.batch = Hosts]
     \/ job' = [job EXCEPT !.stage = "reused", !.todo = Hosts]
  /\ UNCHANGED <<live, startup, edits, runs, touched, current>>

\* verify_nxos_lab_running_config.
Verification(h) ==
  IF live[h].base # job.want THEN "FAILED"
  ELSE IF live[h].extra THEN "VERIFIED_WITH_DIFF" ELSE "VERIFIED"

\* Node by node in the order of the names: it is taken over if its running-config is
\* verified now.
Reuse(h) ==
  /\ Applying("reuse") /\ h \in job.batch /\ \A g \in job.batch : h <= g
  /\ LET stage == IF job.batch = {h} THEN "reused" ELSE "reuse"
     IN \/ /\ Verification(h) = "VERIFIED"
           /\ job' = [job EXCEPT !.batch = @ \ {h}, !.verdict[h] = "VERIFIED",
                                 !.reused = @ \cup {h}, !.stage = stage]
           /\ touched' = touched \ {h}
        \/ /\ job' = [job EXCEPT !.batch = @ \ {h}, !.todo = @ \cup {h}, !.stage = stage]
           /\ UNCHANGED touched
  /\ UNCHANGED <<live, startup, edits, runs, current>>

\* cmd_push_config_dir, for the nodes that are left.
CallPush ==
  /\ Applying("reused")
  /\ Goto(IF job.todo = {} THEN "pushed" ELSE "connect")
  /\ UNCHANGED <<live, startup, edits, runs, touched, current>>

-----------------------------------------------------------------------------
(* After the push                                                          *)

\* FAILED_PUSH ends the attempt; otherwise the hosts pushed are verified.
PushResult ==
  /\ Applying("pushed")
  /\ IF job.failed # {} THEN Done
     ELSE job' = [job EXCEPT !.batch = @ \cup job.ok,
                             !.stage = IF job.ok = {} THEN "saves" ELSE "verify"]
  /\ UNCHANGED <<live, startup, edits, runs, touched, current>>

\* A new connection with the credentials of the lab, the removal of the bootstrap
\* user, the comparison; without one of them the verdict is UNKNOWN.
Verify(h) ==
  /\ Applying("verify") /\ h \in job.batch
  /\ \E v \in {Verification(h), "UNKNOWN"} :
       job' = [job EXCEPT !.verdict[h] = v, !.batch = @ \ {h},
                          !.stage = IF job.batch = {h} THEN "saves" ELSE "verify"]
  /\ touched' = touched \ {h}
  /\ UNCHANGED <<live, startup, edits, runs, current>>

\* MUTANT of Savable: a host is saved because it was pushed.
SavableAll(acceptDiff) == job.ok

Savable(acceptDiff) ==
  {h \in job.ok : \/ job.verdict[h] = "VERIFIED"
                  \/ job.verdict[h] = "VERIFIED_WITH_DIFF" /\ acceptDiff}

\* --write-memory or not: the operator, or an option, accepts differences; with
\* ignored errors nothing is saved.
BeginApplySaves ==
  /\ Applying("saves")
  /\ \E acceptDiff \in BOOLEAN :
       \E batch \in {{}} \cup (IF job.ignore THEN {} ELSE {Savable(acceptDiff)}) :
         job' = [job EXCEPT !.batch = batch,
                            !.stage = IF batch = {} THEN "finish" ELSE "store"]
  /\ UNCHANGED <<live, startup, edits, runs, touched, current>>

ApplySave(h) ==
  /\ Applying("store") /\ h \in job.batch
  /\ LET stage == IF job.batch = {h} THEN "finish" ELSE "store"
     IN \/ /\ startup' = [startup EXCEPT ![h] = live[h]]
           /\ job' = [job EXCEPT !.batch = @ \ {h}, !.stage = stage]
        \/ /\ startup' \in {startup, [startup EXCEPT ![h] = live[h]]}
           /\ job' = [job EXCEPT !.batch = @ \ {h}, !.failedSaves = @ \cup {h},
                                 !.stage = stage]
  /\ UNCHANGED <<live, edits, runs, touched, current>>

\* MUTANT of Failures: a verification that came to no result is not counted.
FailuresKnown ==
  job.failedSaves \cup {h \in Hosts : job.verdict[h] = "FAILED"}

\* overall_failures: reconnects, verifications, saves.
Failures ==
  job.failedSaves \cup {h \in Hosts : job.verdict[h] \in {"FAILED", "UNKNOWN"}}

\* apply-result.yaml and verification.yaml; only a success goes on to current.json.
Finish ==
  /\ Applying("finish")
  /\ IF Failures = {} THEN Goto("publish") ELSE Done
  /\ UNCHANGED <<live, startup, edits, runs, touched, current>>

Publish ==
  /\ Applying("publish")
  /\ current' = job.want /\ Done
  /\ UNCHANGED <<live, startup, edits, runs, touched>>

\* The process is interrupted in the middle of the loops over the hosts.
Interrupt ==
  /\ job.kind = "clab" /\ job.stage \in {"wait", "reuse", "verify", "store"} /\ Done
  /\ UNCHANGED <<live, startup, edits, runs, touched, current>>

Next ==
  \/ PushNext /\ UNCHANGED current
  \/ BeginApply \/ NodesReady \/ GiveUp \/ ScanRisks \/ CallPush \/ PushResult
  \/ \E h \in Hosts : Reuse(h) \/ Verify(h) \/ ApplySave(h)
  \/ BeginApplySaves \/ Finish \/ Publish \/ Interrupt

Spec == Init /\ [][Next]_vars

-----------------------------------------------------------------------------
(* Properties                                                              *)

\* Every variable has its type.
TypeOK == FleetTypeOK /\ current \in Inputs \cup Earlier \cup {"none"}

\* When current.json comes to name an input, every node has it, apart from what
\* somebody changed since the node was verified.  (Not counting nodes the connect
\* check did not reach and nodes with ignored errors: the code passes over both.)
CurrentIsLive ==
  [][Applying("publish") /\ job.stage # job'.stage /\ current' = job.want =>
       \A h \in Hosts \ (touched \cup job.skipped \cup job.ignored) :
         live[h].base = job.want]_vars

\* A lab node is saved only with the configuration its verification has seen, apart
\* from what somebody changed since.
SavedIsVerified ==
  [][job.kind = "clab" =>
       \A h \in Hosts \ touched :
         startup'[h] # startup[h] => startup'[h].base = job.want]_vars
=============================================================================
