---------------------------- MODULE ClabApplyProofs ----------------------------
(***************************************************************************)
(* Proofs about ClabApply and the push it shares with push-config, for any *)
(* number of nodes, workers, commands and disturbances: what is saved was  *)
(* accepted or verified, and current.json tells the truth.                 *)
(***************************************************************************)
EXTENDS ClabApply, FiniteSetTheorems, TLAPS

-----------------------------------------------------------------------------
(* The inductive invariant                                                 *)

Kinds == {"none", "push", "memory", "clab"}
PushStages == {"connect", "push", "pushed"}
EarlyStages == {"wait", "risk", "reuse", "reused"} \cup PushStages
LateStages == {"verify", "saves", "store", "finish", "publish"}
Verdicts == {"none", "VERIFIED", "VERIFIED_WITH_DIFF", "FAILED", "UNKNOWN"}
Good == {"VERIFIED", "VERIFIED_WITH_DIFF"}

Job ==
  [kind : Kinds, stage : {"none", "save"} \cup EarlyStages \cup LateStages,
   want : Inputs \cup {"none"}, failFast : BOOLEAN, ignore : BOOLEAN,
   todo : SUBSET Hosts, batch : SUBSET Hosts, ok : SUBSET Hosts, ignored : SUBSET Hosts,
   failed : SUBSET Hosts, skipped : SUBSET Hosts, reused : SUBSET Hosts,
   verdict : [Hosts -> Verdicts], failedSaves : SUBSET Hosts]

\* What the variables hold, and which stages a command has.
TypeInv ==
  /\ job \in Job
  /\ live \in [Hosts -> Config] /\ startup \in [Hosts -> Config]
  /\ touched \subseteq Hosts
  /\ job.kind = "none" => job.stage = "none"
  /\ job.kind = "push" => job.stage \in PushStages \cup {"save"}
  /\ job.kind = "memory" => job.stage = "save"
  /\ job.kind = "clab" => job.stage \in EarlyStages \cup LateStages
  /\ job.kind \in {"push", "clab"} => job.want \in Inputs

\* The save phase of a push has no hosts but those that accepted every command.
SaveInv == job.kind = "push" /\ job.stage = "save" => job.batch \subseteq job.ok

\* A verdict is true of the node until somebody disturbs it.
VerdictInv ==
  job.kind = "clab" =>
    \A h \in Hosts \ touched : job.verdict[h] \in Good => live[h].base = job.want

\* Up to the end of the push, the nodes with a verdict are those taken over, and the push
\* does not touch them.
ReuseInv ==
  job.kind = "clab" /\ job.stage \in EarlyStages =>
    /\ \A h \in Hosts : job.verdict[h] = IF h \in job.reused THEN "VERIFIED" ELSE "none"
    /\ job.reused \cap (job.todo \cup job.batch \cup job.ok) = {}
    /\ job.stage \in {"wait", "risk"} => job.todo = {} /\ job.reused = {}
    /\ job.stage = "reuse" => job.todo \cap job.batch = {}

\* No node gets lost between the lists of the command.
PlacedInv ==
  job.kind = "clab" =>
    /\ job.stage \in {"wait", "risk", "reused", "connect", "pushed"} => job.batch = {}
    /\ job.stage \in {"reuse", "reused"} \cup PushStages =>
         Hosts \subseteq job.reused \cup job.todo \cup job.batch \cup job.ok
                           \cup job.ignored \cup job.failed \cup job.skipped
    /\ job.stage = "pushed" /\ job.failed = {} => job.todo = {}
    /\ job.stage \in {"wait", "risk", "reuse", "reused", "connect"} =>
         job.failed = {} /\ job.ok = {} /\ job.skipped = {}
    /\ job.stage \in LateStages =>
         \A h \in Hosts \ (job.skipped \cup job.ignored) :
           \/ job.verdict[h] # "none"
           \/ job.stage = "verify" /\ h \in job.batch
    /\ job.stage = "store" => \A h \in job.batch : job.verdict[h] \in Good
    /\ job.stage = "publish" => \A h \in Hosts : job.verdict[h] \in Good \cup {"none"}

IInv == TypeInv /\ SaveInv /\ VerdictInv /\ ReuseInv /\ PlacedInv

-----------------------------------------------------------------------------
(* It is inductive                                                         *)

\* It holds in a new lab, and in one an earlier success left.
LEMMA InitIInv == Init => IInv
<1> SUFFICES ASSUME Init PROVE IInv
  OBVIOUS
<1>1. NoJob \in Job
  BY DEF NoJob, Job, Kinds, EarlyStages, LateStages, PushStages, Verdicts
<1>2. \A had \in Earlier \cup {"boot"}, extra \in BOOLEAN :
        [base |-> had, extra |-> extra] \in Config
  BY DEF Config
<1>3. live \in [Hosts -> Config] /\ startup \in [Hosts -> Config]
  BY <1>2 DEF Init, FleetInit, Boot
<1>4. job = NoJob /\ touched = {}
  BY DEF Init, FleetInit
<1> QED
  BY <1>1, <1>3, <1>4
  DEF IInv, TypeInv, SaveInv, VerdictInv, ReuseInv, PlacedInv, NoJob

\* Without a command there is nothing to show but types.
LEMMA IdleIInv ==
  ASSUME job' = NoJob, live' \in [Hosts -> Config], startup' \in [Hosts -> Config],
         touched' \subseteq Hosts
  PROVE  IInv'
<1>1. job' \in Job
  BY DEF NoJob, Job, Kinds, EarlyStages, LateStages, PushStages, Verdicts
<1> QED
  BY <1>1 DEF IInv, TypeInv, SaveInv, VerdictInv, ReuseInv, PlacedInv, NoJob

\* A device that is edited or restarts no longer counts as verified.
LEMMA TouchIInv == ASSUME IInv, NEW h \in Hosts, NEW c \in Config, Touch(h, c) PROVE IInv'
<1>1. TypeInv'
  BY DEF IInv, TypeInv, Touch
<1>2. SaveInv'
  BY DEF IInv, SaveInv, Touch
<1>3. VerdictInv'
  BY DEF IInv, VerdictInv, Touch
<1>4. ReuseInv'
  BY DEF IInv, ReuseInv, Touch
<1>5. PlacedInv'
  BY DEF IInv, PlacedInv, Touch
<1> QED
  BY <1>1, <1>2, <1>3, <1>4, <1>5 DEF IInv

\* Hosts that are not reached leave the push.
LEMMA ConnectCheckIInv == ASSUME IInv, ConnectCheck PROVE IInv'
<1> PICK unreachable \in SUBSET job.todo :
      job' = IF unreachable = job.todo
             THEN [job EXCEPT !.todo = {}, !.skipped = unreachable, !.stage = "pushed",
                              !.failed = unreachable]
             ELSE [job EXCEPT !.todo = @ \ unreachable, !.skipped = unreachable,
                              !.stage = "push"]
  BY DEF ConnectCheck
<1>1. job.stage = "connect" /\ UNCHANGED <<live, startup, touched>>
  BY DEF ConnectCheck
<1>2. CASE unreachable = job.todo
  <2>1. TypeInv'
    BY <1>1, <1>2 DEF IInv, TypeInv, Job, EarlyStages, PushStages
  <2>2. SaveInv'
    BY <1>1, <1>2 DEF IInv, SaveInv
  <2>3. VerdictInv'
    BY <1>1, <1>2 DEF IInv, VerdictInv
  <2>4. ReuseInv'
    BY <1>1, <1>2 DEF IInv, ReuseInv, EarlyStages, PushStages
  <2>5. PlacedInv'
    <3>1. /\ job'.stage = "pushed" /\ job'.todo = {} /\ job'.failed = unreachable
          /\ job'.skipped = unreachable /\ job'.kind = job.kind /\ job'.batch = job.batch
          /\ job'.ok = job.ok /\ job'.ignored = job.ignored /\ job'.reused = job.reused
      BY <1>2 DEF IInv, TypeInv, Job
    <3> QED
      BY <1>1, <1>2, <3>1 DEF IInv, PlacedInv, PushStages, LateStages
  <2> QED
    BY <2>1, <2>2, <2>3, <2>4, <2>5 DEF IInv
<1>3. CASE unreachable # job.todo
  <2>1. TypeInv'
    BY <1>1, <1>3 DEF IInv, TypeInv, Job, EarlyStages, PushStages
  <2>2. SaveInv'
    BY <1>1, <1>3 DEF IInv, SaveInv
  <2>3. VerdictInv'
    BY <1>1, <1>3 DEF IInv, VerdictInv
  <2>4. ReuseInv'
    BY <1>1, <1>3 DEF IInv, ReuseInv, EarlyStages, PushStages
  <2>5. PlacedInv'
    <3>1. /\ job'.stage = "push" /\ job'.todo = job.todo \ unreachable
          /\ job'.failed = job.failed
          /\ job'.skipped = unreachable /\ job'.kind = job.kind /\ job'.batch = job.batch
          /\ job'.ok = job.ok /\ job'.ignored = job.ignored /\ job'.reused = job.reused
      BY <1>3 DEF IInv, TypeInv, Job
    <3> QED
      BY <1>1, <1>3, <3>1 DEF IInv, PlacedInv, PushStages, LateStages
  <2> QED
    BY <2>1, <2>2, <2>3, <2>4, <2>5 DEF IInv
<1> QED
  BY <1>2, <1>3

\* A batch is taken from the hosts not started.
LEMMA StartBatchIInv == ASSUME IInv, StartBatch PROVE IInv'
<1>1. TypeInv'
  BY DEF IInv, TypeInv, Job, StartBatch, FirstOf
<1>2. SaveInv'
  BY DEF IInv, SaveInv, StartBatch, FirstOf
<1>3. VerdictInv'
  BY DEF IInv, VerdictInv, StartBatch, FirstOf
<1>4. ReuseInv'
  BY DEF IInv, ReuseInv, StartBatch, FirstOf
<1>5. PlacedInv'
  BY DEF IInv, PlacedInv, StartBatch, FirstOf
<1> QED
  BY <1>1, <1>2, <1>3, <1>4, <1>5 DEF IInv

\* A push of a lab touches only nodes without a verdict.
LEMMA PushHostIInv == ASSUME IInv, NEW h \in Hosts, PushHost(h) PROVE IInv'
<1>1. /\ job.stage = "push" /\ h \in job.batch /\ UNCHANGED <<startup, touched>>
      /\ live' \in [Hosts -> Config] /\ \A g \in Hosts \ {h} : live'[g] = live[g]
  <2>1. job.want \in Inputs
    BY DEF PushHost, IInv, TypeInv, Job, Kinds
  <2>2. live \in [Hosts -> Config]
    BY DEF IInv, TypeInv
  <2>3. Pushed(live[h], job.want) \in Config /\ [base |-> "part", extra |-> TRUE] \in Config
    BY <2>1, <2>2 DEF Pushed, Config
  <2>4. PICK c \in Config : live' = [live EXCEPT ![h] = c] \/ live' = live
    BY <2>3 DEF PushHost
  <2> QED
    BY <2>2, <2>4 DEF PushHost
<1>2. CASE job' = [job EXCEPT !.batch = @ \ {h}, !.ok = @ \cup {h}]
  <2>1. TypeInv'
    BY <1>1, <1>2 DEF IInv, TypeInv, Job
  <2>2. SaveInv'
    BY <1>1, <1>2 DEF IInv, SaveInv
  <2>3. VerdictInv'
    BY <1>1, <1>2 DEF IInv, VerdictInv, ReuseInv, Good, EarlyStages, PushStages
  <2>4. ReuseInv'
    BY <1>1, <1>2 DEF IInv, ReuseInv
  <2>5. PlacedInv'
    BY <1>1, <1>2 DEF IInv, PlacedInv
  <2> QED
    BY <2>1, <2>2, <2>3, <2>4, <2>5 DEF IInv
<1>3. CASE job' = [job EXCEPT !.batch = @ \ {h}, !.ignored = @ \cup {h}]
  <2>1. TypeInv'
    BY <1>1, <1>3 DEF IInv, TypeInv, Job
  <2>2. SaveInv'
    BY <1>1, <1>3 DEF IInv, SaveInv
  <2>3. VerdictInv'
    BY <1>1, <1>3 DEF IInv, VerdictInv, ReuseInv, Good, EarlyStages, PushStages
  <2>4. ReuseInv'
    BY <1>1, <1>3 DEF IInv, ReuseInv
  <2>5. PlacedInv'
    BY <1>1, <1>3 DEF IInv, PlacedInv
  <2> QED
    BY <2>1, <2>2, <2>3, <2>4, <2>5 DEF IInv
<1>4. CASE job' = [job EXCEPT !.batch = @ \ {h}, !.failed = @ \cup {h}]
  <2>1. TypeInv'
    BY <1>1, <1>4 DEF IInv, TypeInv, Job
  <2>2. SaveInv'
    BY <1>1, <1>4 DEF IInv, SaveInv
  <2>3. VerdictInv'
    BY <1>1, <1>4 DEF IInv, VerdictInv, ReuseInv, Good, EarlyStages, PushStages
  <2>4. ReuseInv'
    BY <1>1, <1>4 DEF IInv, ReuseInv
  <2>5. PlacedInv'
    BY <1>1, <1>4 DEF IInv, PlacedInv
  <2> QED
    BY <2>1, <2>2, <2>3, <2>4, <2>5 DEF IInv
<1> QED
  BY <1>2, <1>3, <1>4 DEF PushHost

\* Without a failure no host is left over.
LEMMA EndPushIInv == ASSUME IInv, EndPush PROVE IInv'
<1>1. TypeInv'
  BY DEF IInv, TypeInv, Job, EarlyStages, PushStages, EndPush, MayStart
<1>2. SaveInv'
  BY DEF IInv, SaveInv, EndPush, MayStart
<1>3. VerdictInv'
  BY DEF IInv, VerdictInv, EndPush, MayStart
<1>4. ReuseInv'
  BY DEF IInv, ReuseInv, EarlyStages, PushStages, EndPush, MayStart
<1>5. PlacedInv'
  BY DEF IInv, PlacedInv, LateStages, PushStages, EndPush, MayStart
<1> QED
  BY <1>1, <1>2, <1>3, <1>4, <1>5 DEF IInv

\* The save phase takes the accepted hosts.
LEMMA BeginSavesIInv == ASSUME IInv, BeginSaves PROVE IInv'
<1>1. TypeInv'
  BY DEF IInv, TypeInv, Job, BeginSaves, SavePhase
<1>2. SaveInv'
  BY DEF IInv, SaveInv, BeginSaves, SavePhase
<1>3. VerdictInv'
  BY DEF IInv, VerdictInv, BeginSaves, SavePhase
<1>4. ReuseInv'
  BY DEF IInv, ReuseInv, BeginSaves, SavePhase
<1>5. PlacedInv'
  BY DEF IInv, PlacedInv, BeginSaves, SavePhase
<1> QED
  BY <1>1, <1>2, <1>3, <1>4, <1>5 DEF IInv

\* A host less to save.
LEMMA SaveHostIInv == ASSUME IInv, NEW h \in Hosts, SaveHost(h) PROVE IInv'
<1>1. /\ job.stage = "save" /\ UNCHANGED <<live, touched>>
      /\ startup' \in [Hosts -> Config]
  BY DEF SaveHost, IInv, TypeInv
<1>2. CASE job' = NoJob
  BY <1>1, <1>2, IdleIInv DEF IInv, TypeInv
<1>3. CASE job' = [job EXCEPT !.batch = @ \ {h}]
  <2>1. TypeInv'
    BY <1>1, <1>3 DEF IInv, TypeInv, Job
  <2>2. SaveInv'
    BY <1>1, <1>3 DEF IInv, SaveInv
  <2>3. VerdictInv'
    BY <1>1, <1>3 DEF IInv, VerdictInv
  <2>4. ReuseInv'
    BY <1>1, <1>3 DEF IInv, ReuseInv
  <2>5. PlacedInv'
    BY <1>1, <1>3 DEF IInv, PlacedInv, PushStages
  <2> QED
    BY <2>1, <2>2, <2>3, <2>4, <2>5 DEF IInv
<1> QED
  BY <1>2, <1>3 DEF SaveHost, Done

\* The scan for risks begins.
LEMMA NodesReadyIInv == ASSUME IInv, NodesReady PROVE IInv'
<1>1. TypeInv'
  BY DEF IInv, TypeInv, Job, EarlyStages, NodesReady, Applying, Goto
<1>2. SaveInv'
  BY DEF IInv, SaveInv, NodesReady, Applying, Goto
<1>3. VerdictInv'
  BY DEF IInv, VerdictInv, NodesReady, Applying, Goto
<1>4. ReuseInv'
  BY DEF IInv, ReuseInv, EarlyStages, NodesReady, Applying, Goto
<1>5. PlacedInv'
  BY DEF IInv, PlacedInv, LateStages, PushStages, NodesReady, Applying, Goto
<1> QED
  BY <1>1, <1>2, <1>3, <1>4, <1>5 DEF IInv

\* The nodes are looked at first, or not.
LEMMA ScanRisksIInv == ASSUME IInv, ScanRisks PROVE IInv'
<1>1. job.kind = "clab" /\ job.stage = "risk" /\ UNCHANGED <<live, startup, touched>>
  BY DEF ScanRisks, Applying
<1>2. CASE job' = [job EXCEPT !.stage = "reuse", !.batch = Hosts]
  <2>1. TypeInv'
    BY <1>1, <1>2 DEF IInv, TypeInv, Job, EarlyStages
  <2>2. SaveInv'
    BY <1>1, <1>2 DEF IInv, SaveInv
  <2>3. VerdictInv'
    BY <1>1, <1>2 DEF IInv, VerdictInv
  <2>4. ReuseInv'
    BY <1>1, <1>2 DEF IInv, ReuseInv, EarlyStages
  <2>5. PlacedInv'
    BY <1>1, <1>2 DEF IInv, PlacedInv, LateStages
  <2> QED
    BY <2>1, <2>2, <2>3, <2>4, <2>5 DEF IInv
<1>3. CASE job' = [job EXCEPT !.stage = "reused", !.todo = Hosts]
  <2>1. TypeInv'
    BY <1>1, <1>3 DEF IInv, TypeInv, Job, EarlyStages
  <2>2. SaveInv'
    BY <1>1, <1>3 DEF IInv, SaveInv
  <2>3. VerdictInv'
    BY <1>1, <1>3 DEF IInv, VerdictInv
  <2>4. ReuseInv'
    BY <1>1, <1>3 DEF IInv, ReuseInv, EarlyStages
  <2>5. PlacedInv'
    BY <1>1, <1>3 DEF IInv, PlacedInv, LateStages
  <2> QED
    BY <2>1, <2>2, <2>3, <2>4, <2>5 DEF IInv
<1> QED
  BY <1>2, <1>3 DEF ScanRisks

\* A node taken over is verified.
LEMMA ReuseIInv == ASSUME IInv, NEW h \in Hosts, Reuse(h) PROVE IInv'
<1>1. job.kind = "clab" /\ job.stage = "reuse" /\ h \in job.batch
      /\ UNCHANGED <<live, startup>>
  BY DEF Reuse, Applying
<1> PICK stage \in {"reuse", "reused"} :
      /\ stage = "reused" => job.batch = {h}
      /\ \/ /\ Verification(h) = "VERIFIED"
            /\ job' = [job EXCEPT !.batch = @ \ {h}, !.verdict[h] = "VERIFIED",
                                  !.reused = @ \cup {h}, !.stage = stage]
            /\ touched' = touched \ {h}
         \/ /\ job' = [job EXCEPT !.batch = @ \ {h}, !.todo = @ \cup {h}, !.stage = stage]
            /\ UNCHANGED touched
  BY DEF Reuse
<1>2. ASSUME Verification(h) = "VERIFIED", touched' = touched \ {h},
             job' = [job EXCEPT !.batch = @ \ {h}, !.verdict[h] = "VERIFIED",
                                !.reused = @ \cup {h}, !.stage = stage]
      PROVE  IInv'
  <2>1. TypeInv'
    BY <1>1, <1>2 DEF IInv, TypeInv, Job, Verdicts, EarlyStages, Verification
  <2>2. SaveInv'
    BY <1>1, <1>2 DEF IInv, SaveInv, Verification
  <2>3. VerdictInv'
    BY <1>1, <1>2 DEF IInv, VerdictInv, Verification
  <2>4. ReuseInv'
    BY <1>1, <1>2 DEF IInv, TypeInv, ReuseInv, PlacedInv, Job, EarlyStages, Verification
  <2>5. PlacedInv'
    BY <1>1, <1>2 DEF IInv, PlacedInv, LateStages, Verification
  <2> QED
    BY <2>1, <2>2, <2>3, <2>4, <2>5 DEF IInv
<1>3. ASSUME job' = [job EXCEPT !.batch = @ \ {h}, !.todo = @ \cup {h}, !.stage = stage],
             UNCHANGED touched
      PROVE  IInv'
  <2>1. TypeInv'
    BY <1>1, <1>3 DEF IInv, TypeInv, Job, EarlyStages
  <2>2. SaveInv'
    BY <1>1, <1>3 DEF IInv, SaveInv
  <2>3. VerdictInv'
    BY <1>1, <1>3 DEF IInv, VerdictInv
  <2>4. ReuseInv'
    BY <1>1, <1>3 DEF IInv, ReuseInv, EarlyStages
  <2>5. PlacedInv'
    BY <1>1, <1>3 DEF IInv, PlacedInv, LateStages
  <2> QED
    BY <2>1, <2>2, <2>3, <2>4, <2>5 DEF IInv
<1> QED
  BY <1>2, <1>3

\* The push gets the nodes that are left.
LEMMA CallPushIInv == ASSUME IInv, CallPush PROVE IInv'
<1>1. TypeInv'
  BY DEF IInv, TypeInv, Job, EarlyStages, PushStages, CallPush, Applying, Goto
<1>2. SaveInv'
  BY DEF IInv, SaveInv, CallPush, Applying, Goto
<1>3. VerdictInv'
  BY DEF IInv, VerdictInv, CallPush, Applying, Goto
<1>4. ReuseInv'
  BY DEF IInv, ReuseInv, EarlyStages, CallPush, Applying, Goto
<1>5. PlacedInv'
  BY DEF IInv, PlacedInv, LateStages, CallPush, Applying, Goto
<1> QED
  BY <1>1, <1>2, <1>3, <1>4, <1>5 DEF IInv

\* What was pushed without a failure is verified.
LEMMA PushResultIInv == ASSUME IInv, PushResult PROVE IInv'
<1>1. job.kind = "clab" /\ job.stage = "pushed" /\ UNCHANGED <<live, startup, touched>>
  BY DEF PushResult, Applying
<1>2. CASE job.failed # {}
  BY <1>1, <1>2, IdleIInv DEF PushResult, Done, IInv, TypeInv
<1>3. CASE job.failed = {}
  <2> PICK stage \in {"saves", "verify"} :
        /\ stage = "saves" => job.ok = {}
        /\ job' = [job EXCEPT !.batch = @ \cup job.ok, !.stage = stage]
    BY <1>3 DEF PushResult
  <2>1. TypeInv'
    BY <1>1, <1>3 DEF IInv, TypeInv, Job, LateStages
  <2>2. SaveInv'
    BY <1>1, <1>3 DEF IInv, SaveInv
  <2>3. VerdictInv'
    BY <1>1, <1>3 DEF IInv, VerdictInv
  <2>4. ReuseInv'
    BY <1>1, <1>3 DEF IInv, ReuseInv, EarlyStages, PushStages
  <2>5. PlacedInv'
    BY <1>1, <1>3 DEF IInv, TypeInv, ReuseInv, PlacedInv, PushStages
  <2> QED
    BY <2>1, <2>2, <2>3, <2>4, <2>5 DEF IInv
<1> QED
  BY <1>2, <1>3

\* A verdict is that of the node.
LEMMA VerifyIInv == ASSUME IInv, NEW h \in Hosts, Verify(h) PROVE IInv'
<1>1. /\ job.kind = "clab" /\ job.stage = "verify" /\ h \in job.batch
      /\ touched' = touched \ {h} /\ UNCHANGED <<live, startup>>
  BY DEF Verify, Applying
<1> PICK stage \in {"saves", "verify"}, v \in {Verification(h), "UNKNOWN"} :
      /\ stage = "saves" => job.batch = {h}
      /\ job' = [job EXCEPT !.verdict[h] = v, !.batch = @ \ {h}, !.stage = stage]
  BY DEF Verify
<1>2. v \in Verdicts \ {"none"} /\ (v \in Good => live[h].base = job.want)
  BY DEF Verification, Verdicts, Good
<1>3. TypeInv'
  BY <1>1, <1>2 DEF IInv, TypeInv, Job, LateStages
<1>4. SaveInv'
  BY <1>1, <1>2 DEF IInv, SaveInv
<1>5. VerdictInv'
  BY <1>1, <1>2 DEF IInv, TypeInv, VerdictInv, Job
<1>6. ReuseInv'
  BY <1>1, <1>2 DEF IInv, ReuseInv, EarlyStages, PushStages
<1>7. PlacedInv'
  BY <1>1, <1>2 DEF IInv, TypeInv, PlacedInv, Job, EarlyStages, PushStages
<1> QED
  BY <1>3, <1>4, <1>5, <1>6, <1>7 DEF IInv

\* Only verified nodes are saved.
LEMMA BeginApplySavesIInv == ASSUME IInv, BeginApplySaves PROVE IInv'
<1>1. job.kind = "clab" /\ job.stage = "saves" /\ UNCHANGED <<live, startup, touched>>
  BY DEF BeginApplySaves, Applying
<1> PICK stage \in {"finish", "store"}, batch \in SUBSET Hosts :
      /\ \A h \in batch : job.verdict[h] \in Good
      /\ job' = [job EXCEPT !.batch = batch, !.stage = stage]
  <2> PICK acceptDiff \in BOOLEAN : \E batch \in {{}, Savable(acceptDiff)} :
        job' = [job EXCEPT !.batch = batch,
                           !.stage = IF batch = {} THEN "finish" ELSE "store"]
    BY DEF BeginApplySaves
  <2>1. /\ Savable(acceptDiff) \subseteq Hosts
        /\ \A h \in Savable(acceptDiff) : job.verdict[h] \in Good
    BY DEF Savable, Good, IInv, TypeInv, Job
  <2> QED
    BY <2>1
<1>2. TypeInv'
  BY <1>1 DEF IInv, TypeInv, Job, LateStages
<1>3. SaveInv'
  BY <1>1 DEF IInv, SaveInv
<1>4. VerdictInv'
  BY <1>1 DEF IInv, VerdictInv
<1>5. ReuseInv'
  BY <1>1 DEF IInv, ReuseInv, EarlyStages, PushStages
<1>6. PlacedInv'
  BY <1>1 DEF IInv, TypeInv, PlacedInv, EarlyStages, PushStages
<1> QED
  BY <1>2, <1>3, <1>4, <1>5, <1>6 DEF IInv

\* A node less to save.
LEMMA ApplySaveIInv == ASSUME IInv, NEW h \in Hosts, ApplySave(h) PROVE IInv'
<1>1. /\ job.kind = "clab" /\ job.stage = "store" /\ UNCHANGED <<live, touched>>
      /\ startup' \in [Hosts -> Config]
  BY DEF ApplySave, Applying, IInv, TypeInv
<1> PICK stage \in {"finish", "store"}, failedSaves \in SUBSET Hosts :
      job' = [job EXCEPT !.batch = @ \ {h}, !.failedSaves = failedSaves, !.stage = stage]
  <2>1. job.failedSaves \in SUBSET Hosts /\ job.failedSaves \cup {h} \in SUBSET Hosts
    BY DEF IInv, TypeInv, Job
  <2>2. [job EXCEPT !.batch = @ \ {h},
                    !.stage = IF job.batch = {h} THEN "finish" ELSE "store"]
        = [job EXCEPT !.batch = @ \ {h}, !.failedSaves = job.failedSaves,
                      !.stage = IF job.batch = {h} THEN "finish" ELSE "store"]
    BY DEF IInv, TypeInv, Job
  <2> QED
    BY <2>1, <2>2 DEF ApplySave
<1>2. TypeInv'
  BY <1>1 DEF IInv, TypeInv, Job, LateStages
<1>3. SaveInv'
  BY <1>1 DEF IInv, SaveInv
<1>4. VerdictInv'
  BY <1>1 DEF IInv, VerdictInv
<1>5. ReuseInv'
  BY <1>1 DEF IInv, ReuseInv, EarlyStages, PushStages
<1>6. PlacedInv'
  BY <1>1 DEF IInv, TypeInv, PlacedInv, EarlyStages, PushStages
<1> QED
  BY <1>2, <1>3, <1>4, <1>5, <1>6 DEF IInv

\* Only a success goes on.
LEMMA FinishIInv == ASSUME IInv, Finish PROVE IInv'
<1>1. job.kind = "clab" /\ job.stage = "finish" /\ UNCHANGED <<live, startup, touched>>
  BY DEF Finish, Applying
<1>2. CASE Failures # {}
  BY <1>1, <1>2, IdleIInv DEF Finish, Done, IInv, TypeInv
<1>3. CASE Failures = {}
  <2>6. job' = [job EXCEPT !.stage = "publish"]
    BY <1>3 DEF Finish, Goto
  <2>7. \A h \in Hosts : job.verdict[h] \in Good \cup {"none"}
    BY <1>3 DEF Failures, Good, IInv, TypeInv, Job, Verdicts
  <2>1. TypeInv'
    BY <1>1, <2>6, <2>7 DEF IInv, TypeInv, Job, LateStages
  <2>2. SaveInv'
    BY <1>1, <2>6, <2>7 DEF IInv, SaveInv
  <2>3. VerdictInv'
    BY <1>1, <2>6, <2>7 DEF IInv, VerdictInv
  <2>4. ReuseInv'
    BY <1>1, <2>6, <2>7 DEF IInv, ReuseInv, EarlyStages, PushStages
  <2>5. PlacedInv'
    BY <1>1, <2>6, <2>7 DEF IInv, TypeInv, PlacedInv, EarlyStages, PushStages
  <2> QED
    BY <2>1, <2>2, <2>3, <2>4, <2>5 DEF IInv
<1> QED
  BY <1>2, <1>3

\* Disturbances are touches.
LEMMA DisturbIInv == ASSUME IInv, NEW h \in Hosts, Disturb(h) PROVE IInv'
<1>1. startup[h] \in Config /\ [base |-> "part", extra |-> TRUE] \in Config
  BY DEF IInv, TypeInv, Config
<1> QED
  BY <1>1, TouchIInv DEF Disturb

\* A new command: no host is placed, and there are no verdicts.
LEMMA BeginIInv == ASSUME IInv, BeginPush \/ WriteMemory \/ BeginApply PROVE IInv'
<1>1. /\ UNCHANGED <<live, startup>> /\ touched' = {}
      /\ live \in [Hosts -> Config] /\ startup \in [Hosts -> Config]
  BY DEF BeginPush, WriteMemory, BeginApply, IInv, TypeInv
<1>2. CASE BeginPush
  <2> PICK want \in Inputs, failFast \in BOOLEAN, ignore \in BOOLEAN :
        job' = [NoJob EXCEPT !.kind = "push", !.stage = "connect", !.want = want,
                  !.failFast = failFast, !.ignore = ignore, !.todo = Hosts]
    BY <1>2 DEF BeginPush
  <2>1. job' \in Job
    BY DEF NoJob, Job, Kinds, EarlyStages, LateStages, PushStages, Verdicts
  <2> QED
    BY <1>1, <2>1 DEF NoJob, PushStages, IInv, TypeInv, SaveInv, VerdictInv, ReuseInv,
       PlacedInv
<1>3. CASE WriteMemory
  <2> PICK reachable \in SUBSET Hosts :
        job' = [NoJob EXCEPT !.kind = "memory", !.stage = "save", !.batch = reachable,
                             !.skipped = Hosts \ reachable]
    BY <1>3 DEF WriteMemory
  <2>1. job' \in Job
    BY DEF NoJob, Job, Kinds, EarlyStages, LateStages, PushStages, Verdicts
  <2> QED
    BY <1>1, <2>1 DEF NoJob, PushStages, IInv, TypeInv, SaveInv, VerdictInv, ReuseInv,
       PlacedInv
<1>4. CASE BeginApply
  <2> PICK want \in Inputs, failFast \in BOOLEAN, ignore \in BOOLEAN :
        job' = [NoJob EXCEPT !.kind = "clab", !.stage = "wait", !.want = want,
                  !.failFast = failFast, !.ignore = ignore]
    BY <1>4 DEF BeginApply
  <2>1. job' \in Job
    BY DEF NoJob, Job, Kinds, EarlyStages, LateStages, PushStages, Verdicts
  <2> QED
    BY <1>1, <2>1 DEF NoJob, EarlyStages, PushStages, LateStages, Good, IInv, TypeInv,
       SaveInv, VerdictInv, ReuseInv, PlacedInv
<1> QED
  BY <1>2, <1>3, <1>4

\* A command ends.
LEMMA DoneIInv == ASSUME IInv, End \/ GiveUp \/ Publish \/ Interrupt PROVE IInv'
BY IdleIInv DEF End, GiveUp, Publish, Interrupt, Done, IInv, TypeInv

\* Every step preserves it.
LEMMA NextIInv == IInv /\ [Next]_vars => IInv'
<1> SUFFICES ASSUME IInv, [Next]_vars PROVE IInv'
  OBVIOUS
<1>1. CASE PushNext
  BY <1>1, DisturbIInv, PushHostIInv, SaveHostIInv, BeginIInv, ConnectCheckIInv, DoneIInv,
     StartBatchIInv, EndPushIInv, BeginSavesIInv
  DEF PushNext
<1>2. CASE BeginApply \/ NodesReady \/ GiveUp \/ ScanRisks \/ CallPush \/ PushResult
  BY <1>2, BeginIInv, NodesReadyIInv, DoneIInv, ScanRisksIInv, CallPushIInv, PushResultIInv
<1>3. CASE \E h \in Hosts : Reuse(h) \/ Verify(h) \/ ApplySave(h)
  BY <1>3, ReuseIInv, VerifyIInv, ApplySaveIInv
<1>4. CASE BeginApplySaves \/ Finish \/ Publish \/ Interrupt
  BY <1>4, BeginApplySavesIInv, FinishIInv, DoneIInv
<1>5. CASE UNCHANGED vars
  BY <1>5 DEF vars, fleet, IInv, TypeInv, SaveInv, VerdictInv, ReuseInv, PlacedInv
<1> QED
  BY <1>1, <1>2, <1>3, <1>4, <1>5 DEF Next

\* The invariant of the push and of the lab.
THEOREM Inductive == Spec => []IInv
BY InitIInv, NextIInv, PTL DEF Spec

\* The rest of TypeOK: what TypeInv does not say is about the bounds and current.json.
LEMMA TypeOKOf ==
  ASSUME IInv', edits' \in 0 .. MaxEdits, runs' \in 0 .. MaxRuns,
         current' \in Inputs \cup Earlier \cup {"none"}
  PROVE  TypeOK'
<1>1. job' \in Job /\ live' \in [Hosts -> Config] /\ startup' \in [Hosts -> Config]
      /\ touched' \subseteq Hosts
  BY DEF IInv, TypeInv
<1> QED
  BY <1>1 DEF TypeOK, FleetTypeOK, Job, Verdicts

\* Every variable has its type, also the bounds of the model.
THEOREM TypeCorrect ==
  ASSUME MaxEdits \in Nat, MaxRuns \in Nat
  PROVE  Spec => []TypeOK
<1>1. Init => TypeOK
  <2> SUFFICES ASSUME Init PROVE TypeOK
    OBVIOUS
  <2>1. job \in Job /\ live \in [Hosts -> Config] /\ startup \in [Hosts -> Config]
    BY InitIInv DEF IInv, TypeInv
  <2>2. edits = 0 /\ runs = 0 /\ touched = {} /\ current \in Earlier \cup {"none"}
    BY DEF Init, FleetInit
  <2>3. 0 \in 0 .. MaxEdits /\ 0 \in 0 .. MaxRuns
    OBVIOUS
  <2> QED
    BY <2>1, <2>2, <2>3 DEF TypeOK, FleetTypeOK, Job, Verdicts
<1>2. TypeOK /\ IInv /\ IInv' /\ [Next]_vars => TypeOK'
  <2> SUFFICES ASSUME TypeOK, IInv, IInv', [Next]_vars PROVE TypeOK'
    OBVIOUS
  <2>1. CASE PushNext /\ UNCHANGED current
    <3>1. ASSUME NEW h \in Hosts, Disturb(h)
          PROVE  edits < MaxEdits /\ edits' = edits + 1 /\ UNCHANGED runs
      BY <3>1 DEF Disturb, Touch
    <3>2. ASSUME NEW h \in Hosts, PushHost(h) \/ SaveHost(h) PROVE UNCHANGED <<edits, runs>>
      BY <3>2 DEF PushHost, SaveHost
    <3>3. ASSUME BeginPush \/ WriteMemory
          PROVE  runs < MaxRuns /\ runs' = runs + 1 /\ UNCHANGED edits
      BY <3>3 DEF BeginPush, WriteMemory
    <3>4. ASSUME ConnectCheck \/ End \/ StartBatch \/ EndPush \/ BeginSaves
          PROVE  UNCHANGED <<edits, runs>>
      BY <3>4 DEF ConnectCheck, End, StartBatch, EndPush, BeginSaves
    <3>5. \/ UNCHANGED <<edits, runs>>
          \/ edits < MaxEdits /\ edits' = edits + 1 /\ UNCHANGED runs
          \/ runs < MaxRuns /\ runs' = runs + 1 /\ UNCHANGED edits
      BY <2>1, <3>1, <3>2, <3>3, <3>4 DEF PushNext
    <3> QED
      BY <2>1, <3>5, TypeOKOf DEF TypeOK, FleetTypeOK
  <2>2. CASE BeginApply
    BY <2>2, TypeOKOf DEF BeginApply, TypeOK, FleetTypeOK
  <2>3. CASE Publish
    BY <2>3, TypeOKOf DEF Publish, Applying, TypeOK, FleetTypeOK, IInv, TypeInv
  <2>4. CASE NodesReady \/ GiveUp \/ ScanRisks \/ CallPush \/ PushResult
    BY <2>4, TypeOKOf
    DEF NodesReady, GiveUp, ScanRisks, CallPush, PushResult, TypeOK, FleetTypeOK
  <2>5. CASE \E h \in Hosts : Reuse(h) \/ Verify(h) \/ ApplySave(h)
    BY <2>5, TypeOKOf DEF Reuse, Verify, ApplySave, TypeOK, FleetTypeOK
  <2>6. CASE BeginApplySaves \/ Finish \/ Interrupt
    BY <2>6, TypeOKOf DEF BeginApplySaves, Finish, Interrupt, TypeOK, FleetTypeOK
  <2>7. CASE UNCHANGED vars
    BY <2>7, TypeOKOf DEF vars, fleet, TypeOK, FleetTypeOK
  <2> QED
    BY <2>1, <2>2, <2>3, <2>4, <2>5, <2>6, <2>7 DEF Next
<1> QED
  BY <1>1, <1>2, Inductive, PTL DEF Spec

-----------------------------------------------------------------------------
(* What it is for                                                          *)

\* Only a save writes a startup-config, and it writes what runs.
LEMMA StartupChange ==
  ASSUME IInv, [Next]_vars, NEW g \in Hosts, startup'[g] # startup[g]
  PROVE  /\ job.kind = "clab" => job.stage = "store"
         /\ job.stage \in {"save", "store"} /\ g \in job.batch /\ startup'[g] = live[g]
<1>1. CASE UNCHANGED startup
  BY <1>1
<1>2. ASSUME NEW h \in Hosts, SaveHost(h) PROVE g = h /\ startup'[g] = live[g]
  BY <1>2 DEF SaveHost, IInv, TypeInv
<1>3. ASSUME NEW h \in Hosts, ApplySave(h) PROVE g = h /\ startup'[g] = live[g]
  BY <1>3 DEF ApplySave, IInv, TypeInv
<1>4. \E h \in Hosts : SaveHost(h) \/ ApplySave(h)
  BY <1>1
  DEF Next, vars, fleet, PushNext, Disturb, Touch, PushHost, BeginPush, ConnectCheck, End,
    StartBatch, EndPush, BeginSaves, WriteMemory, BeginApply, NodesReady, GiveUp, ScanRisks,
    CallPush, PushResult, Reuse, Verify, BeginApplySaves, Finish, Publish, Interrupt
<1> QED
  BY <1>2, <1>3, <1>4
  DEF SaveHost, ApplySave, Applying, IInv, TypeInv, EarlyStages, PushStages, LateStages

\* SavesOnlyAccepted, of any number of hosts and workers, however the pushes and saves of
\* _execute_host_operation_batches interleave.
THEOREM OnlyAccepted == Spec => SavesOnlyAccepted
<1>1. IInv /\ [Next]_vars =>
        [job.kind = "push" =>
           \A h \in Hosts : startup'[h] # startup[h] => h \in job.ok]_fleet
  BY StartupChange DEF IInv, TypeInv, SaveInv, PushStages
<1> QED
  BY <1>1, Inductive, PTL DEF Spec, SavesOnlyAccepted

\* SavedIsVerified, of any number of nodes, commands, edits and restarts.
THEOREM Verified == Spec => SavedIsVerified
<1>1. IInv /\ [Next]_vars =>
        [job.kind = "clab" =>
           \A h \in Hosts \ touched :
             startup'[h] # startup[h] => startup'[h].base = job.want]_vars
  BY StartupChange DEF IInv, VerdictInv, PlacedInv
<1> QED
  BY <1>1, Inductive, PTL DEF Spec, SavedIsVerified

\* CurrentIsLive, of any number of nodes, commands, edits and restarts.
THEOREM CurrentTrue == Spec => CurrentIsLive
<1>1. IInv =>
        [Applying("publish") /\ job.stage # job'.stage /\ current' = job.want =>
           \A h \in Hosts \ (touched \cup job.skipped \cup job.ignored) :
             live[h].base = job.want]_vars
  BY DEF IInv, VerdictInv, PlacedInv, LateStages, Good, Applying
<1> QED
  BY <1>1, Inductive, PTL DEF Spec, CurrentIsLive

-----------------------------------------------------------------------------
(* Fail-fast                                                               *)

\* A nonempty set of naturals has a least element.
LEMMA LeastElement ==
  ASSUME NEW S \in SUBSET Nat, S # {}
  PROVE  \E least \in S : \A s \in S : least <= s
<1> DEFINE Less == {ss \in Nat \X Nat : ss[1] < ss[2]}
<1>1. IsWellFoundedOn(Less, Nat)
  BY NatLessThanWellFounded, Zenon DEF OpToRel
<1>2. PICK least \in S : \A s \in S : <<s, least>> \notin Less
  <2> HIDE DEF Less
  <2> QED
    BY <1>1, WFMin
<1>3. \A s \in S : ~(s < least)
  BY <1>2
<1> QED
  BY <1>3

\* Min is the least element, as max is of a bounded set.
LEMMA MinOf ==
  ASSUME NEW S \in SUBSET Nat, S # {}
  PROVE  Min(S) \in S /\ \A s \in S : Min(S) <= s
BY LeastElement DEF Min

\* A bounded set that is not empty has a greatest element.
LEMMA GreatestElement ==
  ASSUME NEW S \in SUBSET Nat, S # {}, NEW bound \in Nat, \A s \in S : s <= bound
  PROVE  \E greatest \in S : \A s \in S : s <= greatest
<1> DEFINE Bounds == {b \in Nat : \A s \in S : s <= b}
<1>1. PICK least \in Bounds : \A b \in Bounds : least <= b
  <2>1. Bounds \in SUBSET Nat /\ Bounds # {}
    OBVIOUS
  <2> HIDE DEF Bounds
  <2> QED
    BY <2>1, LeastElement
<1>2. least \in S
  <2> SUFFICES ASSUME least \notin S PROVE FALSE
    OBVIOUS
  <2>1. \A s \in S : s \in Nat /\ s <= least - 1
    BY <1>1
  <2>2. PICK s \in S : TRUE
    OBVIOUS
  <2>3. least - 1 \in Nat
    BY <1>1, <2>1, <2>2
  <2> QED
    BY <1>1, <2>1, <2>3
<1> QED
  BY <1>1, <1>2

\* The first hosts of an inventory: as many as are asked for, and before all others.
LEMMA FirstHosts ==
  ASSUME N \in Nat, NEW S \in SUBSET Hosts, NEW n \in Nat
  PROVE  /\ FirstOf(S, n) \subseteq S
         /\ Cardinality(FirstOf(S, n)) <= n
         /\ \A a \in FirstOf(S, n), b \in S \ FirstOf(S, n) : a < b
<1> DEFINE Before(h) == {g \in S : g < h}
           First == FirstOf(S, n)
<1>1. \A h \in S : h \in Nat /\ h <= N
  BY DEF Hosts
<1>2. \A h \in S : h \in First <=> Cardinality(Before(h)) < n
  BY DEF FirstOf
<1>3. \A h \in First : h \in S /\ h \in Nat /\ h <= N
  BY <1>1 DEF FirstOf
<1>4. \A a, b \in S : b < a => b \in Before(a)
  OBVIOUS
<1>5. \A h \in S : Before(h) \in SUBSET Hosts
  OBVIOUS
<1>11. ASSUME NEW a \in S, NEW b \in S, b <= a PROVE Before(b) \in SUBSET Before(a)
  <2> SUFFICES ASSUME NEW g \in S, g < b PROVE g < a
    OBVIOUS
  <2> QED
    BY <1>1, <1>11
<1> HIDE DEF Before, First
<1>6. IsFiniteSet(Hosts)
  BY FS_Interval DEF Hosts
<1>7. ASSUME NEW h \in S PROVE IsFiniteSet(Before(h)) /\ Cardinality(Before(h)) \in Nat
  BY <1>5, <1>6, FS_Subset, FS_CardinalityType
<1>8. ASSUME NEW a \in First, NEW b \in S, b \notin First PROVE a < b
  <2> SUFFICES ASSUME b <= a PROVE FALSE
    BY <1>1, <1>3
  <2>1. a \in S /\ Before(b) \in SUBSET Before(a)
    BY <1>3, <1>11
  <2>2. Cardinality(Before(b)) <= Cardinality(Before(a))
    BY <1>7, <2>1, FS_Subset
  <2> QED
    BY <1>2, <1>7, <1>8, <2>1, <2>2
<1>9. CASE First = {}
  BY <1>9, FS_EmptySet DEF First
<1>10. CASE First # {}
  <2>1. PICK last \in First : \A h \in First : h <= last
    <3>1. First \in SUBSET Nat /\ \A h \in First : h <= N
      BY <1>3
    <3> QED
      BY <1>10, <3>1, GreatestElement
  <2>2. First \in SUBSET (Before(last) \cup {last})
    <3> SUFFICES ASSUME NEW h \in First PROVE h \in Before(last) \/ h = last
      OBVIOUS
    <3>1. h < last \/ h = last
      BY <1>3, <2>1
    <3> QED
      BY <1>3, <1>4, <3>1
  <2>3. Cardinality(Before(last)) < n /\ Cardinality(Before(last)) \in Nat
    BY <1>2, <1>3, <1>7
  <2>4. /\ IsFiniteSet(Before(last) \cup {last})
        /\ Cardinality(Before(last) \cup {last}) <= n
    <3>1. IsFiniteSet(Before(last))
      BY <1>3, <1>7
    <3>2. /\ IsFiniteSet(Before(last) \cup {last})
          /\ Cardinality(Before(last) \cup {last}) =
               IF last \in Before(last) THEN Cardinality(Before(last))
               ELSE Cardinality(Before(last)) + 1
      BY <3>1, FS_AddElement
    <3> QED
      BY <2>3, <3>2
  <2>5. /\ Cardinality(First) <= Cardinality(Before(last) \cup {last})
        /\ Cardinality(First) \in Nat
        /\ Cardinality(Before(last) \cup {last}) \in Nat
    BY <2>2, <2>4, FS_Subset, FS_CardinalityType
  <2>6. Cardinality(First) <= n
    BY <2>4, <2>5
  <2> QED
    BY <1>3, <1>8, <2>6 DEF First
<1> QED
  BY <1>9, <1>10

Started == job.ok \cup job.ignored \cup job.failed \cup job.batch

\* The hosts that failed are of the batch the workers had last, which is no larger than
\* their number and after all that was started earlier.
LastBatch ==
  \E batch \in SUBSET Hosts :
    /\ job.batch \cup (job.failed \ job.skipped) \subseteq batch
    /\ Cardinality(batch) <= Workers
    /\ \A g \in Started \ batch, h \in batch : g < h

FailFastInv ==
  job.failFast =>
    /\ job.stage \in {"wait", "risk", "reuse", "reused", "connect"} =>
         job.ok = {} /\ job.ignored = {} /\ job.failed = {}
    /\ job.stage = "connect" => job.batch = {}
    /\ job.stage = "push" => LastBatch /\ \A g \in Started, h \in job.todo : g < h
    /\ job.stage = "pushed" => LastBatch \/ job.failed \subseteq job.skipped
    /\ job.stage \in {"save"} \cup LateStages => job.failed = {}
\* The batch stays the last one while its hosts end.
LEMMA LastBatchKept ==
  ASSUME LastBatch, Started' = Started, job'.batch \subseteq job.batch,
         job'.failed \ job'.skipped \subseteq (job.failed \ job.skipped) \cup job.batch
  PROVE  LastBatch'
BY DEF LastBatch, Hosts

\* A batch is taken only while nothing has failed, and from the front.
LEMMA StartBatchFailFast ==
  ASSUME N \in Nat, Workers \in Nat, IInv, FailFastInv, StartBatch
  PROVE  FailFastInv'
<1> DEFINE Taken == FirstOf(job.todo, Workers)
<1> SUFFICES ASSUME job.failFast PROVE FailFastInv'
  BY DEF StartBatch, FailFastInv, IInv, TypeInv, Job
<1>1. job \in Job /\ job.todo \subseteq Hosts
  BY DEF IInv, TypeInv, Job
<1>2. /\ Taken \subseteq job.todo /\ Cardinality(Taken) <= Workers
      /\ \A a \in Taken, b \in job.todo \ Taken : a < b
  BY <1>1, FirstHosts
<1>3. /\ job.stage = "push" /\ job.batch = {} /\ job.failed = {}
      /\ job' = [job EXCEPT !.batch = Taken, !.todo = @ \ Taken]
  BY DEF StartBatch, MayStart
<1>4. /\ job'.batch = Taken /\ job'.todo = job.todo \ Taken /\ job'.stage = "push"
      /\ job'.ok = job.ok /\ job'.ignored = job.ignored /\ job'.failed = {}
  BY <1>1, <1>3 DEF Job
<1>5. \A g \in Started, h \in job.todo : g < h
  BY <1>3 DEF FailFastInv
<1> HIDE DEF Taken
<1>6. Started' = Started \cup Taken
  BY <1>3, <1>4 DEF Started
<1>7. LastBatch'
  <2>1. \A g \in Started' \ Taken, h \in Taken : g < h
    BY <1>2, <1>5, <1>6
  <2>2. Taken \in SUBSET Hosts
    BY <1>1, <1>2
  <2>3. (job.batch \cup (job.failed \ job.skipped))' \subseteq Taken
    BY <1>4
  <2> QED
    BY <1>2, <2>1, <2>2, <2>3 DEF LastBatch, Hosts
<1>8. \A g \in Started', h \in job'.todo : g < h
  BY <1>2, <1>4, <1>5, <1>6
<1> QED
  BY <1>4, <1>7, <1>8 DEF FailFastInv, LateStages

\* A host that ends leaves the batch, accepted or failed.
LEMMA PushHostFailFast ==
  ASSUME IInv, FailFastInv, NEW h \in Hosts, PushHost(h) PROVE FailFastInv'
<1>1. job \in Job /\ job.stage = "push" /\ h \in job.batch
  BY DEF PushHost, IInv, TypeInv
<1>2. /\ job'.batch = job.batch \ {h} /\ job'.todo = job.todo /\ job'.stage = "push"
      /\ job'.skipped = job.skipped /\ job'.failFast = job.failFast
      /\ job'.failed \subseteq job.failed \cup {h} /\ Started' = Started
  <2>1. \/ job' = [job EXCEPT !.batch = @ \ {h}, !.ok = @ \cup {h}]
        \/ job' = [job EXCEPT !.batch = @ \ {h}, !.ignored = @ \cup {h}]
        \/ job' = [job EXCEPT !.batch = @ \ {h}, !.failed = @ \cup {h}]
    BY DEF PushHost
  <2>2. /\ job'.batch = job.batch \ {h} /\ job'.todo = job.todo /\ job'.stage = "push"
        /\ job'.skipped = job.skipped /\ job'.failFast = job.failFast
        /\ \/ /\ job'.ok = job.ok \cup {h} /\ job'.ignored = job.ignored
              /\ job'.failed = job.failed
           \/ /\ job'.ok = job.ok /\ job'.ignored = job.ignored \cup {h}
              /\ job'.failed = job.failed
           \/ /\ job'.ok = job.ok /\ job'.ignored = job.ignored
              /\ job'.failed = job.failed \cup {h}
    BY <1>1, <2>1 DEF Job
  <2> QED
    BY <1>1, <2>2 DEF Started
<1>3. job.failFast => LastBatch'
  BY <1>1, <1>2, LastBatchKept DEF FailFastInv
<1> QED
  BY <1>1, <1>2, <1>3 DEF FailFastInv, LateStages

\* Outside of the push it says little.
LEMMA OutsidePush ==
  ASSUME job'.stage \notin {"push", "pushed"},
         job'.stage \in {"wait", "risk", "reuse", "reused", "connect"} =>
           job'.ok = {} /\ job'.ignored = {} /\ job'.failed = {},
         job'.stage = "connect" => job'.batch = {},
         job'.stage \in {"save"} \cup LateStages => job'.failed = {}
  PROVE  FailFastInv'
BY DEF FailFastInv, LateStages

\* The push begins with no host started, and its end leaves the last batch.
LEMMA StageFailFast ==
  ASSUME Workers \in Nat, IInv, FailFastInv,
         ConnectCheck \/ EndPush \/ CallPush \/ PushResult
  PROVE  FailFastInv'
<1>1. job \in Job
  BY DEF IInv, TypeInv
<1>2. CASE ConnectCheck
  <2> SUFFICES ASSUME job.failFast PROVE FailFastInv'
    BY <1>1, <1>2 DEF ConnectCheck, FailFastInv, Job
  <2>1. /\ job.ok = {} /\ job.ignored = {} /\ job.failed = {} /\ job.batch = {}
    BY <1>2 DEF ConnectCheck, FailFastInv
  <2>2. /\ job'.ok = {} /\ job'.ignored = {} /\ job'.batch = {}
        /\ \/ job'.stage = "push" /\ job'.failed = {}
           \/ job'.stage = "pushed" /\ job'.failed \subseteq job'.skipped
    <3> PICK unreachable \in SUBSET job.todo :
          job' = IF unreachable = job.todo
                 THEN [job EXCEPT !.todo = {}, !.skipped = unreachable,
                                  !.stage = "pushed", !.failed = unreachable]
                 ELSE [job EXCEPT !.todo = @ \ unreachable, !.skipped = unreachable,
                                  !.stage = "push"]
      BY <1>2 DEF ConnectCheck
    <3>1. CASE unreachable = job.todo
      BY <1>1, <2>1, <3>1 DEF Job
    <3>2. CASE unreachable # job.todo
      BY <1>1, <2>1, <3>2 DEF Job
    <3> QED
      BY <3>1, <3>2
  <2>3. job'.stage = "push" => Started' = {} /\ LastBatch'
    <3>1. Cardinality({}) <= Workers
      BY FS_EmptySet
    <3> QED
      BY <2>2, <3>1 DEF Started, LastBatch
  <2> QED
    BY <2>2, <2>3 DEF FailFastInv, LateStages
<1>3. CASE EndPush
  <2>1. job.stage = "push" /\ job'.stage = "pushed" /\ Started' = Started
        /\ job'.batch = job.batch /\ job'.failed = job.failed
        /\ job'.skipped = job.skipped /\ job'.failFast = job.failFast
    BY <1>1, <1>3 DEF EndPush, Job, Started
  <2> QED
    BY <2>1, LastBatchKept DEF FailFastInv, LateStages
<1>4. CASE CallPush
  <2>1. /\ job.stage = "reused" /\ job.batch = {} /\ job'.batch = {}
        /\ job'.stage \in {"pushed", "connect"} /\ job'.failFast = job.failFast
        /\ job'.ok = job.ok /\ job'.ignored = job.ignored /\ job'.failed = job.failed
    BY <1>1, <1>4 DEF CallPush, Applying, Goto, Job, IInv, PlacedInv
  <2> QED
    BY <2>1 DEF FailFastInv, LateStages
<1>5. CASE PushResult
  <2>1. CASE job' = NoJob
    BY <2>1, OutsidePush DEF NoJob, LateStages
  <2>2. CASE job.failed = {}
    <3>1. job'.failed = {} /\ job'.stage \in {"saves", "verify"}
      BY <1>1, <1>5, <2>2 DEF PushResult, Job
    <3> QED
      BY <3>1, OutsidePush
  <2> QED
    BY <1>5, <2>1, <2>2 DEF PushResult, Done
<1> QED
  BY <1>2, <1>3, <1>4, <1>5

\* Nothing else adds to the hosts that were started or have failed.
LEMMA OtherFailFast ==
  ASSUME IInv, FailFastInv,
         \/ \E h \in Hosts : Disturb(h) \/ SaveHost(h) \/ Reuse(h) \/ Verify(h)
                               \/ ApplySave(h)
         \/ BeginPush \/ End \/ BeginSaves \/ WriteMemory \/ BeginApply \/ NodesReady
         \/ GiveUp \/ ScanRisks \/ BeginApplySaves \/ Finish \/ Publish \/ Interrupt
         \/ UNCHANGED vars
  PROVE  FailFastInv'
<1>1. job \in Job
  BY DEF IInv, TypeInv
<1>2. CASE UNCHANGED job
  <2>1. (LastBatch <=> LastBatch') /\ Started' = Started
    BY <1>2 DEF LastBatch, Started, Hosts
  <2> QED
    BY <1>2, <2>1 DEF FailFastInv
<1>3. CASE job' = NoJob
  BY <1>3, OutsidePush DEF NoJob, LateStages
<1>4. CASE BeginPush \/ BeginApply
  <2>1. /\ job'.ok = {} /\ job'.ignored = {} /\ job'.failed = {} /\ job'.batch = {}
        /\ job'.stage \in {"connect", "wait"}
    BY <1>4 DEF BeginPush, BeginApply, NoJob
  <2> QED
    BY <2>1, OutsidePush DEF LateStages
<1>5. CASE WriteMemory
  <2>1. job'.failed = {} /\ job'.stage = "save"
    BY <1>5 DEF WriteMemory, NoJob
  <2> QED
    BY <2>1, OutsidePush DEF LateStages
<1>6. ASSUME NEW h \in Hosts, SaveHost(h) \/ Reuse(h) \/ Verify(h) \/ ApplySave(h),
             job' # NoJob
      PROVE  FailFastInv'
  <2> SUFFICES ASSUME job.failFast PROVE FailFastInv'
    BY <1>1, <1>6 DEF SaveHost, Reuse, Verify, ApplySave, Done, Job, FailFastInv
  <2>1. /\ job'.ok = job.ok /\ job'.ignored = job.ignored /\ job'.failed = job.failed
        /\ \/ job.stage = "reuse" /\ job'.stage \in {"reuse", "reused"}
           \/ {job.stage, job'.stage} \subseteq {"save"} \cup LateStages
    <3>1. CASE SaveHost(h)
      BY <1>1, <1>6, <3>1 DEF SaveHost, Done, Job
    <3>2. CASE Reuse(h)
      BY <1>1, <3>2 DEF Reuse, Applying, Job
    <3>3. CASE Verify(h)
      BY <1>1, <3>3 DEF Verify, Applying, Job, LateStages
    <3>4. CASE ApplySave(h)
      BY <1>1, <3>4 DEF ApplySave, Applying, Job, LateStages
    <3> QED
      BY <1>6, <3>1, <3>2, <3>3, <3>4
  <2> QED
    BY <2>1, OutsidePush DEF FailFastInv, LateStages
<1>7. CASE BeginSaves
  <2> SUFFICES ASSUME job.failFast PROVE FailFastInv'
    BY <1>1, <1>7 DEF BeginSaves, Job, FailFastInv
  <2>1. job'.failed = {} /\ job'.stage = "save"
    BY <1>1, <1>7 DEF BeginSaves, SavePhase, Job
  <2> QED
    BY <2>1, OutsidePush DEF LateStages
<1>10. ASSUME NodesReady \/ ScanRisks \/ BeginApplySaves \/ Finish, job' # NoJob
       PROVE  FailFastInv'
  <2> SUFFICES ASSUME job.failFast PROVE FailFastInv'
    BY <1>1, <1>10
    DEF NodesReady, ScanRisks, BeginApplySaves, Finish, Goto, Done, Job, FailFastInv
  <2>1. /\ job'.ok = job.ok /\ job'.ignored = job.ignored /\ job'.failed = job.failed
        /\ \/ job.stage \in {"wait", "risk"} /\ job'.stage \in {"risk", "reuse", "reused"}
           \/ job.stage \in LateStages /\ job'.stage \in LateStages
    BY <1>1, <1>10
    DEF NodesReady, ScanRisks, BeginApplySaves, Finish, Applying, Goto, Done, Job,
        LateStages
  <2> QED
    BY <2>1, OutsidePush DEF FailFastInv, LateStages
<1>8. \A h : Disturb(h) => UNCHANGED job
  BY DEF Disturb, Touch
<1>9. End \/ GiveUp \/ Publish \/ Interrupt => job' = NoJob
  BY DEF End, GiveUp, Publish, Interrupt, Done
<1> QED
  BY <1>2, <1>3, <1>4, <1>5, <1>6, <1>7, <1>8, <1>9, <1>10 DEF vars, fleet

\* A failed host, the rest of its batch after it: fewer than the workers.
LEMMA StopsOf ==
  ASSUME N \in Nat, Workers \in Nat, IInv, FailFastInv PROVE FailFastStops
<1> DEFINE failed == job.failed \ job.skipped
           first == Min(failed)
           After == {h \in Started : h > first}
<1> SUFFICES ASSUME job.kind # "none", job.failFast, failed # {}
             PROVE  Cardinality(After) < Workers
  BY DEF FailFastStops, Started
<1>1. job \in Job
  BY DEF IInv, TypeInv
<1>2. failed \in SUBSET Nat /\ failed \subseteq Started
  BY <1>1 DEF Job, Hosts, Started
<1>3. first \in failed
  BY <1>2, MinOf
<1>4. LastBatch
  BY <1>1, <1>3
  DEF FailFastInv, IInv, TypeInv, Job, Kinds, EarlyStages, PushStages, LateStages
<1>5. PICK batch \in SUBSET Hosts :
        /\ job.batch \cup failed \subseteq batch
        /\ Cardinality(batch) <= Workers
        /\ \A g \in Started \ batch, h \in batch : g < h
  BY <1>4 DEF LastBatch
<1>6. first \in batch /\ first \in Nat
  BY <1>2, <1>3, <1>5
<1> HIDE DEF first, failed
<1>7. After \in SUBSET (batch \ {first})
  <2> SUFFICES ASSUME NEW h \in Started, h > first, h \notin batch PROVE FALSE
    BY <1>6
  <2>1. h \in Nat
    BY <1>1 DEF Started, Job, Hosts
  <2> QED
    BY <1>5, <1>6, <2>1
<1> HIDE DEF After
<1>8. IsFiniteSet(batch)
  <2>1. IsFiniteSet(Hosts)
    BY FS_Interval DEF Hosts
  <2> QED
    BY <1>5, <2>1, FS_Subset
<1>9. /\ IsFiniteSet(batch \ {first})
      /\ Cardinality(batch \ {first}) = Cardinality(batch) - 1
  BY <1>6, <1>8, FS_RemoveElement
<1>10. /\ Cardinality(After) <= Cardinality(batch \ {first})
       /\ Cardinality(After) \in Nat /\ Cardinality(batch) \in Nat
  BY <1>7, <1>8, <1>9, FS_Subset, FS_CardinalityType
<1> QED
  BY <1>5, <1>9, <1>10

\* FailFastStops, of any number of hosts and workers: --fail-fast in
\* _execute_host_operation_batches touches less than a pool of hosts after a failed one.
THEOREM StopsFast ==
  ASSUME N \in Nat, Workers \in Nat
  PROVE  Spec => []FailFastStops
<1>1. Init => FailFastInv
  BY DEF Init, FleetInit, FailFastInv, NoJob
<1>2. IInv /\ FailFastInv /\ [Next]_vars => FailFastInv'
  BY StartBatchFailFast, PushHostFailFast, StageFailFast, OtherFailFast
  DEF Next, PushNext
<1>3. IInv /\ FailFastInv => FailFastStops
  BY StopsOf
<1> QED
  BY <1>1, <1>2, <1>3, Inductive, PTL DEF Spec
=============================================================================
