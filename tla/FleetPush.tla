------------------------------- MODULE FleetPush -------------------------------
(***************************************************************************)
(* push-config, push-config-dir and write-memory (alred/cli.py): the       *)
(* connect check, the push in batches of worker threads, fail-fast, and    *)
(* the save phase.  Nothing but the devices outlives the command.          *)
(*                                                                         *)
(* Of a configuration the model has the part verify_nxos_lab_running_      *)
(* config reads: which input it is all of ("base"), and whether there is   *)
(* more in it ("extra").                                                   *)
(***************************************************************************)
EXTENDS Integers, FiniteSets, FiniteSetsExt

CONSTANTS
  N,        \* the hosts of the inventory: 1..N
  Workers,  \* --workers
  Inputs,   \* the configurations that are pushed
  Earlier,  \* the configurations that were pushed before the model starts
  MaxRuns,  \* bound on the commands
  MaxEdits  \* bound on the edits and reboots of the devices

Hosts == 1 .. N

\* "boot": only what a device boots with; "part": some of an input.
Config == [base : Inputs \cup Earlier \cup {"boot", "part"}, extra : BOOLEAN]
Boot == [base |-> "boot", extra |-> FALSE]

VARIABLES
  live,     \* per host: running-config
  startup,  \* per host: startup-config
  edits,    \* (bound) the edits and reboots so far
  runs,     \* (bound) the commands so far
  touched,  \* (ghost) hosts edited or rebooted since they were verified
  job       \* the command that runs

fleet == <<live, startup, edits, runs, touched, job>>

\* A command: its options, and what is known of each host.
NoJob ==
  [kind |-> "none", stage |-> "none", want |-> "none", failFast |-> FALSE,
   ignore |-> FALSE,
   todo |-> {},    \* hosts not started yet, in inventory order
   batch |-> {},   \* hosts the workers have now
   ok |-> {},      \* pushed_hosts: every command accepted
   ignored |-> {}, \* IGNORED_ERROR
   failed |-> {},  \* failed_hosts
   skipped |-> {}, \* hosts the connect check did not reach
   reused |-> {}, verdict |-> [h \in Hosts |-> "none"], failedSaves |-> {}]

Done == job' = NoJob

\* New devices, or devices an earlier push has left with an input.
FleetInit(had) ==
  /\ live = [h \in Hosts |-> [base |-> had, extra |-> FALSE]]
  /\ startup \in {live, [h \in Hosts |-> Boot]}
  /\ edits = 0 /\ runs = 0 /\ touched = {} /\ job = NoJob

-----------------------------------------------------------------------------
(* The devices                                                             *)

\* Somebody changes a configuration, or the device restarts.
Touch(h, c) ==
  /\ edits < MaxEdits /\ edits' = edits + 1
  /\ live' = [live EXCEPT ![h] = c] /\ touched' = touched \cup {h}
  /\ UNCHANGED <<startup, runs, job>>

Disturb(h) ==
  \/ Touch(h, [base |-> "part", extra |-> TRUE])
  \/ Touch(h, startup[h])

\* What pushing an input makes of a configuration: it takes nothing away.
Pushed(c, want) ==
  [base |-> want, extra |-> c.extra \/ c.base \notin {"boot", want}]

-----------------------------------------------------------------------------
(* The push                                                                *)

\* push-config and push-config-dir.
BeginPush ==
  /\ job = NoJob /\ runs < MaxRuns /\ runs' = runs + 1
  /\ \E want \in Inputs, failFast, ignore \in BOOLEAN :
       job' = [NoJob EXCEPT !.kind = "push", !.stage = "connect", !.want = want,
                 !.failFast = failFast, !.ignore = ignore, !.todo = Hosts]
  /\ touched' = {} /\ UNCHANGED <<live, startup, edits>>

\* The hosts that answer go on; after that the operator may still refuse.  A
\* command without a host that answers has failed on all of them.
ConnectCheck ==
  /\ job.stage = "connect"
  /\ \E unreachable \in SUBSET job.todo :
       job' = IF unreachable = job.todo
              THEN [job EXCEPT !.todo = {}, !.skipped = unreachable, !.stage = "pushed",
                               !.failed = unreachable]
              ELSE [job EXCEPT !.todo = @ \ unreachable, !.skipped = unreachable,
                               !.stage = "push"]
  /\ UNCHANGED <<live, startup, edits, runs, touched>>

\* The command has no more to do, the operator answers no, or interrupts it: then it
\* runs on only in the threads it has started, and ends with them.
End ==
  /\ job.stage # "none" /\ job.batch = {} /\ Done
  /\ UNCHANGED <<live, startup, edits, runs, touched>>

FirstOf(S, n) == {h \in S : Cardinality({g \in S : g < h}) < n}

\* MUTANT of MayStart: the remaining batches run whatever has failed.
MayStartAlways == TRUE

MayStart == ~(job.failFast /\ job.failed # {})

\* _execute_host_operation_batches: with --fail-fast a batch is as large as the pool,
\* otherwise it is everything.
StartBatch ==
  /\ job.stage = "push" /\ job.batch = {} /\ job.todo # {} /\ MayStart
  /\ LET batch == IF job.failFast THEN FirstOf(job.todo, Workers) ELSE job.todo
     IN job' = [job EXCEPT !.batch = batch, !.todo = @ \ batch]
  /\ UNCHANGED <<live, startup, edits, runs, touched>>

\* push_config_to_host by a worker: all commands accepted (or nothing to send, after
\* the filter of its device type); CLI errors that are ignored; or a failure, before
\* or after any command.
PushHost(h) ==
  /\ job.stage = "push" /\ h \in job.batch
  /\ \/ /\ live' = [live EXCEPT ![h] = Pushed(live[h], job.want)]
        /\ job' = [job EXCEPT !.batch = @ \ {h}, !.ok = @ \cup {h}]
     \/ /\ job.kind = "push" /\ UNCHANGED live
        /\ job' = [job EXCEPT !.batch = @ \ {h}, !.ok = @ \cup {h}]
     \/ /\ job.ignore
        /\ live' = [live EXCEPT ![h] = [base |-> "part", extra |-> TRUE]]
        /\ job' = [job EXCEPT !.batch = @ \ {h}, !.ignored = @ \cup {h}]
     \/ /\ live' \in {live, [live EXCEPT ![h] = [base |-> "part", extra |-> TRUE]],
                      [live EXCEPT ![h] = Pushed(live[h], job.want)]}
        /\ job' = [job EXCEPT !.batch = @ \ {h}, !.failed = @ \cup {h}]
  /\ UNCHANGED <<startup, edits, runs, touched>>

EndPush ==
  /\ job.stage = "push" /\ job.batch = {} /\ (job.todo = {} \/ ~MayStart)
  /\ job' = [job EXCEPT !.stage = "pushed"]
  /\ UNCHANGED <<live, startup, edits, runs, touched>>

-----------------------------------------------------------------------------
(* The save phase                                                          *)

\* MUTANT of SavePhase: every host that was started is saved.
SavePhaseAll ==
  Hosts \ (job.todo \cup job.skipped)

\* The hosts to save: none after a fail-fast stop.
SavePhase == IF job.failFast /\ job.failed # {} THEN {} ELSE job.ok

\* --write-memory, which --ignore-all-cli-errors excludes; or End, without it.
BeginSaves ==
  /\ job.kind = "push" /\ job.stage = "pushed" /\ ~job.ignore
  /\ SavePhase # {}
  /\ job' = [job EXCEPT !.stage = "save", !.batch = SavePhase]
  /\ UNCHANGED <<live, startup, edits, runs, touched>>

\* write-memory: the hosts that answer, and whatever is on them.
WriteMemory ==
  /\ job = NoJob /\ runs < MaxRuns /\ runs' = runs + 1
  /\ \E reachable \in SUBSET Hosts \ {{}} :
       job' = [NoJob EXCEPT !.kind = "memory", !.stage = "save", !.batch = reachable,
                            !.skipped = Hosts \ reachable]
  /\ touched' = {} /\ UNCHANGED <<live, startup, edits>>

\* save_config_on_host by a worker.
SaveHost(h) ==
  /\ job.stage = "save" /\ h \in job.batch
  /\ \/ startup' = [startup EXCEPT ![h] = live[h]]
     \/ UNCHANGED startup
  /\ IF job.batch = {h} THEN Done ELSE job' = [job EXCEPT !.batch = @ \ {h}]
  /\ UNCHANGED <<live, edits, runs, touched>>

PushNext ==
  \/ \E h \in Hosts : Disturb(h) \/ PushHost(h) \/ SaveHost(h)
  \/ BeginPush \/ ConnectCheck \/ End \/ StartBatch \/ EndPush
  \/ BeginSaves \/ WriteMemory

-----------------------------------------------------------------------------
(* Properties                                                              *)

\* Every variable has its type; also of ClabApply, whose command is one more job.
FleetTypeOK ==
  /\ live \in [Hosts -> Config] /\ startup \in [Hosts -> Config]
  /\ edits \in 0 .. MaxEdits /\ runs \in 0 .. MaxRuns /\ touched \subseteq Hosts
  /\ job.want \in Inputs \cup {"none"}
  /\ \A s \in {job.todo, job.batch, job.ok, job.ignored, job.failed, job.skipped,
               job.reused, job.failedSaves} : s \subseteq Hosts
  /\ job.verdict \in [Hosts -> {"none", "VERIFIED", "VERIFIED_WITH_DIFF", "FAILED",
                                "UNKNOWN"}]

\* --fail-fast: fewer hosts are touched beyond the first that failed than there are
\* workers, however their sessions interleave.
FailFastStops ==
  job.kind # "none" /\ job.failFast /\ job.failed \ job.skipped # {} =>
    LET first == Min(job.failed \ job.skipped)
    IN Cardinality({h \in job.ok \cup job.ignored \cup job.failed \cup job.batch :
                      h > first}) < Workers

\* A push saves no host one of whose commands failed, or whose errors were ignored.
SavesOnlyAccepted ==
  [][job.kind = "push" =>
       \A h \in Hosts : startup'[h] # startup[h] => h \in job.ok]_fleet
=============================================================================
