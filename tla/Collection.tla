------------------------------- MODULE Collection -------------------------------
(***************************************************************************)
(* The collect commands (alred/cli.py, alred/collect.py) and the Snapshot  *)
(* built from what they leave (alred/health/manifest.py, snapshot.py).     *)
(* A command runs one thread for each host it reaches; each thread asks    *)
(* its host for the LLDP neighbours, the running configuration and a list  *)
(* of show commands, and replaces the files of that host, some before it   *)
(* asks and some after.  Threads share no file.  The output directory      *)
(* outlives the commands, and any of them may be killed.  A file is known  *)
(* by the collection that wrote it.                                        *)
(***************************************************************************)
EXTENDS Naturals, Sequences

CONSTANTS
  Hosts,          \* the hosts of the inventory that the policy selects
  Nxos,           \* those with NX-API
  WithRun,        \* those whose running configuration the policy collects
  MaxCollections  \* bound on the collections, the steps of collect-all included

VARIABLES
  collection, \* the collection that runs, or ran last
  steps,      \* what collect-all has still to do
  reached,    \* connect check of each host; collect-all asks once for all its steps
  jobs,       \* per host: its thread
  files,      \* per host: its files in the output directory
  told,       \* (ghost) per host and command: what this collection's answer was
  snapshot    \* Snapshot of the output directory

vars == <<collection, steps, reached, jobs, files, told, snapshot>>

Commands == {"lldp", "run", "show"}
Lists == {<<>>, <<"lldp", "show">>, <<"run">>} \* of show commands
Transports == {"auto", "ssh", "nxapi"}
Kinds == {"collect", "collect-clab", "collect-list", "collect-run-config",
          "collect-run-diff"}
Never == 0
NoSnapshot == <<>>
NothingTold == [c \in Commands |-> "nothing"]

NoJob == [stage |-> "none", dead |-> FALSE, reuse |-> "none", failures |-> {},
          list |-> <<>>, asked |-> 0]
\* The mirrors of LLDP and of the running configuration in both formats, the files of
\* single commands, and the logs of all show commands.
NoFiles == [lldp |-> [json |-> Never, text |-> Never],
            run |-> [json |-> Never, text |-> Never],
            artifacts |-> {}, logs |-> {}]
Artifact(dir, index, command, n, ok) ==
  [dir |-> dir, index |-> index, command |-> command, by |-> n, ok |-> ok]

Init ==
  /\ collection = [n |-> 0, kind |-> "none", transport |-> "ssh", list |-> <<>>]
  /\ steps = <<>> /\ reached = [h \in Hosts |-> "unknown"]
  /\ jobs = [h \in Hosts |-> NoJob] /\ files = [h \in Hosts |-> NoFiles]
  /\ told = [h \in Hosts |-> NothingTold]
  /\ snapshot = NoSnapshot

-----------------------------------------------------------------------------
(* A command: its options, the connect check, its threads                  *)

Ended == {"none", "out", "done", "failed", "killed"}
Idle == steps = <<>> /\ \A h \in Hosts : jobs[h].stage \in Ended

Has(kind, what) ==
  \/ what = "lldp" /\ kind \in {"collect", "collect-clab"}
  \/ what = "run" /\ kind \in {"collect", "collect-clab", "collect-run-config"}
  \/ what = "list" /\ kind \in {"collect", "collect-list"}

\* collect-list has a directory of its own.
Dir == IF collection.kind = "collect-list" THEN "show_lists" ELSE "top"

Begin(kind, transport, list) ==
  /\ collection.n < MaxCollections
  /\ collection' = [n |-> collection.n + 1, kind |-> kind, transport |-> transport,
                    list |-> list]
  /\ jobs' = [h \in Hosts |-> [NoJob EXCEPT !.stage = "check"]]
  /\ told' = [h \in Hosts |-> NothingTold]
  /\ snapshot' = NoSnapshot /\ UNCHANGED files

\* run_collect: show commands are only for collect and collect-list, which needs some.
Collect ==
  /\ Idle /\ reached' = [h \in Hosts |-> "unknown"] /\ UNCHANGED steps
  /\ \E kind \in Kinds, transport \in Transports, list \in Lists :
       /\ ~Has(kind, "list") => list = <<>>
       /\ kind = "collect-list" => list # <<>>
       /\ Begin(kind, transport, list)

\* collect-all: the four collections, of one generation and with one connect check.
CollectAll ==
  /\ Idle /\ reached' = [h \in Hosts |-> "unknown"]
  /\ \E transport \in Transports, list \in Lists \ {<<>>} :
       /\ Begin("collect-clab", transport, <<>>)
       /\ steps' = <<[kind |-> "collect-list", list |-> list],
                     [kind |-> "collect-run-diff", list |-> <<>>],
                     [kind |-> "collect-run-diff", list |-> <<>>]>>

NextStep ==
  /\ steps # <<>> /\ \A h \in Hosts : jobs[h].stage \in Ended
  /\ Begin(Head(steps).kind, collection.transport, Head(steps).list)
  /\ steps' = Tail(steps) /\ UNCHANGED reached

At(h, stage) == jobs[h].stage = stage
Goto(h, stage) == jobs' = [jobs EXCEPT ![h].stage = stage]
End(h, stage) == jobs' = [jobs EXCEPT ![h] = [NoJob EXCEPT !.stage = stage]]

\* filter_hosts_by_connect_check, with its cache; --skip-connect-check reaches all.  A
\* host that is not reached gets no thread.
ConnectCheck(h) ==
  /\ At(h, "check")
  /\ \E answer \in {"yes", "no"} :
       /\ reached[h] # "unknown" => answer = reached[h]
       /\ reached' = [reached EXCEPT ![h] = answer]
       /\ Goto(h, IF answer = "yes" THEN "start" ELSE "out")
  /\ UNCHANGED <<collection, steps, files, told, snapshot>>

-----------------------------------------------------------------------------
(* The answers of a device                                                 *)

\* Both: NX-API and SSH, each with a collector of its own, for NX-OS with --transport
\* auto.  Otherwise one of them, NX-API for NX-OS only.
Both(h) == h \in Nxos /\ collection.transport = "auto"
OverSsh(h) == ~(h \in Nxos /\ collection.transport \in {"auto", "nxapi"})

\* Over NX-API text is asked for when the JSON does not come.
NxapiAnswers == {"json", "text", "none"}

\* An SSH session is tried twice before the first command; one that failed answers
\* nothing any more.
SshAnswers(h) == IF jobs[h].dead THEN {"none"} ELSE {"text", "none"}

Answers(h) ==
  IF Both(h) THEN [nxapi : NxapiAnswers, ssh : {"text", "none"}]
  ELSE IF OverSsh(h) THEN [nxapi : {"none"}, ssh : SshAnswers(h)]
  ELSE [nxapi : NxapiAnswers, ssh : {"none"}]

Ok(a) == a.nxapi # "none" \/ a.ssh # "none"

\* save_command_result of each answer, after the variants of earlier collections went.
Mirror(a) ==
  [json |-> IF a.nxapi = "json" THEN collection.n ELSE Never,
   text |-> IF a.nxapi = "text" \/ a.ssh = "text" THEN collection.n ELSE Never]

\* MUTANT of Saved: what this collection does not write is not removed.
SavedOver(old, a) ==
  [json |-> IF Mirror(a).json # Never THEN collection.n ELSE old.json,
   text |-> IF Mirror(a).text # Never THEN collection.n ELSE old.text]

Saved(old, a) == Mirror(a)

Learns(h, c, a) ==
  told' = [told EXCEPT ![h][c] = IF Ok(a) THEN "ok" ELSE "failed"]
Dead(h, a) == jobs[h].dead \/ (OverSsh(h) /\ ~Ok(a))

-----------------------------------------------------------------------------
(* collect_from_host                                                       *)

\* The artifacts of failed base commands go first.
Start(h) ==
  /\ At(h, "start") /\ Goto(h, "lldp")
  /\ files' = [files EXCEPT ![h].artifacts =
                 {x \in @ : ~(x.dir = Dir /\ x.index = 0)}]
  /\ UNCHANGED <<collection, steps, reached, told, snapshot>>

\* A failing command is reported at the end.  Of the successes the SSH text is kept.
Lldp(h) ==
  /\ At(h, "lldp")
  /\ IF Has(collection.kind, "lldp")
     THEN \E a \in Answers(h) :
            /\ files' = [files EXCEPT ![h].lldp = Saved(@, a)]
            /\ jobs' = [jobs EXCEPT ![h].stage = "run", ![h].dead = Dead(h, a),
                                    ![h].reuse = IF Ok(a) THEN "ok" ELSE "failed"]
            /\ Learns(h, "lldp", a)
     ELSE Goto(h, "run") /\ UNCHANGED <<files, told>>
  /\ UNCHANGED <<collection, steps, reached, snapshot>>

RunningConfig(h) ==
  /\ At(h, "run")
  /\ IF Has(collection.kind, "run") /\ h \in WithRun
     THEN \E a \in Answers(h) :
            /\ files' = [files EXCEPT ![h].run = Saved(@, a)]
            /\ jobs' = [jobs EXCEPT ![h].stage = "diff", ![h].dead = Dead(h, a),
                          ![h].failures = IF Ok(a) THEN {} ELSE {"run"}]
            /\ Learns(h, "run", a)
     ELSE Goto(h, "diff") /\ UNCHANGED <<files, told>>
  /\ UNCHANGED <<collection, steps, reached, snapshot>>

\* The differences are only reported.  Then the files of single commands go, if there
\* is a list for the host (--show-hosts, groups of roles).
BeginList(h) ==
  /\ At(h, "diff")
  /\ \E list \in {<<>>, collection.list} :
       IF list # <<>>
       THEN /\ files' = [files EXCEPT ![h].artifacts = {x \in @ : x.dir # Dir}]
            /\ jobs' = [jobs EXCEPT ![h].stage = "list", ![h].list = list]
       ELSE Goto(h, "finish") /\ UNCHANGED files
  /\ UNCHANGED <<collection, steps, reached, told, snapshot>>

\* One show command after the other; the LLDP neighbours are not asked for again.
ShowCommand(h) ==
  /\ At(h, "list") /\ jobs[h].asked < Len(jobs[h].list)
  /\ LET index == jobs[h].asked + 1
         c == jobs[h].list[index]
         Save(ok) == files' = [files EXCEPT ![h].artifacts =
                       @ \cup {Artifact(Dir, index, c, collection.n, ok)}]
     IN IF c = "lldp" /\ jobs[h].reuse # "none"
        THEN /\ Save(jobs[h].reuse = "ok") /\ UNCHANGED told
             /\ jobs' = [jobs EXCEPT ![h].asked = index]
        ELSE \E a \in Answers(h) :
               /\ Save(Ok(a)) /\ Learns(h, c, a)
               /\ jobs' = [jobs EXCEPT ![h].asked = index, ![h].dead = Dead(h, a)]
  /\ UNCHANGED <<collection, steps, reached, snapshot>>

\* The log of all of them, which legacy readers take.
EndList(h) ==
  /\ At(h, "list") /\ jobs[h].asked = Len(jobs[h].list) /\ Goto(h, "finish")
  /\ files' = [files EXCEPT ![h].logs =
       {x \in @ : x.dir # Dir}
         \cup {x \in files[h].artifacts : x.dir = Dir /\ x.by = collection.n}]
  /\ UNCHANGED <<collection, steps, reached, told, snapshot>>

\* MUTANT of Unlisted: only failures have an artifact of their own.
UnlistedFailures(h) ==
  jobs[h].failures

\* The base commands with an artifact of their own: LLDP, unless the list had it, and
\* what failed.
Unlisted(h) ==
  jobs[h].failures \cup
    {c \in {"lldp"} : /\ jobs[h].reuse # "none"
                      /\ ~\E i \in DOMAIN jobs[h].list : jobs[h].list[i] = c}

Finish(h) ==
  /\ At(h, "finish") /\ End(h, "done")
  /\ files' = [files EXCEPT ![h].artifacts = @ \cup
       {Artifact(Dir, 0, c, collection.n, c = "lldp" /\ jobs[h].reuse = "ok") :
          c \in Unlisted(h)}]
  /\ UNCHANGED <<collection, steps, reached, told, snapshot>>

\* What an interrupted command leaves: mirrors removed already, or saved in part.
Torn(h) ==
  {files[h]}
    \cup {[files[h] EXCEPT !.lldp = Saved(@, a)] :
            a \in {b \in Answers(h) : At(h, "lldp") /\ Has(collection.kind, "lldp")}}
    \cup {[files[h] EXCEPT !.run = Saved(@, a)] :
            a \in {b \in Answers(h) : /\ At(h, "run") /\ h \in WithRun
                                      /\ Has(collection.kind, "run")}}

\* An exception ends the thread of a host; the others go on.
ThreadFails(h) ==
  /\ jobs[h].stage \notin Ended \cup {"check"} /\ End(h, "failed")
  /\ \E left \in Torn(h) : files' = [files EXCEPT ![h] = left]
  /\ UNCHANGED <<collection, steps, reached, told, snapshot>>

Kill ==
  /\ ~Idle /\ steps' = <<>>
  /\ \E left \in [Hosts -> UNION {Torn(h) : h \in Hosts}] :
       (\A h \in Hosts : left[h] \in Torn(h)) /\ files' = left
  /\ jobs' = [h \in Hosts |-> IF jobs[h].stage \in Ended THEN jobs[h]
                              ELSE [NoJob EXCEPT !.stage = "killed"]]
  /\ UNCHANGED <<collection, reached, told, snapshot>>

-----------------------------------------------------------------------------
(* The Collection Manifest and the Snapshot                                *)

\* The logs count for a host without files of single commands.
Sections(h) == IF files[h].artifacts # {} THEN files[h].artifacts ELSE files[h].logs

\* Text is preferred; what is in a mirror was a success.
FromMirror(c, mirror) ==
  {[dir |-> "mirror", index |-> 0, command |-> c, ok |-> TRUE,
    by |-> IF mirror.text # Never THEN mirror.text ELSE mirror.json] :
     x \in {mirror.text, mirror.json} \ {Never}}

\* MUTANT of Candidates: the mirror of LLDP is one more candidate only if no section
\* of it succeeded.
CandidatesMirrored(h, c) ==
  LET sections == {x \in Sections(h) : x.command = c}
  IN IF c = "lldp" /\ ~\E x \in sections : x.ok
     THEN FromMirror(c, files[h].lldp)
     ELSE IF c = "run" THEN sections \cup FromMirror(c, files[h].run)
     ELSE sections

\* The mirror of LLDP is for hosts without a section of it.
Candidates(h, c) ==
  LET sections == {x \in Sections(h) : x.command = c}
  IN IF c = "lldp" /\ sections = {} THEN FromMirror(c, files[h].lldp)
     ELSE IF c = "run" THEN sections \cup FromMirror(c, files[h].run)
     ELSE sections

\* build_collection_manifest: what a host has more than once is ambiguous, and failed.
Entry(h, c) ==
  LET found == Candidates(h, c)
      x == CHOOSE y \in found : TRUE
  IN IF found = {} THEN [status |-> "absent", by |-> Never]
     ELSE IF \E y, z \in found : y # z THEN [status |-> "failed", by |-> Never]
     ELSE IF x.ok THEN [status |-> "success", by |-> x.by]
     ELSE [status |-> "failed", by |-> x.by]

\* build_health_snapshot, of files nobody changes meanwhile.  Whether the parsers then
\* accept what they read is left open.
BuildSnapshot ==
  /\ Idle /\ snapshot = NoSnapshot /\ collection.n > 0
  /\ \E h \in Hosts, c \in Commands : Entry(h, c).status # "absent"
  /\ snapshot' = [h \in Hosts |-> [c \in Commands |-> Entry(h, c)]]
  /\ UNCHANGED <<collection, steps, reached, jobs, files, told>>

Next ==
  \/ Collect \/ CollectAll \/ NextStep \/ Kill \/ BuildSnapshot
  \/ \E h \in Hosts :
       \/ ConnectCheck(h) \/ Start(h) \/ Lldp(h) \/ RunningConfig(h) \/ BeginList(h)
       \/ ShowCommand(h) \/ EndList(h) \/ Finish(h) \/ ThreadFails(h)

Spec == Init /\ [][Next]_vars

-----------------------------------------------------------------------------

Stages == Ended \cup {"check", "start", "lldp", "run", "diff", "list", "finish"}
Thread == [stage : Stages, dead : BOOLEAN, reuse : {"none", "ok", "failed"},
           failures : SUBSET Commands, list : Seq(Commands), asked : Nat]
Section == [dir : {"top", "show_lists"}, index : Nat, command : Commands, by : Nat,
            ok : BOOLEAN]
MirrorFiles == [json : Nat, text : Nat]
FileSet == [lldp : MirrorFiles, run : MirrorFiles, artifacts : SUBSET Section,
            logs : SUBSET Section]
Collections == [n : 0 .. MaxCollections, kind : Kinds \cup {"none"},
                transport : Transports, list : Seq(Commands)]

\* Every variable has its type.
TypeOK ==
  /\ collection \in Collections
  /\ steps \in Seq([kind : Kinds, list : Seq(Commands)])
  /\ reached \in [Hosts -> {"unknown", "yes", "no"}]
  /\ jobs \in [Hosts -> Thread] /\ files \in [Hosts -> FileSet]
  /\ told \in [Hosts -> [Commands -> {"nothing", "ok", "failed"}]]
  /\ \A h \in Hosts : \A x \in files[h].artifacts \cup files[h].logs :
       x.by \in 1 .. collection.n

\* When the thread of a host has ended, the Snapshot has for each command it asked this
\* collection's own answer or none: no answer of an earlier collection, whatever that
\* one left, stands in for it; and a command that failed is in the Snapshot, as failed.
OwnAnswers ==
  snapshot # NoSnapshot =>
    \A h \in Hosts, c \in Commands :
      jobs[h].stage = "done" =>
        /\ told[h][c] = "ok" /\ snapshot[h][c].status = "success" =>
             snapshot[h][c].by = collection.n
        /\ told[h][c] = "failed" => snapshot[h][c].status = "failed"
=============================================================================
