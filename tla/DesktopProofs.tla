----------------------------- MODULE DesktopProofs -----------------------------
(***************************************************************************)
(* The two programs that start the compressor from the desktop: the window *)
(* (GuiJobs) and, at the end of the module, the Explorer menu              *)
(* (ShellExtension, as Menu).  They share no state.                        *)
(*                                                                         *)
(* What holds of the window's job slot for any archives and any number of  *)
(* jobs.  OneLossPerPeriod is inductive with the fact that an empty slot   *)
(* has nothing lost.  ShownIsCurrent is not: it rests on which job wrote   *)
(* each file (Writers) and on no job being heard before it ended           *)
(* (JobsSane).                                                             *)
(***************************************************************************)
EXTENDS GuiJobs, TLAPS

\* A file's last writer is a create that was asked for this very file.
Writers ==
  \A a \in Archives : disk[a].by # 0 =>
    /\ disk[a].by \in 1..Len(jobs)
    /\ jobs[disk[a].by].kind = "create" /\ jobs[disk[a].by].archive = a

\* Nothing is heard of a job before it is over, only an answer is a success, and only a
\* create writes.
JobsSane ==
  \A j \in 1..Len(jobs) : /\ jobs[j].heard => Over(j)
                          /\ jobs[j].ok => jobs[j].phase = "answered"
                          /\ jobs[j].phase = "writing" => jobs[j].kind = "create"

SlotQuiet == busy = 0 => lost = 0

IInv == /\ TypeOK /\ Writers /\ JobsSane
        /\ SlotQuiet /\ OneLossPerPeriod /\ ShownIsCurrent

-----------------------------------------------------------------------------
(* Sequences of jobs *)

\* Replacing one job keeps the sequence a sequence of jobs of the same length.
LEMMA Replaced ==
  ASSUME NEW s \in Seq(Job), NEW j \in 1..Len(s), NEW e \in Job
  PROVE  LET t == [s EXCEPT ![j] = e]
         IN  /\ t \in Seq(Job) /\ Len(t) = Len(s) /\ t[j] = e
             /\ \A i \in 1..Len(s) : i # j => t[i] = s[i]
  OBVIOUS

\* Starting one leaves the others where they are.
LEMMA Started ==
  ASSUME NEW s \in Seq(Job), NEW e \in Job
  PROVE  /\ Append(s, e) \in Seq(Job) /\ Len(Append(s, e)) = Len(s) + 1
         /\ Append(s, e)[Len(s) + 1] = e
         /\ \A i \in 1..Len(s) : Append(s, e)[i] = s[i]
  OBVIOUS

LEMMA NewJobType == \A a \in Archives, k \in {"create", "extract"} : NewJob(k, a) \in Job
  BY DEF NewJob, Job

\* At the start nothing is shown, open, running or written by a job.
LEMMA InitInv == Init => IInv
<1> SUFFICES ASSUME Init PROVE IInv
  OBVIOUS
<1>1. TypeOK
  <2>1. jobs \in Seq(Job) /\ Len(jobs) = 0
    BY DEF Init
  <2>2. NoFile \in Contents /\ Untouched \in Contents
    BY DEF NoFile, Untouched, Contents
  <2>3. disk \in [Archives -> Contents]
    BY <2>2 DEF Init
  <2>4. /\ engine \in Engines /\ demo \in BOOLEAN
        /\ bin = (engine = "cli")
    BY Zenon DEF Init
  <2> QED
    BY <2>1, <2>3, <2>4 DEF Init, TypeOK
<1>2. Writers
  BY DEF Init, Writers, NoFile, Untouched
<1>3. JobsSane /\ SlotQuiet /\ OneLossPerPeriod /\ ShownIsCurrent
  BY DEF Init, JobsSane, SlotQuiet, OneLossPerPeriod, ShownIsCurrent
<1> QED
  BY <1>1, <1>2, <1>3 DEF IInv

-----------------------------------------------------------------------------
(* What is shown *)

\* Opening an archive shows the file as it is, under no report, or nothing.
LEMMA OpenPathShows ==
  ASSUME TypeOK, NEW a \in Archives, OpenPath(a), UNCHANGED disk
  PROVE  /\ view' \in Shown \cup {None} /\ report' \in Shown \cup {None}
         /\ ShownIsCurrent'
<1>1. Reading(a) \in Shown
  BY DEF TypeOK, Reading, Shown
<1>2. CASE view' = Reading(a) /\ report' = None
  <2>1. \A s \in {view', report'} \ {None} : s = Reading(a)
    BY <1>2
  <2>2. Reading(a).path = a /\ Reading(a).seen = disk[a]
    BY DEF Reading
  <2> QED
    BY <1>1, <1>2, <2>1, <2>2 DEF ShownIsCurrent
<1>3. CASE view' = None /\ UNCHANGED report
  BY <1>3 DEF ShownIsCurrent, TypeOK
<1> QED
  BY <1>2, <1>3 DEF OpenPath, OpenSucceeds, OpenFails

\* What was current stays current while the files and their writers' success stay.
LEMMA ShownKept ==
  ASSUME ShownIsCurrent, UNCHANGED <<view, report, disk>>,
         TypeOK, \A a \in Archives : Heard(a)' => Heard(a)
  PROVE  ShownIsCurrent'
<1> SUFFICES ASSUME AutoOpen, view # None
             PROVE  /\ report # None => report.path = view.path
                    /\ \A s \in {view, report} \ {None} :
                         s.from = "cli" /\ s.seen # disk[s.path] => ~Heard(s.path)'
  BY DEF ShownIsCurrent
<1>1. \A s \in {view, report} \ {None} : s.path \in Archives
  BY DEF TypeOK, Shown
<1> QED
  BY <1>1 DEF ShownIsCurrent

\* Success is heard of the same jobs if neither the files nor the jobs change.
LEMMA HeardKept ==
  ASSUME UNCHANGED <<jobs, disk>>
  PROVE  /\ \A a \in Archives : Heard(a)' => Heard(a)
         /\ Writers => Writers'
         /\ JobsSane => JobsSane'
  BY DEF Heard, Writers, JobsSane, Over

-----------------------------------------------------------------------------
(* The steps, one lemma for each group that disturbs the same conjuncts *)

\* Opening, closing and testing touch neither jobs nor dialogs.
LEMMA LookInv ==
  ASSUME IInv, (\E a \in Archives : Open(a)) \/ CloseArchive \/ RunTest
  PROVE  IInv'
<1>1. /\ UNCHANGED <<jobs, disk>>
      /\ UNCHANGED <<addDialog, extractDialog, busy, engine, bin, demo, lost>>
  BY DEF Open, CloseArchive, RunTest
<1>2. view' \in Shown \cup {None} /\ report' \in Shown \cup {None} /\ ShownIsCurrent'
  <2>1. ASSUME NEW a \in Archives, Open(a)
        PROVE  view' \in Shown \cup {None} /\ report' \in Shown \cup {None} /\ ShownIsCurrent'
    BY <2>1, <1>1, OpenPathShows DEF Open, IInv
  <2>2. CASE CloseArchive
    BY <2>2 DEF CloseArchive, ShownIsCurrent
  <2>3. CASE RunTest
    <3>1. view \in Shown /\ view # None /\ view' = view /\ report' = Reading(view.path)
      BY <2>3 DEF RunTest, IInv, TypeOK
    <3>2. /\ Reading(view.path) \in Shown
          /\ Reading(view.path).path = view.path /\ Reading(view.path).seen = disk[view.path]
      BY <3>1 DEF IInv, TypeOK, Reading, Shown
    <3>3. \A s \in {view', report'} \ {None} : s = view \/ s = Reading(view.path)
      BY <3>1
    <3>4. ASSUME AutoOpen, view.from = "cli", view.seen # disk[view.path]
          PROVE  ~Heard(view.path)
      BY <3>1, <3>4 DEF IInv, ShownIsCurrent
    <3>5. ASSUME AutoOpen, NEW s \in {view', report'} \ {None}, s.from = "cli",
                 s.seen # disk[s.path]'
          PROVE  ~Heard(s.path)'
      BY <1>1, <3>2, <3>3, <3>4, <3>5, HeardKept, <3>1 DEF Shown
    <3> QED
      BY <3>1, <3>2, <3>5 DEF ShownIsCurrent
  <2> QED
    BY <2>1, <2>2, <2>3
<1>3. TypeOK'
  BY <1>1, <1>2 DEF IInv, TypeOK
<1>4. Writers' /\ JobsSane'
  BY <1>1, HeardKept DEF IInv
<1>5. SlotQuiet' /\ OneLossPerPeriod'
  BY <1>1 DEF IInv, SlotQuiet, OneLossPerPeriod, OpenDialogs
<1> QED
  BY <1>2, <1>3, <1>4, <1>5 DEF IInv

\* Dialogs open only while the slot is empty; closing one only lowers what can be lost.
LEMMA DialogInv ==
  ASSUME IInv,
         \/ \E a \in Archives : AddPicker(a)
         \/ StartExtract \/ CancelAdd \/ CancelExtract \/ ToggleDemo \/ ApplySettings
  PROVE  IInv'
<1>1. UNCHANGED <<view, report, busy, lost, jobs, disk>>
  BY DEF AddPicker, StartExtract, CancelAdd, CancelExtract, ToggleDemo, ApplySettings
<1>2. addDialog' \in Archives \cup {None} /\ extractDialog' \in Archives \cup {None}
  BY DEF IInv, TypeOK, Shown, AddPicker, StartExtract, CancelAdd, CancelExtract, ToggleDemo,
         ApplySettings
<1>3. engine' \in Engines /\ demo' \in BOOLEAN
  BY DEF IInv, TypeOK, AddPicker, StartExtract, CancelAdd, CancelExtract, ToggleDemo,
         ApplySettings, Resync, Engines
<1>4. bin' = (engine' = "cli")
  <2>1. CASE ApplySettings
    BY <2>1, Zenon DEF ApplySettings, Resync
  <2>2. CASE ~ApplySettings
    <3>1. UNCHANGED <<engine, bin>>
      BY <2>2 DEF AddPicker, StartExtract, CancelAdd, CancelExtract, ToggleDemo
    <3> QED
      BY <3>1, Zenon DEF IInv, TypeOK
  <2> QED
    BY <2>1, <2>2
<1>5. TypeOK'
  BY <1>1, <1>2, <1>3, <1>4 DEF IInv, TypeOK
<1>6. Writers' /\ JobsSane'
  BY <1>1, HeardKept DEF IInv
<1>7. ShownIsCurrent'
  BY <1>1, HeardKept, ShownKept DEF IInv
<1>8. SlotQuiet'
  BY <1>1 DEF IInv, SlotQuiet
<1>9. OneLossPerPeriod'
  <2>1. SUFFICES ASSUME busy # 0 PROVE OpenDialogs' <= OpenDialogs /\ OpenDialogs' \in Nat
    BY <1>1 DEF IInv, TypeOK, OneLossPerPeriod, OpenDialogs
  <2> QED
    BY <2>1 DEF OpenDialogs, AddPicker, StartExtract, CancelAdd, CancelExtract, ToggleDemo,
                ApplySettings
<1> QED
  BY <1>5, <1>6, <1>7, <1>8, <1>9 DEF IInv

\* A job that starts writes no file yet and is heard by nobody.
LEMMA LaunchKeeps ==
  ASSUME IInv, NEW job \in Job, job.heard = FALSE, job.ok = FALSE, job.phase = "running",
         Launch(job),
         UNCHANGED <<view, report, disk>>
  PROVE  /\ jobs' \in Seq(Job) /\ busy' \in 0..Len(jobs') /\ busy' # 0 /\ lost' \in Nat
         /\ Writers' /\ JobsSane' /\ ShownIsCurrent'
<1>1. /\ jobs' \in Seq(Job) /\ Len(jobs') = Len(jobs) + 1 /\ jobs'[Len(jobs) + 1] = job
      /\ \A i \in 1..Len(jobs) : jobs'[i] = jobs[i]
  BY Started DEF IInv, TypeOK, Launch
<1>2. Len(jobs) \in Nat
  BY DEF IInv, TypeOK
<1>3. busy' \in 0..Len(jobs') /\ busy' # 0 /\ lost' \in Nat
  BY <1>1, <1>2 DEF IInv, TypeOK, Launch
<1>4. Writers'
  BY <1>1, <1>2 DEF IInv, Writers
<1>5. JobsSane'
  <2> SUFFICES ASSUME NEW j \in 1..(Len(jobs) + 1)
               PROVE  /\ jobs'[j].heard => jobs'[j].phase \in {"answered", "panicked"}
                      /\ jobs'[j].ok => jobs'[j].phase = "answered"
                      /\ jobs'[j].phase = "writing" => jobs'[j].kind = "create"
    BY <1>1 DEF JobsSane, Over
  <2>1. CASE j \in 1..Len(jobs)
    BY <1>1, <2>1 DEF IInv, JobsSane, Over
  <2>2. CASE j = Len(jobs) + 1
    BY <1>1, <2>2
  <2> QED
    BY <1>2, <2>1, <2>2
<1>6. \A a \in Archives : Heard(a)' => Heard(a)
  BY <1>1 DEF IInv, Writers, Heard
<1>7. ShownIsCurrent'
  BY <1>6, ShownKept DEF IInv
<1> QED
  BY <1>1, <1>3, <1>4, <1>5, <1>7

\* The dialog that starts a job is closed by it, so the loss it may cause is paid for.
LEMMA ConfirmInv ==
  ASSUME IInv, ConfirmAdd \/ ConfirmExtract
  PROVE  IInv'
<1>1. /\ UNCHANGED <<engine, bin, demo, disk>>
      /\ addDialog' \in Archives \cup {None} /\ extractDialog' \in Archives \cup {None}
  BY DEF ConfirmAdd, ConfirmExtract, IInv, TypeOK
<1>2. /\ OpenDialogs \in Nat /\ OpenDialogs' \in Nat
      /\ OpenDialogs' = OpenDialogs - 1
  BY DEF OpenDialogs, ConfirmAdd, ConfirmExtract
<1>3. CASE \E job \in Job : /\ job.heard = FALSE /\ job.ok = FALSE /\ job.phase = "running"
                             /\ Launch(job) /\ UNCHANGED <<view, report>>
  <2>1. /\ jobs' \in Seq(Job) /\ busy' \in 0..Len(jobs') /\ busy' # 0 /\ lost' \in Nat
        /\ Writers' /\ JobsSane' /\ ShownIsCurrent'
    BY <1>1, <1>3, LaunchKeeps
  <2>2. lost' + OpenDialogs' <= 1
    <3>1. lost' = (IF busy = 0 THEN 0 ELSE lost + 1)
      BY <1>3 DEF Launch
    <3>2. OpenDialogs <= 2
      BY DEF OpenDialogs
    <3> QED
      BY <1>2, <3>1, <3>2 DEF IInv, TypeOK, OneLossPerPeriod
  <2>3. TypeOK'
    BY <1>1, <1>3, <2>1 DEF IInv, TypeOK
  <2> QED
    BY <2>1, <2>2, <2>3 DEF IInv, SlotQuiet, OneLossPerPeriod
<1>4. CASE /\ UNCHANGED <<busy, lost, jobs>>
           /\ \/ UNCHANGED <<view, report>>
              \/ \E a \in Archives : OpenPath(a)
  <2>1. view' \in Shown \cup {None} /\ report' \in Shown \cup {None} /\ ShownIsCurrent'
    <3>1. CASE UNCHANGED <<view, report>>
      BY <1>1, <1>4, <3>1, HeardKept, ShownKept DEF IInv, TypeOK
    <3>2. CASE \E a \in Archives : OpenPath(a)
      BY <1>1, <3>2, OpenPathShows DEF IInv
    <3> QED
      BY <1>4, <3>1, <3>2
  <2>2. TypeOK'
    BY <1>1, <1>4, <2>1 DEF IInv, TypeOK
  <2>3. Writers' /\ JobsSane'
    BY <1>1, <1>4, HeardKept DEF IInv
  <2>4. SlotQuiet' /\ OneLossPerPeriod'
    BY <1>2, <1>4 DEF IInv, TypeOK, SlotQuiet, OneLossPerPeriod
  <2> QED
    BY <2>1, <2>2, <2>3, <2>4 DEF IInv
<1>5. CASE ConfirmAdd
  <2>1. addDialog \in Archives
    BY <1>5 DEF ConfirmAdd, IInv, TypeOK
  <2>2. /\ NewJob("create", addDialog) \in Job /\ NewJob("create", addDialog).heard = FALSE
        /\ NewJob("create", addDialog).ok = FALSE /\ NewJob("create", addDialog).phase = "running"
    BY <2>1, NewJobType DEF NewJob
  <2> QED
    BY <1>3, <1>4, <1>5, <2>1, <2>2 DEF ConfirmAdd, FinishCreate
<1>6. CASE ConfirmExtract
  <2>1. extractDialog \in Archives
    BY <1>6 DEF ConfirmExtract, IInv, TypeOK
  <2>2. /\ NewJob("extract", extractDialog) \in Job
        /\ NewJob("extract", extractDialog).heard = FALSE
        /\ NewJob("extract", extractDialog).ok = FALSE
        /\ NewJob("extract", extractDialog).phase = "running"
    BY <2>1, NewJobType DEF NewJob
  <2> QED
    BY <1>3, <1>4, <1>6, <2>2 DEF ConfirmExtract
<1> QED
  BY <1>5, <1>6

-----------------------------------------------------------------------------
(* Jobs *)

\* Hearing the job in the slot: only a create that succeeded makes a file's success known,
\* and its file is opened at once.
LEMMA PollInv ==
  ASSUME IInv, PollBusy
  PROVE  IInv'
<1> DEFINE e == [jobs[busy] EXCEPT !.heard = TRUE]
<1>1. busy \in 1..Len(jobs) /\ jobs \in Seq(Job) /\ jobs[busy] \in Job
  BY DEF PollBusy, IInv, TypeOK
<1>2. e \in Job /\ jobs' = [jobs EXCEPT ![busy] = e]
  BY <1>1 DEF PollBusy, Job
<1>4. /\ e.kind = jobs[busy].kind /\ e.archive = jobs[busy].archive
      /\ e.phase = jobs[busy].phase /\ e.ok = jobs[busy].ok
  BY <1>1 DEF Job
<1>5. /\ UNCHANGED <<addDialog, extractDialog, engine, bin, demo, disk>>
      /\ busy' = 0 /\ lost' = 0
  BY DEF PollBusy
<1> HIDE DEF e
<1>3. /\ jobs' \in Seq(Job) /\ Len(jobs') = Len(jobs) /\ jobs'[busy] = e
      /\ \A i \in 1..Len(jobs) : i # busy => jobs'[i] = jobs[i]
  BY <1>1, <1>2, Replaced
<1>6. Writers'
  BY <1>3, <1>4, <1>5 DEF IInv, Writers
<1>7. JobsSane'
  <2> SUFFICES ASSUME NEW j \in 1..Len(jobs)
               PROVE  /\ jobs'[j].heard => jobs'[j].phase \in {"answered", "panicked"}
                      /\ jobs'[j].ok => jobs'[j].phase = "answered"
                      /\ jobs'[j].phase = "writing" => jobs'[j].kind = "create"
    BY <1>3 DEF JobsSane, Over
  <2> QED
    BY <1>3, <1>4 DEF IInv, JobsSane, Over, PollBusy
<1>8. view' \in Shown \cup {None} /\ report' \in Shown \cup {None} /\ ShownIsCurrent'
  <2>1. CASE OpenPath(jobs[busy].archive)
    <3>1. jobs[busy].archive \in Archives
      BY <1>1 DEF Job
    <3> QED
      BY <1>5, <2>1, <3>1, OpenPathShows DEF IInv
  <2>2. CASE /\ UNCHANGED <<view, report>>
             /\ ~AutoOpen \/ jobs[busy].kind # "create" \/ ~jobs[busy].ok
    <3>1. CASE ~AutoOpen
      BY <2>2, <3>1 DEF ShownIsCurrent, IInv, TypeOK
    <3>2. CASE jobs[busy].kind # "create" \/ ~jobs[busy].ok
      <4>1. \A a \in Archives : Heard(a)' => Heard(a)
        BY <1>3, <1>4, <1>5, <3>2 DEF IInv, Writers, Heard
      <4> QED
        BY <1>5, <2>2, <4>1, ShownKept DEF IInv, TypeOK
    <3> QED
      BY <2>2, <3>1, <3>2
  <2>3. jobs[busy].ok => jobs[busy].phase = "answered"
    BY <1>1 DEF IInv, JobsSane
  <2> QED
    BY <2>1, <2>2, <2>3 DEF PollBusy, FinishCreate
<1>9. TypeOK'
  BY <1>3, <1>5, <1>8 DEF IInv, TypeOK
<1>10. SlotQuiet' /\ OneLossPerPeriod'
  BY <1>5 DEF SlotQuiet, OneLossPerPeriod
<1> QED
  BY <1>6, <1>7, <1>8, <1>9, <1>10 DEF IInv

\* A job that is not over has not been heard: nothing is known yet of the file it writes.
LEMMA JobInv ==
  ASSUME IInv, NEW j \in 1..MaxJobs, JobStep(j)
  PROVE  IInv'
<1>1. j \in 1..Len(jobs) /\ jobs \in Seq(Job) /\ jobs[j] \in Job /\ UNCHANGED gui
  BY DEF JobStep, Truncate, Complete, End, IInv, TypeOK
<1>2. ~Over(j) /\ ~jobs[j].heard /\ ~jobs[j].ok
  <2>1. ~Over(j)
    BY DEF JobStep, Truncate, Complete, End, Over
  <2> QED
    BY <1>1, <2>1 DEF IInv, JobsSane, Over
<1>3. PICK e \in Job : /\ jobs' = [jobs EXCEPT ![j] = e]
                       /\ e.kind = jobs[j].kind /\ e.archive = jobs[j].archive
                       /\ e.heard = FALSE /\ (e.ok => e.phase = "answered")
                       /\ (e.phase = "writing" => e.kind = "create")
  <2>1. ASSUME NEW p \in {"writing", "answered", "panicked"}, NEW b \in BOOLEAN
        PROVE  LET e == [jobs[j] EXCEPT !.phase = p, !.ok = b]
               IN  /\ e \in Job /\ e.kind = jobs[j].kind /\ e.archive = jobs[j].archive
                   /\ e.heard = jobs[j].heard /\ e.ok = b /\ e.phase = p
    BY <1>1 DEF Job
  <2>2. \E p \in {"writing", "answered", "panicked"}, b \in BOOLEAN :
          /\ jobs' = [jobs EXCEPT ![j] = [jobs[j] EXCEPT !.phase = p, !.ok = b]]
          /\ b => p = "answered"
          /\ p = "writing" => jobs[j].kind = "create"
    <3>1. \A p \in {"writing", "answered", "panicked"} :
            [jobs[j] EXCEPT !.phase = p] = [jobs[j] EXCEPT !.phase = p, !.ok = FALSE]
      BY <1>1, <1>2 DEF Job
    <3>2. CASE Truncate(j)
      <4>1. jobs' = [jobs EXCEPT ![j] = [jobs[j] EXCEPT !.phase = "writing"]]
        BY <3>2, <1>1 DEF Truncate
      <4> QED
        BY <3>1, <3>2, <4>1 DEF Truncate
    <3>3. CASE Complete(j)
      <4>1. jobs' = [jobs EXCEPT ![j] = [jobs[j] EXCEPT !.phase = "answered", !.ok = TRUE]]
        BY <3>3, <1>1 DEF Complete
      <4> QED
        BY <4>1
    <3>4. CASE End(j)
      <4>1. \/ jobs' = [jobs EXCEPT ![j] = [jobs[j] EXCEPT !.phase = "answered", !.ok = TRUE]]
            \/ \E p \in {"answered", "panicked"} :
                  jobs' = [jobs EXCEPT ![j] = [jobs[j] EXCEPT !.phase = p]]
        BY <3>4, <1>1 DEF End
      <4> QED
        BY <3>1, <4>1
    <3> QED
      BY <3>2, <3>3, <3>4 DEF JobStep
  <2>3. PICK p \in {"writing", "answered", "panicked"}, b \in BOOLEAN :
          /\ jobs' = [jobs EXCEPT ![j] = [jobs[j] EXCEPT !.phase = p, !.ok = b]]
          /\ b => p = "answered"
          /\ p = "writing" => jobs[j].kind = "create"
    BY <2>2
  <2> DEFINE e == [jobs[j] EXCEPT !.phase = p, !.ok = b]
  <2>4. /\ e \in Job /\ e.kind = jobs[j].kind /\ e.archive = jobs[j].archive
        /\ e.heard = jobs[j].heard /\ e.ok = b /\ e.phase = p
    BY <2>1, ZenonT(60)
  <2>5. jobs' = [jobs EXCEPT ![j] = e]
    BY <2>3
  <2> HIDE DEF e
  <2>6. e.heard = FALSE /\ (e.ok => e.phase = "answered")
    BY <1>1, <1>2, <2>3, <2>4 DEF Job
  <2>7. e.phase = "writing" => e.kind = "create"
    BY <2>3, <2>4
  <2> QED
    BY <2>4, <2>5, <2>6, <2>7
<1>4. /\ jobs' \in Seq(Job) /\ Len(jobs') = Len(jobs) /\ jobs'[j] = e
      /\ \A i \in 1..Len(jobs) : i # j => jobs'[i] = jobs[i]
  BY <1>1, <1>3, Replaced
<1>5. /\ disk' \in [Archives -> Contents]
      /\ \A a \in Archives : \/ disk'[a] = disk[a]
                             \/ disk'[a].by = j /\ jobs[j].kind = "create" /\ jobs[j].archive = a
  <2>1. CASE Truncate(j)
    <3>1. [by |-> j, whole |-> FALSE] \in Contents
      BY <1>1 DEF Contents
    <3> QED
      BY <1>1, <2>1, <3>1 DEF Truncate, IInv, TypeOK, Job
  <2>2. CASE Complete(j)
    <3>1. jobs[j].kind = "create"
      BY <1>1, <2>2 DEF Complete, IInv, JobsSane
    <3>2. (disk[jobs[j].archive].by = j) \in BOOLEAN
      OBVIOUS
    <3>3. [by |-> j, whole |-> (disk[jobs[j].archive].by = j)] \in Contents
      BY <1>1, <3>2 DEF Contents
    <3>4. disk' = [disk EXCEPT ![jobs[j].archive] =
                     [by |-> j, whole |-> (disk[jobs[j].archive].by = j)]]
      BY <2>2 DEF Complete
    <3> QED
      BY <1>1, <3>1, <3>3, <3>4 DEF IInv, TypeOK, Job
  <2>3. CASE End(j)
    BY <2>3 DEF End, IInv, TypeOK
  <2> QED
    BY <2>1, <2>2, <2>3 DEF JobStep
<1>6. Writers'
  BY <1>1, <1>3, <1>4, <1>5 DEF IInv, Writers
<1>7. JobsSane'
  <2> SUFFICES ASSUME NEW i \in 1..Len(jobs)
               PROVE  /\ jobs'[i].heard => jobs'[i].phase \in {"answered", "panicked"}
                      /\ jobs'[i].ok => jobs'[i].phase = "answered"
                      /\ jobs'[i].phase = "writing" => jobs'[i].kind = "create"
    BY <1>4 DEF JobsSane, Over
  <2> QED
    BY <1>3, <1>4 DEF IInv, JobsSane, Over
<1>8. \A a \in Archives : /\ Heard(a)' => Heard(a) /\ disk'[a] = disk[a]
  BY <1>1, <1>2, <1>3, <1>4, <1>5 DEF IInv, Writers, Heard
<1>9. ShownIsCurrent'
  <2> SUFFICES ASSUME AutoOpen, view # None
               PROVE  /\ report # None => report.path = view.path
                      /\ \A s \in {view, report} \ {None} :
                           s.from = "cli" /\ s.seen # disk'[s.path] => ~Heard(s.path)'
    BY <1>1 DEF ShownIsCurrent, gui
  <2>1. \A s \in {view, report} \ {None} : s.path \in Archives
    BY DEF IInv, TypeOK, Shown
  <2> QED
    BY <1>8, <2>1 DEF IInv, ShownIsCurrent
<1>10. TypeOK'
  BY <1>1, <1>4, <1>5 DEF IInv, TypeOK, gui
<1>11. SlotQuiet' /\ OneLossPerPeriod'
  BY <1>1 DEF IInv, gui, SlotQuiet, OneLossPerPeriod, OpenDialogs
<1> QED
  BY <1>6, <1>7, <1>9, <1>10, <1>11 DEF IInv

-----------------------------------------------------------------------------
\* Every step keeps the invariant.
LEMMA NextInv == IInv /\ [Next]_vars => IInv'
<1> SUFFICES ASSUME IInv, [Next]_vars PROVE IInv'
  OBVIOUS
<1>1. CASE Click
  BY <1>1, LookInv, DialogInv, ConfirmInv DEF Click
<1>2. CASE PollBusy
  BY <1>2, PollInv
<1>3. CASE \E j \in 1..MaxJobs : JobStep(j)
  BY <1>3, JobInv
<1>4. CASE UNCHANGED vars
  BY <1>4, HeardKept, ShownKept
     DEF vars, gui, IInv, TypeOK, SlotQuiet, OneLossPerPeriod, OpenDialogs
<1> QED
  BY <1>1, <1>2, <1>3, <1>4 DEF Next

LEMMA AllInv == Spec => []IInv
  BY InitInv, NextInv, PTL DEF Spec

\* Every variable of the window keeps its type; the slot names a job that exists.
THEOREM GuiTypes == Spec => []TypeOK
  BY AllInv, PTL DEF IInv

\* However many jobs dialogs start, at most one answer is thrown away while the slot is full.
THEOREM OneLoss == Spec => []OneLossPerPeriod
  BY AllInv, PTL DEF IInv

\* The listing and the report are of the file as it is, unless its last writer still runs,
\* failed, or was never heard.
THEOREM WindowIsCurrent == Spec => []ShownIsCurrent
  BY AllInv, PTL DEF IInv
-----------------------------------------------------------------------------
(* The menu of aahl_shellext.dll: when the names Explorer is told are those *)
(* of the items it shows.  The two forms of an id overlap only when the     *)
(* first id is below the number of verbs; above it both resolve, whatever   *)
(* part of the menu went in.                                                *)

CONSTANTS MaxArchives, MaxItems, MaxId
VARIABLES keys, object, selection, idCmdFirst, shown, base, answered, ran, launches

Menu == INSTANCE ShellExtension

\* What is shown is a beginning of what the selection calls for, under the first id kept.
MenuSane ==
  /\ Len(shown) <= Len(Menu!Build(selection))
  /\ \A k \in 1..Len(shown) : shown[k] = Menu!Build(selection)[k]
  /\ shown # <<>> => idCmdFirst = base

\* Nothing is shown or named of an object that has not been queried.
Unqueried == object \in {"none", "fresh", "ready"} =>
  shown = <<>> /\ answered = Menu!NoAnswer /\ ran = Menu!NoAnswer

Answered == answered.item # 0 =>
  /\ answered.item \in 1..Len(shown)
  /\ base >= Menu!MaxVerbs => answered.verb = shown[answered.item]

\* The same of what an item ran, if it ran anything.
Invoked == ran.item # 0 =>
  /\ ran.item \in 1..Len(shown)
  /\ base >= Menu!MaxVerbs => ran.verb \in {Menu!NoVerb, shown[ran.item]}

MenuTypes ==
  /\ selection \in Seq(BOOLEAN) /\ shown \in Seq(Menu!Verbs)
  /\ idCmdFirst \in Nat /\ base \in Nat

MenuInv == MenuTypes /\ MenuSane /\ Unqueried /\ Answered /\ Invoked

-----------------------------------------------------------------------------
\* A selection calls for no more verbs than there are.
LEMMA BuildType == \A sel \in Seq(BOOLEAN) :
                     Menu!Build(sel) \in Seq(Menu!Verbs) /\ Len(Menu!Build(sel)) <= Menu!MaxVerbs
<1>1. <<>> \in Seq(Menu!Verbs) /\ Len(<<>>) <= Menu!MaxVerbs
  BY DEF Menu!MaxVerbs
<1>2. <<"add">> \in Seq(Menu!Verbs) /\ Len(<<"add">>) <= Menu!MaxVerbs
  BY DEF Menu!Verbs, Menu!MaxVerbs
<1>3. LET all == <<"add", "extractHere", "extractTo", "test">>
      IN  all \in Seq(Menu!Verbs) /\ Len(all) <= Menu!MaxVerbs
  BY DEF Menu!Verbs, Menu!MaxVerbs
<1> QED
  BY <1>1, <1>2, <1>3 DEF Menu!Build

\* Both forms of an id name the same verb once the first id is not itself an offset.
LEMMA FormsAgree ==
  ASSUME NEW verbs \in Seq(Menu!Verbs), NEW first \in Nat, first >= Len(verbs),
         NEW k \in 1..Len(verbs)
  PROVE  /\ Menu!VerbFromId(verbs, k - 1, first) = verbs[k]
         /\ Menu!VerbFromId(verbs, first + k - 1, first) = verbs[k]
<1>1. Len(verbs) \in Nat
  OBVIOUS
<1>2. /\ ~(k - 1 >= first) /\ k - 1 < Len(verbs) /\ (k - 1) + 1 = k
      /\ first + k - 1 >= first /\ (first + k - 1) - first < Len(verbs)
      /\ (first + k - 1) - first + 1 = k
  BY <1>1
<1> QED
  BY <1>2 DEF Menu!VerbFromId

\* A menu that is not there yet shows and names nothing.
LEMMA MenuInitInv == Menu!Init => MenuInv
  BY DEF Menu!Init, MenuInv, MenuTypes, MenuSane, Unqueried, Answered, Invoked,
           Menu!NoAnswer, Menu!Build

\* Above the number of verbs, either form of an item's number resolves to its verb.
LEMMA ItemResolves ==
  ASSUME MenuInv, NEW k \in 1..Len(shown), NEW id \in {k - 1, base + k - 1},
         base >= Menu!MaxVerbs
  PROVE  Menu!VerbFromId(Menu!Build(selection), id, idCmdFirst) = shown[k]
<1>1. Menu!Build(selection) \in Seq(Menu!Verbs) /\ Len(Menu!Build(selection)) <= Menu!MaxVerbs
  BY BuildType DEF MenuInv, MenuTypes
<1>2. /\ idCmdFirst = base /\ k \in 1..Len(Menu!Build(selection))
      /\ shown[k] = Menu!Build(selection)[k]
  BY <1>1 DEF MenuInv, MenuTypes, MenuSane
<1>3. base \in Nat /\ base >= Len(Menu!Build(selection))
  BY <1>1 DEF MenuInv, MenuTypes, Menu!MaxVerbs
<1> QED
  BY <1>1, <1>2, <1>3, FormsAgree

-----------------------------------------------------------------------------
\* Every call of the shell keeps what is shown and named in step with the selection.
LEMMA MenuNextInv == MenuInv /\ [Menu!Next]_(Menu!vars) => MenuInv'
<1> SUFFICES ASSUME MenuInv, [Menu!Next]_(Menu!vars) PROVE MenuInv'
  OBVIOUS
<1>1. CASE UNCHANGED <<Menu!menu, answered, ran>>
  BY <1>1 DEF Menu!menu, MenuInv, MenuTypes, MenuSane, Unqueried, Answered, Invoked
<1>2. CASE Menu!CreateInstance
  BY <1>2 DEF Menu!CreateInstance, MenuInv, MenuTypes, MenuSane, Unqueried, Answered, Invoked,
           Menu!NoAnswer, Menu!Build
<1>3. CASE Menu!Initialize
  <2>1. selection' \in Seq(BOOLEAN)
    <3>1. ASSUME NEW n \in 1..MaxItems PROVE [1..n -> BOOLEAN] \subseteq Seq(BOOLEAN)
      OBVIOUS
    <3> QED
      BY <1>3, <3>1 DEF Menu!Initialize, MenuInv, MenuTypes, Menu!Selections
  <2>2. shown' = <<>> /\ answered' = Menu!NoAnswer /\ ran' = Menu!NoAnswer
    BY <1>3 DEF Menu!Initialize, MenuInv, Unqueried
  <2>3. Len(Menu!Build(selection')) \in Nat
    BY <2>1, BuildType
  <2> QED
    BY <1>3, <2>1, <2>2, <2>3
       DEF Menu!Initialize, MenuInv, MenuTypes, MenuSane, Unqueried, Answered, Invoked,
           Menu!NoAnswer, Menu!Build
<1>4. ASSUME NEW first \in Menu!Ids, NEW last \in Menu!Ids, NEW d \in BOOLEAN,
             Menu!QueryContextMenu(first, last, d)
      PROVE  MenuInv'
  <2>1. /\ Menu!Build(selection) \in Seq(Menu!Verbs)
        /\ selection' = selection /\ answered' = Menu!NoAnswer /\ ran' = Menu!NoAnswer
    BY <1>4, BuildType DEF Menu!QueryContextMenu, MenuInv, MenuTypes, Unqueried
  <2>2. PICK n \in 0..Len(Menu!Build(selection)) :
          /\ shown' = SubSeq(Menu!Build(selection), 1, n)
          /\ idCmdFirst' = IF n > 0 THEN first ELSE idCmdFirst
    BY <1>4 DEF Menu!QueryContextMenu
  <2>3. /\ shown' \in Seq(Menu!Verbs) /\ Len(shown') = n
        /\ \A k \in 1..n : shown'[k] = Menu!Build(selection)[k]
    BY <2>1, <2>2
  <2>4. base' = first /\ first \in Nat /\ object' = "queried"
    BY <1>4 DEF Menu!QueryContextMenu, Menu!Ids
  <2> QED
    BY <2>1, <2>2, <2>3, <2>4 DEF MenuInv, MenuTypes, MenuSane, Unqueried, Answered, Invoked, Menu!NoAnswer
<1>5. ASSUME NEW k \in 1..Menu!MaxVerbs, NEW id \in Menu!ItemIds, Menu!GetCommandString(k, id)
      PROVE  MenuInv'
  <2>1. /\ k \in 1..Len(shown) /\ id \in {k - 1, base + k - 1} /\ UNCHANGED <<Menu!menu, ran>>
        /\ answered' = [item |-> k, verb |-> Menu!VerbFromId(Menu!Build(selection), id, idCmdFirst)]
    BY <1>5 DEF Menu!GetCommandString
  <2>4. base >= Menu!MaxVerbs => Menu!VerbFromId(Menu!Build(selection), id, idCmdFirst) = shown[k]
    BY <2>1, ItemResolves
  <2>5. Answered'
    BY <2>1, <2>4 DEF Answered, Menu!menu
  <2>6. object \notin {"none", "fresh", "ready"}
    BY <2>1 DEF MenuInv, Unqueried, MenuTypes
  <2> QED
    BY <2>1, <2>5, <2>6 DEF Menu!menu, MenuInv, MenuTypes, MenuSane, Unqueried, Invoked
<1>6. ASSUME NEW k \in 1..Menu!MaxVerbs, NEW id \in Menu!ItemIds,
             NEW wideNull \in BOOLEAN, Menu!InvokeById(k, id, wideNull)
      PROVE  MenuInv'
  <2>1. /\ k \in 1..Len(shown) /\ id \in {k - 1, base + k - 1}
        /\ UNCHANGED <<selection, idCmdFirst, shown, base, answered>>
        /\ object = "queried" /\ object' \in {"queried", "faulted"}
    BY <1>6 DEF Menu!InvokeById
  <2>2. \/ ran' = [item |-> k, verb |-> Menu!NoVerb]
        \/ ran' = [item |-> k, verb |-> Menu!VerbFromId(Menu!Build(selection), id, idCmdFirst)]
    BY <1>6 DEF Menu!InvokeById
  <2>3. base >= Menu!MaxVerbs => Menu!VerbFromId(Menu!Build(selection), id, idCmdFirst) = shown[k]
    BY <2>1, ItemResolves
  <2>4. Invoked'
    BY <2>1, <2>2, <2>3 DEF Invoked
  <2> QED
    BY <2>1, <2>4 DEF MenuInv, MenuTypes, MenuSane, Unqueried, Answered
<1> QED
  BY <1>1, <1>2, <1>3, <1>4, <1>5, <1>6
     DEF Menu!Next, Menu!vars, Menu!Register, Menu!Unregister, Menu!InvokeByName

\* The name Explorer is told for an item, by its offset or by its id, is the name of the
\* verb the item shows, as long as the first id is no smaller than the number of verbs;
\* below that (Explorer may offer such ids) an offset is taken for an id of another item.
\* Nor does an item invoked by number then run the verb of another.
THEOREM NamesFromHighIds ==
  Menu!Spec => [](base >= Menu!MaxVerbs =>
                    /\ Menu!NamesAreShown
                    /\ ran.item # 0 => ran.verb \in {Menu!NoVerb, shown[ran.item]})
<1>1. MenuInv => (base >= Menu!MaxVerbs =>
                    /\ Menu!NamesAreShown
                    /\ ran.item # 0 => ran.verb \in {Menu!NoVerb, shown[ran.item]})
  BY DEF MenuInv, Answered, Invoked, Menu!NamesAreShown
<1> QED
  BY <1>1, MenuInitInv, MenuNextInv, PTL DEF Menu!Spec
=============================================================================
