------------------------------- MODULE GuiJobs -------------------------------
(***************************************************************************)
(* aahl-gui: one window, one slot for a background job, dialogs that       *)
(* outlive the moment they were opened in, and the engine's processes      *)
(* working on the same archive files the window shows.  A frame hears the  *)
(* job in the slot and then handles at most one click.                     *)
(***************************************************************************)
EXTENDS Integers, Sequences

CONSTANTS
  Archives,   \* paths the user picks
  None,
  AutoOpen,   \* FALSE: AAHL_GUI_NO_OPEN is set
  MaxJobs     \* bound: jobs started

ASSUME GuiAssumption == None \notin Archives /\ AutoOpen \in BOOLEAN /\ MaxJobs \in Nat

VARIABLES
  view,            \* `view`: None, or the path, the content listed and who listed it
  report,          \* `test`: None, or the same of the last report
  addDialog,       \* None, or the archive to create
  extractDialog,   \* None, or the archive to extract
  busy,            \* 0, or the number of the job whose channel is in the slot
  jobs,            \* every job ever started
  disk,            \* content of each archive file
  engine, bin, demo,
  lost             \* jobs pushed out of the slot since it was last empty

gui  == <<view, report, addDialog, extractDialog, busy, engine, bin, demo, lost>>
vars == <<gui, jobs, disk>>

\* What a file holds: the job that wrote it last (0: from before), and whether it is whole.
NoFile    == [by |-> 0, whole |-> FALSE]
Untouched == [by |-> 0, whole |-> TRUE]
Contents  == [by : Nat, whole : BOOLEAN]

Engines == {"cli", "fake"}
Shown   == [path : Archives, seen : Contents, from : Engines]
Job     == [kind : {"create", "extract"}, archive : Archives,
            phase : {"running", "writing", "answered", "panicked"},
            ok : BOOLEAN, heard : BOOLEAN]

NewJob(k, a) == [kind |-> k, archive |-> a, phase |-> "running", ok |-> FALSE, heard |-> FALSE]

\* `resync_engine`: demo forces the fake, else the engine is discovered or the fake stands in.
Resync == \E e \in (IF demo THEN {"fake"} ELSE Engines) :
            engine' = e /\ bin' = (e = "cli")

Init ==
  /\ view = None /\ report = None /\ addDialog = None /\ extractDialog = None
  /\ busy = 0 /\ jobs = <<>> /\ lost = 0
  /\ disk \in [Archives -> {NoFile, Untouched}]
  /\ demo = FALSE /\ engine \in Engines /\ bin = (engine = "cli")

-----------------------------------------------------------------------------
(* Opening, testing, closing: the window waits for the engine. *)

Reading(a) == [path |-> a, seen |-> disk[a], from |-> engine]

\* The fake engine knows every file; the real one lists whole archives, and may fail.
OpenSucceeds(a) == view' = Reading(a)
OpenFails       == view' = None

\* Faulty variant: the report of the archive shown before stays.
OpenPathKeepsReport(a) ==
  /\ \/ engine = "fake" /\ OpenSucceeds(a)
     \/ engine = "cli" /\ disk[a].whole /\ OpenSucceeds(a)
     \/ engine = "cli" /\ OpenFails
  /\ UNCHANGED report

OpenPath(a) ==
  \/ engine = "fake" /\ OpenSucceeds(a) /\ report' = None
  \/ engine = "cli" /\ disk[a].whole /\ OpenSucceeds(a) /\ report' = None
  \/ engine = "cli" /\ OpenFails /\ UNCHANGED report

\* Open... waits for the job; a double click in the browser, shown while no archive is
\* open, does not.
Open(a) == /\ busy = 0 \/ view = None
           /\ OpenPath(a)
           /\ UNCHANGED <<addDialog, extractDialog, busy, engine, bin, demo, lost, jobs, disk>>

CloseArchive == /\ view # None
                /\ view' = None /\ report' = None
                /\ UNCHANGED <<addDialog, extractDialog, busy, engine, bin, demo, lost, jobs, disk>>

\* `run_test`: an archive that is not whole makes the engine exit with an error, and the
\* report before it stays.
RunTest == /\ busy = 0 /\ view # None
           /\ engine = "fake" \/ disk[view.path].whole
           /\ report' = Reading(view.path)
           /\ UNCHANGED <<view, addDialog, extractDialog, busy, engine, bin, demo, lost, jobs, disk>>

-----------------------------------------------------------------------------
(* Dialogs *)

\* Faulty variant: the button is not disabled while a job runs.
AddPickerAnytime(a) ==
  /\ addDialog' = a
  /\ UNCHANGED <<view, report, extractDialog, busy, engine, bin, demo, lost, jobs, disk>>

AddPicker(a) ==
  /\ busy = 0
  /\ addDialog' = a
  /\ UNCHANGED <<view, report, extractDialog, busy, engine, bin, demo, lost, jobs, disk>>

StartExtract ==
  /\ busy = 0 /\ view # None
  /\ extractDialog' = view.path
  /\ UNCHANGED <<view, report, addDialog, busy, engine, bin, demo, lost, jobs, disk>>

CancelAdd ==
  /\ addDialog # None /\ addDialog' = None
  /\ UNCHANGED <<view, report, extractDialog, busy, engine, bin, demo, lost, jobs, disk>>

CancelExtract ==
  /\ extractDialog # None /\ extractDialog' = None
  /\ UNCHANGED <<view, report, addDialog, busy, engine, bin, demo, lost, jobs, disk>>

\* A thread is started and its channel put in the slot, whatever the slot held.
Launch(job) ==
  /\ Len(jobs) < MaxJobs
  /\ jobs' = Append(jobs, job)
  /\ busy' = Len(jobs) + 1
  /\ lost' = IF busy = 0 THEN 0 ELSE lost + 1

\* `finish_create` of a success; a failure only sets the status line.
FinishCreate(a) == IF AutoOpen THEN OpenPath(a) ELSE UNCHANGED <<view, report>>

\* `start_create`: demo pretends on the spot; without an engine nothing is done.
ConfirmAdd ==
  /\ addDialog # None /\ addDialog' = None
  /\ \/ demo /\ FinishCreate(addDialog) /\ UNCHANGED <<busy, lost, jobs>>
     \/ ~demo /\ bin /\ Launch(NewJob("create", addDialog)) /\ UNCHANGED <<view, report>>
     \/ ~demo /\ ~bin /\ UNCHANGED <<view, report, busy, lost, jobs>>
  /\ UNCHANGED <<extractDialog, engine, bin, demo, disk>>

\* `run_extract`.
ConfirmExtract ==
  /\ extractDialog # None /\ extractDialog' = None
  /\ \/ ~demo /\ bin /\ Launch(NewJob("extract", extractDialog))
     \/ (demo \/ ~bin) /\ UNCHANGED <<busy, lost, jobs>>
  /\ UNCHANGED <<view, report, addDialog, engine, bin, demo, disk>>

\* The check box flips the flag alone; the engine follows at the next Save of the settings.
ToggleDemo == /\ demo' = ~demo
              /\ UNCHANGED <<view, report, addDialog, extractDialog, busy, engine, bin, lost, jobs, disk>>

ApplySettings == /\ Resync
                 /\ UNCHANGED <<view, report, addDialog, extractDialog, busy, demo, lost, jobs, disk>>

-----------------------------------------------------------------------------
(* The job in the slot *)

Over(j) == jobs[j].phase \in {"answered", "panicked"}

\* Faulty variant: a channel that closed without an answer is taken for a quiet one.
PollWaitsForPanics ==
  /\ busy # 0 /\ jobs[busy].phase = "answered"
  /\ jobs' = [jobs EXCEPT ![busy].heard = TRUE]
  /\ busy' = 0 /\ lost' = 0
  /\ IF jobs[busy].kind = "create" /\ jobs[busy].ok
     THEN FinishCreate(jobs[busy].archive) ELSE UNCHANGED <<view, report>>
  /\ UNCHANGED <<addDialog, extractDialog, engine, bin, demo, disk>>

\* `poll_busy`, when the channel has the answer or has closed; a quiet one changes nothing
\* and asks for another frame.
PollBusy ==
  /\ busy # 0 /\ Over(busy)
  /\ jobs' = [jobs EXCEPT ![busy].heard = TRUE]
  /\ busy' = 0 /\ lost' = 0
  /\ IF jobs[busy].kind = "create" /\ jobs[busy].ok /\ jobs[busy].phase = "answered"
     THEN FinishCreate(jobs[busy].archive) ELSE UNCHANGED <<view, report>>
  /\ UNCHANGED <<addDialog, extractDialog, engine, bin, demo, disk>>

\* The engine's create truncates the archive it is asked for.
Truncate(j) ==
  /\ jobs[j].kind = "create" /\ jobs[j].phase = "running"
  /\ jobs' = [jobs EXCEPT ![j].phase = "writing"]
  /\ disk' = [disk EXCEPT ![jobs[j].archive] = [by |-> j, whole |-> FALSE]]
  /\ UNCHANGED gui

\* It finishes the file; one another create has truncated meanwhile is whole no more.
Complete(j) ==
  LET a == jobs[j].archive
  IN  /\ jobs[j].phase = "writing"
      /\ jobs' = [jobs EXCEPT ![j].phase = "answered", ![j].ok = TRUE]
      /\ disk' = [disk EXCEPT ![a] = [by |-> j, whole |-> disk[a].by = j]]
      /\ UNCHANGED gui

\* An extraction succeeds, any engine fails and reports so, or the thread panics.
End(j) ==
  /\ ~Over(j)
  /\ \/ /\ jobs[j].kind = "extract"
        /\ jobs' = [jobs EXCEPT ![j].phase = "answered", ![j].ok = TRUE]
     \/ \E p \in {"answered", "panicked"} : jobs' = [jobs EXCEPT ![j].phase = p]
  /\ UNCHANGED <<gui, disk>>

JobStep(j) == j \in 1..Len(jobs) /\ (Truncate(j) \/ Complete(j) \/ End(j))

-----------------------------------------------------------------------------
Click == \/ \E a \in Archives : Open(a) \/ AddPicker(a)
         \/ CloseArchive \/ RunTest \/ StartExtract \/ CancelAdd \/ CancelExtract
         \/ ConfirmAdd \/ ConfirmExtract \/ ToggleDemo \/ ApplySettings

Next == Click \/ PollBusy \/ \E j \in 1..MaxJobs : JobStep(j)

\* A frame is asked for as long as a job is in the slot, and engine processes end; what
\* the user clicks is never forced.
Fairness == WF_vars(PollBusy) /\ \A j \in 1..MaxJobs : WF_vars(JobStep(j))

Spec == Init /\ [][Next]_vars /\ Fairness

-----------------------------------------------------------------------------
TypeOK ==
  /\ view \in Shown \cup {None} /\ report \in Shown \cup {None}
  /\ addDialog \in Archives \cup {None} /\ extractDialog \in Archives \cup {None}
  /\ jobs \in Seq(Job) /\ busy \in 0..Len(jobs)
  /\ disk \in [Archives -> Contents]
  /\ engine \in Engines /\ bin = (engine = "cli") /\ demo \in BOOLEAN
  /\ lost \in Nat

OpenDialogs == (IF addDialog = None THEN 0 ELSE 1) + (IF extractDialog = None THEN 0 ELSE 1)

\* While a job is in the slot no dialog can be opened, so however long it runs at most one
\* other job's answer is thrown away: the one a dialog opened beforehand pushes out.
OneLossPerPeriod == busy # 0 => lost + OpenDialogs <= 1

\* Whether the window learnt that the last writer of a file succeeded.
Heard(a) == disk[a].by # 0 => LET j == jobs[disk[a].by] IN j.heard /\ j.ok

\* What the window shows of an archive, listing and test report, came from the file as it
\* is now, unless its last writer still runs, failed, or was pushed out of the slot; and a
\* report never stands under another archive's listing.
ShownIsCurrent ==
  AutoOpen /\ view # None =>
    /\ report # None => report.path = view.path
    /\ \A s \in {view, report} \ {None} :
         s.from = "cli" /\ s.seen # disk[s.path] => ~Heard(s.path)

\* Every job put in the slot leaves it: its answer is heard, its thread found dead, or
\* another job put in its place.
BusyEnds == \A j \in 1..MaxJobs : busy = j ~> busy # j
=============================================================================
