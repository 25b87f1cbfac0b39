------------------------------ MODULE Reports ------------------------------
(***************************************************************************)
(* The HTML reports of an ended run (report_service.py,                    *)
(* tasks/report_generator.py): a row, and one local file named after the   *)
(* row that every generation writes over.  A report is generated within a  *)
(* request, by a download that finds the file out of date, or by a task of *)
(* the worker, which is retried when it fails and redelivered when its     *)
(* worker dies.  With an S3 archive every generation uploads the file to   *)
(* an object of its own, which the row then names, and whoever looks into  *)
(* such a report first downloads the object into one cached file per       *)
(* report that all viewers share.                                          *)
(*                                                                         *)
(* The front door of a run offers the newest completed report that has the *)
(* markers of the present template.  What else a report says is left out:  *)
(* an old file lacks the markers, one that is being written has them or    *)
(* not.                                                                    *)
(***************************************************************************)
EXTENDS Integers, FiniteSets

CONSTANTS
    ReportIds,      \* numbers: rows that exist or may be created, newer ones are greater
    Makers,         \* numbers: generations that may be at work at the same time
    Viewers,        \* numbers: front doors, downloads and detail pages at the same time
    Retries         \* 3 in the code

ASSUME ReportAssumption ==
    ReportIds \subseteq Nat /\ Makers \subseteq Nat /\ Viewers \subseteq Nat /\ Retries \in Nat

VARIABLES
    withS3,     \* whether generations upload their files
    report,     \* per report: [status, path], the path names the local file, an object or nothing
    html,       \* per report: its local file
    archive,    \* per report: the object that its row names, if it names one
    cached,     \* per report: the local copy that viewers share
    maker,      \* per maker: [report, by, step, tries, copy], the copy is what it has uploaded
    viewer,     \* per viewer: [report, path, data, step, done, overtaken]
    crossed,    \* history: reports of which two generations have been at work at one time
    edited      \* history: reports that users have marked completed or given a path

reportVars == <<withS3, report, html, archive, cached, maker, viewer, crossed, edited>>
makerVars == <<maker, crossed>>
viewVars == <<cached, viewer>>

Statuses == {"pending", "generating", "completed", "failed", "deleted"}
Paths == {"none", "local", "s3"}
NoReport == [status |-> "none", path |-> "none"]
Present == {r \in ReportIds : report[r] # NoReport}
HtmlStates == {"absent", "old", "cut", "marked", "whole"}
\* _report_file_matches_current_template; a file that is cut short may have all markers.
Current(file) == file \in {"marked", "whole"}
NoMaker == [report |-> 0, by |-> "none", step |-> "off", tries |-> 0, copy |-> "none"]
NoViewer == [report |-> 0, path |-> "none", data |-> "none", step |-> "off", done |-> FALSE,
             overtaken |-> FALSE]
AtWorkOn(r) == {m \in Makers : maker[m].report = r /\ maker[m].step \notin {"off", "queued"}}

\* Maker m starts on report r: the run has ended, the row is loaded.
Starts(m, r, by, step) ==
    /\ maker' = [maker EXCEPT ![m] = [NoMaker EXCEPT !.report = r, !.by = by, !.step = step]]
    /\ crossed' = IF step # "queued" /\ AtWorkOn(r) # {} THEN crossed \cup {r} ELSE crossed
\* Makers and viewers are slots: the first free one is taken next.
Free(m) == maker[m] = NoMaker /\ \A n \in Makers : n < m => maker[n] # NoMaker
-----------------------------------------------------------------------------
(* The requests *)

NewId == CHOOSE r \in ReportIds \ Present : \A q \in ReportIds \ Present : r <= q

\* ensure_download_frontdoor, regenerate_download_frontdoor: at once (request) or by a task;
\* "ensure" makes no report if a viewer finds one ready, "regenerate" does so all the same.
Submit(m, by) ==
    /\ Free(m) /\ ReportIds \ Present # {}
    /\ report' = [report EXCEPT ![NewId] = [status |-> "pending", path |-> "none"]]
    /\ Starts(m, NewId, by, IF by = "task" THEN "queued" ELSE "row")
    /\ UNCHANGED <<html, archive, viewVars, edited>>
\* The broker refuses the task, or it says so: mark_report_failed.
SubmitFails ==
    /\ ReportIds \ Present # {}
    /\ report' = [report EXCEPT ![NewId] = [status |-> "failed", path |-> "none"]]
    /\ UNCHANGED <<html, archive, viewVars, makerVars, edited>>

\* get_report_file_path of a report that is out of date, and the request to generate one:
\* whatever the row's status is.
Regenerate(m, r) ==
    /\ Free(m) /\ r \in Present /\ Starts(m, r, "request", "row")
    /\ UNCHANGED <<report, html, archive, viewVars, edited>>

DeleteReport(r) ==
    /\ r \in Present /\ report' = [report EXCEPT ![r].status = "deleted"]
    /\ UNCHANGED <<html, archive, viewVars, makerVars, edited>>

\* PUT /reports/{id}, update_report: any status, and any path.
EditReport(r) ==
    /\ r \in Present
    /\ \E status \in Statuses :
          \/ /\ status # "completed" /\ UNCHANGED edited
             /\ report' = [report EXCEPT ![r].status = status]
          \/ \E path \in Paths :
                /\ report' = [report EXCEPT ![r] = [status |-> status, path |-> path]]
                /\ edited' = edited \cup {r}
    /\ UNCHANGED <<html, archive, viewVars, makerVars>>
-----------------------------------------------------------------------------
(* generate_report_file, generate_report_task *)

Deliver(m) ==
    /\ maker[m].step = "queued" /\ maker' = [maker EXCEPT ![m].step = "row"]
    /\ crossed' = IF AtWorkOn(maker[m].report) # {} THEN crossed \cup {maker[m].report} ELSE crossed
    /\ UNCHANGED <<report, html, archive, viewVars, edited>>

Proceeds(m, from, to) == maker[m].step = from /\ maker' = [maker EXCEPT ![m].step = to]

\* Mutant: the row keeps its status while the file is written.
MarkNothing(m) ==
    /\ Proceeds(m, "row", "open")
    /\ UNCHANGED <<report, html, archive, viewVars, crossed, edited>>
MarkGenerating(m) ==
    /\ Proceeds(m, "row", "open")
    /\ report' = [report EXCEPT ![maker[m].report].status = "generating"]
    /\ UNCHANGED <<html, archive, viewVars, crossed, edited>>

\* open(..., "w") empties the file that is there, under the eyes of who has chosen it.
OpenHtml(m) ==
    /\ Proceeds(m, "open", "write") /\ html' = [html EXCEPT ![maker[m].report] = "cut"]
    /\ viewer' = [v \in Viewers |->
          IF viewer[v].report = maker[m].report THEN [viewer[v] EXCEPT !.overtaken = TRUE]
          ELSE viewer[v]]
    /\ UNCHANGED <<report, archive, cached, crossed, edited>>
WriteMarkers(m) ==
    /\ maker[m].step = "write" /\ html' = [html EXCEPT ![maker[m].report] = "marked"]
    /\ UNCHANGED <<report, archive, viewVars, makerVars, edited>>
CloseHtml(m) ==
    /\ Proceeds(m, "write", IF withS3 THEN "upload" ELSE "complete")
    /\ html' = [html EXCEPT ![maker[m].report] = "whole"]
    /\ UNCHANGED <<report, archive, viewVars, crossed, edited>>
\* The file as it now is becomes a new object; if that fails the row will name the file.
UploadHtml(m) ==
    /\ maker[m].step = "upload"
    /\ \E copy \in {"none", html[maker[m].report]} :
          maker' = [maker EXCEPT ![m].step = "complete", ![m].copy = copy]
    /\ UNCHANGED <<report, html, archive, viewVars, crossed, edited>>
\* The row's path is not written if it was the same when the row was marked: then the path of
\* an edit stays.
Complete(m) ==
    /\ maker[m].step = "complete" /\ maker' = [maker EXCEPT ![m] = NoMaker]
    /\ LET r == maker[m].report
           copy == maker[m].copy
       IN IF copy = "none"
          THEN /\ \E path \in {"local"} \cup (IF r \in edited THEN {report[r].path} ELSE {}) :
                     report' = [report EXCEPT ![r] = [status |-> "completed", path |-> path]]
               /\ UNCHANGED archive
          ELSE /\ report' = [report EXCEPT ![r] = [status |-> "completed", path |-> "s3"]]
               /\ archive' = [archive EXCEPT ![r] = copy]
    /\ UNCHANGED <<html, viewVars, crossed, edited>>

\* An exception: a task marks the row and is tried again, a request marks it or just ends.
Fails(m) ==
    /\ maker[m].step \notin {"off", "queued"}
    /\ IF maker[m].by = "task" /\ maker[m].tries < Retries
       THEN maker' = [maker EXCEPT ![m].step = "queued", ![m].tries = @ + 1, ![m].copy = "none"]
       ELSE maker' = [maker EXCEPT ![m] = NoMaker]
    /\ \/ report' = [report EXCEPT ![maker[m].report].status = "failed"]
       \/ maker[m].by = "request" /\ UNCHANGED report
    /\ UNCHANGED <<html, archive, viewVars, crossed, edited>>

\* A crash: the message of a task is delivered once more, a request is gone.
Dies(m) ==
    /\ maker[m].step \notin {"off", "queued"}
    /\ maker' = [maker EXCEPT ![m] =
          IF @.by = "task" THEN [@ EXCEPT !.step = "queued", !.copy = "none"] ELSE NoMaker]
    /\ UNCHANGED <<report, html, archive, viewVars, crossed, edited>>
-----------------------------------------------------------------------------
(* _resolve_report_file_path and the reading of the file, by the front door of a run (for its *)
(* completed reports), a report's page or a download (for any)                                *)

Views(v, step) == viewer' = [viewer EXCEPT ![v].step = step]

\* The row is loaded, and the object if it names one.  Nothing there: not ready.
LoadsRow(v, r) ==
    /\ viewer[v] = NoViewer /\ \A u \in Viewers : u < v => viewer[u] # NoViewer
    /\ \/ /\ report[r].path = "local" /\ html[r] # "absent"
          /\ viewer' = [viewer EXCEPT ![v] = [NoViewer EXCEPT !.report = r, !.path = "local",
                !.step = "read", !.done = report[r].status = "completed"]]
       \/ /\ report[r].path = "s3" /\ archive[r] # "absent"
          /\ viewer' = [viewer EXCEPT ![v] = [NoViewer EXCEPT !.report = r, !.path = "s3",
                !.data = archive[r], !.step = "open", !.done = report[r].status = "completed"]]
    /\ UNCHANGED <<report, html, archive, cached, makerVars, edited>>
\* write_bytes of the cached file: emptied, written in parts, whole.
OpensCopy(v) ==
    /\ viewer[v].step = "open" /\ Views(v, "write")
    /\ cached' = [cached EXCEPT ![viewer[v].report] = "cut"]
    /\ UNCHANGED <<report, html, archive, makerVars, edited>>
WritesPart(v) ==
    /\ viewer[v].step = "write" /\ Current(viewer[v].data)
    /\ cached' = [cached EXCEPT ![viewer[v].report] = "marked"]
    /\ UNCHANGED <<report, html, archive, viewer, makerVars, edited>>
ClosesCopy(v) ==
    /\ viewer[v].step = "write" /\ Views(v, "read")
    /\ cached' = [cached EXCEPT ![viewer[v].report] = viewer[v].data]
    /\ UNCHANGED <<report, html, archive, makerVars, edited>>
\* The file has been read (see Sees), or the viewer fails or dies on the way.
Leaves(v) ==
    /\ viewer[v] # NoViewer /\ viewer' = [viewer EXCEPT ![v] = NoViewer]
    /\ UNCHANGED <<report, html, archive, cached, makerVars, edited>>
-----------------------------------------------------------------------------
\* There may be a report of an earlier version of the program.
ReportInit ==
    /\ withS3 \in BOOLEAN
    /\ \E older \in SUBSET {r \in ReportIds : \A q \in ReportIds : r <= q}, path \in {"local", "s3"} :
          /\ report = [r \in ReportIds |->
                IF r \in older THEN [status |-> "completed", path |-> path] ELSE NoReport]
          /\ html = [r \in ReportIds |-> IF r \in older THEN "old" ELSE "absent"]
          /\ archive = [r \in ReportIds |-> IF r \in older /\ path = "s3" THEN "old" ELSE "absent"]
    /\ cached = [r \in ReportIds |-> "absent"]
    /\ maker = [m \in Makers |-> NoMaker] /\ viewer = [v \in Viewers |-> NoViewer]
    /\ crossed = {} /\ edited = {}

MakerStep(m) ==
    \/ \E by \in {"request", "task"} : Submit(m, by)
    \/ \E r \in ReportIds : Regenerate(m, r)
    \/ Deliver(m) \/ MarkGenerating(m) \/ OpenHtml(m) \/ WriteMarkers(m)
    \/ CloseHtml(m) \/ UploadHtml(m) \/ Complete(m) \/ Fails(m) \/ Dies(m)
ViewerStep(v) ==
    \/ \E r \in ReportIds : LoadsRow(v, r)
    \/ OpensCopy(v) \/ WritesPart(v) \/ ClosesCopy(v) \/ Leaves(v)
ReportNext ==
    /\ UNCHANGED withS3
    /\ \/ SubmitFails \/ \E r \in ReportIds : DeleteReport(r) \/ EditReport(r)
       \/ \E m \in Makers : MakerStep(m)
       \/ \E v \in Viewers : ViewerStep(v)
ReportSpec == ReportInit /\ [][ReportNext]_reportVars
-----------------------------------------------------------------------------
(* Properties *)

ReportTypeOK ==
    /\ \A r \in ReportIds :
          /\ report[r].status \in Statuses \cup {"none"} /\ report[r].path \in Paths
          /\ {html[r], archive[r], cached[r]} \subseteq HtmlStates
    /\ \A m \in Makers :
          /\ maker[m].step \in {"off", "queued", "row", "open", "write", "upload", "complete"}
          /\ maker[m].tries \in 0..Retries
    /\ \A v \in Viewers : viewer[v].step \in {"off", "open", "write", "read"}
    /\ crossed \cup edited \subseteq ReportIds

\* What a viewer reads, and what the path that it has loaded stands for.
Sees(v) == IF viewer[v].path = "s3" THEN cached[viewer[v].report] ELSE html[viewer[v].report]
Meant(v) == IF viewer[v].path = "s3" THEN archive[viewer[v].report] ELSE html[viewer[v].report]

\* What the front door calls ready, a completed report in whose file it finds the markers, is
\* written to its end: whatever generations have failed, were retried, crashed or are at work,
\* and whoever is writing the cached copy of it at that moment.  Left aside are a report of
\* which two generations have overlapped or that a user has marked completed or given a path,
\* and a local file that a new generation has opened since its row was loaded.
ReadyIsWhole ==
    \A v \in Viewers :
        viewer[v].step = "read" /\ viewer[v].done /\ Current(Sees(v)) =>
            \/ Meant(v) = "whole"
            \/ viewer[v].report \in crossed \cup edited
            \/ viewer[v].path = "local" /\ viewer[v].overtaken
=============================================================================
