-------------------------------- MODULE Doors --------------------------------
(* The doors of a job: what the service in this process answers to each      *)
(* operation (service.py), what the API makes of it (api/app.py), what the   *)
(* client of a daemon reads back (cli/client.py), and what a command says    *)
(* and exits with (cli/main.py), in every state a job of Document goes       *)
(* through.  An answer is what it is, the status it names and its files.     *)
EXTENDS ScoredDocument, Integers

Said(kind, status, files) == [kind |-> kind, status |-> status, files |-> files]
NoSuch == Said("nothing", "", {})

Known == job.status \notin {"none", "refused"}
StatusOr(unknown) == IF Known THEN job.status ELSE unknown
PathsOf(outputs) == {o.path : o \in outputs}

\* The steps named to be dropped are steps of a plan that is written, none of
\* them has ended, and something is left to do.
Droppable(steps) ==
    /\ job.status = "running" \/ Resumable
    /\ state.node = "steps"
    /\ steps \subseteq Steps \ job.steps
    /\ steps \notin {{}, Steps}

-----------------------------------------------------------------------------
(* LocalJobService.                                                          *)
GetJob ==
    IF Known THEN Said(IF Expected THEN "job" ELSE "job of no document", job.status, PathsOf(Outputs))
    ELSE NoSuch
ListOutputs == IF Known THEN Said("files", "", PathsOf(Outputs)) ELSE NoSuch

FindOutput(name) ==
    IF Known /\ name \in PathsOf(Outputs) /\ name \in disk THEN Said("path", "", {name}) ELSE NoSuch

GetReport ==
    IF ~Known \/ Report = Nothing THEN NoSuch ELSE Said(Report, "", {})

LaunchJob(asked) ==
    IF Refused(asked) THEN Said("ValueError", "", {}) ELSE Said("launched", "running", {})

CancelJob ==
    Said("status", IF job.status = "running" THEN "cancelled" ELSE StatusOr("unknown"), {})

\* _resumed: started again, or refused with the status it is left in.
Resumed(may) ==
    IF Known /\ may THEN Said("status", "running", {})
    ELSE Said("error", StatusOr("unknown"), {})

-----------------------------------------------------------------------------
(* The routes: a status code over the answer.                                *)
Coded(code, answer) == [code |-> code, answer |-> answer]
JobOr404(response) == IF Known THEN response ELSE Coded(404, NoSuch)

GetRoute == JobOr404(Coded(200, GetJob))
OutputsRoute == JobOr404(Coded(200, ListOutputs))
CancelRoute == JobOr404(Coded(200, CancelJob))
ResumeRoute(may) ==
    JobOr404(Coded(IF Resumed(may).kind = "error" THEN 409 ELSE 200, Resumed(may)))
DownloadRoute(name) ==
    JobOr404(IF FindOutput(name) = NoSuch THEN Coded(404, NoSuch)
                                         ELSE Coded(200, Said("bytes", "", {name})))
LaunchRoute(asked) ==
    Coded(IF LaunchJob(asked).kind = "ValueError" THEN 400 ELSE 201, LaunchJob(asked))

NoDocument == job.status = "done" /\ ~Expected
ReportRoute ==
    JobOr404(IF GetReport.kind = "binary" THEN Coded(415, GetReport)
             ELSE IF GetReport = NoSuch
             THEN Coded(404, Said(IF NoDocument THEN "none asked" ELSE "no report", "", {}))
             ELSE Coded(200, GetReport))

-----------------------------------------------------------------------------
(* DaemonClient: the port's answer, read off the status code.                *)
Body(response) == IF response.code = 200 THEN response.answer ELSE NoSuch
RaiseForStatus(response) ==
    IF response.code \in {200, 201} THEN response.answer ELSE Said("HTTPStatusError", "", {})

Refusable(response) ==
    IF response.code \in {404, 409}
    THEN Said("error", IF Body(GetRoute) = NoSuch THEN "unknown" ELSE Body(GetRoute).status, {})
    ELSE RaiseForStatus(response)

RemoteLaunch(asked) ==
    IF LaunchRoute(asked).code = 400 THEN Said("ValueError", "", {})
    ELSE RaiseForStatus(LaunchRoute(asked))

\* Mutant: a refusal of bytes is read as no report.
RemoteReportAsText == Body(ReportRoute)

RemoteReport == IF ReportRoute.code = 415 THEN ReportRoute.answer ELSE Body(ReportRoute)

\* Asked of the download first, and looked up in the listing after.
Located(probe, listing, name) ==
    IF probe.code # 200 \/ name \notin Body(listing).files THEN NoSuch
    ELSE Said("path", "", {name})
RemoteFind(name) == Located(DownloadRoute(name), OutputsRoute, name)

-----------------------------------------------------------------------------
(* The commands, over either backing: the job it resolves to, what it then   *)
(* answers, and what the command says and exits with.                        *)
Exits(code, says) == [code |-> code, says |-> says]
NoSingleJob == Exits(1, "no single job")
CmdJob(found) == IF found = NoSuch THEN NoSingleJob ELSE Exits(0, found.status)

\* Mutant: it is said of a run that stopped, too.
CmdReportStopped(found, report) ==
    IF report.kind = "binary" THEN Exits(1, "binary")
    ELSE IF report # NoSuch THEN Exits(0, "text")
    ELSE Exits(1, IF found.kind = "job of no document" THEN "none asked" ELSE "no report")

CmdReport(found, report) ==
    IF report.kind = "binary" THEN Exits(1, "binary")
    ELSE IF report # NoSuch THEN Exits(0, "text")
    ELSE Exits(1, IF found.status = "done" /\ found.kind = "job of no document"
                  THEN "none asked" ELSE "no report")

CmdOutputs(found) ==
    IF found = NoSuch THEN NoSingleJob
    ELSE IF found.files = {} THEN Exits(1, "no output yet") ELSE Exits(0, "files")
CmdCancel(found, answer) == IF found = NoSuch THEN NoSingleJob ELSE Exits(0, answer.status)

\* _follow: blocks until the job settles, and its exit says how it ended.
Follow(found) ==
    IF found.status \in {"done", "failed", "cancelled"}
    THEN Exits(IF found.status = "done" THEN 0 ELSE 1, found.status)
    ELSE Exits(-1, "waiting")

\* A job resumed in the daemon is left to it; one resumed in this process is
\* followed to its end, which the command then exits with.
CmdResume(persistent, found, answer) ==
    IF found = NoSuch THEN NoSingleJob
    ELSE IF answer.kind = "error" THEN Exits(1, "cannot resume")
    ELSE IF persistent THEN Exits(0, answer.status) ELSE Follow(answer)

-----------------------------------------------------------------------------
\* A front-end cannot tell which backing it holds: whatever the job went
\* through, the daemon's client answers what the service in this process
\* does, status codes in between notwithstanding, and `jobsmith report` tells
\* the same absence as GET /jobs/{id}/report (service.py, "the two backings
\* must stay indistinguishable to a front-end").  Not so for a cancel of a
\* job nobody knows: see CancelsAlike.
AnswersAgree ==
    /\ Body(GetRoute) = GetJob
    /\ Body(OutputsRoute) = ListOutputs
    /\ \A name \in Files \cup Reporters : RemoteFind(name) = FindOutput(name)
    /\ RemoteReport = GetReport
    /\ \A asked \in Requests : RemoteLaunch(asked) = LaunchJob(asked)
    /\ Refusable(ResumeRoute(Resumable)) = Resumed(Resumable)
    /\ \A steps \in SUBSET Steps :
         Refusable(ResumeRoute(Droppable(steps))) = Resumed(Droppable(steps))
    /\ Known => RaiseForStatus(CancelRoute) = CancelJob

\* Nor can a script that goes by what a command says and exits with, which
\* asks in two steps, the job and then the thing, `resume` apart: that agrees
\* on what it refuses, and where it goes through the daemon's command is over
\* and the other waits.  What `report` tells the API tells too; a report that
\* is printed is a file that `outputs` lists; and after a run that was
\* followed to its end `report` does not send the reader back to wait, unless
\* the job says what went wrong or the file has gone since (cmd_report, "is
\* the job done?" is the wrong question).
CommandsAgree ==
    LET far == Body(GetRoute)
        report == CmdReport(GetJob, GetReport)
        resumedFar == CmdResume(TRUE, far, Refusable(ResumeRoute(Resumable)))
        resumedHere == CmdResume(FALSE, GetJob, Resumed(Resumable))
    IN  /\ CmdJob(far) = CmdJob(GetJob) /\ CmdOutputs(far) = CmdOutputs(GetJob)
        /\ CmdReport(far, RemoteReport) = report
        /\ CmdCancel(far, RaiseForStatus(CancelRoute)) = CmdCancel(GetJob, CancelJob)
        /\ IF Known /\ Resumable
           THEN resumedFar = Exits(0, "running") /\ resumedHere = Exits(-1, "waiting")
           ELSE resumedFar = resumedHere /\ resumedHere.code = 1
        /\ Known => /\ (report.says = "text") = (ReportRoute.code = 200)
                    /\ (report.says = "none asked") = (ReportRoute.answer.kind = "none asked")
        /\ report.says \in {"text", "binary"} => CmdOutputs(GetJob).code = 0
        /\ Follow(GetJob).code = 0 /\ report.says = "no report" =>
             Error # {} \/ ReportPath \notin disk

BackingsAgree == AnswersAgree /\ CommandsAgree

\* What is asked in two requests is answered as if it had been asked at once,
\* before or after what the job did between them: where a file is (the bytes,
\* then the listing), and what `report` and `cancel` say (the job, then the
\* thing).  A refused resume is left out: either backing reads the record
\* after the refusal, and may name a status that would not be refused.
TwoRequestsAreOne ==
    [][/\ \A name \in Files \cup Reporters :
            Located(DownloadRoute(name), OutputsRoute', name) \in {FindOutput(name), FindOutput(name)'}
       /\ CmdReport(Body(GetRoute), RemoteReport') \in
            {CmdReport(GetJob, GetReport), CmdReport(GetJob, GetReport)'}
       /\ CmdCancel(Body(GetRoute), RaiseForStatus(CancelRoute)') \in
            {CmdCancel(GetJob, CancelJob), CmdCancel(GetJob, CancelJob)'}]_vars

\* The service answers "unknown" to a cancel of a job it does not know; the
\* client raises for the API's 404.
CancelsAlike == RaiseForStatus(CancelRoute) = CancelJob
=============================================================================
