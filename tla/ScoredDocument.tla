--------------------------- MODULE ScoredDocument ---------------------------
(* The evaluation suite over the jobs of Document: what run_case observes of *)
(* a finished job's files, and what the report checks say of them.  A golden *)
(* case claims what its request asks for in words; the suite names no format *)
(* of its own to the job.                                                    *)
EXTENDS Document

S == INSTANCE Scoring WITH Nothing <- Nothing, ProcessWords <- {}

Observable == job.status = "done" /\ job.asked = NotSaid /\ stops = 0

\* The terminal a case expects is the one its material leads to.
Kind == IF state.terminal = "answered" THEN "answer" ELSE state.terminal

\* What the request asked for, which the document step heard.
Wants == job.decided \notin {NotSaid, <<>>}
Case == [route |-> "plan", terminal |-> Kind, document |-> IF Wants THEN "yes" ELSE "no",
         format |-> IF Wants THEN job.decided[1] ELSE Nothing,
         min |-> 0, max |-> Nothing, include |-> {}, exclude |-> {}]

Main == Listed(ReportPath).format
Opened == ReportPath # Nothing /\ ReportPath \in disk

\* A text without any of the shapes that are scored.
Plain == [words |-> {}, shapes |-> {}]

(* run_case reads the main file as text: a missing one is no text, and bytes *)
(* that are not text raise, which is recorded as the harness's own error.    *)
Observed ==
    [error |-> Opened /\ ~S!Scorable(Main), route |-> "plan",
     steps |-> [i \in DOMAIN Plan |-> [capability |-> Plan[i], depends |-> {}]],
     ok |-> [s \in Steps |-> TRUE], found |-> [s \in Steps |-> {}], read |-> [s \in Steps |-> {}],
     terminal |-> Kind, answer |-> Plain, query |-> Plain, material |-> Plain,
     path |-> ReportPath,
     text |-> IF ~Opened THEN {}
              ELSE {"title", "answer", "job"} \cup IF Kind = "unanswered" THEN {"notice"} ELSE {},
     expected |-> Expected, format |-> IF ReportPath = Nothing THEN "markdown" ELSE Main,
     formats |-> {o.format : o \in Outputs}, renderable |-> {f \in Reporters : engine \/ f # "pdf"},
     registry |-> Steps, job |-> "job"]

FileChecks == {"report_written", "document_as_requested", "document_format", "report_title",
               "report_answer", "report_provenance", "refusal_declared"}

\* A run is blamed for its file only when the file could not be written or is
\* no longer there: one that was asked for none, or that delivered what the
\* request asked in words, passes or is skipped (_report_applies, "a run is
\* asked for a document, or it is not"; check_document_as_requested).
ScoredAsAsked ==
    Observable =>
        \A check \in FileChecks :
            S!Score(Case, Observed)[check] = "fail" => "write failed" \in Error \/ ReportPath \notin disk \cup {Nothing}

\* A run that delivered what it was asked for completed: the suite finds no
\* fault of its own in it (run_case: "a broken harness must not look like a
\* bad prompt").
DeliveredIsScored ==
    (Observable /\ Wants /\ Opened) => S!Score(Case, Observed)["run_completed"] = "pass"
=============================================================================
