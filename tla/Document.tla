------------------------------ MODULE Document ------------------------------
(***************************************************************************)
(* The file a job hands back: what was asked (DagJobs.create_job), what    *)
(* the run reads out of the sentence (dag/document.py), what the steps     *)
(* declare (dag/capability.py, artifacts/store.py), what the last step     *)
(* writes (dag/deliver.py, dag/report.py), and what each reader of the     *)
(* ended job says of it (dag/jobs.py, chat/, api/, cli/, tui/).            *)
(*                                                                         *)
(* A run is a walk over nodes; a node's facts are saved as they come, its  *)
(* state only with its checkpoint.  A stop or a crash between the two runs *)
(* the node again later, over the facts the first time left.               *)
(***************************************************************************)
EXTENDS Naturals, Sequences, FiniteSets, SequencesExt

CONSTANTS
  NotSaid,      \* nobody said whether there is to be a document
  Requests,     \* what a caller may ask: NotSaid, or a sequence of names
  Replies,      \* what the model may read: [label, formats]
  Default,      \* this deployment's formats, for "a document" unnamed
  Plan,         \* the plan's steps, in plan order
  Files,        \* the paths a step's file may have
  MaxStop,      \* how often a run is stopped or crashes
  MayStopLate   \* may a stop fall between the files' facts and the run's end

Steps == ToSet(Plan)
Nothing == "nothing"
Alias == "default"

(* The classes of report.py, by the names they answer to.                  *)
Classes == [md |-> "markdown", markdown |-> "markdown",
            html |-> "html", htm |-> "html", pdf |-> "pdf"]
Reporters == {Classes[n] : n \in DOMAIN Classes}
IsBinary(format) == format = "pdf"

ASSUME SilenceIsApart == NotSaid # <<>>
ASSUME PlanIsAList == Plan \in Seq(Steps)
ASSUME RunIsNoStep == "the run" \notin Steps
ASSUME DefaultIsKnown == ToSet(Default) \subseteq DOMAIN Classes
ASSUME StopIsBounded == MaxStop \in Nat
ASSUME RegimeIsSaid == MayStopLate \in BOOLEAN

VARIABLES
  job,       \* the record: asked, status, error, result, and its facts: whether
             \* `formats` was published (heard) and as what (decided), the steps
             \* that reported
  declared,  \* the artifact facts
  state,     \* the checkpoint: node, formats, terminal, steps done, the files
             \* their results name
  work,      \* what the running node has done and no checkpoint holds; the
             \* formats to write are places in state.formats
  disk,      \* the paths that hold a file
  engine,    \* the PDF engine loads here
  stops      \* stops so far

vars == <<job, declared, state, work, disk, engine, stops>>

Idle == [step |-> "start", formats |-> NotSaid, ended |-> {}, refs |-> {}, written |-> <<>>,
         todo |-> {}, told |-> 0, error |-> Nothing]

NoResult == [terminal |-> Nothing, documentError |-> Nothing]

-----------------------------------------------------------------------------
(* Formats: pure functions of report.py and document.py.                   *)

(* compose_reporters: one reporter per class, an alias collapsed into the   *)
(* first name of its class; refused for an unknown name, an engine that does *)
(* not load, no name.                                                       *)
Composable(names) ==
  /\ names \in Seq(DOMAIN Classes) \ {<<>>}
  /\ engine \/ \A i \in DOMAIN names : Classes[names[i]] # "pdf"

Compose(names) ==
  {i \in DOMAIN names : \A k \in 1..(i - 1) : Classes[names[k]] # Classes[names[i]]}

Distinct(names) ==
  FoldLeft(LAMBDA chosen, n : IF Contains(chosen, n) THEN chosen ELSE Append(chosen, n),
           <<>>, names)

(* ensure_formats_available: three states in, the same three out, the alias *)
(* replaced by this deployment's formats, a refusal where none can be had.  *)
Resolved(names) ==
  Distinct(FoldLeft(LAMBDA all, n : all \o (IF n = Alias THEN Default ELSE <<n>>),
                    <<>>, names))
Refused(asked) ==
  /\ asked \notin {NotSaid, <<>>}
  /\ \/ Contains(asked, Alias) /\ Default = <<>>
     \/ ~Composable(Resolved(asked))
Wanted(asked) == IF asked \in {NotSaid, <<>>} THEN asked ELSE Resolved(asked)

(* DocumentIntent._renderable: the names this deployment offers (the        *)
(* canonical ones, the engine unproved), each once; `confirm` proves them.  *)
Renderable(names) == SelectSeq(Distinct(names), LAMBDA n : n \in Reporters)
Confirmed(names) == SelectSeq(names, LAMBDA n : engine \/ n # "pdf")

(* DocumentIntent._read and the `none` label.                              *)
Read(reply) ==
  LET label == Renderable(<<reply.label>>)
      named == Renderable(reply.formats)
  IN  IF (reply.label \in {"named", "requested"} \/ label # <<>>) /\ named # <<>>
      THEN named
      ELSE IF label # <<>> THEN label
      ELSE IF reply.label = "requested" THEN Renderable(Default) ELSE <<>>

(* _decide: what the state gets.  NotSaid is "this node wrote nothing".    *)
Decided(reply) ==
  IF reply.label = "none" THEN <<>>
  ELSE LET chosen == Confirmed(Read(reply)) IN IF chosen = <<>> THEN NotSaid ELSE chosen

-----------------------------------------------------------------------------
(* The run.                                                                *)

Init ==
  /\ job = [asked |-> NotSaid, status |-> "none", error |-> Nothing,
            result |-> NoResult, heard |-> FALSE, decided |-> NotSaid, steps |-> {}]
  /\ declared = {} /\ disk = {} /\ stops = 0
  /\ engine \in BOOLEAN
  /\ state = [node |-> "intent", formats |-> NotSaid, terminal |-> Nothing,
              done |-> {}, refs |-> {}]
  /\ work = Idle

(* create_job: refused in the caller's face, or recorded and run.          *)
Create(asked) ==
  /\ job.status = "none"
  /\ IF Refused(asked)
     THEN job' = [job EXCEPT !.status = "refused"] /\ UNCHANGED state
     ELSE /\ job' = [job EXCEPT !.asked = Wanted(asked), !.status = "running"]
          /\ state' = [state EXCEPT !.formats = Wanted(asked)]
  /\ UNCHANGED <<declared, work, disk, engine, stops>>

At(node, step) == job.status = "running" /\ state.node = node /\ work.step = step

(* Mutant: the sentence is read over what the caller said.                 *)
DecideAlways(reply) ==
  /\ At("intent", "start")
  /\ LET says == Decided(reply)
     IN  /\ work' = [work EXCEPT !.step = "said", !.formats = says]
         /\ job' = [job EXCEPT !.heard = TRUE, !.decided = says]
  /\ UNCHANGED <<declared, state, disk, engine, stops>>

(* DocumentIntent.run: silent when the caller spoke; else it reads, fails   *)
(* open, and the job hears the question settled whichever way.  After a stop *)
(* short of the checkpoint it reads again, and the model may say otherwise. *)
Decide(reply) ==
  /\ At("intent", "start")
  /\ LET says == IF state.formats # NotSaid THEN NotSaid ELSE Decided(reply)
     IN  /\ work' = [work EXCEPT !.step = "said", !.formats = says]
         /\ job' = [job EXCEPT !.heard = TRUE, !.decided = says]
  /\ UNCHANGED <<declared, state, disk, engine, stops>>

DecideSaved ==
  /\ At("intent", "said")
  /\ state' = [state EXCEPT !.node = "steps",
                            !.formats = IF work.formats = NotSaid THEN @ ELSE work.formats]
  /\ work' = Idle
  /\ UNCHANGED <<job, declared, disk, engine, stops>>

(* declare: a fact under `artifact:<declarer>:<path>`, a file that is not   *)
(* there recorded as missing; the same key again replaces the fact.         *)
Declare(output) ==
  declared' = {d \in declared : d.by # output.by \/ d.path # output.path}
                \cup {[path |-> output.path, format |-> output.format, role |-> output.role,
                       by |-> output.by, missing |-> output.path \notin disk']}

(* A step ends, well or not: its result is a fact, and so is the file it    *)
(* wrote, or one it did not leave; two steps may give one name to theirs.   *)
StepEnds(s, file, left) ==
  /\ At("steps", "start") /\ s \in Steps \ (state.done \cup work.ended)
  /\ work' = [work EXCEPT !.ended = @ \cup {s}, !.refs = @ \cup ({file} \ {Nothing})]
  /\ job' = [job EXCEPT !.steps = @ \cup {s}]
  /\ IF file = Nothing
     THEN UNCHANGED <<declared, disk>>
     ELSE /\ disk' = IF left THEN disk \cup {file} ELSE disk
          /\ Declare([path |-> file, format |-> "file", role |-> "annex", by |-> s])
  /\ UNCHANGED <<state, engine, stops>>

StepsSaved ==
  /\ At("steps", "start") /\ work.ended # {}
  /\ state' = [state EXCEPT !.done = @ \cup work.ended, !.refs = @ \cup work.refs]
  /\ work' = Idle
  /\ UNCHANGED <<job, declared, disk, engine, stops>>

(* post_process, `unanswered`, or an ending that delivers nothing: it skips *)
(* the document step and dag_result makes it a failure.                     *)
Answer(kind) ==
  /\ At("steps", "start") /\ state.done = Steps
  /\ IF kind = "failed"
     THEN /\ job' = [job EXCEPT !.status = "failed", !.error = "why it stopped",
                                !.result.terminal = "failed"]
          /\ UNCHANGED state
     ELSE state' = [state EXCEPT !.node = "write", !.terminal = kind] /\ UNCHANGED job
  /\ UNCHANGED <<declared, work, disk, engine, stops>>

(* DocumentWriter.run.  Nobody asked: nothing.  Otherwise the reporters are *)
(* composed and write in order; the first failure keeps what made it to     *)
(* disk and is the error; every file is declared after the last write.      *)
Compositions ==
  /\ At("write", "start") /\ state.formats \notin {NotSaid, <<>>}
  /\ work' = IF Composable(state.formats)
             THEN [work EXCEPT !.step = "write", !.todo = Compose(state.formats)]
             ELSE [work EXCEPT !.step = "declare", !.error = "write failed"]
  /\ UNCHANGED <<job, declared, state, disk, engine, stops>>

Format(i) == Classes[state.formats[i]]
IsNext(i) == i \in work.todo /\ \A k \in work.todo : i <= k

(* MultiReporter.write: the first file is `main`, the others alternates.    *)
Output(format, before) ==
  [path |-> format, format |-> format, role |-> IF before = <<>> THEN "main" ELSE "alternate",
   by |-> "the run"]

WriteOne(i) ==
  /\ At("write", "write") /\ IsNext(i)
  /\ disk' = disk \cup {Format(i)}
  /\ work' = [work EXCEPT !.todo = @ \ {i},
                          !.written = Append(@, Output(Format(i), work.written))]
  /\ UNCHANGED <<job, declared, state, engine, stops>>

(* Mutant: a failed write forgets what was written before it.              *)
WriteFailsBare ==
  /\ At("write", "write") /\ work.todo # {}
  /\ work' = [work EXCEPT !.step = "declare", !.told = Len(work.written), !.error = "write failed"]
  /\ UNCHANGED <<job, declared, state, disk, engine, stops>>

(* ReportWriteError: the outputs already on disk go with it.               *)
WriteFails ==
  /\ At("write", "write") /\ work.todo # {}
  /\ work' = [work EXCEPT !.step = "declare", !.error = "write failed"]
  /\ UNCHANGED <<job, declared, state, disk, engine, stops>>

WritesEnd ==
  /\ At("write", "write") /\ work.todo = {}
  /\ work' = [work EXCEPT !.step = "declare"]
  /\ UNCHANGED <<job, declared, state, disk, engine, stops>>

DeclareOne ==
  /\ At("write", "declare") /\ work.told < Len(work.written)
  /\ UNCHANGED disk /\ Declare(work.written[work.told + 1])
  /\ work' = [work EXCEPT !.told = @ + 1]
  /\ UNCHANGED <<job, state, engine, stops>>

(* The run ends: dag_result reads the last state, the job is DONE.         *)
End ==
  /\ \/ At("write", "start") /\ state.formats \in {NotSaid, <<>>}
     \/ At("write", "declare") /\ work.told = Len(work.written)
  /\ job' = [job EXCEPT !.status = IF state.terminal = "failed" THEN "failed" ELSE "done",
                        !.result = [terminal |-> state.terminal, documentError |-> work.error]]
  /\ UNCHANGED <<declared, state, work, disk, engine, stops>>

(* A stop, or a crash found later: what no checkpoint holds is gone, the    *)
(* facts and the files stay.  The writes hold the event loop: a crash may   *)
(* come between two of them, a stop may not.  Continued, perhaps by another *)
(* installation, the run goes on from its checkpoint, its ending cleared.   *)
StopFalls == MayStopLate \/ work.step # "declare" \/ work.told = 0

Stop(as) ==
  /\ job.status = "running" /\ stops < MaxStop /\ StopFalls
  /\ as = "cancelled" => work.step # "write"
  /\ stops' = stops + 1
  /\ job' = [job EXCEPT !.status = as, !.error = IF as = "failed" THEN "interrupted" ELSE Nothing]
  /\ work' = Idle
  /\ UNCHANGED <<declared, state, disk, engine>>

(* _begin_resume: stopped, with something left to run; a run that reached   *)
(* its failure has nothing left.                                            *)
Resumable == job.status \in {"cancelled", "failed"} /\ job.result.terminal # "failed"

Continue ==
  /\ Resumable /\ stops <= MaxStop
  /\ job' = [job EXCEPT !.status = "running", !.error = Nothing, !.result = NoResult]
  /\ engine' \in BOOLEAN /\ stops' = stops + 1
  /\ UNCHANGED <<declared, state, work, disk>>

-----------------------------------------------------------------------------
(* DagJob: the record as every front-end reads it (dag/jobs.py).           *)

(* outputs: the files declared and there, the deliverable, its renderings,  *)
(* the annexes in plan order; declared twice, listed once, as the first.    *)
RoleOrder == [main |-> 1, alternate |-> 2, annex |-> 3]
PlaceOf(by) == IF by \in Steps THEN CHOOSE i \in DOMAIN Plan : Plan[i] = by ELSE Len(Plan) + 1
Rank(output) == RoleOrder[output.role] * (Len(Plan) + 2) + PlaceOf(output.by)

There == {d \in declared : ~d.missing}
Present == {d.path : d \in There}
Outputs == {o \in There : \A d \in There : d.path = o.path => Rank(o) <= Rank(d)}
Listed(path) == CHOOSE o \in Outputs : o.path = path

ReportPath ==
  IF \E o \in Outputs : o.role = "main"
  THEN (CHOOSE o \in Outputs : o.role = "main").path ELSE Nothing

Missing == \E d \in declared : d.missing

(* error: why it stopped, the write that failed, a file promised and not    *)
(* left, in that order.                                                     *)
Error == {e \in {job.error, job.result.documentError} : e # Nothing}
           \cup (IF Missing THEN {"missing"} ELSE {})

(* delivered_files, as the generator is told of them: the answer itself, in  *)
(* these formats, and each file a step's result names.                      *)
Announced ==
  state.refs \cup (IF state.formats \in {NotSaid, <<>>} THEN {} ELSE {Format(1)})

AskedFormats == IF job.asked # NotSaid THEN job.asked ELSE job.decided

(* Mutant: silence is a decision from the start.                            *)
ExpectedAtOnce == AskedFormats \notin {NotSaid, <<>>}

(* deliverable_expected: silence is a decision once the run was heard.     *)
Expected ==
  \/ AskedFormats \notin {NotSaid, <<>>}
  \/ job.asked # <<>> /\ ~job.heard /\ job.status # "done"

(* External: somebody removes the report of an ended job.                  *)
Vanish ==
  /\ job.status = "done" /\ ReportPath \in disk
  /\ disk' = disk \ {ReportPath}
  /\ UNCHANGED <<job, declared, state, work, engine, stops>>

Next ==
  \/ \E asked \in Requests : Create(asked)
  \/ \E reply \in Replies : Decide(reply)
  \/ DecideSaved
  \/ \E s \in Steps, file \in Files \cup {Nothing}, left \in BOOLEAN : StepEnds(s, file, left)
  \/ StepsSaved
  \/ \E kind \in {"answered", "unanswered", "failed"} : Answer(kind)
  \/ \E i \in work.todo : WriteOne(i)
  \/ Compositions \/ WriteFails \/ WritesEnd \/ DeclareOne \/ End
  \/ \E as \in {"cancelled", "failed"} : Stop(as)
  \/ Continue
  \/ Vanish

Spec == Init /\ [][Next]_vars

-----------------------------------------------------------------------------
(* The readers of an ended job.  Each says there is a file, that none was   *)
(* asked for, that it could not be written, or that the run did not finish. *)

(* Mutant: a missing file is read as one nobody asked for.                  *)
DeliveredByPath ==
  IF job.status # "done" THEN "stopped"
  ELSE IF ReportPath # Nothing THEN "file" ELSE "none asked"

(* chat/tools._delivered: the run ended inside the turn.                   *)
Delivered ==
  IF job.status # "done" THEN "stopped"
  ELSE IF ReportPath # Nothing THEN "file"
  ELSE IF job.result.terminal = "unanswered" THEN "unsaid"
  ELSE IF ~Expected THEN "none asked"
  ELSE IF Error # {} THEN "not written" ELSE "unsaid"

(* chat/session._notice_for: it ended in the background.                   *)
Notice ==
  IF job.status # "done" THEN "stopped"
  ELSE IF ReportPath # Nothing THEN "file"
  ELSE IF job.result.terminal = "unanswered" THEN "unsaid"
  ELSE IF ~Expected THEN "none asked" ELSE "not written"

(* chat/session._deliver: the answer goes into the turn, word for word,     *)
(* unless it is long and there is a file to read it in.                     *)
Inline(long) == job.status = "done" /\ ~(long /\ ReportPath # Nothing)

(* service.get_report: text, a refusal for bytes, or nothing.              *)
Report ==
  IF ReportPath = Nothing THEN Nothing
  ELSE IF IsBinary(Listed(ReportPath).format) THEN "binary"
  ELSE IF ReportPath \in disk THEN "text" ELSE Nothing

(* GET /jobs/{id}/report, `jobsmith report`, `/report`: the same three.    *)
Shown ==
  IF Report # Nothing THEN "file"
  ELSE IF job.status = "done" /\ ~Expected THEN "none asked" ELSE "unavailable"

(* tui/render.outputs_block, with what find_output says is gone.           *)
Pane ==
  IF \E o \in Outputs : o.path \in disk THEN "files"
  ELSE IF Outputs # {} THEN "gone"
  ELSE IF Expected THEN "no file yet" ELSE "none asked"

-----------------------------------------------------------------------------
(* Properties.                                                             *)

Sayings == {NotSaid} \cup UNION {[1..n -> DOMAIN Classes] : n \in 0..3}

TypeOK ==
  /\ job.status \in {"none", "refused", "running", "done", "failed", "cancelled"}
  /\ job.asked \in Sayings /\ job.decided \in Sayings
  /\ state.node \in {"intent", "steps", "write"} /\ state.done \subseteq Steps
  /\ state.formats \in Sayings /\ work.ended \subseteq job.steps /\ job.steps \subseteq Steps
  /\ disk \subseteq Reporters \cup Files /\ stops \in 0..(2 * MaxStop)

(* A job never lists two files as the deliverable, one path is listed once, *)
(* and when every write succeeded the deliverable is in the first format    *)
(* asked for, each other format beside it (MultiReporter, DagJob.outputs).  *)
OneMain ==
  /\ Cardinality({o \in Outputs : o.role = "main"}) <= 1
  /\ (job.status = "done" /\ work.written # <<>> /\ work.error = Nothing) =>
       /\ ReportPath = Format(1)
       /\ \A i \in DOMAIN state.formats : Format(i) \in Present

(* Every file the ended run wrote is listed, a later format's failure       *)
(* notwithstanding: "a file recorded nowhere is a deliverable nobody can    *)
(* find" (ReportWriteError, DocumentWriter.run).                            *)
WrittenIsFound ==
  job.status = "done" => \A i \in DOMAIN work.written : work.written[i].path \in Present

(* A finished job that was to have a document has it or says why not; one   *)
(* that was not to have one has none (create_job's three states, the        *)
(* document step's gate, deliverable_expected).                             *)
DocumentIsAnswered ==
  job.status = "done" =>
    IF Expected THEN ReportPath # Nothing \/ "write failed" \in Error
                ELSE ReportPath = Nothing

(* The readers do not contradict each other: when one says that no document *)
(* was asked for, none of them says there is one or that it failed; an      *)
(* answer is in the turn whenever no file holds it; and the files the       *)
(* answer was written to speak of are there, or the job says what went      *)
(* wrong (delivered_files, "dropped later by the job layer and said").      *)
SameStory ==
  job.status = "done" =>
    /\ "none asked" \in {Delivered, Notice, Shown} =>
         {Delivered, Notice, Shown} \subseteq {"none asked", "unsaid"}
    /\ "file" \in {Delivered, Notice} => Shown \in {"file", "unavailable"} /\ Pane # "none asked"
    /\ Delivered = "unsaid" => job.result.terminal = "unanswered"
    /\ \A long \in BOOLEAN : Inline(long) \/ \E o \in Outputs : o.role = "main"
    /\ Error = {} => Announced \subseteq Present

(* "A job that did not answer has no `main`" (docs/decisions/0041): what a  *)
(* stopped or failed run left is partial material, never a report.          *)
NoReportWithoutAnswer ==
  job.status \in {"cancelled", "failed"} => ReportPath = Nothing

(* What was asked for is there or missed aloud, and nothing that was not    *)
(* answered passes for a report.                                            *)
AskedIsAnswered == DocumentIsAnswered /\ NoReportWithoutAnswer

(* The sentence is about to be read a second time: a stop cut off the       *)
(* checkpoint of the first, which the job has heard.                        *)
ReadAgain ==
  /\ job.heard /\ job.asked = NotSaid
  /\ state.node = "intent" /\ work.step = "start"

(* A client told that no file is coming is proved wrong by one thing only, a *)
(* second reading of the sentence that comes out otherwise: no stop, crash, *)
(* resume, other installation or ending takes the decision back, nor does a *)
(* second reading that comes out alike.  And past that step the record says *)
(* of the formats what the run goes by, though the fact and the checkpoint  *)
(* were saved apart (DocumentIntent.run, deliverable_expected).             *)
DecisionStays ==
  /\ [][(job.status # "none" /\ ~Expected) =>
          ~Expected' \/ (ReadAgain /\ job'.decided # job.decided)]_vars
  /\ [](state.node # "intent" => state.formats = AskedFormats)

(* "It only ever goes True -> False" (deliverable_expected, dag/jobs.py).   *)
OnlyGoesFalse == [][(job.status # "none" /\ ~Expected) => ~Expected']_vars
=============================================================================
