------------------------------- MODULE Scoring -------------------------------
(* What the evaluation suite (evals/) says of one run: the checks of         *)
(* scoring.py over an observation, the tally and the exit of the suite, and  *)
(* the probe's judgement of a program.                                       *)
(*                                                                           *)
(* A text is the set of its content words and the set of the shapes the      *)
(* checks look for in it ("producer", "form", "deck"...).  An observation's  *)
(* step is [capability, depends]; `ok` says of each step that reported how   *)
(* it went, `found` what it retrieved, `read` the words of its result.       *)
EXTENDS Naturals, Sequences, FiniteSets, SequencesExt

CONSTANTS
    Nothing,       \* None, in a case as in an observation
    ProcessWords   \* the vocabulary of producing a document

Verdict(ok) == IF ok THEN "pass" ELSE "fail"
Scored(applies, ok) == IF applies THEN Verdict(ok) ELSE "skip"

\* MIN_TERM_SHARE: a third of the words are there.
Carries(words, part) == 3 * Cardinality(words \cap part) >= Cardinality(words)

-----------------------------------------------------------------------------
(* The run and its triage.                                                   *)
RunCompleted(case, obs) == Verdict(~obs.error)
TerminalKind(case, obs) == Scored(~obs.error, obs.terminal = case.terminal)
RouterRoute(case, obs) == Scored(case.route # Nothing /\ ~obs.error, obs.route = case.route)

(* The plan.                                                                 *)
PlanPresent(case, obs) == Scored(case.route = "plan" /\ ~obs.error, obs.steps # <<>>)
PlanApplies(obs) == ~obs.error /\ obs.steps # <<>>
Planned(obs) == {s.capability : s \in ToSet(obs.steps)}

NamesKnown(case, obs) == Scored(PlanApplies(obs), Planned(obs) \subseteq obs.registry)

NoDuplicates(case, obs) == Scored(PlanApplies(obs), Cardinality(Planned(obs)) = Len(obs.steps))

DepsSatisfiable(case, obs) ==
    Scored(PlanApplies(obs),
           \A s \in ToSet(obs.steps) : s.depends \subseteq Planned(obs) \ {s.capability})

\* Mutant: what waits for a step is not looked at again once it is done.
VisitedRoots(obs) == {s.capability : s \in {r \in ToSet(obs.steps) : r.depends = {}}}

\* Kahn's count, a round per step: what waits for nothing unvisited.
Visited(obs) ==
    FoldLeft(LAMBDA seen, s : seen \cup
                {n \in Planned(obs) : \A t \in ToSet(obs.steps) :
                    t.capability = n => t.depends \cap Planned(obs) \subseteq seen},
             {}, obs.steps)

PlanAcyclic(case, obs) ==
    Scored(PlanApplies(obs), Cardinality(Visited(obs)) = Len(obs.steps))

PlanSize(case, obs) ==
    Scored((case.min > 0 \/ case.max # Nothing) /\ PlanApplies(obs),
           Len(obs.steps) >= case.min /\ (case.max # Nothing => Len(obs.steps) <= case.max))

RequiredSteps(case, obs) ==
    LET wanted == case.include \cap obs.registry
    IN Scored(wanted # {} /\ PlanApplies(obs), wanted \subseteq Planned(obs))

ExcludedSteps(case, obs) ==
    LET unwanted == case.exclude \cap obs.registry
    IN Scored(unwanted # {} /\ PlanApplies(obs), unwanted \cap Planned(obs) = {})

(* Execution.                                                                *)
StepsAllRan(case, obs) == Scored(PlanApplies(obs), Planned(obs) \subseteq DOMAIN obs.ok)
StepsAllOk(case, obs) == Scored(PlanApplies(obs), \A n \in DOMAIN obs.ok : obs.ok[n])

Retrieved(obs) == {n \in DOMAIN obs.ok : obs.ok[n] /\ obs.found[n] # {}}

DownstreamOf(obs, sources) ==
    LET all == FoldLeft(LAMBDA reached, round : reached \cup
                {s.capability : s \in {t \in ToSet(obs.steps) : t.depends \cap reached # {}}},
             sources, obs.steps)
    IN (all \cap Planned(obs)) \ sources

\* (The limit of MATERIAL_TERMS words is left out.)
GroundingReachesReasoning(case, obs) ==
    LET sources == Retrieved(obs)
        downstream == DownstreamOf(obs, sources)
        material == UNION {obs.found[n] : n \in sources} \ (obs.query.words \cup ProcessWords)
    IN Scored(PlanApplies(obs) /\ downstream # {} /\ material # {},
              Carries(material, UNION {obs.read[n] : n \in downstream \cap DOMAIN obs.ok}))

-----------------------------------------------------------------------------
(* The deliverable and the answer.                                           *)
Answered(case, obs) == case.terminal = "answer" /\ ~obs.error /\ obs.terminal = "answer"

\* Mutant: a file is owed by every run that answered.
ReportAppliesAlways(case, obs) == Answered(case, obs)

ReportApplies(case, obs) == Answered(case, obs) /\ case.document # "no" /\ obs.expected
AnswerApplies(case, obs) == Answered(case, obs) /\ obs.steps # <<>>

DocumentAsRequested(case, obs) ==
    Scored(case.document # Nothing /\ ~obs.error /\ obs.terminal # Nothing,
           (obs.path # Nothing) = (case.document = "yes"))

DocumentFormat(case, obs) ==
    Scored(/\ case.format # Nothing /\ ~obs.error
           /\ obs.renderable # {} => case.format \in obs.renderable,
           obs.path # Nothing /\ obs.format = case.format)

ReportWritten(case, obs) == Scored(ReportApplies(case, obs), obs.text # {})

\* What the file is read to hold: its title, the answer, the job, the notice.
Holds(obs, what) == what \in obs.text

ReportTitle(case, obs) == Scored(ReportApplies(case, obs), Holds(obs, "title"))
ReportAnswer(case, obs) == Scored(ReportApplies(case, obs), Holds(obs, "answer"))
ReportProvenance(case, obs) ==
    Scored(ReportApplies(case, obs) /\ obs.job # Nothing, Holds(obs, "job"))

ReaderFacing(case, obs) ==
    Scored(IF obs.path # Nothing /\ obs.steps = <<>> THEN ReportApplies(case, obs)
                                                      ELSE AnswerApplies(case, obs),
           "producer" \notin obs.answer.shapes)

AnswersRequest(case, obs) ==
    LET subject == obs.query.words \ ProcessWords
        named == Cardinality(subject) >= 2 => Carries(subject, obs.answer.words)
        material == obs.material.words \ (obs.query.words \cup ProcessWords)
    IN Scored(AnswerApplies(case, obs) /\ (material # {} \/ ~named),
              named /\ Carries(material, obs.answer.words))

RefusalDeclared(case, obs) ==
    Scored(~obs.error /\ obs.terminal = "unanswered" /\ obs.expected, Holds(obs, "notice"))

RefusalIsBare(case, obs) ==
    Scored(~obs.error /\ obs.terminal = "unanswered",
           obs.answer.shapes \cap {"long", "form", "offer"} = {})

\* FILE_KINDS: the formats that make a claim true; any file does for the last.
FileKinds == [deck |-> {"pptx"}, pdf |-> {"pdf"}, sheet |-> {"xlsx"}]

InventsNoFile(case, obs) ==
    LET claimed == obs.answer.shapes \ (obs.query.shapes \cup obs.material.shapes)
    IN Scored(AnswerApplies(case, obs),
              /\ \A kind \in claimed \cap DOMAIN FileKinds : FileKinds[kind] \cap obs.formats # {}
              /\ "attached" \in claimed => obs.formats # {})

AnswerIsTheFile(case, obs) ==
    Scored(ReportApplies(case, obs),
           (obs.answer.shapes \ obs.query.shapes) \cap {"how to save", "own file"} = {})

-----------------------------------------------------------------------------
Score(case, obs) ==
    [run_completed |-> RunCompleted(case, obs), router_route |-> RouterRoute(case, obs),
     terminal_kind |-> TerminalKind(case, obs), plan_present |-> PlanPresent(case, obs),
     plan_names_known |-> NamesKnown(case, obs), plan_no_duplicates |-> NoDuplicates(case, obs),
     plan_deps_satisfiable |-> DepsSatisfiable(case, obs), plan_acyclic |-> PlanAcyclic(case, obs),
     plan_size |-> PlanSize(case, obs), plan_required_steps |-> RequiredSteps(case, obs),
     plan_excluded_steps |-> ExcludedSteps(case, obs), steps_all_ran |-> StepsAllRan(case, obs),
     steps_all_ok |-> StepsAllOk(case, obs),
     grounding_reaches_reasoning |-> GroundingReachesReasoning(case, obs),
     report_written |-> ReportWritten(case, obs),
     document_as_requested |-> DocumentAsRequested(case, obs),
     document_format |-> DocumentFormat(case, obs), report_title |-> ReportTitle(case, obs),
     report_answer |-> ReportAnswer(case, obs), report_provenance |-> ReportProvenance(case, obs),
     report_reader_facing |-> ReaderFacing(case, obs),
     report_answers_request |-> AnswersRequest(case, obs),
     refusal_declared |-> RefusalDeclared(case, obs), refusal_is_bare |-> RefusalIsBare(case, obs),
     answer_invents_no_file |-> InventsNoFile(case, obs),
     answer_is_the_file |-> AnswerIsTheFile(case, obs)]

With(score, verdict) == {name \in DOMAIN score : score[name] = verdict}

(* summarize: what applied and what passed, over the scores of a suite.      *)
Tally(scores) ==
    FoldLeft(LAMBDA t, s : [passed |-> t.passed + Cardinality(With(s, "pass")),
                            applicable |-> t.applicable + Cardinality(DOMAIN s)
                                             - Cardinality(With(s, "skip"))],
             [passed |-> 0, applicable |-> 0], scores)

StepFailureRate(obs) ==
    [failed |-> Cardinality({n \in DOMAIN obs.ok : ~obs.ok[n]}), of |-> Cardinality(DOMAIN obs.ok)]

(* The exit of `python -m evals`: nothing measured is 2, a rate under the    *)
(* floor 1; the fake provider is deterministic, its floor is a full score.   *)
Floor(provider, underPercent) ==
    IF underPercent = Nothing /\ provider = "fake" THEN 100 ELSE underPercent

SuiteExit(refused, scores, provider, underPercent) ==
    LET tally == Tally(scores)
        floor == Floor(provider, underPercent)
    IN IF refused \/ scores = <<>> THEN 2
       ELSE IF floor # Nothing
               /\ (tally.applicable = 0 \/ 100 * tally.passed < floor * tally.applicable)
       THEN 1 ELSE 0

(* ensure_readable: the main deliverable has to be text to be scored.        *)
Scorable(format) == format # "pdf"

-----------------------------------------------------------------------------
(* The probe of the planner's output format (strict_probe.py).  A program is *)
(* a sequence of [id, refs, after]; `output` the steps it names.             *)
Ids(steps) == {s.id : s \in ToSet(steps)}
WaitsFor(steps, id) ==
    UNION {(s.refs \cap Ids(steps)) \cup s.after : s \in {t \in ToSet(steps) : t.id = id}}

Cyclic(steps) ==
    LET seen == FoldLeft(LAMBDA done, round : done \cup
                    {id \in Ids(steps) : WaitsFor(steps, id) \cap Ids(steps) \subseteq done},
                    {}, steps)
    IN seen # Ids(steps)

Findings(steps, output) ==
    {code \in {"duplicate_id", "unknown_ref", "unknown_after", "unknown_output", "cycle"} :
        \/ code = "duplicate_id" /\ Cardinality(Ids(steps)) # Len(steps)
        \/ code = "unknown_ref" /\ \E s \in ToSet(steps) : ~(s.refs \subseteq Ids(steps))
        \/ code = "unknown_after" /\ \E s \in ToSet(steps) : ~(s.after \subseteq Ids(steps))
        \/ code = "unknown_output" /\ ~(output \subseteq Ids(steps))
        \/ code = "cycle" /\ Cyclic(steps)}

\* Valid, or the first reason it is not: the schema asks for a step.
Judge(parses, fits, steps, output) ==
    IF ~parses THEN "json" ELSE IF steps = <<>> THEN "schema" ELSE IF ~fits THEN "args"
    ELSE IF Findings(steps, output) # {} THEN "finding" ELSE "valid"
=============================================================================
