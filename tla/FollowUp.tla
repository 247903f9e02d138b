------------------------------ MODULE FollowUp ------------------------------
(* A later request that builds on the job of Document, or on files: what the *)
(* default agent's steps load of them (agents/default/prior_jobs.py,         *)
(* read_files.py, documents.py, over dag/prior.py and sources.py), what the  *)
(* notes are written from (research.py), and what reaches the steps after    *)
(* them and the generator.  Read in every state the job goes through, as a   *)
(* session may refer to a run that is going on, was stopped, or wrote no     *)
(* file.  A text is its length, its words' length and whether it is marked   *)
(* as cut; a reference is a job, a deliverable by its path, or a file.       *)
EXTENDS Doors, Integers

CONSTANTS
  Asks,         \* the follow-ups: [jobs, files, queries, web, planned, fails, slot]
  Backed,       \* the capabilities something backs in this deployment
  Shelf,        \* the other files: name -> [kind, text]
  AnswerText,   \* the earlier job's answer
  StepText,     \* what each of its steps reported
  HitText,      \* a passage a search finds
  Note,         \* the length of the mark left where a text was cut
  MaxMaterial,  \* what the notes' material may spend
  MaxPrior,     \* what earlier runs may spend of a prompt
  MaxChars,     \* what a file may
  MaxJobs, MaxFiles, MaxQueries, MaxDocuments

ASSUME SizesAreNaturals ==
    {Note, MaxMaterial, MaxPrior, MaxChars, MaxJobs, MaxFiles, MaxQueries,
     MaxDocuments} \subseteq Nat \ {0}

FirstOf(n, seq) == SubSeq(seq, 1, IF n < Len(seq) THEN n ELSE Len(seq))
From(n, seq) == SubSeq(seq, n + 1, Len(seq))
Block(of, kind, text) == [of |-> of, kind |-> kind, text |-> text]
Names(blocks) == {blocks[i].of : i \in DOMAIN blocks}

\* What a step emits: well with some material, failed without; what it could
\* not have goes with it either way.
Ran(blocks, gaps) == [ok |-> blocks # <<>>, blocks |-> blocks, gaps |-> gaps]

\* referenced_jobs, named_files: a list, one reference where a list was due, or
\* anything else, which names nothing; a blank is no reference.
Refs(named) ==
    IF named.shape = "other" THEN <<>> ELSE SelectSeq(named.refs, LAMBDA r : r # "blank")
FileRefs(ask) == Refs(ask.files)

-----------------------------------------------------------------------------
(* Cutting to a budget.                                                      *)

\* The characters a slice to `budget` leaves: from the end when it is negative.
Sliced(text, budget) ==
    IF budget >= 0 THEN budget ELSE IF text.len + budget > 0 THEN text.len + budget ELSE 0

\* _bounded: whole, or cut, on a word when one ends near the cut, and marked; no
\* word ending is a place before the first, and a slice up to it drops the last.
Bounded(text, budget) ==
    LET head == [text EXCEPT !.len = Sliced(text, budget)]
        space == IF text.word = 0 \/ head.len <= text.word THEN -1
                 ELSE text.word * ((head.len - 1) \div text.word)
        near == IF budget >= 0 THEN (4 * budget) \div 5 ELSE -((-4 * budget) \div 5)
    IN  IF text.len <= budget THEN text
        ELSE [text EXCEPT !.len = Note + (IF space > near THEN Sliced(head, space) ELSE head.len),
                          !.cut = TRUE]

\* Block by block: each takes its share of what is left, and hands the rest on.
FitBy(floored, blocks, budget) ==
    LET n == Len(blocks)
        share(left, parts) == IF floored /\ left < 0 THEN 0 ELSE left \div parts
        fit[i \in 0..n] ==
          IF i = 0 THEN [left |-> budget, blocks |-> <<>>]
          ELSE LET before == fit[i - 1]
                   text == Bounded(blocks[i].text, share(before.left, n - i + 1))
               IN  [left |-> before.left - text.len,
                    blocks |-> Append(before.blocks, [blocks[i] EXCEPT !.text = text])]
    IN  fit[n]

Fit(blocks, budget) == FitBy(TRUE, blocks, budget)

\* research._retrieved: the same, with nothing that stops at zero.
NotesFit(blocks) == FitBy(FALSE, blocks, MaxMaterial).blocks

-----------------------------------------------------------------------------
(* prior_jobs: what the earlier run produced, whatever it wrote to a file.   *)

\* RepositoryPriorJobs.load: the answer it reached, and its steps' results in
\* plan order, off the record.
PriorJob ==
    [answered |-> job.result.terminal \in {"answered", "unanswered"},
     steps |-> SelectSeq(Plan, LAMBDA s : s \in job.steps)]
Loads(ref) == ref = "job" /\ Known

\* _blocks: the answer, then what each step said, or why it failed.
Answers(ref) == IF PriorJob.answered THEN <<Block(ref, "answer", AnswerText)>> ELSE <<>>
Reports(ref) == [i \in DOMAIN PriorJob.steps |-> Block(ref, "step", StepText[PriorJob.steps[i]])]

\* _documents: the answer has first claim on half, when there is anything else.
Documents(ref) ==
    LET half == IF Reports(ref) = <<>> THEN MaxPrior ELSE MaxPrior \div 2
        answers == Fit(Answers(ref), half)
    IN  answers.blocks \o Fit(Reports(ref), MaxPrior - (half - answers.left)).blocks

\* Mutant: a reference that was served nothing is left out without a word.
LoadAllQuietly(refs) ==
    LET read == SelectSeq(FirstOf(MaxJobs, refs), Loads)
    IN  Ran(FlattenSeq([i \in DOMAIN read |-> Documents(read[i])]), ToSet(From(MaxJobs, refs)))

\* One that cannot be loaded, one too many, one that produced nothing yet: each
\* is said.  Only one of the references is a job here, so the budget is its own.
LoadAll(refs) ==
    LET read == SelectSeq(FirstOf(MaxJobs, refs), Loads)
        blocks == FlattenSeq([i \in DOMAIN read |-> Documents(read[i])])
    IN  Ran(blocks, ToSet(refs) \ Names(blocks))

-----------------------------------------------------------------------------
(* read_files: the files the request names, each in full or refused.         *)

\* resolve_within: the deliverable of a job lies in a root, what else may not.
Within(name) == name \notin DOMAIN Shelf \/ Shelf[name].kind # "outside"

\* _read_text and _decode: there, and text from its first byte to the cut; a
\* character the cut goes through is not held against the file.
Content(name) ==
    IF name \in DOMAIN Shelf THEN Shelf[name]
    ELSE [kind |-> IF IsBinary(name) THEN "bytes" ELSE "text", text |-> AnswerText]
IsThere(name) == name \in DOMAIN Shelf \/ name \in disk
Decodes(content) ==
    \/ content.kind = "text"
    \/ content.kind = "split" /\ content.text.len > MaxChars
Reads(name) ==
    /\ Within(name) /\ IsThere(name) /\ Decodes(Content(name))
    /\ Content(name).text.len > 0

\* read: the cut is written into the text.
ReaderText(text) ==
    IF text.len <= MaxChars THEN text ELSE [text EXCEPT !.len = MaxChars + Note, !.cut = TRUE]

\* read_all: the first ones; those past the bound are neither read nor refused.
ReadAll(names) ==
    LET asked == FirstOf(MaxFiles, names)
        read == SelectSeq(asked, Reads)
    IN  Ran([i \in DOMAIN read |-> Block(read[i], "file", ReaderText(Content(read[i]).text))],
            {asked[i] : i \in {k \in DOMAIN asked : ~Reads(asked[k])}})

-----------------------------------------------------------------------------
(* documents: each query's hits, the best of each passage, ranked, a few of  *)
(* them kept; a query that raises loses its own hits.                        *)
Retrieve(queries) ==
    LET hits == UNION {queries[i].hits : i \in {k \in DOMAIN queries : ~queries[k].raised}}
        best == {h \in hits : \A o \in hits : o.id = h.id => o.score <= h.score}
        Before(a, b) == a.score > b.score \/ (a.score = b.score /\ a.id < b.id)
        ranked == FirstOf(MaxDocuments, SetToSortSeq(best, Before))
    IN  Ran([i \in DOMAIN ranked |-> Block("search", "passage", HitText)], {})

\* plan_queries: what the model wrote, the first few; none of use, the request.
Queries(ask) == IF ask.queries = <<>> THEN <<ask.plain>> ELSE FirstOf(MaxQueries, ask.queries)
Searched == [ask \in Asks |-> Retrieve(Queries(ask))]
SearchedWeb == [ask \in Asks |-> Retrieve(FirstOf(MaxQueries, ask.web))]

-----------------------------------------------------------------------------
(* The plan: what is registered, in its order, if planned and applicable.    *)
Always == {"research", "analysis", "critique"}
Registry ==
    SelectSeq(<<"prior_jobs", "read_files", "documents", "web_search",
                "research", "analysis", "critique">>,
              LAMBDA name : name \in Backed \cup Always)
Applicable(name, ask) ==
    /\ name = "prior_jobs" => Refs(ask.jobs) # <<>>
    /\ name = "read_files" => FileRefs(ask) # <<>>
Planned(ask) ==
    {Registry[i] : i \in {k \in DOMAIN Registry : /\ Registry[k] \in ask.planned
                                                  /\ Applicable(Registry[k], ask)}}

\* What the retrieval steps emitted, those that did not run nothing.
NoRun == Ran(<<>>, {})
Results(ask) ==
    LET Of(name, ran) == IF name \in Planned(ask) THEN ran ELSE NoRun
    IN  [prior_jobs |-> Of("prior_jobs", LoadAll(Refs(ask.jobs))),
         read_files |-> Of("read_files", ReadAll(FileRefs(ask))),
         documents |-> Of("documents", Searched[ask]),
         web_search |-> Of("web_search", SearchedWeb[ask])]

\* results_of: what a capability's step left, when it ran and is well.
Left(results, name) ==
    IF results[name].ok THEN results[name] ELSE NoRun

-----------------------------------------------------------------------------
(* research: every source in a fixed order, what could not be read of the two *)
(* that were pointed at, and the notes written from them.                     *)
Grounding == <<"read_files", "prior_jobs", "documents", "web_search">>
Refusals == {"read_files", "prior_jobs"}
Found(results) == FlattenSeq([i \in DOMAIN Grounding |-> Left(results, Grounding[i]).blocks])

\* investigate: the material and what is missing of it, or neither.
Prompt(results) ==
    LET material == NotesFit(Found(results))
    IN  [material |-> material,
         gaps |-> IF material = <<>> THEN {}
                  ELSE UNION {Left(results, name).gaps : name \in Refusals}]

-----------------------------------------------------------------------------
(* Who is told of what: of a reference's material, or that it is missing.     *)
(* A step whose call failed leaves nothing.                                   *)
Works(name, ask) == name \in Planned(ask) \ ask.fails
Notes(ask, prompt) ==
    IF Works("research", ask) THEN Names(prompt.material) \cup prompt.gaps ELSE {}

\* SingleStepCapability: the first upstream that left material.
Analysis(ask, prompt) == IF Works("analysis", ask) THEN Notes(ask, prompt) ELSE {}

\* critique reads the findings and the notes behind them.
Critique(ask, prompt) ==
    IF Works("critique", ask) THEN Analysis(ask, prompt) \cup Notes(ask, prompt) ELSE {}

\* render_context of the step that reads earlier jobs, and of the other two.
PriorContext(results) ==
    Names(Left(results, "prior_jobs").blocks) \cup Left(results, "prior_jobs").gaps
FilesContext(results) ==
    Names(Left(results, "read_files").blocks) \cup Left(results, "read_files").gaps
SearchContext(results, name) == Names(Left(results, name).blocks)

Told(name, ask, results, prompt) ==
    CASE name = "research" -> Notes(ask, prompt)
      [] name = "analysis" -> Analysis(ask, prompt)
      [] name = "critique" -> Critique(ask, prompt)
      [] name = "prior_jobs" -> PriorContext(results)
      [] name = "read_files" -> FilesContext(results)
      [] OTHER -> SearchContext(results, name)

\* ContextMerger: the steps the answer's slot names, or all of them.
Generator(ask, results, prompt) ==
    LET steps == IF ask.slot = {} THEN Planned(ask) ELSE Planned(ask) \cap ask.slot
    IN  UNION {Told(name, ask, results, prompt) : name \in steps}

-----------------------------------------------------------------------------
Named(name, ask) == ToSet(IF name = "read_files" THEN FileRefs(ask) ELSE Refs(ask.jobs))

\* Nothing the request pointed at goes unsaid: a job or a file it names is in
\* the material or among what is missing, in the step's own result and, when
\* the step is well, in front of the notes, of every step written from them and
\* of the generator ("a refusal is material, not silence", read_files.py).  And
\* a finished run is read back with its answer, file or no file; one that is
\* not finished never is.
NothingNamedIsLost ==
    \A ask \in Asks :
        LET results == Results(ask)
            prompt == Prompt(results)
            pointed == Refusals \cap Planned(ask)
            well == UNION {Named(name, ask) : name \in {n \in pointed : results[n].ok}}
            read == results.prior_jobs.blocks
        IN  /\ \A name \in pointed :
                 Named(name, ask) = Names(results[name].blocks) \cup results[name].gaps
            /\ (ask.slot = {} \/ ask.fails = {}) => well \subseteq Generator(ask, results, prompt)
            /\ ask.fails = {} =>
                 \A step \in Always :
                     well \subseteq Told(step, ask, results, prompt)
            /\ (\E i \in DOMAIN read : read[i].kind = "answer")
                 = ("prior_jobs" \in pointed /\ job.status = "done"
                      /\ Contains(FirstOf(MaxJobs, Refs(ask.jobs)), "job"))

\* What the notes are written from fits its budget, marks aside, with every
\* document there is in it; and the earlier run's answer is not the part that
\* is cut when its half of the budget holds it (research.MAX_MATERIAL_CHARS,
\* prior_jobs.ANSWER_SHARE).
Spent(blocks) == SumFunction([i \in DOMAIN blocks |-> blocks[i].text.len])
MaterialFits ==
    \A ask \in Asks :
        LET results == Results(ask)
            found == Found(results)
            notes == NotesFit(found)
            prior == Left(results, "prior_jobs").blocks
        IN  /\ [i \in DOMAIN notes |-> notes[i].of] = [i \in DOMAIN found |-> found[i].of]
            /\ Spent(notes) <= MaxMaterial + Note * Len(notes)
            /\ Spent(prior) <= MaxPrior + Note * Len(prior)
            /\ \A i \in DOMAIN prior :
                 (prior[i].kind = "answer" /\ 2 * AnswerText.len <= MaxPrior) => ~prior[i].text.cut
=============================================================================
