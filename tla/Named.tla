-------------------------------- MODULE Named --------------------------------
(* What the files of a job are called: the name a request gives its document *)
(* on its way from the chat's tool, where it is shown to the user, through   *)
(* the record to the paths the reporters write (chat/tools.py, dag/jobs.py,  *)
(* dag/report.py, artifacts/), beside the names the steps give their own.  A *)
(* name is the sequence of its dot-separated parts; it is put to the job of  *)
(* Document in every state the job goes through.                             *)
EXTENDS Deck

CONSTANTS
  Given,     \* the names a request may give
  Slashed,   \* those with a separator in them
  MaxParts   \* how long a name may be

ASSUME NamesAreParts == Given \subseteq Seq(STRING) /\ Slashed \subseteq Given /\ MaxParts \in Nat \ {0}

NoName == <<>>

\* known_extensions: what each format's class writes.
Extensions == [markdown |-> "md", md |-> "md", html |-> "html", htm |-> "html", pdf |-> "pdf"]

\* safe_name: nothing at all, "." and "..", a separator.
Unusable(name) == name \in {NoName, <<"">>, <<"", "">>, <<"", "", "">>} \cup Slashed

\* document_stem: without the extension of a format it knows, or refused.
Stem(name) ==
    IF Len(name) > 1 /\ Last(name) \in Range(Extensions) /\ Front(name) # <<"">>
    THEN Front(name) ELSE name
RefusesName(name) == Unusable(name) \/ Len(Stem(name)) > MaxParts

\* The chat's tool takes the stem, or does not launch; create_job takes the
\* stem of what it is handed.
Proposed(given) == IF given = NoName THEN NoName ELSE Stem(given)
Launchable(given) == given = NoName \/ ~RefusesName(given)
Recorded(given) == IF Proposed(given) = NoName THEN NoName ELSE Stem(Proposed(given))
Records(given) == Proposed(given) = NoName \/ ~RefusesName(Proposed(given))

-----------------------------------------------------------------------------
\* deliverable_filenames, for what is shown before the run.
Filenames(name, formats) ==
    IF name = NoName \/ formats \in {NotSaid, <<>>} THEN {}
    ELSE {Append(name, Extensions[formats[i]]) : i \in DOMAIN formats}

\* The notice and the proposal: the files, their formats, that there is none,
\* or that there is none unless the request asks for one in words.
Shows(name, formats) ==
    IF Filenames(name, formats) # {} THEN "files"
    ELSE IF formats = NotSaid THEN "none unless asked"
    ELSE IF formats # <<>> THEN "formats" ELSE "none"

\* path_for: named, in the job's own directory; else beside the others, by its id.
PathFor(name, format) ==
    IF name = NoName THEN [in |-> "reports", name |-> <<"job", Extensions[format]>>]
    ELSE [in |-> "job", name |-> Append(name, Extensions[format])]

\* LocalArtifactStore and deck_filename: what a step keeps, in the same directory.
DeckPath == [in |-> "job", name |-> <<"slide_deck", "pptx">>]

-----------------------------------------------------------------------------
Deliverables == {o \in Outputs : o.role # "annex"}

\* What the user was shown is what is written: a name the tool took is not
\* refused once it was shown, "no file" is followed by none, the formats named
\* are the only ones there is a file in, and the file names are those shown, all
\* of them when nothing went wrong; and no name the document can be given lands
\* on a file a step keeps (chat/tools.py, "what the user is shown is what will
\* be written"; FileReporter.path_for).
ShownIsWritten ==
    \A given \in {g \in Given : Launchable(g)} :
        LET name == Recorded(given)
            written == {PathFor(name, o.format) : o \in Deliverables}
            shown == Filenames(Proposed(given), job.asked)
        IN  /\ Records(given)
            /\ Known =>
                 CASE Shows(Proposed(given), job.asked) = "none" -> written = {}
                   [] Shows(Proposed(given), job.asked) = "formats" ->
                        \A o \in Deliverables : o.format \in {Classes[job.asked[i]] : i \in DOMAIN job.asked}
                   [] Shows(Proposed(given), job.asked) = "files" ->
                        /\ {path.name : path \in written} \subseteq shown
                        /\ (job.status = "done" /\ Error = {}) => {path.name : path \in written} = shown
                   [] OTHER -> TRUE
            /\ DeckPath \notin written

\* A job's files are all found, one of them as the deliverable, under the names
\* that were shown for them.
FilesAreFound == OneMain /\ WrittenIsFound /\ ShownIsWritten
=============================================================================
