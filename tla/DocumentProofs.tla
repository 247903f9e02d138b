--------------------------- MODULE DocumentProofs ---------------------------
(* What holds of Document for every request, reply, plan and step's file,    *)
(* wherever a run is stopped: the decision, the answer to what was asked,    *)
(* and what the readers of the ended job say of it; and what a later request *)
(* that quotes it may spend.                                                 *)
EXTENDS Named, FiniteSetTheorems, TLAPS

NoFormats == {NotSaid, <<>>}
ByTheRun == [path : Reporters, format : Reporters, role : {"main", "alternate"}, by : {"the run"}]
Facts == [path : Files \cup Reporters, format : Reporters \cup {"file"},
          role : {"main", "alternate", "annex"}, by : Steps \cup {"the run"}, missing : BOOLEAN]
Fact(output, missing) ==
    [path |-> output.path, format |-> output.format, role |-> output.role, by |-> output.by,
     missing |-> missing]

\* What the proofs need of the types.
Typed ==
    /\ job = [asked |-> job.asked, status |-> job.status, error |-> job.error,
              result |-> job.result, heard |-> job.heard, decided |-> job.decided,
              steps |-> job.steps]
    /\ job.result = [terminal |-> job.result.terminal, documentError |-> job.result.documentError]
    /\ job.status \in {"none", "refused", "running", "done", "failed", "cancelled"}
    /\ job.heard \in BOOLEAN
    /\ state = [node |-> state.node, formats |-> state.formats, terminal |-> state.terminal,
                done |-> state.done, refs |-> state.refs]
    /\ state.node \in {"intent", "steps", "write"}
    /\ state.node = "write" => state.terminal \in {"answered", "unanswered"}
    /\ work = [step |-> work.step, formats |-> work.formats, ended |-> work.ended,
               refs |-> work.refs, written |-> work.written, todo |-> work.todo,
               told |-> work.told, error |-> work.error]
    /\ work.step \in {"start", "said", "write", "declare"}
    /\ work.written \in Seq(ByTheRun)
    /\ work.told \in 0..Len(work.written)
    /\ work.error \in {Nothing, "write failed"}
    /\ declared \subseteq Facts

\* The state holds what was asked, or what the step decided where nobody spoke.
Settling ==
    /\ job.status \in {"none", "refused"} =>
         job.asked = NotSaid /\ state.node = "intent" /\ work = Idle
    /\ job.asked \notin NoFormats => job.asked \in Seq(DOMAIN Classes) \ {<<>>}
    /\ state.node = "intent" => state.formats = job.asked
    /\ work.step = "said" =>
         /\ state.node = "intent" /\ job.status = "running"
         /\ job.heard /\ job.decided = work.formats
         /\ job.asked # NotSaid => work.formats = NotSaid
    /\ state.node # "intent" => job.heard /\ state.formats = AskedFormats

\* What is written: the files of the places that are no longer to do, the first
\* place first.
Composed ==
    \/ work.step = "write" \/ work.written # <<>>
    \/ work.step = "declare" /\ work.error = Nothing
PathsWritten == {work.written[k].path : k \in DOMAIN work.written}

Writing ==
    /\ work.step \in {"start", "said"} =>
         work.written = <<>> /\ work.todo = {} /\ work.error = Nothing
    /\ work.step \in {"write", "declare"} =>
         /\ state.node = "write" /\ state.formats \notin NoFormats
         /\ job.status \in {"running", "done"}
    /\ work.step = "write" => work.error = Nothing /\ work.told = 0 /\ job.status = "running"
    /\ Composed =>
         /\ state.formats \in Seq(DOMAIN Classes) \ {<<>>}
         /\ work.todo \subseteq Compose(state.formats)
         /\ PathsWritten = {Format(i) : i \in Compose(state.formats) \ work.todo}
         /\ work.written = <<>> => work.todo = Compose(state.formats)
         /\ work.written # <<>> => work.written[1].path = Format(1)
    /\ work.step = "declare" /\ work.error = Nothing => work.todo = {}
    /\ \A k \in DOMAIN work.written :
         /\ work.written[k].format = work.written[k].path
         /\ work.written[k].role = (IF k = 1 THEN "main" ELSE "alternate")
         /\ job.status = "running" => work.written[k].path \in disk
    /\ \A i, k \in DOMAIN work.written : work.written[i].path = work.written[k].path => i = k

\* The facts are of what was written and told, each there, and of the files
\* that the steps' results name; a job that stopped has told nothing.
Telling ==
    /\ \A d \in declared : d.by # "the run" => d.role = "annex"
    /\ \A d \in declared : d.by = "the run" =>
         \E k \in 1..work.told : d = Fact(work.written[k], FALSE)
    /\ \A k \in 1..work.told : Fact(work.written[k], FALSE) \in declared
    /\ state.refs \cup work.refs \subseteq {d.path : d \in declared}
    /\ job.status \notin {"running", "done"} => work.told = 0

\* A job is DONE once there is nothing to write or everything was told.
Ending ==
    job.status = "done" =>
        /\ state.node = "write"
        /\ job.result = [terminal |-> state.terminal, documentError |-> work.error]
        /\ \/ work.step = "start" /\ state.formats \in NoFormats
           \/ work.step = "declare" /\ work.told = Len(work.written)

IInv == Typed /\ Settling /\ Writing /\ Ending

-----------------------------------------------------------------------------
LEMMA Least ==
    ASSUME NEW Some \in SUBSET Nat, Some # {}
    PROVE  \E i \in Some : \A k \in Some : i <= k
<1> DEFINE Order == StrictSubsetOrdering(Nat)
           Finite == FiniteSubsetsOf(Nat)
           Below == {1..i : i \in Some}
<1>1. IsWellFoundedOn(Order, Finite)
    BY FS_StrictSubsetOrderingWellFounded
<1>2. Below \subseteq Finite /\ Below # {}
    <2> SUFFICES ASSUME NEW i \in Some PROVE 1..i \in Finite
        OBVIOUS
    <2>1. IsFiniteSet(1..i)
        BY FS_Interval
    <2> QED BY <2>1 DEF FiniteSubsetsOf
<1>3. PICK x \in Below : \A y \in Below : ~ (<<y, x>> \in Order)
    <2> HIDE DEF Order, Finite, Below
    <2> QED BY <1>1, <1>2, WFMin
<1>4. PICK i \in Some : x = 1..i
    OBVIOUS
<1>5. ASSUME NEW k \in Some, k < i PROVE FALSE
    <2>1. 1..k \subseteq 1..i /\ 1..k # 1..i /\ 1..k \in SUBSET Nat /\ 1..i \in SUBSET Nat
        BY <1>5
    <2>2. <<1..k, 1..i>> \in Order
        BY <2>1 DEF StrictSubsetOrdering
    <2> QED BY <2>2, <1>3, <1>4
<1> QED BY <1>5

-----------------------------------------------------------------------------
LEMMA IdleIs ==
    /\ Idle = [step |-> Idle.step, formats |-> Idle.formats, ended |-> Idle.ended,
               refs |-> Idle.refs, written |-> Idle.written, todo |-> Idle.todo,
               told |-> Idle.told, error |-> Idle.error]
    /\ Idle.step = "start" /\ Idle.formats = NotSaid /\ Idle.refs = {}
    /\ Idle.written = <<>> /\ Idle.todo = {} /\ Idle.told = 0 /\ Idle.error = Nothing
    /\ <<>> \in Seq(ByTheRun) /\ Len(<<>>) = 0 /\ 0 \in 0..Len(<<>>)
    BY DEF Idle

LEMMA DeclareType ==
    ASSUME declared \subseteq Facts, NEW o, Declare(o),
           o.path \in Files \cup Reporters, o.format \in Reporters \cup {"file"},
           o.role \in {"main", "alternate", "annex"}, o.by \in Steps \cup {"the run"}
    PROVE  declared' \subseteq Facts
<1> DEFINE absent == o.path \notin disk'
           fact == [path |-> o.path, format |-> o.format, role |-> o.role, by |-> o.by, missing |-> absent]
<1>1. absent \in BOOLEAN
    OBVIOUS
<1>2. declared' \subseteq declared \cup {fact}
    BY DEF Declare
<1>3. ASSUME NEW b \in BOOLEAN
      PROVE [path |-> o.path, format |-> o.format, role |-> o.role, by |-> o.by, missing |-> b] \in Facts
    BY DEF Facts
<1>4. fact \in Facts
    <2> HIDE DEF absent
    <2> QED BY <1>1, <1>3
<1> QED BY <1>2, <1>4

LEMMA FormatType ==
    ASSUME state.formats \in Seq(DOMAIN Classes), NEW i \in DOMAIN state.formats
    PROVE  Format(i) \in Reporters
<1>1. state.formats[i] \in DOMAIN Classes
    OBVIOUS
<1> QED BY <1>1 DEF Format, Reporters

LEMMA AppendType ==
    ASSUME NEW Of, NEW s \in Seq(Of), NEW x \in Of, NEW n \in 0..Len(s)
    PROVE  /\ Append(s, x) \in Seq(Of) /\ n \in 0..Len(Append(s, x))
           /\ DOMAIN Append(s, x) = DOMAIN s \cup {Len(s) + 1}
           /\ \A k \in DOMAIN s : Append(s, x)[k] = s[k]
           /\ Append(s, x)[Len(s) + 1] = x
    OBVIOUS

LEMMA ToldType ==
    ASSUME NEW Of, NEW s \in Seq(Of), NEW n \in 0..Len(s), n < Len(s)
    PROVE  s[n + 1] \in Of /\ n + 1 \in 0..Len(s) /\ n + 1 \in DOMAIN s
    OBVIOUS

\* What was written, and how much of it was told.
LEMMA WhatIsWritten ==
    ASSUME IInv
    PROVE  /\ work.written \in Seq(ByTheRun) /\ work.told \in 0..Len(work.written)
           /\ Len(work.written) \in Nat /\ work.told \in Nat /\ work.told <= Len(work.written)
           /\ DOMAIN work.written = 1..Len(work.written)
           /\ 1..work.told \subseteq DOMAIN work.written
           /\ \A k \in DOMAIN work.written : work.written[k] \in ByTheRun
           /\ work.step # "declare" => work.told = 0
           /\ work.written = <<>> => work.told = 0 /\ DOMAIN work.written = {}
<1>1. work.written \in Seq(ByTheRun) /\ work.told \in 0..Len(work.written)
    BY DEF IInv, Typed
<1>2. work.step \in {"start", "said"} => work.written = <<>>
    BY DEF IInv, Writing
<1>3. work.step = "write" => work.told = 0
    BY DEF IInv, Writing
<1>4. work.step \in {"start", "said", "write", "declare"}
    BY DEF IInv, Typed
<1> QED BY <1>1, <1>2, <1>3, <1>4

LEMMA NextTyped ==
    ASSUME IInv, [Next]_vars
    PROVE  Typed'
<1> USE DEF IInv, Typed, At, NoResult, Nothing
<1>1. ASSUME NEW asked \in Requests, Create(asked) PROVE Typed'
    BY <1>1 DEF Create
<1>2. ASSUME NEW reply \in Replies, Decide(reply) PROVE Typed'
    BY <1>2 DEF Decide
<1>3. ASSUME DecideSaved PROVE Typed'
    BY <1>3, IdleIs DEF DecideSaved
<1>4. ASSUME NEW s \in Steps, NEW file \in Files \cup {Nothing}, NEW left \in BOOLEAN, StepEnds(s, file, left) PROVE Typed'
    <2>1. declared' \subseteq Facts
        BY <1>4, DeclareType DEF StepEnds
    <2> QED BY <1>4, <2>1 DEF StepEnds
<1>5. ASSUME StepsSaved PROVE Typed'
    BY <1>5, IdleIs DEF StepsSaved
<1>6. ASSUME NEW kind \in {"answered", "unanswered", "failed"}, Answer(kind) PROVE Typed'
    BY <1>6 DEF Answer
<1>7. ASSUME NEW i \in work.todo, WriteOne(i) PROVE Typed'
    <2>1. state.formats \in Seq(DOMAIN Classes) /\ i \in DOMAIN state.formats
        BY <1>7 DEF WriteOne, Writing, Composed, Compose
    <2>2. Output(Format(i), work.written) \in ByTheRun
        BY <2>1, FormatType DEF Output, ByTheRun
    <2>3. work'.written = Append(work.written, Output(Format(i), work.written)) /\ work'.told = work.told
        BY <1>7 DEF WriteOne
    <2>4. work'.written \in Seq(ByTheRun) /\ work'.told \in 0..Len(work'.written)
        <3> HIDE DEF IInv, Typed, At
        <3> QED BY <2>2, <2>3, WhatIsWritten, AppendType
    <2> QED BY <1>7, <2>4 DEF WriteOne
<1>8. ASSUME Compositions PROVE Typed'
    BY <1>8 DEF Compositions
<1>9. ASSUME WriteFails PROVE Typed'
    BY <1>9 DEF WriteFails
<1>10. ASSUME WritesEnd PROVE Typed'
    BY <1>10 DEF WritesEnd
<1>11. ASSUME DeclareOne PROVE Typed'
    <2>1. work.written[work.told + 1] \in ByTheRun /\ work.told + 1 \in 0..Len(work.written)
        BY <1>11, ToldType DEF DeclareOne
    <2>2. declared' \subseteq Facts
        BY <1>11, <2>1, DeclareType DEF DeclareOne, ByTheRun
    <2> QED BY <1>11, <2>1, <2>2 DEF DeclareOne
<1>12. ASSUME End PROVE Typed'
    BY <1>12 DEF End
<1>13. ASSUME NEW as \in {"cancelled", "failed"}, Stop(as) PROVE Typed'
    BY <1>13, IdleIs DEF Stop
<1>14. ASSUME Continue PROVE Typed'
    BY <1>14 DEF Continue
<1>15. ASSUME Vanish PROVE Typed'
    BY <1>15 DEF Vanish
<1>16. ASSUME UNCHANGED vars PROVE Typed'
    BY <1>16 DEF vars
<1> QED
    BY <1>1, <1>2, <1>3, <1>4, <1>5, <1>6, <1>7, <1>8, <1>9, <1>10, <1>11, <1>12, <1>13, <1>14, <1>15, <1>16 DEF Next

LEMMA NextSettling ==
    ASSUME IInv, [Next]_vars
    PROVE  Settling'
<1> USE DEF IInv, Typed, Settling, At, NoResult, AskedFormats
<1>1. ASSUME NEW asked \in Requests, Create(asked) PROVE Settling'
    <2>1. Wanted(asked) \notin NoFormats /\ ~Refused(asked) =>
            Wanted(asked) \in Seq(DOMAIN Classes) \ {<<>>}
        BY DEF Wanted, Refused, Composable, NoFormats
    <2> QED BY ZenonT(30), <1>1, <2>1 DEF Create
<1>2. ASSUME NEW reply \in Replies, Decide(reply) PROVE Settling'
    BY <1>2 DEF Decide
<1>3. ASSUME DecideSaved PROVE Settling'
    BY ZenonT(30), <1>3, IdleIs DEF DecideSaved
<1>4. ASSUME NEW s \in Steps, NEW file \in Files \cup {Nothing}, NEW left \in BOOLEAN, StepEnds(s, file, left) PROVE Settling'
    BY <1>4 DEF StepEnds
<1>5. ASSUME StepsSaved PROVE Settling'
    BY <1>5, IdleIs DEF StepsSaved
<1>6. ASSUME NEW kind \in {"answered", "unanswered", "failed"}, Answer(kind) PROVE Settling'
    BY ZenonT(30), <1>6 DEF Answer
<1>7. ASSUME NEW i \in work.todo, WriteOne(i) PROVE Settling'
    BY <1>7 DEF WriteOne
<1>8. ASSUME Compositions PROVE Settling'
    BY <1>8 DEF Compositions
<1>9. ASSUME WriteFails PROVE Settling'
    BY <1>9 DEF WriteFails
<1>10. ASSUME WritesEnd PROVE Settling'
    BY <1>10 DEF WritesEnd
<1>11. ASSUME DeclareOne PROVE Settling'
    BY <1>11 DEF DeclareOne
<1>12. ASSUME End PROVE Settling'
    BY <1>12 DEF End
<1>13. ASSUME NEW as \in {"cancelled", "failed"}, Stop(as) PROVE Settling'
    BY <1>13, IdleIs DEF Stop, StopFalls
<1>14. ASSUME Continue PROVE Settling'
    BY <1>14 DEF Continue
<1>15. ASSUME Vanish PROVE Settling'
    BY <1>15 DEF Vanish
<1>16. ASSUME UNCHANGED vars PROVE Settling'
    BY <1>16 DEF vars
<1> QED
    BY <1>1, <1>2, <1>3, <1>4, <1>5, <1>6, <1>7, <1>8, <1>9, <1>10, <1>11, <1>12, <1>13, <1>14, <1>15, <1>16 DEF Next

LEMMA WritingIdle ==
    ASSUME work'.step \in {"start", "said"}, work'.written = <<>>, work'.todo = {},
           work'.error = Nothing
    PROVE  Writing'
    BY DEF Writing, Composed

LEMMA WritingKeeps ==
    ASSUME Writing, work'.step = work.step, work'.written = work.written,
           work'.todo = work.todo, work'.error = work.error,
           work'.step = "write" => work'.told = work.told,
           state'.formats = state.formats, state'.node = state.node,
           job'.status = job.status \/ (work.step # "write" /\ job'.status = "done"),
           disk \subseteq disk' \/ job'.status = "done"
    PROVE  Writing'
<1>1. Composed' = Composed /\ PathsWritten' = PathsWritten
    BY DEF Composed, PathsWritten
<1>2. \A i : Format(i)' = Format(i)
    BY DEF Format
<1>3. Compose(state.formats)' = Compose(state.formats)
    BY DEF Compose
<1> QED BY <1>1, <1>2, <1>3 DEF Writing

LEMMA TellingKeeps ==
    ASSUME Telling, UNCHANGED declared, work'.told = work.told,
           \A k \in 1..work.told : work'.written[k] = work.written[k],
           state'.refs \cup work'.refs \subseteq state.refs \cup work.refs,
           job'.status \notin {"running", "done"} => work.told = 0
    PROVE  Telling'
<1>1. \A k \in 1..work.told : Fact(work.written[k], FALSE)' = Fact(work.written[k], FALSE)
    BY DEF Fact
<1>2. 1..work'.told = 1..work.told
    OBVIOUS
<1>3. \A d \in declared' : d.by # "the run" => d.role = "annex"
    BY DEF Telling
<1>4. ASSUME NEW d \in declared', d.by = "the run"
      PROVE  \E k \in 1..work'.told : d = Fact(work.written[k], FALSE)'
    <2>1. PICK k \in 1..work.told : d = Fact(work.written[k], FALSE)
        BY <1>4 DEF Telling
    <2> QED BY <2>1, <1>1, <1>2
<1>5. ASSUME NEW k \in 1..work'.told PROVE Fact(work.written[k], FALSE)' \in declared'
    BY <1>1, <1>2 DEF Telling
<1>6. /\ state'.refs \cup work'.refs \subseteq {d.path : d \in declared'}
      /\ job'.status \notin {"running", "done"} => work'.told = 0
    BY DEF Telling
<1> QED BY <1>3, <1>4, <1>5, <1>6 DEF Telling

LEMMA NextWriting ==
    ASSUME IInv, [Next]_vars
    PROVE  Writing'
<1>1. ASSUME NEW asked \in Requests, Create(asked) PROVE Writing'
    BY <1>1, WritingIdle DEF IInv, Typed, Settling, Writing, At, Create
<1>2. ASSUME NEW reply \in Replies, Decide(reply) PROVE Writing'
    BY <1>2, WritingIdle DEF IInv, Typed, Settling, Writing, At, Decide
<1>3. ASSUME DecideSaved PROVE Writing'
    BY <1>3, IdleIs, WritingIdle DEF IInv, Typed, Settling, At, DecideSaved
<1>4. ASSUME NEW s \in Steps, NEW file \in Files \cup {Nothing}, NEW left \in BOOLEAN, StepEnds(s, file, left) PROVE Writing'
    BY <1>4, WritingIdle DEF IInv, Typed, Settling, Writing, At, StepEnds
<1>5. ASSUME StepsSaved PROVE Writing'
    BY <1>5, IdleIs, WritingIdle DEF IInv, Typed, Settling, At, StepsSaved
<1>6. ASSUME NEW kind \in {"answered", "unanswered", "failed"}, Answer(kind) PROVE Writing'
    BY <1>6, WritingIdle DEF IInv, Typed, Settling, Writing, At, Answer
<1>7. ASSUME NEW i \in work.todo, WriteOne(i) PROVE Writing'
    <2> DEFINE file == Output(Format(i), work.written)
               names == state.formats
    <2>1. /\ work.step = "write" /\ work.error = Nothing /\ work.told = 0 /\ job.status = "running"
          /\ names \in Seq(DOMAIN Classes) \ {<<>>} /\ work.todo \subseteq Compose(names)
          /\ PathsWritten = {Format(k) : k \in Compose(names) \ work.todo}
          /\ work.written = <<>> => work.todo = Compose(names)
          /\ work.written # <<>> => work.written[1].path = Format(1)
          /\ state.node = "write" /\ names \notin NoFormats
          /\ work.written \in Seq(ByTheRun)
        BY <1>7 DEF WriteOne, At, IInv, Typed, Writing, Composed
    <2>2. /\ work'.written = Append(work.written, file) /\ work'.todo = work.todo \ {i}
          /\ work'.step = "write" /\ work'.error = Nothing /\ work'.told = 0
          /\ disk' = disk \cup {Format(i)} /\ UNCHANGED <<state, job>>
        BY <1>7, <2>1 DEF WriteOne, IInv, Typed, At
    <2>3. file.path = Format(i) /\ file.format = Format(i)
          /\ file.role = (IF work.written = <<>> THEN "main" ELSE "alternate")
        BY DEF Output
    <2>4. i \in Compose(names) /\ i \in DOMAIN names /\ Format(i) \in Reporters /\ file \in ByTheRun
        BY <2>1, FormatType DEF Compose, Output, ByTheRun
    <2>5. \A k \in Compose(names) : Format(k) = Format(i) => k = i
        <3> SUFFICES ASSUME NEW k \in Compose(names), Format(k) = Format(i), k # i PROVE FALSE
            OBVIOUS
        <3>1. k \in Nat \ {0} /\ i \in Nat \ {0} /\ k \in DOMAIN names
            BY <2>1, <2>4 DEF Compose
        <3>2. CASE k < i
            BY <3>1, <3>2, <2>4 DEF Compose, Format
        <3>3. CASE i < k
            BY <3>1, <3>3, <2>4 DEF Compose, Format
        <3> QED BY <3>1, <3>2, <3>3
    <2>6. Format(i) \notin PathsWritten
        BY <2>1, <2>5
    <2>7. /\ DOMAIN work'.written = DOMAIN work.written \cup {Len(work.written) + 1}
          /\ \A k \in DOMAIN work.written : work'.written[k] = work.written[k]
          /\ work'.written[Len(work.written) + 1] = file
          /\ Len(work.written) + 1 \notin DOMAIN work.written
          /\ work.written = <<>> <=> Len(work.written) + 1 = 1
          /\ work'.written # <<>>
        BY <2>1, <2>2, <2>4, AppendType
    <2>8. PathsWritten' = PathsWritten \cup {Format(i)}
        BY <2>7, <2>3 DEF PathsWritten
    <2>9. \A k : Format(k)' = Format(k)
        BY <2>2 DEF Format
    <2>10. Compose(names)' = Compose(names)
        BY <2>2 DEF Compose
    <2>11. PathsWritten' = {Format(k) : k \in Compose(names) \ work'.todo}
        BY <2>1, <2>2, <2>4, <2>8
    <2>12. work'.written[1].path = Format(1)
        <3>1. CASE work.written = <<>>
            <4>1. 1 \in Compose(names)
                BY <2>1 DEF Compose
            <4>2. i <= 1 /\ i \in Nat \ {0}
                BY <1>7, <4>1, <3>1, <2>1, <2>4 DEF WriteOne, IsNext
            <4> QED BY <4>2, <3>1, <2>7, <2>3
        <3>2. CASE work.written # <<>>
            <4>1. 1 \in DOMAIN work.written
                BY <3>2, <2>1
            <4> QED BY <4>1, <3>2, <2>1, <2>7
        <3> QED BY <3>1, <3>2
    <2>13. \A k \in DOMAIN work'.written :
             /\ work'.written[k].format = work'.written[k].path
             /\ work'.written[k].role = (IF k = 1 THEN "main" ELSE "alternate")
             /\ work'.written[k].path \in disk'
        <3>1. \A k \in DOMAIN work.written :
                /\ work.written[k].format = work.written[k].path
                /\ work.written[k].role = (IF k = 1 THEN "main" ELSE "alternate")
                /\ work.written[k].path \in disk
            BY <2>1 DEF IInv, Writing
        <3> QED BY <3>1, <2>2, <2>3, <2>7
    <2>14. \A j, k \in DOMAIN work'.written :
             work'.written[j].path = work'.written[k].path => j = k
        <3>1. \A j, k \in DOMAIN work.written : work.written[j].path = work.written[k].path => j = k
            BY DEF IInv, Writing
        <3>2. \A k \in DOMAIN work.written : work.written[k].path # file.path
            BY <2>3, <2>6 DEF PathsWritten
        <3> QED BY <3>1, <3>2, <2>7
    <2> HIDE DEF file
    <2> QED BY <2>1, <2>2, <2>7, <2>9, <2>10, <2>11, <2>12, <2>13, <2>14 DEF Writing
<1>8. ASSUME Compositions PROVE Writing'
    <2>1. /\ work.written = <<>> /\ work.told = 0 /\ work.error = Nothing
          /\ state.node = "write" /\ state.formats \notin NoFormats /\ job.status = "running"
        BY <1>8, WhatIsWritten DEF Compositions, At, NoFormats, IInv, Writing
    <2>2. state' = state /\ job' = job /\ disk' = disk
        BY <1>8 DEF Compositions
    <2>3. CASE Composable(state.formats)
        <3>1. /\ work'.step = "write" /\ work'.todo = Compose(state.formats) /\ work'.error = Nothing
              /\ work'.written = <<>> /\ work'.told = 0
            BY <1>8, <2>1, <2>3 DEF Compositions, IInv, Typed
        <3>2. state.formats \in Seq(DOMAIN Classes) \ {<<>>}
            BY <2>3 DEF Composable
        <3>3. DOMAIN work'.written = {} /\ PathsWritten' = {}
            BY <3>1 DEF PathsWritten
        <3>4. Compose(state.formats)' = Compose(state.formats)
            BY <2>2 DEF Compose
        <3> QED BY <2>1, <2>2, <3>1, <3>2, <3>3, <3>4 DEF Writing
    <2>4. CASE ~Composable(state.formats)
        <3>1. /\ work'.step = "declare" /\ work'.error = "write failed" /\ work'.error # Nothing
              /\ work'.written = <<>> /\ DOMAIN work'.written = {}
            BY <1>8, <2>1, <2>4 DEF Compositions, IInv, Typed, Nothing
        <3> QED BY <2>1, <2>2, <3>1 DEF Writing, Composed
    <2> QED BY <2>3, <2>4
<1>9. ASSUME WriteFails PROVE Writing'
    <2>1. /\ work'.written = work.written /\ work'.todo = work.todo
          /\ work'.error = "write failed" /\ work'.error # Nothing
          /\ work'.step = "declare" /\ UNCHANGED <<state, job, disk>>
        BY <1>9 DEF WriteFails, IInv, Typed, Nothing
    <2>2. work.step = "write" /\ Composed
        BY <1>9 DEF WriteFails, At, Composed
    <2>3. PathsWritten' = PathsWritten /\ Compose(state.formats)' = Compose(state.formats)
        BY <2>1 DEF PathsWritten, Compose
    <2>4. \A i : Format(i)' = Format(i)
        BY <2>1 DEF Format
    <2>5. /\ state.node = "write" /\ state.formats \notin NoFormats /\ job.status = "running"
          /\ state.formats \in Seq(DOMAIN Classes) \ {<<>>}
          /\ work.todo \subseteq Compose(state.formats)
          /\ PathsWritten = {Format(i) : i \in Compose(state.formats) \ work.todo}
          /\ work.written = <<>> => work.todo = Compose(state.formats)
          /\ work.written # <<>> => work.written[1].path = Format(1)
        BY <2>2 DEF IInv, Writing
    <2>6. /\ \A k \in DOMAIN work.written :
               /\ work.written[k].format = work.written[k].path
               /\ work.written[k].role = (IF k = 1 THEN "main" ELSE "alternate")
               /\ job.status = "running" => work.written[k].path \in disk
          /\ \A i, k \in DOMAIN work.written : work.written[i].path = work.written[k].path => i = k
        BY DEF IInv, Writing
    <2>7. PathsWritten' = {Format(i)' : i \in Compose(state.formats)' \ work'.todo}
        BY <2>1, <2>3, <2>4, <2>5
    <2>8. /\ work'.todo \subseteq Compose(state.formats)'
          /\ work'.written = <<>> => work'.todo = Compose(state.formats)'
          /\ work'.written # <<>> => work'.written[1].path = Format(1)'
        BY <2>1, <2>3, <2>4, <2>5
    <2>9. /\ state'.node = "write" /\ state'.formats \notin NoFormats /\ job'.status = "running"
          /\ state'.formats \in Seq(DOMAIN Classes) \ {<<>>}
        BY <2>1, <2>5
    <2>10. /\ \A k \in DOMAIN work'.written :
                /\ work'.written[k].format = work'.written[k].path
                /\ work'.written[k].role = (IF k = 1 THEN "main" ELSE "alternate")
                /\ job'.status = "running" => work'.written[k].path \in disk'
           /\ \A k, l \in DOMAIN work'.written : work'.written[k].path = work'.written[l].path => k = l
        BY ZenonT(30), <2>1, <2>6
    <2> QED BY <2>1, <2>7, <2>8, <2>9, <2>10 DEF Writing
<1>10. ASSUME WritesEnd PROVE Writing'
    <2>1. /\ work'.written = work.written /\ work'.todo = work.todo /\ work.todo = {}
          /\ work'.error = work.error
          /\ work'.step = "declare" /\ UNCHANGED <<state, job, disk>>
        BY <1>10 DEF WritesEnd, IInv, Typed
    <2>2. work.step = "write" /\ Composed
        BY <1>10 DEF WritesEnd, At, Composed
    <2>3. PathsWritten' = PathsWritten /\ Compose(state.formats)' = Compose(state.formats)
        BY <2>1 DEF PathsWritten, Compose
    <2>4. \A i : Format(i)' = Format(i)
        BY <2>1 DEF Format
    <2>5. /\ state.node = "write" /\ state.formats \notin NoFormats /\ job.status = "running"
          /\ state.formats \in Seq(DOMAIN Classes) \ {<<>>}
          /\ work.todo \subseteq Compose(state.formats)
          /\ PathsWritten = {Format(i) : i \in Compose(state.formats) \ work.todo}
          /\ work.written = <<>> => work.todo = Compose(state.formats)
          /\ work.written # <<>> => work.written[1].path = Format(1)
        BY <2>2 DEF IInv, Writing
    <2>6. /\ \A k \in DOMAIN work.written :
               /\ work.written[k].format = work.written[k].path
               /\ work.written[k].role = (IF k = 1 THEN "main" ELSE "alternate")
               /\ job.status = "running" => work.written[k].path \in disk
          /\ \A i, k \in DOMAIN work.written : work.written[i].path = work.written[k].path => i = k
        BY DEF IInv, Writing
    <2>7. PathsWritten' = {Format(i)' : i \in Compose(state.formats)' \ work'.todo}
        BY <2>1, <2>3, <2>4, <2>5
    <2> QED BY <2>1, <2>3, <2>4, <2>5, <2>6, <2>7 DEF Writing
<1>11. ASSUME DeclareOne PROVE Writing'
    <2> USE DEF IInv, Typed, Writing, DeclareOne, At
    <2>1. work'.written = work.written /\ work'.todo = work.todo /\ work'.error = work.error /\ work'.step = work.step
        BY <1>11
    <2> QED BY <1>11, <2>1, WritingKeeps
<1>12. ASSUME End PROVE Writing'
    BY <1>12, WritingKeeps DEF IInv, Typed, Writing, At, End
<1>13. ASSUME NEW as \in {"cancelled", "failed"}, Stop(as) PROVE Writing'
    BY <1>13, IdleIs, WritingIdle DEF IInv, Typed, Settling, At, Stop
<1>14. ASSUME Continue PROVE Writing'
    <2>1. job.status \in {"cancelled", "failed"} /\ work' = work
        BY <1>14 DEF Continue, Resumable
    <2>2. work.step \in {"start", "said"}
        BY <2>1 DEF IInv, Typed, Writing
    <2> QED BY <2>1, <2>2, WritingIdle DEF IInv, Writing
<1>15. ASSUME Vanish PROVE Writing'
    BY <1>15, WritingKeeps DEF IInv, Typed, Writing, At, Vanish
<1>16. ASSUME UNCHANGED vars PROVE Writing'
    BY <1>16, WritingKeeps DEF IInv, Typed, Writing, At, vars
<1> QED
    BY <1>1, <1>2, <1>3, <1>4, <1>5, <1>6, <1>7, <1>8, <1>9, <1>10, <1>11, <1>12, <1>13, <1>14, <1>15, <1>16 DEF Next

LEMMA NextTelling ==
    ASSUME IInv, Telling, [Next]_vars,
           ~MayStopLate \/ (stops \in Nat /\ stops' = 0)
    PROVE  Telling'
<1>1. ASSUME NEW asked \in Requests, Create(asked) PROVE Telling'
    BY ZenonT(30), <1>1, TellingKeeps DEF IInv, Typed, Settling, Writing, Telling, At, Create
<1>2. ASSUME NEW reply \in Replies, Decide(reply) PROVE Telling'
    BY <1>2, TellingKeeps DEF IInv, Typed, Settling, Writing, Telling, At, Decide
<1>3. ASSUME DecideSaved PROVE Telling'
    <2>1. work.told = 0 /\ state'.refs = state.refs /\ work' = Idle /\ UNCHANGED <<declared, job>>
        BY <1>3, WhatIsWritten DEF DecideSaved, At, IInv, Typed
    <2> QED BY <2>1, IdleIs, TellingKeeps DEF IInv
<1>4. ASSUME NEW s \in Steps, NEW file \in Files \cup {Nothing}, NEW left \in BOOLEAN, StepEnds(s, file, left) PROVE Telling'
    <2>1. /\ s # "the run" /\ work'.told = work.told /\ work'.written = work.written
          /\ work'.refs = work.refs \cup ({file} \ {Nothing})
          /\ state'.refs = state.refs /\ job'.status = job.status
        BY <1>4, RunIsNoStep DEF StepEnds, IInv, Typed, At
    <2>2. CASE file = Nothing
        BY <1>4, <2>1, <2>2, TellingKeeps DEF StepEnds, IInv, Telling
    <2>3. CASE file # Nothing
        <3>1. /\ \A d \in declared' : d \in declared \/ (d.by = s /\ d.role = "annex" /\ d.path = file)
              /\ \A d \in declared : d.by = "the run" => d \in declared'
              /\ \A d \in declared : \E e \in declared' : e.path = d.path
              /\ \E e \in declared' : e.path = file
            <4> DEFINE fact == [path |-> file, format |-> "file", role |-> "annex", by |-> s,
                                missing |-> file \notin disk']
            <4>1. declared' = {d \in declared : d.by # s \/ d.path # file} \cup {fact}
                BY <1>4, <2>3 DEF StepEnds, Declare
            <4>2. fact.by = s /\ fact.role = "annex" /\ fact.path = file
                OBVIOUS
            <4> HIDE DEF fact
            <4>3. ASSUME NEW d \in declared PROVE \E e \in declared' : e.path = d.path
                BY <4>1, <4>2
            <4>4. ASSUME NEW d \in declared, d.by = "the run" PROVE d \in declared'
                BY <2>1, <4>1, <4>4
            <4>5. \E e \in declared' : e.path = file
                BY <4>1, <4>2
            <4>6. \A d \in declared' : d \in declared \/ (d.by = s /\ d.role = "annex" /\ d.path = file)
                BY <4>1, <4>2
            <4> QED BY <4>3, <4>4, <4>5, <4>6
        <3>2. \A k \in 1..work.told : Fact(work.written[k], FALSE)' = Fact(work.written[k], FALSE)
            BY <2>1 DEF Fact
        <3>3. \A k : Fact(work.written[k], FALSE).by = work.written[k].by
            BY DEF Fact
        <3>4. \A k \in 1..work.told : work.written[k].by = "the run"
            BY WhatIsWritten DEF ByTheRun
        <3>5. \A k \in 1..work.told : Fact(work.written[k], FALSE) \in declared'
            BY <3>1, <3>3, <3>4 DEF IInv, Telling
        <3>6. \A d \in declared' : d.by = "the run" =>
                \E k \in 1..work.told : d = Fact(work.written[k], FALSE)
            BY <2>1, <3>1 DEF IInv, Telling
        <3>7. \A d \in declared' : d.by # "the run" => d.role = "annex"
            BY <3>1 DEF IInv, Telling
        <3>8. state'.refs \cup work'.refs \subseteq {d.path : d \in declared'}
            <4>1. state.refs \cup work.refs \subseteq {d.path : d \in declared}
                BY DEF IInv, Telling
            <4>2. ASSUME NEW name \in state'.refs \cup work'.refs PROVE \E e \in declared' : e.path = name
                BY <2>1, <3>1, <4>1
            <4> QED BY <4>2
        <3> QED BY <2>1, <3>2, <3>5, <3>6, <3>7, <3>8 DEF IInv, Telling
    <2> QED BY <2>2, <2>3
<1>5. ASSUME StepsSaved PROVE Telling'
    <2>1. /\ work.told = 0 /\ state'.refs = state.refs \cup work.refs /\ work' = Idle
          /\ UNCHANGED <<declared, job>>
        BY <1>5, WhatIsWritten DEF StepsSaved, At, IInv, Typed
    <2> QED BY <2>1, IdleIs, TellingKeeps DEF IInv
<1>6. ASSUME NEW kind \in {"answered", "unanswered", "failed"}, Answer(kind) PROVE Telling'
    <2>1. work.told = 0 /\ state'.refs = state.refs /\ UNCHANGED <<declared, work>>
        BY <1>6, WhatIsWritten DEF Answer, At, IInv, Typed
    <2> QED BY <2>1, TellingKeeps DEF IInv
<1>7. ASSUME NEW i \in work.todo, WriteOne(i) PROVE Telling'
    <2>1. /\ work.told = 0 /\ work'.told = 0 /\ work'.refs = work.refs
          /\ job.status = "running" /\ UNCHANGED <<declared, job, state>>
        BY <1>7, WhatIsWritten DEF WriteOne, At, IInv, Typed
    <2> QED BY <2>1, TellingKeeps DEF IInv
<1>8. ASSUME Compositions PROVE Telling'
    BY <1>8, TellingKeeps DEF IInv, Typed, Settling, Writing, Telling, At, Compositions
<1>9. ASSUME WriteFails PROVE Telling'
    BY <1>9, TellingKeeps DEF IInv, Typed, Settling, Writing, Telling, At, WriteFails
<1>10. ASSUME WritesEnd PROVE Telling'
    BY <1>10, TellingKeeps DEF IInv, Typed, Settling, Writing, Telling, At, WritesEnd
<1>11. ASSUME DeclareOne PROVE Telling'
    <2> DEFINE next == work.told + 1
               file == work.written[next]
    <2>1. /\ work.step = "declare" /\ job.status = "running" /\ work.told < Len(work.written)
          /\ work'.told = next /\ work'.written = work.written /\ work'.refs = work.refs
          /\ UNCHANGED <<state, job, disk>>
        BY <1>11 DEF DeclareOne, At, IInv, Typed
    <2>2. file \in ByTheRun /\ next \in DOMAIN work.written /\ work.told \in Nat
        BY <2>1, WhatIsWritten
    <2>3. file.path \in disk' /\ file.by = "the run" /\ file.role # "annex"
        BY <2>1, <2>2 DEF IInv, Writing, ByTheRun
    <2>4. declared' = {d \in declared : d.by # "the run" \/ d.path # file.path} \cup {Fact(file, FALSE)}
        BY <1>11, <2>3 DEF DeclareOne, Declare, Fact
    <2>5. 1..next = (1..work.told) \cup {next} /\ 1..next \subseteq DOMAIN work.written
        BY <2>1, <2>2, WhatIsWritten
    <2>6. \A k \in 1..next : Fact(work.written[k], FALSE)' = Fact(work.written[k], FALSE)
        BY <2>1 DEF Fact
    <2>7. \A k \in 1..work.told : work.written[k].path # file.path
        BY <2>2, <2>5 DEF IInv, Writing
    <2>8. \A k \in 1..work.told : Fact(work.written[k], FALSE) \in declared'
        BY <2>4, <2>7 DEF IInv, Telling, Fact
    <2>9. \A d \in declared' : d.by = "the run" => \E k \in 1..next : d = Fact(work.written[k], FALSE)
        BY <2>4, <2>5 DEF IInv, Telling
    <2>10. {d.path : d \in declared} \subseteq {d.path : d \in declared'}
        <3>1. Fact(file, FALSE).path = file.path
            BY DEF Fact
        <3> HIDE DEF file
        <3> QED BY <2>4, <3>1
    <2>11. \A d \in declared' : d.by # "the run" => d.role = "annex"
        <3>1. Fact(file, FALSE).by = "the run"
            BY <2>3 DEF Fact
        <3> HIDE DEF file
        <3> QED BY <2>4, <3>1 DEF IInv, Telling
    <2>12. ASSUME NEW k \in 1..next PROVE Fact(work.written[k], FALSE) \in declared'
        BY <2>4, <2>5, <2>8
    <2>13. state'.refs \cup work'.refs \subseteq {d.path : d \in declared'}
        BY <2>1, <2>10 DEF IInv, Telling
    <2> HIDE DEF file, next
    <2>14. ASSUME NEW d \in declared', d.by = "the run"
           PROVE  \E k \in 1..work'.told : d = Fact(work.written[k], FALSE)'
        BY <2>1, <2>6, <2>9, <2>14
    <2>15. \A k \in 1..work'.told : Fact(work.written[k], FALSE)' \in declared'
        BY <2>1, <2>6, <2>12
    <2>16. job'.status = "running"
        BY <2>1
    <2> QED BY <2>11, <2>13, <2>14, <2>15, <2>16 DEF Telling
<1>12. ASSUME End PROVE Telling'
    BY <1>12, TellingKeeps DEF IInv, Typed, Settling, Writing, Telling, At, End
<1>13. ASSUME NEW as \in {"cancelled", "failed"}, Stop(as) PROVE Telling'
    <2>1. work.told = 0 /\ work' = Idle /\ UNCHANGED <<declared, state>>
        BY <1>13, WhatIsWritten DEF Stop, StopFalls
    <2> QED BY <2>1, IdleIs, TellingKeeps DEF IInv
<1>14. ASSUME Continue PROVE Telling'
    BY <1>14, TellingKeeps DEF IInv, Typed, Settling, Writing, Telling, At, Continue
<1>15. ASSUME Vanish PROVE Telling'
    BY <1>15, TellingKeeps DEF IInv, Typed, Settling, Writing, Telling, At, Vanish
<1>16. ASSUME UNCHANGED vars PROVE Telling'
    BY <1>16, TellingKeeps DEF IInv, Typed, Settling, Writing, Telling, At, vars
<1> QED
    BY <1>1, <1>2, <1>3, <1>4, <1>5, <1>6, <1>7, <1>8, <1>9, <1>10, <1>11, <1>12, <1>13, <1>14, <1>15, <1>16 DEF Next

LEMMA NextEnding ==
    ASSUME IInv, [Next]_vars
    PROVE  Ending'
<1>1. ASSUME NEW asked \in Requests, Create(asked) PROVE Ending'
    BY <1>1 DEF IInv, Typed, Settling, Writing, Ending, At, Create
<1>2. ASSUME NEW reply \in Replies, Decide(reply) PROVE Ending'
    BY <1>2 DEF IInv, Typed, Settling, Writing, Ending, At, Decide
<1>3. ASSUME DecideSaved PROVE Ending'
    BY <1>3, IdleIs DEF IInv, Typed, Settling, Writing, Ending, At, DecideSaved
<1>4. ASSUME NEW s \in Steps, NEW file \in Files \cup {Nothing}, NEW left \in BOOLEAN, StepEnds(s, file, left) PROVE Ending'
    BY <1>4 DEF IInv, Typed, Settling, Writing, Ending, At, StepEnds
<1>5. ASSUME StepsSaved PROVE Ending'
    BY <1>5, IdleIs DEF IInv, Typed, Settling, Writing, Ending, At, StepsSaved
<1>6. ASSUME NEW kind \in {"answered", "unanswered", "failed"}, Answer(kind) PROVE Ending'
    BY <1>6 DEF IInv, Typed, Settling, Writing, Ending, At, Answer
<1>7. ASSUME NEW i \in work.todo, WriteOne(i) PROVE Ending'
    BY <1>7 DEF IInv, Typed, Settling, Writing, Ending, At, WriteOne
<1>8. ASSUME Compositions PROVE Ending'
    BY <1>8 DEF IInv, Typed, Settling, Writing, Ending, At, Compositions
<1>9. ASSUME WriteFails PROVE Ending'
    BY <1>9 DEF IInv, Typed, Settling, Writing, Ending, At, WriteFails
<1>10. ASSUME WritesEnd PROVE Ending'
    BY <1>10 DEF IInv, Typed, Settling, Writing, Ending, At, WritesEnd
<1>11. ASSUME DeclareOne PROVE Ending'
    BY <1>11 DEF IInv, Typed, Settling, Writing, Ending, At, DeclareOne
<1>12. ASSUME End PROVE Ending'
    BY <1>12 DEF IInv, Typed, Settling, Writing, Ending, At, NoFormats, NoResult, End
<1>13. ASSUME NEW as \in {"cancelled", "failed"}, Stop(as) PROVE Ending'
    BY <1>13, IdleIs DEF IInv, Typed, Settling, Writing, Ending, At, Stop
<1>14. ASSUME Continue PROVE Ending'
    BY <1>14 DEF IInv, Typed, Settling, Writing, Ending, At, Continue
<1>15. ASSUME Vanish PROVE Ending'
    BY <1>15 DEF IInv, Typed, Settling, Writing, Ending, At, Vanish
<1>16. ASSUME UNCHANGED vars PROVE Ending'
    BY <1>16 DEF IInv, Typed, Settling, Writing, Ending, At, vars
<1> QED
    BY <1>1, <1>2, <1>3, <1>4, <1>5, <1>6, <1>7, <1>8, <1>9, <1>10, <1>11, <1>12, <1>13, <1>14, <1>15, <1>16 DEF Next

-----------------------------------------------------------------------------
LEMMA InitIInv == Init => IInv /\ Telling
<1> SUFFICES ASSUME Init PROVE IInv /\ Telling
    OBVIOUS
<1> USE IdleIs DEF Init
<1>1. Typed
    BY DEF Typed, NoResult, Nothing
<1>2. Settling
    BY DEF Settling, NoFormats
<1>3. Writing
    BY DEF Writing, Composed
<1>4. Telling
    BY DEF Telling
<1>5. Ending
    BY DEF Ending
<1> QED BY <1>1, <1>2, <1>3, <1>4, <1>5 DEF IInv

LEMMA NextIInv == IInv /\ [Next]_vars => IInv'
    BY NextTyped, NextSettling, NextWriting, NextEnding DEF IInv

LEMMA IInvHolds == Spec => []IInv
<1>1. Init => IInv
    BY InitIInv
<1>2. IInv /\ [Next]_vars => IInv'
    BY NextIInv
<1> QED BY <1>1, <1>2, PTL DEF Spec

LEMMA TellingHolds ==
    ASSUME ~MayStopLate
    PROVE  Spec => [](IInv /\ Telling)
<1>1. Init => IInv /\ Telling
    BY InitIInv
<1>2. IInv /\ Telling /\ [Next]_vars => IInv' /\ Telling'
    BY NextTelling, NextIInv
<1> QED BY <1>1, <1>2, PTL DEF Spec

-----------------------------------------------------------------------------
LEMMA DecisionKept ==
    ASSUME IInv, [Next]_vars, job.status # "none", ~Expected
    PROVE  ~Expected' \/ (ReadAgain /\ job'.decided # job.decided)
<1> USE DEF IInv, Typed, At
<1>1. ASSUME job'.asked = job.asked, job'.heard = job.heard, job'.decided = job.decided,
             job.status = "done" => job'.status = "done"
      PROVE  ~Expected'
    BY <1>1 DEF Expected, AskedFormats
<1>2. ASSUME NEW asked \in Requests, Create(asked) PROVE ~Expected'
    BY <1>2 DEF Create
<1>3. ASSUME NEW reply \in Replies, Decide(reply)
      PROVE  ~Expected' \/ (ReadAgain /\ job'.decided # job.decided)
    <2>1. /\ state.node = "intent" /\ work.step = "start" /\ job.status = "running"
          /\ job'.asked = job.asked /\ job'.status = "running" /\ job'.heard
        BY <1>3 DEF Decide
    <2>2. CASE job.asked = NotSaid /\ job.heard
        BY <2>1, <2>2 DEF Expected, AskedFormats, ReadAgain
    <2>3. CASE job.asked # NotSaid \/ ~job.heard
        <3>1. job.asked = <<>> \/ (job.asked # NotSaid /\ job.heard)
            BY <2>1, <2>3 DEF Expected
        <3> QED BY <2>1, <3>1, SilenceIsApart DEF Expected, AskedFormats
    <2> QED BY <2>2, <2>3
<1>4. ASSUME NEW s \in Steps, NEW file \in Files \cup {Nothing}, NEW left \in BOOLEAN, StepEnds(s, file, left)
      PROVE ~Expected'
    BY <1>1, <1>4 DEF StepEnds
<1>5. ASSUME NEW kind \in {"answered", "unanswered", "failed"}, Answer(kind) PROVE ~Expected'
    BY <1>1, <1>5 DEF Answer
<1>6. ASSUME NEW i \in work.todo, WriteOne(i) PROVE ~Expected'
    BY <1>1, <1>6 DEF WriteOne
<1>7. CASE DecideSaved \/ StepsSaved \/ Compositions \/ WriteFails \/ WritesEnd \/ DeclareOne \/ Vanish
    BY <1>1, <1>7
    DEF DecideSaved, StepsSaved, Compositions, WriteFails, WritesEnd, DeclareOne, Vanish
<1>8. CASE End
    BY <1>1, <1>8 DEF End
<1>9. ASSUME NEW as \in {"cancelled", "failed"}, Stop(as) PROVE ~Expected'
    BY <1>1, <1>9 DEF Stop
<1>10. CASE Continue
    BY <1>1, <1>10 DEF Continue, Resumable
<1>11. CASE UNCHANGED vars
    BY <1>1, <1>11 DEF vars
<1> QED
    BY <1>2, <1>3, <1>4, <1>5, <1>6, <1>7, <1>8, <1>9, <1>10, <1>11 DEF Next

(* A client told that no file is coming is proved wrong by a second reading  *)
(* of the sentence that comes out otherwise, and by nothing else, wherever a *)
(* run is stopped; and the record says of the formats what the run goes by.  *)
THEOREM DecisionsStay == Spec => DecisionStays
<1>1. IInv /\ [Next]_vars =>
        [(job.status # "none" /\ ~Expected) =>
           ~Expected' \/ (ReadAgain /\ job'.decided # job.decided)]_vars
    BY DecisionKept
<1>2. IInv => (state.node # "intent" => state.formats = AskedFormats)
    BY DEF IInv, Settling
<1> QED BY <1>1, <1>2, IInvHolds, PTL DEF Spec, DecisionStays

-----------------------------------------------------------------------------
(* What an ended job lists.                                                  *)
LEMMA NothingIsNoPath == Nothing \notin Reporters
    BY DEF Nothing, Reporters, Classes

LEMMA Places ==
    /\ Len(Plan) \in Nat
    /\ PlaceOf("the run") = Len(Plan) + 1
    /\ \A by \in Steps \cup {"the run"} : PlaceOf(by) \in Nat
<1>1. Len(Plan) \in Nat /\ DOMAIN Plan = 1..Len(Plan)
    <2>1. PICK n \in Nat : Plan \in [1..n -> Steps]
        BY PlanIsAList
    <2> QED BY <2>1, PlanIsAList
<1>2. PlaceOf("the run") = Len(Plan) + 1
    BY RunIsNoStep DEF PlaceOf
<1>3. ASSUME NEW by \in Steps PROVE PlaceOf(by) \in Nat
    <2>1. \E i \in DOMAIN Plan : Plan[i] = by
        BY DEF Steps, ToSet
    <2>2. (CHOOSE i \in DOMAIN Plan : Plan[i] = by) \in DOMAIN Plan
        BY <2>1
    <2> QED BY <2>2, <1>1 DEF PlaceOf
<1>4. PlaceOf("the run") \in Nat
    <2>1. Len(Plan) + 1 \in Nat
        BY <1>1
    <2> QED BY <1>2, <2>1, Zenon
<1> QED BY <1>1, <1>2, <1>3, <1>4

LEMMA Roles ==
    RoleOrder["main"] = 1 /\ RoleOrder["alternate"] = 2 /\ RoleOrder["annex"] = 3
    BY DEF RoleOrder

LEMMA RanksApart ==
    ASSUME NEW n \in Nat, NEW first \in {1, 2}, NEW place \in Nat
    PROVE  /\ first * (n + 2) + (n + 1) \in Nat
           /\ first * (n + 2) + (n + 1) <= 3 * (n + 2) + place
           /\ ~(3 * (n + 2) + place <= first * (n + 2) + (n + 1))
<1>1. CASE first = 1
    BY <1>1
<1>2. CASE first = 2
    BY <1>2
<1> QED BY <1>1, <1>2

\* What the run writes is listed before what a step leaves.
LEMMA TheRunRanksFirst ==
    ASSUME NEW o \in Facts, o.by = "the run", o.role # "annex"
    PROVE  /\ Rank(o) \in Nat
           /\ \A d \in Facts : d.role = "annex" => Rank(o) <= Rank(d) /\ ~(Rank(d) <= Rank(o))
<1> DEFINE n == Len(Plan)
           first == RoleOrder[o.role]
<1>1. n \in Nat
    BY Places
<1>2. first \in {1, 2}
    BY Roles DEF Facts
<1>3. Rank(o) = first * (n + 2) + (n + 1)
    BY Places, Zenon DEF Rank
<1>4. ASSUME NEW d \in Facts, d.role = "annex"
      PROVE  Rank(o) <= Rank(d) /\ ~(Rank(d) <= Rank(o))
    <2>1. d.by \in Steps \cup {"the run"}
        BY DEF Facts
    <2>2. PlaceOf(d.by) \in Nat
        BY <2>1, Places, Zenon
    <2>3. Rank(d) = 3 * (n + 2) + PlaceOf(d.by)
        BY <1>4, Roles, Zenon DEF Rank
    <2> HIDE DEF n, first
    <2>4. /\ first * (n + 2) + (n + 1) <= 3 * (n + 2) + PlaceOf(d.by)
          /\ ~(3 * (n + 2) + PlaceOf(d.by) <= first * (n + 2) + (n + 1))
        BY <1>1, <1>2, <2>2, RanksApart, Zenon
    <2> QED BY <1>3, <2>3, <2>4, Zenon
<1>5. Rank(o) \in Nat
    <2> HIDE DEF n, first
    <2>1. first * (n + 2) + (n + 1) \in Nat
        BY <1>1, <1>2, Places, RanksApart, Zenon
    <2> QED BY <1>3, <2>1, Zenon
<1> QED BY <1>4, <1>5

\* The files of the run that are listed are those it told.
LEMMA WhatIsListed ==
    ASSUME IInv, Telling
    PROVE  /\ \A k \in 1..work.told : Fact(work.written[k], FALSE) \in Outputs
           /\ \A o \in Outputs : o.role # "annex" =>
                \E k \in 1..work.told : o = Fact(work.written[k], FALSE)
<1>1. ASSUME NEW k \in 1..work.told
      PROVE  Fact(work.written[k], FALSE) \in Outputs
    <2> DEFINE fact == Fact(work.written[k], FALSE)
    <2>1. fact \in There
        BY DEF Telling, There, Fact
    <2>2. k \in DOMAIN work.written /\ work.written[k] \in ByTheRun
        BY WhatIsWritten
    <2>3. fact.by = "the run" /\ fact.role \in {"main", "alternate"} /\ fact.path = work.written[k].path
        BY <2>2 DEF Fact, ByTheRun
    <2>4. fact \in Facts
        BY <2>1 DEF There, IInv, Typed
    <2>5. ASSUME NEW d \in There, d.path = fact.path
          PROVE  Rank(fact) <= Rank(d)
        <3>1. CASE d.by = "the run"
            <4>1. PICK l \in 1..work.told : d = Fact(work.written[l], FALSE)
                BY <3>1 DEF Telling, There
            <4>2. l \in DOMAIN work.written /\ work.written[l].path = work.written[k].path
                BY <2>3, <2>5, <4>1, WhatIsWritten DEF Fact
            <4>3. d = fact
                BY <4>1, <4>2, <2>2 DEF IInv, Writing
            <4>4. Rank(fact) \in Nat
                BY <2>3, <2>4, TheRunRanksFirst
            <4> HIDE DEF fact
            <4> QED BY <4>3, <4>4
        <3>2. CASE d.by # "the run"
            <4>1. d.role = "annex" /\ d \in Facts
                BY <3>2 DEF Telling, There, IInv, Typed
            <4> HIDE DEF fact
            <4> QED BY <4>1, <2>3, <2>4, TheRunRanksFirst
        <3> QED BY <3>1, <3>2
    <2> QED BY <2>1, <2>5 DEF Outputs
<1>2. ASSUME NEW o \in Outputs, o.role # "annex"
      PROVE  \E k \in 1..work.told : o = Fact(work.written[k], FALSE)
    BY <1>2 DEF Outputs, There, Telling
<1> QED BY <1>1, <1>2

\* There is a main file once one file was told, and then it is the first.
LEMMA WhatIsMain ==
    ASSUME IInv, Telling
    PROVE  /\ work.told = 0 => ReportPath = Nothing
           /\ work.told # 0 =>
                /\ ReportPath = work.written[1].path /\ ReportPath # Nothing
                /\ Fact(work.written[1], FALSE) \in Outputs
           /\ \A o \in Outputs : o.role = "main" =>
                work.told # 0 /\ o = Fact(work.written[1], FALSE)
<1>1. work.told \in Nat /\ 1..work.told \subseteq DOMAIN work.written
    BY WhatIsWritten
<1>2. ASSUME NEW o \in Outputs, o.role = "main"
      PROVE  work.told # 0 /\ o = Fact(work.written[1], FALSE)
    <2>1. PICK k \in 1..work.told : o = Fact(work.written[k], FALSE)
        BY <1>2, WhatIsListed
    <2>2. work.written[k].role = "main"
        BY <1>2, <2>1 DEF Fact
    <2>3. k = 1
        BY <2>2, <1>1 DEF IInv, Writing
    <2> QED BY <2>1, <2>3, <1>1
<1>3. ASSUME work.told # 0
      PROVE  /\ Fact(work.written[1], FALSE) \in Outputs
             /\ Fact(work.written[1], FALSE).role = "main"
             /\ Fact(work.written[1], FALSE).path = work.written[1].path
             /\ work.written[1].path # Nothing
    <2>1. 1 \in 1..work.told /\ 1 \in DOMAIN work.written
        BY <1>1, <1>3
    <2>2. work.written[1].role = "main"
        BY <2>1 DEF IInv, Writing
    <2>3. work.written[1].path # Nothing
        BY <2>1, WhatIsWritten, NothingIsNoPath DEF ByTheRun
    <2> QED BY <2>1, <2>2, <2>3, WhatIsListed DEF Fact
<1>4. ASSUME work.told # 0
      PROVE  ReportPath = work.written[1].path /\ ReportPath # Nothing
    <2>1. (CHOOSE o \in Outputs : o.role = "main") = Fact(work.written[1], FALSE)
        BY <1>2, <1>3, <1>4
    <2> QED BY <2>1, <1>3, <1>4 DEF ReportPath
<1>5. work.told = 0 => ReportPath = Nothing
    BY <1>2 DEF ReportPath
<1> QED BY <1>2, <1>3, <1>4, <1>5

\* How a job that is DONE stands.
LEMMA WhenDone ==
    ASSUME IInv, job.status = "done"
    PROVE  /\ state.formats = AskedFormats
           /\ Expected <=> AskedFormats \notin NoFormats
           /\ work.told = Len(work.written)
           /\ ~Expected => work.told = 0 /\ work.written = <<>>
           /\ Expected => work.step = "declare"
           /\ Expected /\ work.error = Nothing => work.told # 0 /\ work.written # <<>> /\ Composed
           /\ Expected /\ work.error # Nothing => "write failed" \in Error
           /\ job.result.documentError = work.error /\ job.result.terminal = state.terminal
           /\ state.terminal \in {"answered", "unanswered"}
<1>1. /\ state.node = "write" /\ state.formats = AskedFormats
      /\ state.terminal \in {"answered", "unanswered"}
      /\ job.result.documentError = work.error /\ job.result.terminal = state.terminal
    <2>1. /\ state.node = "write"
          /\ job.result = [terminal |-> state.terminal, documentError |-> work.error]
        BY DEF IInv, Ending
    <2>2. state.formats = AskedFormats
        BY <2>1 DEF IInv, Settling
    <2>3. state.terminal \in {"answered", "unanswered"}
        BY <2>1 DEF IInv, Typed
    <2> QED BY <2>1, <2>2, <2>3
<1>2. Expected <=> AskedFormats \notin NoFormats
    BY DEF Expected, NoFormats
<1>3. CASE work.step = "start" /\ state.formats \in NoFormats
    <2>1. work.written = <<>> /\ work.told = 0
        BY <1>3, WhatIsWritten DEF IInv, Writing
    <2> QED BY <1>1, <1>2, <1>3, <2>1
<1>4. CASE work.step = "declare" /\ work.told = Len(work.written)
    <2>1. state.formats \notin NoFormats
        BY <1>4 DEF IInv, Writing
    <2>2. ASSUME work.error = Nothing
          PROVE  work.told # 0 /\ work.written # <<>> /\ Composed
        <3>1. /\ Composed /\ work.todo = {} /\ state.formats \in Seq(DOMAIN Classes) \ {<<>>}
              /\ work.written = <<>> => work.todo = Compose(state.formats)
            BY <1>4, <2>2 DEF IInv, Writing, Composed
        <3>2. 1 \in Compose(state.formats)
            BY <3>1 DEF Compose
        <3>3. work.written # <<>>
            BY <3>1, <3>2
        <3>4. Len(work.written) # 0
            BY <3>3, WhatIsWritten
        <3> QED BY <1>4, <3>1, <3>3, <3>4
    <2>3. ASSUME work.error # Nothing PROVE "write failed" \in Error
        <3>1. work.error = "write failed"
            BY <2>3 DEF IInv, Typed
        <3> QED BY <1>1, <2>3, <3>1 DEF Error
    <2> QED BY <1>1, <1>2, <1>4, <2>1, <2>2, <2>3
<1>5. \/ work.step = "start" /\ state.formats \in NoFormats
      \/ work.step = "declare" /\ work.told = Len(work.written)
    BY DEF IInv, Ending
<1> QED BY <1>3, <1>4, <1>5

LEMMA Answered ==
    ASSUME IInv, Telling
    PROVE  AskedIsAnswered
<1>1. DocumentIsAnswered
    BY WhenDone, WhatIsMain DEF DocumentIsAnswered
<1>2. NoReportWithoutAnswer
    <2> SUFFICES ASSUME job.status \in {"cancelled", "failed"} PROVE ReportPath = Nothing
        BY DEF NoReportWithoutAnswer
    <2>1. work.told = 0
        BY DEF Telling
    <2> QED BY <2>1, WhatIsMain
<1> QED BY <1>1, <1>2 DEF AskedIsAnswered

(* A finished job that was to have a document has it, or says that it could  *)
(* not be written; one that was not to have one has none; and a run that was *)
(* stopped or failed leaves nothing that passes for a report, however often  *)
(* it was stopped, where no stop falls between the files' facts and the      *)
(* run's end.                                                                *)
THEOREM AskedIsAlwaysAnswered ==
    ASSUME ~MayStopLate
    PROVE  Spec => []AskedIsAnswered
<1>1. IInv /\ Telling => AskedIsAnswered
    BY Answered
<1> QED BY <1>1, TellingHolds, PTL

-----------------------------------------------------------------------------
(* The readers of an ended job.                                              *)
LEMMA Alike ==
    ASSUME IInv, Telling
    PROVE  SameStory
<1> SUFFICES ASSUME job.status = "done" PROVE SameStory
    BY DEF SameStory
<1>1. IF Expected THEN ReportPath # Nothing \/ "write failed" \in Error ELSE ReportPath = Nothing
    BY Answered DEF AskedIsAnswered, DocumentIsAnswered
<1>2. ReportPath # Nothing => \E o \in Outputs : o.role = "main"
    BY DEF ReportPath
<1>3. Report # Nothing => ReportPath # Nothing
    BY DEF Report
<1>4. "none asked" \in {Delivered, Notice, Shown} =>
        {Delivered, Notice, Shown} \subseteq {"none asked", "unsaid"}
    BY <1>1, <1>3 DEF Delivered, Notice, Shown
<1>5. "file" \in {Delivered, Notice} => Shown \in {"file", "unavailable"} /\ Pane # "none asked"
    <2> SUFFICES ASSUME "file" \in {Delivered, Notice}
                 PROVE  Shown \in {"file", "unavailable"} /\ Pane # "none asked"
        OBVIOUS
    <2>1. ReportPath # Nothing
        BY DEF Delivered, Notice
    <2>2. Expected /\ Outputs # {}
        BY <1>1, <1>2, <2>1
    <2> QED BY <2>2 DEF Shown, Pane
<1>6. Delivered = "unsaid" => job.result.terminal = "unanswered"
    BY <1>1 DEF Delivered
<1>7. \A long \in BOOLEAN : Inline(long) \/ \E o \in Outputs : o.role = "main"
    BY <1>2 DEF Inline
<1>8. Error = {} => Announced \subseteq Present
    <2> SUFFICES ASSUME Error = {}, NEW path \in Announced PROVE path \in Present
        OBVIOUS
    <2>1. There = declared
        BY DEF Error, Missing, There
    <2>2. CASE path \in state.refs
        BY <2>1, <2>2 DEF Telling, Present
    <2>3. CASE path = Format(1) /\ state.formats \notin NoFormats
        <3>1. Expected
            BY <2>3, WhenDone
        <3>2. work.error = Nothing
            BY <3>1, WhenDone
        <3>3. work.told # 0 /\ work.written # <<>> /\ Composed
            BY <3>1, <3>2, WhenDone
        <3>4. work.written[1].path = Format(1)
            BY <3>3 DEF IInv, Writing
        <3>5. Fact(work.written[1], FALSE) \in Outputs
            BY <3>3, WhatIsMain
        <3>6. Fact(work.written[1], FALSE).path = work.written[1].path
            BY DEF Fact
        <3> QED BY <2>3, <3>4, <3>5, <3>6 DEF Outputs, Present
    <2> QED BY <2>2, <2>3 DEF Announced, NoFormats
<1> QED BY <1>4, <1>5, <1>6, <1>7, <1>8 DEF SameStory

(* The turn, the notice, the routes and the pane tell one story of a job     *)
(* that ended: none says there was nothing to write while another shows a    *)
(* file, an answer is said where no file holds it, and the files the answer  *)
(* was written to speak of are there or the job says what went wrong.        *)
THEOREM TheSameStoryIsTold ==
    ASSUME ~MayStopLate
    PROVE  Spec => []SameStory
<1>1. IInv /\ Telling => SameStory
    BY Alike
<1> QED BY <1>1, TellingHolds, PTL

-----------------------------------------------------------------------------
(* The files of the job.                                                     *)
LEMMA EveryFormatIsListed ==
    ASSUME IInv, Telling, job.status = "done", Expected, work.error = Nothing,
           NEW i \in DOMAIN state.formats
    PROVE  \E o \in Outputs : o.path = Format(i) /\ o.format = Format(i) /\ o.role # "annex"
<1>1. /\ work.told = Len(work.written) /\ Composed /\ work.step = "declare"
    BY WhenDone
<1>2. /\ work.todo = {} /\ state.formats \in Seq(DOMAIN Classes) \ {<<>>}
      /\ PathsWritten = {Format(k) : k \in Compose(state.formats) \ work.todo}
    BY <1>1 DEF IInv, Writing
<1> DEFINE alike == {k \in DOMAIN state.formats : Classes[state.formats[k]] = Classes[state.formats[i]]}
<1>3. alike \subseteq Nat /\ alike # {} /\ DOMAIN state.formats = 1..Len(state.formats)
    BY <1>2
<1>4. PICK k \in alike : \A l \in alike : k <= l
    BY <1>3, Least
<1>5. k \in Compose(state.formats) /\ Format(k) = Format(i)
    BY <1>3, <1>4 DEF Compose, Format
<1>6. PICK n \in DOMAIN work.written : work.written[n].path = Format(i)
    BY SMTT(30), <1>2, <1>5 DEF PathsWritten
<1>7. n \in 1..work.told /\ work.written[n] \in ByTheRun
    BY <1>1, WhatIsWritten
<1>8. work.written[n].format = Format(i) /\ work.written[n].role # "annex"
    BY <1>6, <1>7 DEF IInv, Writing, ByTheRun
<1> QED BY <1>6, <1>7, <1>8, WhatIsListed DEF Fact

LEMMA OneIsMain ==
    ASSUME IInv, Telling
    PROVE  OneMain
<1>1. Cardinality({o \in Outputs : o.role = "main"}) <= 1
    <2> DEFINE mains == {o \in Outputs : o.role = "main"}
               first == Fact(work.written[1], FALSE)
    <2>1. mains \subseteq {first}
        BY WhatIsMain
    <2>2. mains = {} \/ mains = {first}
        BY <2>1
    <2> HIDE DEF mains, first
    <2>3. Cardinality({}) = 0 /\ Cardinality({first}) = 1
        BY FS_EmptySet, FS_Singleton
    <2>4. Cardinality(mains) = 0 \/ Cardinality(mains) = 1
        BY <2>2, <2>3, Zenon
    <2>5. 0 <= 1 /\ 1 <= 1
        OBVIOUS
    <2>6. Cardinality(mains) <= 1
        BY <2>4, <2>5, Zenon
    <2> QED BY <2>6 DEF mains
<1>2. ASSUME job.status = "done", work.written # <<>>, work.error = Nothing
      PROVE  /\ ReportPath = Format(1)
             /\ \A i \in DOMAIN state.formats : Format(i) \in Present
    <2>1. Expected
        BY <1>2, WhenDone
    <2>2. /\ work.told = Len(work.written) /\ work.told # 0 /\ Composed /\ work.step = "declare"
        BY <1>2, <2>1, WhenDone
    <2>3. /\ work.todo = {} /\ state.formats \in Seq(DOMAIN Classes) \ {<<>>}
          /\ PathsWritten = {Format(i) : i \in Compose(state.formats) \ work.todo}
          /\ work.written[1].path = Format(1)
        BY <1>2, <2>2 DEF IInv, Writing
    <2>4. ReportPath = Format(1)
        BY <2>2, <2>3, WhatIsMain
    <2>5. ASSUME NEW i \in DOMAIN state.formats PROVE Format(i) \in Present
        BY <1>2, <2>1, EveryFormatIsListed DEF Outputs, Present
    <2> QED BY <2>4, <2>5
<1> QED BY <1>1, <1>2 DEF OneMain

LEMMA WrittenIsListed ==
    ASSUME IInv, Telling
    PROVE  WrittenIsFound
<1> SUFFICES ASSUME job.status = "done", NEW i \in DOMAIN work.written
             PROVE  work.written[i].path \in Present
    BY DEF WrittenIsFound
<1>1. i \in 1..work.told
    BY WhenDone, WhatIsWritten
<1>2. Fact(work.written[i], FALSE) \in There
    BY <1>1, WhatIsListed DEF Outputs
<1>3. Fact(work.written[i], FALSE).path = work.written[i].path
    BY DEF Fact
<1> QED BY <1>2, <1>3 DEF Present

\* A name has one extension at most: without it there is none left to drop, and
\* a name that could be used still can.
OneExtension ==
    \A given \in Given :
        /\ Stem(Stem(given)) = Stem(given)
        /\ ~Unusable(given) => ~Unusable(Stem(given))

LEMMA TheNameStays ==
    ASSUME OneExtension, NEW given \in Given, Launchable(given)
    PROVE  Records(given) /\ Recorded(given) = Proposed(given)
<1>1. CASE given = NoName
    BY <1>1 DEF Records, Recorded, Proposed
<1>2. CASE given # NoName
    BY <1>2 DEF OneExtension, Launchable, Records, Recorded, Proposed, RefusesName
<1> QED BY <1>1, <1>2

LEMMA ClassesWriteAlike ==
    ASSUME NEW n \in DOMAIN Classes
    PROVE  Extensions[Classes[n]] = Extensions[n] /\ Extensions[n] # "pptx"
    BY DEF Classes, Extensions

\* The last of two parts is the one that was added to the first.
LEMMA LastOfTwo ==
    ASSUME NEW Of, NEW name \in Seq(Of), NEW e, NEW a, NEW b, Append(name, e) = <<a, b>>
    PROVE  e = b
<1>1. ASSUME NEW s \in Seq(Of), NEW x
      PROVE  Len(Append(s, x)) = Len(s) + 1 /\ Append(s, x)[Len(s) + 1] = x
    <2>1. s \in Seq(Of \cup {x})
        OBVIOUS
    <2> QED BY <2>1, AppendType
<1>2. ASSUME NEW x, NEW y PROVE Len(<<x, y>>) = 2 /\ <<x, y>>[2] = y
    OBVIOUS
<1>3. Len(<<a, b>>) = Len(name) + 1 /\ <<a, b>>[Len(name) + 1] = e
    BY <1>1, Zenon
<1> QED BY <1>2, <1>3, Zenon

LEMMA Parts ==
    ASSUME NEW given \in Given
    PROVE  /\ given \in Seq(STRING)
           /\ Stem(given) \in Seq(STRING)
           /\ Proposed(given) \in Seq(STRING)
<1>1. given \in Seq(STRING)
    BY NamesAreParts
<1>2. Len(given) > 1 => Front(given) \in Seq(STRING)
    BY <1>1 DEF Front
<1>3. Stem(given) \in Seq(STRING)
    BY <1>1, <1>2 DEF Stem
<1> QED BY <1>1, <1>3 DEF Proposed, NoName

\* A deliverable is in a format of those asked for.
LEMMA WhatIsDelivered ==
    ASSUME IInv, Telling, NEW o \in Deliverables
    PROVE  /\ state.formats = AskedFormats
           /\ state.formats \in Seq(DOMAIN Classes) \ {<<>>}
           /\ \E i \in DOMAIN state.formats : o.format = Classes[state.formats[i]]
<1>1. PICK k \in 1..work.told : o = Fact(work.written[k], FALSE)
    BY WhatIsListed DEF Deliverables
<1>2. k \in DOMAIN work.written /\ work.written # <<>> /\ work.step = "declare"
    BY <1>1, WhatIsWritten
<1>3. /\ state.node = "write" /\ state.formats \in Seq(DOMAIN Classes) \ {<<>>}
      /\ PathsWritten = {Format(i) : i \in Compose(state.formats) \ work.todo}
      /\ work.written[k].format = work.written[k].path
    BY <1>2 DEF IInv, Writing, Composed
<1>4. state.formats = AskedFormats
    BY <1>3 DEF IInv, Settling
<1>5. work.written[k].path \in PathsWritten
    BY <1>2 DEF PathsWritten
<1>6. PICK i \in Compose(state.formats) : work.written[k].path = Format(i)
    BY <1>3, <1>5
<1>7. i \in DOMAIN state.formats /\ o.format = Classes[state.formats[i]]
    BY <1>1, <1>3, <1>6 DEF Compose, Format, Fact
<1> QED BY <1>3, <1>4, <1>7

LEMMA AsShown ==
    ASSUME OneExtension, IInv, Telling
    PROVE  ShownIsWritten
<1> SUFFICES ASSUME NEW given \in Given, Launchable(given)
             PROVE  LET name == Recorded(given)
                        written == {PathFor(name, o.format) : o \in Deliverables}
                        shown == Filenames(Proposed(given), job.asked)
                    IN  /\ Records(given)
                        /\ Known =>
                             CASE Shows(Proposed(given), job.asked) = "none" -> written = {}
                               [] Shows(Proposed(given), job.asked) = "formats" ->
                                    \A o \in Deliverables : o.format \in {Classes[job.asked[i]] : i \in DOMAIN job.asked}
                               [] Shows(Proposed(given), job.asked) = "files" ->
                                    /\ {path.name : path \in written} \subseteq shown
                                    /\ (job.status = "done" /\ Error = {}) => {path.name : path \in written} = shown
                               [] OTHER -> TRUE
                        /\ DeckPath \notin written
    BY DEF ShownIsWritten
<1> DEFINE name == Proposed(given)
           written == {PathFor(name, o.format) : o \in Deliverables}
           shown == Filenames(name, job.asked)
<1>1. Records(given) /\ Recorded(given) = name /\ name \in Seq(STRING)
    BY TheNameStays, Parts
<1> HIDE DEF name
<1>2. ASSUME Shows(name, job.asked) = "none" PROVE written = {}
    <2>1. job.asked = <<>>
        BY <1>2 DEF Shows
    <2>2. AskedFormats = <<>>
        BY <2>1, SilenceIsApart DEF AskedFormats
    <2> QED BY <2>2, WhatIsDelivered
<1>3. ASSUME job.asked # NotSaid, NEW o \in Deliverables
      PROVE  /\ \E i \in DOMAIN job.asked : o.format = Classes[job.asked[i]]
             /\ job.asked = state.formats
    BY <1>3, WhatIsDelivered DEF AskedFormats
<1>4. ASSUME Shows(name, job.asked) = "formats", NEW o \in Deliverables
      PROVE  o.format \in {Classes[job.asked[i]] : i \in DOMAIN job.asked}
    <2>1. job.asked # NotSaid
        BY <1>4 DEF Shows
    <2> QED BY <1>3, <2>1
<1>5. ASSUME Shows(name, job.asked) = "files"
      PROVE  /\ name # NoName /\ job.asked \notin NoFormats
             /\ job.asked \in Seq(DOMAIN Classes) \ {<<>>}
             /\ shown = {Append(name, Extensions[job.asked[i]]) : i \in DOMAIN job.asked}
    <2>1. shown # {}
        BY <1>5 DEF Shows
    <2>2. name # NoName /\ job.asked \notin NoFormats
        BY <2>1 DEF Filenames, NoFormats
    <2> QED BY <2>2 DEF IInv, Settling, Filenames, NoFormats
<1>6. ASSUME name # NoName, NEW format
      PROVE  PathFor(name, format).name = Append(name, Extensions[format])
    BY <1>6 DEF PathFor
<1>7. ASSUME Shows(name, job.asked) = "files"
      PROVE  {path.name : path \in written} \subseteq shown
    <2> SUFFICES ASSUME NEW o \in Deliverables
                 PROVE  PathFor(name, o.format).name \in shown
        OBVIOUS
    <2>1. PICK i \in DOMAIN job.asked : o.format = Classes[job.asked[i]]
        BY <1>3, <1>5, <1>7 DEF NoFormats
    <2>2. job.asked[i] \in DOMAIN Classes
        BY <1>5, <1>7
    <2>3. Extensions[o.format] = Extensions[job.asked[i]]
        BY <2>1, <2>2, ClassesWriteAlike
    <2>4. PathFor(name, o.format).name = Append(name, Extensions[job.asked[i]])
        BY <1>5, <1>6, <1>7, <2>3
    <2> QED BY <1>5, <1>7, <2>4
<1>8. ASSUME Shows(name, job.asked) = "files", job.status = "done", Error = {}
      PROVE  shown \subseteq {path.name : path \in written}
    <2>1. AskedFormats = job.asked /\ state.formats = job.asked
        BY <1>5, <1>8, WhenDone DEF AskedFormats, NoFormats
    <2>2. Expected /\ work.error = Nothing
        BY <1>5, <1>8, <2>1, WhenDone
    <2>3. ASSUME NEW i \in DOMAIN job.asked
          PROVE  \E path \in written : path.name = Append(name, Extensions[job.asked[i]])
        <3>1. PICK o \in Outputs : o.format = Format(i) /\ o.role # "annex"
            BY <1>8, <2>1, <2>2, EveryFormatIsListed
        <3>2. job.asked[i] \in DOMAIN Classes /\ o.format = Classes[job.asked[i]]
            BY <1>5, <1>8, <2>1, <3>1 DEF Format
        <3>3. o \in Deliverables
            BY <3>1 DEF Deliverables
        <3>4. PathFor(name, o.format).name = Append(name, Extensions[job.asked[i]])
            BY <1>5, <1>6, <1>8, <3>2, ClassesWriteAlike
        <3> QED BY <3>3, <3>4
    <2>4. shown = {Append(name, Extensions[job.asked[i]]) : i \in DOMAIN job.asked}
        BY <1>5, <1>8
    <2> HIDE DEF written, shown
    <2>5. ASSUME NEW file \in shown PROVE file \in {path.name : path \in written}
        <3>1. PICK i \in DOMAIN job.asked : file = Append(name, Extensions[job.asked[i]])
            BY <2>4
        <3>2. PICK path \in written : path.name = Append(name, Extensions[job.asked[i]])
            BY <2>3
        <3> QED BY <3>1, <3>2
    <2> QED BY <2>5
<1>9. DeckPath \notin written
    <2> SUFFICES ASSUME NEW o \in Deliverables, PathFor(name, o.format) = DeckPath PROVE FALSE
        OBVIOUS
    <2>1. DeckPath.in = "job" /\ DeckPath.name = <<"slide_deck", "pptx">>
        BY DEF DeckPath
    <2>2. name # NoName /\ Append(name, Extensions[o.format]) = <<"slide_deck", "pptx">>
        BY <2>1 DEF PathFor
    <2>3. PICK i \in DOMAIN state.formats : o.format = Classes[state.formats[i]]
        BY WhatIsDelivered
    <2>4. state.formats[i] \in DOMAIN Classes
        BY WhatIsDelivered
    <2>5. Extensions[o.format] # "pptx"
        BY <2>3, <2>4, ClassesWriteAlike
    <2>6. Extensions[o.format] = "pptx"
        BY <1>1, <2>2, LastOfTwo
    <2> QED BY <2>5, <2>6
<1>10. Shows(name, job.asked) \in {"none", "formats", "files", "none unless asked"}
    BY DEF Shows
<1>11. CASE Shows(name, job.asked) = "none"
    BY <1>1, <1>2, <1>9, <1>11 DEF name
<1>12. CASE Shows(name, job.asked) = "formats"
    BY <1>1, <1>4, <1>9, <1>12 DEF name
<1>13. CASE Shows(name, job.asked) = "files"
    <2>1. /\ {path.name : path \in written} \subseteq shown
          /\ (job.status = "done" /\ Error = {}) => {path.name : path \in written} = shown
        <3> HIDE DEF written, shown
        <3> QED BY <1>7, <1>8, <1>13
    <2> QED BY <1>1, <1>9, <1>13, <2>1 DEF name
<1>14. CASE Shows(name, job.asked) = "none unless asked"
    BY <1>1, <1>9, <1>14 DEF name
<1> QED BY <1>10, <1>11, <1>12, <1>13, <1>14

(* A job never lists two files as its deliverable, and when nothing went     *)
(* wrong the deliverable is in the first format asked for with every other   *)
(* format beside it.                                                         *)
THEOREM TheDeliverableIsOne ==
    ASSUME ~MayStopLate
    PROVE  Spec => []OneMain
<1>1. IInv /\ Telling => OneMain
    BY OneIsMain
<1> QED BY <1>1, TellingHolds, PTL

(* Every file a finished run wrote is listed, even when a later format       *)
(* failed.                                                                   *)
THEOREM NoFileIsLost ==
    ASSUME ~MayStopLate
    PROVE  Spec => []WrittenIsFound
<1>1. IInv /\ Telling => WrittenIsFound
    BY WrittenIsListed
<1> QED BY <1>1, TellingHolds, PTL

(* What the user was shown of the document's name is what is written, of     *)
(* whatever formats and for whatever name with one extension at most, and    *)
(* the files are all found under those names.                                *)
THEOREM FilesAreAlwaysFound ==
    ASSUME OneExtension, ~MayStopLate
    PROVE  Spec => []FilesAreFound
<1>1. IInv /\ Telling => FilesAreFound
    BY OneIsMain, WrittenIsListed, AsShown DEF FilesAreFound
<1> QED BY <1>1, TellingHolds, PTL

-----------------------------------------------------------------------------
(* The doors.                                                                *)
LEMMA AnswersAre ==
    /\ \A code, answer : Coded(code, answer).code = code /\ Coded(code, answer).answer = answer
    /\ \A kind, status, files :
         /\ Said(kind, status, files).kind = kind
         /\ Said(kind, status, files).status = status
         /\ Said(kind, status, files).files = files
    /\ \A kind, status, files : kind # "nothing" => Said(kind, status, files) # NoSuch
    /\ NoSuch.kind = "nothing" /\ NoSuch.files = {}
    BY DEF Coded, Said, NoSuch

\* What the service answers of a job: found or not, its status, and whether a
\* document is expected of it.
LEMMA JobIs ==
    /\ Known => /\ GetJob # NoSuch /\ GetJob.status = job.status
                /\ GetJob.files = PathsOf(Outputs)
                /\ (GetJob.kind = "job of no document") = ~Expected
    /\ ~Known => GetJob = NoSuch
    /\ NoSuch.status = "" /\ NoSuch.kind = "nothing"
<1>1. ASSUME Known
      PROVE  /\ GetJob # NoSuch /\ GetJob.status = job.status /\ GetJob.files = PathsOf(Outputs)
             /\ (GetJob.kind = "job of no document") = ~Expected
    <2>1. GetJob = Said(IF Expected THEN "job" ELSE "job of no document", job.status, PathsOf(Outputs))
        BY <1>1 DEF GetJob
    <2>2. CASE Expected
        <3>1. GetJob = Said("job", job.status, PathsOf(Outputs))
            BY <2>1, <2>2
        <3> QED BY <2>2, <3>1 DEF Said, NoSuch
    <2>3. CASE ~Expected
        <3>1. GetJob = Said("job of no document", job.status, PathsOf(Outputs))
            BY <2>1, <2>3
        <3> QED BY <2>3, <3>1 DEF Said, NoSuch
    <2> QED BY <2>2, <2>3
<1>2. ~Known => GetJob = NoSuch
    BY DEF GetJob
<1>3. NoSuch.status = "" /\ NoSuch.kind = "nothing"
    BY DEF NoSuch, Said
<1> QED BY <1>1, <1>2, <1>3

LEMMA DoorsAnswerAlike == AnswersAgree
<1>1. Body(GetRoute) = GetJob /\ Body(OutputsRoute) = ListOutputs
    <2>1. /\ Known => GetRoute = Coded(200, GetJob) /\ OutputsRoute = Coded(200, ListOutputs)
          /\ ~Known => /\ GetRoute = Coded(404, NoSuch) /\ OutputsRoute = Coded(404, NoSuch)
                       /\ GetJob = NoSuch /\ ListOutputs = NoSuch
        BY DEF GetRoute, OutputsRoute, JobOr404, GetJob, ListOutputs
    <2>2. \A response : Body(response) = IF response.code = 200 THEN response.answer ELSE NoSuch
        BY DEF Body
    <2> QED BY <2>1, <2>2, AnswersAre
<1>2. ASSUME NEW name PROVE RemoteFind(name) = FindOutput(name)
    <2>1. CASE FindOutput(name) = NoSuch
        <3>1. DownloadRoute(name) = Coded(404, NoSuch)
            BY <2>1 DEF DownloadRoute, JobOr404
        <3>2. DownloadRoute(name).code # 200
            BY <3>1, AnswersAre
        <3> QED BY <2>1, <3>2 DEF RemoteFind, Located
    <2>2. CASE FindOutput(name) # NoSuch
        <3>1. /\ Known /\ name \in PathsOf(Outputs) /\ FindOutput(name) = Said("path", "", {name})
              /\ ListOutputs = Said("files", "", PathsOf(Outputs))
            BY <2>2 DEF FindOutput, ListOutputs
        <3>2. DownloadRoute(name) = Coded(200, Said("bytes", "", {name}))
            BY <2>2, <3>1 DEF DownloadRoute, JobOr404
        <3>3. DownloadRoute(name).code = 200
            <4>1. PICK answer : DownloadRoute(name) = Coded(200, answer)
                BY <3>2
            <4> QED BY <4>1 DEF Coded
        <3>4. Said("files", "", PathsOf(Outputs)).files = PathsOf(Outputs)
            BY DEF Said
        <3>5. name \in Body(OutputsRoute).files
            BY <1>1, <3>1, <3>4, Zenon
        <3> QED BY <3>1, <3>3, <3>5 DEF RemoteFind, Located
    <2> QED BY <2>1, <2>2
<1>3. RemoteReport = GetReport
    <2>1. CASE GetReport = NoSuch
        <3>1. GetReport.kind # "binary"
            BY <2>1, AnswersAre
        <3>2. \E answer : ReportRoute = Coded(404, answer)
            BY ZenonT(30), <2>1, <3>1 DEF ReportRoute, JobOr404
        <3>3. ReportRoute.code = 404
            BY <3>2 DEF Coded
        <3> QED BY <2>1, <3>3 DEF RemoteReport, Body
    <2>2. CASE GetReport # NoSuch
        <3>1. Known
            BY <2>2 DEF GetReport
        <3>2. ReportRoute = IF GetReport.kind = "binary" THEN Coded(415, GetReport) ELSE Coded(200, GetReport)
            BY <2>2, <3>1 DEF ReportRoute, JobOr404
        <3>3. ReportRoute.code \in {200, 415} /\ ReportRoute.answer = GetReport
            BY <3>2, AnswersAre
        <3> QED BY <3>3 DEF RemoteReport, Body
    <2> QED BY <2>1, <2>2
<1>4. ASSUME NEW asked PROVE RemoteLaunch(asked) = LaunchJob(asked)
    <2>1. CASE Refused(asked)
        <3>1. LaunchJob(asked) = Said("ValueError", "", {})
            BY <2>1 DEF LaunchJob
        <3>2. LaunchJob(asked).kind = "ValueError"
            <4>1. PICK status, files : LaunchJob(asked) = Said("ValueError", status, files)
                BY <3>1
            <4> QED BY <4>1 DEF Said
        <3>3. LaunchRoute(asked) = Coded(400, LaunchJob(asked))
            BY <3>2 DEF LaunchRoute
        <3>4. LaunchRoute(asked).code = 400
            BY <3>3 DEF Coded
        <3> QED BY <3>1, <3>4 DEF RemoteLaunch
    <2>2. CASE ~Refused(asked)
        <3>1. LaunchJob(asked) = Said("launched", "running", {})
            BY <2>2 DEF LaunchJob
        <3>2. LaunchJob(asked).kind # "ValueError"
            BY <3>1, AnswersAre
        <3>3. LaunchRoute(asked) = Coded(201, LaunchJob(asked))
            BY <3>2 DEF LaunchRoute
        <3>4. LaunchRoute(asked).code = 201 /\ LaunchRoute(asked).answer = LaunchJob(asked)
            BY <3>3 DEF Coded
        <3> QED BY <3>4 DEF RemoteLaunch, RaiseForStatus
    <2> QED BY <2>1, <2>2
<1>5. ASSUME NEW may PROVE Refusable(ResumeRoute(may)) = Resumed(may)
    <2>1. CASE ~Known
        <3>1. /\ Resumed(may) = Said("error", "unknown", {}) /\ GetJob = NoSuch
              /\ ResumeRoute(may) = Coded(404, NoSuch)
            BY <2>1 DEF Resumed, StatusOr, GetJob, ResumeRoute, JobOr404
        <3>2. ResumeRoute(may).code = 404
            BY <3>1, AnswersAre
        <3> QED BY <1>1, <3>1, <3>2 DEF Refusable
    <2>2. CASE Known /\ may
        <3>1. Resumed(may) = Said("status", "running", {})
            BY <2>2 DEF Resumed
        <3>2. Resumed(may).kind # "error"
            BY <3>1, AnswersAre
        <3>3. ResumeRoute(may) = Coded(200, Resumed(may))
            BY <2>2, <3>2 DEF ResumeRoute, JobOr404
        <3>4. ResumeRoute(may).code = 200 /\ ResumeRoute(may).answer = Resumed(may)
            BY <3>3 DEF Coded
        <3> QED BY <3>4 DEF Refusable, RaiseForStatus
    <2>3. CASE Known /\ ~may
        <3>1. Resumed(may) = Said("error", job.status, {})
            BY <2>3 DEF Resumed, StatusOr
        <3>2. Resumed(may).kind = "error"
            BY <3>1, AnswersAre
        <3>5. GetJob.status = job.status /\ GetJob # NoSuch
            BY <2>3, JobIs
        <3>3. ResumeRoute(may) = Coded(409, Resumed(may))
            BY <2>3, <3>2 DEF ResumeRoute, JobOr404
        <3>4. ResumeRoute(may).code = 409
            BY <3>3 DEF Coded
        <3> QED BY <1>1, <3>1, <3>2, <3>4, <3>5 DEF Refusable
    <2> QED BY <2>1, <2>2, <2>3
<1>6. ASSUME Known PROVE RaiseForStatus(CancelRoute) = CancelJob
    <2>1. CancelRoute = Coded(200, CancelJob)
        BY <1>6 DEF CancelRoute, JobOr404
    <2>2. CancelRoute.code = 200 /\ CancelRoute.answer = CancelJob
        BY <2>1 DEF Coded
    <2> QED BY <2>2 DEF RaiseForStatus
<1> QED BY <1>1, <1>2, <1>3, <1>4, <1>5, <1>6 DEF AnswersAgree

LEMMA FollowedToItsEnd ==
    ASSUME NEW found, Follow(found).code = 0
    PROVE  found.status = "done"
<1>1. found.status # "done" => Follow(found).code \in {1, -1}
    BY DEF Follow, Exits
<1>2. \A code \in {1, -1} : code # 0
    OBVIOUS
<1> QED BY <1>1, <1>2, Zenon

LEMMA NotFoundIsNoText ==
    /\ \A code : code = 404 => code # 200
    /\ \A why \in {"none asked", "no report"} : why # "text"
    OBVIOUS

LEMMA CommandsAnswerAlike ==
    ASSUME IInv, Telling
    PROVE  CommandsAgree
<1> USE DEF Said, NoSuch, Exits
<1>1. AnswersAgree
    BY DoorsAnswerAlike
<1>2. /\ Body(GetRoute) = GetJob /\ Body(OutputsRoute) = ListOutputs /\ RemoteReport = GetReport
      /\ Refusable(ResumeRoute(Resumable)) = Resumed(Resumable)
      /\ Known => RaiseForStatus(CancelRoute) = CancelJob
    BY <1>1 DEF AnswersAgree
<1> DEFINE report == CmdReport(GetJob, GetReport)
<1>3. /\ CmdJob(Body(GetRoute)) = CmdJob(GetJob)
      /\ CmdOutputs(Body(GetRoute)) = CmdOutputs(GetJob)
      /\ CmdReport(Body(GetRoute), RemoteReport) = report
    BY <1>2
<1>4. CmdCancel(Body(GetRoute), RaiseForStatus(CancelRoute)) = CmdCancel(GetJob, CancelJob)
    BY <1>2 DEF CmdCancel, GetJob
<1>5. ASSUME Known
      PROVE  /\ (report.says = "text") = (ReportRoute.code = 200)
             /\ (report.says = "none asked") = (ReportRoute.answer.kind = "none asked")
    <2>1. GetJob # NoSuch
        BY <1>5 DEF GetJob
    <2>2. CASE GetReport.kind = "binary"
        <3>1. ReportRoute = Coded(415, GetReport)
            BY <1>5, <2>2 DEF ReportRoute, JobOr404
        <3>2. ReportRoute.code = 415 /\ ReportRoute.answer.kind = "binary"
            BY <2>2, <3>1 DEF Coded
        <3> QED BY <2>2, <3>2 DEF CmdReport
    <2>3. CASE GetReport = NoSuch
        <3>1. ReportRoute = Coded(404, Said(IF NoDocument THEN "none asked" ELSE "no report", "", {}))
            BY <1>5, <2>3, AnswersAre DEF ReportRoute, JobOr404
        <3>3. report = Exits(1, IF NoDocument THEN "none asked" ELSE "no report")
            <4>1. GetReport.kind # "binary"
                BY <2>3, AnswersAre
            <4>2. NoDocument <=> GetJob.status = "done" /\ GetJob.kind = "job of no document"
                BY <1>5, JobIs DEF NoDocument
            <4> QED BY <2>3, <4>1, <4>2 DEF CmdReport
        <3> HIDE DEF report
        <3>4. ASSUME NEW why, ReportRoute = Coded(404, Said(why, "", {})), report = Exits(1, why)
              PROVE  ReportRoute.code = 404 /\ ReportRoute.answer.kind = why /\ report.says = why
            <4> HIDE DEF Exits, Said
            <4>1. ReportRoute.code = 404 /\ ReportRoute.answer = Said(why, "", {})
                BY <3>4 DEF Coded
            <4>2. Said(why, "", {}).kind = why
                BY DEF Said
            <4>3. Exits(1, why).says = why
                BY DEF Exits
            <4> QED BY <3>4, <4>1, <4>2, <4>3, Zenon
        <3>5. PICK why \in {"none asked", "no report"} :
                ReportRoute = Coded(404, Said(why, "", {})) /\ report = Exits(1, why)
            BY <3>1, <3>3
        <3>6. ReportRoute.code = 404 /\ ReportRoute.answer.kind = why /\ report.says = why
            BY <3>4, <3>5, ZenonT(40)
        <3>7. ReportRoute.code # 200
            BY <3>6, NotFoundIsNoText, Zenon
        <3>8. report.says # "text"
            BY <3>6, NotFoundIsNoText, Zenon
        <3>9. (report.says = "none asked") = (ReportRoute.answer.kind = "none asked")
            BY <3>6, Zenon
        <3> QED BY <3>7, <3>8, <3>9, Zenon
    <2>4. CASE GetReport.kind # "binary" /\ GetReport # NoSuch
        <3>1. ReportRoute = Coded(200, GetReport)
            BY <1>5, <2>4 DEF ReportRoute, JobOr404
        <3>2. GetReport.kind \in {"text", "binary"}
            BY <2>4, AnswersAre DEF GetReport, Report, Nothing
        <3>3. ReportRoute.code = 200 /\ ReportRoute.answer.kind = "text"
            BY <2>4, <3>1, <3>2 DEF Coded
        <3> QED BY <2>4, <3>3 DEF CmdReport
    <2> QED BY <2>2, <2>3, <2>4
<1>6. report.says \in {"text", "binary"} => CmdOutputs(GetJob).code = 0
    <2> SUFFICES ASSUME report.says \in {"text", "binary"} PROVE CmdOutputs(GetJob).code = 0
        OBVIOUS
    <2>1. Known /\ Report # Nothing
        BY DEF CmdReport, GetReport, GetJob
    <2>2. Outputs # {}
        BY <2>1 DEF Report, ReportPath
    <2>3. GetJob # NoSuch /\ GetJob.files # {}
        BY <2>1, <2>2 DEF GetJob, PathsOf
    <2> QED BY <2>3 DEF CmdOutputs
<1>7. Follow(GetJob).code = 0 /\ report.says = "no report" => Error # {} \/ ReportPath \notin disk
    <2> SUFFICES ASSUME Follow(GetJob).code = 0, report.says = "no report", Error = {}
                 PROVE  ReportPath \notin disk
        OBVIOUS
    <2>1. job.status = "done" /\ Known
        <3>1. GetJob.status = "done"
            BY FollowedToItsEnd, Zenon
        <3>2. Known
            BY <3>1, JobIs
        <3> QED BY <3>1, <3>2, JobIs
    <2>2. Report = Nothing /\ ~NoDocument
        <3>1. GetReport = NoSuch
            BY DEF CmdReport
        <3>2. Report = Nothing
            BY <2>1, <3>1, AnswersAre DEF GetReport, Report, Nothing
        <3>3. ~(GetJob.status = "done" /\ GetJob.kind = "job of no document")
            BY <3>1 DEF CmdReport
        <3> QED BY <2>1, <3>2, <3>3, JobIs DEF NoDocument
    <2>3. ReportPath # Nothing
        BY <2>1, <2>2, Answered DEF NoDocument, AskedIsAnswered, DocumentIsAnswered
    <2> QED BY <2>2, <2>3 DEF Report, Nothing
<1> DEFINE resumedFar == CmdResume(TRUE, Body(GetRoute), Refusable(ResumeRoute(Resumable)))
           resumedHere == CmdResume(FALSE, GetJob, Resumed(Resumable))
<1>8. resumedFar = CmdResume(TRUE, GetJob, Resumed(Resumable))
    BY <1>2
<1>9. CASE ~Known
    <2>1. GetJob = NoSuch
        BY <1>9, JobIs
    <2>2. resumedFar = NoSingleJob /\ resumedHere = NoSingleJob
        BY <1>8, <2>1 DEF CmdResume
    <2>3. resumedHere.code = 1
        <3>1. NoSingleJob.code = 1
            BY DEF NoSingleJob
        <3> HIDE DEF resumedHere
        <3> QED BY <2>2, <3>1
    <2> HIDE DEF resumedFar, resumedHere, report, Exits, Said, NoSuch
    <2> QED BY <1>2, <1>3, <1>4, <1>5, <1>6, <1>7, <1>9, <2>2, <2>3 DEF CommandsAgree, resumedFar, resumedHere, report
<1>10. CASE Known /\ ~Resumable
    <2>1. GetJob # NoSuch
        BY <1>10, JobIs
    <2>2. Resumed(Resumable).kind = "error"
        BY <1>10, AnswersAre DEF Resumed
    <2>3. resumedFar = Exits(1, "cannot resume") /\ resumedHere = Exits(1, "cannot resume")
        BY <1>8, <2>1, <2>2 DEF CmdResume
    <2>4. resumedHere.code = 1
        <3>1. Exits(1, "cannot resume").code = 1
            OBVIOUS
        <3> HIDE DEF resumedHere, Exits
        <3> QED BY <2>3, <3>1
    <2> HIDE DEF resumedFar, resumedHere, report, Exits, Said, NoSuch
    <2> QED BY <1>2, <1>3, <1>4, <1>5, <1>6, <1>7, <1>10, <2>3, <2>4 DEF CommandsAgree, resumedFar, resumedHere, report
<1>11. CASE Known /\ Resumable
    <2>1. GetJob # NoSuch
        BY <1>11, JobIs
    <2>2. Resumed(Resumable) = Said("status", "running", {})
        BY <1>11 DEF Resumed
    <2>3. Resumed(Resumable).kind # "error" /\ Resumed(Resumable).status = "running"
        BY <2>2
    <2>4. Follow(Resumed(Resumable)) = Exits(-1, "waiting")
        BY <2>3 DEF Follow
    <2>5. resumedFar = Exits(0, "running") /\ resumedHere = Exits(-1, "waiting")
        BY <1>8, <2>1, <2>3, <2>4 DEF CmdResume
    <2> HIDE DEF resumedFar, resumedHere, report, Exits, Said, NoSuch
    <2> QED BY <1>2, <1>3, <1>4, <1>5, <1>6, <1>7, <1>11, <2>5 DEF CommandsAgree, resumedFar, resumedHere, report
<1> QED BY <1>9, <1>10, <1>11

(* A front-end cannot tell the daemon's client from the service in this      *)
(* process, whatever the job went through; and a script that goes by what a  *)
(* command says and exits with sees one difference, that `resume` is over    *)
(* when the daemon has the job and waits for its end when it has not.        *)
THEOREM TheBackingsAgree ==
    ASSUME ~MayStopLate
    PROVE  Spec => []BackingsAgree
<1>1. IInv /\ Telling => BackingsAgree
    BY DoorsAnswerAlike, CommandsAnswerAlike DEF BackingsAgree
<1> QED BY <1>1, TellingHolds, PTL

\* The same, of the state after a step.
LEMMA AlikeAfter == AnswersAgree'
    BY DoorsAnswerAlike, PTL

LEMMA JobIsAfter ==
    (/\ Known => /\ GetJob # NoSuch /\ GetJob.status = job.status
                 /\ GetJob.files = PathsOf(Outputs)
                 /\ (GetJob.kind = "job of no document") = ~Expected
     /\ ~Known => GetJob = NoSuch
     /\ NoSuch.status = "" /\ NoSuch.kind = "nothing")'
    BY JobIs, PTL

LEMMA AnsweredNow == IInv /\ Telling => AskedIsAnswered
    BY Answered

LEMMA AnsweredAfter == (IInv /\ Telling => AskedIsAnswered)'
    BY AnsweredNow, PTL

\* A file found in two requests is found as at the first, or as at the second.
LEMMA FileInTwo ==
    ASSUME NEW name
    PROVE  Located(DownloadRoute(name), OutputsRoute', name) \in {FindOutput(name), FindOutput(name)'}
<1>1. CASE DownloadRoute(name).code # 200
    <2>1. RemoteFind(name) = NoSuch /\ Located(DownloadRoute(name), OutputsRoute', name) = NoSuch
        BY <1>1 DEF RemoteFind, Located
    <2>2. CASE FindOutput(name) = NoSuch
        BY <2>1, <2>2
    <2>3. CASE FindOutput(name) # NoSuch
        <3>1. Known
            BY <2>3 DEF FindOutput
        <3>2. DownloadRoute(name) = Coded(200, Said("bytes", "", {name}))
            BY <2>3, <3>1 DEF DownloadRoute, JobOr404
        <3>3. DownloadRoute(name).code = 200
            <4>1. PICK answer : DownloadRoute(name) = Coded(200, answer)
                BY <3>2
            <4> QED BY <4>1 DEF Coded
        <3> QED BY <1>1, <3>3
    <2> QED BY <2>2, <2>3
<1>2. CASE DownloadRoute(name).code = 200 /\ name \in Body(OutputsRoute').files
    <2>1. Located(DownloadRoute(name), OutputsRoute', name) = Said("path", "", {name})
        BY <1>2 DEF Located
    <2>2. FindOutput(name) # NoSuch
        <3> SUFFICES ASSUME FindOutput(name) = NoSuch PROVE FALSE
            OBVIOUS
        <3>1. DownloadRoute(name) = Coded(404, NoSuch)
            BY DEF DownloadRoute, JobOr404
        <3> QED BY <1>2, <3>1, AnswersAre
    <2>3. FindOutput(name) = Said("path", "", {name})
        BY <2>2 DEF FindOutput
    <2> QED BY <2>1, <2>3
<1>3. CASE DownloadRoute(name).code = 200 /\ name \notin Body(OutputsRoute').files
    <2>1. Located(DownloadRoute(name), OutputsRoute', name) = NoSuch
        BY <1>3 DEF Located
    <2>2. Body(OutputsRoute)' = ListOutputs'
        BY AlikeAfter DEF AnswersAgree
    <2>3. FindOutput(name)' = NoSuch
        <3> SUFFICES ASSUME FindOutput(name)' # NoSuch PROVE FALSE
            OBVIOUS
        <3>1. Known' /\ name \in PathsOf(Outputs)'
            BY DEF FindOutput
        <3>2. ListOutputs' = Said("files", "", PathsOf(Outputs)')
            BY <3>1 DEF ListOutputs
        <3>3. ListOutputs'.files = PathsOf(Outputs)'
            BY <3>2 DEF Said
        <3> QED BY <1>3, <2>2, <3>1, <3>3 DEF Body
    <2> QED BY <2>1, <2>3
<1> QED BY <1>1, <1>2, <1>3

\* A job that is done stays as it is, and one that is known stays known.
LEMMA DoneStays ==
    ASSUME IInv, [Next]_vars
    PROVE  /\ Known => Known'
           /\ job.status = "done" => job' = job /\ declared' = declared
           /\ job'.status = "done" => declared' = declared
<1> USE DEF IInv, Typed, At, Known
<1>1. ASSUME NEW asked \in Requests, Create(asked)
      PROVE  ~Known /\ job.status # "done" /\ job'.status # "done"
    BY <1>1 DEF Create
<1>2. ASSUME NEW reply \in Replies, Decide(reply)
      PROVE  job.status = "running" /\ job'.status = "running"
    BY <1>2 DEF Decide
<1>3. ASSUME NEW s \in Steps, NEW file \in Files \cup {Nothing}, NEW left \in BOOLEAN, StepEnds(s, file, left)
      PROVE  job.status = "running" /\ job'.status = "running"
    BY <1>3 DEF StepEnds
<1>4. ASSUME NEW kind \in {"answered", "unanswered", "failed"}, Answer(kind)
      PROVE  job.status = "running" /\ job'.status \in {"running", "failed"}
    BY <1>4 DEF Answer
<1>5. ASSUME NEW i \in work.todo, WriteOne(i) PROVE job.status = "running" /\ job' = job
    BY <1>5 DEF WriteOne
<1>6. CASE DecideSaved \/ StepsSaved \/ Compositions \/ WriteFails \/ WritesEnd \/ DeclareOne
    <2>1. job.status = "running" /\ job' = job
        BY <1>6 DEF DecideSaved, StepsSaved, Compositions, WriteFails, WritesEnd, DeclareOne
    <2> QED BY <2>1
<1>7. CASE End
    <2>1. job.status = "running" /\ job'.status \in {"done", "failed"} /\ declared' = declared
        BY <1>7 DEF End
    <2> QED BY <2>1
<1>8. ASSUME NEW as \in {"cancelled", "failed"}, Stop(as)
      PROVE  job.status = "running" /\ job'.status \in {"cancelled", "failed"}
    BY <1>8 DEF Stop
<1>9. CASE Continue
    <2>1. job.status \in {"cancelled", "failed"} /\ job'.status = "running"
        BY <1>9 DEF Continue, Resumable
    <2> QED BY <2>1
<1>10. CASE Vanish \/ UNCHANGED vars
    <2>1. job' = job /\ declared' = declared
        BY <1>10 DEF Vanish, vars
    <2> QED BY <2>1
<1> QED BY <1>1, <1>2, <1>3, <1>4, <1>5, <1>6, <1>7, <1>8, <1>9, <1>10 DEF Next

LEMMA CancelInTwo ==
    ASSUME IInv, [Next]_vars
    PROVE  CmdCancel(Body(GetRoute), RaiseForStatus(CancelRoute)') \in
             {CmdCancel(GetJob, CancelJob), CmdCancel(GetJob, CancelJob)'}
<1>1. Body(GetRoute) = GetJob
    BY DoorsAnswerAlike DEF AnswersAgree
<1>2. CASE ~Known
    <2>1. GetJob = NoSuch
        BY <1>2, JobIs
    <2> QED BY <1>1, <2>1 DEF CmdCancel
<1>3. CASE Known
    <2>1. Known' /\ GetJob # NoSuch /\ GetJob' # NoSuch'
        BY <1>3, DoneStays, JobIs, JobIsAfter
    <2>2. RaiseForStatus(CancelRoute)' = CancelJob'
        BY <2>1, AlikeAfter DEF AnswersAgree
    <2>3. NoSuch' = NoSuch
        BY DEF NoSuch, Said
    <2> QED BY <1>1, <2>1, <2>2, <2>3 DEF CmdCancel
<1> QED BY <1>2, <1>3

\* What a command that is told of no report says of the job it found.
LEMMA AbsentIs ==
    \A found : CmdReport(found, NoSuch) =
        Exits(1, IF found.status = "done" /\ found.kind = "job of no document"
                 THEN "none asked" ELSE "no report")
<1>1. NoSuch.kind # "binary"
    BY DEF NoSuch, Said
<1> QED BY <1>1 DEF CmdReport

LEMMA ReportInTwo ==
    ASSUME IInv, Telling, IInv', Telling', [Next]_vars
    PROVE  CmdReport(Body(GetRoute), RemoteReport') \in
             {CmdReport(GetJob, GetReport), CmdReport(GetJob, GetReport)'}
<1>1. Body(GetRoute) = GetJob /\ RemoteReport' = GetReport'
    BY DoorsAnswerAlike, AlikeAfter DEF AnswersAgree
<1>2. SUFFICES CmdReport(GetJob, GetReport') \in
                 {CmdReport(GetJob, GetReport), CmdReport(GetJob', GetReport')}
    BY <1>1
<1>3. NoSuch' = NoSuch
    BY DEF NoSuch, Said
<1>4. CASE GetReport' # NoSuch
    BY <1>4 DEF CmdReport
<1> DEFINE Absent(found) == found.status = "done" /\ found.kind = "job of no document"
<1>5. /\ Absent(GetJob) <=> job.status = "done" /\ ~Expected
      /\ Absent(GetJob') <=> job'.status = "done" /\ ~Expected'
    <2>1. Absent(GetJob) <=> job.status = "done" /\ ~Expected
        BY JobIs DEF Known
    <2>2. Absent(GetJob') <=> job'.status = "done" /\ ~Expected'
        BY <1>3, JobIsAfter DEF Known
    <2> QED BY <2>1, <2>2
<1>6. /\ CmdReport(GetJob, NoSuch) =
             Exits(1, IF Absent(GetJob) THEN "none asked" ELSE "no report")
      /\ CmdReport(GetJob', NoSuch) =
             Exits(1, IF Absent(GetJob') THEN "none asked" ELSE "no report")
    BY AbsentIs
<1>7. CASE GetReport' = NoSuch /\ GetReport = NoSuch
    BY <1>7
<1>8. CASE GetReport' = NoSuch /\ (Absent(GetJob) <=> Absent(GetJob'))
    <2>1. CmdReport(GetJob, NoSuch) = CmdReport(GetJob', NoSuch)
        <3>1. CASE Absent(GetJob)
            <4>1. /\ CmdReport(GetJob, NoSuch) = Exits(1, "none asked")
                  /\ CmdReport(GetJob', NoSuch) = Exits(1, "none asked")
                BY <1>6, <1>8, <3>1
            <4> QED BY <4>1
        <3>2. CASE ~Absent(GetJob)
            <4>1. /\ CmdReport(GetJob, NoSuch) = Exits(1, "no report")
                  /\ CmdReport(GetJob', NoSuch) = Exits(1, "no report")
                BY <1>6, <1>8, <3>2
            <4> QED BY <4>1
        <3> QED BY <3>1, <3>2
    <2> QED BY <1>8, <2>1
<1>9. CASE GetReport' = NoSuch /\ GetReport # NoSuch /\ ~(Absent(GetJob) <=> Absent(GetJob'))
    <2>1. ReportPath # Nothing
        BY <1>9 DEF GetReport, Report
    <2>2. job.status # "done"
        <3> SUFFICES ASSUME job.status = "done" PROVE FALSE
            OBVIOUS
        <3>1. job' = job
            BY DoneStays
        <3>2. Expected' = Expected
            BY <3>1 DEF Expected, AskedFormats
        <3> QED BY <1>5, <1>9, <3>1, <3>2
    <2>3. job'.status = "done" /\ ~Expected'
        BY <1>5, <1>9, <2>2
    <2>4. declared' = declared
        BY <2>3, DoneStays
    <2>5. ReportPath' = ReportPath
        BY <2>4 DEF ReportPath, Outputs, There
    <2>6. ReportPath' = Nothing'
        BY <2>3, AnsweredAfter DEF AskedIsAnswered, DocumentIsAnswered
    <2> QED BY <2>1, <2>5, <2>6 DEF Nothing
<1> QED BY <1>4, <1>7, <1>8, <1>9

(* What is asked of the daemon in two requests is answered as if it had been *)
(* asked at once, before or after what the job did in between.               *)
THEOREM TwoRequestsAnswerAsOne ==
    ASSUME ~MayStopLate
    PROVE  Spec => TwoRequestsAreOne
<1>1. ASSUME IInv, Telling, [Next]_vars
      PROVE
        /\ \A name \in Files \cup Reporters :
             Located(DownloadRoute(name), OutputsRoute', name) \in {FindOutput(name), FindOutput(name)'}
        /\ CmdReport(Body(GetRoute), RemoteReport') \in
             {CmdReport(GetJob, GetReport), CmdReport(GetJob, GetReport)'}
        /\ CmdCancel(Body(GetRoute), RaiseForStatus(CancelRoute)') \in
             {CmdCancel(GetJob, CancelJob), CmdCancel(GetJob, CancelJob)'}
    <2>1. IInv' /\ Telling'
        BY <1>1, NextIInv, NextTelling
    <2> QED BY <1>1, <2>1, FileInTwo, ReportInTwo, CancelInTwo
<1>2. IInv /\ Telling /\ [Next]_vars =>
       [/\ \A name \in Files \cup Reporters :
             Located(DownloadRoute(name), OutputsRoute', name) \in {FindOutput(name), FindOutput(name)'}
        /\ CmdReport(Body(GetRoute), RemoteReport') \in
             {CmdReport(GetJob, GetReport), CmdReport(GetJob, GetReport)'}
        /\ CmdCancel(Body(GetRoute), RaiseForStatus(CancelRoute)') \in
             {CmdCancel(GetJob, CancelJob), CmdCancel(GetJob, CancelJob)'}]_vars
    BY <1>1
<1> QED BY <1>2, TellingHolds, PTL DEF Spec, TwoRequestsAreOne

-----------------------------------------------------------------------------
(* What the evaluation suite says of a job.  It looks at jobs that nothing   *)
(* stopped, whose facts are in order in every regime.                        *)
FirstTry == stops \in Nat /\ (stops = 0 => Telling)

LEMMA FirstTryHolds == Spec => [](IInv /\ FirstTry)
<1>1. Init => IInv /\ FirstTry
    BY InitIInv DEF Init, FirstTry
<1>2. ASSUME IInv, FirstTry, [Next]_vars PROVE IInv' /\ FirstTry'
    <2>1. stops' = stops \/ stops' = stops + 1
        BY <1>2 DEF Next, vars, Create, Decide, DecideSaved, StepEnds, StepsSaved, Answer, WriteOne,
                    Compositions, WriteFails, WritesEnd, DeclareOne, End, Stop, Continue, Vanish
    <2>2. stops' \in Nat /\ (stops' = 0 => stops = 0)
        BY <1>2, <2>1 DEF FirstTry
    <2>3. ASSUME stops' = 0 PROVE Telling'
        BY <1>2, <2>2, <2>3, NextTelling DEF FirstTry
    <2> QED BY <1>2, <2>2, <2>3, NextIInv DEF FirstTry
<1>3. IInv /\ FirstTry /\ [Next]_vars => (IInv /\ FirstTry)'
    BY <1>2
<1> QED BY <1>1, <1>3, PTL DEF Spec

\* The path of the report is listed once, as the first file of the run.
LEMMA ListedIsMain ==
    ASSUME IInv, Telling, work.told # 0
    PROVE  Listed(ReportPath) = Fact(work.written[1], FALSE)
<1> DEFINE main == Fact(work.written[1], FALSE)
<1>1. ReportPath = work.written[1].path /\ main \in Outputs /\ main.path = ReportPath
    BY WhatIsMain DEF Fact
<1>2. 1 \in DOMAIN work.written /\ work.written[1] \in ByTheRun /\ work.told \in Nat
    BY WhatIsWritten
<1>3. main \in Facts /\ main.by = "the run" /\ main.role # "annex" /\ main \in There
    BY <1>1, <1>2 DEF Fact, ByTheRun, Outputs, IInv, Typed, There
<1>4. ASSUME NEW o \in Outputs, o.path = ReportPath PROVE o = main
    <2>1. o \in Facts /\ Rank(o) <= Rank(main)
        BY <1>1, <1>3, <1>4 DEF Outputs, There, IInv, Typed
    <2>2. o.role # "annex"
        BY <1>3, <2>1, TheRunRanksFirst
    <2>3. PICK k \in 1..work.told : o = Fact(work.written[k], FALSE)
        BY <2>2, WhatIsListed
    <2>4. work.written[k].path = work.written[1].path /\ k \in DOMAIN work.written
        BY <1>1, <1>4, <2>3, WhatIsWritten DEF Fact
    <2>5. k = 1
        BY <1>2, <2>4 DEF IInv, Writing
    <2> QED BY <2>3, <2>5
<1> HIDE DEF main
<1> QED BY <1>1, <1>4 DEF Listed, main

\* Nothing went wrong with the file, and nobody removed it.
Unharmed == "write failed" \notin Error /\ ReportPath \in disk \cup {Nothing}

\* What the suite compares: a job that was asked for nothing, or has its file.
LEMMA WhatIsObserved ==
    ASSUME IInv, Telling, Observable, Unharmed
    PROVE  /\ ~Wants => ReportPath = Nothing /\ ~Expected
           /\ Wants => /\ Opened
                       /\ Case.format \in Reporters => Main = Case.format
           /\ Wants <=> Expected
<1>1. job.status = "done" /\ AskedFormats = job.decided
    BY DEF Observable, AskedFormats
<1>2. Wants <=> Expected
    BY <1>1, WhenDone DEF Wants, NoFormats
<1>3. ~Wants => ReportPath = Nothing
    BY <1>1, <1>2, WhenDone, WhatIsMain
<1>4. ASSUME Wants PROVE Opened /\ (Case.format \in Reporters => Main = Case.format)
    <2>1. work.error = Nothing /\ state.formats = job.decided
        BY <1>1, <1>2, <1>4, WhenDone DEF Unharmed
    <2>2. work.told # 0 /\ work.written # <<>> /\ Composed
        BY <1>1, <1>2, <1>4, <2>1, WhenDone
    <2>3. Opened
        BY <2>2, WhatIsMain DEF Opened, Unharmed
    <2>4. 1 \in DOMAIN work.written
        BY <2>2, WhatIsWritten
    <2>5. Main = Format(1)
        <3>1. work.written[1].path = Format(1) /\ work.written[1].format = work.written[1].path
            BY <2>2, <2>4 DEF IInv, Writing
        <3>2. Main = work.written[1].format
            BY <2>2, ListedIsMain DEF Main, Fact
        <3> QED BY <3>1, <3>2
    <2>6. Case.format = state.formats[1]
        BY <1>4, <2>1 DEF Case
    <2>7. \A f \in Reporters : Classes[f] = f
        <3>1. /\ Classes["markdown"] = "markdown" /\ Classes["html"] = "html" /\ Classes["pdf"] = "pdf"
            BY DEF Classes
        <3>2. \A n \in DOMAIN Classes : Classes[n] \in {"markdown", "html", "pdf"}
            BY DEF Classes
        <3> QED BY <3>1, <3>2 DEF Reporters
    <2> QED BY <2>3, <2>5, <2>6, <2>7 DEF Format
<1> QED BY <1>2, <1>3, <1>4

LEMMA ScoredFairly ==
    ASSUME IInv, Telling
    PROVE  ScoredAsAsked
<1> DEFINE score == S!Score(Case, Observed)
<1> SUFFICES ASSUME Observable, Unharmed, NEW check \in FileChecks
             PROVE  score[check] # "fail"
    BY DEF ScoredAsAsked, Unharmed
<1>1. Case.document = (IF Wants THEN "yes" ELSE "no") /\ Case.terminal = Kind
    BY DEF Case
<1>2. /\ Observed.error = (Opened /\ ~S!Scorable(Main)) /\ Observed.terminal = Kind
      /\ Observed.path = ReportPath /\ Observed.expected = Expected /\ Observed.job = "job"
      /\ Observed.format = (IF ReportPath = Nothing THEN "markdown" ELSE Main)
      /\ Observed.renderable = {f \in Reporters : engine \/ f # "pdf"}
      /\ Observed.text = IF ~Opened THEN {}
                          ELSE {"title", "answer", "job"} \cup IF Kind = "unanswered" THEN {"notice"} ELSE {}
    BY DEF Observed
<1>3. /\ ~Wants => ReportPath = Nothing /\ ~Expected
      /\ Wants => Opened /\ (Case.format \in Reporters => Main = Case.format)
    BY WhatIsObserved
<1>4. Opened => ReportPath # Nothing
    BY DEF Opened
<1>5. /\ S!ReportWritten(Case, Observed) # "fail" /\ S!ReportTitle(Case, Observed) # "fail"
      /\ S!ReportAnswer(Case, Observed) # "fail" /\ S!ReportProvenance(Case, Observed) # "fail"
    BY <1>1, <1>2, <1>3
       DEF S!ReportWritten, S!ReportTitle, S!ReportAnswer, S!ReportProvenance, S!ReportApplies, S!Answered,
           S!Scored, S!Verdict, S!Holds
<1>6. S!DocumentAsRequested(Case, Observed) # "fail"
    BY <1>1, <1>2, <1>3, <1>4 DEF S!DocumentAsRequested, S!Scored, S!Verdict
<1>7. S!DocumentFormat(Case, Observed) # "fail"
    <2>1. Observed.renderable \subseteq Reporters /\ Observed.renderable # {}
        <3>1. "markdown" \in Reporters
            BY DEF Reporters, Classes
        <3> QED BY <1>2, <3>1
    <2>2. ~Wants => Case.format = Nothing
        BY DEF Case
    <2> QED BY <1>2, <1>3, <1>4, <2>1, <2>2 DEF S!DocumentFormat, S!Scored, S!Verdict
<1>8. S!RefusalDeclared(Case, Observed) # "fail"
    BY <1>2, <1>3, <1>4 DEF S!RefusalDeclared, S!Scored, S!Verdict, S!Holds
<1>9. /\ score["report_written"] = S!ReportWritten(Case, Observed)
      /\ score["report_title"] = S!ReportTitle(Case, Observed)
      /\ score["report_answer"] = S!ReportAnswer(Case, Observed)
      /\ score["report_provenance"] = S!ReportProvenance(Case, Observed)
      /\ score["document_as_requested"] = S!DocumentAsRequested(Case, Observed)
      /\ score["document_format"] = S!DocumentFormat(Case, Observed)
      /\ score["refusal_declared"] = S!RefusalDeclared(Case, Observed)
    BY DEF S!Score
<1> HIDE DEF score
<1> QED BY <1>5, <1>6, <1>7, <1>8, <1>9 DEF FileChecks

(* The suite blames a run for its file only when the file could not be       *)
(* written or is gone: whatever a request asks for in words and whatever the *)
(* model reads in it, in every regime, a run that delivered what it decided  *)
(* on, or that was asked for nothing, fails no check of its file.            *)
THEOREM FilesAreScoredFairly == Spec => []ScoredAsAsked
<1>1. IInv /\ FirstTry => ScoredAsAsked
    BY ScoredFairly DEF FirstTry, ScoredAsAsked, Observable
<1> QED BY <1>1, FirstTryHolds, PTL

-----------------------------------------------------------------------------
(* The budgets of what a later request is written from.                      *)
Texts == [len : Nat, word : Nat, cut : BOOLEAN]

\* A division, and a place that is a whole number of words from the start.
LEMMA Divided ==
    ASSUME NEW a \in Int, NEW p \in Nat \ {0}
    PROVE  /\ a \div p \in Int
           /\ p * (a \div p) <= a /\ a < p * (a \div p) + p
           /\ a >= 0 => 0 <= a \div p /\ a \div p <= a
  OBVIOUS

LEMMA OnAWord ==
    ASSUME NEW head \in Nat, NEW word \in Nat \ {0}, head > word
    PROVE  word * ((head - 1) \div word) \in 0..head
<1> DEFINE q == (head - 1) \div word
<1>1. head - 1 \in Int /\ head - 1 >= 0
    OBVIOUS
<1>2. q \in Int /\ word * q <= head - 1 /\ 0 <= q
    BY <1>1, Divided
<1> HIDE DEF q
<1>3. word * q \in Int /\ 0 <= word * q
    BY <1>2
<1> QED BY <1>2, <1>3 DEF q

\* A text is held to its share, but for the mark of the cut.
LEMMA HeldToItsShare ==
    ASSUME NEW text \in Texts, NEW share \in Int
    PROVE  LET held == Bounded(text, share)
           IN  /\ held \in Texts
               /\ share >= 0 => held.len <= share + Note
               /\ held # text => held.cut /\ held.len >= Note
<1> DEFINE head == [text EXCEPT !.len = Sliced(text, share)]
           space == IF text.word = 0 \/ head.len <= text.word THEN -1
                    ELSE text.word * ((head.len - 1) \div text.word)
           near == IF share >= 0 THEN (4 * share) \div 5 ELSE -((-4 * share) \div 5)
           held == Bounded(text, share)
<1>0. Note \in Nat
    BY SizesAreNaturals
<1>1. head \in Texts /\ head.len = Sliced(text, share) /\ head.len \in Nat /\ head.word = text.word
    BY DEF Sliced, Texts
<1>2. share >= 0 => head.len = share
    BY <1>1 DEF Sliced
<1>3. text.word \in Nat
    BY DEF Texts
<1> HIDE DEF head
<1>4. space \in -1..head.len
    BY <1>1, <1>3, OnAWord
<1> HIDE DEF space
<1>5. Sliced(head, space) \in 0..head.len
    BY <1>1, <1>4 DEF Sliced
<1>6. held = IF text.len <= share THEN text
             ELSE [text EXCEPT !.len = Note + (IF space > near THEN Sliced(head, space) ELSE head.len), !.cut = TRUE]
    BY DEF Bounded, space, head
<1> HIDE DEF near, held
<1> DEFINE kept == IF space > near THEN Sliced(head, space) ELSE head.len
<1>7. kept \in 0..head.len
    BY <1>1, <1>5
<1>8. held = IF text.len <= share THEN text ELSE [text EXCEPT !.len = Note + kept, !.cut = TRUE]
    BY <1>6
<1> HIDE DEF kept
<1>9. CASE text.len <= share
  <2>1. held = text
      BY <1>8, <1>9
  <2>2. text.len \in Nat
      BY DEF Texts
  <2> QED BY <1>0, <1>9, <2>1, <2>2 DEF held
<1>10. CASE ~(text.len <= share)
  <2>1. held = [text EXCEPT !.len = Note + kept, !.cut = TRUE]
      BY <1>8, <1>10
  <2>2. Note + kept \in Nat /\ Note + kept >= Note
      BY <1>0, <1>1, <1>7
  <2>3. held \in Texts /\ held.len = Note + kept /\ held.cut
      BY <2>1, <2>2 DEF Texts
  <2>4. share >= 0 => held.len <= share + Note
      BY <1>0, <1>1, <1>2, <1>7, <2>3
  <2> QED BY <2>2, <2>3, <2>4 DEF held
<1> QED BY <1>9, <1>10

\* One block of FitBy: it takes its share of what is left and hands the rest on.
ShareOf(floored, left, parts) == IF floored /\ left < 0 THEN 0 ELSE left \div parts
Held(floored, blocks, i, before) ==
    LET text == Bounded(blocks[i].text, ShareOf(floored, before.left, Len(blocks) - i + 1))
    IN  [left |-> before.left - text.len,
         blocks |-> Append(before.blocks, [blocks[i] EXCEPT !.text = text])]
IsFit(floored, blocks, budget, f, k) ==
    f = [i \in 0..k |-> IF i = 0 THEN [left |-> budget, blocks |-> <<>>]
                        ELSE Held(floored, blocks, i, f[i - 1])]

LEMMA FitIs ==
    ASSUME NEW floored, NEW blocks, NEW budget
    PROVE  FitBy(floored, blocks, budget)
             = (CHOOSE f : IsFit(floored, blocks, budget, f, Len(blocks)))[Len(blocks)]
    BY Zenon DEF FitBy, IsFit, Held, ShareOf

\* There is such a function for every length: a shortest one without would have
\* one for the length before.
LEMMA FitExists ==
    ASSUME NEW floored, NEW blocks, NEW budget, NEW n \in Nat
    PROVE  \E f : IsFit(floored, blocks, budget, f, n)
<1> DEFINE start == [left |-> budget, blocks |-> <<>>]
           next(i, before) == Held(floored, blocks, i, before)
           Is(f, k) == f = [i \in 0..k |-> IF i = 0 THEN start ELSE next(i, f[i - 1])]
           Some == {k \in Nat : ~\E f : Is(f, k)}
<1>1. SUFFICES ASSUME Some # {} PROVE FALSE
    BY DEF IsFit
<1> HIDE DEF start, next
<1>2. PICK k \in Some : \A j \in Some : k <= j
  <2>1. Some \in SUBSET Nat
      OBVIOUS
  <2> HIDE DEF Some
  <2> QED BY <1>1, <2>1, Least
<1>3. k \in Nat
    OBVIOUS
<1>4. k # 0
  <2> DEFINE f == [i \in 0..0 |-> start]
  <2>1. Is(f, 0)
      OBVIOUS
  <2> HIDE DEF f
  <2>2. 0 \notin Some
      BY <2>1
  <2> QED BY <2>2
<1>5. PICK f : Is(f, k - 1)
  <2>1. k - 1 \in Nat /\ k - 1 < k
      BY <1>3, <1>4
  <2>2. k - 1 \notin Some
    <3> HIDE DEF Some
    <3> QED BY <1>2, <2>1, <1>3
  <2> QED BY <2>1, <2>2
<1> DEFINE g == [i \in 0..k |-> IF i = k THEN next(k, f[k - 1]) ELSE f[i]]
<1>6. ASSUME NEW i \in 0..k PROVE g[i] = IF i = 0 THEN start ELSE next(i, g[i - 1])
  <2>1. CASE i = k
    <3>1. g[i] = next(k, f[k - 1]) /\ g[k - 1] = f[k - 1]
        BY <1>3, <1>4, <2>1
    <3> QED BY <1>4, <2>1, <3>1
  <2>2. CASE i # k
    <3>1. i \in 0..(k - 1)
        BY <1>3, <2>2
    <3>2. g[i] = f[i] /\ f[i] = IF i = 0 THEN start ELSE next(i, f[i - 1])
        BY <1>5, <2>2, <3>1
    <3>3. i # 0 => g[i - 1] = f[i - 1]
        BY <1>3, <3>1
    <3> QED BY <3>2, <3>3
  <2> QED BY <2>1, <2>2
<1>7. g = [i \in 0..k |-> g[i]]
    OBVIOUS
<1> HIDE DEF g
<1>8. Is(g, k)
    BY <1>6, <1>7
<1> QED BY <1>8

\* What FitBy computes, block by block.
LEMMA FitUnfolds ==
    ASSUME NEW floored, NEW blocks, NEW budget, Len(blocks) \in Nat
    PROVE  \E f : /\ f[0] = [left |-> budget, blocks |-> <<>>]
                  /\ \A i \in 1..Len(blocks) : f[i] = Held(floored, blocks, i, f[i - 1])
                  /\ FitBy(floored, blocks, budget) = f[Len(blocks)]
<1> DEFINE f == CHOOSE f : IsFit(floored, blocks, budget, f, Len(blocks))
<1>1. IsFit(floored, blocks, budget, f, Len(blocks))
    BY FitExists
<1>2. FitBy(floored, blocks, budget) = f[Len(blocks)]
    BY FitIs
<1> HIDE DEF f
<1>3. f[0] = [left |-> budget, blocks |-> <<>>]
    BY <1>1 DEF IsFit
<1>4. ASSUME NEW i \in 1..Len(blocks) PROVE f[i] = Held(floored, blocks, i, f[i - 1])
    BY <1>1, <1>4 DEF IsFit
<1> QED BY <1>2, <1>3, <1>4

\* Blocks of texts, from sources Of and of kinds Kinds.
BlocksOf(Of, Kinds) == Seq([of : Of, kind : Kinds, text : Texts])

\* The same blocks, their texts held or not.
SameBlocks(blocks, held) ==
    /\ Len(held) <= Len(blocks)
    /\ \A j \in 1..Len(held) : held[j].of = blocks[j].of /\ held[j].kind = blocks[j].kind
                               /\ (held[j].text # blocks[j].text => held[j].text.cut)

\* A block is held: the others stay, and what it spends is no longer left.
LEMMA OneIsHeld ==
    ASSUME NEW Of, NEW Kinds, NEW blocks \in BlocksOf(Of, Kinds), NEW floored \in BOOLEAN,
           NEW i \in 1..Len(blocks), NEW before,
           before.left \in Int, before.blocks \in BlocksOf(Of, Kinds), Len(before.blocks) = i - 1,
           SameBlocks(blocks, before.blocks)
    PROVE  LET after == Held(floored, blocks, i, before)
               share == ShareOf(floored, before.left, Len(blocks) - i + 1)
           IN  /\ after.left \in Int /\ after.blocks \in BlocksOf(Of, Kinds) /\ Len(after.blocks) = i
               /\ share \in Int
               /\ \A j \in 1..(i - 1) : after.blocks[j] = before.blocks[j]
               /\ after.blocks[i].text.len \in Nat
               /\ after.left = before.left - after.blocks[i].text.len
               /\ share >= 0 => after.left >= before.left - share - Note
               /\ SameBlocks(blocks, after.blocks)
<1> DEFINE Block1 == [of : Of, kind : Kinds, text : Texts]
           share == ShareOf(floored, before.left, Len(blocks) - i + 1)
           text == Bounded(blocks[i].text, share)
           held == [blocks[i] EXCEPT !.text = text]
           after == Held(floored, blocks, i, before)
<1>0. Note \in Nat
    BY SizesAreNaturals
<1>1. blocks \in Seq(Block1) /\ before.blocks \in Seq(Block1) /\ Len(blocks) \in Nat
    BY DEF BlocksOf
<1>2. blocks[i] \in Block1
    <2> HIDE DEF Block1
    <2> QED BY <1>1
<1>3. blocks[i].text \in Texts
    BY <1>2
<1>4. share \in Int
  <2>1. Len(blocks) - i + 1 \in Nat \ {0}
      BY <1>1
  <2> QED BY <2>1, Divided DEF ShareOf
<1> HIDE DEF share
<1>5. text \in Texts /\ (share >= 0 => text.len <= share + Note) /\ (text # blocks[i].text => text.cut)
    BY <1>3, <1>4, HeldToItsShare
<1>6. after = [left |-> before.left - text.len, blocks |-> Append(before.blocks, held)]
    BY DEF Held, share
<1> HIDE DEF text, after
<1>7. held \in Block1 /\ held.text = text /\ held.of = blocks[i].of /\ held.kind = blocks[i].kind
    BY <1>2, <1>5
<1>8. text.len \in Nat
    BY <1>5 DEF Texts
<1> HIDE DEF held
<1>9. after.left = before.left - text.len /\ after.blocks = Append(before.blocks, held)
    BY <1>6
<1>10. /\ after.blocks \in Seq(Block1) /\ Len(after.blocks) = i /\ after.blocks[i] = held
       /\ \A j \in 1..(i - 1) : after.blocks[j] = before.blocks[j]
  <2> HIDE DEF Block1
  <2> QED BY <1>1, <1>7, <1>9
<1>11. SameBlocks(blocks, after.blocks)
  <2> SUFFICES ASSUME NEW j \in 1..i
               PROVE  /\ after.blocks[j].of = blocks[j].of /\ after.blocks[j].kind = blocks[j].kind
                      /\ (after.blocks[j].text # blocks[j].text => after.blocks[j].text.cut)
      BY <1>1, <1>10 DEF SameBlocks
  <2>1. CASE j = i
      BY <1>5, <1>7, <1>10, <2>1
  <2>2. CASE j # i
    <3>1. j \in 1..(i - 1) /\ j \in 1..Len(before.blocks)
        BY <1>1, <2>2
    <3> QED BY <1>10, <3>1 DEF SameBlocks
  <2> QED BY <2>1, <2>2
<1>12. after.left \in Int /\ (share >= 0 => after.left >= before.left - share - Note)
    BY <1>0, <1>4, <1>5, <1>8, <1>9
<1>13. after.blocks \in BlocksOf(Of, Kinds)
    BY <1>10 DEF BlocksOf
<1> QED BY <1>4, <1>7, <1>8, <1>9, <1>10, <1>11, <1>12, <1>13 DEF after, share

\* With a floor, a mark for each block is all that can be overrun.
LEMMA FlooredStep ==
    ASSUME NEW left \in Int, NEW budget \in Int, NEW n \in Nat, NEW parts \in Nat \ {0}, NEW note \in Nat,
           left >= (IF budget < 0 THEN budget ELSE 0) - n * note
    PROVE  LET share == ShareOf(TRUE, left, parts)
           IN  share >= 0 /\ left - share - note >= (IF budget < 0 THEN budget ELSE 0) - (n + 1) * note
<1> DEFINE share == ShareOf(TRUE, left, parts)
           floor == IF budget < 0 THEN budget ELSE 0
           before == n * note
           after == (n + 1) * note
<1> SUFFICES share >= 0 /\ left - share - note >= floor - after
    OBVIOUS
<1>1. floor \in Int /\ floor <= 0 /\ left >= floor - before
    OBVIOUS
<1> HIDE DEF floor
<1>2. before \in Nat /\ after = before + note
    OBVIOUS
<1> HIDE DEF before, after
<1>3. CASE left < 0
  <2>1. share = 0
      BY <1>3 DEF ShareOf
  <2> HIDE DEF share
  <2> QED BY <1>1, <1>2, <2>1
<1>4. CASE left >= 0
  <2>1. share \in Int /\ 0 <= share /\ share <= left
      BY <1>4, Divided DEF ShareOf
  <2>2. left \in Int /\ note \in Nat
      OBVIOUS
  <2> HIDE DEF share
  <2>3. left - share - note >= -note
      BY ONLY <2>1, <2>2
  <2>4. floor - after <= -note
      BY ONLY <1>1, <1>2, <2>2
  <2>5. after \in Int
      BY ONLY <1>2, <2>2
  <2> QED BY ONLY <1>1, <2>1, <2>2, <2>3, <2>4, <2>5
<1> HIDE DEF share
<1> QED BY <1>3, <1>4

\* Without one, the shares stay above the marks as long as there is enough left.
LEMMA UnflooredStep ==
    ASSUME NEW left \in Int, NEW parts \in Nat \ {0}, NEW note \in Nat,
           left >= parts * ((parts - 1) * note)
    PROVE  LET share == ShareOf(FALSE, left, parts)
           IN  /\ share >= 0
               /\ parts = 1 => left - share - note >= -note
               /\ parts # 1 => left - share - note >= (parts - 1) * ((parts - 2) * note)
<1> DEFINE share == ShareOf(FALSE, left, parts)
           least == (parts - 1) * note
<1>1. least \in Nat /\ parts * least \in Nat
    OBVIOUS
<1>2. /\ share \in Int /\ parts * share <= left /\ left < parts * share + parts
      /\ left >= 0 => 0 <= share /\ share <= left
    BY Divided DEF ShareOf
<1> HIDE DEF share
<1>3. left >= parts * least
    OBVIOUS
<1>4. share >= 0 /\ share <= left
  <2> HIDE DEF least
  <2> QED BY <1>1, <1>2, <1>3
<1>5. share >= least
  <2> HIDE DEF least
  <2> SUFFICES ASSUME share + 1 <= least PROVE FALSE
      BY <1>1, <1>2
  <2>1. parts * (share + 1) <= parts * least
      BY <1>1, <1>2
  <2>2. parts * (share + 1) = parts * share + parts
      BY <1>2
  <2> QED BY <1>1, <1>2, <1>3, <2>1, <2>2
<1>6. ASSUME parts # 1 PROVE left - share - note >= (parts - 1) * ((parts - 2) * note)
  <2> DEFINE m == parts - 2
  <2>1. m \in Nat /\ parts = m + 2
      BY <1>6
  <2> HIDE DEF m
  <2>2. least = (m + 1) * note /\ least = m * note + note /\ m * note \in Nat
      BY <2>1
  <2>3. left - share >= (m + 1) * share
    <3>1. parts * share = (m + 1) * share + share
        BY <1>2, <2>1
    <3> QED BY <1>2, <2>1, <3>1
  <2>4. (m + 1) * share >= (m + 1) * least
    <3> HIDE DEF least
    <3> QED BY <1>1, <1>2, <1>5, <2>1
  <2>5. (m + 1) * least = (m + 1) * (m * note) + (m + 1) * note
      BY <2>1, <2>2
  <2>6. (m + 1) * note >= note
      BY <2>1, <2>2
  <2>7. (parts - 1) * ((parts - 2) * note) = (m + 1) * (m * note)
      BY <2>1
  <2>8. (m + 1) * (m * note) \in Int /\ (m + 1) * share \in Int /\ (m + 1) * least \in Int /\ (m + 1) * note \in Int
      BY <1>1, <1>2, <2>1, <2>2
  <2> HIDE DEF least
  <2> QED BY <1>2, <2>3, <2>4, <2>5, <2>6, <2>7, <2>8
<1>7. ASSUME parts = 1 PROVE left - share - note >= -note
    BY <1>2, <1>4
<1> QED BY <1>4, <1>6, <1>7 DEF share

\* A sum unfolds: as for any fold of a set, by its smallest counterexample.
LEMMA Smallest ==
    ASSUME NEW U, IsFiniteSet(U), NEW Some \in SUBSET SUBSET U, Some # {}
    PROVE  \E T \in Some : \A V \in Some : V \subseteq T => V = T
<1> DEFINE Order == StrictSubsetOrdering(U)
           Finite == FiniteSubsetsOf(U)
<1>1. IsWellFoundedOn(Order, Finite)
    BY FS_StrictSubsetOrderingWellFounded
<1>2. Some \subseteq Finite
    BY FS_Subset DEF FiniteSubsetsOf
<1>3. PICK T \in Some : \A V \in Some : ~ (<<V, T>> \in Order)
    <2> HIDE DEF Order, Finite
    <2> QED BY <1>1, <1>2, WFMin
<1>4. ASSUME NEW V \in Some, V \subseteq T, V # T PROVE FALSE
    BY <1>3, <1>4 DEF StrictSubsetOrdering
<1> QED BY <1>4

\* The function that the sum's fold computes, over the subsets of X.
IsSum(fun, sum, X) == sum = [s \in SUBSET X |-> IF s = {} THEN 0 ELSE
    LET x == CHOOSE y \in s : TRUE IN fun[x] + sum[s \ {x}]]
SumOf(fun, X) == CHOOSE sum : IsSum(fun, sum, X)
Sum(fun, X) == SumFunctionOnSet(fun, X)

LEMMA SumIs == ASSUME NEW fun, NEW X PROVE Sum(fun, X) = SumOf(fun, X)[X]
   BY Zenon DEF SumFunctionOnSet, FoldFunctionOnSet, MapThenFoldSet, SumOf, IsSum, Sum

LEMMA SumAt ==
    ASSUME NEW fun, NEW sum, NEW X, IsSum(fun, sum, X), NEW T \in SUBSET X
    PROVE  LET x == CHOOSE y \in T : TRUE
           IN  sum[T] = IF T = {} THEN 0 ELSE fun[x] + sum[T \ {x}]
    BY DEF IsSum

LEMMA OneSum ==
    ASSUME NEW fun, NEW X, IsFiniteSet(X), NEW T, NEW g, NEW h,
           IsSum(fun, g, X), IsSum(fun, h, T), T \subseteq X
    PROVE  \A U \in SUBSET T : g[U] = h[U]
<1> DEFINE Some == {U \in SUBSET T : g[U] # h[U]}
<1> SUFFICES ASSUME Some # {} PROVE FALSE
    OBVIOUS
<1>1. PICK U \in Some : \A V \in Some : V \subseteq U => V = U
  <2>1. Some \in SUBSET SUBSET X
      OBVIOUS
  <2> HIDE DEF Some
  <2> QED BY <2>1, Smallest
<1> DEFINE x == CHOOSE y \in U : TRUE
<1>2. g[U] = IF U = {} THEN 0 ELSE fun[x] + g[U \ {x}]
  <2>1. U \in SUBSET X
      OBVIOUS
  <2>2. g = [s \in SUBSET X |-> IF s = {} THEN 0 ELSE LET y == CHOOSE z \in s : TRUE IN fun[y] + g[s \ {y}]]
      BY Zenon DEF IsSum
  <2> QED BY ONLY <2>1, <2>2, Zenon
<1>3. h[U] = IF U = {} THEN 0 ELSE fun[x] + h[U \ {x}]
  <2>1. U \in SUBSET T
      OBVIOUS
  <2>2. h = [s \in SUBSET T |-> IF s = {} THEN 0 ELSE LET y == CHOOSE z \in s : TRUE IN fun[y] + h[s \ {y}]]
      BY Zenon DEF IsSum
  <2> QED BY ONLY <2>1, <2>2, Zenon
<1>4. CASE U = {}
    BY <1>2, <1>3, <1>4
<1>5. CASE U # {}
  <2>1. x \in U
      BY <1>5
  <2> HIDE DEF x
  <2>2. U \ {x} \subseteq U /\ U \ {x} # U /\ U \ {x} \in SUBSET T
      BY <2>1
  <2>3. g[U \ {x}] = h[U \ {x}]
      BY <1>1, <2>2
  <2> QED BY <1>2, <1>3, <1>5, <2>3
<1> QED BY <1>4, <1>5

LEMMA SumExists ==
    ASSUME NEW fun, NEW X, IsFiniteSet(X)
    PROVE  \A T \in SUBSET X : IsSum(fun, SumOf(fun, T), T)
<1> DEFINE Some == {T \in SUBSET X : ~IsSum(fun, SumOf(fun, T), T)}
<1> SUFFICES ASSUME Some # {} PROVE FALSE
    OBVIOUS
<1>1. PICK T \in Some : \A U \in Some : U \subseteq T => U = T
  <2>1. Some \in SUBSET SUBSET X
      OBVIOUS
  <2> HIDE DEF Some
  <2> QED BY <2>1, Smallest
<1>2. IsFiniteSet(T)
    BY FS_Subset
<1>3. ASSUME NEW U \in SUBSET T, U # T PROVE IsSum(fun, SumOf(fun, U), U)
    BY <1>1, <1>3
<1> DEFINE g == [s \in SUBSET T |-> IF s = {} THEN 0 ELSE
                    LET x == CHOOSE y \in s : TRUE IN fun[x] + SumOf(fun, s \ {x})[s \ {x}]]
<1>4. ASSUME NEW U \in SUBSET T, U # T PROVE g[U] = SumOf(fun, U)[U]
  <2> DEFINE x == CHOOSE y \in U : TRUE
             V == U \ {x}
  <2>1. IsSum(fun, SumOf(fun, U), U)
      BY <1>3, <1>4
  <2>2. SumOf(fun, U)[U] = IF U = {} THEN 0 ELSE fun[x] + SumOf(fun, U)[V]
      BY <2>1, SumAt
  <2>3. g[U] = IF U = {} THEN 0 ELSE fun[x] + SumOf(fun, V)[V]
      OBVIOUS
  <2>4. ASSUME U # {} PROVE SumOf(fun, U)[V] = SumOf(fun, V)[V]
    <3>1. x \in U
        BY <2>4
    <3> HIDE DEF x
    <3>2. V \subseteq U /\ V \in SUBSET T /\ V # T
        BY <3>1
    <3>3. IsSum(fun, SumOf(fun, V), V)
        BY <1>3, <3>2
    <3>4. IsFiniteSet(U)
        BY <1>2, FS_Subset
    <3> HIDE DEF V
    <3> QED BY <2>1, <3>2, <3>3, <3>4, OneSum
  <2> QED BY <2>2, <2>3, <2>4
<1>5. ASSUME NEW s \in SUBSET T
      PROVE  g[s] = IF s = {} THEN 0 ELSE LET x == CHOOSE y \in s : TRUE IN fun[x] + g[s \ {x}]
  <2> DEFINE x == CHOOSE y \in s : TRUE
             V == s \ {x}
  <2>1. g[s] = IF s = {} THEN 0 ELSE fun[x] + SumOf(fun, V)[V]
      OBVIOUS
  <2>2. ASSUME s # {} PROVE g[V] = SumOf(fun, V)[V]
    <3>1. x \in s
        BY <2>2
    <3> HIDE DEF x
    <3>2. V \in SUBSET T /\ V # T
        BY <3>1
    <3> HIDE DEF V, g
    <3> QED BY <1>4, <3>2
  <2> HIDE DEF g
  <2> QED BY <2>1, <2>2
<1>6. g = [s \in SUBSET T |-> g[s]]
    OBVIOUS
<1> HIDE DEF g
<1>7. IsSum(fun, g, T)
  <2>1. g = [s \in SUBSET T |-> IF s = {} THEN 0 ELSE LET x == CHOOSE y \in s : TRUE IN fun[x] + g[s \ {x}]]
      BY <1>5, <1>6
  <2> QED BY <2>1 DEF IsSum
<1> QED BY <1>1, <1>7 DEF SumOf

\* A sum unfolds ...
LEMMA SumUnfolds ==
    ASSUME NEW fun, NEW X, IsFiniteSet(X)
    PROVE  LET x == CHOOSE y \in X : TRUE
           IN  Sum(fun, X) = IF X = {} THEN 0 ELSE fun[x] + Sum(fun, X \ {x})
<1> DEFINE x == CHOOSE y \in X : TRUE
           T == X \ {x}
<1>1. IsSum(fun, SumOf(fun, X), X) /\ IsSum(fun, SumOf(fun, T), T)
    BY SumExists
<1>2. SumOf(fun, X)[X] = IF X = {} THEN 0 ELSE fun[x] + SumOf(fun, X)[T]
    BY <1>1, SumAt
<1>3. SumOf(fun, X)[T] = SumOf(fun, T)[T]
    BY <1>1, OneSum
<1> HIDE DEF x, T
<1>4. Sum(fun, X) = SumOf(fun, X)[X] /\ Sum(fun, T) = SumOf(fun, T)[T]
    BY SumIs
<1> QED BY <1>2, <1>3, <1>4 DEF x, T

LEMMA SumIsNat ==
    ASSUME NEW fun, NEW X, IsFiniteSet(X), \A y \in X : fun[y] \in Nat
    PROVE  \A T \in SUBSET X : Sum(fun, T) \in Nat
<1> DEFINE Some == {T \in SUBSET X : Sum(fun, T) \notin Nat}
<1> SUFFICES ASSUME Some # {} PROVE FALSE
    OBVIOUS
<1>1. PICK T \in Some : \A U \in Some : U \subseteq T => U = T
  <2>1. Some \in SUBSET SUBSET X
      OBVIOUS
  <2> HIDE DEF Some
  <2> QED BY <2>1, Smallest
<1> DEFINE x == CHOOSE y \in T : TRUE
<1>2. IsFiniteSet(T)
    BY FS_Subset
<1>3. Sum(fun, T) = IF T = {} THEN 0 ELSE fun[x] + Sum(fun, T \ {x})
    BY <1>2, SumUnfolds
<1>4. ASSUME T # {} PROVE x \in T
    BY <1>4
<1> HIDE DEF x
<1>5. ASSUME T # {} PROVE fun[x] \in Nat /\ Sum(fun, T \ {x}) \in Nat
  <2>1. x \in T /\ T \ {x} \subseteq T /\ T \ {x} # T
      BY <1>4, <1>5
  <2> QED BY <1>1, <2>1
<1> QED BY <1>1, <1>3, <1>5

\* ... whichever entry is taken first.
LEMMA SumPicks ==
    ASSUME NEW fun, NEW X, IsFiniteSet(X), \A y \in X : fun[y] \in Nat
    PROVE  \A T \in SUBSET X : \A a \in T : Sum(fun, T) = fun[a] + Sum(fun, T \ {a})
<1> DEFINE Some == {T \in SUBSET X : \E a \in T : Sum(fun, T) # fun[a] + Sum(fun, T \ {a})}
<1> SUFFICES ASSUME Some # {} PROVE FALSE
    OBVIOUS
<1>1. PICK T \in Some : \A U \in Some : U \subseteq T => U = T
  <2>1. Some \in SUBSET SUBSET X
      OBVIOUS
  <2> HIDE DEF Some
  <2> QED BY <2>1, Smallest
<1>2. PICK a \in T : Sum(fun, T) # fun[a] + Sum(fun, T \ {a})
    OBVIOUS
<1> DEFINE x == CHOOSE y \in T : TRUE
<1>3. x \in T
    BY <1>2
<1>4. IsFiniteSet(T)
    BY FS_Subset
<1>5. Sum(fun, T) = fun[x] + Sum(fun, T \ {x})
    BY <1>2, <1>4, SumUnfolds
<1> HIDE DEF x
<1>6. x # a
    BY <1>2, <1>5
<1> DEFINE V == T \ {a, x}
<1>7. T \ {x} \in SUBSET X /\ T \ {a} \in SUBSET X /\ V \in SUBSET X
    OBVIOUS
<1>8. Sum(fun, T \ {x}) = fun[a] + Sum(fun, V)
  <2>1. T \ {x} \notin Some /\ a \in T \ {x} /\ V = (T \ {x}) \ {a}
      BY <1>1, <1>3, <1>6
  <2> QED BY <1>7, <2>1
<1>9. Sum(fun, T \ {a}) = fun[x] + Sum(fun, V)
  <2>1. T \ {a} \notin Some /\ x \in T \ {a} /\ V = (T \ {a}) \ {x}
      BY <1>1, <1>2, <1>3, <1>6
  <2> QED BY <1>7, <2>1
<1>10. fun[a] \in Nat /\ fun[x] \in Nat /\ Sum(fun, V) \in Nat
    BY <1>1, <1>2, <1>3, <1>7, SumIsNat
<1>11. fun[x] + (fun[a] + Sum(fun, V)) = fun[a] + (fun[x] + Sum(fun, V))
    BY <1>10
<1> QED BY <1>2, <1>5, <1>8, <1>9, <1>11

LEMMA SumOfNothing == ASSUME NEW fun PROVE Sum(fun, {}) = 0
<1>1. IsFiniteSet({})
    BY FS_EmptySet
<1> QED BY <1>1, SumUnfolds

\* Entries that agree have one sum.
LEMMA SumAgrees ==
    ASSUME NEW f, NEW g, NEW X, IsFiniteSet(X), \A y \in X : f[y] = g[y] /\ f[y] \in Nat
    PROVE  \A T \in SUBSET X : Sum(f, T) = Sum(g, T)
<1> DEFINE Some == {T \in SUBSET X : Sum(f, T) # Sum(g, T)}
<1> SUFFICES ASSUME Some # {} PROVE FALSE
    OBVIOUS
<1>1. PICK T \in Some : \A U \in Some : U \subseteq T => U = T
  <2>1. Some \in SUBSET SUBSET X
      OBVIOUS
  <2> HIDE DEF Some
  <2> QED BY <2>1, Smallest
<1>2. T # {}
    BY SumOfNothing
<1>3. PICK a : a \in T
    BY <1>2
<1>4. Sum(f, T) = f[a] + Sum(f, T \ {a}) /\ Sum(g, T) = g[a] + Sum(g, T \ {a})
    BY <1>3, SumPicks
<1>5. Sum(f, T \ {a}) = Sum(g, T \ {a})
    BY <1>1, <1>3
<1> QED BY <1>1, <1>3, <1>4, <1>5

\* One more block spends its own length more.
LEMMA OneMoreIsSpent ==
    ASSUME NEW blocks, NEW more, Len(blocks) \in Nat, DOMAIN blocks = 1..Len(blocks),
           DOMAIN more = 1..(Len(blocks) + 1), \A i \in DOMAIN more : more[i].text.len \in Nat,
           \A i \in DOMAIN blocks : more[i] = blocks[i]
    PROVE  Spent(more) = Spent(blocks) + more[Len(blocks) + 1].text.len /\ Spent(blocks) \in Nat
<1> DEFINE n == Len(blocks) + 1
           f == [i \in DOMAIN blocks |-> blocks[i].text.len]
           g == [i \in DOMAIN more |-> more[i].text.len]
           X == 1..n
           T == 1..Len(blocks)
<1>1. Spent(blocks) = Sum(f, T) /\ Spent(more) = Sum(g, X)
    BY Zenon DEF Spent, SumFunction, Sum
<1>2. IsFiniteSet(X) /\ n \in X /\ X \ {n} = T /\ T \in SUBSET X /\ IsFiniteSet(T)
    BY SMTT(30), FS_Interval
<1>3. \A i \in X : g[i] = more[i].text.len /\ g[i] \in Nat
    OBVIOUS
<1>4. \A i \in T : f[i] = g[i] /\ f[i] \in Nat
    OBVIOUS
<1> HIDE DEF f, g, X, T, n
<1>5. Sum(g, X) = g[n] + Sum(g, T)
  <2>1. \A U \in SUBSET X : \A a \in U : Sum(g, U) = g[a] + Sum(g, U \ {a})
      BY ZenonT(30), <1>2, <1>3, SumPicks
  <2>2. X \in SUBSET X
      OBVIOUS
  <2>3. Sum(g, X) = g[n] + Sum(g, X \ {n})
      BY <1>2, <2>1, <2>2, Zenon
  <2> QED BY <1>2, <2>3
<1>6. Sum(f, T) = Sum(g, T)
    BY <1>2, <1>4, SumAgrees
<1>7. Sum(f, T) \in Nat
    BY <1>2, <1>4, SumIsNat
<1>8. g[n] = more[n].text.len /\ g[n] \in Nat
    BY <1>2, <1>3
<1> QED BY <1>1, <1>5, <1>6, <1>7, <1>8 DEF n

LEMMA NothingIsSpent == Spent(<<>>) = 0
<1> DEFINE f == [i \in DOMAIN <<>> |-> <<>>[i].text.len]
<1>1. DOMAIN f = {}
    OBVIOUS
<1>2. Spent(<<>>) = Sum(f, DOMAIN f)
    BY Zenon DEF Spent, SumFunction, Sum
<1> HIDE DEF f
<1> QED BY <1>1, <1>2, SumOfNothing

LEMMA EitherUnfolds ==
    ASSUME NEW blocks, NEW budget, Len(blocks) \in Nat
    PROVE  \A floored \in BOOLEAN :
             \E f : /\ f[0] = [left |-> budget, blocks |-> <<>>]
                    /\ \A i \in 1..Len(blocks) : f[i] = Held(floored, blocks, i, f[i - 1])
                    /\ FitBy(floored, blocks, budget) = f[Len(blocks)]
    BY FitUnfolds

\* The part of FitBy's state that does not depend on how much is left.
Keeps(blocks, budget, Of, Kinds, now, i) ==
    /\ now.left \in Int /\ now.blocks \in BlocksOf(Of, Kinds) /\ Len(now.blocks) = i
    /\ SameBlocks(blocks, now.blocks)
    /\ Spent(now.blocks) \in Nat /\ now.left = budget - Spent(now.blocks)

LEMMA StartKeeps ==
    ASSUME NEW Of, NEW Kinds, NEW blocks \in BlocksOf(Of, Kinds), NEW budget \in Int
    PROVE  Keeps(blocks, budget, Of, Kinds, [left |-> budget, blocks |-> <<>>], 0)
<1>1. Len(blocks) \in Nat
    BY DEF BlocksOf
<1>2. <<>> \in BlocksOf(Of, Kinds) /\ Len(<<>>) = 0
    BY DEF BlocksOf
<1>3. SameBlocks(blocks, <<>>)
    BY <1>1, <1>2 DEF SameBlocks
<1> QED BY <1>2, <1>3, NothingIsSpent DEF Keeps

LEMMA HeldKeeps ==
    ASSUME NEW Of, NEW Kinds, NEW blocks \in BlocksOf(Of, Kinds), NEW budget \in Int,
           NEW floored \in BOOLEAN, NEW i \in 1..Len(blocks), NEW before,
           Keeps(blocks, budget, Of, Kinds, before, i - 1)
    PROVE  LET after == Held(floored, blocks, i, before)
               share == ShareOf(floored, before.left, Len(blocks) - i + 1)
           IN  /\ Keeps(blocks, budget, Of, Kinds, after, i)
               /\ share \in Int /\ (share >= 0 => after.left >= before.left - share - Note)
<1> DEFINE after == Held(floored, blocks, i, before)
           share == ShareOf(floored, before.left, Len(blocks) - i + 1)
<1>1. /\ before.left \in Int /\ before.blocks \in BlocksOf(Of, Kinds) /\ Len(before.blocks) = i - 1
      /\ SameBlocks(blocks, before.blocks)
      /\ Spent(before.blocks) \in Nat /\ before.left = budget - Spent(before.blocks)
    BY DEF Keeps
<1>2. /\ after.left \in Int /\ after.blocks \in BlocksOf(Of, Kinds) /\ Len(after.blocks) = i
      /\ share \in Int
      /\ \A j \in 1..(i - 1) : after.blocks[j] = before.blocks[j]
      /\ after.blocks[i].text.len \in Nat
      /\ after.left = before.left - after.blocks[i].text.len
      /\ share >= 0 => after.left >= before.left - share - Note
      /\ SameBlocks(blocks, after.blocks)
    BY <1>1, OneIsHeld
<1> HIDE DEF after, share
<1>3. Len(blocks) \in Nat /\ i \in Nat /\ i - 1 \in Nat
    BY DEF BlocksOf
<1>4. /\ DOMAIN before.blocks = 1..Len(before.blocks) /\ Len(before.blocks) \in Nat
      /\ DOMAIN after.blocks = 1..(Len(before.blocks) + 1)
      /\ Len(before.blocks) + 1 = i
    BY SMTT(30), <1>1, <1>2, <1>3 DEF BlocksOf
<1>5. \A j \in DOMAIN after.blocks : after.blocks[j].text.len \in Nat
  <2> SUFFICES ASSUME NEW j \in DOMAIN after.blocks PROVE after.blocks[j].text.len \in Nat
      OBVIOUS
  <2> DEFINE Record == [of : Of, kind : Kinds, text : Texts]
  <2>1. after.blocks \in Seq(Record)
      BY <1>2 DEF BlocksOf
  <2>2. after.blocks[j] \in Record
    <3> HIDE DEF Record
    <3> QED BY <2>1
  <2>3. after.blocks[j].text \in Texts
      BY <2>2
  <2> QED BY <2>3 DEF Texts
<1>6. \A j \in DOMAIN before.blocks : after.blocks[j] = before.blocks[j]
    BY <1>1, <1>2, <1>4
<1>7. Spent(after.blocks) = Spent(before.blocks) + after.blocks[Len(before.blocks) + 1].text.len
    BY <1>4, <1>5, <1>6, OneMoreIsSpent
<1>8. Spent(after.blocks) \in Nat /\ after.left = budget - Spent(after.blocks)
    BY SMTT(30), <1>1, <1>2, <1>4, <1>7
<1>9. Keeps(blocks, budget, Of, Kinds, after, i)
    BY <1>2, <1>8 DEF Keeps
<1> QED BY <1>2, <1>9 DEF after, share

\* Whatever its share, every text is there, whole or marked as cut.
Whole(blocks, held) == Len(held) = Len(blocks) /\ SameBlocks(blocks, held)

\* What earlier runs, and each half of them, may spend (prior_jobs._fit).  The
\* floor under a share is what makes the marks the whole of the overrun.
THEOREM EarlierRunsFit ==
    ASSUME NEW Of, NEW Kinds, NEW blocks \in BlocksOf(Of, Kinds), NEW budget \in Int
    PROVE  LET held == Fit(blocks, budget).blocks
           IN  /\ Whole(blocks, held)
               /\ Spent(held) <= (IF budget < 0 THEN 0 ELSE budget) + Len(held) * Note
<1>0. Len(blocks) \in Nat /\ Note \in Nat
    BY SizesAreNaturals DEF BlocksOf
<1>1. PICK f : /\ f[0] = [left |-> budget, blocks |-> <<>>]
               /\ \A i \in 1..Len(blocks) : f[i] = Held(TRUE, blocks, i, f[i - 1])
               /\ FitBy(TRUE, blocks, budget) = f[Len(blocks)]
    BY <1>0, EitherUnfolds
<1> DEFINE floor == IF budget < 0 THEN budget ELSE 0
           Fine(i) == Keeps(blocks, budget, Of, Kinds, f[i], i) /\ f[i].left >= floor - i * Note
           Some == {i \in Nat : i <= Len(blocks) /\ ~Fine(i)}
<1>2. Some = {}
  <2> SUFFICES ASSUME Some # {} PROVE FALSE
      OBVIOUS
  <2>1. PICK i \in Some : \A k \in Some : i <= k
    <3>1. Some \in SUBSET Nat
        OBVIOUS
    <3> HIDE DEF Some
    <3> QED BY <3>1, Least
  <2>2. Fine(0)
    <3>1. floor - 0 * Note <= budget
        BY <1>0
    <3> HIDE DEF floor
    <3> QED BY <1>1, <3>1, StartKeeps
  <2>3. i \in 1..Len(blocks)
    <3> HIDE DEF Fine
    <3> QED BY <1>0, <2>2
  <2>4. Fine(i - 1)
    <3> HIDE DEF Fine
    <3> QED BY <1>0, <2>1, <2>3
  <2> DEFINE before == f[i - 1]
             after == f[i]
             share == ShareOf(TRUE, before.left, Len(blocks) - i + 1)
  <2>5. Keeps(blocks, budget, Of, Kinds, before, i - 1) /\ after = Held(TRUE, blocks, i, before)
      BY <1>1, <2>3, <2>4
  <2>6. /\ Keeps(blocks, budget, Of, Kinds, after, i)
        /\ share \in Int /\ (share >= 0 => after.left >= before.left - share - Note)
    <3> HIDE DEF before, after
    <3> QED BY <2>3, <2>5, HeldKeeps
  <2>7. before.left \in Int /\ after.left \in Int
      BY <2>5, <2>6 DEF Keeps
  <2>8. share >= 0 /\ before.left - share - Note >= floor - i * Note
    <3>1. i - 1 \in Nat /\ (i - 1) + 1 = i /\ Len(blocks) - i + 1 \in Nat \ {0}
        BY <1>0, <2>3
    <3>2. before.left >= (IF budget < 0 THEN budget ELSE 0) - (i - 1) * Note
        BY <2>4
    <3> HIDE DEF before
    <3> QED BY <1>0, <2>7, <3>1, <3>2, FlooredStep
  <2>9. after.left >= floor - i * Note
    <3>1. i * Note \in Int /\ floor \in Int
        BY <1>0, <2>3
    <3> HIDE DEF before, after, share, floor
    <3> QED BY <1>0, <2>6, <2>7, <2>8, <3>1
  <2>10. Fine(i)
      BY <2>6, <2>9
  <2> QED BY <2>10
<1>3. Fine(Len(blocks))
  <2> HIDE DEF Fine
  <2> QED BY <1>0, <1>2
<1>4. Fit(blocks, budget) = f[Len(blocks)]
    BY <1>1 DEF Fit
<1> DEFINE held == f[Len(blocks)].blocks
<1>5. /\ Len(held) = Len(blocks) /\ SameBlocks(blocks, held)
      /\ Spent(held) \in Nat /\ f[Len(blocks)].left = budget - Spent(held)
    BY <1>3 DEF Keeps
<1>6. f[Len(blocks)].left >= floor - Len(blocks) * Note
    BY <1>3
<1> HIDE DEF held
<1>7. Spent(held) <= (IF budget < 0 THEN 0 ELSE budget) + Len(held) * Note
  <2>1. Len(blocks) * Note \in Nat
      BY <1>0
  <2> QED BY <1>5, <1>6, <2>1
<1> QED BY <1>4, <1>5, <1>7 DEF held, Whole

\* What the notes are written from (research._retrieved), which has no floor: n
\* documents keep to the budget, and no share turns negative, when it holds
\* n(n - 1) marks - with the code's 32000 characters, twenty-two documents.
THEOREM TheNotesFit ==
    ASSUME NEW Of, NEW Kinds, NEW blocks \in BlocksOf(Of, Kinds),
           MaxMaterial >= Len(blocks) * ((Len(blocks) - 1) * Note)
    PROVE  LET held == NotesFit(blocks)
           IN  Whole(blocks, held) /\ Spent(held) <= MaxMaterial + Note
<1> DEFINE n == Len(blocks)
           budget == MaxMaterial
<1>0. n \in Nat /\ Note \in Nat /\ budget \in Nat /\ budget \in Int
    BY SizesAreNaturals DEF BlocksOf
<1>1. PICK f : /\ f[0] = [left |-> budget, blocks |-> <<>>]
               /\ \A i \in 1..n : f[i] = Held(FALSE, blocks, i, f[i - 1])
               /\ FitBy(FALSE, blocks, budget) = f[n]
    BY <1>0, EitherUnfolds
<1> DEFINE Ample(left, parts) == IF parts = 0 THEN left >= -Note ELSE left >= parts * ((parts - 1) * Note)
           Fine(i) == Keeps(blocks, budget, Of, Kinds, f[i], i) /\ Ample(f[i].left, n - i)
           Some == {i \in Nat : i <= n /\ ~Fine(i)}
<1>2. Some = {}
  <2> SUFFICES ASSUME Some # {} PROVE FALSE
      OBVIOUS
  <2>1. PICK i \in Some : \A k \in Some : i <= k
    <3>1. Some \in SUBSET Nat
        OBVIOUS
    <3> HIDE DEF Some
    <3> QED BY <3>1, Least
  <2>2. Fine(0)
    <3>1. Ample(budget, n)
        BY <1>0
    <3>2. n - 0 = n
        BY <1>0
    <3>3. Keeps(blocks, budget, Of, Kinds, f[0], 0)
      <4> HIDE DEF budget
      <4> QED BY <1>0, <1>1, StartKeeps
    <3>4. f[0].left = budget
        BY <1>1
    <3> HIDE DEF Ample, n
    <3> QED BY <3>1, <3>2, <3>3, <3>4
  <2>3. i \in 1..n
    <3> HIDE DEF Fine
    <3> QED BY <1>0, <2>2
  <2>4. Fine(i - 1)
    <3> HIDE DEF Fine
    <3> QED BY <1>0, <2>1, <2>3
  <2> DEFINE before == f[i - 1]
             after == f[i]
             parts == n - i + 1
             share == ShareOf(FALSE, before.left, parts)
  <2>5. Keeps(blocks, budget, Of, Kinds, before, i - 1) /\ after = Held(FALSE, blocks, i, before)
      BY <1>1, <2>3, <2>4
  <2>6. /\ Keeps(blocks, budget, Of, Kinds, after, i)
        /\ share \in Int /\ (share >= 0 => after.left >= before.left - share - Note)
    <3> HIDE DEF before, after, budget
    <3> QED BY <1>0, <2>3, <2>5, HeldKeeps
  <2>7. before.left \in Int /\ after.left \in Int
      BY <2>5, <2>6 DEF Keeps
  <2>8. parts \in Nat \ {0} /\ n - (i - 1) = parts /\ n - i = parts - 1
    <3>1. i \in Nat /\ 1 <= i /\ i <= n
        BY <1>0, <2>3
    <3> HIDE DEF n
    <3> QED BY ONLY <1>0, <3>1
  <2>9. before.left >= parts * ((parts - 1) * Note)
    <3>1. Ample(before.left, parts)
        BY <2>4, <2>8
    <3> HIDE DEF parts
    <3> QED BY <2>8, <3>1
  <2>10. /\ share >= 0
         /\ parts = 1 => before.left - share - Note >= -Note
         /\ parts # 1 => before.left - share - Note >= (parts - 1) * ((parts - 2) * Note)
    <3> HIDE DEF before, parts
    <3> QED BY <1>0, <2>7, <2>8, <2>9, UnflooredStep
  <2>11. Ample(after.left, parts - 1)
    <3> HIDE DEF before, after, share, parts
    <3>1. after.left >= before.left - share - Note
        BY <2>6, <2>10
    <3>2. CASE parts = 1
        BY <1>0, <2>6, <2>7, <2>10, <3>1, <3>2
    <3>3. CASE parts # 1
      <4> DEFINE least == (parts - 1) * ((parts - 2) * Note)
      <4>1. least \in Int /\ before.left - share - Note >= least
          BY <1>0, <2>8, <2>10, <3>3
      <4>2. parts - 1 # 0 /\ (parts - 1) - 1 = parts - 2
          BY <2>8, <3>3
      <4> HIDE DEF least
      <4>3. after.left >= least
          BY SMTT(30), <1>0, <2>6, <2>7, <3>1, <4>1
      <4> QED BY <4>2, <4>3 DEF least
    <3> QED BY <3>2, <3>3
  <2>12. Fine(i)
    <3> HIDE DEF Ample, parts
    <3> QED BY <2>6, <2>8, <2>11
  <2> QED BY <2>12
<1>3. Fine(n)
  <2> HIDE DEF Fine
  <2> QED BY <1>0, <1>2
<1>4. NotesFit(blocks) = f[n].blocks
    BY <1>1 DEF NotesFit
<1> DEFINE held == f[n].blocks
<1>5. /\ Len(held) = n /\ SameBlocks(blocks, held)
      /\ Spent(held) \in Nat /\ f[n].left = budget - Spent(held)
    BY <1>3 DEF Keeps
<1>6. f[n].left >= -Note
  <2>1. n - n = 0
      BY <1>0
  <2> QED BY <1>3, <2>1
<1> HIDE DEF held
<1>7. Spent(held) <= budget + Note
    BY <1>0, <1>5, <1>6
<1> QED BY <1>4, <1>5, <1>7 DEF held, Whole
=============================================================================
