----------------------------- MODULE MCDocument -----------------------------
EXTENDS Named

MCRequests == {NotSaid, <<>>, <<"md", "markdown">>, <<"htm", "md">>, <<"default">>, <<"pdf">>, <<"docx">>}
Say(label, formats) == [label |-> label, formats |-> formats]
MCReplies == {Say("none", <<"html">>), Say("unspecified", <<"html">>), Say("requested", <<>>),
              Say("named", <<"pdf", "html">>), Say("pdf", <<>>)}
MCDefault == <<"markdown", "html">>
MCPlan == <<"s1", "s2">>

\* A text of so many characters, in words of so many (0: no space in it).
Text(len, word) == [len |-> len, word |-> word, cut |-> FALSE]
MCAnswer == Text(12, 3)
MCStepText == [s1 |-> Text(30, 5), s2 |-> Text(4, 0)]
MCHit == Text(20, 0)
MCShelf == [long |-> [kind |-> "text", text |-> Text(70, 6)],
            split |-> [kind |-> "split", text |-> Text(50, 6)],
            outside |-> [kind |-> "outside", text |-> Text(5, 0)],
            empty |-> [kind |-> "text", text |-> Text(0, 0)],
            note |-> [kind |-> "text", text |-> Text(6, 2)]]
MCBacked == {"prior_jobs", "read_files", "documents", "web_search"}

\* Queries with their hits, and one that raises.
Hit(id, score) == [id |-> id, score |-> score]
Query(hits) == [raised |-> FALSE, hits |-> hits]
Raises == [raised |-> TRUE, hits |-> {Hit(4, 4)}]

Every == MCBacked \cup {"research", "analysis", "critique"}
Listing(refs) == [shape |-> "list", refs |-> refs]
Asked(jobs, files, fails, slot) ==
    [jobs |-> Listing(jobs), files |-> Listing(files), planned |-> Every, fails |-> fails,
     slot |-> slot, plain |-> Query({}), web |-> <<>>,
     queries |-> <<Query({Hit(1, 2), Hit(2, 1)}), Raises, Query({Hit(2, 3), Hit(3, 1)})>>]
MCAsks ==
    {[Asked(<<>>, <<>>, {}, {}) EXCEPT !.jobs = [shape |-> "bare", refs |-> <<"job">>]],
     Asked(<<"job", "gone", "blank">>, <<"long">>, {}, {"analysis"}),
     [Asked(<<"gone", "job">>, <<"markdown", "outside">>, {"analysis"}, {}) EXCEPT
        !.queries = <<>>, !.web = <<Query({Hit(7, 1)})>>],
     Asked(<<"gone", "lost", "job">>, <<"pdf", "split">>, {}, {"critique"}),
     Asked(<<>>, <<"empty", "blank", "note">>, {"research"}, {}),
     [Asked(<<"job">>, <<"outside">>, {}, {}) EXCEPT
        !.planned = Every \ {"documents"}, !.files.shape = "other"]}

\* One file more than are read: the last is neither read nor refused.
MCMoreAsks == MCAsks \cup {Asked(<<>>, <<"note", "long", "outside">>, {}, {})}

MCSlashed == {<<"out/rapport">>}
MCGiven == MCSlashed \cup
    {<<>>, <<"">>, <<"rapport">>, <<"rapport", "md">>, <<"v1", "2">>, <<"", "md">>,
     <<"page", "htm">>, <<"slide_deck", "pptx">>, <<"a", "b", "c", "d">>}

\* Two extensions: the tool drops one, and create_job the other.
MCMoreGiven == MCGiven \cup {<<"rapport", "md", "html">>}

\* Decks: junk among the slides, a reply in paragraphs, one of no use.
Entry(title, bullets) == [title |-> title, bullets |-> bullets]
MCDeckReplies ==
    {[kind |-> kind, slides |-> slides] :
        kind \in {"json", "prose", "raises"},
        slides \in UNION {[1..n -> {Entry("own", <<TRUE, FALSE, TRUE>>), Entry("none", <<FALSE, TRUE>>),
                                    Entry("none", <<FALSE>>), Entry("own", <<>>)}] : n \in 0..3}}
=============================================================================
