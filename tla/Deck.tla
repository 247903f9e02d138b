-------------------------------- MODULE Deck --------------------------------
(* The slide deck, the one file a step of the default agent writes           *)
(* (agents/default/slides.py): the material it is designed from, what is     *)
(* kept of the model's reply, what is salvaged of one that is not the        *)
(* structure asked for, and what the step says of the file it left.  It is   *)
(* planned after the steps of FollowUp.  A line of text is whether it is     *)
(* usable: of the right type, and not blank.                                 *)
EXTENDS FollowUp

CONSTANTS
  DeckReplies,      \* what the model may answer: [kind, slides]
  SummaryLen,       \* how long what each of the reasoning steps wrote is
  MaxDeckMaterial,  \* what the deck's material may spend
  MaxSlides, MaxBullets

ASSUME DeckIsBounded == {MaxDeckMaterial, MaxSlides, MaxBullets} \subseteq Nat \ {0}

\* MATERIAL: the findings, the notes, and the caveats on them.
Material == <<"analysis", "research", "critique">>

\* _material: block after block, and the tail past the budget is cut off.
DeckBlocks(ask) == SelectSeq(Material, LAMBDA name : Works(name, ask))
ReachesDeck(ask) ==
    LET blocks == DeckBlocks(ask)
    IN  {blocks[i] : i \in {k \in DOMAIN blocks : (k - 1) * SummaryLen < MaxDeckMaterial}}
DeckTold(ask, results, prompt) ==
    UNION {Told(name, ask, results, prompt) : name \in ReachesDeck(ask)}

-----------------------------------------------------------------------------
(* A slide is its title, "own", "none" or the one put in its place, and its  *)
(* bullets, each true when it is usable.                                     *)
Kept(bullets) == SelectSeq(bullets, LAMBDA b : b)
IsSlide(raw) == raw.title = "own" \/ raw.bullets # <<>>

\* from_dict: an entry that is no slide is passed over, and costs no slide; of
\* the bullets the first are looked at.
ReadSlide(raw) == [raw EXCEPT !.bullets = Kept(FirstOf(MaxBullets, @))]
Titled(slide) == [slide EXCEPT !.title = IF @ = "none" THEN "..." ELSE @]
FromDict(raws) ==
    LET usable == SelectSeq([i \in DOMAIN raws |-> ReadSlide(raws[i])], IsSlide)
        first == FirstOf(MaxSlides, usable)
    IN  [i \in DOMAIN first |-> Titled(first[i])]

\* _loads: the reply is read as JSON, in a fence or behind a sentence.
Parsed(reply) == IF reply.kind = "json" THEN reply.slides ELSE <<>>

\* _deck_from_prose: a slide a paragraph, titled by its first line.
FromProse(reply) ==
    LET paragraphs == IF reply.kind = "prose" THEN reply.slides ELSE <<>>
        cut == [i \in DOMAIN paragraphs |->
                  [paragraphs[i] EXCEPT !.bullets = FirstOf(MaxBullets, Kept(@))]]
    IN  FirstOf(MaxSlides, SelectSeq(cut, IsSlide))

\* design: the structure, or what can be salvaged; a call that raises is a reply
\* with nothing in it.
Design(reply) ==
    IF FromDict(Parsed(reply)) # <<>> THEN FromDict(Parsed(reply)) ELSE FromProse(reply)

\* render reads the deck back from the state, and the store keeps the file.
Rendered(reply) == FromDict(Design(reply))

\* emit_success and emit_failure, with the routes to them: the file is named by
\* a step that wrote it, and the count that goes with it.
DeckEmits(reply, written) ==
    IF Design(reply) = <<>> \/ ~written THEN [ok |-> FALSE, file |-> {}, count |-> 0]
    ELSE [ok |-> TRUE, file |-> {"slide_deck.pptx"}, count |-> Len(Design(reply))]

\* render_context: that there is a deck, of so many slides, and nothing of it.
Mentions(reply, written) ==
    IF ~DeckEmits(reply, written).ok THEN 0 ELSE Len(FromDict(Design(reply)))

-----------------------------------------------------------------------------
\* The deck holds what could be had: an entry that is no slide costs none, what
\* is rendered is what was designed, slide by slide, though it travels through
\* the state and is cut again on its way out; the file is there exactly when
\* the step is well, and the answer counts the slides that are in it.
DeckHolds ==
    \A reply \in DeckReplies :
        LET entries == SelectSeq(reply.slides, IsSlide)
        IN  /\ Len(Rendered(reply)) = Len(Design(reply))
            /\ \A i \in DOMAIN Design(reply) : Rendered(reply)[i].bullets = Design(reply)[i].bullets
            /\ reply.kind = "prose" => \A i \in DOMAIN Design(reply) :
                 Len(Design(reply)[i].bullets) <= MaxBullets
            /\ (reply.kind = "json" /\ \A i \in DOMAIN entries : entries[i].title = "own") =>
                 Len(Design(reply)) = (IF Len(entries) < MaxSlides THEN Len(entries) ELSE MaxSlides)
            /\ \A written \in BOOLEAN :
                 /\ Mentions(reply, written) = DeckEmits(reply, written).count
                 /\ (DeckEmits(reply, written).file # {}) = (Rendered(reply) # <<>> /\ written)

\* The deck is told of what is missing like every step behind the notes, as it
\* is read with no generation in between.
DeckIsTold ==
    \A ask \in Asks :
        LET results == Results(ask)
            prompt == Prompt(results)
        IN  ask.fails = {} =>
              \A name \in Refusals \cap Planned(ask) :
                results[name].ok => Named(name, ask) \subseteq DeckTold(ask, results, prompt)

\* Budgets are spent on what there is, in the notes and on the slides.
BoundsHold == MaterialFits /\ DeckHolds /\ DeckIsTold

\* What a later request is written from: all that it points at, or the word that
\* it is missing, though its texts are held to the budgets (read_files.py,
\* prior_jobs.py, research._retrieved), and a deck of what was designed.
MaterialIsWhole == NothingNamedIsLost /\ BoundsHold

\* The caveats reach the deck whenever there are any.  They are the last of its
\* material, and a cut takes them first, with no mark.
CaveatsReachTheDeck ==
    \A ask \in Asks : Works("critique", ask) => "critique" \in ReachesDeck(ask)
=============================================================================
