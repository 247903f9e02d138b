------------------------------- MODULE Ledger -------------------------------
(* What the run of Course spends (engine/usage.py): every model call is      *)
(* booked in the ledger of the attempt under the scope that made it, a step  *)
(* carries what its scope holds as it ends, the record carries the ledger's  *)
(* total at every save, and the next attempt's ledger starts from what the   *)
(* record says (JobManager._drive).  A step may launch a job of its own.     *)
EXTENDS Course, Integers, Sequences, FiniteSetsExt, Functions

CONSTANTS
    DefaultPrices, Overrides,   \* a model's family, a sequence of parts -> [input, cached]
    AnswerOf,   \* what a call of each scope, or of the launched job, answers: [model, input, cached]
    OpOf,       \* the capability each step runs
    Launcher,   \* the steps that may launch a job
    MaxCall,    \* bound on the calls
    Unpriced    \* no known price

Planner == "planner"
Child == "child"
Scope == Step \cup {Planner}
Earlier == "earlier attempts"

ASSUME LedgerAssumption ==
    /\ MaxCall \in Nat /\ Launcher \subseteq Step
    /\ Earlier \notin Step /\ Unpriced \notin Int
    /\ \A s \in Scope \cup {Child} :
         AnswerOf[s].model \in Seq(STRING) /\ AnswerOf[s].input \in Nat /\ AnswerOf[s].cached \in Nat
    /\ \A prices \in {DefaultPrices, Overrides} : \A f \in DOMAIN prices :
         f \in Seq(STRING) /\ prices[f].input \in Int /\ prices[f].cached \in Int \cup {Unpriced}

VARIABLES
    book,       \* the ledger: scope -> what it spent
    told,       \* what each step carried as it ended
    usage,      \* of the record
    stepUsage,  \* of the record: the step facts' own
    child,      \* the job a step launched: its record
    made, kept  \* ghosts: the calls of each scope that count, and those of the last save

ledger == <<book, told>>
bills == <<book, told, usage, stepUsage, child, made, kept>>

----------------------------------------------------------------------------
(* Usage: disjoint tokens, and a cost that is a sum of what could be priced. *)
Zero == [input |-> 0, cached |-> 0, calls |-> 0, cost |-> Unpriced]
Amount(u) == IF u.cost = Unpriced THEN 0 ELSE u.cost
Plus(u, v) ==
    [input |-> u.input + v.input, cached |-> u.cached + v.cached, calls |-> u.calls + v.calls,
     cost |-> IF u.cost = Unpriced /\ v.cost = Unpriced THEN Unpriced ELSE Amount(u) + Amount(v)]

\* The overrides win over the built-in table, row by row.
Table ==
    [f \in DOMAIN DefaultPrices \cup DOMAIN Overrides |->
        IF f \in DOMAIN Overrides THEN Overrides[f] ELSE DefaultPrices[f]]

\* price_for: the longest family the model's name starts with.
Families(model) == {f \in DOMAIN Table : Len(f) <= Len(model) /\ SubSeq(model, 1, Len(f)) = f}
PriceFor(model) ==
    IF Families(model) = {} THEN Unpriced
    ELSE Table[CHOOSE f \in Families(model) : \A g \in Families(model) : Len(g) <= Len(f)]

\* ModelPrice.cost: a cache read costs a tenth of the input unless said otherwise.
Cost(price, input, cached) ==
    input * price.input + cached * (IF price.cached = Unpriced THEN price.input \div 10 ELSE price.cached)

\* usage_of, record_usage: cache reads apart from the rest of the input.
Booked(answer) ==
    LET input == IF answer.input > answer.cached THEN answer.input - answer.cached ELSE 0
        price == PriceFor(answer.model)
    IN  [input |-> input, cached |-> answer.cached, calls |-> 1,
         cost |-> IF price = Unpriced THEN Unpriced
                  ELSE Cost(price, input, answer.cached)]

Get(scope) == IF scope \in DOMAIN book THEN book[scope] ELSE Zero
Total == FoldFunctionOnSet(Plus, Zero, book, DOMAIN book)
Nobody == [s \in {} |-> Zero]

\* Mutant: the ledger of a resume starts empty.
SeededWithNothing == Nobody

\* _drive: the ledger of a resume holds what the record says was spent.
Seeded == IF usage.calls = 0 THEN Nobody ELSE [s \in {Earlier} |-> usage]

\* _as_step, current_scope: a step books under its own id.
ScopeOf(s) == s

----------------------------------------------------------------------------
LedgerInit ==
    /\ Init
    /\ book = Nobody /\ told = [s \in Step |-> Zero]
    /\ usage = Zero /\ stepUsage = [s \in Step |-> Zero]
    /\ child = [status |-> "none", usage |-> Zero]
    /\ made = [s \in Scope |-> 0] /\ kept = [s \in Scope |-> 0]

(* _persist_summary, inside the run: the record carries the total so far. *)
Save == usage' = Total /\ kept' = made
Unsaved == UNCHANGED <<usage, kept>>

Calling(scope) ==
    \/ scope = Planner /\ at = "planner" /\ write = "nothing"
    \/ scope \in DOMAIN task /\ at = "wave" /\ task[scope] = "running"

Add(scope, bill) == book' = [s \in DOMAIN book \cup {scope} |-> IF s = scope THEN Plus(Get(s), bill) ELSE book[s]]

(* ModelCallUsage.on_llm_end, or an adapter's record_usage. *)
Call(scope) ==
    /\ Running /\ Calling(scope)
    /\ FoldFunctionOnSet(+, 0, made, Scope) < MaxCall
    /\ Add(IF scope = Planner THEN Planner ELSE ScopeOf(scope), Booked(AnswerOf[scope]))
    /\ made' = [made EXCEPT ![scope] = @ + 1]
    /\ UNCHANGED <<vars, told, usage, stepUsage, child, kept>>

\* _usage_meta: the step's result carries what its scope holds.
StepEnds(s) ==
    /\ Publish(s) /\ told' = [told EXCEPT ![s] = Get(ScopeOf(s))]
    /\ UNCHANGED <<book, usage, stepUsage, child, made, kept>>

\* _apply: the fact is saved, and the summary after it.
Record(fact) ==
    /\ Persist(fact) /\ Save
    /\ stepUsage' = IF fact \in Step THEN [stepUsage EXCEPT ![fact] = told[fact]] ELSE stepUsage
    /\ UNCHANGED <<book, told, child, made>>

\* A cancelled run saves its record; a crash loses what was spent since the last save.
Halt(cancelled) ==
    /\ Stop(cancelled)
    /\ IF cancelled THEN Save /\ UNCHANGED made ELSE Unsaved /\ made' = kept
    /\ book' = Nobody /\ told' = [s \in Step |-> Zero]
    /\ UNCHANGED <<stepUsage, child>>

HaltToAmend(c) ==
    /\ StopToAmend(c)
    /\ IF status = "running"
       THEN Save /\ book' = Nobody /\ told' = [s \in Step |-> Zero]
       ELSE Unsaved /\ UNCHANGED ledger
    /\ UNCHANGED <<stepUsage, child, made>>

Again ==
    /\ Resume \/ \E c \in Caller : RunOn(c)
    /\ book' = IF status = "stopped" THEN Seeded ELSE book
    /\ UNCHANGED <<told, usage, stepUsage, child, made, kept>>

Settle ==
    /\ Dispatch
    /\ IF status' # "running" THEN Save /\ book' = Nobody ELSE Unsaved /\ UNCHANGED book
    /\ UNCHANGED <<told, stepUsage, child, made>>

\* The steps of the run that spend and save nothing.
Quiet ==
    /\ PlanIt \/ Planned \/ Commit \/ \E s \in Step : Write(s) \/ \E c \in Caller : Check(c) \/ Amend(c)
    /\ UNCHANGED bills

----------------------------------------------------------------------------
(* create_job from inside a step: the record is saved where the run's ledger *)
(* is the current one.                                                       *)
Launch(s) ==
    /\ Running /\ Calling(s) /\ child.status = "none"
    /\ child' = [child EXCEPT !.status = "queued", !.usage = Total]
    /\ UNCHANGED <<vars, ledger, usage, stepUsage, made, kept>>

\* _drive installs a ledger of its own, whatever the context it runs in.
ChildRuns ==
    /\ child.status = "queued"
    /\ child' = [child EXCEPT !.status = "done", !.usage = Booked(AnswerOf[Child])]
    /\ UNCHANGED <<vars, ledger, usage, stepUsage, made, kept>>

\* cancel_job of a job that has not begun: the tombstone, the record as it was.
ChildCancelled ==
    /\ child.status = "queued"
    /\ child' = [child EXCEPT !.status = "cancelled"]
    /\ UNCHANGED <<vars, ledger, usage, stepUsage, made, kept>>

LedgerNext ==
    \/ \E scope \in Scope : Call(scope)
    \/ \E s \in Step : StepEnds(s)
    \/ \E s \in Launcher : Launch(s)
    \/ \E fact \in queue : Record(fact)
    \/ \E cancelled \in BOOLEAN : Halt(cancelled)
    \/ \E c \in Caller : HaltToAmend(c)
    \/ Again \/ Settle \/ Quiet \/ ChildRuns \/ ChildCancelled

LedgerSpec == LedgerInit /\ [][LedgerNext]_<<vars, bills>>

----------------------------------------------------------------------------
\* What the calls made cost: each counted once, at its own price.
Times(n, u) ==
    [input |-> n * u.input, cached |-> n * u.cached, calls |-> n * u.calls,
     cost |-> IF n = 0 THEN Unpriced ELSE IF u.cost = Unpriced THEN Unpriced ELSE n * u.cost]
BillOf(counts) ==
    FoldFunctionOnSet(Plus, Zero, [s \in Scope |-> Times(counts[s], Booked(AnswerOf[s]))], Scope)

(* What the record says was spent is what the calls cost: each counted once  *)
(* and at its price, whatever stopped, resumed and amended the run, and      *)
(* whatever else was launched meanwhile; only a crash loses what no save     *)
(* held.  A launched job that ran pays for its own calls and no other's      *)
(* (_drive, "every LLM call underneath books into it"; decision 0002).       *)
CallsAreBilled ==
    /\ usage = BillOf(kept)
    /\ status # "running" => made = kept
    /\ child.status = "done" => child.usage = Booked(AnswerOf[Child])

(* What the steps say they spent never exceeds what their run says: two      *)
(* steps of one capability do not each report the sum (decision 0217).       *)
StepsAddUp ==
    LET spent == FoldFunctionOnSet(Plus, Zero, stepUsage, Step)
    IN  /\ spent.calls <= usage.calls /\ spent.input <= usage.input
        /\ Amount(spent) <= Amount(usage)

(* The bill of the job is whole, and the steps' own bills are parts of it.   *)
BillIsWhole == CallsAreBilled /\ StepsAddUp

(* A launched job that never ran would pay for nothing too.  It does pay:    *)
(* its record is saved under the ledger of the run that launched it.         *)
EachPaysItsOwn == child.status \in {"queued", "cancelled"} => child.usage = Zero
=============================================================================
