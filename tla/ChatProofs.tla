----------------------------- MODULE ChatProofs -----------------------------
(* What holds of Chat for any bounds, prefixes and queue, behind the gate or *)
(* not, and whether a proposal may be stranded or not: the run that starts   *)
(* builds on the jobs that were approved, and a job is said in order.        *)
EXTENDS Chat, FiniteSetTheorems, TLAPS

What == {"answer", "message", "proposal", "notice", "plan", "cut short"}
Waiting == {"wait", "drain", "tell", "record"}

\* What the proofs need of the types.
Typed ==
    /\ job \in Seq(Settled \cup {"running"}) /\ Len(job) <= MaxJob
    /\ told \subseteq Known
    /\ watch \in [on : BOOLEAN, queue : Seq(Nat), shed : BOOLEAN] /\ Len(watch.queue) <= MaxQueue
    /\ shown \in Seq([what : What, about : SUBSET Job])
    /\ turn.pc \in Waiting =>
         /\ turn \in [pc : Waiting, job : Job, plan : {"none", "one step", "steps"}, shed : BOOLEAN]
         /\ turn.job \in Known
    /\ turn.pc = "model" => turn.endings \subseteq Known
    /\ watch.on => turn.pc \in {"wait", "drain"}
    /\ turn.pc = "idle" => turn = NoTurn
    /\ ui.pc = "streaming" <=> turn # NoTurn

\* The references a person was asked about, and the jobs that were shown: when
\* more jobs come, a reference may match more of them, never another instead.
Vouched(refs, asked) ==
    \/ refs = {} /\ asked = {}
    \/ \E p \in Prefix, j \in Known : refs = {p} /\ asked = {j} /\ j \in Matches[p]

Vouching ==
    /\ turn.pc = "call" => turn.refs \in {{}} \cup {{p} : p \in Prefix}
    /\ turn.pc = "over" /\ turn.terminal = "proposal" => Vouched(pending.refs, turn.refs)
    /\ ui.pc = "awaiting" => Vouched(pending.refs, ui.asked)
    /\ turn.pc = "call" /\ turn.answer = "yes" => Vouched(turn.refs, turn.asked)
    /\ Gate /\ turn.pc = "create" => turn.refs = turn.asked

\* The answers that are shown and that the thread is about to be told.
Telling ==
    IF turn.pc = "model" THEN turn.endings ELSE IF turn.pc = "record" THEN {turn.job} ELSE {}

Ordered(j) ==
    /\ \A i \in At("plan", j), k \in At("answer", j) : i < k
    /\ \A i \in At("notice", j), k \in At("plan", j) : i < k
    /\ \A i, k \in At("answer", j) : i = k
    /\ \A i, k \in At("plan", j) : i = k

\* What was shown is about jobs that exist; an answer is shown once, since it
\* is told in the same turn, and a plan only while its job is watched.
Shown ==
    /\ \A i \in DOMAIN shown : shown[i].about \subseteq Known
    /\ turn # NoTurn => \A j \in Known : At("answer", j) # {} => j \in told \cup Telling
    /\ turn.pc \in {"wait", "drain", "tell"} => turn.job \notin told
    /\ watch.on => At("plan", turn.job) = {}
    /\ \A j \in Known : Ordered(j)

Shed == IF turn.pc = "wait" THEN watch.shed ELSE turn.shed

\* A plan that nothing shed is in the queue before its end, or was said.
Watched ==
    /\ turn.pc = "wait" => \A i \in DOMAIN watch.queue : watch.queue[i] # 0
    /\ turn.pc = "wait" => ~turn.shed /\ (~watch.on => turn.plan # "none")
    /\ watch.on /\ turn.plan # "none" /\ ~Shed =>
         \E i \in DOMAIN watch.queue :
            watch.queue[i] = turn.job /\ \A k \in DOMAIN watch.queue : k < i => watch.queue[k] # 0
    /\ ~watch.on /\ turn.pc \in Waiting /\ turn.plan = "steps" /\ ~turn.shed =>
         At("plan", turn.job) # {}

IInv == Typed /\ Vouching /\ Shown /\ Watched

-----------------------------------------------------------------------------
(* What is shown.                                                            *)
LEMMA AtStays ==
    ASSUME UNCHANGED shown
    PROVE  \A what, j : At(what, j)' = At(what, j)
    BY DEF At

LEMMA AtEmpty ==
    ASSUME shown' = <<>>
    PROVE  \A what, j : At(what, j)' = {}
    BY DEF At

\* Something is shown next.
Show(what, about) == shown' = Append(shown, Item(what, about))

LEMMA AtAppends ==
    ASSUME Typed, NEW w, NEW S, Show(w, S)
    PROVE  /\ \A what, j : At(what, j) \subseteq 1 .. Len(shown)
           /\ \A what, j : what # w \/ j \notin S => At(what, j)' = At(what, j)
           /\ \A what, j : At(what, j)' = At(what, j) \cup (IF what = w /\ j \in S THEN {Len(shown) + 1} ELSE {})
<1>1. shown \in Seq([what : What, about : SUBSET Job])
    BY DEF Typed
<1>2. /\ DOMAIN shown = 1 .. Len(shown) /\ DOMAIN shown' = 1 .. Len(shown) + 1 /\ Len(shown) \in Nat
      /\ \A i \in DOMAIN shown : shown'[i] = shown[i]
      /\ shown'[Len(shown) + 1].what = w /\ shown'[Len(shown) + 1].about = S
    BY <1>1 DEF Show, Item
<1> QED BY <1>2 DEF At

LEMMA AtKept ==
    ASSUME Typed, NEW w, NEW S, Show(w, S), w \notin {"answer", "plan", "notice"}
    PROVE  \A what \in {"answer", "plan", "notice"} : \A j : At(what, j)' = At(what, j)
    BY AtAppends

LEMMA VouchedForms ==
    \A refs, asked : Vouched(refs, asked) => refs \in {{}} \cup {{p} : p \in Prefix}
    BY DEF Vouched

LEMMA VouchedStays ==
    ASSUME Known \subseteq Known'
    PROVE  \A refs, asked : Vouched(refs, asked) => Vouched(refs, asked)'
    BY DEF Vouched

LEMMA NothingOfTheNew ==
    ASSUME Shown, NEW j, j \notin Known
    PROVE  \A what : At(what, j) = {}
    BY DEF Shown, At

\* A job is created; or one gets its status.
LEMMA JobsDo ==
    ASSUME Typed
    PROVE  /\ Known = 1 .. Len(job) /\ Len(job) \in Nat
           /\ \A s \in Settled \cup {"running"} :
                job' = Append(job, s) /\ Len(job) < MaxJob =>
                  /\ job' \in Seq(Settled \cup {"running"}) /\ Len(job') <= MaxJob
                  /\ Len(job') = Len(job) + 1
                  /\ Known' = Known \cup {Len(job')} /\ Len(job') \notin Known /\ Len(job') \in Job
           /\ \A s \in Settled, j \in Known :
                job' = [job EXCEPT ![j] = s] =>
                  /\ job' \in Seq(Settled \cup {"running"}) /\ Len(job') <= MaxJob /\ Known' = Known
<1>1. job \in Seq(Settled \cup {"running"}) /\ Len(job) <= MaxJob /\ Len(job) \in Nat /\ Known = 1 .. Len(job)
  <2>1. job \in Seq(Settled \cup {"running"}) /\ Len(job) <= MaxJob
      BY DEF Typed
  <2>2. Len(job) \in Nat /\ DOMAIN job = 1 .. Len(job)
      BY <2>1
  <2> QED BY <2>1, <2>2 DEF Known
<1>2. ASSUME NEW s \in Settled \cup {"running"}, job' = Append(job, s), Len(job) < MaxJob
      PROVE  /\ job' \in Seq(Settled \cup {"running"}) /\ Len(job') <= MaxJob
             /\ Len(job') = Len(job) + 1
             /\ Known' = Known \cup {Len(job')} /\ Len(job') \notin Known /\ Len(job') \in Job
    BY <1>1, <1>2, ChatAssumption DEF Known, Job
<1>3. ASSUME NEW s \in Settled, NEW j \in Known, job' = [job EXCEPT ![j] = s]
      PROVE  job' \in Seq(Settled \cup {"running"}) /\ Len(job') <= MaxJob /\ Known' = Known
    BY <1>1, <1>3 DEF Known
<1> QED BY <1>1, <1>2, <1>3

\* The queue has one more event.
Longer(x) ==
    /\ DOMAIN watch.queue \subseteq DOMAIN watch'.queue
    /\ Len(watch.queue) + 1 \in DOMAIN watch'.queue /\ watch'.queue[Len(watch.queue) + 1] = x
    /\ \A i \in DOMAIN watch.queue : watch'.queue[i] = watch.queue[i] /\ ~(Len(watch.queue) + 1 < i)
    /\ \A i \in DOMAIN watch'.queue : i \in DOMAIN watch.queue \/ i = Len(watch.queue) + 1

LEMMA AppendLonger ==
    ASSUME Typed, NEW x \in Nat, watch'.queue = Append(watch.queue, x)
    PROVE  Longer(x) /\ watch'.queue \in Seq(Nat) /\ Len(watch'.queue) = Len(watch.queue) + 1
<1>1. watch.queue \in Seq(Nat)
    BY DEF Typed
<1>2. /\ Len(watch.queue) \in Nat /\ DOMAIN watch.queue = 1 .. Len(watch.queue)
      /\ DOMAIN watch'.queue = 1 .. Len(watch.queue) + 1
      /\ \A i \in 1 .. Len(watch.queue) : watch'.queue[i] = watch.queue[i]
      /\ watch'.queue[Len(watch.queue) + 1] = x
      /\ watch'.queue \in Seq(Nat) /\ Len(watch'.queue) = Len(watch.queue) + 1
    BY <1>1
<1> QED BY <1>2 DEF Longer

LEMMA PublishedDoes ==
    ASSUME Typed, NEW j \in Nat, Published(j)
    PROVE  /\ watch' \in [on : BOOLEAN, queue : Seq(Nat), shed : BOOLEAN] /\ Len(watch'.queue) <= MaxQueue
           /\ watch'.on = watch.on
           /\ \/ ~watch.on /\ watch' = watch
              \/ watch'.queue = watch.queue /\ watch'.shed
              \/ Longer(j) /\ watch'.shed = watch.shed
<1>1. /\ watch \in [on : BOOLEAN, queue : Seq(Nat), shed : BOOLEAN] /\ Len(watch.queue) <= MaxQueue
      /\ Len(watch.queue) \in Nat
  <2>1. watch \in [on : BOOLEAN, queue : Seq(Nat), shed : BOOLEAN] /\ Len(watch.queue) <= MaxQueue
      BY DEF Typed
  <2> QED BY <2>1
<1>2. CASE ~watch.on
    BY <1>1, <1>2 DEF Published
<1>3. CASE watch.on /\ Len(watch.queue) = MaxQueue
    BY <1>1, <1>3 DEF Published
<1>4. CASE watch.on /\ Len(watch.queue) # MaxQueue
  <2>1. watch' = [watch EXCEPT !.queue = Append(watch.queue, j)]
      BY <1>4 DEF Published
  <2>2. watch'.queue = Append(watch.queue, j) /\ watch'.on = watch.on /\ watch'.shed = watch.shed
      BY <1>1, <2>1
  <2>3. Longer(j) /\ watch'.queue \in Seq(Nat) /\ Len(watch'.queue) = Len(watch.queue) + 1
      BY <2>2, AppendLonger
  <2>4. watch' \in [on : BOOLEAN, queue : Seq(Nat), shed : BOOLEAN]
      BY <1>1, <2>1, <2>3
  <2> QED BY <1>1, <1>4, <2>2, <2>3, <2>4, ChatAssumption
<1> QED BY <1>2, <1>3, <1>4

LEMMA NoWatchTyped ==
    /\ NoWatch \in [on : BOOLEAN, queue : Seq(Nat), shed : BOOLEAN] /\ Len(NoWatch.queue) <= MaxQueue
    /\ ~NoWatch.on /\ NoWatch.queue = <<>> /\ ~NoWatch.shed
    BY ChatAssumption DEF NoWatch

LEMMA ItemTyped ==
    ASSUME Typed, NEW what \in What, NEW S \in SUBSET Job, Show(what, S)
    PROVE  shown' \in Seq([what : What, about : SUBSET Job])
<1>1. shown \in Seq([what : What, about : SUBSET Job])
    BY DEF Typed
<1>2. Item(what, S) \in [what : What, about : SUBSET Job]
    BY DEF Item
<1> QED BY <1>1, <1>2 DEF Show

LEMMA KnownIsJob == ASSUME Typed PROVE Known \subseteq Job /\ Known \subseteq Nat \ {0}
<1>1. Len(job) <= MaxJob /\ Len(job) \in Nat /\ Known = 1 .. Len(job)
    BY JobsDo DEF Typed
<1> QED BY <1>1, ChatAssumption DEF Job

\* When nothing is shown that the order is about.
LEMMA ShownStays ==
    ASSUME Shown,
           \A what \in {"answer", "plan", "notice"} : \A j : At(what, j)' = At(what, j),
           \A i \in DOMAIN shown' : shown'[i].about \subseteq Known',
           Known \subseteq Known', told \subseteq told',
           turn' # NoTurn => turn # NoTurn /\ Telling \subseteq told' \cup Telling',
           turn'.pc \in {"wait", "drain", "tell"} => turn'.job \notin told',
           watch'.on => watch.on /\ turn'.job = turn.job
    PROVE  Shown'
<1>1. \A j \in Known' : Ordered(j)'
  <2> TAKE j \in Known'
  <2>1. CASE j \in Known
    <3>1. Ordered(j)
        BY <2>1 DEF Shown
    <3> QED BY <3>1 DEF Ordered
  <2>2. CASE j \notin Known
      BY <2>2, NothingOfTheNew DEF Ordered
  <2> QED BY <2>1, <2>2
<1>2. turn' # NoTurn => \A j \in Known' : At("answer", j)' # {} => j \in told' \cup Telling'
    BY NothingOfTheNew DEF Shown
<1>3. watch'.on => At("plan", turn.job)' = {}
    BY DEF Shown
<1> QED BY <1>1, <1>2, <1>3 DEF Shown

LEMMA SameAbout ==
    ASSUME Shown, UNCHANGED shown, Known \subseteq Known'
    PROVE  /\ \A what, j : At(what, j)' = At(what, j)
           /\ \A i \in DOMAIN shown' : shown'[i].about \subseteq Known'
    BY AtStays DEF Shown

LEMMA ShownCleared ==
    ASSUME shown' = <<>>, ~watch'.on, turn'.pc \notin {"wait", "drain", "tell"}
    PROVE  Shown'
    BY AtEmpty DEF Shown, Ordered

\* When something is.
LEMMA AppendedAbout ==
    ASSUME Typed, Shown, NEW w, NEW S \in SUBSET Known', Known \subseteq Known', Show(w, S)
    PROVE  \A i \in DOMAIN shown' : shown'[i].about \subseteq Known'
<1>1. shown \in Seq([what : What, about : SUBSET Job])
    BY DEF Typed
<1>2. /\ DOMAIN shown = 1 .. Len(shown) /\ DOMAIN shown' = 1 .. Len(shown) + 1 /\ Len(shown) \in Nat
      /\ \A i \in DOMAIN shown : shown'[i] = shown[i]
      /\ shown'[Len(shown) + 1].about = S
    BY <1>1 DEF Show, Item
<1> QED BY <1>2 DEF Shown


\* Somebody else launches a job.
LEMMA ElsewhereKeeps ==
    ASSUME IInv, LaunchElsewhere
    PROVE  IInv'
<1> USE DEF IInv
<1>0. /\ job' \in Seq(Settled \cup {"running"}) /\ Len(job') <= MaxJob /\ Known \subseteq Known'
      /\ Known' = Known \cup {Len(job')} /\ Len(job') \notin Known
    BY JobsDo DEF LaunchElsewhere, Created
<1>9. UNCHANGED <<turn, watch, pending, told, shown, ui>>
    BY DEF LaunchElsewhere
<1>1. Typed'
    BY <1>0, <1>9 DEF Typed
<1>2. Vouching'
    BY <1>0, <1>9, VouchedStays DEF Vouching
<1>3. Shown'
    BY <1>0, <1>9, SameAbout, ShownStays DEF Shown, Telling
<1>4. Watched'
    BY <1>0, <1>9, AtStays DEF Typed, Watched, Shed, Waiting
<1> QED BY <1>1, <1>2, <1>3, <1>4

\* The planner's fact is saved.
LEMMA PlanKeeps ==
    ASSUME IInv, Plan
    PROVE  IInv'
<1> USE DEF IInv
<1>0. /\ turn.pc = "wait" /\ turn.plan = "none" /\ turn.job \in Known /\ turn.job \in Nat
      /\ turn \in [pc : Waiting, job : Job, plan : {"none", "one step", "steps"}, shed : BOOLEAN]
      /\ UNCHANGED <<job, pending, told, shown, ui>> /\ Published(turn.job)
    BY KnownIsJob DEF Plan, Typed, Waiting
<1>8. PICK p \in {"one step", "steps"} : turn' = [turn EXCEPT !.plan = p]
    BY DEF Plan
<1>9. /\ turn' \in [pc : Waiting, job : Job, plan : {"none", "one step", "steps"}, shed : BOOLEAN]
      /\ turn'.pc = "wait" /\ turn'.job = turn.job /\ turn'.plan = p /\ turn'.shed = turn.shed
      /\ turn # NoTurn /\ turn' # NoTurn /\ Known' = Known
  <2>1. /\ turn' \in [pc : Waiting, job : Job, plan : {"none", "one step", "steps"}, shed : BOOLEAN]
        /\ turn'.pc = "wait" /\ turn'.job = turn.job /\ turn'.plan = p /\ turn'.shed = turn.shed
      BY <1>0, <1>8
  <2>2. NoTurn.pc = "idle" /\ Known' = Known
      BY <1>0 DEF NoTurn, Known
  <2> QED BY <1>0, <2>1, <2>2
<1>10. /\ watch' \in [on : BOOLEAN, queue : Seq(Nat), shed : BOOLEAN] /\ Len(watch'.queue) <= MaxQueue
       /\ watch'.on = watch.on
       /\ \/ ~watch.on /\ watch' = watch
          \/ watch'.queue = watch.queue /\ watch'.shed
          \/ Longer(turn.job) /\ watch'.shed = watch.shed
    BY <1>0, PublishedDoes
<1>1. Typed'
    BY <1>0, <1>9, <1>10 DEF Typed
<1>2. Vouching'
    BY <1>0, <1>9, <1>10, VouchedStays DEF Vouching
<1>3. Shown'
    BY <1>0, <1>9, <1>10, SameAbout, ShownStays DEF Shown, Telling
<1>4. Watched'
  <2>1. \A i \in DOMAIN watch.queue : watch.queue[i] # 0
      BY <1>0 DEF Watched
  <2>2. \A i \in DOMAIN watch'.queue : watch'.queue[i] # 0
    <3>1. watch.on /\ (watch'.queue = watch.queue \/ Longer(turn.job))
        BY <1>0, <1>10 DEF Watched
    <3>2. turn.job # 0
        BY <1>0, KnownIsJob
    <3> QED BY <2>1, <3>1, <3>2 DEF Longer
  <2>3. watch.on /\ watch'.on = watch.on /\ (Shed' <=> watch'.shed)
      BY <1>0, <1>9, <1>10 DEF Shed, Watched
  <2>4. ~Shed' => \E i \in DOMAIN watch'.queue : watch'.queue[i] = turn'.job
      BY <1>9, <1>10, <2>3 DEF Longer
  <2>5. turn'.pc = "wait" /\ turn'.plan # "none" /\ ~turn'.shed
      BY <1>0, <1>9 DEF Watched
  <2> QED BY <2>2, <2>3, <2>4, <2>5 DEF Watched
<1> QED BY <1>1, <1>2, <1>3, <1>4

\* A run ends.
LEMMA EndKeeps ==
    ASSUME IInv, NEW j \in Known, End(j)
    PROVE  IInv'
<1> USE DEF IInv
<1>0. /\ job' \in Seq(Settled \cup {"running"}) /\ Len(job') <= MaxJob /\ Known' = Known
      /\ j \in Nat /\ j # 0
    BY JobsDo, KnownIsJob DEF End
<1>9. UNCHANGED <<turn, pending, told, shown, ui>> /\ Published(j)
    BY DEF End
<1>10. /\ watch' \in [on : BOOLEAN, queue : Seq(Nat), shed : BOOLEAN] /\ Len(watch'.queue) <= MaxQueue
       /\ watch'.on = watch.on
       /\ \/ ~watch.on /\ watch' = watch
          \/ watch'.queue = watch.queue /\ watch'.shed
          \/ Longer(j) /\ watch'.shed = watch.shed
    BY <1>0, <1>9, PublishedDoes
<1>1. Typed'
    BY <1>0, <1>9, <1>10 DEF Typed
<1>2. Vouching'
    BY <1>0, <1>9, <1>10, VouchedStays DEF Vouching
<1>3. Shown'
    BY <1>0, <1>9, <1>10, SameAbout, ShownStays DEF Shown, Telling
<1>4. Watched'
  <2>1. watch'.queue = watch.queue \/ Longer(j)
      BY <1>10
  <2>2. /\ DOMAIN watch.queue \subseteq DOMAIN watch'.queue
        /\ \A i \in DOMAIN watch.queue : watch'.queue[i] = watch.queue[i]
        /\ \A i \in DOMAIN watch'.queue :
              i \notin DOMAIN watch.queue => watch'.queue[i] = j /\ \A k \in DOMAIN watch.queue : ~(i < k)
      BY <2>1 DEF Longer
  <2>3. turn' = turn /\ watch'.on = watch.on /\ (watch.on /\ ~Shed' => ~Shed)
      BY <1>9, <1>10 DEF Shed
  <2>4. turn'.pc = "wait" => \A i \in DOMAIN watch'.queue : watch'.queue[i] # 0
      BY <1>0, <2>2, <2>3 DEF Watched
  <2>5. ASSUME watch'.on, turn'.plan # "none", ~Shed'
        PROVE  \E i \in DOMAIN watch'.queue :
                  watch'.queue[i] = turn'.job /\ \A k \in DOMAIN watch'.queue : k < i => watch'.queue[k] # 0
    <3>1. PICK i \in DOMAIN watch.queue :
            watch.queue[i] = turn.job /\ \A k \in DOMAIN watch.queue : k < i => watch.queue[k] # 0
        BY <2>3, <2>5 DEF Watched
    <3> QED BY <1>0, <2>2, <2>3, <3>1
  <2>6. ~watch'.on /\ turn'.pc \in Waiting /\ turn'.plan = "steps" /\ ~turn'.shed => At("plan", turn.job)' # {}
      BY <1>9, <2>3, AtStays DEF Watched
  <2> QED BY <2>3, <2>4, <2>5, <2>6 DEF Watched
<1> QED BY <1>1, <1>2, <1>3, <1>4

\* A message is sent.
LEMMA SubmitKeeps ==
    ASSUME IInv, Submit
    PROVE  IInv'
<1> USE DEF IInv
<1>0. /\ ui' = [pc |-> "streaming"] /\ turn' = [pc |-> "notice"] /\ shown' = <<>>
      /\ UNCHANGED <<job, watch, told>> /\ Known' = Known /\ turn = NoTurn /\ ~watch.on
    BY DEF Submit, PromptFree, Typed, Known, NoTurn
<1>1. Typed'
    BY <1>0 DEF Typed, Waiting, NoTurn
<1>2. Vouching'
    BY <1>0, VouchedStays DEF Vouching, NoTurn
<1>3. Shown'
    BY <1>0, ShownCleared 
<1>4. Watched'
    BY <1>0, AtStays DEF Typed, Watched, Shed, Waiting, NoTurn
<1> QED BY <1>1, <1>2, <1>3, <1>4

\* The proposal is answered.
LEMMA AnswerKeeps ==
    ASSUME IInv, Answer
    PROVE  IInv'
<1> USE DEF IInv
<1>0. /\ ui.pc = "awaiting" /\ turn = NoTurn /\ ~watch.on
      /\ ui' = [pc |-> "streaming"] /\ shown' = <<>>
      /\ UNCHANGED <<job, watch, told>> /\ Known' = Known
    BY DEF Answer, Typed, Known, NoTurn
<1>9. PICK answer \in {"yes", "no"} :
        turn' = [pc |-> "call", refs |-> pending.refs, answer |-> answer, asked |-> ui.asked]
    BY DEF Answer
<1>10. turn'.pc = "call" /\ turn' # NoTurn /\ ui'.pc = "streaming" /\ shown' \in Seq([what : What, about : SUBSET Job])
    BY <1>0, <1>9 DEF NoTurn
<1>11. turn'.refs = pending.refs /\ turn'.asked = ui.asked /\ Vouched(pending.refs, ui.asked)
    BY <1>0, <1>9 DEF Vouching
<1>1. Typed'
    BY <1>0, <1>10 DEF Typed, Waiting
<1>2. Vouching'
    BY <1>0, <1>10, <1>11, VouchedForms, VouchedStays DEF Vouching
<1>3. Shown'
    BY <1>0, <1>10, ShownCleared 
<1>4. Watched'
    BY <1>0, <1>10, AtStays DEF Typed, Watched, Shed, Waiting
<1> QED BY <1>1, <1>2, <1>3, <1>4

\* The turn's last event is rendered.
LEMMA RenderedKeeps ==
    ASSUME IInv, Rendered
    PROVE  IInv'
<1> USE DEF IInv
<1>0. /\ turn.pc = "over" /\ turn' = NoTurn /\ UNCHANGED <<job, watch, pending, told, shown>>
      /\ \/ turn.terminal = "proposal" /\ ui' = [pc |-> "awaiting", asked |-> turn.refs]
         \/ ui' = Free
      /\ Known' = Known /\ ~watch.on
    BY DEF Rendered, Typed, Known
<1>1. Typed'
    BY <1>0 DEF Typed, Waiting, NoTurn, Free
<1>2. Vouching'
    BY <1>0, VouchedStays DEF Vouching, NoTurn, Free
<1>3. Shown'
    BY <1>0, SameAbout, ShownStays DEF NoTurn
<1>4. Watched'
    BY <1>0, AtStays DEF Typed, Watched, Shed, Waiting, NoTurn, Free
<1> QED BY <1>1, <1>2, <1>3, <1>4

\* The turn is cut short.
LEMMA CutKeeps ==
    ASSUME IInv, Cut
    PROVE  IInv'
<1> USE DEF IInv
<1>0. /\ turn' = NoTurn /\ watch' = NoWatch /\ ui' = Free
      /\ Show("cut short", {}) /\ UNCHANGED <<job, pending, told>> /\ Known' = Known
      /\ turn'.pc = "idle" /\ ui'.pc = "free"
    BY DEF Cut, Known, NoTurn, Free, Show
<1>9. /\ \A what \in {"answer", "plan", "notice"} : \A j : At(what, j)' = At(what, j)
      /\ \A i \in DOMAIN shown' : shown'[i].about \subseteq Known'
  <2>0. Show("cut short", {}) /\ Known' = Known /\ {} \in SUBSET Known'
      BY <1>0
  <2>1. \A what \in {"answer", "plan", "notice"} : \A j : At(what, j)' = At(what, j)
      BY <2>0, AtKept
  <2>2. \A i \in DOMAIN shown' : shown'[i].about \subseteq Known'
      BY <2>0, AppendedAbout
  <2> QED BY <2>1, <2>2
<1>1. Typed'
  <2>1. shown' \in Seq([what : What, about : SUBSET Job])
      BY <1>0, ItemTyped DEF What
  <2> QED BY <1>0, <2>1, NoWatchTyped DEF Typed, Waiting
<1>2. Vouching'
    BY <1>0, <1>9, NoWatchTyped, VouchedStays DEF Vouching, Waiting
<1>3. Shown'
    BY <1>0, <1>9, NoWatchTyped, ShownStays 
<1>4. Watched'
    BY <1>0, <1>9, NoWatchTyped, AtStays DEF Typed, Watched, Shed, Waiting
<1> QED BY <1>1, <1>2, <1>3, <1>4

\* The front-end is opened again.
LEMMA ReopenKeeps ==
    ASSUME IInv, Reopen
    PROVE  IInv'
<1> USE DEF IInv
<1>0. /\ turn = NoTurn /\ ui' = Free /\ shown' = <<>> /\ UNCHANGED <<job, turn, watch, pending, told>>
      /\ Known' = Known /\ ui'.pc = "free" /\ turn.pc = "idle" /\ ~watch.on
    BY DEF Reopen, Known, Free, NoTurn, Typed
<1>1. Typed'
    BY <1>0 DEF Typed, Waiting
<1>2. Vouching'
    BY <1>0, VouchedStays DEF Vouching
<1>3. Shown'
    BY <1>0, ShownCleared 
<1>4. Watched'
    BY <1>0, AtStays DEF Typed, Watched, Shed, Waiting
<1> QED BY <1>1, <1>2, <1>3, <1>4

-----------------------------------------------------------------------------
(* The agent.                                                                *)
LEMMA AnswersAppend ==
    ASSUME Typed, Shown, NEW S \in SUBSET Known, Show("answer", S), Known' = Known,
           \A j \in S : At("answer", j) = {}
    PROVE  /\ \A j \in Known : Ordered(j)'
           /\ \A j : At("plan", j)' = At("plan", j)
           /\ \A j : j \notin S => At("answer", j)' = At("answer", j)
           /\ \A i \in DOMAIN shown' : shown'[i].about \subseteq Known'
<1>1. shown \in Seq([what : What, about : SUBSET Job])
    BY DEF Typed
<1>2. Len(shown) \in Nat
    BY <1>1
<1>3. PICK w : w = "answer"
    OBVIOUS
<1>4. Show(w, S)
    BY <1>3
<1>5. /\ \A what, j : At(what, j) \subseteq 1 .. Len(shown)
      /\ \A what, j : what # w \/ j \notin S => At(what, j)' = At(what, j)
      /\ \A what, j : At(what, j)' = At(what, j) \cup (IF what = w /\ j \in S THEN {Len(shown) + 1} ELSE {})
    BY <1>4, AtAppends
<1>6. /\ \A j : At("plan", j)' = At("plan", j) /\ At("notice", j)' = At("notice", j)
      /\ \A j : j \notin S => At("answer", j)' = At("answer", j)
      /\ \A j \in S : At("answer", j)' = {Len(shown) + 1}
      /\ \A j : At("plan", j) \subseteq 1 .. Len(shown)
  <2>1. w # "plan" /\ w # "notice"
      BY <1>3
  <2> QED BY <1>3, <1>5, <2>1
<1>7. \A j \in Known : Ordered(j)'
  <2> TAKE j \in Known
  <2>1. Ordered(j)
      BY DEF Shown
  <2>2. CASE j \in S
      BY <1>2, <1>6, <2>1, <2>2 DEF Ordered
  <2>3. CASE j \notin S
      BY <1>6, <2>1, <2>3 DEF Ordered
  <2> QED BY <2>2, <2>3
<1> QED BY <1>4, <1>6, <1>7, AppendedAbout

\* The endings that the thread has not been told go to the model.
LEMMA NoticeKeeps ==
    ASSUME IInv, Notice
    PROVE  IInv'
<1> USE DEF IInv
<1>0. PICK inline \in SUBSET {j \in Known : job[j] = "answered" /\ j \notin told},
           endings \in SUBSET Known :
        /\ inline \subseteq endings
        /\ IF inline = {} THEN UNCHANGED shown ELSE Show("answer", inline)
        /\ turn' = [pc |-> "model", endings |-> endings]
    BY DEF Notice, Show, Settled
<1>9. /\ UNCHANGED <<job, watch, pending, told, ui>> /\ Known' = Known /\ turn.pc = "notice" /\ ~watch.on
      /\ turn # NoTurn /\ turn' # NoTurn /\ turn'.pc = "model" /\ turn'.endings \subseteq Known /\ Telling = {}
  <2>1. NoTurn.pc = "idle"
      BY DEF NoTurn
  <2>2. turn.pc = "notice" /\ UNCHANGED <<job, watch, pending, told, ui>>
      BY DEF Notice
  <2>3. turn'.pc = "model" /\ turn'.endings = endings
      BY <1>0
  <2>4. ~watch.on
      BY <2>2 DEF Typed
  <2>5. turn # NoTurn /\ turn' # NoTurn
      BY <2>1, <2>2, <2>3
  <2> QED BY <2>2, <2>3, <2>4, <2>5 DEF Known, Telling
<1>1. Typed'
  <2>1. "answer" \in What /\ inline \subseteq Job
      BY KnownIsJob DEF What
  <2>2. shown' \in Seq([what : What, about : SUBSET Job])
    <3>1. CASE inline = {}
        BY <1>0, <3>1 DEF Typed
    <3>2. CASE inline # {}
        BY <1>0, <2>1, <3>2, ItemTyped
    <3> QED BY <3>1, <3>2
  <2> QED BY <1>9, <2>2 DEF Typed, Waiting
<1>2. Vouching'
    BY <1>9, VouchedStays DEF Vouching
<1>3. Shown'
  <2>1. CASE inline = {}
    <3>1. Telling \subseteq told'
        BY <1>9
    <3> QED BY <1>0, <1>9, <2>1, <3>1, SameAbout, ShownStays
  <2>2. CASE inline # {}
    <3>1. \A j \in inline : At("answer", j) = {}
        BY <1>9 DEF Shown
    <3>2. /\ \A j \in Known : Ordered(j)'
          /\ \A j : j \notin inline => At("answer", j)' = At("answer", j)
          /\ \A i \in DOMAIN shown' : shown'[i].about \subseteq Known'
        BY <1>0, <1>9, <2>2, <3>1, AnswersAppend
    <3>3. Telling' = endings
        BY <1>0 DEF Telling
    <3>4. \A j \in Known : At("answer", j)' # {} => j \in told \cup endings
        BY <1>0, <1>9, <3>2 DEF Shown
    <3> QED BY <1>9, <3>2, <3>3, <3>4 DEF Shown
  <2> QED BY <2>1, <2>2
<1>4. Watched'
    BY <1>9 DEF Watched, Waiting
<1> QED BY <1>1, <1>2, <1>3, <1>4

\* The model replies, or calls launch_job.
LEMMA ModelKeeps ==
    ASSUME IInv, Reply \/ Call
    PROVE  IInv'
<1> USE DEF IInv
<1>0. /\ turn.pc = "model" /\ turn # NoTurn /\ turn' # NoTurn /\ turn'.pc \in {"over", "call"}
      /\ turn'.pc = "over" => turn'.terminal = "message"
      /\ turn'.pc = "call" => turn'.answer = "none" /\ turn'.refs \in {{}} \cup {{p} : p \in Prefix}
      /\ told' = told \cup turn.endings /\ turn.endings \subseteq Known
      /\ UNCHANGED <<job, watch, pending, ui>> /\ Known' = Known /\ ~watch.on
      /\ UNCHANGED shown \/ Show("message", {})
  <2>1. NoTurn.pc = "idle"
      BY DEF NoTurn
  <2>2. turn.pc = "model"
      BY DEF Reply, Call
  <2>3. turn # NoTurn /\ ~watch.on /\ turn.endings \subseteq Known
      BY <2>1, <2>2 DEF Typed
  <2>4. CASE Reply
    <3>1. /\ turn' = [pc |-> "over", terminal |-> "message"] /\ Show("message", {})
          /\ told' = told \cup turn.endings /\ UNCHANGED <<job, watch, pending, ui>>
        BY <2>4 DEF Reply, Show
    <3>2. turn'.pc = "over" /\ turn'.terminal = "message"
        BY <3>1
    <3>3. turn' # NoTurn
        BY <2>1, <3>2
    <3> QED BY <2>2, <2>3, <3>1, <3>2, <3>3 DEF Known
  <2>5. CASE Call
    <3>1. PICK refs \in {{}} \cup {{p} : p \in Prefix} :
            turn' = [pc |-> "call", refs |-> refs, answer |-> "none", asked |-> {}]
        BY <2>5 DEF Call
    <3>2. told' = told \cup turn.endings /\ UNCHANGED <<job, watch, pending, shown, ui>>
        BY <2>5 DEF Call
    <3>3. turn'.pc = "call" /\ turn'.answer = "none" /\ turn'.refs = refs
        BY <3>1
    <3>4. turn' # NoTurn
        BY <2>1, <3>3
    <3> QED BY <2>2, <2>3, <3>2, <3>3, <3>4 DEF Known
  <2> QED BY <2>4, <2>5
<1>1. Typed'
  <2>1. shown' \in Seq([what : What, about : SUBSET Job])
    <3>1. CASE UNCHANGED shown
        BY <3>1 DEF Typed
    <3>2. CASE Show("message", {})
        BY <3>2, ItemTyped DEF What
    <3> QED BY <1>0, <3>1, <3>2
  <2> QED BY <1>0, <2>1 DEF Typed, Waiting
<1>2. Vouching'
    BY <1>0, VouchedStays DEF Vouching, Typed
<1>3. Shown'
  <2>1. /\ \A what \in {"answer", "plan", "notice"} : \A j : At(what, j)' = At(what, j)
        /\ \A i \in DOMAIN shown' : shown'[i].about \subseteq Known'
    <3>1. CASE UNCHANGED shown
        BY <1>0, <3>1, SameAbout
    <3>2. CASE Show("message", {})
      <4>1. \A what \in {"answer", "plan", "notice"} : \A j : At(what, j)' = At(what, j)
          BY <3>2, AtKept
      <4>2. {} \in SUBSET Known' /\ Known \subseteq Known'
          BY <1>0
      <4>3. \A i \in DOMAIN shown' : shown'[i].about \subseteq Known'
          BY <3>2, <4>2, AppendedAbout
      <4> QED BY <4>1, <4>3
    <3> QED BY <1>0, <3>1, <3>2
  <2>2. Telling = turn.endings
      BY <1>0 DEF Telling
  <2> QED BY <1>0, <2>1, <2>2, ShownStays
<1>4. Watched'
    BY <1>0 DEF Watched, Waiting
<1> QED BY <1>1, <1>2, <1>3, <1>4

\* What a reference finds is one job of the session, or nothing.
LEMMA FoundIsOne ==
    ASSUME Typed, NEW p \in Prefix, Found(p) # {}
    PROVE  /\ Found(p) = Matches[p] \cap Known
           /\ \E j \in Known : Found(p) = {j} /\ j \in Matches[p]
<1>1. IsFiniteSet(Matches[p] \cap Known)
  <2>1. IsFiniteSet(Known)
      BY JobsDo, FS_Interval
  <2> QED BY <2>1, FS_Intersection
<1>2. Found(p) = Matches[p] \cap Known /\ Cardinality(Matches[p] \cap Known) = 1
    BY DEF Found
<1>3. PICK j : Matches[p] \cap Known = {j}
    BY <1>1, <1>2, FS_Singleton
<1> QED BY <1>2, <1>3

\* launch_job up to its gate.
LEMMA CheckKeeps ==
    ASSUME IInv, Check
    PROVE  IInv'
<1> USE DEF IInv
<1> DEFINE found == UNION {Found(p) : p \in turn.refs}
<1>0. /\ turn.pc = "call" /\ turn # NoTurn /\ ~watch.on /\ UNCHANGED <<job, watch, told, ui>> /\ Known' = Known
      /\ Telling = {} /\ NoTurn.pc = "idle" /\ ui.pc = "streaming"
  <2>1. NoTurn.pc = "idle" /\ turn.pc = "call"
      BY DEF NoTurn, Check
  <2> QED BY <2>1 DEF Check, Typed, Known, Telling
<1>9. found \subseteq Known /\ found \subseteq Job
  <2>1. found \subseteq Known
      BY DEF Found
  <2> QED BY <2>1, KnownIsJob
<1>10. (\A p \in turn.refs : Found(p) # {}) => Vouched(turn.refs, found)
  <2>1. CASE turn.refs = {}
      BY <2>1 DEF Vouched
  <2>2. ASSUME NEW p \in Prefix, turn.refs = {p}, Found(p) # {} PROVE Vouched(turn.refs, found)
    <3>1. found = Found(p)
        BY <2>2
    <3>2. PICK j \in Known : Found(p) = {j} /\ j \in Matches[p]
        BY <2>2, FoundIsOne
    <3> QED BY <2>2, <3>1, <3>2 DEF Vouched
  <2> QED BY <1>0, <2>1, <2>2 DEF Vouching
<1>11. (\A p \in turn.refs : Found(p) # {}) /\ turn.answer = "yes" => found = turn.asked
  <2> SUFFICES ASSUME \A p \in turn.refs : Found(p) # {}, turn.answer = "yes" PROVE found = turn.asked
      OBVIOUS
  <2>1. Vouched(turn.refs, turn.asked)
      BY <1>0 DEF Vouching
  <2>2. CASE turn.refs = {} /\ turn.asked = {}
      BY <2>2
  <2>3. ASSUME NEW p \in Prefix, NEW j \in Known, turn.refs = {p}, turn.asked = {j}, j \in Matches[p]
        PROVE  found = turn.asked
    <3>1. found = Found(p) /\ Found(p) # {}
        BY <2>3
    <3>2. Found(p) = Matches[p] \cap Known /\ \E k \in Known : Found(p) = {k} /\ k \in Matches[p]
        BY <2>3, <3>1, FoundIsOne
    <3> QED BY <2>3, <3>1, <3>2
  <2> QED BY <2>1, <2>2, <2>3 DEF Vouched
<1>12. \/ turn' = [pc |-> "notice"] /\ UNCHANGED <<pending, shown>>
       \/ /\ \A p \in turn.refs : Found(p) # {}
          /\ pending' = [refs |-> turn.refs] /\ Show("proposal", found)
          /\ turn' = [pc |-> "over", terminal |-> "proposal", refs |-> found]
       \/ /\ \A p \in turn.refs : Found(p) # {}
          /\ ~Gate \/ turn.answer = "yes"
          /\ turn' = [pc |-> "create", refs |-> found, asked |-> turn.asked]
          /\ UNCHANGED <<pending, shown>>
    BY DEF Check, BackToModel, Show
<1> HIDE DEF found
<1>13. /\ turn' # NoTurn /\ turn'.pc \in {"notice", "over", "create"}
       /\ UNCHANGED shown \/ Show("proposal", found)
    BY <1>0, <1>12
<1>1. Typed'
  <2>1. shown' \in Seq([what : What, about : SUBSET Job])
    <3>1. CASE UNCHANGED shown
        BY <3>1 DEF Typed
    <3>2. CASE Show("proposal", found)
        BY <1>9, <3>2, ItemTyped DEF What
    <3> QED BY <1>13, <3>1, <3>2
  <2> QED BY <1>0, <1>13, <2>1 DEF Typed, Waiting
<1>2. Vouching'
  <2>1. CASE turn' = [pc |-> "notice"]
      BY <1>0, <2>1 DEF Vouching
  <2>2. CASE /\ \A p \in turn.refs : Found(p) # {}
             /\ pending' = [refs |-> turn.refs]
             /\ turn' = [pc |-> "over", terminal |-> "proposal", refs |-> found]
    <3>1. Vouched(pending'.refs, turn'.refs)
        BY <1>10, <2>2
    <3>2. Vouched(pending.refs, turn.refs)'
        BY <1>0, <3>1 DEF Vouched
    <3> QED BY <1>0, <2>2, <3>2 DEF Vouching
  <2>3. CASE /\ \A p \in turn.refs : Found(p) # {}
             /\ ~Gate \/ turn.answer = "yes"
             /\ turn' = [pc |-> "create", refs |-> found, asked |-> turn.asked]
      BY <1>0, <1>11, <2>3 DEF Vouching
  <2> QED BY <1>12, <2>1, <2>2, <2>3
<1>3. Shown'
  <2>1. /\ \A what \in {"answer", "plan", "notice"} : \A j : At(what, j)' = At(what, j)
        /\ \A i \in DOMAIN shown' : shown'[i].about \subseteq Known'
    <3>1. CASE UNCHANGED shown
        BY <1>0, <3>1, SameAbout
    <3>2. CASE Show("proposal", found)
      <4>1. \A what \in {"answer", "plan", "notice"} : \A j : At(what, j)' = At(what, j)
          BY <3>2, AtKept
      <4>2. found \in SUBSET Known' /\ Known \subseteq Known'
          BY <1>0, <1>9
      <4>3. \A i \in DOMAIN shown' : shown'[i].about \subseteq Known'
          BY <3>2, <4>2, AppendedAbout
      <4> QED BY <4>1, <4>3
    <3> QED BY <1>13, <3>1, <3>2
  <2> QED BY <1>0, <1>13, <2>1, ShownStays
<1>4. Watched'
    BY <1>0, <1>13 DEF Watched, Waiting
<1> QED BY <1>1, <1>2, <1>3, <1>4

\* The job is created, said and watched.
LEMMA CreateKeeps ==
    ASSUME IInv, Create
    PROVE  IInv'
<1> USE DEF IInv
<1> DEFINE n == Len(job')
<1>0. /\ job' \in Seq(Settled \cup {"running"}) /\ Len(job') <= MaxJob
      /\ Known' = Known \cup {n} /\ n \notin Known /\ n \in Job
    BY JobsDo DEF Create, Created
<1>9. /\ turn.pc = "create" /\ NoTurn.pc = "idle" /\ Show("notice", {n}) /\ UNCHANGED <<pending, told, ui>>
      /\ turn' = [pc |-> "wait", job |-> n, plan |-> "none", shed |-> FALSE]
      /\ watch' = [NoWatch EXCEPT !.on = TRUE]
    BY DEF Create, Show, NoTurn
<1> HIDE DEF n
<1>10. /\ turn' \in [pc : Waiting, job : Job, plan : {"none", "one step", "steps"}, shed : BOOLEAN]
       /\ turn'.pc = "wait" /\ turn'.job = n /\ turn'.plan = "none" /\ ~turn'.shed
       /\ turn # NoTurn /\ turn' # NoTurn /\ ui.pc = "streaming" /\ Telling = {} /\ Telling' = {}
  <2>1. /\ turn' \in [pc : Waiting, job : Job, plan : {"none", "one step", "steps"}, shed : BOOLEAN]
        /\ turn'.pc = "wait" /\ turn'.job = n /\ turn'.plan = "none" /\ ~turn'.shed
      BY <1>0, <1>9 DEF Waiting
  <2>2. turn # NoTurn /\ turn' # NoTurn
      BY <1>9, <2>1
  <2>3. Telling = {} /\ Telling' = {}
      BY <1>9, <2>1 DEF Telling
  <2> QED BY <2>1, <2>2, <2>3 DEF Typed
<1>11. /\ watch' \in [on : BOOLEAN, queue : Seq(Nat), shed : BOOLEAN] /\ Len(watch'.queue) <= MaxQueue
       /\ watch'.on /\ watch'.queue = <<>>
  <2>1. watch' = [on |-> TRUE, queue |-> <<>>, shed |-> FALSE]
      BY <1>9 DEF NoWatch
  <2> QED BY <2>1, ChatAssumption
<1>1. Typed'
  <2>1. shown' \in Seq([what : What, about : SUBSET Job])
      BY <1>0, <1>9, ItemTyped DEF What
  <2>2. turn'.pc \in Waiting /\ turn'.pc # "model" /\ turn'.pc # "idle"
      BY <1>10 DEF Waiting
  <2>3. told' \subseteq Known'
      BY <1>0, <1>9 DEF Typed
  <2> QED BY <1>0, <1>9, <1>10, <1>11, <2>1, <2>2, <2>3 DEF Typed
<1>2. Vouching'
    BY <1>9, <1>10 DEF Vouching
<1>3. Shown'
  <2>1. PICK w : w = "notice"
      OBVIOUS
  <2>2. Show(w, {n})
      BY <1>9, <2>1
  <2>3. \A what, j : what # w \/ j \notin {n} => At(what, j)' = At(what, j)
      BY <2>2, AtAppends
  <2>4. /\ \A j : At("plan", j)' = At("plan", j) /\ At("answer", j)' = At("answer", j)
        /\ \A j \in Known : At("notice", j)' = At("notice", j)
    <3>1. w # "plan" /\ w # "answer"
        BY <2>1
    <3> QED BY <1>0, <2>3, <3>1
  <2>5. \A i \in DOMAIN shown' : shown'[i].about \subseteq Known'
    <3>1. {n} \in SUBSET Known' /\ Known \subseteq Known'
        BY <1>0
    <3> QED BY <2>2, <3>1, AppendedAbout
  <2>6. At("plan", n) = {} /\ At("answer", n) = {}
      BY <1>0, NothingOfTheNew
  <2>7. \A j \in Known' : Ordered(j)'
    <3> TAKE j \in Known'
    <3>1. CASE j \in Known
      <4>1. Ordered(j)
          BY <3>1 DEF Shown
      <4> QED BY <2>4, <3>1, <4>1 DEF Ordered
    <3>2. CASE j = n
        BY <2>4, <2>6, <3>2 DEF Ordered
    <3> QED BY <1>0, <3>1, <3>2
  <2>8. \A j \in Known' : At("answer", j)' # {} => j \in told' \cup Telling'
      BY <1>0, <1>9, <1>10, <2>4, <2>6 DEF Shown
  <2>9. turn'.job \notin told' /\ At("plan", turn.job)' = {}
      BY <1>0, <1>9, <1>10, <2>4, <2>6 DEF Typed
  <2> QED BY <2>5, <2>7, <2>8, <2>9 DEF Shown
<1>4. Watched'
  <2>1. DOMAIN watch'.queue = {}
      BY <1>11
  <2> QED BY <1>10, <1>11, <2>1 DEF Watched
<1> QED BY <1>1, <1>2, <1>3, <1>4

\* announce_plan takes the next event.
LEMMA AnnounceKeeps ==
    ASSUME IInv, Announce
    PROVE  IInv'
<1> USE DEF IInv
<1>0. /\ watch.on /\ turn.pc \in {"wait", "drain"} /\ watch.queue \in Seq(Nat) /\ Len(watch.queue) <= MaxQueue
      /\ watch.queue # <<>> /\ watch \in [on : BOOLEAN, queue : Seq(Nat), shed : BOOLEAN]
      /\ turn.job \in Known /\ turn.job \in Nat /\ turn.job # 0
      /\ UNCHANGED <<job, turn, pending, told, ui>> /\ Known' = Known /\ turn # NoTurn
  <2>1. watch.on /\ watch.queue # <<>> /\ UNCHANGED <<job, turn, pending, told, ui>>
      BY DEF Announce
  <2>2. /\ watch \in [on : BOOLEAN, queue : Seq(Nat), shed : BOOLEAN] /\ Len(watch.queue) <= MaxQueue
        /\ turn.pc \in {"wait", "drain"}
      BY <2>1 DEF Typed
  <2>3. turn.job \in Known
      BY <2>2 DEF Typed, Waiting
  <2>4. turn # NoTurn
      BY <2>2 DEF NoTurn
  <2> QED BY <2>1, <2>2, <2>3, <2>4, KnownIsJob DEF Known
<1>9. /\ Len(watch.queue) \in Nat /\ DOMAIN watch.queue = 1 .. Len(watch.queue) /\ 1 \in DOMAIN watch.queue
      /\ Head(watch.queue) = watch.queue[1]
    BY <1>0
<1>10. At("plan", turn.job) = {} /\ At("answer", turn.job) = {}
  <2>1. turn.job \notin told /\ Telling = {}
      BY <1>0 DEF Shown, Telling
  <2> QED BY <1>0, <2>1 DEF Shown
<1>11. CASE Head(watch.queue) = 0 \/ (Head(watch.queue) = turn.job /\ turn.plan # "none")
  <2>1. /\ watch' = NoWatch
        /\ \/ /\ Head(watch.queue) = turn.job /\ turn.plan = "steps" /\ Show("plan", {turn.job})
           \/ /\ ~(Head(watch.queue) = turn.job /\ turn.plan = "steps") /\ UNCHANGED shown
      BY <1>11 DEF Announce, Show
  <2>2. Typed'
    <3>1. shown' \in Seq([what : What, about : SUBSET Job])
      <4>1. {turn.job} \in SUBSET Job
          BY <1>0, KnownIsJob
      <4>2. CASE Show("plan", {turn.job})
          BY <4>1, <4>2, ItemTyped DEF What
      <4> QED BY <2>1, <4>2 DEF Typed
    <3> QED BY <1>0, <2>1, <3>1, NoWatchTyped DEF Typed
  <2>3. Vouching'
      BY <1>0, VouchedStays DEF Vouching
  <2>4. Shown' /\ (Head(watch.queue) = turn.job /\ turn.plan = "steps" => At("plan", turn.job)' # {})
    <3>1. CASE ~(Head(watch.queue) = turn.job /\ turn.plan = "steps") /\ UNCHANGED shown
      <4>1. Telling' = Telling
          BY <1>0 DEF Telling
      <4>2. turn'.pc \in {"wait", "drain", "tell"} => turn'.job \notin told'
          BY <1>0 DEF Shown
      <4>3. Shown'
          BY <1>0, <2>1, <3>1, <4>1, <4>2, SameAbout, ShownStays, NoWatchTyped
      <4> QED BY <3>1, <4>3
    <3>2. CASE Show("plan", {turn.job})
      <4>1. PICK w : w = "plan"
          OBVIOUS
      <4>2. Show(w, {turn.job})
          BY <3>2, <4>1
      <4>3. /\ \A what, j : At(what, j) \subseteq 1 .. Len(shown)
            /\ \A what, j : what # w \/ j \notin {turn.job} => At(what, j)' = At(what, j)
            /\ \A what, j : At(what, j)' = At(what, j) \cup (IF what = w /\ j \in {turn.job} THEN {Len(shown) + 1} ELSE {})
          BY <4>2, AtAppends
      <4>4. /\ \A j : At("notice", j)' = At("notice", j) /\ At("answer", j)' = At("answer", j)
            /\ \A j : j # turn.job => At("plan", j)' = At("plan", j)
            /\ At("plan", turn.job)' = {Len(shown) + 1}
            /\ \A j : At("notice", j) \subseteq 1 .. Len(shown)
        <5>1. w # "notice" /\ w # "answer"
            BY <4>1
        <5>2. At("plan", turn.job)' = {Len(shown) + 1}
          <6>1. PICK j : j = turn.job
              OBVIOUS
          <6>2. At(w, j)' = At(w, j) \cup {Len(shown) + 1}
              BY <4>3, <6>1
          <6>3. turn'.job = turn.job
              BY <1>0
          <6>4. At("plan", j) = {}
              BY <1>10, <6>1
          <6>5. At("plan", j)' = {Len(shown) + 1}
              BY <4>1, <6>2, <6>4
          <6> QED BY <6>1, <6>3, <6>5 DEF At
        <5> QED BY <4>1, <4>3, <5>1, <5>2
      <4>5. \A i \in DOMAIN shown' : shown'[i].about \subseteq Known'
        <5>1. {turn.job} \in SUBSET Known' /\ Known \subseteq Known'
            BY <1>0
        <5> QED BY <4>2, <5>1, AppendedAbout
      <4>6. Len(shown) \in Nat
        <5>1. shown \in Seq([what : What, about : SUBSET Job])
            BY DEF Typed
        <5> QED BY <5>1
      <4>7. \A j \in Known' : Ordered(j)'
        <5> TAKE j \in Known'
        <5>1. Ordered(j)
            BY <1>0 DEF Shown
        <5>2. CASE j = turn.job
          <6>1. At("plan", j)' = {Len(shown) + 1}
              BY <1>0, <4>4, <5>2 DEF At
          <6>3. At("answer", j)' = {}
              BY <1>10, <4>4, <5>2
          <6>2. \A i \in At("notice", j)' : i < Len(shown) + 1
              BY <4>4, <4>6
          <6> QED BY <6>1, <6>2, <6>3 DEF Ordered
        <5>3. CASE j # turn.job
            BY <4>4, <5>1, <5>3 DEF Ordered
        <5> QED BY <5>2, <5>3
      <4>8. Telling' = Telling
          BY <1>0 DEF Telling
      <4>9. \A j \in Known' : At("answer", j)' # {} => j \in told' \cup Telling'
          BY <1>0, <4>4, <4>8 DEF Shown
      <4>10. turn'.job \notin told'
          BY <1>0 DEF Shown
      <4>11. ~watch'.on
          BY <2>1, NoWatchTyped
      <4> QED BY <4>4, <4>5, <4>7, <4>9, <4>10, <4>11 DEF Shown
    <3> QED BY <2>1, <3>1, <3>2
  <2>5. Watched'
    <3>1. ~watch'.on /\ watch'.queue = <<>>
        BY <2>1, NoWatchTyped
    <3>2. turn'.pc = "wait" => ~turn'.shed /\ turn'.plan # "none"
        BY <1>0, <1>9, <1>11 DEF Watched
    <3>3. turn.plan = "steps" /\ ~turn.shed => Head(watch.queue) = turn.job
      <4>1. CASE turn.pc = "wait"
          BY <1>9, <1>11, <4>1 DEF Watched
      <4>2. CASE turn.pc = "drain" /\ turn.plan = "steps" /\ ~turn.shed
        <5>1. PICK i \in DOMAIN watch.queue :
                watch.queue[i] = turn.job /\ \A k \in DOMAIN watch.queue : k < i => watch.queue[k] # 0
            BY <1>0, <4>2 DEF Watched, Shed
        <5>2. watch.queue[1] # 0
            BY <1>0, <1>9, <5>1
        <5> QED BY <1>9, <1>11, <5>2
      <4> QED BY <1>0, <4>1, <4>2
    <3>4. turn'.plan = "steps" /\ ~turn'.shed => At("plan", turn.job)' # {}
        BY <1>0, <2>4, <3>3
    <3> QED BY <3>1, <3>2, <3>4 DEF Watched
  <2> QED BY <2>2, <2>3, <2>4, <2>5
<1>12. CASE ~(Head(watch.queue) = 0 \/ (Head(watch.queue) = turn.job /\ turn.plan # "none"))
  <2>1. watch' = [watch EXCEPT !.queue = Tail(watch.queue)] /\ UNCHANGED shown
      BY <1>12 DEF Announce
  <2>2. /\ Tail(watch.queue) \in Seq(Nat) /\ Len(Tail(watch.queue)) = Len(watch.queue) - 1
        /\ DOMAIN Tail(watch.queue) = 1 .. Len(watch.queue) - 1
        /\ \A i \in 1 .. Len(watch.queue) - 1 : Tail(watch.queue)[i] = watch.queue[i + 1]
      BY <1>0, <1>9
  <2>3. /\ watch' \in [on : BOOLEAN, queue : Seq(Nat), shed : BOOLEAN] /\ watch'.queue = Tail(watch.queue)
        /\ watch'.on = watch.on /\ watch'.shed = watch.shed
      BY <1>0, <2>1, <2>2
  <2>4. /\ DOMAIN watch'.queue = 1 .. Len(watch.queue) - 1 /\ Len(watch'.queue) <= MaxQueue
        /\ \A i \in DOMAIN watch'.queue : watch'.queue[i] = watch.queue[i + 1] /\ i + 1 \in DOMAIN watch.queue
      BY SMTT(30), <1>0, <1>9, <2>2, <2>3, ChatAssumption
  <2>5. Typed'
      BY <1>0, <2>1, <2>3, <2>4 DEF Typed
  <2>6. Vouching'
      BY <1>0, VouchedStays DEF Vouching
  <2>7. Shown'
    <3>1. Telling' = Telling
        BY <1>0 DEF Telling
    <3>2. turn'.job \notin told'
        BY <1>0 DEF Shown
    <3> QED BY <1>0, <2>1, <2>3, <3>1, <3>2, SameAbout, ShownStays
  <2>8. Watched'
    <3>1. Shed' = Shed
        BY <1>0, <2>3 DEF Shed
    <3>2. turn'.pc = "wait" => ~turn'.shed /\ \A i \in DOMAIN watch'.queue : watch'.queue[i] # 0
        BY SMTT(30), <1>0, <2>4 DEF Watched
    <3>3. ASSUME turn.plan # "none", ~Shed
          PROVE  \E i \in DOMAIN watch'.queue :
                    watch'.queue[i] = turn'.job /\ \A k \in DOMAIN watch'.queue : k < i => watch'.queue[k] # 0
      <4>1. PICK i \in DOMAIN watch.queue :
              watch.queue[i] = turn.job /\ \A k \in DOMAIN watch.queue : k < i => watch.queue[k] # 0
          BY <1>0, <3>3 DEF Watched
      <4>2. i # 1 /\ i - 1 \in DOMAIN watch'.queue /\ (i - 1) + 1 = i
          BY <1>9, <1>12, <2>4, <3>3, <4>1
      <4>3. watch'.queue[i - 1] = turn'.job
          BY <1>0, <2>4, <4>1, <4>2
      <4>4. \A k \in DOMAIN watch'.queue : k < i - 1 => watch'.queue[k] # 0
          BY SMTT(30), <1>9, <2>4, <4>1
      <4> QED BY <4>2, <4>3, <4>4
    <3> QED BY <1>0, <2>3, <3>1, <3>2, <3>3 DEF Watched
  <2> QED BY <2>5, <2>6, <2>7, <2>8
<1> QED BY <1>11, <1>12

\* The turn stops waiting for the job: at the clock, or since the run settled.
LEMMA LeaveKeeps ==
    ASSUME IInv, Promote \/ Settle \/ Drained
    PROVE  IInv'
<1> USE DEF IInv
<1>0. /\ turn.pc \in {"wait", "drain"} /\ turn # NoTurn /\ Telling = {} /\ turn.job \notin told
      /\ turn \in [pc : Waiting, job : Job, plan : {"none", "one step", "steps"}, shed : BOOLEAN]
      /\ turn.job \in Known /\ UNCHANGED <<job, pending, told, shown, ui>> /\ Known' = Known
      /\ watch \in [on : BOOLEAN, queue : Seq(Nat), shed : BOOLEAN] /\ watch.queue \in Seq(Nat)
      /\ Len(watch.queue) <= MaxQueue /\ ui.pc = "streaming" /\ Len(watch.queue) \in Nat
  <2>1. turn.pc \in {"wait", "drain"} /\ UNCHANGED <<job, pending, told, shown, ui>>
      BY DEF Promote, Settle, Drained
  <2>2. turn # NoTurn
      BY <2>1 DEF NoTurn
  <2>3. watch \in [on : BOOLEAN, queue : Seq(Nat), shed : BOOLEAN] /\ Len(watch.queue) <= MaxQueue
      BY DEF Typed
  <2>4. watch.queue \in Seq(Nat)
      BY <2>3
  <2>5. Len(watch.queue) \in Nat
      BY <2>4
  <2>6. Telling = {} /\ turn.job \notin told
      BY <2>1 DEF Telling, Shown
  <2>7. /\ turn \in [pc : Waiting, job : Job, plan : {"none", "one step", "steps"}, shed : BOOLEAN]
        /\ turn.job \in Known /\ ui.pc = "streaming"
      BY <2>1, <2>2 DEF Typed, Waiting
  <2> QED BY <2>1, <2>2, <2>3, <2>4, <2>5, <2>6, <2>7 DEF Known
<1>1. ASSUME turn' # NoTurn, turn'.pc \in {"notice", "drain", "tell"},
             turn'.pc # "notice" =>
               /\ turn' \in [pc : Waiting, job : Job, plan : {"none", "one step", "steps"}, shed : BOOLEAN]
               /\ turn'.job = turn.job,
             watch' \in [on : BOOLEAN, queue : Seq(Nat), shed : BOOLEAN], Len(watch'.queue) <= MaxQueue,
             watch'.on => watch.on /\ turn'.pc = "drain"
      PROVE  Typed' /\ Vouching' /\ Shown'
  <2>1. Typed'
      BY <1>0, <1>1 DEF Typed, Waiting
  <2>2. Vouching'
      BY <1>0, <1>1 DEF Vouching
  <2>3. turn'.pc \in {"wait", "drain", "tell"} => turn'.job \notin told'
      BY <1>0, <1>1
  <2> QED BY <1>0, <1>1, <2>1, <2>2, <2>3, SameAbout, ShownStays
<1>2. CASE turn' = [pc |-> "notice"] /\ watch' = NoWatch
  <2>1. turn' # NoTurn /\ turn'.pc = "notice"
      BY <1>2 DEF NoTurn
  <2>2. Watched'
      BY <1>2, <2>1, NoWatchTyped DEF Watched, Waiting
  <2> QED BY <1>1, <1>2, <2>1, <2>2, NoWatchTyped
<1>3. CASE /\ turn.pc = "wait" /\ watch.on /\ Len(watch.queue) < MaxQueue
           /\ turn' = [turn EXCEPT !.pc = "drain", !.shed = watch.shed]
           /\ watch' = [watch EXCEPT !.queue = Append(watch.queue, 0)]
  <2>1. /\ turn' \in [pc : Waiting, job : Job, plan : {"none", "one step", "steps"}, shed : BOOLEAN]
        /\ turn'.pc = "drain" /\ turn'.job = turn.job /\ turn'.plan = turn.plan /\ turn'.shed = watch.shed
      BY <1>0, <1>3 DEF Waiting
  <2>2. turn' # NoTurn
    <3>1. NoTurn.pc = "idle"
        BY DEF NoTurn
    <3> QED BY <2>1, <3>1
  <2>3. watch'.queue = Append(watch.queue, 0) /\ watch'.on /\ watch'.shed = watch.shed
      BY <1>0, <1>3
  <2>4. Longer(0) /\ watch'.queue \in Seq(Nat) /\ Len(watch'.queue) = Len(watch.queue) + 1
      BY <2>3, AppendLonger
  <2>5. watch' \in [on : BOOLEAN, queue : Seq(Nat), shed : BOOLEAN] /\ Len(watch'.queue) <= MaxQueue
    <3>1. Len(watch.queue) \in Nat /\ MaxQueue \in Nat /\ Len(watch.queue) < MaxQueue
        BY <1>0, <1>3, ChatAssumption
    <3>2. Len(watch'.queue) <= MaxQueue
        BY <2>4, <3>1
    <3>3. Append(watch.queue, 0) \in Seq(Nat)
        BY <2>3, <2>4
    <3>4. watch' \in [on : BOOLEAN, queue : Seq(Nat), shed : BOOLEAN]
        BY <1>0, <1>3, <3>3
    <3> QED BY <3>2, <3>4
  <2>6. Watched'
    <3>1. Shed' = Shed
        BY <1>3, <2>1 DEF Shed
    <3>2. ASSUME turn.plan # "none", ~Shed
          PROVE  \E i \in DOMAIN watch'.queue :
                    watch'.queue[i] = turn'.job /\ \A k \in DOMAIN watch'.queue : k < i => watch'.queue[k] # 0
      <4>1. PICK i \in DOMAIN watch.queue :
              watch.queue[i] = turn.job /\ \A k \in DOMAIN watch.queue : k < i => watch.queue[k] # 0
          BY <1>3, <3>2 DEF Watched
      <4>2. i \in DOMAIN watch'.queue /\ watch'.queue[i] = turn'.job
          BY <2>1, <2>4, <4>1 DEF Longer
      <4>3. \A k \in DOMAIN watch'.queue : k < i => watch'.queue[k] # 0
        <5> TAKE k \in DOMAIN watch'.queue
        <5>1. CASE k \in DOMAIN watch.queue
            BY <2>4, <4>1, <5>1 DEF Longer
        <5>2. CASE k = Len(watch.queue) + 1
            BY <2>4, <4>1, <5>2 DEF Longer
        <5> QED BY <2>4, <5>1, <5>2 DEF Longer
      <4> QED BY <4>2, <4>3
    <3> QED BY <2>1, <2>3, <3>1, <3>2 DEF Watched
  <2> QED BY <1>1, <1>3, <2>1, <2>2, <2>5, <2>6
<1>4. CASE /\ turn.pc = "wait" /\ ~(watch.on /\ Len(watch.queue) < MaxQueue)
           /\ turn' = [turn EXCEPT !.pc = "tell", !.shed = watch.on] /\ watch' = NoWatch
  <2>1. /\ turn' \in [pc : Waiting, job : Job, plan : {"none", "one step", "steps"}, shed : BOOLEAN]
        /\ turn'.pc = "tell" /\ turn'.job = turn.job /\ turn'.plan = turn.plan /\ turn'.shed = watch.on
      BY <1>0, <1>4 DEF Waiting
  <2>2. turn' # NoTurn
    <3>1. NoTurn.pc = "idle"
        BY DEF NoTurn
    <3> QED BY <2>1, <3>1
  <2>3. ~watch.on /\ turn.plan = "steps" => At("plan", turn.job) # {}
      BY <1>4 DEF Watched, Waiting
  <2>4. turn'.plan = "steps" /\ ~turn'.shed => At("plan", turn.job)' # {}
    <3>1. At("plan", turn.job)' = At("plan", turn.job)
        BY ZenonT(30), <1>0, <2>1, AtStays
    <3> QED BY <2>1, <2>3, <3>1
  <2>5. Watched'
      BY <1>4, <2>1, <2>4, NoWatchTyped DEF Watched
  <2> QED BY <1>1, <1>4, <2>1, <2>2, <2>5, NoWatchTyped
<1>5. CASE Drained
  <2>1. /\ turn.pc = "drain" /\ ~watch.on /\ turn' = [turn EXCEPT !.pc = "tell"] /\ UNCHANGED watch
      BY <1>5 DEF Drained
  <2>2. /\ turn' \in [pc : Waiting, job : Job, plan : {"none", "one step", "steps"}, shed : BOOLEAN]
        /\ turn'.pc = "tell" /\ turn'.job = turn.job /\ turn'.plan = turn.plan /\ turn'.shed = turn.shed
      BY <1>0, <2>1 DEF Waiting
  <2>3. turn' # NoTurn
    <3>1. NoTurn.pc = "idle"
        BY DEF NoTurn
    <3> QED BY <2>2, <3>1
  <2>4. turn'.plan = "steps" /\ ~turn'.shed => At("plan", turn.job)' # {}
      BY ZenonT(30), <1>0, <2>1, <2>2, AtStays DEF Watched
  <2>5. Watched'
      BY <2>1, <2>2, <2>4 DEF Watched
  <2> QED BY <1>0, <1>1, <2>1, <2>2, <2>3, <2>5
<1> QED BY <1>2, <1>3, <1>4, <1>5 DEF Promote, Settle, Drain, BackToModel

\* The result is told, and recorded in the thread.
LEMMA TellKeeps ==
    ASSUME IInv, Tell \/ Record
    PROVE  IInv'
<1> USE DEF IInv
<1>0. /\ turn.pc \in {"tell", "record"} /\ turn # NoTurn /\ ~watch.on
      /\ turn \in [pc : Waiting, job : Job, plan : {"none", "one step", "steps"}, shed : BOOLEAN]
      /\ turn.job \in Known /\ UNCHANGED <<job, watch, pending, ui>> /\ Known' = Known
      /\ ui.pc = "streaming"
  <2>1. turn.pc \in {"tell", "record"} /\ UNCHANGED <<job, watch, pending, ui>>
      BY DEF Tell, Record
  <2>2. turn # NoTurn
      BY <2>1 DEF NoTurn
  <2> QED BY <2>1, <2>2 DEF Typed, Waiting, Known
<1>1. CASE Tell
  <2>1. /\ turn.pc = "tell" /\ turn' = [turn EXCEPT !.pc = "record"] /\ UNCHANGED told
        /\ UNCHANGED shown \/ Show("answer", {turn.job})
      BY <1>1 DEF Tell, Show
  <2>2. /\ turn' \in [pc : Waiting, job : Job, plan : {"none", "one step", "steps"}, shed : BOOLEAN]
        /\ turn'.pc = "record" /\ turn'.job = turn.job /\ turn'.plan = turn.plan /\ turn'.shed = turn.shed
      BY <1>0, <2>1 DEF Waiting
  <2>3. turn' # NoTurn /\ Telling = {} /\ Telling' = {turn.job} /\ turn.job \notin told
      BY <2>1, <2>2 DEF NoTurn, Telling, Shown
  <2>4. Typed'
    <3>1. {turn.job} \in SUBSET Job
        BY <1>0, KnownIsJob
    <3>2. shown' \in Seq([what : What, about : SUBSET Job])
      <4>1. CASE UNCHANGED shown
          BY <4>1 DEF Typed
      <4>2. CASE Show("answer", {turn.job})
          BY <3>1, <4>2, ItemTyped DEF What
      <4> QED BY <2>1, <4>1, <4>2
    <3> QED BY <1>0, <2>1, <2>2, <2>3, <3>2 DEF Typed
  <2>5. Vouching'
      BY <1>0, <2>2 DEF Vouching
  <2>6. Shown' /\ At("plan", turn.job)' = At("plan", turn.job)
    <3>1. CASE UNCHANGED shown
      <4>1. Shown'
          BY <1>0, <2>1, <2>2, <2>3, <3>1, SameAbout, ShownStays
      <4>2. At("plan", turn.job)' = At("plan", turn.job)
          BY <2>2, <3>1, AtStays
      <4> QED BY <4>1, <4>2
    <3>2. CASE Show("answer", {turn.job})
      <4>1. At("answer", turn.job) = {}
          BY <1>0, <2>3 DEF Shown
      <4>2. {turn.job} \in SUBSET Known /\ \A j \in {turn.job} : At("answer", j) = {}
          BY <1>0, <4>1
      <4>3. /\ \A j \in Known : Ordered(j)'
            /\ \A j : At("plan", j)' = At("plan", j)
            /\ \A j : j \notin {turn.job} => At("answer", j)' = At("answer", j)
            /\ \A i \in DOMAIN shown' : shown'[i].about \subseteq Known'
          BY <1>0, <3>2, <4>2, AnswersAppend
      <4>4. \A j \in Known : At("answer", j)' # {} => j \in told \cup {turn.job}
          BY <1>0, <2>3, <4>3 DEF Shown
      <4> QED BY <1>0, <2>1, <2>2, <2>3, <4>3, <4>4 DEF Shown
    <3> QED BY <2>1, <3>1, <3>2
  <2>7. Watched'
    <3>1. turn'.plan = "steps" /\ ~turn'.shed => At("plan", turn.job)' # {}
        BY <1>0, <2>1, <2>2, <2>6 DEF Watched, Waiting
    <3> QED BY <1>0, <2>2, <3>1 DEF Watched
  <2> QED BY <2>4, <2>5, <2>6, <2>7
<1>2. CASE Record
  <2>1. /\ turn.pc = "record" /\ told' = told \cup {turn.job} /\ turn' = [pc |-> "notice"] /\ UNCHANGED shown
      BY <1>2 DEF Record, BackToModel
  <2>2. turn'.pc = "notice" /\ turn' # NoTurn /\ Telling = {turn.job}
      BY <2>1 DEF NoTurn, Telling
  <2>3. Typed'
      BY <1>0, <2>1, <2>2 DEF Typed, Waiting
  <2>4. Vouching'
      BY <1>0, <2>2 DEF Vouching
  <2>5. Shown'
      BY <1>0, <2>1, <2>2, SameAbout, ShownStays
  <2>6. Watched'
      BY <1>0, <2>2 DEF Watched, Waiting
  <2> QED BY <2>3, <2>4, <2>5, <2>6
<1> QED BY <1>1, <1>2

-----------------------------------------------------------------------------
LEMMA InitIInv == Init => IInv
<1> SUFFICES ASSUME Init PROVE IInv
    OBVIOUS
<1>1. Typed
    BY NoWatchTyped, ChatAssumption DEF Init, Typed, Known, NoTurn, Free, Waiting
<1>2. Vouching
    BY DEF Init, Vouching, NoTurn, Free
<1>3. Shown
    BY NoWatchTyped DEF Init, Shown, Ordered, At, Known, NoTurn
<1>4. Watched
    BY NoWatchTyped DEF Init, Watched, Waiting, NoTurn
<1> QED BY <1>1, <1>2, <1>3, <1>4 DEF IInv

LEMMA NextIInv == IInv /\ [Next]_vars => IInv'
<1> SUFFICES ASSUME IInv, [Next]_vars PROVE IInv'
    OBVIOUS
<1>1. CASE UNCHANGED vars
  <2> USE <1>1 DEF vars
  <2>1. Known' = Known
      BY DEF Known
  <2>2. Typed'
      BY <2>1 DEF IInv, Typed
  <2>3. Vouching'
      BY <2>1, VouchedStays DEF IInv, Vouching
  <2>4. Telling' = Telling /\ Shed' = Shed
      BY DEF Telling, Shed
  <2>5. Shown'
      BY <2>1, <2>4, SameAbout, ShownStays DEF IInv, Shown
  <2>6. Watched'
    <3>1. At("plan", turn.job)' = At("plan", turn.job)
        BY DEF At
    <3> QED BY <2>4, <3>1 DEF IInv, Watched
  <2> QED BY <2>2, <2>3, <2>5, <2>6 DEF IInv
<1>2. CASE Agent
    BY <1>2, NoticeKeeps, ModelKeeps, CheckKeeps, CreateKeeps, AnnounceKeeps, LeaveKeeps, TellKeeps DEF Agent
<1>3. CASE Rendered \/ Submit \/ Answer \/ Cut \/ Reopen
    BY <1>3, RenderedKeeps, SubmitKeeps, AnswerKeeps, CutKeeps, ReopenKeeps
<1>4. CASE LaunchElsewhere \/ Plan \/ \E j \in Known : End(j)
    BY <1>4, ElsewhereKeeps, PlanKeeps, EndKeeps
<1> QED BY <1>1, <1>2, <1>3, <1>4 DEF Next

LEMMA Always == Spec => []IInv
    BY InitIInv, NextIInv, PTL DEF Spec

(* Behind the gate, the run that starts builds on the very jobs the person   *)
(* was shown and approved: a reference that came to match more jobs while    *)
(* the proposal stood is refused, it never picks another.                    *)
THEOREM WhatRunsWasApproved == Spec => []ApprovedIsLaunched
<1>1. IInv => ApprovedIsLaunched
    BY DEF IInv, Vouching, ApprovedIsLaunched
<1> QED BY <1>1, Always, PTL

\* A set whose members are all the same has at most one.
LEMMA AtMostOne ==
    ASSUME NEW S, \A i, k \in S : i = k
    PROVE  Cardinality(S) <= 1
<1>1. CASE S = {}
    BY <1>1, FS_EmptySet
<1>2. ASSUME NEW i \in S PROVE Cardinality(S) <= 1
  <2>1. S = {i}
      BY <1>2
  <2>2. Cardinality({i}) = 1
      BY FS_Singleton
  <2> QED BY <2>1, <2>2
<1> QED BY <1>1, <1>2

(* A job that is answered in its turn has its notice before its plan and its *)
(* plan before its answer, each once, and no plan that was decided goes      *)
(* unsaid, unless the queue has shed events.                                 *)
THEOREM JobsAreSaidInOrder == Spec => []SaidInOrder
<1>1. IInv => SaidInOrder
  <2> SUFFICES ASSUME IInv, NEW j \in Known
               PROVE  /\ \A i \in At("plan", j), k \in At("answer", j) : i < k
                      /\ \A i \in At("notice", j), k \in At("plan", j) : i < k
                      /\ Cardinality(At("answer", j)) <= 1 /\ Cardinality(At("plan", j)) <= 1
                      /\ (/\ turn.pc = "record" /\ turn.job = j /\ ~turn.shed
                          /\ turn.plan = "steps") => At("plan", j) # {}
      BY DEF SaidInOrder
  <2>1. Ordered(j)
      BY DEF IInv, Shown
  <2>2. Cardinality(At("answer", j)) <= 1 /\ Cardinality(At("plan", j)) <= 1
      BY <2>1, AtMostOne DEF Ordered
  <2>3. turn.pc = "record" => ~watch.on
      BY DEF IInv, Typed
  <2>4. (turn.pc = "record" /\ turn.job = j /\ ~turn.shed /\ turn.plan = "steps") => At("plan", j) # {}
      BY <2>3 DEF IInv, Watched, Waiting
  <2> QED BY <2>1, <2>2, <2>4 DEF Ordered
<1> QED BY <1>1, Always, PTL

=============================================================================
