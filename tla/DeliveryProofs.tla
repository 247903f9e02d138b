--------------------------- MODULE DeliveryProofs ---------------------------
(* What holds of Delivery for any processes, attempts and faults: whatever   *)
(* overlaps, that the thread is told of an ending once and that what is      *)
(* pushed is stamped after it was posted; and that no ending is stamped      *)
(* before its receiver has it, as long as nobody resumes the job between the *)
(* reading of its record and its stamp (~MayOverlap), and no job pauses in   *)
(* the turn that launched it (~MayPauseInTurn).                              *)
EXTENDS Delivery, TLAPS

\* The parts of TypeOK that are unions of records.
RunType == {NoRun} \cup [pc : {"drive", "save"}, by : Proc, rec : Record]
PushType == {NoPush} \cup [pc : {"post", "look"}, job : Record] \cup [pc : {"write"}, copy : Record]
TurnType ==
    {Idle} \cup [pc : {"tool", "ask", "index", "mark"}, by : Proc]
           \cup [pc : {"answer"}, by : Proc, n : Attempt]
           \cup [pc : {"write"}, by : Proc, copy : Record]
AmendType == {NoRun} \cup [pc : {"join"}, by : Proc]
StoreType ==
    /\ rec \in Record /\ run \in RunType /\ push \in [Proc -> [Attempt -> PushType]]
    /\ turn \in TurnType

\* Only an ending is stamped, and its receiver had it before.
StampedIsTold ==
    rec.stamped => rec.status \in Settled /\ (kind # "none" => said[rec.attempt] > 0)

\* A run has the record to itself: RUNNING, of its attempt, not stamped.
RunHasTheRecord ==
    run # NoRun =>
        /\ rec.status = "running" /\ ~rec.stamped
        /\ run.rec.attempt = rec.attempt /\ ~run.rec.stamped
        /\ run.pc = "drive" => run.rec.status = "running"
        /\ run.pc = "save" => run.rec.status # "running"

\* An ending is pushed only where it is pushed; once it was posted the
\* receiver has it; and a copy about to be written is the record, stamped.
PushesAreHonest ==
    \A p \in Proc, n \in Attempt :
        push[p][n] # NoPush =>
            /\ kind = "push"
            /\ push[p][n].pc # "post" => said[n] > 0
            /\ push[p][n].pc = "write" =>
                 /\ rec.attempt = n /\ rec.status \in Settled
                 /\ push[p][n].copy = [rec EXCEPT !.stamped = TRUE]

\* The thread was told of what its channel names, and of nothing later.
ThreadIsTold ==
    kind = "pull" =>
        /\ channel <= rec.attempt
        /\ channel > 0 => said[channel] > 0
        /\ \A n \in Attempt : said[n] < 2 /\ (said[n] > 0 => n <= channel)

\* Where a turn stands, and what it holds.
TurnIsHonest ==
    /\ turn # Idle => kind = "pull"
    /\ turn.pc = "tool" =>
         /\ channel = 0
         /\ rec.status # "needs_input"
         /\ run # NoRun => run.rec.status # "needs_input"
    /\ turn.pc = "answer" => channel < turn.n /\ turn.n <= rec.attempt
    /\ turn.pc \in {"mark", "write"} =>
         rec.status \in Settled /\ run = NoRun /\ channel = rec.attempt
    /\ turn.pc = "write" => turn.copy = [rec EXCEPT !.stamped = TRUE]

IInv ==
    /\ TypeOK /\ StampedIsTold /\ RunHasTheRecord /\ PushesAreHonest
    /\ ThreadIsTold /\ TurnIsHonest

-----------------------------------------------------------------------------
(* Types.                                                                    *)
LEMMA TypeParts ==
    TypeOK <=> /\ kind \in Kind /\ up \subseteq Proc
               /\ StoreType
               /\ amend \in AmendType
               /\ channel \in 0 .. MaxAttempt /\ said \in [Attempt -> 0 .. 2] /\ faults \in 0 .. MaxFault
    BY DEF TypeOK, StoreType, RunType, PushType, TurnType, AmendType

\* A step keeps the types when each variable keeps its value or gets one of its type.
LEMMA NewTypes ==
    ASSUME TypeOK, kind' = kind, up' = up \/ up' \subseteq Proc,
           rec' = rec \/ rec' \in Record, run' = run \/ run' \in RunType,
           push' = push \/ push' \in [Proc -> [Attempt -> PushType]],
           turn' = turn \/ turn' \in TurnType, amend' = amend \/ amend' \in AmendType,
           channel' = channel \/ channel' \in 0 .. MaxAttempt,
           said' = said \/ said' \in [Attempt -> 0 .. 2],
           faults' = faults \/ faults' \in 0 .. MaxFault
    PROVE  TypeOK'
    BY DEF TypeOK, RunType, PushType, TurnType, AmendType

LEMMA RecordParts ==
    ASSUME NEW r \in Record
    PROVE  /\ r.status \in Settled \cup {"running", "needs_input"}
           /\ r.attempt \in Attempt /\ r.stamped \in BOOLEAN
           /\ [r EXCEPT !.stamped = TRUE] \in Record
           /\ [r EXCEPT !.stamped = TRUE].status = r.status
           /\ [r EXCEPT !.stamped = TRUE].attempt = r.attempt
           /\ [r EXCEPT !.stamped = TRUE].stamped
           /\ \A status \in Settled \cup {"running", "needs_input"} :
                /\ [r EXCEPT !.status = status] \in Record
                /\ [r EXCEPT !.status = status].status = status
                /\ [r EXCEPT !.status = status].attempt = r.attempt
                /\ [r EXCEPT !.status = status].stamped = r.stamped
    BY DEF Record

LEMMA RunParts ==
    ASSUME run \in RunType
    PROVE  /\ run # NoRun <=> run.pc \in {"drive", "save"}
           /\ run # NoRun => run.rec \in Record /\ run.by \in Proc
    BY DEF RunType, NoRun

LEMMA PushParts ==
    ASSUME NEW q \in PushType
    PROVE  /\ q # NoPush <=> q.pc \in {"post", "look", "write"}
           /\ q.pc \in {"post", "look"} => q.job \in Record
           /\ q.pc = "write" => q.copy \in Record
    BY DEF PushType, NoPush

LEMMA TurnParts ==
    ASSUME turn \in TurnType
    PROVE  /\ turn # Idle <=> turn.pc \in {"tool", "ask", "answer", "index", "mark", "write"}
           /\ turn.pc = "answer" => turn.n \in Attempt
           /\ turn.pc = "write" => turn.copy \in Record
    BY DEF TurnType, Idle

LEMMA NewTurns ==
    ASSUME NEW p \in Proc
    PROVE  /\ \A pc \in {"tool", "ask", "index", "mark"} : [pc |-> pc, by |-> p] \in TurnType
           /\ \A n \in Attempt : [pc |-> "answer", by |-> p, n |-> n] \in TurnType
           /\ \A r \in Record : [pc |-> "write", by |-> p, copy |-> r] \in TurnType
           /\ Idle \in TurnType
    BY DEF TurnType

-----------------------------------------------------------------------------
(* What the operations that several actions share do to the record.          *)
LEMMA PersistDoes ==
    ASSUME TypeOK, NEW r \in Record, NEW p \in Proc, Persist(r, p)
    PROVE  /\ rec' \in Record /\ rec'.status = r.status /\ rec'.attempt = r.attempt
           /\ rec'.stamped => r.stamped \/ (kind = "none" /\ r.status \in Settled)
           /\ push' \in [Proc -> [Attempt -> PushType]]
           /\ \A q \in Proc, n \in Attempt :
                push'[q][n] = push[q][n] \/ (kind = "push" /\ push'[q][n].pc = "post")
<1>1. r.attempt \in Attempt
    BY RecordParts
<1>2. push \in [Proc -> [Attempt -> PushType]]
    BY TypeParts DEF StoreType
<1>3. [pc |-> "post", job |-> r] \in PushType
    BY DEF PushType
<1>4. \/ push' = push
      \/ kind = "push" /\ push' = [push EXCEPT ![p][r.attempt] = [pc |-> "post", job |-> r]]
    BY DEF Persist
<1>5. /\ push' \in [Proc -> [Attempt -> PushType]]
      /\ \A q \in Proc, n \in Attempt :
            push'[q][n] = push[q][n] \/ (kind = "push" /\ push'[q][n].pc = "post")
    BY <1>1, <1>2, <1>3, <1>4
<1>6. rec' = [r EXCEPT !.stamped = r.stamped \/ (kind = "none" /\ Pending(r, p))]
    BY DEF Persist, Record
<1>7. /\ rec'.status = r.status /\ rec'.attempt = r.attempt
      /\ rec'.stamped <=> r.stamped \/ (kind = "none" /\ Pending(r, p))
    BY <1>6 DEF Record
<1>8. rec' \in Record
    BY <1>6, <1>7 DEF Record
<1> QED BY <1>5, <1>7, <1>8 DEF Pending

LEMMA CutShortDoes ==
    ASSUME TypeOK, RunHasTheRecord, NEW p \in Proc, CutShort(p)
    PROVE  /\ run # NoRun /\ run' = NoRun
           /\ rec' \in Record /\ rec'.attempt = rec.attempt
           /\ rec'.stamped => kind = "none" /\ rec'.status \in Settled
           /\ rec'.status \in {rec.status, run.rec.status}
<1>1. rec \in Record /\ run # NoRun /\ run.rec \in Record
    BY TypeParts, RunParts DEF StoreType, CutShort
<1>2. ~rec.stamped /\ run.rec.attempt = rec.attempt
    BY <1>1 DEF RunHasTheRecord
<1>3. CASE rec' = rec
    BY <1>1, <1>2, <1>3 DEF CutShort
<1>4. CASE rec' = [run.rec EXCEPT !.stamped = (kind = "none" /\ Pending(run.rec, p))]
  <2>1. /\ rec'.status = run.rec.status /\ rec'.attempt = run.rec.attempt
        /\ rec'.stamped <=> kind = "none" /\ Pending(run.rec, p)
      BY <1>1, <1>4 DEF Record
  <2>2. rec' \in Record
      BY <1>1, <1>4, <2>1 DEF Record
  <2> QED BY <1>1, <1>2, <2>1, <2>2 DEF CutShort, Pending
<1> QED BY <1>3, <1>4 DEF CutShort

LEMMA ReopenDoes ==
    ASSUME TypeOK, NEW p \in Proc, Reopen(p)
    PROVE  /\ rec' \in Record /\ rec'.status = "running" /\ rec'.attempt = rec.attempt + 1 /\ ~rec'.stamped
           /\ run' \in RunType /\ run'.pc = "drive" /\ run'.rec = rec' /\ run = NoRun
<1>1. rec \in Record /\ rec.attempt + 1 \in Attempt
    BY TypeParts, DeliveryAssumption DEF StoreType, Record, Attempt, Reopen
<1>2. rec' = [status |-> "running", attempt |-> rec.attempt + 1, stamped |-> FALSE]
    BY DEF Reopen, Opened
<1>3. rec' \in Record
    BY <1>1, <1>2 DEF Record
<1>4. run' = [pc |-> "drive", by |-> p, rec |-> rec']
    BY DEF Reopen
<1> QED BY <1>2, <1>3, <1>4 DEF Reopen, RunType

-----------------------------------------------------------------------------
(* When the parts of the invariant stay as they are.                         *)
LEMMA PushesStay ==
    ASSUME PushesAreHonest, kind' = kind, \A n \in Attempt : said[n] > 0 => said'[n] > 0,
           \A q \in Proc, n \in Attempt :
              push'[q][n] \in {push[q][n], NoPush} \/ (kind = "push" /\ push'[q][n].pc = "post"),
           rec' = rec \/ \A q \in Proc, n \in Attempt : push[q][n].pc # "write"
    PROVE  PushesAreHonest'
<1> SUFFICES ASSUME NEW q \in Proc, NEW n \in Attempt, push'[q][n] # NoPush
             PROVE  /\ kind' = "push"
                    /\ push'[q][n].pc # "post" => said'[n] > 0
                    /\ push'[q][n].pc = "write" =>
                         /\ rec'.attempt = n /\ rec'.status \in Settled
                         /\ push'[q][n].copy = [rec' EXCEPT !.stamped = TRUE]
    BY DEF PushesAreHonest
<1>1. CASE push'[q][n] = push[q][n]
  <2>1. CASE rec' = rec
    <3>1. [rec' EXCEPT !.stamped = TRUE] = [rec EXCEPT !.stamped = TRUE]
        BY <2>1
    <3>2. push[q][n] # NoPush
        BY <1>1
    <3>3. /\ kind = "push"
          /\ push[q][n].pc # "post" => said[n] > 0
          /\ push[q][n].pc = "write" =>
               /\ rec.attempt = n /\ rec.status \in Settled
               /\ push[q][n].copy = [rec EXCEPT !.stamped = TRUE]
        BY <3>2 DEF PushesAreHonest
    <3> QED BY <1>1, <2>1, <3>1, <3>3
  <2>2. CASE push[q][n].pc # "write"
      BY <1>1, <2>2 DEF PushesAreHonest
  <2> QED BY <2>1, <2>2
<1>2. CASE kind = "push" /\ push'[q][n].pc = "post"
    BY <1>2
<1> QED BY <1>1, <1>2

LEMMA NobodyWrites ==
    ASSUME TypeOK, PushesAreHonest, rec.status \notin Settled
    PROVE  \A q \in Proc, n \in Attempt : push[q][n].pc # "write"
<1> SUFFICES ASSUME NEW q \in Proc, NEW n \in Attempt, push[q][n].pc = "write" PROVE FALSE
    OBVIOUS
<1>1. push[q][n] \in PushType
    BY TypeParts DEF StoreType
<1>2. push[q][n] # NoPush
    BY <1>1, PushParts
<1> QED BY <1>2 DEF PushesAreHonest

LEMMA TurnStays ==
    ASSUME TypeOK, TurnIsHonest, UNCHANGED <<turn, kind, channel>>,
           rec' \in Record, rec'.attempt >= rec.attempt,
           turn.pc = "tool" => /\ rec'.status # "needs_input"
                               /\ run' # NoRun => run'.rec.status # "needs_input",
           turn.pc \in {"mark", "write"} =>
              /\ rec'.status = rec.status /\ rec'.attempt = rec.attempt /\ run' = NoRun
              /\ [rec' EXCEPT !.stamped = TRUE] = [rec EXCEPT !.stamped = TRUE]
    PROVE  TurnIsHonest'
<1>1. rec.attempt \in Nat /\ rec'.attempt \in Nat
    BY TypeParts, DeliveryAssumption DEF StoreType, Record, Attempt
<1>2. turn.pc = "answer" => turn.n \in Nat
    BY TypeParts, TurnParts, DeliveryAssumption DEF StoreType, Attempt
<1> QED BY <1>1, <1>2 DEF TurnIsHonest

LEMMA ThreadStays ==
    ASSUME TypeOK, ThreadIsTold, UNCHANGED <<kind, channel, said>>,
           rec' \in Record, rec'.attempt >= rec.attempt
    PROVE  ThreadIsTold'
<1>1. rec.attempt \in Nat /\ rec'.attempt \in Nat /\ channel \in Nat
    BY TypeParts, DeliveryAssumption DEF StoreType, Record, Attempt
<1> QED BY <1>1 DEF ThreadIsTold

-----------------------------------------------------------------------------
LEMMA InitIInv == Init => IInv
<1> SUFFICES ASSUME Init PROVE IInv
    OBVIOUS
<1> USE DeliveryAssumption
<1>1. Opened(1) \in Record /\ 1 \in Attempt
    BY DEF Opened, Record, Attempt
<1>2. PICK p \in up : /\ run = [pc |-> "drive", by |-> p, rec |-> Opened(1)]
                      /\ turn = IF kind = "pull" THEN [pc |-> "tool", by |-> p] ELSE Idle
    BY DEF Init
<1>3. p \in Proc
    BY DEF Init
<1>4. run \in RunType /\ turn \in TurnType
    BY <1>1, <1>2, <1>3, NewTurns DEF RunType
<1>5. push \in [Proc -> [Attempt -> PushType]]
    BY DEF Init, PushType
<1>6. TypeOK
    BY <1>1, <1>4, <1>5, TypeParts, DeliveryAssumption DEF Init, StoreType, AmendType
<1>7. StampedIsTold /\ RunHasTheRecord
    BY <1>2 DEF Init, StampedIsTold, RunHasTheRecord, Opened
<1>8. PushesAreHonest
    BY DEF Init, PushesAreHonest
<1>9. ThreadIsTold /\ TurnIsHonest
    BY <1>2 DEF Init, ThreadIsTold, TurnIsHonest, Opened, Idle, Attempt
<1> QED BY <1>6, <1>7, <1>8, <1>9 DEF IInv

(* The run: its steps, its ending, and what stops it.                        *)
LEMMA RunSteps ==
    ASSUME ~MayPauseInTurn, IInv, NEW p \in up,
           \/ Advance(p) \/ Conclude(p) \/ SaveEnding(p) \/ LateCancel(p) \/ CancelPaused(p)
    PROVE  IInv'
<1> USE DEF IInv
<1>1. p \in Proc /\ rec \in Record /\ run \in RunType /\ push \in [Proc -> [Attempt -> PushType]]
    BY TypeParts DEF StoreType
<1>2. rec.status \notin Settled => \A q \in Proc, n \in Attempt : push[q][n].pc # "write"
    BY NobodyWrites
<1>3. "running" \notin Settled /\ "needs_input" \notin Settled
    BY DEF Settled
<1>4. rec.attempt \in Nat
    BY <1>1, DeliveryAssumption DEF Record, Attempt
<1>5. CASE Advance(p)
  <2>1. run # NoRun /\ run.rec \in Record /\ run.rec.status = "running" /\ run.pc = "drive"
      BY <1>1, <1>5, RunParts DEF Advance, RunHasTheRecord
  <2>2. rec.status = "running" /\ run.rec.attempt = rec.attempt /\ ~run.rec.stamped
      BY <2>1 DEF RunHasTheRecord
  <2>3. /\ rec' \in Record /\ rec'.status = "running" /\ rec'.attempt = rec.attempt
        /\ rec'.stamped => run.rec.stamped \/ (kind = "none" /\ run.rec.status \in Settled)
        /\ push' \in [Proc -> [Attempt -> PushType]]
        /\ \A q \in Proc, n \in Attempt :
                push'[q][n] = push[q][n] \/ (kind = "push" /\ push'[q][n].pc = "post")
      BY <1>1, <1>5, <2>1, <2>2, PersistDoes DEF Advance
  <2>4. ~rec'.stamped
      BY <1>3, <2>1, <2>2, <2>3
  <2>5. UNCHANGED <<kind, run, amend, turn, channel, said, up, faults>>
      BY <1>5 DEF Advance
  <2>6. TypeOK'
      BY <2>3, <2>5, NewTypes
  <2>7. StampedIsTold' /\ RunHasTheRecord'
      BY <2>2, <2>3, <2>4, <2>5 DEF StampedIsTold, RunHasTheRecord
  <2>8. PushesAreHonest'
      BY <1>2, <1>3, <2>2, <2>3, <2>5, PushesStay
  <2>9. ThreadIsTold'
      BY <1>4, <2>3, <2>5, ThreadStays
  <2>10. TurnIsHonest'
      BY <1>3, <1>4, <2>1, <2>2, <2>3, <2>5, TurnStays DEF TurnIsHonest
  <2> QED BY <2>6, <2>7, <2>8, <2>9, <2>10
<1>6. CASE Conclude(p)
  <2>1. run # NoRun /\ run.rec \in Record /\ run.by \in Proc /\ run.pc = "drive"
      BY <1>1, <1>6, RunParts DEF Conclude
  <2>2. PICK status \in {"done", "failed", "cancelled", "needs_input"} :
            /\ status = "needs_input" => turn.pc # "tool"
            /\ run' = [run EXCEPT !.pc = "save", !.rec.status = status]
      BY <1>6 DEF Conclude
  <2>3. /\ run' \in RunType /\ run'.pc = "save" /\ run'.rec.status = status
        /\ run'.rec.attempt = run.rec.attempt /\ run'.rec.stamped = run.rec.stamped
      BY <1>1, <2>1, <2>2 DEF RunType, NoRun, Record, Settled
  <2>4. UNCHANGED <<kind, rec, amend, push, turn, channel, said, up, faults>>
      BY <1>6 DEF Conclude
  <2>5. TypeOK'
      BY <2>3, <2>4, NewTypes
  <2>6. StampedIsTold' /\ RunHasTheRecord'
      BY <2>1, <2>2, <2>3, <2>4 DEF StampedIsTold, RunHasTheRecord
  <2>7. PushesAreHonest'
      BY <2>4 DEF PushesAreHonest
  <2>8. ThreadIsTold'
      BY <2>4 DEF ThreadIsTold
  <2>9. TurnIsHonest'
      BY <1>1, <1>4, <2>1, <2>2, <2>3, <2>4, TurnStays DEF TurnIsHonest
  <2> QED BY <2>5, <2>6, <2>7, <2>8, <2>9
<1>7. CASE SaveEnding(p)
  <2>1. run # NoRun /\ run.rec \in Record /\ run.rec.status # "running"
      BY <1>1, <1>7, RunParts DEF SaveEnding, RunHasTheRecord
  <2>2. rec.status = "running" /\ run.rec.attempt = rec.attempt /\ ~run.rec.stamped
      BY <2>1 DEF RunHasTheRecord
  <2>3. /\ rec' \in Record /\ rec'.status = run.rec.status /\ rec'.attempt = rec.attempt
        /\ rec'.stamped => run.rec.stamped \/ (kind = "none" /\ run.rec.status \in Settled)
        /\ push' \in [Proc -> [Attempt -> PushType]]
        /\ \A q \in Proc, n \in Attempt :
                push'[q][n] = push[q][n] \/ (kind = "push" /\ push'[q][n].pc = "post")
      BY <1>1, <1>7, <2>1, <2>2, PersistDoes DEF SaveEnding
  <2>4. run' = NoRun /\ UNCHANGED <<kind, amend, turn, channel, said, up, faults>>
      BY <1>7 DEF SaveEnding
  <2>5. run' \in RunType
      BY <2>4 DEF RunType
  <2>6. TypeOK'
      BY <2>3, <2>4, <2>5, NewTypes
  <2>7. StampedIsTold' /\ RunHasTheRecord'
      BY <2>2, <2>3, <2>4 DEF StampedIsTold, RunHasTheRecord
  <2>8. PushesAreHonest'
      BY <1>2, <1>3, <2>2, <2>3, <2>4, PushesStay
  <2>9. ThreadIsTold'
      BY <1>4, <2>3, <2>4, ThreadStays
  <2>10. TurnIsHonest'
      BY <1>3, <1>4, <2>1, <2>2, <2>3, <2>4, TurnStays DEF TurnIsHonest
  <2> QED BY <2>6, <2>7, <2>8, <2>9, <2>10
<1>8. CASE LateCancel(p)
  <2>1. /\ run # NoRun /\ run' = NoRun
        /\ rec' \in Record /\ rec'.attempt = rec.attempt
        /\ rec'.stamped => kind = "none" /\ rec'.status \in Settled
        /\ rec'.status \in {rec.status, run.rec.status}
      BY <1>1, <1>8, CutShortDoes DEF LateCancel
  <2>2. rec.status = "running"
      BY <2>1 DEF RunHasTheRecord
  <2>3. UNCHANGED <<kind, amend, push, turn, channel, said, up, faults>>
      BY <1>8 DEF LateCancel
  <2>4. run' \in RunType
      BY <2>1 DEF RunType
  <2>5. TypeOK'
      BY <2>1, <2>3, <2>4, NewTypes
  <2>6. StampedIsTold' /\ RunHasTheRecord'
      BY <2>1, <2>3 DEF StampedIsTold, RunHasTheRecord
  <2>7. PushesAreHonest'
      BY <1>2, <1>3, <2>2, <2>3, PushesStay
  <2>8. ThreadIsTold'
      BY <1>4, <2>1, <2>3, ThreadStays
  <2>9. TurnIsHonest'
      BY <1>3, <1>4, <2>1, <2>2, <2>3, TurnStays DEF TurnIsHonest
  <2> QED BY <2>5, <2>6, <2>7, <2>8, <2>9
<1>9. CASE CancelPaused(p)
  <2> DEFINE r == [rec EXCEPT !.status = "cancelled"]
  <2>1. rec.status = "needs_input" /\ run = NoRun /\ ~rec.stamped
      BY <1>3, <1>9 DEF CancelPaused, StampedIsTold
  <2>2. r \in Record /\ r.status = "cancelled" /\ r.attempt = rec.attempt /\ r.stamped = rec.stamped
      BY <1>1 DEF Record, Settled
  <2>3. Persist(r, p)
      BY <1>9 DEF CancelPaused
  <2>4. UNCHANGED <<kind, run, amend, turn, channel, said, up, faults>>
      BY <1>9 DEF CancelPaused
  <2> HIDE DEF r
  <2>5. /\ rec' \in Record /\ rec'.status = "cancelled" /\ rec'.attempt = rec.attempt
        /\ rec'.stamped => kind = "none"
        /\ push' \in [Proc -> [Attempt -> PushType]]
        /\ \A q \in Proc, n \in Attempt :
                push'[q][n] = push[q][n] \/ (kind = "push" /\ push'[q][n].pc = "post")
      BY <1>1, <2>1, <2>2, <2>3, PersistDoes
  <2>6. TypeOK'
      BY <2>4, <2>5, NewTypes
  <2>7. StampedIsTold' /\ RunHasTheRecord'
      BY <2>1, <2>4, <2>5 DEF StampedIsTold, RunHasTheRecord, Settled
  <2>8. PushesAreHonest'
      BY <1>2, <1>3, <2>1, <2>4, <2>5, PushesStay
  <2>9. ThreadIsTold'
      BY <1>4, <2>4, <2>5, ThreadStays
  <2>10. TurnIsHonest'
      BY <1>3, <1>4, <2>1, <2>4, <2>5, TurnStays DEF TurnIsHonest
  <2> QED BY <2>6, <2>7, <2>8, <2>9, <2>10
<1> QED BY <1>5, <1>6, <1>7, <1>8, <1>9

(* A job picked up again, or amended.                                        *)
LEMMA ReopenKeeps ==
    ASSUME ~Stamping, IInv, NEW p \in Proc, Reopen(p),
           UNCHANGED <<kind, push, turn, channel, said, up, faults>>,
           amend' = amend \/ amend' \in AmendType
    PROVE  IInv'
<1> USE DEF IInv
<1>1. rec \in Record /\ push \in [Proc -> [Attempt -> PushType]]
    BY TypeParts DEF StoreType
<1>2. rec.attempt \in Nat
    BY <1>1, DeliveryAssumption DEF Record, Attempt
<1>3. /\ rec' \in Record /\ rec'.status = "running" /\ rec'.attempt = rec.attempt + 1 /\ ~rec'.stamped
      /\ run' \in RunType /\ run'.pc = "drive" /\ run'.rec = rec' /\ run = NoRun
    BY ReopenDoes
<1>4. \A q \in Proc, n \in Attempt : push[q][n].pc # "write"
    BY DEF Stamping
<1>5. TypeOK'
    BY <1>3, NewTypes
<1>6. StampedIsTold' /\ RunHasTheRecord'
    BY <1>3 DEF StampedIsTold, RunHasTheRecord
<1>7. PushesAreHonest'
    BY <1>4, PushesStay
<1>8. ThreadIsTold'
    BY <1>2, <1>3, ThreadStays
<1>9. TurnIsHonest'
    BY <1>2, <1>3, TurnStays DEF TurnIsHonest, Stamping
<1> QED BY <1>5, <1>6, <1>7, <1>8, <1>9

LEMMA AmendStopKeeps ==
    ASSUME IInv, NEW p \in up, AmendStop(p)
    PROVE  IInv'
<1> USE DEF IInv
<1>1. p \in Proc /\ rec \in Record /\ run \in RunType
    BY TypeParts DEF StoreType
<1>2. rec.attempt \in Nat
    BY <1>1, DeliveryAssumption DEF Record, Attempt
<1>3. rec.status \notin Settled => \A q \in Proc, n \in Attempt : push[q][n].pc # "write"
    BY NobodyWrites
<1>4. "running" \notin Settled /\ "needs_input" \notin Settled
    BY DEF Settled
<1>5. /\ UNCHANGED <<kind, push, turn, channel, said, up, faults>>
      /\ amend' \in AmendType
    BY <1>1 DEF AmendStop, AmendType
<1>6. CASE run.pc = "drive" /\ run' = [run EXCEPT !.pc = "save", !.rec.status = "cancelled"] /\ rec' = rec
  <2>1. run # NoRun /\ run.rec \in Record /\ run.by \in Proc
      BY <1>1, <1>6, RunParts
  <2>2. /\ run' \in RunType /\ run'.pc = "save" /\ run'.rec.status = "cancelled"
        /\ run'.rec.attempt = run.rec.attempt /\ run'.rec.stamped = run.rec.stamped
      BY <1>1, <1>6, <2>1 DEF RunType, NoRun, Record, Settled
  <2>3. TypeOK'
      BY <1>5, <1>6, <2>2, NewTypes
  <2>4. StampedIsTold' /\ RunHasTheRecord'
      BY <1>5, <1>6, <2>1, <2>2 DEF StampedIsTold, RunHasTheRecord
  <2>5. PushesAreHonest' /\ ThreadIsTold'
      BY <1>5, <1>6 DEF PushesAreHonest, ThreadIsTold
  <2>6. TurnIsHonest'
      BY <1>1, <1>2, <1>5, <1>6, <2>1, <2>2, TurnStays DEF TurnIsHonest
  <2> QED BY <2>3, <2>4, <2>5, <2>6
<1>7. CASE CutShort(p)
  <2>1. /\ run # NoRun /\ run' = NoRun
        /\ rec' \in Record /\ rec'.attempt = rec.attempt
        /\ rec'.stamped => kind = "none" /\ rec'.status \in Settled
        /\ rec'.status \in {rec.status, run.rec.status}
      BY <1>1, <1>7, CutShortDoes
  <2>2. rec.status = "running" /\ run' \in RunType
      BY <2>1 DEF RunHasTheRecord, RunType
  <2>3. TypeOK'
      BY <1>5, <2>1, <2>2, NewTypes
  <2>4. StampedIsTold' /\ RunHasTheRecord'
      BY <1>5, <2>1 DEF StampedIsTold, RunHasTheRecord
  <2>5. PushesAreHonest'
      BY <1>3, <1>4, <1>5, <2>2, PushesStay
  <2>6. ThreadIsTold'
      BY <1>2, <1>5, <2>1, ThreadStays
  <2>7. TurnIsHonest'
      BY <1>2, <1>4, <1>5, <2>1, <2>2, TurnStays DEF TurnIsHonest
  <2> QED BY <2>3, <2>4, <2>5, <2>6, <2>7
<1>8. CASE UNCHANGED <<run, rec>>
  <2>1. TypeOK'
      BY <1>5, <1>8, NewTypes
  <2> QED BY <1>5, <1>8, <2>1 DEF StampedIsTold, RunHasTheRecord, PushesAreHonest, ThreadIsTold,
           TurnIsHonest
<1> QED BY <1>6, <1>7, <1>8 DEF AmendStop

(* A step that leaves the record, the run and what was said as they are.     *)
LEMMA OnlyTheTurn ==
    ASSUME IInv, UNCHANGED <<kind, rec, run, amend, push, channel, said, up>>,
           turn' \in TurnType, TurnIsHonest', faults' = faults \/ faults' \in 0 .. MaxFault
    PROVE  IInv'
<1> USE DEF IInv
<1>1. TypeOK'
    BY NewTypes
<1>2. PushesAreHonest'
    BY DEF PushesAreHonest
<1> QED BY <1>1, <1>2 DEF StampedIsTold, RunHasTheRecord, ThreadIsTold

LEMMA PickedUp ==
    ASSUME ~MayOverlap, IInv, NEW p \in up,
           (Undisturbed /\ Resume(p)) \/ (Undisturbed /\ AmendGo(p)) \/ AmendRefused(p)
    PROVE  IInv'
<1> USE DEF IInv
<1>1. p \in Proc /\ NoRun \in AmendType
    BY TypeParts DEF AmendType
<1>2. CASE Undisturbed /\ Resume(p)
    BY <1>1, <1>2, ReopenKeeps DEF Resume, Undisturbed
<1>3. CASE Undisturbed /\ AmendGo(p)
    BY <1>1, <1>3, ReopenKeeps DEF AmendGo, Undisturbed
<1>4. CASE AmendRefused(p)
  <2>1. /\ UNCHANGED <<kind, rec, run, push, turn, channel, said, up, faults>> /\ amend' \in AmendType
      BY <1>1, <1>4 DEF AmendRefused
  <2>2. TypeOK'
      BY <2>1, NewTypes
  <2> QED BY <2>1, <2>2 DEF StampedIsTold, RunHasTheRecord, PushesAreHonest, ThreadIsTold, TurnIsHonest
<1> QED BY <1>2, <1>3, <1>4

LEMMA ProcessesEnd ==
    ASSUME IInv, NEW p \in up, Crash(p) \/ Stop(p) \/ TurnDies(p)
    PROVE  IInv'
<1> USE DEF IInv
<1>1. /\ p \in Proc /\ NoRun \in AmendType /\ NoRun \in RunType /\ NoPush \in PushType /\ Idle \in TurnType
      /\ push \in [Proc -> [Attempt -> PushType]] /\ up \subseteq Proc /\ faults \in 0 .. MaxFault
      /\ rec \in Record
    BY TypeParts DEF AmendType, RunType, PushType, TurnType, StoreType
<1>2. rec.attempt \in Nat
    BY <1>1, DeliveryAssumption DEF Record, Attempt
<1>3. faults < MaxFault => faults + 1 \in 0 .. MaxFault
    BY <1>1, DeliveryAssumption
<1>4. turn' = Idle => TurnIsHonest'
    BY DEF TurnIsHonest, Idle
<1>5. CASE Crash(p)
  <2>1. /\ UNCHANGED <<kind, rec, channel, said>>
        /\ run' = run \/ run' = NoRun
        /\ amend' = amend \/ amend' = NoRun
        /\ turn' = turn \/ turn' = Idle
        /\ push' = [push EXCEPT ![p] = [n \in Attempt |-> NoPush]]
        /\ up' = up \ {p} /\ faults < MaxFault /\ faults' = faults + 1
      BY <1>5 DEF Crash
  <2>2. /\ push' \in [Proc -> [Attempt -> PushType]]
        /\ \A q \in Proc, n \in Attempt : push'[q][n] = push[q][n] \/ push'[q][n] = NoPush
      BY <1>1, <2>1
  <2>3. up' \subseteq Proc
      BY <1>1, <2>1
  <2>4. TypeOK'
      BY <1>1, <1>3, <2>1, <2>2, <2>3, NewTypes
  <2>5. StampedIsTold' /\ RunHasTheRecord'
      BY <2>1 DEF StampedIsTold, RunHasTheRecord
  <2>6. PushesAreHonest'
      BY <2>1, <2>2, PushesStay
  <2>7. ThreadIsTold'
      BY <2>1 DEF ThreadIsTold
  <2>8. CASE turn' = turn
    <3>1. /\ rec' \in Record /\ rec' = rec
          /\ [rec' EXCEPT !.stamped = TRUE] = [rec EXCEPT !.stamped = TRUE]
        BY <1>1, <2>1
    <3>2. turn.pc = "tool" => /\ rec'.status # "needs_input"
                              /\ run' # NoRun => run'.rec.status # "needs_input"
        BY <2>1 DEF TurnIsHonest
    <3>3. turn.pc \in {"mark", "write"} => run' = NoRun
        BY <2>1 DEF TurnIsHonest
    <3>4. rec'.status = rec.status /\ rec'.attempt = rec.attempt /\ rec'.attempt >= rec.attempt
        BY <1>2, <3>1
    <3>5. UNCHANGED <<turn, kind, channel>>
        BY <2>1, <2>8
    <3>6. TurnIsHonest'
        BY <3>1, <3>2, <3>3, <3>4, <3>5, TurnStays
    <3> QED BY <2>4, <2>5, <2>6, <2>7, <3>6
  <2> QED BY <1>4, <2>1, <2>4, <2>5, <2>6, <2>7, <2>8
<1>6. CASE Stop(p)
  <2>1. /\ UNCHANGED <<kind, rec, run, amend, push, turn, channel, said, faults>> /\ up' \subseteq Proc
      BY <1>1, <1>6 DEF Stop
  <2>2. TypeOK'
      BY <2>1, NewTypes
  <2> QED BY <2>1, <2>2 DEF StampedIsTold, RunHasTheRecord, PushesAreHonest, ThreadIsTold, TurnIsHonest
<1>7. CASE TurnDies(p)
    BY <1>1, <1>3, <1>4, <1>7, OnlyTheTurn DEF TurnDies
<1> QED BY <1>5, <1>6, <1>7

-----------------------------------------------------------------------------
(* The receiver is told.                                                     *)
LEMMA ToldDoes ==
    ASSUME TypeOK, NEW n \in Attempt, Told(n)
    PROVE  /\ said' \in [Attempt -> 0 .. 2] /\ said'[n] > 0
           /\ \A m \in Attempt : (said[m] > 0 => said'[m] > 0) /\ (m # n => said'[m] = said[m])
           /\ said[n] = 0 => said'[n] = 1
<1>1. said \in [Attempt -> 0 .. 2]
    BY TypeParts
<1>2. said' = [said EXCEPT ![n] = IF said[n] < 2 THEN said[n] + 1 ELSE said[n]]
    BY DEF Told
<1>3. /\ said[n] \in 0 .. 2 /\ said'[n] = IF said[n] < 2 THEN said[n] + 1 ELSE said[n]
      /\ \A m \in Attempt : m # n => said'[m] = said[m]
    BY <1>1, <1>2
<1>4. said'[n] \in 0 .. 2
    BY <1>3
<1>5. said' \in [Attempt -> 0 .. 2]
    BY <1>1, <1>2, <1>3, <1>4
<1>6. said'[n] > 0 /\ (said[n] = 0 => said'[n] = 1)
    BY <1>3
<1> QED BY <1>3, <1>5, <1>6

(* The push task of one attempt: it posts, reads the record, and stamps it.  *)
LEMMA PushSteps ==
    ASSUME IInv, NEW p \in up, NEW n \in Attempt, Post(p, n) \/ Look(p, n) \/ Stamp(p, n)
    PROVE  IInv'
<1> USE DEF IInv
<1>0. p \in Proc /\ rec \in Record /\ push \in [Proc -> [Attempt -> PushType]]
    BY TypeParts DEF StoreType
<1>1. /\ p \in Proc /\ rec \in Record /\ push \in [Proc -> [Attempt -> PushType]]
      /\ push[p][n] \in PushType /\ rec.attempt \in Attempt
  <2>1. push[p][n] \in PushType
      BY <1>0
  <2> QED BY <1>0, <2>1, RecordParts
<1>2. push[p][n] # NoPush
    BY <1>1, PushParts DEF Post, Look, Stamp
<1>3. kind = "push" /\ turn = Idle /\ (push[p][n].pc # "post" => said[n] > 0)
    BY <1>0, <1>2 DEF PushesAreHonest, TurnIsHonest
<1>4. UNCHANGED <<kind, run, amend, turn, channel, up, faults>>
    BY DEF Post, Look, Stamp
<1>5. ThreadIsTold' /\ TurnIsHonest'
    BY <1>3, <1>4 DEF ThreadIsTold, TurnIsHonest, Idle
<1>6. CASE Post(p, n)
  <2>1. UNCHANGED rec /\ Told(n) /\ push' = [push EXCEPT ![p][n].pc = "look"] /\ push[p][n].pc = "post"
      BY <1>6 DEF Post
  <2>2. /\ said' \in [Attempt -> 0 .. 2] /\ said'[n] > 0
        /\ \A m \in Attempt : said[m] > 0 => said'[m] > 0
      BY <2>1, ToldDoes
  <2>3. [push[p][n] EXCEPT !.pc = "look"] \in PushType /\ [push[p][n] EXCEPT !.pc = "look"].pc = "look"
      BY <1>1, <2>1, PushParts DEF PushType, NoPush
  <2>4. /\ push' \in [Proc -> [Attempt -> PushType]]
        /\ push'[p][n].pc = "look"
        /\ \A q \in Proc, m \in Attempt : <<q, m>> # <<p, n>> => push'[q][m] = push[q][m]
      BY <1>1, <2>1, <2>3
  <2>5. TypeOK'
      BY <1>4, <2>1, <2>2, <2>4, NewTypes
  <2>6. StampedIsTold' /\ RunHasTheRecord'
      BY <1>1, <1>4, <2>1, <2>2 DEF StampedIsTold, RunHasTheRecord
  <2>7. PushesAreHonest'
    <3> SUFFICES ASSUME NEW q \in Proc, NEW m \in Attempt, push'[q][m] # NoPush
                 PROVE  /\ kind' = "push"
                        /\ push'[q][m].pc # "post" => said'[m] > 0
                        /\ push'[q][m].pc = "write" =>
                             /\ rec'.attempt = m /\ rec'.status \in Settled
                             /\ push'[q][m].copy = [rec' EXCEPT !.stamped = TRUE]
        BY DEF PushesAreHonest
    <3>1. CASE <<q, m>> = <<p, n>>
        BY <1>3, <1>4, <2>2, <2>4, <3>1
    <3>2. CASE <<q, m>> # <<p, n>>
      <4>1. push'[q][m] = push[q][m] /\ push[q][m] # NoPush
          BY <2>4, <3>2
      <4>2. /\ push[q][m].pc # "post" => said[m] > 0
            /\ push[q][m].pc = "write" =>
                 /\ rec.attempt = m /\ rec.status \in Settled
                 /\ push[q][m].copy = [rec EXCEPT !.stamped = TRUE]
          BY <4>1 DEF PushesAreHonest
      <4>3. [rec' EXCEPT !.stamped = TRUE] = [rec EXCEPT !.stamped = TRUE]
          BY <2>1
      <4> QED BY <1>3, <1>4, <2>1, <2>2, <4>1, <4>2, <4>3
    <3> QED BY <3>1, <3>2
  <2> QED BY <1>5, <2>5, <2>6, <2>7
<1>7. CASE Look(p, n)
  <2>1. UNCHANGED <<rec, said>> /\ push[p][n].pc = "look"
      BY <1>7 DEF Look
  <2>2. PICK q1 \in PushType :
            /\ push' = [push EXCEPT ![p][n] = q1]
            /\ q1 # NoPush =>
                 /\ rec.attempt = n /\ rec.status \in Settled
                 /\ q1.pc = "write" /\ q1.copy = [rec EXCEPT !.stamped = TRUE]
    <3>1. NoPush \in PushType /\ [pc |-> "write", copy |-> [rec EXCEPT !.stamped = TRUE]] \in PushType
        BY <1>1, RecordParts DEF PushType
    <3> QED BY <1>7, <3>1 DEF Look
  <2>3. /\ push' \in [Proc -> [Attempt -> PushType]]
        /\ push'[p][n] = q1
        /\ \A q \in Proc, m \in Attempt : <<q, m>> # <<p, n>> => push'[q][m] = push[q][m]
      BY <1>1, <2>2
  <2>4. TypeOK'
      BY <1>4, <2>1, <2>3, NewTypes
  <2>5. StampedIsTold' /\ RunHasTheRecord'
      BY <1>4, <2>1 DEF StampedIsTold, RunHasTheRecord
  <2>6. PushesAreHonest'
    <3> SUFFICES ASSUME NEW q \in Proc, NEW m \in Attempt, push'[q][m] # NoPush
                 PROVE  /\ kind' = "push"
                        /\ push'[q][m].pc # "post" => said'[m] > 0
                        /\ push'[q][m].pc = "write" =>
                             /\ rec'.attempt = m /\ rec'.status \in Settled
                             /\ push'[q][m].copy = [rec' EXCEPT !.stamped = TRUE]
        BY DEF PushesAreHonest
    <3>1. [rec' EXCEPT !.stamped = TRUE] = [rec EXCEPT !.stamped = TRUE]
        BY <2>1
    <3>2. CASE <<q, m>> = <<p, n>>
        BY <1>3, <1>4, <2>1, <2>2, <2>3, <3>1, <3>2
    <3>3. CASE <<q, m>> # <<p, n>>
      <4>1. push'[q][m] = push[q][m] /\ push[q][m] # NoPush
          BY <2>3, <3>3
      <4>2. /\ push[q][m].pc # "post" => said[m] > 0
            /\ push[q][m].pc = "write" =>
                 /\ rec.attempt = m /\ rec.status \in Settled
                 /\ push[q][m].copy = [rec EXCEPT !.stamped = TRUE]
          BY <4>1 DEF PushesAreHonest
      <4> QED BY <1>3, <1>4, <2>1, <3>1, <4>1, <4>2
    <3> QED BY <3>2, <3>3
  <2> QED BY <1>5, <2>4, <2>5, <2>6
<1>8. CASE Stamp(p, n)
  <2>1. /\ UNCHANGED said /\ push[p][n].pc = "write" /\ rec' = push[p][n].copy
        /\ push' = [push EXCEPT ![p][n] = NoPush]
      BY <1>8 DEF Stamp
  <2>2. rec.attempt = n /\ rec.status \in Settled /\ rec' = [rec EXCEPT !.stamped = TRUE]
      BY <1>0, <1>2, <2>1 DEF PushesAreHonest
  <2>3. /\ rec' \in Record /\ rec'.status = rec.status /\ rec'.attempt = rec.attempt
        /\ [rec' EXCEPT !.stamped = TRUE] = [rec EXCEPT !.stamped = TRUE]
      BY <1>1, <2>2 DEF Record
  <2>4. NoPush \in PushType
      BY DEF PushType
  <2>5. /\ push' \in [Proc -> [Attempt -> PushType]]
        /\ push'[p][n] = NoPush
        /\ \A q \in Proc, m \in Attempt : <<q, m>> # <<p, n>> => push'[q][m] = push[q][m]
      BY <1>1, <2>1, <2>4
  <2>6. TypeOK'
      BY <1>4, <2>1, <2>3, <2>5, NewTypes
  <2>7. run = NoRun
      BY <2>2 DEF RunHasTheRecord, Settled
  <2>8. StampedIsTold' /\ RunHasTheRecord'
      BY <1>3, <1>4, <2>1, <2>2, <2>3, <2>7 DEF StampedIsTold, RunHasTheRecord
  <2>9. PushesAreHonest'
    <3> SUFFICES ASSUME NEW q \in Proc, NEW m \in Attempt, push'[q][m] # NoPush
                 PROVE  /\ kind' = "push"
                        /\ push'[q][m].pc # "post" => said'[m] > 0
                        /\ push'[q][m].pc = "write" =>
                             /\ rec'.attempt = m /\ rec'.status \in Settled
                             /\ push'[q][m].copy = [rec' EXCEPT !.stamped = TRUE]
        BY DEF PushesAreHonest
    <3>1. push'[q][m] = push[q][m] /\ push[q][m] # NoPush
        BY <2>5
    <3>2. /\ push[q][m].pc # "post" => said[m] > 0
          /\ push[q][m].pc = "write" =>
                 /\ rec.attempt = m /\ rec.status \in Settled
                 /\ push[q][m].copy = [rec EXCEPT !.stamped = TRUE]
        BY <3>1 DEF PushesAreHonest
    <3> QED BY <1>3, <1>4, <2>1, <2>3, <3>1, <3>2
  <2> QED BY <1>5, <2>6, <2>8, <2>9
<1> QED BY <1>6, <1>7, <1>8

-----------------------------------------------------------------------------
(* The conversation.                                                         *)
LEMMA TurnSteps ==
    ASSUME ~MayPauseInTurn, IInv, NEW p \in up,
           \/ ToolReturns(p) \/ Ask(p) \/ Answer(p) \/ Index(p) \/ MarkRead(p) \/ MarkWrite(p)
    PROVE  IInv'
<1> USE DEF IInv
<1>1. /\ p \in Proc /\ rec \in Record /\ rec.attempt \in Attempt /\ turn \in TurnType
      /\ channel \in 0 .. MaxAttempt /\ run \in RunType
      /\ push \in [Proc -> [Attempt -> PushType]] /\ said \in [Attempt -> 0 .. 2]
    BY TypeParts, RecordParts DEF StoreType
<1>2. /\ rec.attempt \in 1 .. MaxAttempt /\ MaxAttempt \in Nat /\ Attempt = 1 .. MaxAttempt
    BY <1>1, DeliveryAssumption DEF Attempt
<1>3. kind = "pull"
    BY <1>1, TurnParts DEF ToolReturns, Ask, Answer, Index, MarkRead, MarkWrite, At, TurnIsHonest
<1>4. \A q \in Proc, n \in Attempt : push[q][n] = NoPush
    BY <1>3 DEF PushesAreHonest
<1>5. /\ channel <= rec.attempt /\ (channel > 0 => said[channel] > 0)
      /\ \A n \in Attempt : said[n] < 2 /\ (said[n] > 0 => n <= channel)
    BY <1>3 DEF ThreadIsTold
<1>6. rec.stamped => rec.status \in Settled /\ said[rec.attempt] > 0
    BY <1>3 DEF StampedIsTold
<1>7. /\ Idle \in TurnType /\ Idle.pc = "idle"
      /\ \A pc \in {"ask", "index", "mark"} : [pc |-> pc, by |-> p] \in TurnType
      /\ \A n \in Attempt : [pc |-> "answer", by |-> p, n |-> n] \in TurnType
      /\ \A r \in Record : [pc |-> "write", by |-> p, copy |-> r] \in TurnType
    BY <1>1, NewTurns DEF Idle
<1>8. CASE ToolReturns(p) \/ Answer(p)
  <2>1. /\ UNCHANGED <<kind, rec, run, amend, push, up, faults>>
        /\ turn' \in TurnType /\ turn'.pc \in {"ask", "index"}
      BY <1>7, <1>8 DEF ToolReturns, Answer
  <2>2. \/ UNCHANGED <<channel, said>>
        \/ \E n \in Attempt : n > channel /\ n <= rec.attempt /\ channel' = n /\ Told(n)
    <3>1. CASE ToolReturns(p)
      <4>1. channel = 0 /\ rec.status # "needs_input"
          BY <3>1 DEF ToolReturns, At, TurnIsHonest
      <4> QED BY <1>1, <1>2, <3>1, <4>1 DEF ToolReturns
    <3>2. CASE Answer(p)
      <4>1. turn.n \in Attempt /\ channel < turn.n /\ turn.n <= rec.attempt
          BY <1>1, <3>2, TurnParts DEF Answer, At, TurnIsHonest
      <4> QED BY <1>2, <3>2, <4>1 DEF Answer
    <3> QED BY <1>8, <3>1, <3>2
  <2>3. TurnIsHonest'
      BY <1>3, <2>1 DEF TurnIsHonest
  <2>4. CASE UNCHANGED <<channel, said>>
      BY <2>1, <2>3, <2>4, OnlyTheTurn
  <2>5. ASSUME NEW n \in Attempt, n > channel, n <= rec.attempt, channel' = n, Told(n)
        PROVE  IInv'
    <3>1. /\ said' \in [Attempt -> 0 .. 2] /\ said'[n] > 0
          /\ \A m \in Attempt : (said[m] > 0 => said'[m] > 0) /\ (m # n => said'[m] = said[m])
          /\ said[n] = 0 => said'[n] = 1
        BY <2>5, ToldDoes
    <3>2. said[n] = 0
        BY <1>1, <1>2, <1>5, <2>5
    <3>3. TypeOK'
        BY <1>2, <2>1, <2>5, <3>1, NewTypes
    <3>4. StampedIsTold' /\ RunHasTheRecord'
        BY <1>1, <1>6, <2>1, <3>1 DEF StampedIsTold, RunHasTheRecord
    <3>5. PushesAreHonest'
        BY <1>4, <2>1 DEF PushesAreHonest
    <3>6. channel' <= rec'.attempt /\ said'[channel'] > 0
        BY <2>1, <2>5, <3>1
    <3>7. \A m \in Attempt : said'[m] < 2 /\ (said'[m] > 0 => m <= channel')
      <4> TAKE m \in Attempt
      <4>1. CASE m = n
          BY <1>2, <2>5, <3>1, <3>2, <4>1
      <4>2. CASE m # n
          BY <1>1, <1>2, <1>5, <2>5, <3>1, <4>2
      <4> QED BY <4>1, <4>2
    <3>8. ThreadIsTold'
        BY <3>6, <3>7 DEF ThreadIsTold
    <3> QED BY <2>3, <3>3, <3>4, <3>5, <3>8
  <2> QED BY <2>2, <2>4, <2>5
<1>9. CASE Ask(p)
  <2>1. UNCHANGED <<kind, rec, run, amend, push, channel, said, up, faults>>
      BY <1>9 DEF Ask
  <2>2. \/ /\ turn' = [pc |-> "answer", by |-> p, n |-> rec.attempt] /\ channel < rec.attempt
        \/ turn' = [pc |-> "index", by |-> p]
      BY <1>1, <1>2, <1>9 DEF Ask, InThread
  <2>3. turn' \in TurnType
      BY <1>1, <1>7, <2>2
  <2>4. TurnIsHonest'
      BY <1>2, <1>3, <2>1, <2>2 DEF TurnIsHonest
  <2> QED BY <2>1, <2>3, <2>4, OnlyTheTurn
<1>10. CASE Index(p)
  <2>1. UNCHANGED <<kind, rec, run, amend, push, channel, said, up, faults>>
      BY <1>10 DEF Index
  <2>2. \/ turn' = Idle
        \/ turn' = [pc |-> "mark", by |-> p] /\ rec.status \in Settled /\ channel >= rec.attempt
      BY <1>10 DEF Index, InThread, Pending
  <2>3. turn' \in TurnType
      BY <1>7, <2>2
  <2>4. rec.status \in Settled => run = NoRun
      BY DEF RunHasTheRecord, Settled
  <2>5. TurnIsHonest'
      BY <1>1, <1>2, <1>3, <1>5, <1>7, <2>1, <2>2, <2>4 DEF TurnIsHonest
  <2> QED BY <2>1, <2>3, <2>5, OnlyTheTurn
<1>11. CASE MarkRead(p)
  <2>1. UNCHANGED <<kind, rec, run, amend, push, channel, said, up, faults>>
      BY <1>11 DEF MarkRead
  <2>2. \/ turn' = Idle
        \/ turn' = [pc |-> "write", by |-> p, copy |-> [rec EXCEPT !.stamped = TRUE]]
      BY <1>11 DEF MarkRead
  <2>3. rec.status \in Settled /\ run = NoRun /\ channel = rec.attempt
      BY <1>11 DEF MarkRead, At, TurnIsHonest
  <2>4. turn' \in TurnType
      BY <1>1, <1>7, <2>2, RecordParts
  <2>5. [rec' EXCEPT !.stamped = TRUE] = [rec EXCEPT !.stamped = TRUE]
      BY <2>1
  <2>6. TurnIsHonest'
    <3>1. CASE turn' = Idle
        BY <1>7, <3>1 DEF TurnIsHonest
    <3>2. CASE turn' = [pc |-> "write", by |-> p, copy |-> [rec EXCEPT !.stamped = TRUE]]
      <4>1. turn'.pc = "write" /\ turn'.copy = [rec' EXCEPT !.stamped = TRUE]
          BY <2>5, <3>2
      <4> QED BY <1>3, <2>1, <2>3, <4>1 DEF TurnIsHonest
    <3> QED BY <2>2, <3>1, <3>2
  <2> QED BY <2>1, <2>4, <2>6, OnlyTheTurn
<1>12. CASE MarkWrite(p)
  <2>1. /\ rec' = turn.copy /\ turn' = Idle /\ turn.pc = "write"
        /\ UNCHANGED <<kind, run, amend, push, channel, said, up, faults>>
      BY <1>12 DEF MarkWrite, At
  <2>2. /\ rec.status \in Settled /\ run = NoRun /\ channel = rec.attempt
        /\ rec' = [rec EXCEPT !.stamped = TRUE]
      BY <2>1 DEF TurnIsHonest
  <2>3. rec' \in Record /\ rec'.status = rec.status /\ rec'.attempt = rec.attempt
      BY <1>1, <2>2 DEF Record
  <2>4. TypeOK'
      BY <1>7, <2>1, <2>3, NewTypes
  <2>5. StampedIsTold' /\ RunHasTheRecord'
      BY <1>2, <1>5, <2>1, <2>2, <2>3 DEF StampedIsTold, RunHasTheRecord
  <2>6. PushesAreHonest' /\ ThreadIsTold'
      BY <1>3, <1>4, <1>5, <2>1, <2>3 DEF PushesAreHonest, ThreadIsTold
  <2>7. TurnIsHonest'
      BY <1>7, <2>1 DEF TurnIsHonest
  <2> QED BY <2>4, <2>5, <2>6, <2>7
<1> QED BY <1>8, <1>9, <1>10, <1>11, <1>12

-----------------------------------------------------------------------------
(* A process starts: it settles a run that nobody has, or pushes what one    *)
(* that stopped left.                                                        *)
LEMMA StartKeeps ==
    ASSUME IInv, NEW p \in Proc, Start(p)
    PROVE  IInv'
<1> USE DEF IInv
<1>1. /\ rec \in Record /\ push \in [Proc -> [Attempt -> PushType]] /\ up \subseteq Proc
      /\ rec.attempt \in Attempt
    BY TypeParts, RecordParts DEF StoreType
<1>2. rec.attempt \in Nat
    BY <1>1, DeliveryAssumption DEF Record, Attempt
<1>3. "running" \notin Settled /\ "failed" \in Settled /\ "failed" # "needs_input"
    BY DEF Settled
<1>4. up' \subseteq Proc /\ UNCHANGED <<kind, run, amend, turn, channel, said, faults>>
    BY <1>1 DEF Start
<1>5. /\ rec' \in Record /\ rec'.attempt = rec.attempt
      /\ push' \in [Proc -> [Attempt -> PushType]]
      /\ \A q \in Proc, n \in Attempt :
            push'[q][n] = push[q][n] \/ (kind = "push" /\ push'[q][n].pc = "post")
      /\ \/ rec' = rec
         \/ /\ rec.status = "running" /\ run = NoRun
            /\ rec'.status = "failed" /\ (rec'.stamped => kind = "none")
  <2>1. CASE rec.status = "running" /\ run = NoRun
    <3> DEFINE r == [rec EXCEPT !.status = "failed"]
    <3>1. r \in Record /\ r.status = "failed" /\ r.attempt = rec.attempt /\ r.stamped = rec.stamped
        BY <1>1 DEF Record, Settled
    <3>2. Persist(r, p) /\ ~rec.stamped
        BY <1>3, <2>1 DEF Start, StampedIsTold
    <3> HIDE DEF r
    <3> QED BY <2>1, <3>1, <3>2, PersistDoes
  <2>2. CASE ~(rec.status = "running" /\ run = NoRun)
    <3>1. [pc |-> "post", job |-> rec] \in PushType
        BY <1>1 DEF PushType
    <3>2. /\ rec' = rec
          /\ \/ push' = push
             \/ kind = "push" /\ push' = [push EXCEPT ![p][rec.attempt] = [pc |-> "post", job |-> rec]]
        BY <2>2 DEF Start
    <3>3. push' = push => push' \in [Proc -> [Attempt -> PushType]]
        BY <1>1
    <3> QED BY <1>1, <3>1, <3>2, <3>3
  <2> QED BY <2>1, <2>2
<1>6. TypeOK'
    BY <1>4, <1>5, NewTypes
<1>7. StampedIsTold' /\ RunHasTheRecord'
    BY <1>3, <1>4, <1>5 DEF StampedIsTold, RunHasTheRecord
<1>8. PushesAreHonest'
  <2>1. rec' = rec \/ \A q \in Proc, n \in Attempt : push[q][n].pc # "write"
      BY <1>3, <1>5, NobodyWrites
  <2> QED BY <1>4, <1>5, <2>1, PushesStay
<1>9. ThreadIsTold'
    BY <1>2, <1>4, <1>5, ThreadStays
<1>10. TurnIsHonest'
    BY <1>2, <1>3, <1>4, <1>5, TurnStays DEF TurnIsHonest
<1> QED BY <1>6, <1>7, <1>8, <1>9, <1>10

LEMMA NextIInv ==
    ASSUME ~MayOverlap, ~MayPauseInTurn, IInv, [Next]_vars
    PROVE  IInv'
<1>1. CASE UNCHANGED vars
  <2>1. TypeOK'
      BY <1>1, NewTypes DEF IInv, vars
  <2> QED BY <1>1, <2>1 DEF vars, IInv, StampedIsTold, RunHasTheRecord, PushesAreHonest, ThreadIsTold,
           TurnIsHonest
<1>2. ASSUME NEW p \in up,
             \/ Advance(p) \/ Conclude(p) \/ LateCancel(p) \/ CancelPaused(p)
             \/ Undisturbed /\ Resume(p)
             \/ AmendStop(p) \/ TurnDies(p) \/ Crash(p) \/ Stop(p) \/ Owe(p) \/ Ask(p) \/ Index(p)
             \/ AmendRefused(p)
             \/ Undisturbed /\ AmendGo(p)
      PROVE  IInv'
  <2>1. CASE Owe(p)
      BY <2>1, RunSteps, PushSteps, TurnSteps DEF Owe
  <2>2. CASE Advance(p) \/ Conclude(p) \/ LateCancel(p) \/ CancelPaused(p)
      BY <2>2, RunSteps
  <2>3. CASE (Undisturbed /\ Resume(p)) \/ (Undisturbed /\ AmendGo(p)) \/ AmendRefused(p)
      BY <2>3, PickedUp
  <2>4. CASE AmendStop(p)
      BY <2>4, AmendStopKeeps
  <2>5. CASE TurnDies(p) \/ Crash(p) \/ Stop(p)
      BY <2>5, ProcessesEnd
  <2>6. CASE Ask(p) \/ Index(p)
      BY <2>6, TurnSteps
  <2> QED BY <1>2, <2>1, <2>2, <2>3, <2>4, <2>5, <2>6
<1>3. ASSUME NEW p \in Proc, Start(p) PROVE IInv'
    BY <1>3, StartKeeps
<1> QED BY <1>1, <1>2, <1>3 DEF Next

LEMMA Always == ASSUME ~MayOverlap, ~MayPauseInTurn PROVE Safety => []IInv
<1>1. IInv /\ [Next]_vars => IInv'
    BY NextIInv
<1> QED BY <1>1, InitIInv, PTL DEF Safety

-----------------------------------------------------------------------------
(* Whatever overlaps.                                                        *)
\* A thread was told of nothing later than what its channel names, and a turn
\* is about to tell it of something later still.
PulledOnce ==
    kind = "pull" =>
        /\ \A n \in Attempt : said[n] < 2 /\ (said[n] > 0 => n <= channel)
        /\ turn.pc = "tool" => channel = 0
        /\ turn.pc = "answer" => channel < turn.n
        /\ \A p \in Proc, n \in Attempt : push[p][n] = NoPush

\* A push that reads or writes the record was posted, and stamps its own attempt.
PushedFirst ==
    kind = "push" =>
        /\ turn = Idle
        /\ rec.stamped => said[rec.attempt] > 0
        /\ run # NoRun => ~run.rec.stamped
        /\ \A p \in Proc, n \in Attempt :
             /\ push[p][n].pc \in {"look", "write"} => said[n] > 0
             /\ push[p][n].pc = "write" => push[p][n].copy.attempt = n

Free == TypeOK /\ PulledOnce /\ PushedFirst

LEMMA StaysOnce ==
    ASSUME PulledOnce, UNCHANGED <<kind, channel, said>>,
           turn' = turn \/ turn'.pc \notin {"tool", "answer"},
           \A p \in Proc, n \in Attempt :
              push'[p][n] = push[p][n] \/ push'[p][n] = NoPush \/ kind = "push"
    PROVE  PulledOnce'
    BY DEF PulledOnce

LEMMA StaysFirst ==
    ASSUME PushedFirst, UNCHANGED <<kind, said>>, turn' = turn \/ turn' = Idle,
           kind = "push" =>
             /\ rec'.stamped => said[rec'.attempt] > 0
             /\ run' # NoRun => ~run'.rec.stamped
             /\ \A p \in Proc, n \in Attempt :
                  push'[p][n] = push[p][n] \/ push'[p][n].pc \in {"off", "post"}
    PROVE  PushedFirst'
    BY DEF PushedFirst

LEMMA FreeRun ==
    ASSUME Free, NEW p \in up,
           Advance(p) \/ SaveEnding(p) \/ Conclude(p) \/ LateCancel(p) \/ CancelPaused(p) \/ AmendStop(p)
    PROVE  Free'
<1> USE DEF Free
<1>1. /\ p \in Proc /\ rec \in Record /\ run \in RunType /\ push \in [Proc -> [Attempt -> PushType]]
      /\ NoRun \in RunType /\ NoRun \in AmendType
    BY TypeParts DEF StoreType, RunType, AmendType
<1>2. UNCHANGED <<kind, turn, channel, said, up, faults>>
    BY DEF Advance, SaveEnding, Conclude, LateCancel, CancelPaused, AmendStop
<1>3. \/ push' = push
      \/ kind = "push"
    BY DEF Advance, SaveEnding, Conclude, LateCancel, CancelPaused, AmendStop, Persist
<1>11. PulledOnce'
    BY <1>2, <1>3, StaysOnce
<1>4. CASE Advance(p) \/ SaveEnding(p)
  <2>1. run # NoRun /\ run.rec \in Record
      BY <1>1, <1>4, RunParts DEF Advance, SaveEnding
  <2>2. Persist(run.rec, p) /\ (run' = run \/ run' = NoRun) /\ UNCHANGED amend
      BY <1>4 DEF Advance, SaveEnding
  <2>3. /\ rec' \in Record
        /\ rec'.stamped => run.rec.stamped \/ kind = "none"
        /\ push' \in [Proc -> [Attempt -> PushType]]
        /\ \A q \in Proc, n \in Attempt : push'[q][n] = push[q][n] \/ push'[q][n].pc = "post"
      BY <1>1, <2>1, <2>2, PersistDoes
  <2>4. TypeOK'
      BY <1>1, <1>2, <2>2, <2>3, NewTypes
  <2>5. kind = "push" => ~rec'.stamped /\ (run' # NoRun => ~run'.rec.stamped)
      BY <2>1, <2>2, <2>3 DEF PushedFirst
  <2>6. PushedFirst'
      BY <1>2, <2>3, <2>5, StaysFirst
  <2> QED BY <1>11, <2>4, <2>6
<1>5. ASSUME run.pc = "drive",
             \E status \in {"done", "failed", "cancelled", "needs_input"} :
                run' = [run EXCEPT !.pc = "save", !.rec.status = status],
             UNCHANGED <<rec, push>>, amend' = amend \/ amend' \in AmendType
      PROVE  Free'
  <2>1. run # NoRun /\ run.rec \in Record /\ run.by \in Proc
      BY <1>1, <1>5, RunParts
  <2>2. run' \in RunType /\ run'.rec.stamped = run.rec.stamped
    <3>1. PICK status \in {"done", "failed", "cancelled", "needs_input"} :
                run' = [run EXCEPT !.pc = "save", !.rec.status = status]
        BY <1>5
    <3> QED BY <1>1, <2>1, <3>1 DEF RunType, NoRun, Record, Settled
  <2>3. TypeOK'
      BY <1>2, <1>5, <2>2, NewTypes
  <2>4. PushedFirst'
      BY <1>2, <1>5, <2>1, <2>2, StaysFirst DEF PushedFirst
  <2> QED BY <1>11, <2>3, <2>4
<1>6. ASSUME CutShort(p), UNCHANGED push, amend' = amend \/ amend' \in AmendType
      PROVE  Free'
  <2>1. run # NoRun /\ run.rec \in Record /\ run' = NoRun
      BY <1>1, <1>6, RunParts DEF CutShort
  <2>2. rec' \in Record /\ (kind = "push" /\ rec'.stamped => rec' = rec)
    <3>1. CASE rec' = rec
        BY <1>1, <3>1
    <3>2. CASE rec' = [run.rec EXCEPT !.stamped = (kind = "none" /\ Pending(run.rec, p))]
      <4>1. rec'.stamped <=> kind = "none" /\ Pending(run.rec, p)
          BY <2>1, <3>2 DEF Record
      <4>2. rec' \in Record
          BY <2>1, <3>2, <4>1 DEF Record
      <4> QED BY <4>1, <4>2
    <3> QED BY <1>6, <3>1, <3>2 DEF CutShort
  <2>3. TypeOK'
      BY <1>1, <1>2, <1>6, <2>1, <2>2, NewTypes
  <2>4. PushedFirst'
      BY <1>2, <1>6, <2>1, <2>2, StaysFirst DEF PushedFirst
  <2> QED BY <1>11, <2>3, <2>4
<1>7. CASE CancelPaused(p)
  <2> DEFINE r == [rec EXCEPT !.status = "cancelled"]
  <2>1. r \in Record /\ r.attempt = rec.attempt /\ r.stamped = rec.stamped
      BY <1>1 DEF Record, Settled
  <2>2. Persist(r, p) /\ UNCHANGED <<run, amend>>
      BY <1>7 DEF CancelPaused
  <2> HIDE DEF r
  <2>3. /\ rec' \in Record /\ rec'.attempt = rec.attempt
        /\ rec'.stamped => rec.stamped \/ kind = "none"
        /\ push' \in [Proc -> [Attempt -> PushType]]
        /\ \A q \in Proc, n \in Attempt : push'[q][n] = push[q][n] \/ push'[q][n].pc = "post"
      BY <1>1, <2>1, <2>2, PersistDoes
  <2>4. TypeOK'
      BY <1>2, <2>2, <2>3, NewTypes
  <2>5. PushedFirst'
      BY <1>2, <2>2, <2>3, StaysFirst DEF PushedFirst
  <2> QED BY <1>11, <2>4, <2>5
<1>8. CASE Conclude(p)
    BY <1>5, <1>8 DEF Conclude
<1>9. CASE LateCancel(p)
    BY <1>6, <1>9 DEF LateCancel
<1>10. CASE AmendStop(p)
  <2>1. amend' \in AmendType /\ UNCHANGED push
      BY <1>1, <1>10 DEF AmendStop, AmendType
  <2>2. CASE run.pc = "drive" /\ run' = [run EXCEPT !.pc = "save", !.rec.status = "cancelled"] /\ rec' = rec
      BY <1>5, <2>1, <2>2
  <2>3. CASE CutShort(p)
      BY <1>6, <2>1, <2>3
  <2>4. CASE UNCHANGED <<run, rec>>
    <3>1. TypeOK'
        BY <1>2, <2>1, <2>4, NewTypes
    <3>2. PushedFirst'
        BY <1>2, <2>1, <2>4, StaysFirst DEF PushedFirst
    <3> QED BY <1>11, <3>1, <3>2
  <2> QED BY <1>10, <2>2, <2>3, <2>4 DEF AmendStop
<1> QED BY <1>4, <1>7, <1>8, <1>9, <1>10

LEMMA FreePickUp ==
    ASSUME Free, NEW p \in up, Resume(p) \/ AmendGo(p) \/ AmendRefused(p)
    PROVE  Free'
<1> USE DEF Free
<1>1. p \in Proc /\ NoRun \in AmendType
    BY TypeParts DEF AmendType
<1>2. UNCHANGED <<kind, push, turn, channel, said, up, faults>> /\ (amend' = amend \/ amend' = NoRun)
    BY DEF Resume, AmendGo, AmendRefused
<1>3. PulledOnce'
    BY <1>2, StaysOnce
<1>4. \/ UNCHANGED <<rec, run>>
      \/ rec' \in Record /\ ~rec'.stamped /\ run' \in RunType /\ run'.rec = rec'
    BY <1>1, ReopenDoes DEF Resume, AmendGo, AmendRefused
<1>5. TypeOK'
    BY <1>1, <1>2, <1>4, NewTypes
<1>6. PushedFirst'
    BY <1>2, <1>4, StaysFirst DEF PushedFirst
<1> QED BY <1>3, <1>5, <1>6

LEMMA FreePush ==
    ASSUME Free, NEW p \in up, NEW n \in Attempt, Post(p, n) \/ Look(p, n) \/ Stamp(p, n)
    PROVE  Free'
<1> USE DEF Free
<1>1. /\ p \in Proc /\ rec \in Record /\ push \in [Proc -> [Attempt -> PushType]]
    BY TypeParts DEF StoreType
<1>2. push[p][n] \in PushType /\ NoPush \in PushType /\ NoPush.pc = "off"
    BY <1>1 DEF PushType, NoPush
<1>3. UNCHANGED <<kind, run, amend, turn, channel, up, faults>>
    BY DEF Post, Look, Stamp
<1>4. CASE Post(p, n)
  <2>1. UNCHANGED rec /\ Told(n) /\ push' = [push EXCEPT ![p][n].pc = "look"] /\ push[p][n].pc = "post"
      BY <1>4 DEF Post
  <2>2. /\ said' \in [Attempt -> 0 .. 2] /\ said'[n] > 0
        /\ \A m \in Attempt : said[m] > 0 => said'[m] > 0
      BY <2>1, ToldDoes
  <2>3. [push[p][n] EXCEPT !.pc = "look"] \in PushType /\ [push[p][n] EXCEPT !.pc = "look"].pc = "look"
      BY <1>2, <2>1, PushParts DEF PushType, NoPush
  <2>4. /\ push' \in [Proc -> [Attempt -> PushType]] /\ push'[p][n].pc = "look"
        /\ \A q \in Proc, m \in Attempt : q # p \/ m # n => push'[q][m] = push[q][m]
      BY <1>1, <2>1, <2>3
  <2>5. TypeOK'
      BY <1>3, <2>1, <2>2, <2>4, NewTypes
  <2>6. kind # "pull"
      BY <1>1, <1>2, <2>1 DEF PulledOnce
  <2>7. rec.attempt \in Attempt
      BY <1>1, RecordParts
  <2>8. PushedFirst'
      BY <1>3, <2>1, <2>2, <2>4, <2>7 DEF PushedFirst
  <2> QED BY <1>3, <2>5, <2>6, <2>8 DEF PulledOnce
<1>5. CASE Look(p, n)
  <2>1. UNCHANGED <<rec, said>> /\ push[p][n].pc = "look"
      BY <1>5 DEF Look
  <2>2. \/ push' = [push EXCEPT ![p][n] = NoPush]
        \/ /\ push' = [push EXCEPT ![p][n] = [pc |-> "write", copy |-> [rec EXCEPT !.stamped = TRUE]]]
           /\ rec.attempt = n
      BY <1>5 DEF Look
  <2> DEFINE stamped == [rec EXCEPT !.stamped = TRUE]
  <2>3. [pc |-> "write", copy |-> stamped] \in PushType /\ stamped.attempt = rec.attempt
      BY <1>1, RecordParts DEF PushType
  <2>8. kind # "pull"
      BY <1>1, <1>2, <2>1 DEF PulledOnce
  <2>4. /\ push' \in [Proc -> [Attempt -> PushType]]
        /\ \A q \in Proc, m \in Attempt : q # p \/ m # n => push'[q][m] = push[q][m]
        /\ push'[p][n].pc = "off" \/ (push'[p][n].pc = "write" /\ push'[p][n].copy.attempt = n)
    <3>1. CASE push' = [push EXCEPT ![p][n] = NoPush]
        BY <1>1, <1>2, <3>1
    <3>2. CASE push' = [push EXCEPT ![p][n] = [pc |-> "write", copy |-> stamped]] /\ rec.attempt = n
      <4> HIDE DEF stamped
      <4>1. push'[p][n] = [pc |-> "write", copy |-> stamped]
          BY <1>1, <3>2
      <4>2. \A q \in Proc, m \in Attempt : q # p \/ m # n => push'[q][m] = push[q][m]
          BY <1>1, <3>2
      <4> QED BY <1>1, <2>3, <3>2, <4>1, <4>2
    <3> QED BY <2>2, <3>1, <3>2
  <2>5. TypeOK'
      BY <1>3, <2>1, <2>4, NewTypes
  <2>6. PulledOnce'
      BY <1>3, <2>8 DEF PulledOnce
  <2>7. PushedFirst'
      BY <1>3, <2>1, <2>4 DEF PushedFirst
  <2> QED BY <2>5, <2>6, <2>7
<1>6. CASE Stamp(p, n)
  <2>1. /\ UNCHANGED said /\ push[p][n].pc = "write" /\ rec' = push[p][n].copy
        /\ push' = [push EXCEPT ![p][n] = NoPush]
      BY <1>3, <1>6 DEF Stamp
  <2>2. rec' \in Record
      BY <1>2, <2>1, PushParts
  <2>3. /\ push' \in [Proc -> [Attempt -> PushType]]
        /\ \A q \in Proc, m \in Attempt : push'[q][m] = push[q][m] \/ push'[q][m].pc \in {"off", "post"}
      BY <1>1, <1>2, <2>1
  <2>4. TypeOK'
      BY <1>3, <2>1, <2>2, <2>3, NewTypes
  <2>5. PulledOnce'
      BY <1>3, <2>1, StaysOnce
  <2>6. kind = "push" => said[rec'.attempt] > 0
      BY <1>1, <2>1 DEF PushedFirst
  <2>7. PushedFirst'
      BY <1>3, <2>1, <2>3, <2>6, StaysFirst DEF PushedFirst
  <2> QED BY <2>4, <2>5, <2>7
<1> QED BY <1>4, <1>5, <1>6

LEMMA FreeTurn ==
    ASSUME Free, NEW p \in up,
           \/ ToolReturns(p) \/ Ask(p) \/ Answer(p) \/ Index(p) \/ MarkRead(p) \/ MarkWrite(p) \/ TurnDies(p)
    PROVE  Free'
<1> USE DEF Free
<1>1. /\ p \in Proc /\ rec \in Record /\ rec.attempt \in Attempt /\ turn \in TurnType
      /\ channel \in 0 .. MaxAttempt /\ said \in [Attempt -> 0 .. 2] /\ faults \in 0 .. MaxFault
    BY TypeParts, RecordParts DEF StoreType
<1>2. rec.attempt \in 1 .. MaxAttempt /\ MaxAttempt \in Nat /\ MaxFault \in Nat /\ Attempt = 1 .. MaxAttempt
    BY <1>1, DeliveryAssumption DEF Attempt
<1>3. kind # "push"
    BY <1>1, TurnParts DEF ToolReturns, Ask, Answer, Index, MarkRead, MarkWrite, TurnDies, At, PushedFirst
<1>4. UNCHANGED <<kind, run, amend, push, up>>
    BY DEF ToolReturns, Ask, Answer, Index, MarkRead, MarkWrite, TurnDies
<1>5. PushedFirst'
    BY <1>3, <1>4 DEF PushedFirst
<1>6. /\ Idle \in TurnType /\ Idle.pc = "idle"
      /\ \A pc \in {"ask", "index", "mark"} : [pc |-> pc, by |-> p] \in TurnType
      /\ \A n \in Attempt : [pc |-> "answer", by |-> p, n |-> n] \in TurnType
      /\ \A r \in Record : [pc |-> "write", by |-> p, copy |-> r] \in TurnType
    BY <1>1, NewTurns DEF Idle
<1>7. ASSUME UNCHANGED <<channel, said>>, rec' = rec \/ rec' \in Record, turn' \in TurnType,
             turn'.pc \notin {"tool", "answer"}, faults' = faults \/ faults' \in 0 .. MaxFault
      PROVE  Free'
  <2>1. TypeOK'
      BY <1>4, <1>7, NewTypes
  <2> QED BY <1>4, <1>5, <1>7, <2>1, StaysOnce
<1>8. ASSUME NEW n \in Attempt, kind = "pull" => n > channel,
             channel' = n, Told(n), UNCHANGED <<rec, faults>>,
             turn' \in TurnType, turn'.pc \in {"ask", "index"}
      PROVE  Free'
  <2>1. /\ said' \in [Attempt -> 0 .. 2] /\ said'[n] > 0
        /\ \A m \in Attempt : (said[m] > 0 => said'[m] > 0) /\ (m # n => said'[m] = said[m])
        /\ said[n] = 0 => said'[n] = 1
      BY <1>8, ToldDoes
  <2>2. TypeOK'
      BY <1>2, <1>4, <1>8, <2>1, NewTypes
  <2>3. ASSUME kind = "pull", NEW m \in Attempt PROVE said'[m] < 2 /\ (said'[m] > 0 => m <= channel')
    <3>1. said[m] < 2 /\ (said[m] > 0 => m <= channel) /\ n > channel /\ (said[n] > 0 => n <= channel)
        BY <1>8, <2>3 DEF PulledOnce
    <3>2. said[n] = 0
        BY <1>1, <1>2, <1>8, <3>1
    <3>3. CASE m = n
        BY <1>2, <1>8, <2>1, <3>2, <3>3
    <3>4. CASE m # n
        BY <1>1, <1>2, <1>8, <2>1, <3>1, <3>4
    <3> QED BY <3>3, <3>4
  <2>4. PulledOnce'
      BY <1>4, <1>8, <2>3 DEF PulledOnce
  <2> QED BY <1>5, <2>2, <2>4
<1>9. CASE ToolReturns(p)
  <2>1. UNCHANGED <<rec, faults>> /\ turn' = [pc |-> "ask", by |-> p] /\ turn'.pc = "ask" /\ turn' \in TurnType
      BY <1>6, <1>9 DEF ToolReturns
  <2>2. kind = "pull" => channel = 0
      BY <1>9 DEF ToolReturns, At, PulledOnce
  <2>3. CASE UNCHANGED <<channel, said>>
      BY <1>7, <2>1, <2>3
  <2>4. CASE channel' = rec.attempt /\ Told(rec.attempt)
      BY <1>1, <1>2, <1>8, <2>1, <2>2, <2>4
  <2>5. CASE channel' = rec.attempt /\ UNCHANGED said
    <3>1. TypeOK'
        BY <1>2, <1>4, <2>1, <2>5, NewTypes
    <3>2. \A m \in Attempt : kind = "pull" => said'[m] < 2 /\ (said'[m] > 0 => m <= channel')
        BY <1>1, <1>2, <2>2, <2>5 DEF PulledOnce
    <3>3. PulledOnce'
        BY <1>4, <2>1, <3>2 DEF PulledOnce
    <3> QED BY <1>5, <3>1, <3>3
  <2> QED BY <1>9, <2>3, <2>4, <2>5 DEF ToolReturns
<1>10. CASE Answer(p)
  <2>1. turn.n \in Attempt /\ (kind = "pull" => channel < turn.n)
      BY <1>1, <1>10, TurnParts DEF Answer, At, PulledOnce
  <2>2. /\ UNCHANGED <<rec, faults>> /\ channel' = turn.n /\ Told(turn.n)
        /\ turn' \in TurnType /\ turn'.pc = "index"
      BY <1>6, <1>10 DEF Answer
  <2>3. kind = "pull" => turn.n > channel
      BY <1>1, <1>2, <2>1
  <2> QED BY <1>8, <2>1, <2>2, <2>3
<1>11. CASE Ask(p)
  <2>1. UNCHANGED <<rec, channel, said, faults>>
      BY <1>11 DEF Ask
  <2>2. CASE turn' = [pc |-> "index", by |-> p]
      BY <1>6, <1>7, <2>1, <2>2
  <2>3. CASE turn' = [pc |-> "answer", by |-> p, n |-> rec.attempt] /\ ~InThread(rec.attempt)
    <3>1. turn' \in TurnType /\ turn'.pc = "answer" /\ turn'.n = rec.attempt /\ channel < rec.attempt
        BY <1>1, <1>2, <1>6, <2>3 DEF InThread
    <3>2. TypeOK'
        BY <1>4, <2>1, <3>1, NewTypes
    <3>3. PulledOnce'
        BY <1>4, <2>1, <3>1 DEF PulledOnce
    <3> QED BY <1>5, <3>2, <3>3
  <2> QED BY <1>11, <2>2, <2>3 DEF Ask
<1>12. CASE Index(p)
  <2>1. turn' \in {Idle, [pc |-> "mark", by |-> p]} /\ UNCHANGED <<rec, channel, said, faults>>
      BY <1>12 DEF Index
  <2> QED BY <1>6, <1>7, <2>1
<1>13. CASE MarkRead(p)
  <2>1. /\ turn' = Idle \/ turn' = [pc |-> "write", by |-> p, copy |-> [rec EXCEPT !.stamped = TRUE]]
        /\ UNCHANGED <<rec, channel, said, faults>>
      BY <1>13 DEF MarkRead
  <2> DEFINE stamped == [rec EXCEPT !.stamped = TRUE]
  <2>2. stamped \in Record
      BY <1>1, RecordParts
  <2> HIDE DEF stamped
  <2>3. turn' \in TurnType /\ turn'.pc \notin {"tool", "answer"}
    <3>1. CASE turn' = Idle
        BY <1>6, <3>1
    <3>2. CASE turn' = [pc |-> "write", by |-> p, copy |-> stamped]
        BY <1>6, <2>2, <3>2
    <3> QED BY <2>1, <3>1, <3>2 DEF stamped
  <2> QED BY <1>7, <2>1, <2>3
<1>14. CASE MarkWrite(p)
  <2>1. rec' = turn.copy /\ turn' = Idle /\ turn.pc = "write" /\ UNCHANGED <<channel, said, faults>>
      BY <1>14 DEF MarkWrite, At
  <2>2. rec' \in Record
      BY <1>1, <2>1, TurnParts
  <2> QED BY <1>6, <1>7, <2>1, <2>2
<1>15. CASE TurnDies(p)
  <2>1. turn' = Idle /\ UNCHANGED <<rec, channel, said>> /\ faults < MaxFault /\ faults' = faults + 1
      BY <1>15 DEF TurnDies
  <2>2. faults' \in 0 .. MaxFault
      BY <1>1, <1>2, <2>1
  <2> QED BY <1>6, <1>7, <2>1, <2>2
<1> QED BY <1>9, <1>10, <1>11, <1>12, <1>13, <1>14, <1>15

LEMMA FreeProcesses ==
    ASSUME Free, NEW p \in Proc, (p \in up /\ (Crash(p) \/ Stop(p))) \/ Start(p)
    PROVE  Free'
<1> USE DEF Free
<1>1. /\ NoRun \in AmendType /\ NoRun \in RunType /\ NoPush \in PushType /\ Idle \in TurnType
      /\ push \in [Proc -> [Attempt -> PushType]] /\ up \subseteq Proc /\ faults \in 0 .. MaxFault
      /\ rec \in Record /\ rec.attempt \in Attempt /\ NoPush.pc = "off" /\ Idle.pc = "idle"
    BY TypeParts, RecordParts DEF AmendType, RunType, PushType, TurnType, StoreType, NoPush, Idle
<1>2. CASE Crash(p)
  <2>1. /\ UNCHANGED <<kind, rec, channel, said>>
        /\ run' = run \/ run' = NoRun
        /\ amend' = amend \/ amend' = NoRun
        /\ turn' = turn \/ turn' = Idle
        /\ push' = [push EXCEPT ![p] = [n \in Attempt |-> NoPush]]
        /\ up' = up \ {p} /\ faults < MaxFault /\ faults' = faults + 1
      BY <1>2 DEF Crash
  <2>2. /\ push' \in [Proc -> [Attempt -> PushType]]
        /\ \A q \in Proc, n \in Attempt : push'[q][n] = push[q][n] \/ push'[q][n] = NoPush
      BY <1>1, <2>1
  <2>3. up' \subseteq Proc /\ faults' \in 0 .. MaxFault
      BY <1>1, <2>1, DeliveryAssumption
  <2>4. TypeOK'
      BY <1>1, <2>1, <2>2, <2>3, NewTypes
  <2>5. PulledOnce'
      BY <1>1, <2>1, <2>2, StaysOnce
  <2>6. PushedFirst'
      BY <1>1, <2>1, <2>2, StaysFirst DEF PushedFirst
  <2> QED BY <2>4, <2>5, <2>6
<1>3. CASE Stop(p)
  <2>1. /\ UNCHANGED <<kind, rec, run, amend, push, turn, channel, said, faults>> /\ up' \subseteq Proc
      BY <1>1, <1>3 DEF Stop
  <2>2. TypeOK'
      BY <2>1, NewTypes
  <2> QED BY <2>1, <2>2, StaysOnce, StaysFirst DEF PushedFirst
<1>4. CASE Start(p)
  <2>1. up' \subseteq Proc /\ UNCHANGED <<kind, run, amend, turn, channel, said, faults>>
      BY <1>1, <1>4 DEF Start
  <2>2. /\ rec' \in Record /\ rec'.attempt = rec.attempt
        /\ rec'.stamped => rec.stamped \/ kind = "none"
        /\ push' \in [Proc -> [Attempt -> PushType]]
        /\ \A q \in Proc, n \in Attempt :
              push'[q][n] = push[q][n] \/ (kind = "push" /\ push'[q][n].pc = "post")
    <3>1. CASE rec.status = "running" /\ run = NoRun
      <4> DEFINE r == [rec EXCEPT !.status = "failed"]
      <4>1. r \in Record /\ r.attempt = rec.attempt /\ r.stamped = rec.stamped
          BY <1>1 DEF Record, Settled
      <4>2. Persist(r, p)
          BY <1>4, <3>1 DEF Start
      <4> HIDE DEF r
      <4> QED BY <4>1, <4>2, PersistDoes
    <3>2. CASE ~(rec.status = "running" /\ run = NoRun)
      <4>1. [pc |-> "post", job |-> rec] \in PushType
          BY <1>1 DEF PushType
      <4>2. /\ rec' = rec
            /\ \/ push' = push
               \/ kind = "push" /\ push' = [push EXCEPT ![p][rec.attempt] = [pc |-> "post", job |-> rec]]
          BY <1>4, <3>2 DEF Start
      <4>3. push' = push => push' \in [Proc -> [Attempt -> PushType]]
          BY <1>1
      <4> QED BY <1>1, <4>1, <4>2, <4>3
    <3> QED BY <3>1, <3>2
  <2>3. TypeOK'
      BY <2>1, <2>2, NewTypes
  <2>4. PulledOnce'
      BY <2>1, <2>2, StaysOnce
  <2>5. PushedFirst'
      BY <2>1, <2>2, StaysFirst DEF PushedFirst
  <2> QED BY <2>3, <2>4, <2>5
<1> QED BY <1>2, <1>3, <1>4

LEMMA InitFree == Init => Free
<1> SUFFICES ASSUME Init PROVE Free
    OBVIOUS
<1>1. IInv
    BY InitIInv
<1>2. NoPush.pc = "off" /\ Idle.pc = "idle"
    BY DEF NoPush, Idle
<1>3. PulledOnce
    BY <1>2, DeliveryAssumption DEF Init, PulledOnce, Attempt
<1>4. PushedFirst
    BY <1>2 DEF Init, PushedFirst, Opened
<1> QED BY <1>1, <1>3, <1>4 DEF IInv, Free

LEMMA NextFree ==
    ASSUME Free, [Next]_vars
    PROVE  Free'
<1>1. CASE UNCHANGED vars
  <2>1. TypeOK'
      BY <1>1, NewTypes DEF Free, vars
  <2> QED BY <1>1, <2>1 DEF vars, Free, PulledOnce, PushedFirst
<1>2. ASSUME NEW p \in up,
             \/ Advance(p) \/ Conclude(p) \/ LateCancel(p) \/ CancelPaused(p) \/ Resume(p)
             \/ AmendStop(p) \/ TurnDies(p) \/ Crash(p) \/ Stop(p) \/ Owe(p) \/ Ask(p) \/ Index(p)
             \/ AmendRefused(p) \/ AmendGo(p)
      PROVE  Free'
  <2>1. p \in Proc
      BY TypeParts DEF Free
  <2>2. CASE Owe(p)
      BY <2>2, FreeRun, FreePush, FreeTurn DEF Owe
  <2>3. CASE Advance(p) \/ Conclude(p) \/ LateCancel(p) \/ CancelPaused(p) \/ AmendStop(p)
      BY <2>3, FreeRun
  <2>4. CASE Resume(p) \/ AmendGo(p) \/ AmendRefused(p)
      BY <2>4, FreePickUp
  <2>5. CASE TurnDies(p) \/ Ask(p) \/ Index(p)
      BY <2>5, FreeTurn
  <2>6. CASE Crash(p) \/ Stop(p)
      BY <2>1, <2>6, FreeProcesses
  <2> QED BY <1>2, <2>2, <2>3, <2>4, <2>5, <2>6
<1>3. ASSUME NEW p \in Proc, Start(p) PROVE Free'
    BY <1>3, FreeProcesses
<1> QED BY <1>1, <1>2, <1>3 DEF Next

LEMMA AlwaysFree == Safety => []Free
<1>1. Free /\ [Next]_vars => Free'
    BY NextFree
<1> QED BY <1>1, InitFree, PTL DEF Safety

-----------------------------------------------------------------------------
(* The store, the runs, the pushes and the turn keep their types.            *)
THEOREM DeliveryTypeCorrect == Safety => []TypeOK
<1>1. Free => TypeOK
    BY DEF Free
<1> QED BY <1>1, AlwaysFree, PTL

(* The thread is told of each ending at most once, whichever turns die, and  *)
(* whatever stamp, resume, recovery or pause falls between two of its steps. *)
THEOREM ThreadToldOnce == Safety => []ToldOnce
<1>1. Free => ToldOnce
    BY DEF Free, PulledOnce, ToldOnce
<1> QED BY <1>1, AlwaysFree, PTL

(* delivered_at of a pushed ending is never ahead of its receiver, whatever  *)
(* resume, recovery or other process's push falls between the post, the      *)
(* reading of the record and its stamp: _push looks at the attempt.          *)
THEOREM PushesAreEarned == Safety => []PushIsEarned
<1>1. Free => PushIsEarned
    BY DEF Free, PushedFirst, PushIsEarned, StampIsEarned
<1> QED BY <1>1, AlwaysFree, PTL

(* delivered_at is never ahead of the receiver: an ending that is stamped    *)
(* was posted, or stands in the thread; of a thread, where the job is not    *)
(* resumed in mid-mark and does not pause in the turn that launched it.      *)
THEOREM StampsAreEarned == ASSUME ~MayOverlap, ~MayPauseInTurn PROVE Safety => []StampIsEarned
<1>1. IInv => StampIsEarned
    BY DEF IInv, StampedIsTold, StampIsEarned
<1> QED BY <1>1, Always, PTL

=============================================================================
