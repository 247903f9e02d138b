------------------------------- MODULE Events -------------------------------
(* engine/events.py: the progress events of one process, fanned out to a     *)
(* subscriber's bounded queue, and the watch on what other processes save in *)
(* the same database (SqliteWatchEvents, PostgresNotifyEvents).              *)
(*                                                                           *)
(* Time is a clock that may stand still between two saves; what a save says  *)
(* is its stamp, updated_at.  An event is no delta: all a subscriber may     *)
(* take from it is that something moved, so a queue is the number of events. *)
EXTENDS Naturals, FiniteSets, FiniteSetsExt

CONSTANTS
    Job,
    Own,            \* the jobs this process runs; the others run elsewhere
    Backend,        \* the databases: a subset of {"sqlite", "postgres"}
    MaxClock,       \* bound on the clock
    MaxSave,        \* bound on the saves
    MaxQueue,       \* max_queue of subscribe
    MayCommitLate   \* may a save commit after one stamped later was read?

ASSUME EventsAssumption ==
    /\ IsFiniteSet(Job) /\ Own \subseteq Job /\ Backend \subseteq {"sqlite", "postgres"}
    /\ MaxSave \in Nat /\ {MaxClock, MaxQueue} \subseteq Nat \ {0}
    /\ MayCommitLate \in BOOLEAN

VARIABLES
    backend, clock,
    db,         \* updated_at of each summary, as committed
    saving,     \* a save of each job: its stamp, and whether it commits or is announced next
    commits,    \* PRAGMA data_version
    notify,     \* the NOTIFYs being sent
    notes,      \* the NOTIFYs received and not handled
    seen, watermark, since,     \* _seen, _watermark, _since
    watch,      \* _watch: where it stands, the data_version it saw, the rows it read
    queue,      \* events in the subscriber's queue
    lost        \* history: the jobs of which a NOTIFY, a look or the watch was lost
                \* since they were last saved, or told as they are

store == <<backend, clock, db, saving, commits>>
vars == <<store, notify, notes, seen, watermark, since, watch, queue, lost>>

Stamp == 0 .. MaxClock
NoSave == [pc |-> "idle"]
NoWatch == [pc |-> "off"]

Init ==
    /\ backend \in Backend /\ clock = 1
    /\ db = [j \in Job |-> 0] /\ saving = [j \in Job |-> NoSave] /\ commits = 0
    /\ notify = {} /\ notes = {}
    /\ seen = [j \in Job |-> 0] /\ watermark = 0 /\ since = 0
    /\ watch = NoWatch /\ queue = 0 /\ lost = {}

Enqueued(n) == queue' = Min({queue + n, MaxQueue})      \* full: the event is dropped

----------------------------------------------------------------------------
Dead == watch.pc = "dead"
Owed == {j \in Job : watch # NoWatch /\ db[j] >= since /\ seen[j] # db[j]}

\* Nothing announces these any more, to whoever is subscribed.
Lost(jobs) == lost' = IF watch = NoWatch THEN lost ELSE lost \cup jobs

(* A save in some process: stamped, committed, announced. *)
Save(j) ==
    /\ saving[j] = NoSave
    /\ commits + Cardinality({k \in Job : saving[k].pc = "commit"}) < MaxSave
    /\ MayCommitLate \/ \A k \in Job : saving[k].pc # "commit"
    /\ clock' \in {clock, clock + 1} /\ clock' \in db[j] + 1 .. MaxClock
    /\ saving' = [saving EXCEPT ![j] = [pc |-> "commit", stamp |-> clock']]
    /\ UNCHANGED <<backend, db, commits, notify, notes, seen, watermark, since, watch, queue, lost>>

Commit(j) ==
    /\ saving[j].pc = "commit"
    /\ db' = [db EXCEPT ![j] = saving[j].stamp]
    /\ commits' = commits + 1
    /\ saving' = [saving EXCEPT ![j].pc = "publish"]
    /\ IF Dead /\ j \notin Own THEN Lost({j}) ELSE lost' = lost \ {j}
    /\ UNCHANGED <<backend, clock, notify, notes, seen, watermark, since, watch, queue>>

(* publish: this process's subscriber at once, the others by a NOTIFY. *)
Publish(j) ==
    /\ saving[j].pc = "publish"
    /\ saving' = [saving EXCEPT ![j] = NoSave]
    /\ notify' = IF backend = "postgres" THEN notify \cup {j} ELSE notify
    /\ IF j \in Own
       THEN /\ seen' = [seen EXCEPT ![j] = saving[j].stamp]
            /\ IF watch = NoWatch THEN UNCHANGED queue ELSE Enqueued(1)
            /\ lost' = lost \ {j}
       ELSE UNCHANGED <<seen, queue, lost>>
    /\ UNCHANGED <<backend, clock, db, commits, notes, watermark, since, watch>>

(* Another process dies between its save and what announces it. *)
Die(j) ==
    /\ j \notin Own /\ saving[j] # NoSave
    /\ saving' = [saving EXCEPT ![j] = NoSave]
    /\ IF backend = "postgres" /\ saving[j].pc = "publish" THEN Lost({j}) ELSE UNCHANGED lost
    /\ UNCHANGED <<backend, clock, db, commits, notify, notes, seen, watermark, since, watch, queue>>

(* _notify is best effort: the NOTIFY reaches whoever listens ... *)
Notify(j) ==
    /\ j \in notify
    /\ notify' = notify \ {j}
    /\ notes' = IF watch.pc \in {"off", "open", "dead"} THEN notes ELSE notes \cup {j}
    /\ UNCHANGED <<store, seen, watermark, since, watch, queue, lost>>

(* ... or fails, which nobody is told. *)
Drop(j) ==
    /\ j \in notify
    /\ notify' = notify \ {j}
    /\ IF saving[j].pc = "publish" THEN UNCHANGED lost ELSE Lost({j})
    /\ UNCHANGED <<store, notes, seen, watermark, since, watch, queue>>

----------------------------------------------------------------------------
(* subscribe: the watch begins, and what moves from here on is news. *)
Subscribe ==
    /\ watch = NoWatch
    /\ MayCommitLate \/ \A k \in Job : saving[k].pc # "commit"
    /\ since' = clock
    /\ watch' = [pc |-> "open"]
    /\ UNCHANGED <<store, notify, notes, seen, watermark, queue, lost>>

(* subscribe, by somebody else: it finds this watch over and starts another, *)
(* which looks no further back than its own start.                           *)
Revive ==
    /\ Dead
    /\ MayCommitLate \/ \A k \in Job : saving[k].pc # "commit"
    /\ since' = clock
    /\ watch' = [pc |-> "open"]
    /\ Lost(Owed)
    /\ UNCHANGED <<store, notify, notes, seen, watermark, queue>>

\* Mutant: the watch is stamped when it gets to look, not when it is asked for.
OpenStamped ==
    /\ watch.pc = "open"
    /\ watch' = [pc |-> "look", version |-> commits, first |-> TRUE]
    /\ since' = clock
    /\ UNCHANGED <<store, notify, notes, seen, watermark, queue, lost>>

(* The watch has its data_version, or its LISTEN, before its first look. *)
Open ==
    /\ watch.pc = "open"
    /\ watch' = [pc |-> "look", version |-> commits, first |-> TRUE]
    /\ UNCHANGED <<store, notify, notes, seen, watermark, since, queue, lost>>

\* Mutant: a row as old as the newest one read is taken for one that was read.
LookAfter ==
    /\ watch.pc = "look"
    /\ LET from == IF backend = "sqlite" THEN watermark ELSE since
       IN  watch' = [pc |-> "fold", version |-> watch.version, first |-> watch.first,
                     rows |-> [j \in {k \in Job : db[k] > from} |-> db[j]]]
    /\ UNCHANGED <<store, notify, notes, seen, watermark, since, queue, lost>>

(* load_since: what moved since the last look, or since the subscription. *)
Look ==
    /\ watch.pc = "look"
    /\ LET from == IF backend = "sqlite" THEN watermark ELSE since
       IN  watch' = [pc |-> "fold", version |-> watch.version, first |-> watch.first,
                     rows |-> [j \in {k \in Job : db[k] >= from} |-> db[j]]]
    /\ UNCHANGED <<store, notify, notes, seen, watermark, since, queue, lost>>

(* SQLite: a look that fails (a busy file).  The first, or the connection    *)
(* before it, ends the watch; a later one waits for the next commit, since   *)
(* the data_version it was for is kept.                                      *)
Fail ==
    /\ backend = "sqlite"
    /\ \/ watch.pc = "open" /\ watch' = [pc |-> "dead"]
       \/ watch.pc = "look" /\ watch.first /\ watch' = [pc |-> "dead"]
       \/ watch.pc = "look" /\ ~watch.first /\ watch' = [pc |-> "wait", version |-> watch.version]
    /\ Lost(Owed)
    /\ UNCHANGED <<store, notify, notes, seen, watermark, since, queue>>

(* Postgres: whatever raises in _watch ends it, and its LISTEN. *)
Break ==
    /\ backend = "postgres" /\ watch.pc \in {"open", "look", "fold", "wait"}
    /\ watch' = [pc |-> "dead"] /\ notes' = {}
    /\ Lost(Owed)
    /\ UNCHANGED <<store, notify, seen, watermark, since, queue>>

(* _publish_moved, of every row: one that was not seen as it is is an event, *)
(* unless this first look finds it older than the subscription.              *)
Fold ==
    /\ watch.pc = "fold"
    /\ LET rows == watch.rows
           quiet(j) == backend = "sqlite" /\ watch.first /\ rows[j] < since
           moved == {j \in DOMAIN rows : seen[j] # rows[j]}
           read == {watermark} \cup {rows[j] : j \in DOMAIN rows}
       IN  /\ seen' = [j \in Job |-> IF j \in moved THEN rows[j] ELSE seen[j]]
           /\ Enqueued(Cardinality({j \in moved : ~quiet(j)}))
           /\ lost' = lost \ {j \in moved : ~quiet(j) /\ rows[j] = db[j]}
           /\ watermark' \in read /\ \A stamp \in read : stamp <= watermark'
    /\ watch' = [pc |-> "wait", version |-> watch.version]
    /\ UNCHANGED <<store, notify, notes, since>>

(* Another connection committed: look again. *)
Tick ==
    /\ backend = "sqlite" /\ watch.pc = "wait" /\ watch.version # commits
    /\ watch' = [pc |-> "look", version |-> commits, first |-> FALSE]
    /\ UNCHANGED <<store, notify, notes, seen, watermark, since, queue, lost>>

(* A NOTIFY arrived: the job it names is loaded. *)
Heed(j) ==
    /\ backend = "postgres" /\ watch.pc = "wait" /\ j \in notes
    /\ notes' = notes \ {j}
    /\ watch' = [pc |-> "fold", version |-> watch.version, first |-> FALSE,
                 rows |-> [k \in {j} |-> db[k]]]
    /\ UNCHANGED <<store, notify, seen, watermark, since, queue, lost>>

(* unsubscribe: the last subscriber stops the watch; what it saw is kept. *)
Unsubscribe ==
    /\ watch # NoWatch
    /\ watch' = NoWatch /\ notes' = {} /\ queue' = 0 /\ lost' = {}
    /\ UNCHANGED <<store, notify, seen, watermark, since>>

(* The subscriber takes an event. *)
Take ==
    /\ queue > 0 /\ queue' = queue - 1
    /\ UNCHANGED <<store, notify, notes, seen, watermark, since, watch, lost>>

Watching == Open \/ Look \/ Fold \/ Tick

Next ==
    \/ \E j \in Job : Save(j) \/ Commit(j) \/ Publish(j) \/ Die(j) \/ Notify(j) \/ Drop(j) \/ Heed(j)
    \/ Watching \/ Fail \/ Break \/ Take \/ Subscribe \/ Revive \/ Unsubscribe

(* What was begun goes on; nobody need save a job, subscribe or take events. *)
Spec ==
    /\ Init /\ [][Next]_vars
    /\ \A j \in Job : WF_vars(Commit(j) \/ Publish(j)) /\ WF_vars(Notify(j)) /\ WF_vars(Heed(j))
    /\ WF_vars(Watching)

----------------------------------------------------------------------------
(* Types: the rows a look read are stamps of the store.                      *)
TypeOK ==
    /\ clock \in Stamp /\ db \in [Job -> Stamp] /\ commits \in 0 .. MaxSave
    /\ \A j \in Job : saving[j].pc \in {"idle", "commit", "publish"}
    /\ notify \subseteq Job /\ notes \subseteq Job
    /\ seen \in [Job -> Stamp] /\ {watermark, since} \subseteq Stamp
    /\ watch.pc \in {"off", "open", "look", "fold", "wait", "dead"}
    /\ queue \in 0 .. MaxQueue /\ lost \subseteq Job

(* The watch sees nothing to look at: no commit since it looked, or no       *)
(* NOTIFY sent or on its way.                                                *)
Rests ==
    /\ watch.pc = "wait"
    /\ IF backend = "sqlite" THEN watch.version = commits
       ELSE notify \cup notes = {} /\ \A j \in Job : saving[j].pc # "publish"

(* A watch at rest owes only what a failure kept from it: a NOTIFY that was  *)
(* not sent or not received, a look that failed, a watch that ended.         *)
(* Everything else that moved since the subscription was seen as it is,      *)
(* though rows are read before others commit, stamps repeat, this process's  *)
(* own events overtake a look, and a stale row undoes them; and what was     *)
(* lost is seen with the next save of that job ("a later one repaints").     *)
OnlyLossIsMissed == Rests => Owed \subseteq lost

(* The feed keeps the promise of subscribe: whoever saves a job after the    *)
(* subscription, the save is followed by an event unless what announces it   *)
(* is lost, whatever was read or notified before the watch was open (issue   *)
(* 145), in whatever order saves, looks and this process's own events come.  *)
Promise ==
    INSTANCE Feed WITH owed <- Owed \ lost, subscribed <- watch # NoWatch

FeedIsKept == Promise!FeedSpec

(* What _watch says of a tick that finds a busy file, "ask again next one":  *)
(* the look it was for is made again.                                        *)
BusyLookIsMadeAgain ==
    \A j \in Job :
        (backend = "sqlite" /\ watch.pc = "wait" /\ j \in Owed) ~> (j \notin Owed)
============================================================================
