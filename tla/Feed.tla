-------------------------------- MODULE Feed --------------------------------
(* What subscribe() promises (service.py, engine/events.py): an event says   *)
(* that something moved, never what.  Whatever is saved after a subscription *)
(* is followed by an event, or finds the bounded queue full of events that   *)
(* are not taken yet, or its announcement is lost.  An event may come twice, *)
(* and early or late.                                                        *)
EXTENDS Naturals, FiniteSets, FiniteSetsExt

CONSTANTS
    Job,
    MaxClock,   \* bound on the stamps of the saves
    MaxQueue    \* max_queue of subscribe

ASSUME FeedAssumption == IsFiniteSet(Job) /\ MaxClock \in Nat /\ MaxQueue \in Nat \ {0}

VARIABLES
    db,          \* the stamp of each job's record
    owed,        \* the jobs that moved and have no event since, with one to come
    lost,        \* the jobs that moved and may have no event: what announces it was lost
    queue,       \* events in the subscriber's queue
    subscribed

feed == <<db, owed, lost, queue, subscribed>>
Stamp == 0 .. MaxClock

FeedInit == db = [j \in Job |-> 0] /\ owed = {} /\ lost = {} /\ queue = 0 /\ subscribed = FALSE

(* A save: an event of it is on its way, if anybody listens, or lost at once. *)
Change(j) ==
    /\ \E s \in Stamp : s > db[j] /\ db' = [db EXCEPT ![j] = s]
    /\ \/ ~subscribed /\ UNCHANGED <<owed, lost>>
       \/ subscribed /\ owed' = owed \cup {j} /\ lost' = lost \ {j}
       \/ subscribed /\ owed' = owed \ {j} /\ lost' = lost \cup {j}
    /\ UNCHANGED <<queue, subscribed>>

(* Events, of what is owed, of what was lost or of what was told before. *)
Tell ==
    /\ subscribed
    /\ \E n \in 1 .. Cardinality(Job) : queue' = Min({queue + n, MaxQueue})
    /\ lost' \in SUBSET lost /\ owed' \in SUBSET (Job \ lost')
    /\ UNCHANGED <<db, subscribed>>

(* What was told is to be told again. *)
Again ==
    /\ subscribed
    /\ owed' \in SUBSET (Job \ lost) /\ owed \subseteq owed'
    /\ UNCHANGED <<db, lost, queue, subscribed>>

(* What announces a move is lost: nobody forgets the move itself. *)
Lose ==
    /\ subscribed
    /\ lost' \in SUBSET Job /\ lost \subseteq lost'
    /\ owed' = owed \ lost'
    /\ UNCHANGED <<db, queue, subscribed>>

Take == queue > 0 /\ queue' = queue - 1 /\ UNCHANGED <<db, owed, lost, subscribed>>

(* What moved in the very instant of the subscription may be told, or not.   *)
Subscribe ==
    /\ ~subscribed /\ subscribed' = TRUE
    /\ owed' \in SUBSET Job
    /\ UNCHANGED <<db, lost, queue>>

Unsubscribe ==
    /\ subscribed /\ subscribed' = FALSE
    /\ owed' = {} /\ lost' = {} /\ queue' = 0
    /\ UNCHANGED db

FeedNext == (\E j \in Job : Change(j)) \/ Tell \/ Again \/ Lose \/ Take \/ Subscribe \/ Unsubscribe

FeedFairness == \A j \in Job : WF_feed(Tell /\ j \in owed /\ j \notin owed')

FeedSpec == FeedInit /\ [][FeedNext]_feed /\ FeedFairness
============================================================================
