------------------------------- MODULE Screen -------------------------------
(* The jobs pane of the terminal UI (tui/app.py) behind a daemon: the feed   *)
(* of events the daemon subscribes to (Feed, which Events implements), as it *)
(* is serialized by the API (api/app.py) and read back into a queue by       *)
(* DaemonClient (cli/client.py), and the screen that re-reads the job list   *)
(* whenever something moved.                                                 *)
EXTENDS Feed

CONSTANTS
    MaxMount,     \* bound on the times the UI is opened
    MayOpenLate   \* may the first list be read before the daemon has the subscription?

ASSUME ScreenAssumption == MaxMount \in Nat /\ MayOpenLate \in BOOLEAN

VARIABLES
    alive,       \* does the daemon run?
    stream,      \* the GET /events of the client
    ticks,       \* events in the client's queue
    marker,      \* is None, the end of the stream, in that queue?
    watcher,     \* JobsmithApp._watch
    reload,      \* the refresh in flight: asking, or with the list it was answered
    stale,       \* _stale: one more refresh is owed
    shown,       \* the stamp of each job as it is on screen
    liveLost, unreachable,   \* what the tab bar says
    mounts

screen == <<alive, stream, ticks, marker, watcher, reload, stale, shown, liveLost,
            unreachable, mounts>>
vars == <<feed, screen>>

NoReload == [pc |-> "idle"]

Init ==
    /\ FeedInit
    /\ alive = TRUE /\ stream = "off" /\ ticks = 0 /\ marker = FALSE
    /\ watcher = "off" /\ reload = NoReload /\ stale = FALSE
    /\ shown = [j \in Job |-> 0] /\ liveLost = FALSE /\ unreachable = FALSE /\ mounts = 0

(* Jobs move, and the subscription tells of it, while the daemon runs. *)
Moves ==
    /\ alive
    /\ (\E j \in Job : Change(j)) \/ Tell \/ Again \/ Lose
    /\ UNCHANGED screen

----------------------------------------------------------------------------
\* Mutant: a refresh asked for while one is in flight is dropped.
RefreshDropped ==
    /\ reload' = IF reload = NoReload THEN [pc |-> "ask"] ELSE reload
    /\ UNCHANGED stale

(* refresh_jobs: one in flight is joined, and goes round once more. *)
Refresh ==
    IF reload = NoReload THEN reload' = [pc |-> "ask"] /\ UNCHANGED stale
    ELSE stale' = TRUE /\ UNCHANGED reload

(* on_mount: the first refresh, then the subscription. *)
Mount ==
    /\ watcher = "off" /\ mounts < MaxMount
    /\ mounts' = mounts + 1
    /\ Refresh /\ watcher' = "follow" /\ stream' = "opening"
    /\ shown' = [j \in Job |-> 0] /\ liveLost' = FALSE /\ unreachable' = FALSE
    /\ UNCHANGED <<feed, alive, ticks, marker>>

(* GET /events reaches the daemon, which subscribes. *)
OpenStream ==
    /\ alive /\ stream = "opening" /\ Subscribe
    /\ stream' = "open"
    /\ UNCHANGED <<alive, ticks, marker, watcher, reload, stale, shown, liveLost,
                   unreachable, mounts>>

(* One event over the wire, dropped when the client's queue is full. *)
Relay ==
    /\ alive /\ stream = "open" /\ Take
    /\ ticks' = Min({ticks + 1, MaxQueue})
    /\ UNCHANGED <<alive, stream, marker, watcher, reload, stale, shown, liveLost,
                   unreachable, mounts>>

(* _end_of_stream: a full queue loses its oldest event to make room. *)
EndOfStream ==
    /\ marker' = TRUE
    /\ ticks' = IF ticks = MaxQueue THEN ticks - 1 ELSE ticks

DaemonDies ==
    /\ alive /\ alive' = FALSE
    /\ UNCHANGED <<feed, stream, ticks, marker, watcher, reload, stale, shown, liveLost,
                   unreachable, mounts>>

StreamEnds ==
    /\ ~alive /\ stream \in {"opening", "open"}
    /\ stream' = "ended"
    /\ EndOfStream
    /\ UNCHANGED <<feed, alive, watcher, reload, stale, shown, liveLost, unreachable, mounts>>

(* _watch takes the whole burst: a repaint, or the end.                      *)
Wake ==
    /\ watcher = "follow" /\ (ticks > 0 \/ marker)
    /\ ticks' = 0 /\ marker' = FALSE
    /\ IF marker
       THEN watcher' = "over" /\ liveLost' = TRUE /\ UNCHANGED <<reload, stale>>
       ELSE Refresh /\ UNCHANGED <<watcher, liveLost>>
    /\ UNCHANGED <<feed, alive, stream, shown, unreachable, mounts>>

(* F5, the jobs pane opened, a turn that finished. *)
AskedTo ==
    /\ watcher # "off" /\ Refresh
    /\ UNCHANGED <<feed, alive, stream, ticks, marker, watcher, shown, liveLost,
                   unreachable, mounts>>

(* GET /jobs is answered; or it is not: the screen says so, and nothing is   *)
(* asked again by itself.                                                    *)
Ask ==
    /\ reload.pc = "ask"
    /\ MayOpenLate \/ stream # "opening"
    /\ IF alive
       THEN reload' = [pc |-> "paint", list |-> db] /\ UNCHANGED <<stale, unreachable>>
       ELSE reload' = NoReload /\ stale' = FALSE /\ unreachable' = TRUE
    /\ UNCHANGED <<feed, alive, stream, ticks, marker, watcher, shown, liveLost, mounts>>

Paint ==
    /\ reload.pc = "paint"
    /\ shown' = reload.list /\ unreachable' = FALSE
    /\ reload' = IF stale THEN [pc |-> "ask"] ELSE NoReload
    /\ stale' = FALSE
    /\ UNCHANGED <<feed, alive, stream, ticks, marker, watcher, liveLost, mounts>>

(* on_unmount: the subscription is released, the stream unwound. *)
Unmount ==
    /\ watcher # "off" /\ stream # "opening" /\ reload = NoReload
    /\ watcher' = "off" /\ stream' = "off" /\ ticks' = 0 /\ marker' = FALSE
    /\ IF alive /\ subscribed THEN Unsubscribe ELSE UNCHANGED feed
    /\ UNCHANGED <<alive, reload, stale, shown, liveLost, unreachable, mounts>>

UI == OpenStream \/ Relay \/ StreamEnds \/ Wake \/ Ask \/ Paint

Next == Moves \/ UI \/ Mount \/ DaemonDies \/ AskedTo \/ Unmount

(* The feed keeps its promise; the stream and the UI go on.  Nobody need     *)
(* save a job, press a key or stop the daemon.                               *)
Fairness ==
    /\ \A j \in Job : WF_vars(alive /\ j \in owed /\ Tell /\ j \notin owed' /\ UNCHANGED screen)
    /\ WF_vars(OpenStream) /\ WF_vars(Relay) /\ WF_vars(StreamEnds) /\ WF_vars(Wake)
    /\ WF_vars(Ask \/ Paint)

Spec == Init /\ [][Next]_vars /\ Fairness

----------------------------------------------------------------------------
(* Types: of the feed, and of the screen.                                    *)
TypeOK ==
    /\ db \in [Job -> Stamp] /\ owed \cup lost \subseteq Job /\ queue \in 0 .. MaxQueue
    /\ {subscribed, alive, marker, stale, liveLost, unreachable} \subseteq BOOLEAN
    /\ stream \in {"off", "opening", "open", "ended"} /\ watcher \in {"off", "follow", "over"}
    /\ ticks \in 0 .. MaxQueue
    /\ reload.pc \in {"idle", "ask", "paint"} /\ shown \in [Job -> Stamp] /\ mounts \in 0 .. MaxMount

Follows == watcher = "follow" /\ stream = "open"
SaysNot == liveLost \/ unreachable \/ watcher = "off"

(* Whoever saves a job last, here or in another process, the screen that     *)
(* follows comes to show it, or says that it does not follow, unless what    *)
(* announces the save is lost; then it does with the next event, of whatever *)
(* job ("a later one repaints").  Events dropped by full queues and          *)
(* refreshes asked for while one is in flight included.                      *)
SavesAreShown ==
    \A j \in Job : \A s \in Stamp \ {0} :
        /\ (db[j] = s /\ Follows /\ j \notin lost) ~> (shown[j] >= s \/ j \in lost \/ SaysNot)
        /\ (db[j] = s /\ Follows /\ queue > 0) ~> (shown[j] >= s \/ SaysNot)

(* A daemon that goes away is said on the screen, however full the queue:    *)
(* the end of the stream is never dropped.                                   *)
GoneIsSaid == (~alive /\ watcher = "follow") ~> (liveLost \/ watcher = "off")

(* The screen catches up with the store for as long as it has a daemon to    *)
(* follow, and says so once it has none.                                     *)
ScreenCatchesUp == SavesAreShown /\ GoneIsSaid
============================================================================
