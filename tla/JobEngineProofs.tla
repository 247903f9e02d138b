-------------------------- MODULE JobEngineProofs --------------------------
(* What holds of JobEngine for every set of processes and calls: its types;  *)
(* and, whenever one run is all that drives the job, that a canceller may    *)
(* take a missing lease for a final record, that nobody takes the run for    *)
(* dead, that CANCELLED is the truth, and that JobRecord's promise is kept.  *)
(* IInv, Steady and Promised are the three layers of that invariant.  Then   *)
(* for any runs, resumes, answers, cancels and recoveries, provided two of   *)
(* them do not begin the job at once: that no two runs work on it and that   *)
(* each looks alive; and, of one run, one resume and one answer, with no     *)
(* such proviso, that CANCELLED is the truth and that the promise is kept.   *)
(* Many and Truthful are the two layers of that one.                         *)
EXTENDS JobEngine, TLAPS

LEMMA GotoType ==
    ASSUME TypeOK, NEW c \in Call, NEW next \in PC, Goto(c, next)
    PROVE  /\ pc' \in [Call -> PC]
           /\ handle' \in [Proc -> Call \cup {NoCall}]
<1>1. "end" \in PC
    BY DEF PC
<1>2. ProcOf[c] \in Proc
    BY ConstantsAssumption
<1>3. pc' \in [Call -> PC]
    BY <1>1 DEF Goto, TypeOK
<1>4. handle' = handle \/ handle' = [handle EXCEPT ![ProcOf[c]] = NoCall]
    BY DEF Goto, Ends
<1> QED BY <1>2, <1>3, <1>4 DEF TypeOK

LEMMA SetJobType ==
    ASSUME TypeOK, NEW c \in Call, NEW status \in Status, SetJob(c, status)
    PROVE  job' \in [Call -> Record]
    BY DEF TypeOK, SetJob, Record

LEMMA MineType ==
    ASSUME NEW c \in Call, NEW live \in BOOLEAN
    PROVE  Mine(ProcOf[c], live) \in Lease
    BY ConstantsAssumption DEF Mine, Lease

LEMMA InitType == Init => TypeOK
<1> SUFFICES ASSUME Init PROVE TypeOK
    OBVIOUS
<1>1. Unstarted \in Record /\ "idle" \in PC
    BY DEF Unstarted, Record, Status, PC
<1> QED BY <1>1 DEF Init, TypeOK

LEMMA NextType == TypeOK /\ [Next]_vars => TypeOK'
<1> SUFFICES ASSUME TypeOK, [Next]_vars PROVE TypeOK'
    OBVIOUS
<1> USE DEF store
<1>1. CASE UNCHANGED vars
    BY <1>1 DEF vars, TypeOK
<1>2. ASSUME NEW p \in Proc, Crash(p) PROVE TypeOK'
    BY <1>2 DEF Crash, TypeOK
<1>3. CASE Expire
    BY <1>3 DEF Expire, TypeOK, Lease
<1>4. ASSUME NEW c \in Call, Create(c) PROVE TypeOK'
  <2>1. [status |-> "queued", attempt |-> 1] \in Record /\ "load" \in PC
      BY DEF Record, Status, PC
  <2>2. ProcOf[c] \in Proc
      BY ConstantsAssumption
  <2> QED BY <1>4, <2>1, <2>2 DEF Create, TypeOK
<1>5. ASSUME NEW c \in Call, LoadStopped(c) PROVE TypeOK'
  <2>1. {"frontier", "end"} \subseteq PC
      BY DEF PC
  <2>2. \E next \in PC : Goto(c, next)
      BY <1>5, <2>1 DEF LoadStopped
  <2>3. pc' \in [Call -> PC] /\ handle' \in [Proc -> Call \cup {NoCall}]
      BY <2>2, GotoType
  <2> QED BY <1>5, <2>3 DEF LoadStopped, TypeOK
<1>6. ASSUME NEW c \in Call, CancelHere(c) PROVE TypeOK'
  <2>1. {"join", "final"} \subseteq PC /\ "cancelled" \in Status
      BY DEF PC, Status
  <2>2. handle[ProcOf[c]] \in Call
      BY <1>6, ConstantsAssumption DEF CancelHere, HasTask, TypeOK
  <2>3. job' \in [Call -> Record]
      BY <1>6, <2>1, <2>2, SetJobType DEF CancelHere, TypeOK
  <2>4. awaits' \in [Call -> Call \cup {NoCall}]
      BY <1>6, <2>2 DEF CancelHere, TypeOK
  <2>5. pc' \in [Call -> PC]
      BY <1>6, <2>1 DEF CancelHere, TypeOK
  <2>6. hb' \in [Call -> {"off", "asleep", "renew"}] /\ killed' \subseteq Call
      BY <1>6, <2>2 DEF CancelHere, TypeOK
  <2> QED BY <1>6, <2>3, <2>4, <2>5, <2>6 DEF CancelHere, TypeOK
<1>7. ASSUME NEW c \in Call, CancelElsewhere(c) PROVE TypeOK'
  <2>1. {"request", "bury", "end"} \subseteq PC
      BY DEF PC
  <2>2. \E next \in PC : Goto(c, next)
      BY <1>7, <2>1 DEF CancelElsewhere
  <2>3. pc' \in [Call -> PC] /\ handle' \in [Proc -> Call \cup {NoCall}]
      BY <2>2, GotoType
  <2> QED BY <1>7, <2>3 DEF CancelElsewhere, TypeOK
<1>8. ASSUME NEW c \in Call, ListRunning(c) PROVE TypeOK'
  <2>1. {"owner", "end"} \subseteq PC
      BY DEF PC
  <2>2. \E next \in PC : Goto(c, next)
      BY <1>8, <2>1 DEF ListRunning
  <2>3. pc' \in [Call -> PC] /\ handle' \in [Proc -> Call \cup {NoCall}]
      BY <2>2, GotoType
  <2> QED BY <1>8, <2>3 DEF ListRunning, TypeOK
<1>9. ASSUME NEW c \in Call, LoadQueued(c) PROVE TypeOK'
  <2>1. {"lease", "end"} \subseteq PC
      BY DEF PC
  <2>2. \E next \in PC : Goto(c, next)
      BY <1>9, <2>1 DEF LoadQueued
  <2>3. pc' \in [Call -> PC] /\ handle' \in [Proc -> Call \cup {NoCall}]
      BY <2>2, GotoType
  <2> QED BY <1>9, <2>3 DEF LoadQueued, TypeOK
<1>10. ASSUME NEW c \in Call, AskFrontier(c) PROVE TypeOK'
  <2>1. {"clear", "end"} \subseteq PC
      BY DEF PC
  <2>2. \E next \in PC : Goto(c, next)
      BY <1>10, <2>1 DEF AskFrontier
  <2>3. pc' \in [Call -> PC] /\ handle' \in [Proc -> Call \cup {NoCall}]
      BY <2>2, GotoType
  <2> QED BY <1>10, <2>3 DEF AskFrontier, TypeOK, Record
<1>11. ASSUME NEW c \in Call, ClearCancel(c) PROVE TypeOK'
  <2>1. {"lease"} \subseteq PC
      BY DEF PC
  <2>2. \E next \in PC : Goto(c, next)
      BY <1>11, <2>1 DEF ClearCancel
  <2>3. pc' \in [Call -> PC] /\ handle' \in [Proc -> Call \cup {NoCall}]
      BY <2>2, GotoType
  <2> QED BY <1>11, <2>3 DEF ClearCancel, TypeOK
<1>12. ASSUME NEW c \in Call, SaveLease(c) PROVE TypeOK'
  <2>1. {"control"} \subseteq PC
      BY DEF PC
  <2>2. \E next \in PC : Goto(c, next)
      BY <1>12, <2>1 DEF SaveLease
  <2>3. pc' \in [Call -> PC] /\ handle' \in [Proc -> Call \cup {NoCall}]
      BY <2>2, GotoType
  <2> QED BY <1>12, <2>3, MineType DEF SaveLease, TypeOK
<1>13. ASSUME NEW c \in Call, HearCancel(c) PROVE TypeOK'
  <2>1. {"refuse", "running"} \subseteq PC
      BY DEF PC
  <2>2. \E next \in PC : Goto(c, next)
      BY <1>13, <2>1 DEF HearCancel
  <2>3. pc' \in [Call -> PC] /\ handle' \in [Proc -> Call \cup {NoCall}]
      BY <2>2, GotoType
  <2>4. {"cancelled", "running"} \subseteq Status
      BY DEF Status
  <2>5. job' \in [Call -> Record]
      BY <1>13, <2>4, SetJobType DEF HearCancel, TypeOK
  <2> QED BY <1>13, <2>3, <2>5 DEF HearCancel, TypeOK
<1>14. ASSUME NEW c \in Call, Refuse(c) PROVE TypeOK'
  <2>1. {"unlease"} \subseteq PC
      BY DEF PC
  <2>2. \E next \in PC : Goto(c, next)
      BY <1>14, <2>1 DEF Refuse
  <2>3. pc' \in [Call -> PC] /\ handle' \in [Proc -> Call \cup {NoCall}]
      BY <2>2, GotoType
  <2> QED BY <1>14, <2>3 DEF Refuse, TypeOK
<1>15. ASSUME NEW c \in Call, Unlease(c) PROVE TypeOK'
  <2>1. {"end", "spawn"} \subseteq PC
      BY DEF PC
  <2>2. CASE Goto(c, "end")
      BY <1>15, <2>1, <2>2, GotoType DEF Unlease, TypeOK
  <2>3. CASE Spawn(c)
      BY <1>15, <2>1, <2>3, ConstantsAssumption DEF Unlease, Spawn, TypeOK
  <2> QED BY <1>15, <2>2, <2>3 DEF Unlease
<1>16. ASSUME NEW c \in Call, MarkRunning(c) PROVE TypeOK'
  <2>1. {"drive", "spawn"} \subseteq PC
      BY DEF PC
  <2>2. CASE KindOf[c] = "run"
    <3>1. Goto(c, "drive")
        BY <1>16, <2>2 DEF MarkRunning
    <3>2. pc' \in [Call -> PC] /\ handle' \in [Proc -> Call \cup {NoCall}]
        BY <2>1, <3>1, GotoType
    <3> QED BY <1>16, <2>2, <3>2 DEF MarkRunning, TypeOK
  <2>3. CASE KindOf[c] # "run"
      BY <1>16, <2>1, <2>3, ConstantsAssumption DEF MarkRunning, Spawn, TypeOK
  <2> QED BY <2>2, <2>3
<1>17. ASSUME NEW c \in Call, EnterDrive(c) PROVE TypeOK'
  <2>1. "drive" \in PC
      BY DEF PC
  <2> QED BY <1>17, <2>1 DEF EnterDrive, TypeOK
<1>18. ASSUME NEW c \in Call, PersistEnding(c) PROVE TypeOK'
  <2>1. {"release"} \subseteq PC
      BY DEF PC
  <2>2. \E next \in PC : Goto(c, next)
      BY <1>18, <2>1 DEF PersistEnding
  <2>3. pc' \in [Call -> PC] /\ handle' \in [Proc -> Call \cup {NoCall}]
      BY <2>2, GotoType
  <2> QED BY <1>18, <2>3 DEF PersistEnding, TypeOK
<1>19. ASSUME NEW c \in Call, Release(c) PROVE TypeOK'
  <2>1. {"end"} \subseteq PC
      BY DEF PC
  <2>2. \E next \in PC : Goto(c, next)
      BY <1>19, <2>1 DEF Release
  <2>3. pc' \in [Call -> PC] /\ handle' \in [Proc -> Call \cup {NoCall}]
      BY <2>2, GotoType
  <2> QED BY <1>19, <2>3 DEF Release, TypeOK
<1>20. ASSUME NEW c \in Call, Escape(c) PROVE TypeOK'
  <2>1. "end" \in PC
      BY DEF PC
  <2>2. handle' \in [Proc -> Call \cup {NoCall}]
      BY <1>20, ConstantsAssumption DEF Escape, Ends, TypeOK
  <2> QED BY <1>20, <2>1, <2>2 DEF Escape, TypeOK
<1>21. ASSUME NEW c \in Call, Join(c) PROVE TypeOK'
  <2>1. {"end"} \subseteq PC
      BY DEF PC
  <2>2. \E next \in PC : Goto(c, next)
      BY <1>21, <2>1 DEF Join
  <2>3. pc' \in [Call -> PC] /\ handle' \in [Proc -> Call \cup {NoCall}]
      BY <2>2, GotoType
  <2> QED BY <1>21, <2>3 DEF Join, TypeOK
<1>22. ASSUME NEW c \in Call, Request(c) PROVE TypeOK'
  <2>1. {"look", "bury"} \subseteq PC
      BY DEF PC
  <2>2. \E next \in PC : Goto(c, next)
      BY <1>22, <2>1 DEF Request
  <2>3. pc' \in [Call -> PC] /\ handle' \in [Proc -> Call \cup {NoCall}]
      BY <2>2, GotoType
  <2> QED BY <1>22, <2>3 DEF Request, TypeOK
<1>23. ASSUME NEW c \in Call, Bury(c) PROVE TypeOK'
  <2>1. {"end"} \subseteq PC
      BY DEF PC
  <2>2. \E next \in PC : Goto(c, next)
      BY <1>23, <2>1 DEF Bury
  <2>3. pc' \in [Call -> PC] /\ handle' \in [Proc -> Call \cup {NoCall}]
      BY <2>2, GotoType
  <2>4. {"cancelled"} \subseteq Status
      BY DEF Status
  <2>5. job' \in [Call -> Record]
      BY <1>23, <2>4, SetJobType DEF Bury, TypeOK
  <2> QED BY <1>23, <2>3, <2>5 DEF Bury, TypeOK
<1>24. ASSUME NEW c \in Call, Look(c) PROVE TypeOK'
  <2>1. {"summary"} \subseteq PC
      BY DEF PC
  <2>2. \E next \in PC : Goto(c, next)
      BY <1>24, <2>1 DEF Look
  <2>3. pc' \in [Call -> PC] /\ handle' \in [Proc -> Call \cup {NoCall}]
      BY <2>2, GotoType
  <2> QED BY <1>24, <2>3 DEF Look, TypeOK
<1>25. ASSUME NEW c \in Call, ReadSummary(c) PROVE TypeOK'
  <2>1. {"end", "fence", "poll"} \subseteq PC
      BY DEF PC
  <2>2. \E next \in PC : Goto(c, next)
      BY <1>25, <2>1 DEF ReadSummary
  <2>3. pc' \in [Call -> PC] /\ handle' \in [Proc -> Call \cup {NoCall}]
      BY <2>2, GotoType
  <2> QED BY <1>25, <2>3 DEF ReadSummary, TypeOK
<1>26. ASSUME NEW c \in Call, Poll(c) PROVE TypeOK'
  <2>1. {"look"} \subseteq PC
      BY DEF PC
  <2>2. \E next \in PC : Goto(c, next)
      BY <1>26, <2>1 DEF Poll
  <2>3. pc' \in [Call -> PC] /\ handle' \in [Proc -> Call \cup {NoCall}]
      BY <2>2, GotoType
  <2> QED BY <1>26, <2>3 DEF Poll, TypeOK
<1>27. ASSUME NEW c \in Call, Deadline(c) PROVE TypeOK'
  <2>1. {"end"} \subseteq PC
      BY DEF PC
  <2>2. \E next \in PC : Goto(c, next)
      BY <1>27, <2>1 DEF Deadline
  <2>3. pc' \in [Call -> PC] /\ handle' \in [Proc -> Call \cup {NoCall}]
      BY <2>2, GotoType
  <2> QED BY <1>27, <2>3 DEF Deadline, TypeOK
<1>28. ASSUME NEW c \in Call, ReadOwner(c) PROVE TypeOK'
  <2>1. {"fence", "end"} \subseteq PC
      BY DEF PC
  <2>2. \E next \in PC : Goto(c, next)
      BY <1>28, <2>1 DEF ReadOwner
  <2>3. pc' \in [Call -> PC] /\ handle' \in [Proc -> Call \cup {NoCall}]
      BY <2>2, GotoType
  <2> QED BY <1>28, <2>3 DEF ReadOwner, TypeOK
<1>29. ASSUME NEW c \in Call, Fence(c) PROVE TypeOK'
  <2>1. {"settle", "second"} \subseteq PC
      BY DEF PC
  <2>2. \E next \in PC : Goto(c, next)
      BY <1>29, <2>1 DEF Fence
  <2>3. pc' \in [Call -> PC] /\ handle' \in [Proc -> Call \cup {NoCall}]
      BY <2>2, GotoType
  <2> QED BY <1>29, <2>3, MineType DEF Fence, TypeOK
<1>30. ASSUME NEW c \in Call, SecondLook(c) PROVE TypeOK'
  <2>1. {"settle", "poll", "end"} \subseteq PC
      BY DEF PC
  <2>2. \E next \in PC : Goto(c, next)
      BY <1>30, <2>1 DEF SecondLook
  <2>3. pc' \in [Call -> PC] /\ handle' \in [Proc -> Call \cup {NoCall}]
      BY <2>2, GotoType
  <2> QED BY <1>30, <2>3 DEF SecondLook, TypeOK
<1>31. ASSUME NEW c \in Call, Settle(c) PROVE TypeOK'
  <2>1. {"settling", "end"} \subseteq PC
      BY DEF PC
  <2>2. \E next \in PC : Goto(c, next)
      BY <1>31, <2>1 DEF Settle
  <2>3. pc' \in [Call -> PC] /\ handle' \in [Proc -> Call \cup {NoCall}]
      BY <2>2, GotoType
  <2>4. {"cancelled", "failed"} \subseteq Status
      BY DEF Status
  <2>5. job' \in [Call -> Record]
      BY <1>31, <2>4, SetJobType DEF Settle, TypeOK
  <2> QED BY <1>31, <2>3, <2>5 DEF Settle, TypeOK
<1>32. ASSUME NEW c \in Call, WriteSettlement(c) PROVE TypeOK'
  <2>1. {"end"} \subseteq PC
      BY DEF PC
  <2>2. \E next \in PC : Goto(c, next)
      BY <1>32, <2>1 DEF WriteSettlement
  <2>3. pc' \in [Call -> PC] /\ handle' \in [Proc -> Call \cup {NoCall}]
      BY <2>2, GotoType
  <2> QED BY <1>32, <2>3 DEF WriteSettlement, TypeOK
<1>33. ASSUME NEW c \in Call, Apply(c) PROVE TypeOK'
    BY <1>33 DEF Apply, TypeOK
<1>34. ASSUME NEW c \in Call, Finish(c) PROVE TypeOK'
  <2>1. "final" \in PC /\ {"done", "failed", "needs_input"} \subseteq Status
      BY DEF PC, Status
  <2>2. job' \in [Call -> Record]
      BY <1>34, <2>1, SetJobType DEF Finish, Conclude
  <2> QED BY <1>34, <2>1, <2>2 DEF Finish, Conclude, TypeOK
<1>35. ASSUME NEW c \in Call, Raise(c) PROVE TypeOK'
  <2>1. "final" \in PC /\ {"failed"} \subseteq Status
      BY DEF PC, Status
  <2>2. job' \in [Call -> Record]
      BY <1>35, <2>1, SetJobType DEF Raise, Conclude
  <2> QED BY <1>35, <2>1, <2>2 DEF Raise, Conclude, TypeOK
<1>36. ASSUME NEW c \in Call, Tick(c) PROVE TypeOK'
  <2>1. {"final", "end"} \subseteq PC /\ "cancelled" \in Status
      BY DEF PC, Status
  <2>2. job' \in [Call -> Record]
      BY <1>36, <2>1, SetJobType DEF Tick, Conclude, TypeOK
  <2>3. handle' \in [Proc -> Call \cup {NoCall}]
      BY <1>36, ConstantsAssumption DEF Tick, Ends, TypeOK
  <2> QED BY <1>36, <2>1, <2>2, <2>3 DEF Tick, Conclude, TypeOK
<1>37. ASSUME NEW c \in Call, Renew(c) PROVE TypeOK'
    BY <1>37, MineType DEF Renew, TypeOK
<1> QED
    BY <1>1, <1>2, <1>3, <1>4, <1>5, <1>6, <1>7, <1>8, <1>9, <1>10, <1>11, <1>12, <1>13, <1>14, <1>15, <1>16, <1>17, <1>18, <1>19, <1>20, <1>21, <1>22, <1>23, <1>24, <1>25, <1>26, <1>27, <1>28, <1>29, <1>30, <1>31, <1>32, <1>33, <1>34, <1>35, <1>36, <1>37 DEF Next, Proceed

(* Every value stays within its type, for any number of processes, calls and *)
(* attempts.                                                                 *)
THEOREM TypeCorrect == Safety => []TypeOK
<1>1. Init => TypeOK
    BY InitType
<1>2. TypeOK /\ [Next]_vars => TypeOK'
    BY NextType
<1> QED
    BY <1>1, <1>2, PTL DEF Safety

----------------------------------------------------------------------------
(* One run, and any number of cancels and recoveries, in any processes.      *)
OnlyRun(r) == r \in Call /\ KindOf[r] = "run" /\ Drivers = {r}

RunPC == {"idle", "load", "lease", "control", "running", "refuse", "unlease", "drive",
          "final", "release", "end"}
CancelPC == {"idle", "join", "request", "bury", "look", "summary", "poll", "fence",
             "second", "settle", "settling", "end"}
RecoverPC == {"idle", "owner", "fence", "second", "settle", "settling", "end"}

Places(r) ==
    /\ pc[r] \in RunPC
    /\ \A c \in Cancels : pc[c] \in CancelPC
    /\ \A c \in Recovers : pc[c] \in RecoverPC

(* A heartbeat beats only inside the stream, where a cancellation is caught. *)
Watched ==
    \A c \in Call : /\ hb[c] # "off" => pc[c] = "drive"
                    /\ c \in killed => pc[c] # "drive"

(* From save_lease to release_lease there is some lease in the store, the    *)
(* run's or a fencer's ...                                                   *)
Leased(r) ==
    pc[r] \in {"control", "running", "refuse", "unlease", "drive", "final", "release"}
        => lease # NoLease

(* ... and a record says RUNNING only while there is one.                    *)
RunningIsLeased == rec.status = "running" => lease # NoLease

(* The record can say RUNNING once the run is in its stream, no longer once  *)
(* its ending is written and the lease is being given up.                    *)
RunningWhen(r) == rec.status = "running" => pc[r] \in {"drive", "final", "end"}

(* What is about to be written over the record is not RUNNING.               *)
EndingsEnd(r) ==
    /\ pc[r] \in {"refuse", "final"} => job[r].status # "running"
    /\ \A c \in Call : pc[c] = "settling" => job[c].status # "running"

(* A canceller waits for a remote stop only after it saw the run RUNNING.    *)
Begun(r) == pc[r] \in {"drive", "final", "release", "end"}
Follows(c) ==
    \/ pc[c] \in {"look", "summary", "poll", "fence", "second"}
    \/ pc[c] = "request" /\ job[c].status = "running"
CancelsFollow(r) ==
    \A c \in Cancels :
        Follows(c) => Begun(r)

(* A missing lease was given up: the run is over, and nothing says RUNNING.  *)
SeenNoneIsOver(r) ==
    \A c \in Cancels :
        pc[c] = "summary" /\ seen[c] = NoLease => pc[r] = "end" /\ rec.status # "running"

IInv(r) ==
    /\ TypeOK /\ Places(r) /\ Watched /\ Leased(r) /\ RunningIsLeased /\ RunningWhen(r)
    /\ EndingsEnd(r) /\ CancelsFollow(r) /\ SeenNoneIsOver(r)

LEMMA WhoIsWho ==
    ASSUME NEW r, OnlyRun(r), NEW c \in Call
    PROVE  /\ c \in Cancels <=> KindOf[c] = "cancel"
           /\ c \in Recovers <=> KindOf[c] = "recover"
           /\ c # r => c \in Cancels \/ c \in Recovers
           /\ KindOf[r] = "run" /\ r \in Call
    BY ConstantsAssumption DEF OnlyRun, Drivers, Cancels, Recovers, Kind

LEMMA Others ==
    ASSUME NEW r, OnlyRun(r)
    PROVE  r \in Call /\ KindOf[r] = "run" /\ \A c \in Cancels \cup Recovers : c \in Call /\ c # r
    BY DEF OnlyRun, Cancels, Recovers

(* A step of the run leaves what the other calls hold, and only goes forward. *)
LEMMA RunSteps ==
    ASSUME NEW r, OnlyRun(r), IInv(r), seen' = seen,
           pc[r] # "end", pc'[r] \in RunPC, Begun(r) => Begun(r)',
           \A d \in Call : d # r => pc'[d] = pc[d] /\ job'[d] = job[d]
    PROVE  /\ Places(r)' /\ CancelsFollow(r)' /\ SeenNoneIsOver(r)'
           /\ \A d \in Call \ {r} : pc'[d] = "settling" => job'[d].status # "running"
<1>1. Places(r)'
    BY Others DEF Places, IInv
<1>2. CancelsFollow(r)'
    BY Others DEF CancelsFollow, Follows, IInv
<1>3. \A d \in Call \ {r} : pc'[d] = "settling" => job'[d].status # "running"
    BY Others DEF EndingsEnd, IInv
<1>4. SeenNoneIsOver(r)'
    BY Others DEF SeenNoneIsOver, IInv
<1> QED BY <1>1, <1>2, <1>3, <1>4

LEMMA InitIInv ==
    ASSUME NEW r, OnlyRun(r), Init
    PROVE  IInv(r)
<1>1. TypeOK
    BY InitType
<1> QED
    BY <1>1, WhoIsWho, ConstantsAssumption DEF Init, IInv, OnlyRun, Cancels, Recovers, RunPC, CancelPC, RecoverPC, Unstarted,
        Places, Watched, Leased, RunningIsLeased, RunningWhen, EndingsEnd, CancelsFollow, Follows, SeenNoneIsOver, Begun

LEMMA NextIInv ==
    ASSUME NEW r, OnlyRun(r), IInv(r), [Next]_vars
    PROVE  IInv(r)'
<1>0. TypeOK'
    BY NextType DEF IInv
<1> USE DEF store
<1>1. CASE UNCHANGED vars
    BY <1>0, <1>1 DEF vars, IInv, Places, Watched, Leased, RunningIsLeased, RunningWhen, EndingsEnd, CancelsFollow, Follows, SeenNoneIsOver, Begun
<1>2. ASSUME NEW p \in Proc, Crash(p) PROVE IInv(r)'
    BY <1>0, <1>2 DEF Crash, IInv, Places, Watched, Leased, RunningIsLeased, RunningWhen, EndingsEnd, CancelsFollow, Follows, SeenNoneIsOver, Begun
<1>3. CASE Expire
  <2>1. lease' # NoLease
      BY <1>0, <1>3, ConstantsAssumption DEF Expire, Lease, TypeOK, IInv
  <2> QED BY <1>0, <1>3, <2>1 DEF Expire, TypeOK, IInv, Places, Watched, Leased, RunningIsLeased, RunningWhen, EndingsEnd, CancelsFollow, Follows, SeenNoneIsOver, Begun
<1>4. ASSUME NEW c \in Call, Create(c) PROVE IInv(r)'
    BY <1>0, <1>4, WhoIsWho, ConstantsAssumption DEF Create, At, Goto, Invoked, TypeOK, IInv, RunPC, CancelPC, RecoverPC,
        Places, Watched, Leased, RunningIsLeased, RunningWhen, EndingsEnd, CancelsFollow, Follows, SeenNoneIsOver, Begun
<1>5. ASSUME NEW c \in Call, LoadStopped(c) PROVE IInv(r)'
    BY <1>0, <1>5, WhoIsWho, ConstantsAssumption DEF LoadStopped, At, Goto, Invoked, Spawn, TypeOK, IInv, RunPC, CancelPC, RecoverPC,
        Places, Watched, Leased, RunningIsLeased, RunningWhen, EndingsEnd, CancelsFollow, Follows, SeenNoneIsOver, Begun
<1>6. ASSUME NEW c \in Call, CancelHere(c) PROVE IInv(r)'
  <2>1. c # r
      BY <1>6, WhoIsWho DEF CancelHere, At, Invoked, IInv, Places, RunPC
  <2> DEFINE t == handle[ProcOf[c]]
  <2>2. /\ t \in Call /\ c \in Cancels
        /\ pc[c] = "idle" /\ UNCHANGED <<rec, lease, seen>>
      BY <1>6, ConstantsAssumption, WhoIsWho DEF CancelHere, HasTask, Invoked, At, IInv, TypeOK, store
  <2>3. CASE pc[t] = "drive"
    <3>1. t = r
        BY <2>2, <2>3, WhoIsWho DEF IInv, Places, CancelPC, RecoverPC
    <3>2. /\ pc' = [pc EXCEPT ![c] = "join", ![r] = "final"]
          /\ hb' = [hb EXCEPT ![r] = "off"]
          /\ job' = [job EXCEPT ![r].status = "cancelled"]
          /\ killed' = killed
        BY <1>6, <2>3, <3>1 DEF CancelHere, SetJob
    <3>3. pc'[c] = "join" /\ pc'[r] = "final" /\ hb'[r] = "off" /\ job'[r].status # "running"
        BY <2>1, <3>2, WhoIsWho DEF IInv, TypeOK, Record
    <3>4. /\ \A d \in Call : d # r => job'[d] = job[d] /\ hb'[d] = hb[d]
          /\ \A d \in Call : d # r /\ d # c => pc'[d] = pc[d]
        BY <3>2, WhoIsWho DEF IInv, TypeOK
    <3>5. Places(r)'
      <4>1. pc'[r] \in RunPC
          BY <3>3 DEF RunPC
      <4>2. ASSUME NEW d \in Cancels PROVE pc'[d] \in CancelPC
          BY <3>3, <3>4, <4>2, Others DEF Places, CancelPC, IInv
      <4>3. ASSUME NEW d \in Recovers PROVE pc'[d] \in RecoverPC
          BY <2>2, <3>4, <4>3, WhoIsWho, Others DEF Places, IInv, Recovers
      <4> QED BY <4>1, <4>2, <4>3 DEF Places
    <3>6. Watched'
      <4> SUFFICES ASSUME NEW d \in Call
                   PROVE  /\ hb'[d] # "off" => pc'[d] = "drive"
                          /\ d \in killed' => pc'[d] # "drive"
          BY DEF Watched
      <4>1. CASE d = r
          BY <3>3, <4>1
      <4>2. CASE d = c
          BY <2>1, <2>2, <3>3, <3>4, <4>2 DEF IInv, Watched
      <4>3. CASE d # r /\ d # c
          BY <3>2, <3>4, <4>3 DEF IInv, Watched
      <4> QED BY <4>1, <4>2, <4>3
    <3>7. Leased(r)' /\ EndingsEnd(r)'
      <4>1. Leased(r)'
          BY <2>2, <2>3, <3>1 DEF IInv, Leased
      <4>2. ASSUME NEW d \in Call, pc'[d] = "settling" PROVE job'[d].status # "running"
          BY <3>3, <3>4, <4>2 DEF IInv, EndingsEnd
      <4> QED BY <3>3, <4>1, <4>2 DEF EndingsEnd
    <3>8. RunningIsLeased' /\ RunningWhen(r)'
        BY <2>2, <3>3 DEF IInv, RunningIsLeased, RunningWhen
    <3>9. CancelsFollow(r)'
        BY <3>3 DEF CancelsFollow, Begun
    <3>10. SeenNoneIsOver(r)'
      <4> SUFFICES ASSUME NEW d \in Cancels, pc'[d] = "summary", seen'[d] = NoLease
                   PROVE  FALSE
          BY DEF SeenNoneIsOver
      <4>1. d \in Call /\ d # r /\ d # c
          BY <3>3, Others
      <4>2. pc[d] = "summary" /\ seen[d] = NoLease
          BY <2>2, <3>4, <4>1
      <4> QED BY <2>3, <3>1, <4>2 DEF IInv, SeenNoneIsOver
    <3> QED
        BY <1>0, <3>5, <3>6, <3>7, <3>8, <3>9, <3>10 DEF IInv
  <2>4. CASE pc[t] # "drive"
    <3>1. /\ pc' = [pc EXCEPT ![c] = "join"] /\ killed' = killed \cup {t}
          /\ UNCHANGED <<job, hb>>
        BY <1>6, <2>4 DEF CancelHere
    <3>2. pc'[c] = "join" /\ \A d \in Call : d # c => pc'[d] = pc[d]
        BY <3>1 DEF IInv, TypeOK
    <3>3. Places(r)'
        BY <2>1, <2>2, <3>2, WhoIsWho DEF Places, CancelPC, IInv, Cancels, Recovers
    <3>4. Watched'
        BY <2>2, <2>4, <3>1, <3>2 DEF Watched, IInv
    <3> QED
        BY <1>0, <2>1, <2>2, <3>1, <3>2, <3>3, <3>4, WhoIsWho DEF IInv, Cancels, Begun,
            Leased, RunningIsLeased, RunningWhen, EndingsEnd, CancelsFollow, Follows, SeenNoneIsOver
  <2> QED BY <2>3, <2>4
<1>7. ASSUME NEW c \in Call, CancelElsewhere(c) PROVE IInv(r)'
    BY <1>0, <1>7, WhoIsWho, ConstantsAssumption DEF CancelElsewhere, At, Goto, Invoked, TypeOK, IInv, RunPC, CancelPC, RecoverPC,
        Places, Watched, Leased, RunningIsLeased, RunningWhen, EndingsEnd, CancelsFollow, Follows, SeenNoneIsOver, Begun
<1>8. ASSUME NEW c \in Call, ListRunning(c) PROVE IInv(r)'
    BY <1>0, <1>8, WhoIsWho, ConstantsAssumption DEF ListRunning, At, Goto, TypeOK, IInv, RunPC, CancelPC, RecoverPC,
        Places, Watched, Leased, RunningIsLeased, RunningWhen, EndingsEnd, CancelsFollow, Follows, SeenNoneIsOver, Begun
<1>9. ASSUME NEW c \in Call, LoadQueued(c) PROVE IInv(r)'
    BY <1>0, <1>9, WhoIsWho, ConstantsAssumption DEF LoadQueued, At, Goto, TypeOK, IInv, RunPC, CancelPC, RecoverPC,
        Places, Watched, Leased, RunningIsLeased, RunningWhen, EndingsEnd, CancelsFollow, Follows, SeenNoneIsOver, Begun
<1>10. ASSUME NEW c \in Call, AskFrontier(c) PROVE IInv(r)'
    BY <1>0, <1>10, WhoIsWho, ConstantsAssumption DEF AskFrontier, At, Goto, TypeOK, IInv, RunPC, CancelPC, RecoverPC,
        Places, Watched, Leased, RunningIsLeased, RunningWhen, EndingsEnd, CancelsFollow, Follows, SeenNoneIsOver, Begun
<1>11. ASSUME NEW c \in Call, ClearCancel(c) PROVE IInv(r)'
    BY <1>0, <1>11, WhoIsWho, ConstantsAssumption DEF ClearCancel, At, Goto, TypeOK, IInv, RunPC, CancelPC, RecoverPC,
        Places, Watched, Leased, RunningIsLeased, RunningWhen, EndingsEnd, CancelsFollow, Follows, SeenNoneIsOver, Begun
<1>12. ASSUME NEW c \in Call, SaveLease(c) PROVE IInv(r)'
  <2>1. c = r
      BY <1>12, WhoIsWho DEF SaveLease, At, IInv, Places, Watched, CancelPC, RecoverPC
  <2>2. lease' # NoLease
      BY <1>12, MineType, ConstantsAssumption DEF SaveLease
  <2>3. pc' = [pc EXCEPT ![r] = "control"] \/ pc' = [pc EXCEPT ![r] = "end"]
      BY <1>12, <2>1 DEF SaveLease, Goto
  <2>4. pc[r] = "lease" /\ UNCHANGED <<rec, job, seen, hb, killed>>
      BY <1>12, <2>1 DEF SaveLease, At
  <2>5. /\ Places(r)' /\ CancelsFollow(r)' /\ SeenNoneIsOver(r)'
        /\ \A d \in Call \ {r} : pc'[d] = "settling" => job'[d].status # "running"
      BY <2>2, <2>3, <2>4, RunSteps, Others DEF IInv, TypeOK, Begun, RunPC
  <2> QED
      BY <1>0, <2>2, <2>3, <2>4, <2>5, Others DEF TypeOK, IInv,
          Watched, Leased, RunningIsLeased, RunningWhen, EndingsEnd
<1>13. ASSUME NEW c \in Call, HearCancel(c) PROVE IInv(r)'
  <2>1. c = r
      BY <1>13, WhoIsWho DEF HearCancel, At, IInv, Places, Watched, CancelPC, RecoverPC
  <2>2. \/ pc' = [pc EXCEPT ![r] = "refuse"] /\ job' = [job EXCEPT ![r].status = "cancelled"]
        \/ pc' = [pc EXCEPT ![r] = "running"] /\ job' = [job EXCEPT ![r].status = "running"]
        \/ /\ pc' = [pc EXCEPT ![r] = "end"]
           /\ \E s \in Status : job' = [job EXCEPT ![r].status = s]
      BY <1>13, <2>1 DEF HearCancel, Goto, SetJob, Status
  <2>3. pc[r] = "control" /\ UNCHANGED <<rec, lease, seen, hb, killed>>
      BY <1>13, <2>1 DEF HearCancel, At
  <2>4. \A d \in Call : d # r => job'[d] = job[d] /\ pc'[d] = pc[d]
      BY <2>2, WhoIsWho DEF IInv, TypeOK
  <2>5. pc'[r] \in {"refuse", "running", "end"} /\ (pc'[r] = "refuse" => job'[r].status = "cancelled")
      BY <2>2, WhoIsWho DEF IInv, TypeOK, Record
  <2>6. /\ Places(r)' /\ CancelsFollow(r)' /\ SeenNoneIsOver(r)'
        /\ \A d \in Call \ {r} : pc'[d] = "settling" => job'[d].status # "running"
      BY <2>3, <2>4, <2>5, RunSteps, Others DEF IInv, TypeOK, Begun, RunPC
  <2> QED
      BY <1>0, <2>3, <2>4, <2>5, <2>6, Others DEF TypeOK, IInv,
          Watched, Leased, RunningIsLeased, RunningWhen, EndingsEnd
<1>14. ASSUME NEW c \in Call, Refuse(c) PROVE IInv(r)'
    BY <1>0, <1>14, WhoIsWho, ConstantsAssumption DEF Refuse, At, Goto, TypeOK, IInv, RunPC, CancelPC, RecoverPC,
        Places, Watched, Leased, RunningIsLeased, RunningWhen, EndingsEnd, CancelsFollow, Follows, SeenNoneIsOver, Begun
<1>15. ASSUME NEW c \in Call, Unlease(c) PROVE IInv(r)'
  <2>1. c = r
      BY <1>15, WhoIsWho DEF Unlease, At, IInv, Places, Watched, CancelPC, RecoverPC
  <2>2. pc' = [pc EXCEPT ![r] = "end"]
      BY <1>15, <2>1, WhoIsWho DEF Unlease, Goto
  <2>3. pc[r] = "unlease" /\ UNCHANGED <<rec, job, seen, hb, killed>>
      BY <1>15, <2>1 DEF Unlease, At
  <2>4. /\ Places(r)' /\ CancelsFollow(r)' /\ SeenNoneIsOver(r)'
        /\ \A d \in Call \ {r} : pc'[d] = "settling" => job'[d].status # "running"
      BY <2>2, <2>3, RunSteps, Others DEF IInv, TypeOK, Begun, RunPC
  <2> QED
      BY <1>0, <2>2, <2>3, <2>4, Others DEF TypeOK, IInv,
          Watched, Leased, RunningIsLeased, RunningWhen, EndingsEnd
<1>16. ASSUME NEW c \in Call, MarkRunning(c) PROVE IInv(r)'
  <2>1. c = r
      BY <1>16, WhoIsWho DEF MarkRunning, At, IInv, Places, Watched, CancelPC, RecoverPC
  <2>2. \/ pc' = [pc EXCEPT ![r] = "drive"] /\ r \notin killed
        \/ pc' = [pc EXCEPT ![r] = "end"] /\ hb' = [hb EXCEPT ![r] = "off"]
      BY <1>16, <2>1, WhoIsWho DEF MarkRunning, Goto
  <2>3. \A d \in Call : d # r => hb'[d] = hb[d] /\ pc'[d] = pc[d]
      BY <1>16, <2>1, <2>2, WhoIsWho DEF MarkRunning, IInv, TypeOK
  <2>4. pc[r] = "running" /\ UNCHANGED <<lease, job, seen, killed>>
      BY <1>16, <2>1 DEF MarkRunning, At
  <2>5. \/ pc'[r] = "drive" /\ r \notin killed
        \/ pc'[r] = "end" /\ hb'[r] = "off"
    <3>1. r \in DOMAIN pc /\ r \in DOMAIN hb
        BY Others DEF IInv, TypeOK
    <3> QED BY <2>2, <3>1
  <2>6. /\ Places(r)' /\ CancelsFollow(r)' /\ SeenNoneIsOver(r)'
        /\ \A d \in Call \ {r} : pc'[d] = "settling" => job'[d].status # "running"
      BY <2>3, <2>4, <2>5, RunSteps, Others DEF IInv, TypeOK, Begun, RunPC
  <2> QED
      BY <1>0, <2>3, <2>4, <2>5, <2>6, Others DEF TypeOK, IInv,
          Watched, Leased, RunningIsLeased, RunningWhen, EndingsEnd
<1>17. ASSUME NEW c \in Call, EnterDrive(c) PROVE IInv(r)'
    BY <1>0, <1>17, WhoIsWho, ConstantsAssumption DEF EnterDrive, At, Goto, TypeOK, IInv, RunPC, CancelPC, RecoverPC,
        Places, Watched, Leased, RunningIsLeased, RunningWhen, EndingsEnd, CancelsFollow, Follows, SeenNoneIsOver, Begun
<1>18. ASSUME NEW c \in Call, PersistEnding(c) PROVE IInv(r)'
    BY <1>0, <1>18, WhoIsWho, ConstantsAssumption DEF PersistEnding, At, Goto, TypeOK, IInv, RunPC, CancelPC, RecoverPC,
        Places, Watched, Leased, RunningIsLeased, RunningWhen, EndingsEnd, CancelsFollow, Follows, SeenNoneIsOver, Begun
<1>19. ASSUME NEW c \in Call, Release(c) PROVE IInv(r)'
    BY <1>0, <1>19, WhoIsWho, ConstantsAssumption DEF Release, At, Goto, TypeOK, IInv, RunPC, CancelPC, RecoverPC,
        Places, Watched, Leased, RunningIsLeased, RunningWhen, EndingsEnd, CancelsFollow, Follows, SeenNoneIsOver, Begun
<1>20. ASSUME NEW c \in Call, Escape(c) PROVE IInv(r)'
    BY <1>0, <1>20, WhoIsWho, ConstantsAssumption DEF Escape, At, Goto, TypeOK, IInv, RunPC, CancelPC, RecoverPC,
        Places, Watched, Leased, RunningIsLeased, RunningWhen, EndingsEnd, CancelsFollow, Follows, SeenNoneIsOver, Begun
<1>21. ASSUME NEW c \in Call, Join(c) PROVE IInv(r)'
    BY <1>0, <1>21, WhoIsWho, ConstantsAssumption DEF Join, At, Goto, TypeOK, IInv, RunPC, CancelPC, RecoverPC,
        Places, Watched, Leased, RunningIsLeased, RunningWhen, EndingsEnd, CancelsFollow, Follows, SeenNoneIsOver, Begun
<1>22. ASSUME NEW c \in Call, Request(c) PROVE IInv(r)'
    BY <1>0, <1>22, WhoIsWho, ConstantsAssumption DEF Request, At, Goto, TypeOK, IInv, RunPC, CancelPC, RecoverPC,
        Places, Watched, Leased, RunningIsLeased, RunningWhen, EndingsEnd, CancelsFollow, Follows, SeenNoneIsOver, Begun
<1>23. ASSUME NEW c \in Call, Bury(c) PROVE IInv(r)'
    BY <1>0, <1>23, WhoIsWho, ConstantsAssumption DEF Bury, At, Goto, SetJob, TypeOK, IInv, RunPC, CancelPC, RecoverPC,
        Places, Watched, Leased, RunningIsLeased, RunningWhen, EndingsEnd, CancelsFollow, Follows, SeenNoneIsOver, Begun
<1>24. ASSUME NEW c \in Call, Look(c) PROVE IInv(r)'
  <2>1. c # r
      BY <1>24, WhoIsWho DEF Look, At, Invoked, IInv, Places, RunPC
  <2>2. c \in Cancels /\ Begun(r)
    <3>1. pc[c] = "look"
        BY <1>24 DEF Look, At
    <3>2. c \in Cancels
        BY <2>1, <3>1, WhoIsWho DEF IInv, Places, RecoverPC
    <3> QED BY <3>1, <3>2 DEF IInv, CancelsFollow, Follows
  <2>3. pc[c] = "look" /\ UNCHANGED <<rec, lease, job, hb, killed>> /\ seen' = [seen EXCEPT ![c] = lease]
      BY <1>24 DEF Look, At, store
  <2>4. pc'[c] \in {"summary", "end"} /\ seen'[c] = lease
      BY <1>24, <2>3 DEF Look, Goto, IInv, TypeOK
  <2>5. \A d \in Call : d # c => pc'[d] = pc[d] /\ seen'[d] = seen[d]
      BY <1>24, <2>3 DEF Look, Goto, IInv, TypeOK
  <2>6. SeenNoneIsOver(r)'
    <3> SUFFICES ASSUME NEW d \in Cancels, pc'[d] = "summary", seen'[d] = NoLease
                 PROVE  pc'[r] = "end" /\ rec'.status # "running"
        BY DEF SeenNoneIsOver
    <3>1. CASE d = c
        BY <2>1, <2>2, <2>3, <2>4, <2>5, <3>1, WhoIsWho DEF Begun, Leased, RunningIsLeased, IInv
    <3>2. CASE d # c
        BY <2>1, <2>3, <2>5, <3>2, WhoIsWho DEF SeenNoneIsOver, IInv, Cancels
    <3> QED BY <3>1, <3>2
  <2>7. CancelsFollow(r)'
      BY <2>1, <2>2, <2>3, <2>5, WhoIsWho DEF CancelsFollow, Follows, Follows, Begun, IInv, Cancels
  <2>8. Places(r)'
      BY <2>1, <2>2, <2>4, <2>5, WhoIsWho DEF Places, CancelPC, IInv, Cancels, Recovers
  <2> QED
      BY <1>0, <2>1, <2>3, <2>4, <2>5, <2>6, <2>7, <2>8, WhoIsWho DEF IInv,
          Watched, Leased, RunningIsLeased, RunningWhen, EndingsEnd
<1>25. ASSUME NEW c \in Call, ReadSummary(c) PROVE IInv(r)'
    BY <1>0, <1>25, WhoIsWho, ConstantsAssumption DEF ReadSummary, At, Goto, TypeOK, IInv, RunPC, CancelPC, RecoverPC,
        Places, Watched, Leased, RunningIsLeased, RunningWhen, EndingsEnd, CancelsFollow, Follows, SeenNoneIsOver, Begun
<1>26. ASSUME NEW c \in Call, Poll(c) PROVE IInv(r)'
    BY <1>0, <1>26, WhoIsWho, ConstantsAssumption DEF Poll, At, Goto, TypeOK, IInv, RunPC, CancelPC, RecoverPC,
        Places, Watched, Leased, RunningIsLeased, RunningWhen, EndingsEnd, CancelsFollow, Follows, SeenNoneIsOver, Begun
<1>27. ASSUME NEW c \in Call, Deadline(c) PROVE IInv(r)'
    BY <1>0, <1>27, WhoIsWho, ConstantsAssumption DEF Deadline, At, Goto, TypeOK, IInv, RunPC, CancelPC, RecoverPC,
        Places, Watched, Leased, RunningIsLeased, RunningWhen, EndingsEnd, CancelsFollow, Follows, SeenNoneIsOver, Begun
<1>28. ASSUME NEW c \in Call, ReadOwner(c) PROVE IInv(r)'
    BY <1>0, <1>28, WhoIsWho, ConstantsAssumption DEF ReadOwner, At, Goto, TypeOK, IInv, RunPC, CancelPC, RecoverPC,
        Places, Watched, Leased, RunningIsLeased, RunningWhen, EndingsEnd, CancelsFollow, Follows, SeenNoneIsOver, Begun
<1>29. ASSUME NEW c \in Call, Fence(c) PROVE IInv(r)'
  <2>1. c # r
      BY <1>29, WhoIsWho DEF Fence, At, Invoked, IInv, Places, RunPC
  <2>2. lease' # NoLease
      BY <1>29, MineType, ConstantsAssumption DEF Fence
  <2>3. pc[c] = "fence" /\ UNCHANGED <<rec, job, seen, hb, killed>>
      BY <1>29 DEF Fence, At
  <2>4. pc'[c] \in {"settle", "second", "end"} /\ \A d \in Call : d # c => pc'[d] = pc[d]
      BY <1>29 DEF Fence, Goto, IInv, TypeOK
  <2>5. Places(r)'
      BY <2>1, <2>3, <2>4, WhoIsWho DEF Places, CancelPC, RecoverPC, IInv, Cancels, Recovers
  <2> QED
      BY <1>0, <2>1, <2>2, <2>3, <2>4, <2>5, WhoIsWho DEF IInv, Cancels, Begun,
          Watched, Leased, RunningIsLeased, RunningWhen, EndingsEnd, CancelsFollow, Follows, SeenNoneIsOver
<1>30. ASSUME NEW c \in Call, SecondLook(c) PROVE IInv(r)'
    BY <1>0, <1>30, WhoIsWho, ConstantsAssumption DEF SecondLook, At, Goto, TypeOK, IInv, RunPC, CancelPC, RecoverPC,
        Places, Watched, Leased, RunningIsLeased, RunningWhen, EndingsEnd, CancelsFollow, Follows, SeenNoneIsOver, Begun
<1>31. ASSUME NEW c \in Call, Settle(c) PROVE IInv(r)'
  <2>1. c # r
      BY <1>31, WhoIsWho DEF Settle, At, Invoked, IInv, Places, RunPC
  <2>2. pc[c] = "settle" /\ UNCHANGED <<rec, lease, seen, hb, killed>>
      BY <1>31 DEF Settle, At, store
  <2>3. pc'[c] \in {"settling", "end"} /\ \A d \in Call : d # c => pc'[d] = pc[d]
      BY <1>31 DEF Settle, Goto, IInv, TypeOK
  <2>4. /\ \A d \in Call : d # c => job'[d] = job[d]
        /\ pc'[c] = "settling" => job'[c].status # "running"
    <3>1. CASE rec.status \notin {"queued", "running"}
        BY <1>31, <3>1 DEF Settle, Goto, IInv, TypeOK
    <3>2. CASE rec.status \in {"queued", "running"}
        BY <1>31, <3>2 DEF Settle, SetJob, IInv, TypeOK, Record
    <3> QED BY <3>1, <3>2
  <2>5. Places(r)'
      BY <2>1, <2>2, <2>3, WhoIsWho DEF Places, CancelPC, RecoverPC, IInv, Cancels, Recovers
  <2> QED
      BY <1>0, <2>1, <2>2, <2>3, <2>4, <2>5, WhoIsWho DEF IInv, Cancels, Begun,
          Watched, Leased, RunningIsLeased, RunningWhen, EndingsEnd, CancelsFollow, Follows, SeenNoneIsOver
<1>32. ASSUME NEW c \in Call, WriteSettlement(c) PROVE IInv(r)'
    BY <1>0, <1>32, WhoIsWho, ConstantsAssumption DEF WriteSettlement, At, Goto, TypeOK, IInv, RunPC, CancelPC, RecoverPC,
        Places, Watched, Leased, RunningIsLeased, RunningWhen, EndingsEnd, CancelsFollow, Follows, SeenNoneIsOver, Begun
<1>33. ASSUME NEW c \in Call, Apply(c) PROVE IInv(r)'
    BY <1>0, <1>33, WhoIsWho, ConstantsAssumption DEF Apply, At, Goto, TypeOK, IInv, RunPC, CancelPC, RecoverPC,
        Places, Watched, Leased, RunningIsLeased, RunningWhen, EndingsEnd, CancelsFollow, Follows, SeenNoneIsOver, Begun
<1>34. ASSUME NEW c \in Call, Finish(c) PROVE IInv(r)'
  <2>1. c = r
      BY <1>34, WhoIsWho DEF Finish, At, IInv, Places, Watched, CancelPC, RecoverPC
  <2>2. pc[r] = "drive" /\ UNCHANGED <<rec, lease, seen, killed>>
      BY <1>34, <2>1 DEF Finish, At, IInv, Watched, store
  <2>3. pc' = [pc EXCEPT ![r] = "final"] /\ hb' = [hb EXCEPT ![r] = "off"]
      BY <1>34, <2>1 DEF Finish, Conclude
  <2>4. \E s \in {"done", "failed", "needs_input"} : job' = [job EXCEPT ![r].status = s]
      BY <1>34, <2>1 DEF Finish, Conclude, SetJob
  <2>5. pc'[r] = "final" /\ hb'[r] = "off" /\ job'[r].status # "running"
      BY <2>3, <2>4, WhoIsWho DEF IInv, TypeOK, Record
  <2>6. \A d \in Call : d # r => job'[d] = job[d] /\ pc'[d] = pc[d] /\ hb'[d] = hb[d]
      BY <2>3, <2>4, WhoIsWho DEF IInv, TypeOK
  <2>7. /\ Places(r)' /\ CancelsFollow(r)' /\ SeenNoneIsOver(r)'
        /\ \A d \in Call \ {r} : pc'[d] = "settling" => job'[d].status # "running"
      BY <2>2, <2>5, <2>6, RunSteps, Others DEF IInv, TypeOK, Begun, RunPC
  <2> QED
      BY <1>0, <2>2, <2>5, <2>6, <2>7, Others DEF TypeOK, IInv,
          Watched, Leased, RunningIsLeased, RunningWhen, EndingsEnd
<1>35. ASSUME NEW c \in Call, Raise(c) PROVE IInv(r)'
    BY <1>0, <1>35, WhoIsWho, ConstantsAssumption DEF Raise, At, Goto, Conclude, SetJob, TypeOK, IInv, RunPC, CancelPC, RecoverPC,
        Places, Watched, Leased, RunningIsLeased, RunningWhen, EndingsEnd, CancelsFollow, Follows, SeenNoneIsOver, Begun
<1>36. ASSUME NEW c \in Call, Tick(c) PROVE IInv(r)'
  <2>1. c = r
      BY <1>36, WhoIsWho DEF Tick, IInv, Places, Watched, CancelPC, RecoverPC
  <2>2. pc[r] = "drive" /\ UNCHANGED <<rec, lease, seen, killed>>
      BY <1>36, <2>1 DEF Tick, IInv, Watched
  <2>3. \/ pc' = [pc EXCEPT ![r] = "end"] /\ hb' = [hb EXCEPT ![r] = "off"] /\ job' = job
        \/ /\ pc' = [pc EXCEPT ![r] = "final"] /\ hb' = [hb EXCEPT ![r] = "off"]
           /\ job' = [job EXCEPT ![r].status = "cancelled"]
        \/ pc' = pc /\ hb' = [hb EXCEPT ![r] = "renew"] /\ job' = job
      BY <1>36, <2>1 DEF Tick, Conclude, SetJob
  <2>4. \/ pc'[r] = "end" /\ hb'[r] = "off"
        \/ pc'[r] = "final" /\ hb'[r] = "off" /\ job'[r].status # "running"
        \/ pc'[r] = "drive"
      BY <2>2, <2>3, WhoIsWho DEF IInv, TypeOK, Record
  <2>5. \A d \in Call : d # r => job'[d] = job[d] /\ pc'[d] = pc[d] /\ hb'[d] = hb[d]
      BY <2>3, WhoIsWho DEF IInv, TypeOK
  <2>6. /\ Places(r)' /\ CancelsFollow(r)' /\ SeenNoneIsOver(r)'
        /\ \A d \in Call \ {r} : pc'[d] = "settling" => job'[d].status # "running"
      BY <2>2, <2>4, <2>5, RunSteps, Others DEF IInv, TypeOK, Begun, RunPC
  <2> QED
      BY <1>0, <2>2, <2>4, <2>5, <2>6, Others DEF TypeOK, IInv,
          Watched, Leased, RunningIsLeased, RunningWhen, EndingsEnd
<1>37. ASSUME NEW c \in Call, Renew(c) PROVE IInv(r)'
  <2>1. lease' # NoLease
      BY <1>37, MineType, ConstantsAssumption DEF Renew
  <2> QED
      BY ZenonT(30), <1>0, <1>37, <2>1, WhoIsWho DEF Renew, At, Goto, TypeOK, IInv, RunPC, CancelPC, RecoverPC,
          Places, Watched, Leased, RunningIsLeased, RunningWhen, EndingsEnd, CancelsFollow, Follows, SeenNoneIsOver, Begun
<1> QED
    BY <1>1, <1>2, <1>3, <1>4, <1>5, <1>6, <1>7, <1>8, <1>9, <1>10, <1>11, <1>12, <1>13, <1>14, <1>15, <1>16, <1>17, <1>18, <1>19, <1>20, <1>21, <1>22, <1>23, <1>24, <1>25, <1>26, <1>27, <1>28, <1>29, <1>30, <1>31, <1>32, <1>33, <1>34, <1>35, <1>36, <1>37 DEF Next, Proceed

(* The rule _await_remote_stop rests on, whatever the processes do or suffer *)
(* (crashes, stalls, other cancels, recoveries), as long as one run is all   *)
(* that ever drives the job: a canceller that read no lease reads a record   *)
(* that is not RUNNING, and need not ask whose death that is.                *)
THEOREM NoLeaseIsFinal ==
    ASSUME NEW r, OnlyRun(r)
    PROVE  Safety => []NoLeaseMeansFinal
<1>1. Init => IInv(r)
    BY InitIInv
<1>2. IInv(r) /\ [Next]_vars => IInv(r)'
    BY NextIInv
<1>3. IInv(r) => NoLeaseMeansFinal
    BY DEF IInv, SeenNoneIsOver, NoLeaseMeansFinal
<1> QED
    BY <1>1, <1>2, <1>3, PTL DEF Safety

----------------------------------------------------------------------------
(* When no event loop stalls past the TTL, whoever takes the run's place     *)
(* found it gone; and when no cancel finds the job QUEUED, whoever answers   *)
(* for the run found it over.                                                *)
Gone(r) == Alive(r) => pc[r] = "end"
Over(r) == Alive(r) => pc[r] \in {"unlease", "release", "end"}
Stopped == Settled \cup {"needs_input"}

(* From save_lease to release_lease a run that is alive has a live lease of  *)
(* its own, and whoever else has one, or saw one, came after the run.        *)
KeepsItsLease(r) == Alive(r) /\ pc[r] \in Holding => lease = Mine(ProcOf[r], TRUE)
OthersComeAfter(r) ==
    /\ lease # NoLease => Gone(r) \/ pc[r] \in Holding
    /\ \A c \in Call : seen[c] # NoLease => Gone(r) \/ seen[c] = Mine(ProcOf[r], TRUE)

(* A takeover begins when the run is gone; a recovery that read RUNNING and  *)
(* finds no lease missed the release.                                        *)
TakersComeAfter(r) ==
    \A c \in Call : /\ pc[c] \in {"fence", "second", "settle", "settling"} => Gone(r)
                    /\ pc[c] = "owner" /\ lease = NoLease => Gone(r)

SaysRunning(r) == pc[r] \in {"running", "drive"} => job[r].status = "running"

(* An ending or a pause that the record shows, and one that a canceller      *)
(* writes or answers, comes after the run has persisted its own.             *)
EndingsComeAfter(r) ==
    ~MayCancelQueued =>
        /\ rec.status \in Stopped => Over(r)
        /\ \A c \in Cancels : /\ pc[c] = "request" => job[c].status = "running"
                              /\ pc[c] = "bury" => Over(r)
                              /\ pc[c] \in {"poll", "end"} /\ job[c].status = "cancelled" => Over(r)

(* Only the run's task is ever cancelled. *)
Handled(r) ==
    /\ killed \subseteq {r}
    /\ \A p \in Proc : handle[p] \in {r, NoCall}

Steady(r) ==
    /\ Handled(r) /\ KeepsItsLease(r) /\ OthersComeAfter(r) /\ TakersComeAfter(r)
    /\ SaysRunning(r) /\ EndingsComeAfter(r)

----------------------------------------------------------------------------
(* With no recovery in play, what the record says at each step of the run.   *)
OneAttempt(r) ==
    /\ rec.attempt = IF rec.status = "none" THEN 0 ELSE 1
    /\ pc[r] \in {"lease", "control", "running", "refuse", "drive", "final"} => job[r].attempt = 1
    /\ \A c \in Cancels : pc[c] \notin {"idle", "join", "end"} => job[c].attempt = 1

RecordFollows(r) ==
    /\ pc[r] = "idle" => rec.status = "none"
    /\ pc[r] \in {"load", "lease", "control", "running", "refuse"} => rec.status = "queued"
    /\ Alive(r) /\ pc[r] \in {"drive", "final"} => rec.status = "running"
    /\ pc[r] = "refuse" => job[r].status = "cancelled"
    /\ pc[r] = "final" => job[r].status \in Stopped

CancelsAgree ==
    \A c \in Cancels : /\ pc[c] \notin {"idle", "join", "end"} => rec.status \notin {"none", "queued"}
                       /\ pc[c] = "bury" => rec.status \in {"needs_input", "cancelled"}
                       /\ pc[c] = "settling" => /\ rec.status \in {"running", "cancelled"}
                                                /\ job[c].status = "cancelled"

Promised(r) == OneAttempt(r) /\ RecordFollows(r) /\ CancelsAgree

----------------------------------------------------------------------------
LEMMA GotoMoves ==
    ASSUME TypeOK, NEW c \in Call, NEW next, Goto(c, next)
    PROVE  /\ pc'[c] \in {next, "end"} /\ (c \notin killed => pc'[c] = next)
           /\ \A d \in Call : d # c => pc'[d] = pc[d]
    BY DEF Goto, TypeOK

LEMMA GotoHandles ==
    ASSUME TypeOK, NEW r, Handled(r), NEW c \in Call, NEW next, Goto(c, next)
    PROVE  \A p \in Proc : handle'[p] \in {r, NoCall}
<1>1. handle' = handle \/ handle' = [handle EXCEPT ![ProcOf[c]] = NoCall]
    BY DEF Goto, Ends
<1> QED BY <1>1 DEF Handled, TypeOK

LEMMA NextHandled ==
    ASSUME NEW r, OnlyRun(r), IInv(r), Handled(r), [Next]_vars
    PROVE  Handled(r)'
<1> USE DEF store
<1>1. TypeOK /\ Places(r)
    BY DEF IInv
<1>2. CASE UNCHANGED vars \/ Expire \/ \E p \in Proc : Crash(p)
    BY <1>2 DEF vars, Expire, Crash, Handled
<1>3. ASSUME NEW c \in Call, Create(c) PROVE Handled(r)'
  <2>1. c = r /\ ProcOf[c] \in Proc
      BY <1>3, ConstantsAssumption, WhoIsWho DEF Create, OnlyRun, Drivers
  <2> QED BY <1>1, <1>3, <2>1 DEF Create, Handled, TypeOK
<1>4. ASSUME NEW c \in Call, CancelHere(c) PROVE Handled(r)'
  <2>1. handle[ProcOf[c]] = r
      BY <1>4, ConstantsAssumption DEF CancelHere, HasTask, Handled
  <2> QED BY <1>4, <2>1 DEF CancelHere, Handled
<1>5. ASSUME NEW c \in Call, Apply(c) \/ Finish(c) \/ Raise(c) \/ Renew(c) \/ EnterDrive(c) PROVE Handled(r)'
    BY <1>5 DEF Apply, Finish, Raise, Renew, EnterDrive, Handled
<1>6. ASSUME NEW c \in Call, Escape(c) \/ Tick(c) PROVE Handled(r)'
  <2>1. handle' = handle \/ handle' = [handle EXCEPT ![ProcOf[c]] = NoCall]
      BY <1>6 DEF Escape, Tick, Ends
  <2> QED BY <1>1, <1>6, <2>1 DEF Escape, Tick, Handled, TypeOK
<1>7. ASSUME NEW c \in Call, Unlease(c) \/ MarkRunning(c) PROVE Handled(r)'
  <2>1. c = r
      BY <1>1, <1>7, WhoIsWho DEF Unlease, MarkRunning, At, Places, CancelPC, RecoverPC
  <2>2. KindOf[c] = "run" /\ killed' = killed
      BY <1>7, <2>1, Others DEF Unlease, MarkRunning
  <2>3. \E next : Goto(c, next)
      BY <1>7, <2>2 DEF Unlease, MarkRunning
  <2> QED BY <1>1, <2>2, <2>3, GotoHandles DEF Handled
<1>8. ASSUME NEW c \in Call, killed' = killed, NEW next, Goto(c, next) PROVE Handled(r)'
    BY <1>1, <1>8, GotoHandles DEF Handled
<1>9. ASSUME NEW c \in Call, LoadStopped(c) \/ CancelElsewhere(c) \/ ListRunning(c) \/ LoadQueued(c) \/ AskFrontier(c) PROVE Handled(r)'
    BY <1>8, <1>9 DEF LoadStopped, CancelElsewhere, ListRunning, LoadQueued, AskFrontier
<1>10. ASSUME NEW c \in Call, ClearCancel(c) \/ SaveLease(c) \/ HearCancel(c) \/ Refuse(c) \/ PersistEnding(c) \/ Release(c) PROVE Handled(r)'
    BY <1>8, <1>10 DEF ClearCancel, SaveLease, HearCancel, Refuse, PersistEnding, Release
<1>11. ASSUME NEW c \in Call, Join(c) \/ Request(c) \/ Bury(c) \/ Look(c) \/ ReadSummary(c) \/ Poll(c) \/ Deadline(c) PROVE Handled(r)'
    BY <1>8, <1>11 DEF Join, Request, Bury, Look, ReadSummary, Poll, Deadline
<1>12. ASSUME NEW c \in Call, ReadOwner(c) \/ Fence(c) \/ SecondLook(c) \/ Settle(c) \/ WriteSettlement(c) PROVE Handled(r)'
    BY <1>8, <1>12 DEF ReadOwner, Fence, SecondLook, Settle, WriteSettlement
<1> QED BY <1>2, <1>3, <1>4, <1>5, <1>6, <1>7, <1>9, <1>10, <1>11, <1>12 DEF Next, Proceed

(* A step of the run: nobody has taken its place yet. *)
LEMMA RunStaysSteady ==
    ASSUME NEW r, OnlyRun(r), IInv(r), Steady(r), Handled(r)', up' = up, seen' = seen,
           Alive(r), pc[r] # "end", pc'[r] \in RunPC, Over(r) => Over(r)',
           \A d \in Call : d # r => pc'[d] = pc[d] /\ job'[d] = job[d],
           KeepsItsLease(r)', SaysRunning(r)',
           lease' # NoLease => pc'[r] \in Holding \cup {"end"},
           lease' = NoLease => lease = NoLease \/ pc'[r] = "end",
           rec'.status \in Stopped => rec.status \in Stopped \/ Over(r)'
    PROVE  Steady(r)'
<1>1. Alive(r)' /\ ~Gone(r)
    BY DEF Alive, Gone
<1>2. OthersComeAfter(r)'
  <2>1. lease' # NoLease => (Gone(r) \/ pc[r] \in Holding)'
      BY DEF Gone
  <2>2. ASSUME NEW c \in Call, seen'[c] # NoLease PROVE Gone(r)' \/ seen'[c] = Mine(ProcOf[r], TRUE)
      BY <1>1, <2>2 DEF Steady, OthersComeAfter
  <2> QED BY <2>1, <2>2 DEF OthersComeAfter
<1>3. TakersComeAfter(r)'
  <2> SUFFICES ASSUME NEW c \in Call
               PROVE  /\ pc'[c] \in {"fence", "second", "settle", "settling"} => Gone(r)'
                      /\ pc'[c] = "owner" /\ lease' = NoLease => Gone(r)'
      BY DEF TakersComeAfter
  <2>1. CASE c = r
      BY <2>1 DEF RunPC
  <2>2. CASE c # r
      BY <1>1, <2>2 DEF Steady, TakersComeAfter, Gone
  <2> QED BY <2>1, <2>2
<1>4. EndingsComeAfter(r)'
    BY Others DEF Steady, EndingsComeAfter
<1> QED BY <1>2, <1>3, <1>4 DEF Steady

(* A step of another call: the run stands where it stood. *)
LEMMA OthersStaySteady ==
    ASSUME NEW r, OnlyRun(r), IInv(r), Steady(r), Handled(r)', up' = up,
           NEW c \in Call, c # r,
           \A d \in Call : d # c => pc'[d] = pc[d] /\ job'[d] = job[d] /\ seen'[d] = seen[d],
           lease' = lease \/ (Gone(r) /\ lease' # NoLease),
           ~MayCancelQueued /\ rec'.status \in Stopped => rec.status \in Stopped \/ Over(r),
           seen'[c] = seen[c] \/ seen'[c] = lease,
           pc'[c] \in {"fence", "second", "settle", "settling"} => Gone(r),
           pc'[c] = "owner" => lease # NoLease \/ Gone(r),
           c \in Cancels /\ ~MayCancelQueued => /\ pc'[c] = "request" => job'[c].status = "running"
                                                /\ pc'[c] = "bury" => Over(r)
                                                /\ pc'[c] \in {"poll", "end"} /\ job'[c].status = "cancelled" => Over(r)
    PROVE  Steady(r)'
<1>1. r \in Call /\ pc'[r] = pc[r] /\ job'[r] = job[r]
    BY Others
<1>2. /\ Gone(r) => Gone(r)'
      /\ Over(r) => Over(r)'
    BY <1>1 DEF Gone, Over, Alive
<1>3. KeepsItsLease(r)' /\ SaysRunning(r)'
  <2>1. SaysRunning(r)'
      BY <1>1 DEF Steady, SaysRunning
  <2>2. KeepsItsLease(r)'
      BY <1>1 DEF Steady, KeepsItsLease, Gone, Alive, Holding
  <2> QED BY <2>1, <2>2
<1>4. lease' # NoLease => (Gone(r) \/ pc[r] \in Holding)'
    BY <1>1, <1>2 DEF Steady, OthersComeAfter
<1>5. ASSUME NEW d \in Call, seen'[d] # NoLease
      PROVE  Gone(r)' \/ seen'[d] = Mine(ProcOf[r], TRUE)
  <2>1. CASE seen'[d] = seen[d]
      BY <1>2, <1>5, <2>1 DEF Steady, OthersComeAfter
  <2>2. CASE seen'[d] = lease
    <3>1. Gone(r) \/ (Alive(r) /\ pc[r] \in Holding)
        BY <1>5, <2>2 DEF Steady, OthersComeAfter, Gone
    <3> QED BY <1>2, <2>2, <3>1 DEF Steady, KeepsItsLease
  <2> QED BY <2>1, <2>2
<1>6. ASSUME NEW d \in Call
      PROVE  /\ pc'[d] \in {"fence", "second", "settle", "settling"} => Gone(r)'
             /\ pc'[d] = "owner" /\ lease' = NoLease => Gone(r)'
  <2>1. CASE d = c
      BY <1>2, <2>1
  <2>2. CASE d # c
      BY <1>2, <2>2 DEF Steady, TakersComeAfter
  <2> QED BY <2>1, <2>2
<1>7. ~MayCancelQueued /\ rec'.status \in Stopped => Over(r)'
    BY <1>2 DEF Steady, EndingsComeAfter
<1>8. ASSUME ~MayCancelQueued, NEW d \in Cancels
      PROVE  /\ pc'[d] = "request" => job'[d].status = "running"
             /\ pc'[d] = "bury" => Over(r)'
             /\ pc'[d] \in {"poll", "end"} /\ job'[d].status = "cancelled" => Over(r)'
  <2>1. CASE d = c
      BY <1>2, <1>8, <2>1
  <2>2. CASE d # c
      BY <1>2, <1>8, <2>2, Others DEF Steady, EndingsComeAfter
  <2> QED BY <2>1, <2>2
<1>9. OthersComeAfter(r)'
    BY <1>4, <1>5 DEF OthersComeAfter
<1>10. TakersComeAfter(r)'
    BY <1>6 DEF TakersComeAfter
<1>11. EndingsComeAfter(r)'
    BY <1>7, <1>8 DEF EndingsComeAfter
<1> QED BY <1>3, <1>9, <1>10, <1>11 DEF Steady

LEMMA WhoMoves ==
    ASSUME NEW r, OnlyRun(r), IInv(r), NEW c \in Call
    PROVE  /\ pc[c] \in {"load", "lease", "control", "running", "refuse", "unlease", "drive", "final", "release"} => c = r
           /\ pc[c] \notin {"frontier", "clear", "spawn"}
           /\ KindOf[c] # "run" => c # r
    BY WhoIsWho DEF IInv, Places, RunPC, CancelPC, RecoverPC

(* No stall lets the lease of a run that keeps it expire. *)
LEMMA ExpireSteady ==
    ASSUME NEW r, OnlyRun(r), IInv(r), Steady(r), Handled(r)', ~MayStall, Expire
    PROVE  Steady(r)'
<1>1. /\ lease # NoLease /\ lease \in Lease /\ lease' # NoLease
      /\ ~Renewing(lease.owner)
      /\ UNCHANGED <<rec, up, pc, job, seen>>
  <2>1. lease' = [lease EXCEPT !.live = FALSE] /\ lease \in Lease
      BY DEF Expire, IInv, TypeOK
  <2>2. lease' \in Lease
      BY <2>1 DEF Lease
  <2> QED BY <2>1, <2>2, ConstantsAssumption DEF Expire
<1>2. ~(Alive(r) /\ pc[r] \in Holding)
    BY <1>1, Others DEF Steady, KeepsItsLease, Renewing, Alive, Mine
<1>3. Gone(r)
    BY <1>1, <1>2 DEF Steady, OthersComeAfter, Gone
<1>4. Gone(r)' /\ ~(Alive(r) /\ pc[r] \in Holding)'
    BY <1>1, <1>2, <1>3 DEF Gone, Alive
<1>5. SaysRunning(r)' /\ EndingsComeAfter(r)'
    BY <1>1 DEF Steady, SaysRunning, EndingsComeAfter, Over, Alive
<1> QED BY <1>4, <1>5 DEF Steady, KeepsItsLease, OthersComeAfter, TakersComeAfter

LEMMA CrashSteady ==
    ASSUME NEW r, OnlyRun(r), Steady(r), Handled(r)', NEW p \in Proc, Crash(p)
    PROVE  Steady(r)'
<1>1. Alive(r)' => Alive(r)
    BY DEF Crash, Alive
<1>2. UNCHANGED <<rec, lease, pc, job, seen>>
    BY DEF Crash, store
<1>3. /\ Gone(r) => Gone(r)'
      /\ Over(r) => Over(r)'
    BY <1>1, <1>2 DEF Gone, Over
<1>4. KeepsItsLease(r)' /\ SaysRunning(r)' /\ EndingsComeAfter(r)'
    BY <1>1, <1>2, <1>3 DEF Steady, KeepsItsLease, SaysRunning, EndingsComeAfter
<1>5. OthersComeAfter(r)' /\ TakersComeAfter(r)'
    BY <1>2, <1>3 DEF Steady, OthersComeAfter, TakersComeAfter
<1> QED BY <1>4, <1>5 DEF Steady

(* A cancel in the run's own process, which finds it in its stream or not.   *)
LEMMA CancelHereSteady ==
    ASSUME NEW r, OnlyRun(r), IInv(r), Steady(r), Handled(r)', NEW c \in Call, CancelHere(c)
    PROVE  Steady(r)'
<1> USE DEF store
<1>1. TypeOK /\ handle[ProcOf[c]] = r /\ c # r
    BY ConstantsAssumption, WhoMoves DEF CancelHere, HasTask, Handled, Steady, IInv
<1>2. UNCHANGED <<rec, lease, up, seen>>
    BY DEF CancelHere
<1>3. CASE pc[r] = "drive"
  <2>1. /\ pc' = [pc EXCEPT ![c] = "join", ![r] = "final"]
        /\ job' = [job EXCEPT ![r].status = "cancelled"]
      BY <1>1, <1>3 DEF CancelHere, SetJob
  <2>2. /\ pc'[c] = "join" /\ pc'[r] = "final"
        /\ \A d \in Call \ {c, r} : pc'[d] = pc[d]
        /\ \A d \in Call \ {r} : job'[d] = job[d]
      BY <1>1, <2>1, Others DEF TypeOK
  <2>3. /\ Gone(r) => Gone(r)'
        /\ Over(r) => Over(r)'
      BY <1>2, <1>3 DEF Gone, Over, Alive
  <2>4. KeepsItsLease(r)' /\ SaysRunning(r)'
      BY <1>2, <1>3, <2>2 DEF Steady, KeepsItsLease, SaysRunning, Alive, Holding
  <2>5. OthersComeAfter(r)'
      BY <1>2, <2>2, <2>3 DEF Steady, OthersComeAfter, Holding
  <2>6. TakersComeAfter(r)'
      BY <1>2, <2>2, <2>3 DEF Steady, TakersComeAfter
  <2>7. EndingsComeAfter(r)'
      BY <1>2, <2>2, <2>3, Others DEF Steady, EndingsComeAfter
  <2> QED BY <2>4, <2>5, <2>6, <2>7 DEF Steady
<1>4. CASE pc[r] # "drive"
  <2>1. pc' = [pc EXCEPT ![c] = "join"] /\ job' = job
      BY <1>1, <1>4 DEF CancelHere
  <2>2. pc'[c] = "join" /\ \A d \in Call : d # c => pc'[d] = pc[d]
      BY <1>1, <2>1 DEF TypeOK
  <2> QED BY <1>1, <1>2, <2>1, <2>2, OthersStaySteady
<1> QED BY <1>3, <1>4

(* The steps of the run. *)
LEMMA RunSteady ==
    ASSUME NEW r, OnlyRun(r), IInv(r), Steady(r), Handled(r)',
           \/ Create(r) \/ LoadQueued(r) \/ SaveLease(r) \/ HearCancel(r) \/ Refuse(r) \/ Unlease(r)
           \/ MarkRunning(r) \/ PersistEnding(r) \/ Release(r) \/ Escape(r)
           \/ Apply(r) \/ Finish(r) \/ Raise(r) \/ Tick(r) \/ Renew(r)
    PROVE  Steady(r)'
<1> USE DEF store
<1>0. /\ TypeOK /\ KindOf[r] = "run" /\ r \in Call
      /\ KeepsItsLease(r) /\ SaysRunning(r) /\ OthersComeAfter(r)
      /\ Mine(ProcOf[r], TRUE) # NoLease
    BY Others, MineType, ConstantsAssumption DEF IInv, Steady
<1>1. CASE Create(r)
  <2>1. pc[r] = "idle" /\ pc'[r] = "load" /\ \A d \in Call : d # r => pc'[d] = pc[d]
      BY <1>0, <1>1 DEF Create, Invoked, At, TypeOK
  <2>2. rec'.status = "queued" /\ Alive(r) /\ UNCHANGED <<up, seen, job, lease>>
      BY <1>1 DEF Create, Invoked, At
  <2>3. KeepsItsLease(r)' /\ SaysRunning(r)' /\ (Over(r) => Over(r)')
      BY <2>1, <2>2 DEF KeepsItsLease, SaysRunning, Holding, Over
  <2>4. lease' = NoLease
      BY <1>0, <2>1, <2>2 DEF OthersComeAfter, Gone, Holding
  <2>5. pc'[r] \in RunPC /\ rec'.status \notin Stopped
      BY <2>1, <2>2 DEF RunPC, Stopped, Settled
  <2> QED BY <2>1, <2>2, <2>3, <2>4, <2>5, RunStaysSteady
<1>2. CASE LoadQueued(r)
  <2>1. pc[r] = "load" /\ pc'[r] \in {"lease", "end"} /\ \A d \in Call : d # r => pc'[d] = pc[d]
      BY <1>0, <1>2, GotoMoves DEF LoadQueued, At
  <2>2. Alive(r) /\ UNCHANGED <<rec, up, seen, lease>> /\ \A d \in Call : d # r => job'[d] = job[d]
      BY <1>0, <1>2 DEF LoadQueued, At, TypeOK
  <2>3. KeepsItsLease(r)' /\ SaysRunning(r)' /\ (Over(r) => Over(r)')
      BY <2>1, <2>2 DEF KeepsItsLease, SaysRunning, Holding, Over
  <2>4. lease' = NoLease
      BY <1>0, <2>1, <2>2 DEF OthersComeAfter, Gone, Holding
  <2>5. pc'[r] \in RunPC
      BY <2>1 DEF RunPC
  <2> QED BY <2>1, <2>2, <2>3, <2>4, <2>5, RunStaysSteady
<1>3. CASE SaveLease(r)
  <2>1. pc[r] = "lease" /\ pc'[r] \in {"control", "end"} /\ \A d \in Call : d # r => pc'[d] = pc[d]
      BY <1>0, <1>3, GotoMoves DEF SaveLease, At
  <2>2. Alive(r) /\ UNCHANGED <<rec, up, seen, job>> /\ lease' = Mine(ProcOf[r], TRUE)
      BY <1>3 DEF SaveLease, At
  <2>3. KeepsItsLease(r)' /\ SaysRunning(r)' /\ (Over(r) => Over(r)')
      BY <2>1, <2>2 DEF KeepsItsLease, SaysRunning, Over
  <2>4. pc'[r] \in RunPC /\ pc'[r] \in Holding \cup {"end"}
      BY <2>1 DEF RunPC, Holding
  <2> QED BY <1>0, <2>1, <2>2, <2>3, <2>4, RunStaysSteady
<1>4. CASE HearCancel(r)
  <2>1. pc[r] = "control" /\ pc'[r] \in {"refuse", "running", "end"} /\ \A d \in Call : d # r => pc'[d] = pc[d]
      BY <1>0, <1>4, GotoMoves DEF HearCancel, At
  <2>2. Alive(r) /\ UNCHANGED <<rec, up, seen, lease>> /\ \A d \in Call : d # r => job'[d] = job[d]
      BY <1>0, <1>4 DEF HearCancel, At, SetJob, TypeOK
  <2>3. pc'[r] = "running" => job'[r].status = "running"
    <3>1. cancelReq => pc'[r] \in {"refuse", "end"}
        BY <1>0, <1>4, GotoMoves DEF HearCancel
    <3>2. ~cancelReq => job' = [job EXCEPT ![r].status = "running"]
        BY <1>4 DEF HearCancel, SetJob
    <3> QED BY <1>0, <3>1, <3>2 DEF TypeOK, Record
  <2>4. lease = Mine(ProcOf[r], TRUE)
      BY <1>0, <2>1, <2>2 DEF KeepsItsLease, Holding
  <2>5. KeepsItsLease(r)' /\ SaysRunning(r)' /\ (Over(r) => Over(r)')
      BY <2>1, <2>2, <2>3, <2>4 DEF KeepsItsLease, SaysRunning, Over
  <2>6. pc'[r] \in RunPC /\ pc'[r] \in Holding \cup {"end"}
      BY <2>1 DEF RunPC, Holding
  <2> QED BY <2>1, <2>2, <2>5, <2>6, RunStaysSteady
<1>5. CASE Refuse(r) \/ PersistEnding(r)
  <2>1. /\ pc[r] \in {"refuse", "final"} /\ pc'[r] \in {"unlease", "release", "end"}
        /\ \A d \in Call : d # r => pc'[d] = pc[d]
      BY <1>0, <1>5, GotoMoves DEF Refuse, PersistEnding, At
  <2>2. Alive(r) /\ UNCHANGED <<up, seen, lease, job>>
      BY <1>5 DEF Refuse, PersistEnding, At
  <2>3. lease = Mine(ProcOf[r], TRUE)
      BY <1>0, <2>1, <2>2 DEF KeepsItsLease, Holding
  <2>4. KeepsItsLease(r)' /\ SaysRunning(r)' /\ Over(r)'
      BY <2>1, <2>2, <2>3 DEF KeepsItsLease, SaysRunning, Over
  <2>5. pc'[r] \in RunPC /\ pc'[r] \in Holding \cup {"end"}
      BY <2>1 DEF RunPC, Holding
  <2> QED BY <2>1, <2>2, <2>4, <2>5, RunStaysSteady
<1>6. CASE Unlease(r) \/ Release(r)
  <2>1. pc[r] \in {"unlease", "release"} /\ pc'[r] = "end" /\ \A d \in Call : d # r => pc'[d] = pc[d]
      BY <1>0, <1>6, GotoMoves DEF Unlease, Release, At
  <2>2. Alive(r) /\ UNCHANGED <<rec, up, seen, job>> /\ lease' = NoLease
      BY <1>6 DEF Unlease, Release, At
  <2>3. KeepsItsLease(r)' /\ SaysRunning(r)' /\ Over(r)'
      BY <2>1 DEF KeepsItsLease, SaysRunning, Over, Holding
  <2>4. pc'[r] \in RunPC
      BY <2>1 DEF RunPC
  <2> QED BY <2>1, <2>2, <2>3, <2>4, RunStaysSteady
<1>7. CASE MarkRunning(r)
  <2>1. pc[r] = "running" /\ pc'[r] \in {"drive", "end"} /\ \A d \in Call : d # r => pc'[d] = pc[d]
      BY <1>0, <1>7, GotoMoves DEF MarkRunning, At
  <2>2. Alive(r) /\ UNCHANGED <<up, seen, lease, job>> /\ rec' = job[r]
      BY <1>7 DEF MarkRunning, At
  <2>3. lease = Mine(ProcOf[r], TRUE) /\ job[r].status = "running"
      BY <1>0, <2>1, <2>2 DEF KeepsItsLease, SaysRunning, Holding
  <2>4. KeepsItsLease(r)' /\ SaysRunning(r)' /\ (Over(r) => Over(r)')
      BY <2>1, <2>2, <2>3 DEF KeepsItsLease, SaysRunning, Over
  <2>5. pc'[r] \in RunPC /\ pc'[r] \in Holding \cup {"end"} /\ rec'.status \notin Stopped
      BY <2>1, <2>2, <2>3 DEF RunPC, Holding, Stopped, Settled
  <2> QED BY <2>1, <2>2, <2>4, <2>5, RunStaysSteady
<1>8. CASE Escape(r)
  <2>1. pc[r] # "end" /\ pc'[r] = "end" /\ \A d \in Call : d # r => pc'[d] = pc[d]
      BY <1>0, <1>8 DEF Escape, TypeOK
  <2>2. Alive(r) /\ UNCHANGED <<rec, up, seen, job, lease>>
      BY <1>8 DEF Escape
  <2>3. KeepsItsLease(r)' /\ SaysRunning(r)' /\ Over(r)' /\ pc'[r] \in RunPC
      BY <2>1 DEF KeepsItsLease, SaysRunning, Over, Holding, RunPC
  <2> QED BY <2>1, <2>2, <2>3, RunStaysSteady
<1>9. CASE Apply(r)
  <2>1. pc[r] = "drive" /\ Alive(r) /\ UNCHANGED <<lease, up, seen, job, pc>> /\ rec' = job[r]
      BY <1>9 DEF Apply, At
  <2>2. KeepsItsLease(r)' /\ SaysRunning(r)' /\ (Over(r) => Over(r)')
      BY <1>0, <2>1 DEF KeepsItsLease, SaysRunning, Over, Alive
  <2>3. lease = Mine(ProcOf[r], TRUE) /\ job[r].status = "running"
      BY <1>0, <2>1 DEF KeepsItsLease, SaysRunning, Holding
  <2>4. pc'[r] \in RunPC /\ pc'[r] \in Holding /\ rec'.status \notin Stopped
      BY <2>1, <2>3 DEF RunPC, Holding, Stopped, Settled
  <2> QED BY <2>1, <2>2, <2>4, RunStaysSteady
<1>10. CASE Finish(r) \/ Raise(r) \/ Tick(r)
  <2>1. pc[r] = "drive" /\ Alive(r) /\ UNCHANGED <<rec, lease, up, seen>>
      BY <1>0, <1>10 DEF Finish, Raise, Tick, At, IInv, Watched
  <2>2. \/ pc' = [pc EXCEPT ![r] = "end"] /\ job' = job
        \/ pc' = [pc EXCEPT ![r] = "final"] /\ \E s \in Status : job' = [job EXCEPT ![r].status = s]
        \/ pc' = pc /\ job' = job
      BY <1>10 DEF Finish, Raise, Tick, Conclude, SetJob, Status
  <2>3. /\ pc'[r] \in {"drive", "final", "end"} /\ (pc'[r] = "drive" => job'[r] = job[r])
        /\ \A d \in Call : d # r => pc'[d] = pc[d] /\ job'[d] = job[d]
      BY <1>0, <2>1, <2>2 DEF TypeOK
  <2>4. lease = Mine(ProcOf[r], TRUE)
      BY <1>0, <2>1 DEF KeepsItsLease, Holding
  <2>5. KeepsItsLease(r)' /\ SaysRunning(r)' /\ (Over(r) => Over(r)')
      BY <1>0, <2>1, <2>3, <2>4 DEF KeepsItsLease, SaysRunning, Over
  <2>6. pc'[r] \in RunPC /\ pc'[r] \in Holding \cup {"end"}
      BY <2>3 DEF RunPC, Holding
  <2> QED BY <2>1, <2>3, <2>5, <2>6, RunStaysSteady
<1>11. CASE Renew(r)
  <2>1. pc[r] = "drive" /\ Alive(r) /\ UNCHANGED <<rec, up, seen, job, pc>> /\ lease' = Mine(ProcOf[r], TRUE)
      BY <1>0, <1>11 DEF Renew, IInv, Watched
  <2>2. KeepsItsLease(r)' /\ SaysRunning(r)' /\ (Over(r) => Over(r)')
      BY <1>0, <2>1 DEF KeepsItsLease, SaysRunning, Over, Alive
  <2>3. pc'[r] \in RunPC /\ pc'[r] \in Holding
      BY <2>1 DEF RunPC, Holding
  <2> QED BY <1>0, <2>1, <2>2, <2>3, RunStaysSteady
<1> QED BY <1>1, <1>2, <1>3, <1>4, <1>5, <1>6, <1>7, <1>8, <1>9, <1>10, <1>11

(* The steps of the cancels and of the recoveries. *)
LEMMA CancelsSteady ==
    ASSUME NEW r, OnlyRun(r), IInv(r), Steady(r), Handled(r)',
           NEW c \in Cancels,
           \/ CancelElsewhere(c) \/ Join(c) \/ Request(c) \/ Bury(c) \/ Look(c) \/ ReadSummary(c)
           \/ Poll(c) \/ Deadline(c)
    PROVE  Steady(r)'
<1> USE DEF store
<1>0. /\ TypeOK /\ c \in Call /\ c # r /\ c \notin killed
      /\ ~MayCancelQueued => /\ rec.status \in Stopped => Over(r)
                             /\ pc[c] = "request" => job[c].status = "running"
                             /\ pc[c] = "bury" => Over(r)
    BY Others DEF IInv, Steady, Handled, EndingsComeAfter
<1>1. CASE CancelElsewhere(c)
  <2>1. /\ UNCHANGED <<rec, lease, up, seen>>
        /\ pc'[c] \in {"request", "bury", "end"}
        /\ \A d \in Call : d # c => pc'[d] = pc[d]
        /\ job' = [job EXCEPT ![c] = rec]
      BY <1>0, <1>1, GotoMoves DEF CancelElsewhere
  <2>2. job'[c] = rec /\ \A d \in Call : d # c => job'[d] = job[d]
      BY <1>0, <2>1 DEF TypeOK
  <2>3. pc'[c] = "request" => rec.status \in {"queued", "running"}
      BY <1>0, <1>1, GotoMoves DEF CancelElsewhere
  <2>4. pc'[c] = "request" /\ ~MayCancelQueued => rec.status = "running"
      BY <1>1, <2>3 DEF CancelElsewhere
  <2>5. pc'[c] = "bury" => rec.status = "needs_input"
      BY <1>0, <1>1, GotoMoves DEF CancelElsewhere
  <2>6. pc'[c] = "bury" /\ ~MayCancelQueued => Over(r)
      BY <1>0, <2>5 DEF Stopped
  <2>7. ~MayCancelQueued /\ pc'[c] \in {"poll", "end"} /\ job'[c].status = "cancelled" => Over(r)
      BY <1>0, <2>2 DEF Stopped, Settled
  <2> QED BY <1>0, <2>1, <2>2, <2>4, <2>6, <2>7, OthersStaySteady
<1>2. CASE Join(c)
  <2>1. /\ UNCHANGED <<rec, lease, up, seen>>
        /\ pc'[c] = "end"
        /\ \A d \in Call : d # c => pc'[d] = pc[d]
        /\ job' = [job EXCEPT ![c] = rec]
      BY <1>0, <1>2, GotoMoves DEF Join
  <2>2. job'[c] = rec /\ \A d \in Call : d # c => job'[d] = job[d]
      BY <1>0, <2>1 DEF TypeOK
  <2>3. ~MayCancelQueued /\ job'[c].status = "cancelled" => Over(r)
      BY <1>0, <2>2 DEF Stopped, Settled
  <2> QED BY <1>0, <2>1, <2>2, <2>3, OthersStaySteady
<1>3. CASE Request(c)
  <2>1. pc[c] = "request" /\ UNCHANGED <<rec, lease, up, seen, job>>
      BY <1>3 DEF Request, At
  <2>2. /\ pc'[c] \in {"look", "bury"} /\ (~MayCancelQueued => pc'[c] = "look")
        /\ \A d \in Call : d # c => pc'[d] = pc[d]
      BY <1>0, <1>3, <2>1, GotoMoves DEF Request
  <2> QED BY <1>0, <2>1, <2>2, OthersStaySteady
<1>4. CASE Bury(c)
  <2>1. /\ pc[c] = "bury" /\ UNCHANGED <<lease, up, seen>>
        /\ job' = [job EXCEPT ![c].status = "cancelled"]
      BY <1>4 DEF Bury, At, SetJob
  <2>2. pc'[c] = "end" /\ \A d \in Call : d # c => pc'[d] = pc[d]
      BY <1>0, <1>4, GotoMoves DEF Bury
  <2>3. \A d \in Call : d # c => job'[d] = job[d]
      BY <1>0, <2>1 DEF TypeOK
  <2> QED BY <1>0, <2>1, <2>2, <2>3, OthersStaySteady
<1>5. CASE Look(c)
  <2>1. UNCHANGED <<rec, lease, up, job>> /\ seen' = [seen EXCEPT ![c] = lease]
      BY <1>5 DEF Look
  <2>2. pc'[c] = "summary" /\ \A d \in Call : d # c => pc'[d] = pc[d]
      BY <1>0, <1>5, GotoMoves DEF Look
  <2>3. seen'[c] = lease /\ \A d \in Call : d # c => seen'[d] = seen[d]
      BY <1>0, <2>1 DEF TypeOK
  <2> QED BY <1>0, <2>1, <2>2, <2>3, OthersStaySteady
<1>6. CASE ReadSummary(c)
  <2>1. /\ pc[c] = "summary" /\ UNCHANGED <<rec, lease, up, seen>>
        /\ job' = [job EXCEPT ![c] = rec]
      BY <1>6 DEF ReadSummary, At
  <2>2. pc'[c] \in {"end", "fence", "poll"} /\ \A d \in Call : d # c => pc'[d] = pc[d]
      BY <1>0, <1>6, GotoMoves DEF ReadSummary
  <2>3. job'[c] = rec /\ \A d \in Call : d # c => job'[d] = job[d]
      BY <1>0, <2>1 DEF TypeOK
  <2>4. pc'[c] = "fence" => rec.status = "running" /\ OwnerIsGone(seen[c], ProcOf[c])
      BY <1>0, <1>6, GotoMoves DEF ReadSummary
  <2>5. pc'[c] = "fence" => Gone(r)
    <3> SUFFICES ASSUME pc'[c] = "fence" PROVE Gone(r)
        OBVIOUS
    <3>1. seen[c] # NoLease
        BY <2>1, <2>4 DEF IInv, SeenNoneIsOver
    <3>2. Gone(r) \/ seen[c] = Mine(ProcOf[r], TRUE)
        BY <1>0, <3>1 DEF Steady, OthersComeAfter
    <3>3. seen[c] = Mine(ProcOf[r], TRUE) => ProcOf[r] \notin up
        BY <2>4, <3>1 DEF OwnerIsGone, DeathIsCertain, PidGone, Mine
    <3> QED BY <3>2, <3>3 DEF Gone, Alive
  <2>6. ~MayCancelQueued /\ pc'[c] \in {"poll", "end"} /\ job'[c].status = "cancelled" => Over(r)
      BY <1>0, <2>3 DEF Stopped, Settled
  <2> QED BY <1>0, <2>1, <2>2, <2>3, <2>5, <2>6, OthersStaySteady
<1>7. CASE Poll(c)
  <2>1. UNCHANGED <<rec, lease, up, seen, job>>
      BY <1>7 DEF Poll
  <2>2. pc'[c] = "look" /\ \A d \in Call : d # c => pc'[d] = pc[d]
      BY <1>0, <1>7, GotoMoves DEF Poll
  <2> QED BY <1>0, <2>1, <2>2, OthersStaySteady
<1>8. CASE Deadline(c)
  <2>1. pc[c] = "poll" /\ UNCHANGED <<rec, lease, up, seen, job>>
      BY <1>8 DEF Deadline, At
  <2>2. pc'[c] = "end" /\ \A d \in Call : d # c => pc'[d] = pc[d]
      BY <1>0, <1>8, GotoMoves DEF Deadline
  <2>3. ~MayCancelQueued /\ job[c].status = "cancelled" => Over(r)
      BY <2>1 DEF Steady, EndingsComeAfter
  <2> QED BY <1>0, <2>1, <2>2, <2>3, OthersStaySteady
<1> QED BY <1>1, <1>2, <1>3, <1>4, <1>5, <1>6, <1>7, <1>8

LEMMA TakersSteady ==
    ASSUME NEW r, OnlyRun(r), IInv(r), Steady(r), Handled(r)',
           NEW c \in Call, c # r,
           ListRunning(c) \/ ReadOwner(c) \/ Fence(c) \/ SecondLook(c) \/ Settle(c) \/ WriteSettlement(c)
    PROVE  Steady(r)'
<1> USE DEF store
<1>0. /\ TypeOK /\ c \notin killed
      /\ ~MayCancelQueued /\ rec.status \in Stopped => Over(r)
      /\ pc[c] \in {"fence", "second", "settle", "settling"} => Gone(r)
      /\ Gone(r) => Over(r)
    BY DEF IInv, Steady, Handled, EndingsComeAfter, TakersComeAfter, Gone, Over
<1>1. CASE ListRunning(c)
  <2>1. /\ c \notin Cancels /\ UNCHANGED <<rec, lease, up, seen>>
        /\ job' = [job EXCEPT ![c] = rec]
      BY <1>1 DEF ListRunning, Cancels
  <2>2. pc'[c] \in {"owner", "end"} /\ \A d \in Call : d # c => pc'[d] = pc[d]
      BY <1>0, <1>1, GotoMoves DEF ListRunning
  <2>3. \A d \in Call : d # c => job'[d] = job[d]
      BY <1>0, <2>1 DEF TypeOK
  <2>4. pc'[c] = "owner" => rec.status = "running"
      BY <1>0, <1>1, GotoMoves DEF ListRunning
  <2>5. pc'[c] = "owner" => lease # NoLease
      BY <2>4 DEF IInv, RunningIsLeased
  <2> QED BY <1>0, <2>1, <2>2, <2>3, <2>5, OthersStaySteady
<1>2. CASE ReadOwner(c)
  <2>1. /\ pc[c] = "owner" /\ UNCHANGED <<rec, lease, up, job>>
        /\ seen' = [seen EXCEPT ![c] = lease]
      BY <1>2 DEF ReadOwner, At
  <2>2. c \notin Cancels
      BY <2>1 DEF IInv, Places, CancelPC
  <2>3. pc'[c] \in {"fence", "end"} /\ \A d \in Call : d # c => pc'[d] = pc[d]
      BY <1>0, <1>2, GotoMoves DEF ReadOwner
  <2>4. seen'[c] = lease /\ \A d \in Call : d # c => seen'[d] = seen[d]
      BY <1>0, <2>1 DEF TypeOK
  <2>5. pc'[c] = "fence" => OwnerIsGone(lease, ProcOf[c])
      BY <1>0, <1>2, GotoMoves DEF ReadOwner
  <2>6. pc'[c] = "fence" => Gone(r)
    <3>1. CASE lease = NoLease
        BY <2>1, <3>1 DEF Steady, TakersComeAfter
    <3>2. CASE lease # NoLease
      <4>1. Gone(r) \/ (Alive(r) /\ lease = Mine(ProcOf[r], TRUE))
          BY <3>2 DEF Steady, OthersComeAfter, KeepsItsLease, Gone
      <4>2. lease = Mine(ProcOf[r], TRUE) /\ pc'[c] = "fence" => ProcOf[r] \notin up
          BY <2>5, <3>2 DEF OwnerIsGone, DeathIsCertain, PidGone, Mine
      <4> QED BY <4>1, <4>2 DEF Alive
    <3> QED BY <3>1, <3>2
  <2> QED BY <1>0, <2>1, <2>2, <2>3, <2>4, <2>6, OthersStaySteady
<1>3. CASE Fence(c)
  <2>1. pc[c] = "fence" /\ UNCHANGED <<rec, up, seen, job>> /\ lease' = Mine(ProcOf[c], FALSE)
      BY <1>3 DEF Fence, At
  <2>2. lease' # NoLease
      BY <2>1, MineType, ConstantsAssumption
  <2>3. pc'[c] \in {"settle", "second"} /\ \A d \in Call : d # c => pc'[d] = pc[d]
      BY <1>0, <1>3, GotoMoves DEF Fence
  <2> QED BY <1>0, <2>1, <2>2, <2>3, OthersStaySteady
<1>4. CASE SecondLook(c)
  <2>1. /\ pc[c] = "second" /\ UNCHANGED <<rec, lease, up, job>>
        /\ seen' = [seen EXCEPT ![c] = lease]
      BY <1>4 DEF SecondLook, At
  <2>2. pc'[c] \in {"settle", "poll", "end"} /\ \A d \in Call : d # c => pc'[d] = pc[d]
      BY <1>0, <1>4, GotoMoves DEF SecondLook
  <2>3. seen'[c] = lease /\ \A d \in Call : d # c => seen'[d] = seen[d]
      BY <1>0, <2>1 DEF TypeOK
  <2> QED BY <1>0, <2>1, <2>2, <2>3, OthersStaySteady
<1>5. CASE Settle(c)
  <2>1. pc[c] = "settle" /\ UNCHANGED <<rec, lease, up, seen>>
      BY <1>5 DEF Settle, At
  <2>2. pc'[c] \in {"settling", "end"} /\ \A d \in Call : d # c => pc'[d] = pc[d]
      BY <1>0, <1>5, GotoMoves DEF Settle
  <2>3. job' = [job EXCEPT ![c] = rec] \/ \E s \in {"cancelled", "failed"} : job' = [job EXCEPT ![c].status = s]
      BY <1>5 DEF Settle, SetJob
  <2>4. \A d \in Call : d # c => job'[d] = job[d]
      BY <1>0, <2>3 DEF TypeOK
  <2> QED BY <1>0, <2>1, <2>2, <2>4, OthersStaySteady
<1>6. CASE WriteSettlement(c)
  <2>1. pc[c] = "settling" /\ UNCHANGED <<lease, up, seen, job>>
      BY <1>6 DEF WriteSettlement, At
  <2>2. pc'[c] = "end" /\ \A d \in Call : d # c => pc'[d] = pc[d]
      BY <1>0, <1>6, GotoMoves DEF WriteSettlement
  <2> QED BY <1>0, <2>1, <2>2, OthersStaySteady
<1> QED BY <1>1, <1>2, <1>3, <1>4, <1>5, <1>6

LEMMA InitSteady ==
    ASSUME NEW r, OnlyRun(r), Init
    PROVE  Steady(r)
    BY Others DEF Init, Steady, Handled, KeepsItsLease, OthersComeAfter, TakersComeAfter,
        SaysRunning, EndingsComeAfter, Cancels, Holding, Unstarted, Stopped, Settled

(* Whose step it is: the run's, a cancel's, or that of a call that takes over. *)
RunActs(r) ==
    \/ Create(r) \/ LoadQueued(r) \/ SaveLease(r) \/ HearCancel(r) \/ Refuse(r) \/ Unlease(r)
    \/ MarkRunning(r) \/ PersistEnding(r) \/ Release(r) \/ Escape(r)
    \/ Apply(r) \/ Finish(r) \/ Raise(r) \/ Tick(r) \/ Renew(r)

CancelActs(c) ==
    \/ CancelHere(c) \/ CancelElsewhere(c) \/ Join(c) \/ Request(c) \/ Bury(c) \/ Look(c)
    \/ ReadSummary(c) \/ Poll(c) \/ Deadline(c)

TakerActs(c) ==
    ListRunning(c) \/ ReadOwner(c) \/ Fence(c) \/ SecondLook(c) \/ Settle(c) \/ WriteSettlement(c)

LEMMA WhoSteps ==
    ASSUME NEW r, OnlyRun(r), IInv(r), Handled(r), Next
    PROVE  \/ Expire \/ \E p \in Proc : Crash(p)
           \/ RunActs(r)
           \/ \E c \in Cancels : CancelActs(c)
           \/ \E c \in Call : c # r /\ TakerActs(c)
<1>0. Places(r) /\ Watched /\ killed \subseteq {r}
    BY DEF IInv, Handled
<1>1. ASSUME NEW c \in Call,
             \/ Create(c) \/ LoadStopped(c) \/ CancelHere(c) \/ CancelElsewhere(c) \/ ListRunning(c)
             \/ Proceed(c) \/ Apply(c) \/ Finish(c) \/ Raise(c) \/ Tick(c) \/ Renew(c) \/ Deadline(c)
      PROVE  RunActs(r) \/ (c \in Cancels /\ CancelActs(c)) \/ (c # r /\ TakerActs(c))
  <2>1. CASE c = r
    <3>1. KindOf[r] = "run" /\ pc[r] \in RunPC
        BY <1>0, Others DEF Places
    <3>2. ~LoadStopped(r) /\ ~CancelHere(r) /\ ~CancelElsewhere(r) /\ ~ListRunning(r)
        BY <3>1 DEF LoadStopped, CancelHere, CancelElsewhere, ListRunning
    <3>3. ~AskFrontier(r) /\ ~ClearCancel(r) /\ ~EnterDrive(r) /\ ~Join(r) /\ ~Request(r) /\ ~Bury(r)
        BY <3>1 DEF AskFrontier, ClearCancel, EnterDrive, Join, Request, Bury, At, RunPC
    <3>4. ~Look(r) /\ ~ReadSummary(r) /\ ~Poll(r) /\ ~Deadline(r) /\ ~ReadOwner(r) /\ ~Fence(r)
        BY <3>1 DEF Look, ReadSummary, Poll, Deadline, ReadOwner, Fence, At, RunPC
    <3>5. ~SecondLook(r) /\ ~Settle(r) /\ ~WriteSettlement(r)
        BY <3>1 DEF SecondLook, Settle, WriteSettlement, At, RunPC
    <3> QED BY <1>1, <2>1, <3>2, <3>3, <3>4, <3>5 DEF Proceed, RunActs
  <2>2. CASE c # r
    <3>1. KindOf[c] \in {"cancel", "recover"} /\ pc[c] \in CancelPC \cup RecoverPC /\ c \notin killed
        BY <1>0, <2>2, WhoIsWho DEF Places
    <3>2. ~Create(c) /\ ~LoadStopped(c) /\ ~LoadQueued(c) /\ ~Escape(c)
        BY <3>1 DEF Create, LoadStopped, LoadQueued, Escape
    <3>3. ~AskFrontier(c) /\ ~ClearCancel(c) /\ ~EnterDrive(c) /\ ~SaveLease(c) /\ ~HearCancel(c) /\ ~Refuse(c)
        BY <3>1 DEF AskFrontier, ClearCancel, EnterDrive, SaveLease, HearCancel, Refuse, At, CancelPC, RecoverPC
    <3>4. ~Unlease(c) /\ ~MarkRunning(c) /\ ~PersistEnding(c) /\ ~Release(c) /\ ~Apply(c) /\ ~Finish(c) /\ ~Raise(c)
        BY <3>1 DEF Unlease, MarkRunning, PersistEnding, Release, Apply, Finish, Raise, At, CancelPC, RecoverPC
    <3>5. ~Tick(c) /\ ~Renew(c)
        BY <1>0, <3>1 DEF Tick, Renew, Watched, CancelPC, RecoverPC
    <3>6. CancelActs(c) \/ TakerActs(c)
        BY <1>1, <3>2, <3>3, <3>4, <3>5 DEF Proceed, CancelActs, TakerActs
    <3>7. CancelActs(c) => c \in Cancels
      <4>1. CASE CancelHere(c) \/ CancelElsewhere(c)
          BY <4>1 DEF CancelHere, CancelElsewhere, Cancels
      <4>2. CASE pc[c] \in {"join", "request", "bury", "look", "summary", "poll"}
          BY <1>0, <2>2, <4>2, WhoIsWho DEF Places, RecoverPC
      <4> QED BY <4>1, <4>2 DEF CancelActs, Join, Request, Bury, Look, ReadSummary, Poll, Deadline, At
    <3> QED BY <2>2, <3>6, <3>7
  <2> QED BY <2>1, <2>2
<1> QED BY <1>1 DEF Next

LEMMA NextSteady ==
    ASSUME NEW r, OnlyRun(r), IInv(r), Steady(r), ~MayStall, [Next]_vars
    PROVE  Steady(r)'
<1>0. Handled(r)'
    BY NextHandled DEF Steady
<1>1. CASE UNCHANGED vars
    BY <1>1 DEF vars, Steady, Handled, KeepsItsLease, OthersComeAfter, TakersComeAfter,
        SaysRunning, EndingsComeAfter, Gone, Over, Alive
<1>2. CASE Expire
    BY <1>0, <1>2, ExpireSteady
<1>3. ASSUME NEW p \in Proc, Crash(p) PROVE Steady(r)'
    BY <1>0, <1>3, CrashSteady
<1>4. CASE RunActs(r)
    BY <1>0, <1>4, RunSteady DEF RunActs
<1>5. ASSUME NEW c \in Cancels, CancelActs(c) PROVE Steady(r)'
    BY <1>0, <1>5, CancelHereSteady, CancelsSteady, Others DEF CancelActs
<1>6. ASSUME NEW c \in Call, c # r, TakerActs(c) PROVE Steady(r)'
    BY <1>0, <1>6, TakersSteady DEF TakerActs
<1>7. Handled(r)
    BY DEF Steady
<1> QED BY <1>1, <1>2, <1>3, <1>4, <1>5, <1>6, <1>7, WhoSteps

(* recover_interrupted and _await_remote_stop read the lease and the clock   *)
(* and believe what they read: where no event loop stalls past the TTL, a    *)
(* run at work is never taken for dead, whatever processes crash and however *)
(* many cancels and recoveries look at it.                                   *)
THEOREM LiveRunsLookAlive ==
    ASSUME NEW r, OnlyRun(r), ~MayStall
    PROVE  Safety => []LiveRunLooksAlive
<1>1. Init => IInv(r) /\ Steady(r)
    BY InitIInv, InitSteady
<1>2. IInv(r) /\ Steady(r) /\ [Next]_vars => IInv(r)' /\ Steady(r)'
    BY NextIInv, NextSteady
<1>3. IInv(r) /\ Steady(r) => LiveRunLooksAlive
    BY DEF OnlyRun, Steady, KeepsItsLease, LiveRunLooksAlive, Driving, Holding
<1> QED
    BY <1>1, <1>2, <1>3, PTL DEF Safety

(* Whoever cancels the job from wherever, and is answered CANCELLED, is      *)
(* answered so of a run that no longer works.                                *)
THEOREM CancelledIsStopped ==
    ASSUME NEW r, OnlyRun(r), ~MayStall, ~MayCancelQueued
    PROVE  Safety => []CancelledMeansStopped
<1>1. Init => IInv(r) /\ Steady(r)
    BY InitIInv, InitSteady
<1>2. IInv(r) /\ Steady(r) /\ [Next]_vars => IInv(r)' /\ Steady(r)'
    BY NextIInv, NextSteady
<1>3. IInv(r) /\ Steady(r) => CancelledMeansStopped
  <2> SUFFICES ASSUME Steady(r), NEW c \in Cancels, pc[c] = "end", job[c].status = "cancelled", Driving(r)
               PROVE  FALSE
      BY DEF OnlyRun, CancelledMeansStopped
  <2>1. Over(r)
      BY DEF Steady, EndingsComeAfter
  <2> QED BY <2>1 DEF Over, Driving
<1> QED
    BY <1>1, <1>2, <1>3, PTL DEF Safety

----------------------------------------------------------------------------
(* A step of the run: it writes the record only while it is at work. *)
LEMMA RunStaysPromised ==
    ASSUME NEW r, OnlyRun(r), Steady(r), Promised(r), ~MayCancelQueued, up' = up,
           \A d \in Call : d # r => pc'[d] = pc[d] /\ job'[d] = job[d],
           (rec'.status = rec.status /\ rec'.attempt = rec.attempt) \/ (~Over(r) /\ ~Gone(r)),
           rec'.status \in {"none", "queued"} => rec.status \in {"none", "queued"},
           rec'.attempt = IF rec'.status = "none" THEN 0 ELSE 1,
           pc'[r] \in {"lease", "control", "running", "refuse", "drive", "final"} => job'[r].attempt = 1,
           RecordFollows(r)'
    PROVE  Promised(r)'
<1>1. \A c \in Cancels : pc'[c] = pc[c] /\ job'[c] = job[c]
    BY Others
<1>2. OneAttempt(r)'
    BY <1>1 DEF Promised, OneAttempt
<1>3. ASSUME NEW c \in Cancels
      PROVE  /\ pc'[c] \notin {"idle", "join", "end"} => rec'.status \notin {"none", "queued"}
             /\ pc'[c] = "bury" => rec'.status \in {"needs_input", "cancelled"}
             /\ pc'[c] = "settling" => /\ rec'.status \in {"running", "cancelled"}
                                       /\ job'[c].status = "cancelled"
  <2>1. /\ pc[c] = "bury" => Over(r)
        /\ pc[c] = "settling" => Gone(r)
      BY Others DEF Steady, EndingsComeAfter, TakersComeAfter
  <2> QED BY <1>1, <2>1 DEF Promised, CancelsAgree
<1> QED BY <1>2, <1>3 DEF Promised, CancelsAgree

(* A step of a cancel: all it writes is CANCELLED, over the run's own end.   *)
LEMMA OthersStayPromised ==
    ASSUME NEW r, OnlyRun(r), Promised(r), up' = up, NEW c \in Cancels,
           \A d \in Call : d # c => pc'[d] = pc[d] /\ job'[d] = job[d],
           \/ rec' = rec
           \/ /\ Over(r) /\ rec.status \notin {"none", "queued"}
              /\ rec'.status = "cancelled" /\ rec'.attempt = 1,
           pc'[c] \notin {"idle", "join", "end"} => /\ job'[c].attempt = 1
                                                    /\ rec.status \notin {"none", "queued"},
           pc'[c] = "bury" => rec.status \in {"needs_input", "cancelled"},
           pc'[c] = "settling" => rec.status \in {"running", "cancelled"} /\ job'[c].status = "cancelled"
    PROVE  Promised(r)'
<1>1. r \in Call /\ c \in Call /\ pc'[r] = pc[r] /\ job'[r] = job[r]
    BY Others
<1>2. \A d \in Cancels : d # c => pc'[d] = pc[d] /\ job'[d] = job[d]
    BY Others
<1>3. OneAttempt(r)'
  <2>1. rec'.attempt = IF rec'.status = "none" THEN 0 ELSE 1
      BY DEF Promised, OneAttempt
  <2> QED BY <1>1, <1>2, <2>1 DEF Promised, OneAttempt
<1>4. RecordFollows(r)'
  <2>1. CASE rec' = rec
      BY <1>1, <2>1 DEF Promised, RecordFollows, Alive
  <2>2. CASE Over(r) /\ rec.status \notin {"none", "queued"}
      BY <1>1, <2>2 DEF Promised, RecordFollows, Alive, Over
  <2> QED BY <2>1, <2>2
<1>5. CancelsAgree'
    BY <1>2 DEF Promised, CancelsAgree
<1> QED BY <1>3, <1>4, <1>5 DEF Promised

(* The run's steps leave the record true to the run, and do to it what       *)
(* JobRecord allows.                                                         *)
Works(r) == Alive(r) /\ pc[r] \in {"drive", "final"}

LEMMA WhoWorks ==
    ASSUME NEW r, OnlyRun(r), Places(r)
    PROVE  Works(r) <=> \E c \in Drivers : Alive(c) /\ pc[c] \in {"spawn", "drive", "final"}
    BY DEF OnlyRun, Works, Places, RunPC

Quiet(r) ==
    /\ rec'.status = rec.status /\ rec'.attempt = rec.attempt
    /\ Works(r)' => Works(r)

Starts(r) ==
    /\ rec.status = "queued" /\ ~Works(r)
    /\ rec'.status = "running" /\ rec'.attempt = rec.attempt

Refuses(r) ==
    /\ rec.status = "queued" /\ ~Works(r) /\ ~Works(r)'
    /\ rec'.status = "cancelled" /\ rec'.attempt = rec.attempt

Concludes(r) ==
    /\ rec.status = "running" /\ Works(r) /\ ~Works(r)'
    /\ rec'.status \in Stopped /\ rec'.attempt = rec.attempt

Buries(r) ==
    /\ rec.status \in {"running", "needs_input"} /\ ~Works(r) /\ ~Works(r)'
    /\ rec'.status = "cancelled" /\ rec'.attempt = rec.attempt

Creates(r) ==
    /\ rec.status = "none" /\ ~Works(r) /\ ~Works(r)'
    /\ rec'.status = "queued" /\ rec'.attempt = 1

Keeps(r) == Quiet(r) \/ Creates(r) \/ Starts(r) \/ Refuses(r) \/ Concludes(r) \/ Buries(r)

LEMMA RunPromised ==
    ASSUME NEW r, OnlyRun(r), IInv(r), Steady(r), Promised(r), ~MayCancelQueued, RunActs(r)
    PROVE  Promised(r)' /\ Keeps(r)
<1> USE DEF store
<1>0. /\ TypeOK /\ KindOf[r] = "run" /\ r \in Call
      /\ SaysRunning(r) /\ RecordFollows(r) /\ OneAttempt(r)
    BY Others DEF IInv, Steady, Promised
<1>1. CASE Create(r)
  <2>1. pc[r] = "idle" /\ pc'[r] = "load" /\ \A d \in Call : d # r => pc'[d] = pc[d]
      BY <1>0, <1>1 DEF Create, Invoked, At, TypeOK
  <2>2. /\ rec.status = "none" /\ rec'.status = "queued" /\ rec'.attempt = 1
        /\ Alive(r) /\ UNCHANGED <<up, job>>
      BY <1>1 DEF Create, Invoked, At
  <2>3. RecordFollows(r)' /\ ~Over(r) /\ ~Gone(r) /\ ~Works(r) /\ ~Works(r)'
      BY <2>1, <2>2 DEF RecordFollows, Over, Gone, Works
  <2>4. Promised(r)'
      BY <2>1, <2>2, <2>3, RunStaysPromised
  <2> QED BY <2>2, <2>3, <2>4 DEF Keeps, Creates
<1>2. CASE LoadQueued(r)
  <2>1. pc[r] = "load" /\ pc'[r] \in {"lease", "end"} /\ \A d \in Call : d # r => pc'[d] = pc[d]
      BY <1>0, <1>2, GotoMoves DEF LoadQueued, At
  <2>2. Alive(r) /\ UNCHANGED <<rec, up>> /\ job'[r] = rec /\ \A d \in Call : d # r => job'[d] = job[d]
      BY <1>0, <1>2 DEF LoadQueued, At, TypeOK
  <2>3. rec.status = "queued" /\ rec.attempt = 1
      BY <1>0, <2>1 DEF RecordFollows, OneAttempt
  <2>4. RecordFollows(r)' /\ ~Works(r) /\ ~Works(r)'
      BY <2>1, <2>2, <2>3 DEF RecordFollows, Works
  <2>5. Promised(r)'
      BY <2>1, <2>2, <2>3, <2>4, RunStaysPromised
  <2> QED BY <2>2, <2>4, <2>5 DEF Keeps, Quiet
<1>3. CASE SaveLease(r)
  <2>1. pc[r] = "lease" /\ pc'[r] \in {"control", "end"} /\ \A d \in Call : d # r => pc'[d] = pc[d]
      BY <1>0, <1>3, GotoMoves DEF SaveLease, At
  <2>2. Alive(r) /\ UNCHANGED <<rec, up, job>>
      BY <1>3 DEF SaveLease, At
  <2>3. rec.status = "queued" /\ rec.attempt = 1 /\ job[r].attempt = 1
      BY <1>0, <2>1 DEF RecordFollows, OneAttempt
  <2>4. RecordFollows(r)' /\ ~Works(r) /\ ~Works(r)'
      BY <2>1, <2>2, <2>3 DEF RecordFollows, Works
  <2>5. Promised(r)'
      BY <2>1, <2>2, <2>3, <2>4, RunStaysPromised
  <2> QED BY <2>2, <2>4, <2>5 DEF Keeps, Quiet
<1>4. CASE HearCancel(r)
  <2>1. pc[r] = "control" /\ pc'[r] \in {"refuse", "running", "end"} /\ \A d \in Call : d # r => pc'[d] = pc[d]
      BY <1>0, <1>4, GotoMoves DEF HearCancel, At
  <2>2. Alive(r) /\ UNCHANGED <<rec, up>> /\ \A d \in Call : d # r => job'[d] = job[d]
      BY <1>0, <1>4 DEF HearCancel, At, SetJob, TypeOK
  <2>3. rec.status = "queued" /\ rec.attempt = 1 /\ job[r].attempt = 1
      BY <1>0, <2>1 DEF RecordFollows, OneAttempt
  <2>4. job'[r].attempt = 1 /\ (pc'[r] = "refuse" => job'[r].status = "cancelled")
    <3>1. ~cancelReq => pc'[r] \in {"running", "end"}
        BY <1>0, <1>4, GotoMoves DEF HearCancel
    <3>2. cancelReq => job' = [job EXCEPT ![r].status = "cancelled"]
        BY <1>4 DEF HearCancel, SetJob
    <3>3. \E s \in Status : job' = [job EXCEPT ![r].status = s]
        BY <1>4 DEF HearCancel, SetJob, Status
    <3>4. job'[r].attempt = 1
        BY <1>0, <2>3, <3>3 DEF TypeOK, Record
    <3>5. cancelReq => job'[r].status = "cancelled"
        BY <1>0, <3>2 DEF TypeOK, Record
    <3> QED BY <3>1, <3>4, <3>5
  <2>5. RecordFollows(r)' /\ ~Works(r) /\ ~Works(r)'
      BY <2>1, <2>2, <2>3, <2>4 DEF RecordFollows, Works
  <2>6. Promised(r)'
      BY <2>1, <2>2, <2>3, <2>4, <2>5, RunStaysPromised
  <2> QED BY <2>2, <2>5, <2>6 DEF Keeps, Quiet
<1>5. CASE Refuse(r)
  <2>1. pc[r] = "refuse" /\ pc'[r] \in {"unlease", "end"} /\ \A d \in Call : d # r => pc'[d] = pc[d]
      BY <1>0, <1>5, GotoMoves DEF Refuse, At
  <2>2. Alive(r) /\ UNCHANGED <<up, job>> /\ rec' = job[r]
      BY <1>5 DEF Refuse, At
  <2>3. rec.status = "queued" /\ rec.attempt = 1 /\ job[r].attempt = 1 /\ job[r].status = "cancelled"
      BY <1>0, <2>1 DEF RecordFollows, OneAttempt
  <2>4. RecordFollows(r)' /\ ~Works(r) /\ ~Works(r)' /\ ~Over(r) /\ ~Gone(r)
      BY <2>1, <2>2, <2>3 DEF RecordFollows, Works, Over, Gone
  <2>5. Promised(r)'
      BY <2>1, <2>2, <2>3, <2>4, RunStaysPromised
  <2> QED BY <2>2, <2>3, <2>4, <2>5 DEF Keeps, Refuses
<1>6. CASE Unlease(r) \/ Release(r) \/ Escape(r)
  <2>1. pc[r] # "end" /\ pc'[r] = "end" /\ \A d \in Call : d # r => pc'[d] = pc[d]
    <3>1. CASE Unlease(r) \/ Release(r)
        BY <1>0, <3>1, GotoMoves DEF Unlease, Release, At
    <3>2. CASE Escape(r)
        BY <1>0, <3>2 DEF Escape, TypeOK
    <3> QED BY <1>6, <3>1, <3>2
  <2>2. UNCHANGED <<rec, up, job>>
      BY <1>6 DEF Unlease, Release, Escape
  <2>3. RecordFollows(r)' /\ ~Works(r)'
      BY <2>1, <2>2 DEF RecordFollows, Works
  <2>4. rec.attempt = IF rec.status = "none" THEN 0 ELSE 1
      BY <1>0 DEF OneAttempt
  <2>5. Promised(r)'
      BY <2>1, <2>2, <2>3, <2>4, RunStaysPromised
  <2> QED BY <2>2, <2>3, <2>5 DEF Keeps, Quiet
<1>7. CASE MarkRunning(r)
  <2>1. pc[r] = "running" /\ pc'[r] \in {"drive", "end"} /\ \A d \in Call : d # r => pc'[d] = pc[d]
      BY <1>0, <1>7, GotoMoves DEF MarkRunning, At
  <2>2. Alive(r) /\ UNCHANGED <<up, job>> /\ rec' = job[r]
      BY <1>7 DEF MarkRunning, At
  <2>3. rec.status = "queued" /\ rec.attempt = 1 /\ job[r].attempt = 1 /\ job[r].status = "running"
      BY <1>0, <2>1 DEF RecordFollows, OneAttempt, SaysRunning
  <2>4. RecordFollows(r)' /\ ~Works(r) /\ ~Over(r) /\ ~Gone(r)
      BY <2>1, <2>2, <2>3 DEF RecordFollows, Works, Over, Gone
  <2>5. Promised(r)'
      BY <2>1, <2>2, <2>3, <2>4, RunStaysPromised
  <2> QED BY <2>2, <2>3, <2>4, <2>5 DEF Keeps, Starts
<1>8. CASE PersistEnding(r)
  <2>1. pc[r] = "final" /\ pc'[r] \in {"release", "end"} /\ \A d \in Call : d # r => pc'[d] = pc[d]
      BY <1>0, <1>8, GotoMoves DEF PersistEnding, At
  <2>2. Alive(r) /\ UNCHANGED <<up, job>> /\ rec' = job[r]
      BY <1>8 DEF PersistEnding, At
  <2>3. rec.status = "running" /\ rec.attempt = 1 /\ job[r].attempt = 1 /\ job[r].status \in Stopped
      BY <1>0, <2>1, <2>2 DEF RecordFollows, OneAttempt
  <2>4. RecordFollows(r)' /\ Works(r) /\ ~Works(r)' /\ ~Over(r) /\ ~Gone(r)
      BY <2>1, <2>2, <2>3 DEF RecordFollows, Works, Over, Gone
  <2>5. job[r].status \notin {"none", "queued"}
      BY <2>3 DEF Stopped, Settled
  <2>6. Promised(r)'
      BY <2>1, <2>2, <2>3, <2>4, <2>5, RunStaysPromised
  <2> QED BY <2>2, <2>3, <2>4, <2>6 DEF Keeps, Concludes
<1>9. CASE Apply(r)
  <2>1. pc[r] = "drive" /\ Alive(r) /\ UNCHANGED <<up, job, pc>> /\ rec' = job[r]
      BY <1>9 DEF Apply, At
  <2>2. rec.status = "running" /\ rec.attempt = 1 /\ job[r].attempt = 1 /\ job[r].status = "running"
      BY <1>0, <2>1 DEF RecordFollows, OneAttempt, SaysRunning
  <2>3. RecordFollows(r)' /\ Works(r)
      BY <2>1, <2>2 DEF RecordFollows, Works
  <2>4. Promised(r)'
      BY <2>1, <2>2, <2>3, RunStaysPromised
  <2> QED BY <2>1, <2>2, <2>3, <2>4 DEF Keeps, Quiet
<1>10. CASE Finish(r) \/ Raise(r) \/ Tick(r) \/ Renew(r)
  <2>1. pc[r] = "drive" /\ Alive(r) /\ UNCHANGED <<rec, up>>
      BY <1>0, <1>10 DEF Finish, Raise, Tick, Renew, At, IInv, Watched
  <2>2. \/ pc' = [pc EXCEPT ![r] = "end"] /\ job' = job
        \/ pc' = [pc EXCEPT ![r] = "final"] /\ \E s \in Stopped : job' = [job EXCEPT ![r].status = s]
        \/ pc' = pc /\ job' = job
      BY <1>10 DEF Finish, Raise, Tick, Renew, Conclude, SetJob, Stopped, Settled
  <2>3. /\ pc'[r] \in {"drive", "final", "end"} /\ job'[r].attempt = job[r].attempt
        /\ pc'[r] = "final" => job'[r].status \in Stopped
      BY <1>0, <2>1, <2>2 DEF TypeOK, Record
  <2>4. \A d \in Call : d # r => pc'[d] = pc[d] /\ job'[d] = job[d]
      BY <1>0, <2>2 DEF TypeOK
  <2>5. rec.status = "running" /\ rec.attempt = 1 /\ job[r].attempt = 1
      BY <1>0, <2>1 DEF RecordFollows, OneAttempt
  <2>6. RecordFollows(r)' /\ Works(r)
      BY <2>1, <2>3, <2>5 DEF RecordFollows, Works
  <2>7. Promised(r)'
      BY <2>1, <2>3, <2>4, <2>5, <2>6, RunStaysPromised
  <2> QED BY <2>1, <2>6, <2>7 DEF Keeps, Quiet
<1> QED BY <1>1, <1>2, <1>3, <1>4, <1>5, <1>6, <1>7, <1>8, <1>9, <1>10 DEF RunActs

LEMMA CancelsPromised ==
    ASSUME NEW r, OnlyRun(r), IInv(r), Steady(r), Promised(r), ~MayCancelQueued,
           NEW c \in Cancels, CancelActs(c) \/ TakerActs(c)
    PROVE  Promised(r)' /\ Keeps(r)
<1> USE DEF store
<1>0. /\ TypeOK /\ c \in Call /\ c # r /\ r \in Call /\ c \notin killed /\ KindOf[c] = "cancel"
      /\ RecordFollows(r) /\ OneAttempt(r)
      /\ pc[c] = "request" => job[c].status = "running"
      /\ pc[c] = "bury" => Over(r) /\ rec.status \in {"needs_input", "cancelled"}
      /\ pc[c] = "settling" => /\ Gone(r) /\ rec.status \in {"running", "cancelled"}
                               /\ job[c].status = "cancelled"
      /\ pc[c] \notin {"idle", "join", "end"} => /\ job[c].attempt = 1
                                                 /\ rec.status \notin {"none", "queued"}
    BY Others DEF IInv, Steady, Handled, EndingsComeAfter, TakersComeAfter, Promised, OneAttempt,
        CancelsAgree, Cancels
<1>1. rec.status # "none" => rec.attempt = 1
    BY <1>0 DEF OneAttempt
<1>2. CASE CancelHere(c)
  <2>1. handle[ProcOf[c]] = r /\ UNCHANGED <<rec, up>>
      BY <1>0, <1>2, ConstantsAssumption DEF CancelHere, HasTask, Steady, Handled
  <2>2. CASE pc[r] = "drive"
    <3>1. /\ pc' = [pc EXCEPT ![c] = "join", ![r] = "final"]
          /\ job' = [job EXCEPT ![r].status = "cancelled"]
        BY <1>2, <2>1, <2>2 DEF CancelHere, SetJob
    <3>2. /\ pc'[c] = "join" /\ pc'[r] = "final" /\ \A d \in Call \ {c, r} : pc'[d] = pc[d]
          /\ \A d \in Call \ {r} : job'[d] = job[d]
          /\ job'[r].status = "cancelled" /\ job'[r].attempt = job[r].attempt
        BY <1>0, <3>1 DEF TypeOK, Record
    <3>3. OneAttempt(r)' /\ RecordFollows(r)'
      <4>1. \A d \in Cancels : d # c => pc'[d] = pc[d] /\ job'[d] = job[d]
          BY <3>2, Others
      <4>2. OneAttempt(r)'
          BY <1>0, <2>1, <2>2, <3>2, <4>1 DEF OneAttempt
      <4>3. "cancelled" \in Stopped
          BY DEF Stopped, Settled
      <4> QED BY <1>0, <2>1, <2>2, <3>2, <4>2, <4>3 DEF RecordFollows, Alive
    <3>4. CancelsAgree'
      <4>1. \A d \in Cancels : d # c => pc'[d] = pc[d] /\ job'[d] = job[d]
          BY <3>2, Others
      <4> QED BY <2>1, <3>2, <4>1 DEF Promised, CancelsAgree
    <3>5. Quiet(r)
        BY <2>1, <2>2 DEF Quiet, Works, Alive
    <3> QED BY <3>3, <3>4, <3>5 DEF Promised, Keeps
  <2>3. CASE pc[r] # "drive"
    <3>1. pc' = [pc EXCEPT ![c] = "join"] /\ job' = job
        BY <1>2, <2>1, <2>3 DEF CancelHere
    <3>2. pc'[c] = "join" /\ \A d \in Call : d # c => pc'[d] = pc[d]
        BY <1>0, <3>1 DEF TypeOK
    <3>3. Promised(r)'
        BY <2>1, <3>1, <3>2, OthersStayPromised
    <3> QED BY <1>0, <2>1, <3>2, <3>3 DEF Keeps, Quiet, Works, Alive
  <2> QED BY <2>2, <2>3
<1>3. CASE CancelElsewhere(c)
  <2>1. /\ UNCHANGED <<rec, up>> /\ pc'[c] \in {"request", "bury", "end"}
        /\ \A d \in Call : d # c => pc'[d] = pc[d]
        /\ job' = [job EXCEPT ![c] = rec]
      BY <1>0, <1>3, GotoMoves DEF CancelElsewhere
  <2>2. job'[c] = rec /\ \A d \in Call : d # c => job'[d] = job[d]
      BY <1>0, <2>1 DEF TypeOK
  <2>3. rec.status \notin {"none", "queued"}
      BY <1>3 DEF CancelElsewhere
  <2>4. pc'[c] = "bury" => rec.status = "needs_input"
      BY <1>0, <1>3, GotoMoves DEF CancelElsewhere
  <2>5. Promised(r)'
      BY <1>1, <2>1, <2>2, <2>3, <2>4, OthersStayPromised
  <2> QED BY <1>0, <2>1, <2>5 DEF Keeps, Quiet, Works, Alive
<1>4. CASE Join(c) \/ Deadline(c)
  <2>1. /\ UNCHANGED <<rec, up>> /\ pc'[c] = "end"
        /\ \A d \in Call : d # c => pc'[d] = pc[d]
        /\ job' = [job EXCEPT ![c] = rec] \/ job' = job
      BY <1>0, <1>4, GotoMoves DEF Join, Deadline
  <2>2. \A d \in Call : d # c => job'[d] = job[d]
      BY <1>0, <2>1 DEF TypeOK
  <2>3. Promised(r)'
      BY <2>1, <2>2, OthersStayPromised
  <2> QED BY <1>0, <2>1, <2>3 DEF Keeps, Quiet, Works, Alive
<1>5. CASE Request(c) \/ Look(c) \/ Poll(c) \/ Fence(c) \/ SecondLook(c)
  <2>1. /\ pc[c] \notin {"idle", "join", "end"} /\ UNCHANGED <<rec, up, job>>
      BY <1>5 DEF Request, Look, Poll, Fence, SecondLook, At
  <2>2. /\ pc'[c] \in {"look", "summary", "settle", "second", "poll", "end"}
        /\ \A d \in Call : d # c => pc'[d] = pc[d]
    <3>1. CASE Request(c)
        BY <1>0, <3>1, GotoMoves DEF Request, At
    <3>2. CASE Look(c) \/ Poll(c)
        BY <1>0, <3>2, GotoMoves DEF Look, Poll
    <3>3. CASE Fence(c) \/ SecondLook(c)
        BY <1>0, <3>3, GotoMoves DEF Fence, SecondLook
    <3> QED BY <1>5, <3>1, <3>2, <3>3
  <2>3. Promised(r)'
      BY <1>0, <2>1, <2>2, OthersStayPromised
  <2> QED BY <1>0, <2>1, <2>2, <2>3 DEF Keeps, Quiet, Works, Alive
<1>6. CASE ReadSummary(c)
  <2>1. /\ pc[c] = "summary" /\ UNCHANGED <<rec, up>> /\ job' = [job EXCEPT ![c] = rec]
      BY <1>6 DEF ReadSummary, At
  <2>2. pc'[c] \in {"end", "fence", "poll"} /\ \A d \in Call : d # c => pc'[d] = pc[d]
      BY <1>0, <1>6, GotoMoves DEF ReadSummary
  <2>3. job'[c] = rec /\ \A d \in Call : d # c => job'[d] = job[d]
      BY <1>0, <2>1 DEF TypeOK
  <2>4. Promised(r)'
      BY <1>0, <1>1, <2>1, <2>2, <2>3, OthersStayPromised
  <2> QED BY <1>0, <2>1, <2>2, <2>4 DEF Keeps, Quiet, Works, Alive
<1>7. CASE Bury(c)
  <2>1. pc[c] = "bury" /\ up' = up /\ job' = [job EXCEPT ![c].status = "cancelled"] /\ rec' = job'[c]
      BY <1>7 DEF Bury, At, SetJob
  <2>2. pc'[c] = "end" /\ \A d \in Call : d # c => pc'[d] = pc[d]
      BY <1>0, <1>7, GotoMoves DEF Bury
  <2>3. \A d \in Call : d # c => job'[d] = job[d]
      BY <1>0, <2>1 DEF TypeOK
  <2>4. rec'.status = "cancelled" /\ rec'.attempt = 1
      BY <1>0, <2>1 DEF TypeOK, Record
  <2>5. Promised(r)'
      BY <1>0, <2>1, <2>2, <2>3, <2>4, OthersStayPromised
  <2>6. ~Works(r) /\ ~Works(r)'
      BY <1>0, <2>1, <2>2 DEF Works, Over, Alive
  <2> QED BY <1>0, <1>1, <2>1, <2>4, <2>5, <2>6 DEF Keeps, Quiet, Buries
<1>8. CASE Settle(c)
  <2>1. pc[c] = "settle" /\ UNCHANGED <<rec, up>>
      BY <1>8 DEF Settle, At
  <2>2. pc'[c] \in {"settling", "end"} /\ \A d \in Call : d # c => pc'[d] = pc[d]
      BY <1>0, <1>8, GotoMoves DEF Settle
  <2>3. /\ \A d \in Call : d # c => job'[d] = job[d]
        /\ pc'[c] = "settling" => /\ rec.status \in {"queued", "running"}
                                  /\ job'[c].status = "cancelled" /\ job'[c].attempt = 1
    <3>1. CASE rec.status \notin {"queued", "running"}
        BY <1>0, <1>8, <3>1, GotoMoves DEF Settle, TypeOK
    <3>2. CASE rec.status \in {"queued", "running"}
      <4>1. job' = [job EXCEPT ![c].status = "cancelled"]
          BY <1>0, <1>8, <3>2 DEF Settle, SetJob
      <4> QED BY <1>0, <2>1, <3>2, <4>1 DEF TypeOK, Record
    <3> QED BY <3>1, <3>2
  <2>4. Promised(r)'
      BY <1>0, <2>1, <2>2, <2>3, OthersStayPromised
  <2> QED BY <1>0, <2>1, <2>2, <2>4 DEF Keeps, Quiet, Works, Alive
<1>9. CASE WriteSettlement(c)
  <2>1. pc[c] = "settling" /\ UNCHANGED <<up, job>> /\ rec' = job[c]
      BY <1>9 DEF WriteSettlement, At
  <2>2. pc'[c] = "end" /\ \A d \in Call : d # c => pc'[d] = pc[d]
      BY <1>0, <1>9, GotoMoves DEF WriteSettlement
  <2>3. ~Works(r) /\ ~Works(r)' /\ Over(r)
      BY <1>0, <2>1, <2>2 DEF Works, Gone, Over, Alive
  <2>4. Promised(r)'
      BY <1>0, <2>1, <2>2, <2>3, OthersStayPromised
  <2> QED BY <1>0, <1>1, <2>1, <2>3, <2>4 DEF Keeps, Quiet, Buries
<1>10. ~ListRunning(c) /\ ~ReadOwner(c)
  <2>1. pc[c] # "owner"
      BY DEF IInv, Places, CancelPC
  <2> QED BY <1>0, <2>1 DEF ListRunning, ReadOwner, At
<1> QED BY <1>2, <1>3, <1>4, <1>5, <1>6, <1>7, <1>8, <1>9, <1>10 DEF CancelActs, TakerActs

LEMMA NextPromised ==
    ASSUME NEW r, OnlyRun(r), Recovers = {}, IInv(r), Steady(r), Promised(r),
           ~MayCancelQueued, [Next]_vars
    PROVE  Promised(r)' /\ Keeps(r)
<1>1. CASE UNCHANGED vars \/ Expire \/ \E p \in Proc : Crash(p)
  <2>1. UNCHANGED <<rec, pc, job>> /\ up' \subseteq up
      BY <1>1 DEF vars, Expire, Crash, store
  <2>2. Alive(r)' => Alive(r)
      BY <2>1 DEF Alive
  <2>3. Promised(r)'
      BY <2>1, <2>2 DEF Promised, OneAttempt, RecordFollows, CancelsAgree
  <2> QED BY <2>1, <2>2, <2>3 DEF Keeps, Quiet, Works
<1>2. CASE RunActs(r)
    BY <1>2, RunPromised
<1>3. ASSUME NEW c \in Cancels, CancelActs(c) PROVE Promised(r)' /\ Keeps(r)
    BY <1>3, CancelsPromised
<1>4. ASSUME NEW c \in Call, c # r, TakerActs(c) PROVE Promised(r)' /\ Keeps(r)
    BY <1>4, WhoIsWho, CancelsPromised
<1>5. Handled(r)
    BY DEF Steady
<1> QED BY <1>1, <1>2, <1>3, <1>4, <1>5, WhoSteps

LEMMA InitPromised ==
    ASSUME NEW r, OnlyRun(r), Init
    PROVE  Promised(r)
    BY Others DEF Init, Promised, OneAttempt, RecordFollows, CancelsAgree, Unstarted, Stopped, Settled

(* What a step does to the record is what JobRecord allows, or nothing. *)
LEMMA KeepsIsPromised ==
    ASSUME NEW r, OnlyRun(r), Places(r), Places(r)', Keeps(r)
    PROVE  [Promise!Next]_(Promise!vars)
<1> DEFINE worked == \E c \in Drivers : Alive(c) /\ pc[c] \in {"spawn", "drive", "final"}
<1>1. worked <=> Works(r)
    BY WhoWorks
<1>2. worked' <=> Works(r)'
    BY DEF OnlyRun, Works, Places, RunPC
<1>3. worked \in BOOLEAN /\ worked' \in BOOLEAN
    OBVIOUS
<1> HIDE DEF worked
<1>4. CASE Quiet(r)
  <2>1. CASE Works(r)' <=> Works(r)
    <3>1. worked' = worked
        BY <1>1, <1>2, <1>3, <2>1
    <3> QED BY <1>4, <3>1 DEF Quiet, Promise!vars, worked
  <2>2. CASE Works(r) /\ ~Works(r)'
    <3>1. worked /\ worked' = FALSE
        BY <1>1, <1>2, <1>3, <2>2
    <3>2. Promise!Die
        BY <1>4, <3>1 DEF Quiet, Promise!Die, worked
    <3> QED BY <3>2 DEF Promise!Next
  <2> QED BY <1>4, <2>1, <2>2 DEF Quiet
<1>5. CASE Creates(r)
  <2>1. worked' = worked
      BY <1>1, <1>2, <1>3, <1>5 DEF Creates
  <2>2. Promise!Create
      BY <1>5, <2>1 DEF Creates, Promise!Create, worked
  <2> QED BY <2>2 DEF Promise!Next
<1>6. CASE Starts(r)
  <2>1. ~worked /\ worked' \in BOOLEAN
      BY <1>1, <1>3, <1>6 DEF Starts
  <2>2. Promise!Start
      BY <1>6, <2>1 DEF Starts, Promise!Start, worked
  <2> QED BY <2>2 DEF Promise!Next
<1>7. CASE Refuses(r)
  <2>1. ~worked /\ worked' = worked
      BY <1>1, <1>2, <1>3, <1>7 DEF Refuses
  <2>2. Promise!Refuse
      BY <1>7, <2>1 DEF Refuses, Promise!Refuse, worked
  <2> QED BY <2>2 DEF Promise!Next
<1>8. CASE Concludes(r)
  <2>1. worked /\ worked' = FALSE
      BY <1>1, <1>2, <1>3, <1>8 DEF Concludes
  <2>2. Promise!End
      BY <1>8, <2>1 DEF Concludes, Stopped, Settled, Promise!End, worked
  <2> QED BY <2>2 DEF Promise!Next
<1>9. CASE Buries(r)
  <2>1. ~worked /\ worked' = worked
      BY <1>1, <1>2, <1>3, <1>9 DEF Buries
  <2>2. Promise!Settle
      BY <1>9, <2>1 DEF Buries, Promise!Settle, worked
  <2> QED BY <2>2 DEF Promise!Next
<1> QED BY <1>4, <1>5, <1>6, <1>7, <1>8, <1>9 DEF Keeps

(* A reader of job.status sees what JobRecord promises, whichever process    *)
(* wrote it: one run, any number of cancels from anywhere, any crashes.      *)
(* JobEngine implements JobRecord, step by step.                             *)
THEOREM RecordIsPromised ==
    ASSUME NEW r, OnlyRun(r), Recovers = {}, ~MayStall, ~MayCancelQueued
    PROVE  Safety => KeepsThePromise
<1>1. Init => IInv(r) /\ Steady(r) /\ Promised(r) /\ Promise!Init
  <2>1. ASSUME Init PROVE Promise!Init
    <3>1. ~\E c \in Drivers : Alive(c) /\ pc[c] \in {"spawn", "drive", "final"}
        BY <2>1 DEF Init, Drivers
    <3>2. rec.status = "none" /\ rec.attempt = 0
        BY <2>1 DEF Init, Unstarted
    <3> QED BY <3>1, <3>2 DEF Promise!Init
  <2> QED BY <2>1, InitIInv, InitSteady, InitPromised
<1>2. IInv(r) /\ Steady(r) /\ Promised(r) /\ [Next]_vars
        => IInv(r)' /\ Steady(r)' /\ Promised(r)' /\ [Promise!Next]_(Promise!vars)
  <2> SUFFICES ASSUME IInv(r), Steady(r), Promised(r), [Next]_vars
               PROVE  IInv(r)' /\ Steady(r)' /\ Promised(r)' /\ [Promise!Next]_(Promise!vars)
      OBVIOUS
  <2>1. IInv(r)' /\ Steady(r)' /\ Promised(r)' /\ Keeps(r)
      BY NextIInv, NextSteady, NextPromised
  <2>2. Places(r) /\ Places(r)'
      BY <2>1 DEF IInv
  <2> QED BY <2>1, <2>2, KeepsIsPromised
<1> QED
    BY <1>1, <1>2, PTL DEF Safety, KeepsThePromise, Promise!Spec

----------------------------------------------------------------------------
(* Any runs, resumes, answers, cancels and recoveries, from any processes.   *)
(* Nothing in the engine keeps two calls from beginning the job at once, nor *)
(* a cancel from burying a paused job that an answer has just taken up.      *)
(* Apart says that this does not happen; what follows is what the engine     *)
(* makes of it: the lease and the record keep every run to itself.           *)
Begins == {"load", "frontier", "clear", "lease", "control", "running", "refuse", "unlease"}
Working == {"spawn", "drive", "final"}
Busy == Begins \cup Working \cup {"release"}
Takers == {"fence", "second", "settle", "settling"}
Deciders == Takers \cup {"request", "look", "summary", "poll", "owner"}
Inert == {"idle", "join", "end"}

Are(c, places) == c \in Drivers /\ Alive(c) /\ pc[c] \in places
Nobody(places) == \A c \in Drivers : ~Are(c, places)

Apart == \A c \in Drivers, d \in Call :
            c # d /\ Are(c, Begins) /\ Alive(d) => pc[d] \notin Begins \cup {"bury"}

(* Where each kind of call can stand, and whose tasks can be cancelled. *)
ResumePC == {"idle", "frontier", "clear", "lease", "control", "running", "refuse", "unlease",
             "spawn", "drive", "final", "release", "end"}
Part(c) == CASE KindOf[c] = "run" -> RunPC
             [] KindOf[c] = "cancel" -> CancelPC
             [] KindOf[c] = "recover" -> RecoverPC
             [] KindOf[c] \in {"resume", "answer"} -> ResumePC
Cast == \A c \in Call : pc[c] \in Part(c)
Tasks ==
    /\ killed \subseteq Drivers
    /\ \A p \in Proc : handle[p] # NoCall => handle[p] \in Drivers /\ ProcOf[handle[p]] = p
Orderly == TypeOK /\ Cast /\ Watched /\ Tasks

LEMMA Kinds ==
    ASSUME NEW c \in Call
    PROVE  /\ KindOf[c] \in Kind /\ ProcOf[c] \in Proc
           /\ c \in Drivers <=> KindOf[c] \in {"run", "resume", "answer"}
           /\ c \in Cancels <=> KindOf[c] = "cancel"
           /\ c \notin Drivers <=> KindOf[c] \in {"cancel", "recover"}
           /\ "end" \in Part(c) /\ "idle" \in Part(c)
    BY ConstantsAssumption DEF Drivers, Cancels, Kind, Part, RunPC, CancelPC, RecoverPC, ResumePC

(* What a place says of who stands there. *)
LEMMA Parts ==
    ASSUME NEW c \in Call, NEW place \in Part(c)
    PROVE  /\ place \in Busy => c \in Drivers
           /\ place \in Deciders \cup {"bury", "join"} => c \notin Drivers
           /\ place = "load" => KindOf[c] = "run"
           /\ place \in {"frontier", "clear", "spawn"} => KindOf[c] \in {"resume", "answer"}
           /\ place \in {"request", "look", "summary", "poll", "bury", "join"} => KindOf[c] = "cancel"
           /\ place = "owner" => KindOf[c] = "recover"
           /\ place \in Inert \cup Busy \cup Deciders \cup {"bury"}
           /\ c \in Drivers => place \in Inert \cup Busy
           /\ c \notin Drivers => place \in Inert \cup Deciders \cup {"bury"}
<1>1. CASE KindOf[c] = "run"
    BY <1>1, Kinds DEF Part, RunPC, Busy, Begins, Working, Deciders, Takers, Inert
<1>2. CASE KindOf[c] \in {"resume", "answer"}
    BY <1>2, Kinds DEF Part, ResumePC, Busy, Begins, Working, Deciders, Takers, Inert
<1>3. CASE KindOf[c] = "cancel"
    BY <1>3, Kinds DEF Part, CancelPC, Busy, Begins, Working, Deciders, Takers, Inert
<1>4. CASE KindOf[c] = "recover"
    BY <1>4, Kinds DEF Part, RecoverPC, Busy, Begins, Working, Deciders, Takers, Inert
<1> QED BY <1>1, <1>2, <1>3, <1>4, Kinds DEF Kind

LEMMA Placed ==
    ASSUME Cast, NEW c \in Call
    PROVE  /\ pc[c] \in Busy => c \in Drivers
           /\ pc[c] \in Deciders \cup {"bury", "join"} => c \notin Drivers
           /\ pc[c] = "load" => KindOf[c] = "run"
           /\ pc[c] \in {"frontier", "clear", "spawn"} => KindOf[c] \in {"resume", "answer"}
           /\ pc[c] \in {"request", "look", "summary", "poll", "bury", "join"} => KindOf[c] = "cancel"
           /\ pc[c] = "owner" => KindOf[c] = "recover"
           /\ pc[c] \in Inert \cup Busy \cup Deciders \cup {"bury"}
           /\ c \in Drivers => pc[c] \in Inert \cup Busy
           /\ c \notin Drivers => pc[c] \in Inert \cup Deciders \cup {"bury"}
<1>1. pc[c] \in Part(c)
    BY DEF Cast
<1> QED BY <1>1, Parts

(* A call that leaves its heartbeat alone goes on to another of its places.  *)
LEMMA GoesOn ==
    ASSUME Orderly, TypeOK', NEW c \in Call, NEW next \in Part(c) \ {"drive"}, Goto(c, next),
           pc[c] # "drive", UNCHANGED <<hb, killed>>
    PROVE  Orderly'
<1>1. /\ pc'[c] \in {next, "end"} /\ \A d \in Call : d # c => pc'[d] = pc[d]
    BY GotoMoves DEF Orderly
<1>2. Cast'
    BY <1>1, Kinds DEF Orderly, Cast, Part
<1>3. Watched'
    BY <1>1 DEF Orderly, Watched
<1>4. handle' = handle \/ handle' = [handle EXCEPT ![ProcOf[c]] = NoCall]
    BY DEF Goto, Ends
<1>5. Tasks'
    BY <1>4, Kinds DEF Orderly, Tasks, TypeOK
<1> QED BY <1>2, <1>3, <1>5 DEF Orderly

LEMMA NextOrderly ==
    ASSUME Orderly, [Next]_vars
    PROVE  Orderly'
<1> USE DEF store
<1>0. /\ TypeOK /\ TypeOK' /\ Cast /\ Watched /\ Tasks
    BY NextType DEF Orderly
<1>1. CASE UNCHANGED vars \/ Expire \/ \E p \in Proc : Crash(p)
  <2>1. UNCHANGED <<pc, hb, killed, handle>>
      BY <1>1 DEF vars, Expire, Crash
  <2> QED BY <1>0, <2>1 DEF Orderly, Cast, Part, Watched, Tasks
<1>2. ASSUME NEW c \in Call, Create(c) \/ Unlease(c) \/ MarkRunning(c) PROVE Orderly'
  <2>1. c \in Drivers /\ pc[c] # "drive"
      BY <1>0, <1>2, Kinds, Placed DEF Create, Invoked, At, Unlease, MarkRunning, Busy, Begins
  <2>2. CASE Create(c) \/ (Spawn(c) /\ KindOf[c] # "run")
    <3>1. \E place \in {"load", "spawn"} : pc' = [pc EXCEPT ![c] = place] /\ place \in Part(c)
        BY <2>1, <2>2, Kinds DEF Create, Spawn, Part, RunPC, ResumePC
    <3>2. pc'[c] \in Part(c) \ {"drive"} /\ \A d \in Call : d # c => pc'[d] = pc[d]
        BY <1>0, <3>1 DEF TypeOK
    <3>3. UNCHANGED <<hb, killed>> /\ handle' = [handle EXCEPT ![ProcOf[c]] = c]
      <4>1. CASE Create(c)
          BY <4>1 DEF Create
      <4>2. CASE Spawn(c) /\ KindOf[c] # "run" /\ ~Create(c)
          BY <1>2, <4>2 DEF Unlease, MarkRunning, Spawn
      <4> QED BY <2>2, <4>1, <4>2
    <3>4. Cast'
        BY <1>0, <3>2 DEF Cast, Part
    <3>5. Watched'
        BY <1>0, <2>1, <3>2, <3>3 DEF Watched
    <3>6. Tasks'
        BY <1>0, <2>1, <3>3, Kinds DEF Tasks, TypeOK
    <3> QED BY <1>0, <3>4, <3>5, <3>6 DEF Orderly
  <2>3. CASE KindOf[c] = "run" /\ MarkRunning(c)
    <3>1. /\ Goto(c, "drive") /\ killed' = killed
          /\ hb' = [hb EXCEPT ![c] = IF c \in killed THEN "off" ELSE "asleep"]
        BY <2>3 DEF MarkRunning
    <3>2. /\ pc'[c] = IF c \in killed THEN "end" ELSE "drive"
          /\ \A d \in Call : d # c => pc'[d] = pc[d] /\ hb'[d] = hb[d]
          /\ hb'[c] = IF c \in killed THEN "off" ELSE "asleep"
        BY <1>0, <3>1 DEF Goto, TypeOK
    <3>3. Cast'
        BY <1>0, <2>3, <3>2 DEF Cast, Part, RunPC
    <3>4. Watched'
        BY <1>0, <3>1, <3>2 DEF Watched
    <3>5. handle' = handle \/ handle' = [handle EXCEPT ![ProcOf[c]] = NoCall]
        BY <3>1 DEF Goto, Ends
    <3>6. Tasks'
        BY <1>0, <3>1, <3>5, Kinds DEF Tasks, TypeOK
    <3> QED BY <1>0, <3>3, <3>4, <3>6 DEF Orderly
  <2>4. CASE KindOf[c] = "run" /\ Unlease(c)
      BY <1>0, <2>1, <2>4, GoesOn, Kinds DEF Unlease, Orderly
  <2>5. CASE Create(c)
      BY <2>2, <2>5
  <2>6. CASE Unlease(c)
      BY <2>2, <2>4, <2>6 DEF Unlease
  <2>7. CASE MarkRunning(c)
      BY <2>2, <2>3, <2>7 DEF MarkRunning
  <2> QED BY <1>2, <2>5, <2>6, <2>7
<1>3. ASSUME NEW c \in Call, CancelHere(c) PROVE Orderly'
  <2> DEFINE t == handle[ProcOf[c]]
  <2>1. t \in Drivers /\ t \in Call /\ c \notin Drivers /\ c # t /\ KindOf[c] = "cancel" /\ pc[c] = "idle"
      BY <1>0, <1>3, Kinds DEF CancelHere, HasTask, Tasks, Invoked, At, Drivers
  <2> HIDE DEF t
  <2>2. "join" \in Part(c) /\ handle' = handle
      BY <1>3, <2>1 DEF Part, CancelPC, CancelHere
  <2>3. CASE /\ pc[t] = "drive" /\ pc' = [pc EXCEPT ![c] = "join", ![t] = "final"]
             /\ hb' = [hb EXCEPT ![t] = "off"] /\ killed' = killed
    <3>1. /\ pc'[c] = "join" /\ pc'[t] = "final" /\ hb'[t] = "off"
          /\ \A d \in Call : d # c /\ d # t => pc'[d] = pc[d]
          /\ \A d \in Call : d # t => hb'[d] = hb[d]
        BY <1>0, <2>1, <2>3 DEF TypeOK
    <3>2. "final" \in Part(t)
        BY <2>1, Kinds DEF Part, RunPC, ResumePC
    <3>3. Cast'
        BY <1>0, <2>1, <2>2, <3>1, <3>2 DEF Cast, Part
    <3>4. Watched'
        BY ZenonT(30), <1>0, <2>1, <2>3, <3>1 DEF Watched
    <3>5. Tasks'
        BY <1>0, <2>2, <2>3 DEF Tasks
    <3> QED BY <1>0, <3>3, <3>4, <3>5 DEF Orderly
  <2>4. CASE /\ pc[t] # "drive" /\ pc' = [pc EXCEPT ![c] = "join"]
             /\ killed' = killed \cup {t} /\ hb' = hb
    <3>1. pc'[c] = "join" /\ \A d \in Call : d # c => pc'[d] = pc[d]
        BY <1>0, <2>4 DEF TypeOK
    <3>2. Cast'
        BY <1>0, <2>2, <3>1 DEF Cast, Part
    <3>3. Watched'
        BY <1>0, <2>1, <2>4, <3>1 DEF Watched
    <3>4. Tasks'
        BY <1>0, <2>1, <2>2, <2>4 DEF Tasks
    <3> QED BY <1>0, <3>2, <3>3, <3>4 DEF Orderly
  <2> QED BY <1>3, <2>3, <2>4 DEF CancelHere, t
<1>4. ASSUME NEW c \in Call, EnterDrive(c) \/ Apply(c) \/ Finish(c) \/ Raise(c) \/ Renew(c) \/ Escape(c) \/ Tick(c) PROVE Orderly'
  <2>1. c \in Drivers /\ killed' = killed
    <3>1. c \in Drivers
        BY <1>0, <1>4, Placed DEF EnterDrive, Apply, Finish, Raise, Renew, Escape, Tick, At, Tasks, Watched, Busy, Working
    <3> QED BY <1>4, <3>1 DEF EnterDrive, Apply, Finish, Raise, Renew, Escape, Tick
  <2>2. handle' = handle \/ handle' = [handle EXCEPT ![ProcOf[c]] = NoCall]
      BY <1>4 DEF EnterDrive, Apply, Finish, Raise, Renew, Escape, Tick, Ends
  <2>3. Tasks'
      BY <1>0, <2>1, <2>2, Kinds DEF Tasks, TypeOK
  <2>4. \/ /\ pc' = pc /\ \E beat \in {"asleep", "renew"} : hb' = [hb EXCEPT ![c] = beat]
           /\ pc[c] = "drive"
        \/ pc' = pc /\ hb' = hb
        \/ /\ pc' = [pc EXCEPT ![c] = "drive"] /\ pc[c] = "spawn" /\ c \notin killed
           /\ hb' = [hb EXCEPT ![c] = "asleep"]
        \/ \E place \in {"final", "end"} : pc' = [pc EXCEPT ![c] = place] /\ hb' = [hb EXCEPT ![c] = "off"]
        \/ pc' = [pc EXCEPT ![c] = "end"] /\ c \in killed /\ hb' = hb
      BY <1>0, <1>4 DEF EnterDrive, Apply, Finish, Raise, Renew, Escape, Tick, Conclude, At, Watched
  <2>5. /\ \A d \in Call : d # c => pc'[d] = pc[d] /\ hb'[d] = hb[d]
        /\ pc'[c] \in {pc[c], "final", "end"} \/ (pc[c] = "spawn" /\ pc'[c] = "drive")
        /\ hb'[c] # "off" => pc'[c] = "drive"
        /\ c \in killed => pc'[c] # "drive"
    <3>1. \A place : pc' = [pc EXCEPT ![c] = place] => pc'[c] = place /\ \A d \in Call : d # c => pc'[d] = pc[d]
        BY <1>0 DEF TypeOK
    <3>2. \A beat : hb' = [hb EXCEPT ![c] = beat] => hb'[c] = beat /\ \A d \in Call : d # c => hb'[d] = hb[d]
        BY <1>0 DEF TypeOK
    <3>3. /\ hb[c] # "off" => pc[c] = "drive"
          /\ c \in killed => pc[c] # "drive"
        BY <1>0 DEF Watched
    <3> QED BY <2>4, <3>1, <3>2, <3>3
  <2>6. Cast'
    <3>1. pc[c] \in Part(c) /\ {"final", "end"} \subseteq Part(c)
        BY <1>0, <2>1, Kinds DEF Part, RunPC, ResumePC, Cast
    <3>2. pc[c] = "spawn" => "drive" \in Part(c)
        BY <1>0, Kinds, Placed DEF Part, ResumePC
    <3>3. pc'[c] \in Part(c)
        BY <2>5, <3>1, <3>2
    <3> QED BY <1>0, <2>5, <3>3 DEF Cast, Part
  <2>7. Watched'
      BY <1>0, <2>1, <2>5 DEF Watched
  <2> QED BY <1>0, <2>3, <2>6, <2>7 DEF Orderly
<1>5. ASSUME NEW c \in Call, LoadStopped(c) \/ CancelElsewhere(c) \/ ListRunning(c) \/ LoadQueued(c) \/ AskFrontier(c) PROVE Orderly'
  <2>1. pc[c] # "drive" /\ UNCHANGED <<hb, killed>>
      BY <1>5 DEF LoadStopped, CancelElsewhere, ListRunning, LoadQueued, AskFrontier, At, Invoked
  <2>2. \E next \in Part(c) \ {"drive"} : Goto(c, next)
    <3>1. CASE LoadStopped(c) \/ AskFrontier(c)
        BY <1>0, <3>1, Kinds, Placed DEF LoadStopped, AskFrontier, At, Part, ResumePC
    <3>2. CASE CancelElsewhere(c)
        BY <3>2, Kinds DEF CancelElsewhere, Part, CancelPC
    <3>3. CASE ListRunning(c)
        BY <3>3, Kinds DEF ListRunning, Part, RecoverPC
    <3>4. CASE LoadQueued(c)
        BY <3>4, Kinds DEF LoadQueued, Part, RunPC
    <3> QED BY <1>5, <3>1, <3>2, <3>3, <3>4
  <2> QED BY <1>0, <2>1, <2>2, GoesOn DEF Orderly
<1>6. ASSUME NEW c \in Call, ClearCancel(c) \/ SaveLease(c) \/ HearCancel(c) \/ Refuse(c) \/ PersistEnding(c) \/ Release(c) PROVE Orderly'
  <2>1. pc[c] # "drive" /\ UNCHANGED <<hb, killed>> /\ c \in Drivers
      BY <1>0, <1>6, Placed DEF ClearCancel, SaveLease, HearCancel, Refuse, PersistEnding, Release, At, Busy, Begins, Working
  <2>2. {"lease", "control", "refuse", "running", "unlease", "release", "end"} \subseteq Part(c)
      BY <2>1, Kinds DEF Part, RunPC, ResumePC
  <2>3. \E next \in Part(c) \ {"drive"} : Goto(c, next)
      BY <1>6, <2>2 DEF ClearCancel, SaveLease, HearCancel, Refuse, PersistEnding, Release
  <2> QED BY <1>0, <2>1, <2>3, GoesOn DEF Orderly
<1>7. ASSUME NEW c \in Call, Join(c) \/ Request(c) \/ Bury(c) \/ Look(c) \/ ReadSummary(c) \/ Poll(c) \/ Deadline(c) PROVE Orderly'
  <2>1. pc[c] # "drive" /\ UNCHANGED <<hb, killed>> /\ KindOf[c] = "cancel"
      BY <1>0, <1>7, Placed DEF Join, Request, Bury, Look, ReadSummary, Poll, Deadline, At
  <2>2. {"look", "bury", "summary", "fence", "poll", "end"} \subseteq Part(c)
      BY <2>1 DEF Part, CancelPC
  <2>3. \E next \in Part(c) \ {"drive"} : Goto(c, next)
      BY <1>7, <2>2 DEF Join, Request, Bury, Look, ReadSummary, Poll, Deadline
  <2> QED BY <1>0, <2>1, <2>3, GoesOn DEF Orderly
<1>8. ASSUME NEW c \in Call, ReadOwner(c) \/ Fence(c) \/ SecondLook(c) \/ Settle(c) \/ WriteSettlement(c) PROVE Orderly'
  <2>1. pc[c] # "drive" /\ UNCHANGED <<hb, killed>> /\ KindOf[c] \in {"cancel", "recover"}
      BY <1>0, <1>8, Placed, Kinds DEF ReadOwner, Fence, SecondLook, Settle, WriteSettlement, At, Deciders, Takers
  <2>2. /\ {"fence", "second", "settle", "settling", "end"} \subseteq Part(c)
        /\ KindOf[c] = "cancel" => "poll" \in Part(c)
      BY <2>1 DEF Part, CancelPC, RecoverPC
  <2>3. \E next \in Part(c) \ {"drive"} : Goto(c, next)
      BY <1>8, <2>2 DEF ReadOwner, Fence, SecondLook, Settle, WriteSettlement
  <2> QED BY <1>0, <2>1, <2>3, GoesOn DEF Orderly
<1> QED BY <1>1, <1>2, <1>3, <1>4, <1>5, <1>6, <1>7, <1>8 DEF Next, Proceed

(* What the record says while a call begins the job: what the call awaits,   *)
(* and the attempt it is about to open.                                      *)
Awaits(c) == CASE KindOf[c] = "run" -> {"queued"}
               [] KindOf[c] = "resume" -> Resumable
               [] KindOf[c] = "answer" -> {"needs_input"}
Opens(c) == IF KindOf[c] = "run" THEN rec.attempt ELSE rec.attempt + 1

(* A call that drives the job, from its load to its release: the record      *)
(* waits for it, then says RUNNING of its attempt, and the lease is its own. *)
Stands(c) ==
    /\ pc[c] \in Begins => rec.status \in Awaits(c) /\ pc[c] \notin {"refuse", "unlease"}
    /\ pc[c] \in {"lease", "control"} => ~cancelReq
    /\ pc[c] = "frontier" => job[c].attempt = rec.attempt
    /\ pc[c] \in {"clear", "lease", "control", "running"} => job[c].attempt = Opens(c)
    /\ pc[c] \in {"running", "spawn", "drive"} => job[c].status = "running"
    /\ pc[c] \in Working => rec.status = "running" /\ job[c].attempt = rec.attempt
    /\ pc[c] = "final" => job[c].status \in Stopped
    /\ pc[c] \in Holding => lease = Mine(ProcOf[c], TRUE)

(* A call that decides about a job it saw RUNNING: nobody begins it, and who *)
(* takes it over found nobody there.  A call that buries a paused job finds  *)
(* nobody at work.                                                           *)
Decides(c) ==
    /\ pc[c] \in Deciders => /\ rec.status \notin {"none", "queued"}
                             /\ job[c].attempt = rec.attempt
                             /\ Nobody(Begins)
    /\ pc[c] \in Deciders \ {"settling"} => job[c].status = "running"
    /\ pc[c] = "settling" => job[c].status \in {"failed", "cancelled"}
    /\ pc[c] \in Takers => Nobody(Busy)
    /\ pc[c] = "summary" => \A d \in Drivers : Are(d, Busy) => seen[c] = Mine(ProcOf[d], TRUE)
    /\ pc[c] = "bury" => job[c].attempt = rec.attempt /\ Nobody(Working)

Alone == \A c, d \in Drivers : Are(c, Busy) /\ Are(d, Busy) => c = d
Unborn == rec.status = "none" => \A c \in Call : pc[c] \in Inert
Unheard == rec.status \in {"none", "queued"} => ~cancelReq

Owned ==
    /\ Alone /\ Unborn /\ Unheard
    /\ \A c \in Drivers : Alive(c) => Stands(c)
    /\ \A c \in Call \ Drivers : Alive(c) => Decides(c)

Many == Orderly /\ Owned

LEMMA Inertia ==
    ASSUME NEW c \in Call
    PROVE  /\ pc[c] \in Inert => Stands(c) /\ Decides(c)
           /\ pc[c] \notin Busy => Stands(c)
           /\ Holding \subseteq Busy /\ Begins \subseteq Busy /\ Working \subseteq Busy
           /\ Working \cup {"release"} \subseteq Holding
           /\ Busy \cap (Deciders \cup Inert \cup {"bury"}) = {}
           /\ Begins \cap Working = {} /\ "release" \notin Begins \cup Working
           /\ Takers \subseteq Deciders
           /\ Inert \cap (Deciders \cup {"bury"}) = {}
           /\ Deciders \cup {"release", "bury"} = Closing
    BY DEF Stands, Decides, Inert, Begins, Working, Busy, Holding, Takers, Deciders, Closing

(* A step of the call that drives the job, which takes it no further back.   *)
LEMMA DriverStep ==
    ASSUME Many, Orderly', Apart, NEW c \in Drivers, Are(c, Busy), up' = up,
           \A d \in Call \ {c} : pc'[d] \in {pc[d]} \cup Inert /\ job'[d] = job[d] /\ seen'[d] = seen[d],
           cancelReq' => cancelReq,
           rec'.status # "none", rec'.status = "queued" => rec.status = "queued",
           pc[c] \notin Begins => pc'[c] \notin Begins /\ rec'.attempt = rec.attempt,
           pc[c] = "release" => pc'[c] \in Inert \cup {"release"},
           Stands(c)'
    PROVE  Many'
<1>1. c \in Call /\ Drivers \subseteq Call
    BY DEF Drivers
<1>2. ASSUME NEW d \in Drivers, d # c PROVE ~Are(d, Busy) /\ ~Are(d, Busy)'
  <2>1. ~Are(d, Busy)
      BY <1>2 DEF Many, Owned, Alone
  <2>2. Alive(d)' <=> Alive(d)
      BY DEF Alive
  <2>3. pc'[d] \in Busy => pc[d] \in Busy
      BY <1>1, <1>2, Inertia
  <2> QED BY <2>1, <2>2, <2>3 DEF Are
<1>3. Alone'
    BY <1>2 DEF Alone
<1>4. Unborn' /\ Unheard'
    BY DEF Unborn, Unheard, Many, Owned
<1>5. ASSUME NEW d \in Drivers, Alive(d)' PROVE Stands(d)'
  <2>1. CASE d = c
      BY <2>1
  <2>2. CASE d # c
    <3>1. pc'[d] \notin Busy
        BY <1>2, <1>5, <2>2 DEF Are
    <3> QED BY <3>1 DEF Stands, Busy, Begins, Working, Holding
  <2> QED BY <2>1, <2>2
<1>6. ASSUME NEW d \in Call \ Drivers, Alive(d)' PROVE Decides(d)'
  <2>1. Alive(d) /\ d # c /\ Decides(d)
      BY <1>6 DEF Alive, Many, Owned
  <2>2. CASE pc'[d] \in Inert
      BY <2>2 DEF Decides, Inert, Deciders, Takers
  <2>3. CASE pc'[d] = pc[d]
    <3>1. pc[d] \notin Takers
        BY <2>1 DEF Decides, Nobody
    <3>2. pc[d] \in Deciders => pc[c] \notin Begins
        BY <2>1 DEF Decides, Nobody, Are
    <3>3. pc[d] \in Deciders => Nobody(Begins)'
      <4>1. pc[d] \in Deciders => pc'[c] \notin Begins
          BY <3>2
      <4>2. ASSUME NEW e \in Drivers, e # c PROVE ~Are(e, Begins)'
          BY <1>2, <4>2, Inertia DEF Are, Busy
      <4> QED BY <4>1, <4>2 DEF Nobody, Are
    <3>4. pc[d] = "bury" => pc[c] = "release"
      <4>1. pc[d] = "bury" => pc[c] \notin Begins
          BY <2>1 DEF Apart, Are
      <4>2. pc[d] = "bury" => pc[c] \notin Working
          BY <2>1 DEF Decides, Nobody, Are
      <4> QED BY <4>1, <4>2 DEF Are, Busy
    <3>5. pc[d] = "bury" => Nobody(Working)'
      <4>1. pc[d] = "bury" => pc'[c] \notin Working
          BY <3>4, Inertia, <1>1 DEF Inert, Working
      <4>2. ASSUME NEW e \in Drivers, e # c PROVE ~Are(e, Working)'
          BY <1>2, <4>2 DEF Are, Busy
      <4> QED BY <4>1, <4>2 DEF Nobody, Are
    <3>6. pc[d] = "summary" => \A e \in Drivers : Are(e, Busy)' => seen'[d] = Mine(ProcOf[e], TRUE)
        BY <1>2, <2>1 DEF Decides
    <3>7. pc[d] \in Deciders => rec'.attempt = rec.attempt /\ rec'.status \notin {"none", "queued"}
        BY <2>1, <3>2 DEF Decides
    <3>8. pc[d] = "bury" => rec'.attempt = rec.attempt
        BY <3>4, Inertia, <1>1
    <3>9. job'[d] = job[d] /\ seen'[d] = seen[d]
        BY <2>1
    <3> QED BY <2>1, <2>3, <3>1, <3>3, <3>5, <3>6, <3>7, <3>8, <3>9 DEF Decides
  <2> QED BY <2>1, <2>2, <2>3
<1> QED BY <1>3, <1>4, <1>5, <1>6 DEF Many, Owned

(* A step of a call that drives nothing.                                     *)
LEMMA OtherStep ==
    ASSUME Many, Orderly', NEW c \in Call, up' = up, ~Are(c, Busy), ~Are(c, Busy)',
           \A d \in Call \ {c} : pc'[d] = pc[d] /\ job'[d] = job[d] /\ seen'[d] = seen[d],
           c \notin Drivers => Decides(c)',
           rec'.attempt = rec.attempt,
           rec'.status \in {"none", "queued"} => rec'.status = rec.status,
           rec' = rec \/ (Nobody(Begins) /\ Nobody(Working)),
           lease' = lease \/ Nobody(Busy),
           (cancelReq' => cancelReq) \/ (Nobody(Begins) /\ rec.status \notin {"none", "queued"}),
           rec'.status = "none" => pc'[c] \in Inert
    PROVE  Many'
<1>1. Drivers \subseteq Call
    BY DEF Drivers
<1>2. ASSUME NEW d \in Drivers PROVE Are(d, Busy)' <=> Are(d, Busy)
    BY <1>1 DEF Are, Alive
<1>3. Alone'
    BY <1>2 DEF Alone, Many, Owned
<1>4. Unborn' /\ Unheard'
    BY DEF Unborn, Unheard, Many, Owned
<1>5. ASSUME NEW d \in Drivers, Alive(d)' PROVE Stands(d)'
  <2>1. CASE ~Are(d, Busy)
    <3>1. pc'[d] \notin Busy
        BY <1>2, <1>5, <2>1 DEF Are
    <3> QED BY <3>1 DEF Stands, Busy, Begins, Working, Holding
  <2>2. CASE Are(d, Busy)
    <3>1. d # c /\ Alive(d) /\ Stands(d)
        BY <2>2 DEF Are, Many, Owned
    <3>2. pc'[d] = pc[d] /\ job'[d] = job[d]
        BY <1>1, <3>1
    <3>3. lease' = lease
        BY <2>2 DEF Nobody
    <3>4. pc[d] \in Begins \cup Working => rec' = rec
        BY <3>1 DEF Nobody, Are
    <3>5. pc[d] \in {"lease", "control"} => ~cancelReq'
        BY <3>1 DEF Nobody, Are, Begins, Stands
    <3> QED BY <3>1, <3>2, <3>3, <3>4, <3>5 DEF Stands, Opens, Begins, Working
  <2> QED BY <2>1, <2>2
<1>6. ASSUME NEW d \in Call \ Drivers, Alive(d)' PROVE Decides(d)'
  <2>1. CASE d = c
      BY <1>6, <2>1
  <2>2. CASE d # c
    <3>1. Alive(d) /\ Decides(d) /\ pc'[d] = pc[d] /\ job'[d] = job[d] /\ seen'[d] = seen[d]
        BY <1>6, <2>2 DEF Alive, Many, Owned
    <3>2. \A places \in {Begins, Working, Busy} : Nobody(places)' = Nobody(places)
      <4>1. ASSUME NEW places \in {Begins, Working, Busy}, NEW e \in Drivers
            PROVE  Are(e, places)' <=> Are(e, places)
        <5>1. CASE e = c
            BY <4>1, <5>1, Inertia, <1>1 DEF Are
        <5>2. CASE e # c
            BY <5>2, <1>1 DEF Are, Alive
        <5> QED BY <5>1, <5>2
      <4> QED BY <4>1 DEF Nobody
    <3> QED BY <1>2, <3>1, <3>2 DEF Decides
  <2> QED BY <2>1, <2>2
<1> QED BY <1>3, <1>4, <1>5, <1>6 DEF Many, Owned

(* A call begins the job: whoever else is alive has nothing to do with it.   *)
LEMMA BeginStep ==
    ASSUME Many, Orderly', NEW c \in Drivers, Stands(c)',
           rec'.status # "none", rec'.status = "queued" => ~cancelReq',
           \A d \in Call \ {c} : Alive(d)' => pc'[d] \in Inert
    PROVE  Many'
<1>1. Drivers \subseteq Call
    BY DEF Drivers
<1>2. ASSUME NEW d \in Drivers, d # c PROVE ~Are(d, Busy)'
    BY <1>1, <1>2, Inertia DEF Are
<1>3. Alone'
    BY <1>2 DEF Alone
<1>4. Unborn' /\ Unheard'
    BY DEF Unborn, Unheard
<1>5. ASSUME NEW d \in Drivers, Alive(d)' PROVE Stands(d)'
    BY <1>1, <1>5, Inertia DEF Stands, Inert, Begins, Working, Holding
<1>6. ASSUME NEW d \in Call \ Drivers, Alive(d)' PROVE Decides(d)'
    BY <1>1, <1>6 DEF Decides, Inert, Deciders, Takers
<1> QED BY <1>3, <1>4, <1>5, <1>6 DEF Many, Owned

(* No stall lets the lease of a run that keeps it expire; a crash takes its  *)
(* calls out of the picture.                                                 *)
LEMMA CrashOrExpire ==
    ASSUME Many, Orderly', ~MayStall, Expire \/ \E p \in Proc : Crash(p)
    PROVE  Many'
<1>1. /\ UNCHANGED <<rec, cancelReq, pc, job, seen>>
      /\ \A c \in Call : Alive(c)' => Alive(c)
    BY DEF Expire, Crash, store, Alive
<1>2. \A c \in Drivers : \A places : Are(c, places)' => Are(c, places)
    BY <1>1 DEF Are, Drivers
<1>3. ASSUME NEW c \in Drivers, Are(c, Holding) PROVE lease' = lease
  <2>1. CASE Expire
    <3>1. lease = Mine(ProcOf[c], TRUE)
        BY <1>3 DEF Are, Many, Owned, Stands
    <3>2. Renewing(lease.owner)
        BY <1>3, <3>1 DEF Renewing, Are, Alive, Mine, Drivers
    <3> QED BY <2>1, <3>2 DEF Expire
  <2>2. CASE \E p \in Proc : Crash(p)
      BY <2>2 DEF Crash, store
  <2> QED BY <2>1, <2>2
<1>4. Alone' /\ Unborn' /\ Unheard'
    BY <1>1, <1>2 DEF Many, Owned, Alone, Unborn, Unheard
<1>5. ASSUME NEW c \in Drivers, Alive(c)' PROVE Stands(c)'
  <2>1. Alive(c) /\ Stands(c)
      BY <1>1, <1>5 DEF Many, Owned, Drivers
  <2>2. pc[c] \in Holding => lease' = lease
      BY <1>3, <2>1 DEF Are
  <2> QED BY <1>1, <2>1, <2>2 DEF Stands, Opens
<1>6. ASSUME NEW c \in Call \ Drivers, Alive(c)' PROVE Decides(c)'
  <2>1. Decides(c)
      BY <1>1, <1>6 DEF Many, Owned
  <2> QED BY <1>1, <1>2, <2>1 DEF Decides, Nobody
<1> QED BY <1>4, <1>5, <1>6 DEF Many, Owned

LEMMA StandsNowhere ==
    ASSUME NEW c \in Call, pc'[c] \in Inert
    PROVE  Stands(c)' /\ Decides(c)'
    BY DEF Stands, Decides, Inert, Begins, Working, Holding, Deciders, Takers

(* The steps a call takes before its run is RUNNING. *)
LEMMA BeginsMany ==
    ASSUME Many, Orderly', Apart, NEW c \in Call,
           \/ LoadQueued(c) \/ AskFrontier(c) \/ ClearCancel(c) \/ SaveLease(c) \/ HearCancel(c)
           \/ Refuse(c) \/ Unlease(c) \/ MarkRunning(c)
    PROVE  Many'
<1> USE DEF store
<1>0. /\ TypeOK /\ Cast /\ Watched /\ Tasks /\ up' = up
      /\ c \in Drivers /\ Are(c, Busy) /\ Are(c, Begins) /\ Stands(c)
      /\ pc[c] \in Begins \ {"refuse", "unlease"} /\ rec.status \in Awaits(c)
  <2>1. /\ TypeOK /\ Cast /\ Watched /\ Tasks /\ up' = up
        /\ Alive(c) /\ pc[c] \in Begins
      BY DEF Many, Orderly, LoadQueued, AskFrontier, ClearCancel, SaveLease, HearCancel, Refuse, Unlease, MarkRunning, At, Begins
  <2>2. c \in Drivers /\ Stands(c)
      BY <2>1, Placed, Inertia DEF Many, Owned, Busy
  <2> QED BY <2>1, <2>2, Inertia DEF Are, Stands, Busy
<1>1. rec.status \notin {"none", "running"} /\ (KindOf[c] = "run" => rec.status = "queued")
    BY <1>0, Kinds DEF Awaits, Resumable
<1>2. ASSUME UNCHANGED <<rec, seen>>, cancelReq' => cancelReq,
             \A d \in Call \ {c} : pc'[d] = pc[d] /\ job'[d] = job[d],
             Stands(c)'
      PROVE  Many'
    BY <1>0, <1>1, <1>2, DriverStep DEF Begins
<1>3. CASE LoadQueued(c)
  <2>1. pc[c] = "load" /\ pc'[c] \in {"lease", "end"} /\ \A d \in Call : d # c => pc'[d] = pc[d]
      BY <1>0, <1>3, GotoMoves DEF LoadQueued, At
  <2>2. UNCHANGED <<rec, seen, lease, cancelReq>> /\ job'[c] = rec /\ \A d \in Call : d # c => job'[d] = job[d]
      BY <1>0, <1>3 DEF LoadQueued, TypeOK
  <2>3. KindOf[c] = "run" /\ rec.status = "queued" /\ ~cancelReq
      BY <1>0, <1>1, <2>1, Placed DEF Many, Owned, Unheard
  <2>4. Stands(c)'
      BY <2>1, <2>2, <2>3 DEF Stands, Begins, Working, Holding, Awaits, Opens
  <2> QED BY <1>2, <2>1, <2>2, <2>4
<1>4. CASE AskFrontier(c)
  <2>1. pc[c] = "frontier" /\ pc'[c] \in {"clear", "end"} /\ \A d \in Call : d # c => pc'[d] = pc[d]
      BY <1>0, <1>4, GotoMoves DEF AskFrontier, At
  <2>2. /\ UNCHANGED <<rec, seen, lease, cancelReq>> /\ \A d \in Call : d # c => job'[d] = job[d]
        /\ frontier => job'[c].attempt = job[c].attempt + 1
        /\ ~frontier => pc'[c] = "end"
      BY <1>0, <1>4, GotoMoves DEF AskFrontier, TypeOK, Record
  <2>3. KindOf[c] # "run" /\ job[c].attempt = rec.attempt
      BY <1>0, <2>1, Placed DEF Stands
  <2>4. Stands(c)'
      BY <1>0, <2>1, <2>2, <2>3 DEF Stands, Begins, Working, Holding, Awaits, Opens
  <2> QED BY <1>2, <2>1, <2>2, <2>4
<1>5. CASE ClearCancel(c)
  <2>1. pc[c] = "clear" /\ pc'[c] \in {"lease", "end"} /\ \A d \in Call : d # c => pc'[d] = pc[d]
      BY <1>0, <1>5, GotoMoves DEF ClearCancel, At
  <2>2. UNCHANGED <<rec, seen, lease, job>> /\ cancelReq' = FALSE
      BY <1>5 DEF ClearCancel
  <2>3. Stands(c)'
      BY <1>0, <2>1, <2>2 DEF Stands, Begins, Working, Holding, Awaits, Opens
  <2> QED BY <1>2, <2>1, <2>2, <2>3
<1>6. CASE SaveLease(c)
  <2>1. pc[c] = "lease" /\ pc'[c] \in {"control", "end"} /\ \A d \in Call : d # c => pc'[d] = pc[d]
      BY <1>0, <1>6, GotoMoves DEF SaveLease, At
  <2>2. UNCHANGED <<rec, seen, cancelReq, job>> /\ lease' = Mine(ProcOf[c], TRUE)
      BY <1>6 DEF SaveLease
  <2>3. Stands(c)'
      BY <1>0, <2>1, <2>2 DEF Stands, Begins, Working, Holding, Awaits, Opens
  <2> QED BY <1>2, <2>1, <2>2, <2>3
<1>7. CASE HearCancel(c)
  <2>1. /\ pc[c] = "control" /\ ~cancelReq
        /\ pc'[c] \in {"running", "end"} /\ \A d \in Call : d # c => pc'[d] = pc[d]
      BY <1>0, <1>7, GotoMoves DEF HearCancel, At, Stands
  <2>2. UNCHANGED <<rec, seen, cancelReq, lease>> /\ job' = [job EXCEPT ![c].status = "running"]
      BY <1>7, <2>1 DEF HearCancel, SetJob
  <2>3. /\ job'[c].status = "running" /\ job'[c].attempt = job[c].attempt
        /\ \A d \in Call : d # c => job'[d] = job[d]
      BY <1>0, <2>2 DEF TypeOK, Record
  <2>4. Stands(c)'
      BY <1>0, <2>1, <2>2, <2>3 DEF Stands, Begins, Working, Holding, Awaits, Opens
  <2> QED BY <1>2, <2>1, <2>2, <2>3, <2>4
<1>8. CASE MarkRunning(c)
  <2>1. pc[c] = "running" /\ UNCHANGED <<lease, cancelReq, job, seen>> /\ rec' = job[c]
      BY <1>8 DEF MarkRunning, At
  <2>2. pc'[c] \in {"drive", "spawn", "end"} /\ \A d \in Call : d # c => pc'[d] = pc[d]
    <3>1. CASE KindOf[c] = "run"
        BY <1>0, <1>8, <3>1, GotoMoves DEF MarkRunning
    <3>2. CASE KindOf[c] # "run"
        BY <1>0, <1>8, <3>2 DEF MarkRunning, Spawn, TypeOK
    <3> QED BY <3>1, <3>2
  <2>3. rec'.status = "running" /\ rec' = job'[c] /\ job'[c].status = "running" /\ lease = Mine(ProcOf[c], TRUE)
      BY <1>0, <2>1 DEF Stands, Holding
  <2>4. Stands(c)'
      BY <2>1, <2>2, <2>3 DEF Stands, Begins, Working, Holding
  <2> QED BY <1>0, <2>1, <2>2, <2>3, <2>4, DriverStep DEF Begins
<1> QED BY <1>0, <1>3, <1>4, <1>5, <1>6, <1>7, <1>8 DEF Refuse, Unlease, At

(* The steps of a run at work, or giving its lease up. *)
LEMMA WorksMany ==
    ASSUME Many, Orderly', Apart, NEW c \in Call,
           \/ EnterDrive(c) \/ Apply(c) \/ Finish(c) \/ Raise(c) \/ Tick(c) \/ Renew(c)
           \/ PersistEnding(c) \/ Release(c)
    PROVE  Many'
<1> USE DEF store
<1>0. /\ TypeOK /\ Cast /\ Watched /\ up' = up /\ seen' = seen /\ cancelReq' = cancelReq
      /\ c \in Drivers /\ Are(c, Busy) /\ Stands(c) /\ lease = Mine(ProcOf[c], TRUE)
      /\ pc[c] \in Working \cup {"release"}
      /\ rec.status # "none"
  <2>1. /\ TypeOK /\ Cast /\ Watched /\ Alive(c) /\ pc[c] \in Working \cup {"release"}
      BY DEF Many, Orderly, Watched, EnterDrive, Apply, Finish, Raise, Tick, Renew, PersistEnding, Release, At, Working
  <2>2. c \in Drivers /\ Stands(c)
      BY <2>1, Placed DEF Many, Owned, Busy
  <2>3. /\ up' = up /\ seen' = seen /\ cancelReq' = cancelReq
      BY DEF EnterDrive, Apply, Finish, Raise, Tick, Renew, PersistEnding, Release
  <2>4. rec.status # "none"
      BY <2>1 DEF Many, Owned, Unborn, Working, Inert
  <2> QED BY <2>1, <2>2, <2>3, <2>4, Inertia DEF Are, Stands, Busy
<1>1. pc[c] \notin Begins
    BY <1>0, Inertia DEF Working
<1>2. ASSUME rec' = rec, \A d \in Call \ {c} : pc'[d] = pc[d] /\ job'[d] = job[d],
             pc'[c] \notin Begins, pc[c] = "release" => pc'[c] = "end", Stands(c)'
      PROVE  Many'
    BY <1>0, <1>1, <1>2, DriverStep DEF Inert
<1>3. CASE EnterDrive(c)
  <2>1. /\ pc[c] = "spawn" /\ pc'[c] = "drive" /\ UNCHANGED <<rec, lease, job>>
        /\ \A d \in Call : d # c => pc'[d] = pc[d]
      BY <1>0, <1>3 DEF EnterDrive, At, TypeOK
  <2>2. Stands(c)'
      BY <1>0, <2>1 DEF Stands, Begins, Working, Holding
  <2> QED BY <1>2, <2>1, <2>2 DEF Begins
<1>4. CASE Apply(c)
  <2>1. pc[c] = "drive" /\ rec' = job[c] /\ UNCHANGED <<pc, lease, job>>
      BY <1>4 DEF Apply, At
  <2>2. job[c].status = "running" /\ job[c].attempt = rec.attempt
      BY <1>0, <2>1 DEF Stands, Working
  <2>3. Stands(c)'
      BY <1>0, <2>1, <2>2 DEF Stands, Begins, Working, Holding
  <2> QED BY <1>0, <1>1, <2>1, <2>2, <2>3, DriverStep
<1>5. CASE Finish(c) \/ Raise(c) \/ Tick(c)
  <2>1. pc[c] = "drive" /\ UNCHANGED <<rec, lease>>
      BY <1>0, <1>5 DEF Finish, Raise, Tick, At, Watched
  <2>2. \/ pc' = [pc EXCEPT ![c] = "end"] /\ job' = job
        \/ pc' = [pc EXCEPT ![c] = "final"] /\ \E s \in Stopped : job' = [job EXCEPT ![c].status = s]
        \/ pc' = pc /\ job' = job
      BY <1>5 DEF Finish, Raise, Tick, Conclude, SetJob, Stopped, Settled
  <2>3. /\ \/ pc'[c] = "end"
           \/ pc'[c] = "drive" /\ job'[c] = job[c]
           \/ pc'[c] = "final" /\ job'[c].attempt = job[c].attempt /\ job'[c].status \in Stopped
        /\ \A d \in Call : d # c => pc'[d] = pc[d] /\ job'[d] = job[d]
      BY <1>0, <2>1, <2>2 DEF TypeOK, Record
  <2>4. Stands(c)'
      BY <1>0, <2>1, <2>3 DEF Stands, Begins, Working, Holding
  <2> QED BY <1>2, <2>1, <2>3, <2>4 DEF Begins
<1>6. CASE Renew(c)
  <2>1. pc[c] = "drive" /\ UNCHANGED <<rec, pc, job>> /\ lease' = lease
      BY <1>0, <1>6 DEF Renew, Watched
  <2>2. Stands(c)'
      BY <1>0, <2>1 DEF Stands, Begins, Working, Holding
  <2> QED BY <1>2, <2>1, <2>2 DEF Begins
<1>7. CASE PersistEnding(c)
  <2>1. /\ pc[c] = "final" /\ rec' = job[c] /\ UNCHANGED <<lease, job>>
        /\ pc'[c] \in {"release", "end"} /\ \A d \in Call : d # c => pc'[d] = pc[d]
      BY <1>0, <1>7, GotoMoves DEF PersistEnding, At
  <2>2. job[c].status \notin {"none", "queued"} /\ job[c].attempt = rec.attempt
      BY <1>0, <2>1 DEF Stands, Working, Stopped, Settled
  <2>3. Stands(c)'
      BY <1>0, <2>1 DEF Stands, Begins, Working, Holding
  <2> QED BY <1>0, <1>1, <2>1, <2>2, <2>3, DriverStep DEF Begins
<1>8. CASE Release(c)
  <2>1. /\ pc[c] = "release" /\ UNCHANGED <<rec, job>>
        /\ pc'[c] = "end" /\ \A d \in Call : d # c => pc'[d] = pc[d]
      BY <1>0, <1>8, GotoMoves DEF Release, At
  <2>2. Stands(c)'
      BY <1>0, <2>1, StandsNowhere DEF Inert, Drivers
  <2> QED BY <1>2, <2>1, <2>2 DEF Begins
<1> QED BY <1>3, <1>4, <1>5, <1>6, <1>7, <1>8

(* A task cancelled where nothing catches it is gone. *)
LEMMA EscapeMany ==
    ASSUME Many, Orderly', Apart, NEW c \in Call, Escape(c)
    PROVE  Many'
<1>1. /\ TypeOK /\ c \in Drivers /\ Alive(c) /\ pc'[c] = "end"
      /\ UNCHANGED <<rec, lease, cancelReq, up, job, seen>>
      /\ \A d \in Call : d # c => pc'[d] = pc[d]
    BY DEF Many, Orderly, Tasks, Escape, store, TypeOK
<1>2. Stands(c)'
    BY <1>1, StandsNowhere DEF Inert
<1>3. CASE Are(c, Busy)
  <2>1. rec.status # "none"
      BY <1>3 DEF Are, Many, Owned, Unborn, Busy, Begins, Working, Inert
  <2> QED BY <1>1, <1>2, <1>3, <2>1, DriverStep DEF Inert, Begins
<1>4. CASE ~Are(c, Busy)
  <2>1. ~Are(c, Busy)'
      BY <1>1 DEF Are, Busy, Begins, Working
  <2> QED BY <1>1, <1>4, <2>1, OtherStep DEF Inert
<1> QED BY <1>3, <1>4

(* A call begins: create_job, or _begin_resume while nobody else ...         *)
LEMMA CreateMany ==
    ASSUME Many, Orderly', NEW c \in Call, Create(c)
    PROVE  Many'
<1>1. /\ TypeOK /\ c \in Drivers /\ pc'[c] = "load" /\ KindOf[c] = "run"
      /\ rec.status = "none" /\ rec'.status = "queued" /\ UNCHANGED <<cancelReq, up>>
      /\ \A d \in Call : d # c => pc'[d] = pc[d]
    BY DEF Many, Orderly, Drivers, Create, Invoked, At, TypeOK
<1>2. ~cancelReq /\ \A d \in Call : pc[d] \in Inert
    BY <1>1 DEF Many, Owned, Unheard, Unborn
<1>3. Stands(c)'
    BY <1>1 DEF Stands, Begins, Working, Holding, Awaits
<1> QED BY <1>1, <1>2, <1>3, BeginStep DEF Inert

(* ... deals with the job, and no other call has begun it already.           *)
First(c) == pc'[c] = "frontier" => \A d \in Call \ {c} : Alive(d) => pc[d] \notin Begins

LEMMA ResumeMany ==
    ASSUME Many, Orderly', ~MayOvertake, NEW c \in Call, LoadStopped(c), First(c)
    PROVE  Many'
<1>1. /\ TypeOK /\ Cast /\ c \in Drivers /\ KindOf[c] \in {"resume", "answer"}
      /\ Alive(c) /\ pc[c] = "idle" /\ rec.status # "none"
      /\ UNCHANGED <<rec, lease, cancelReq, up, seen>> /\ job'[c] = rec
      /\ \A d \in Call : d # c => job'[d] = job[d]
    BY DEF Many, Orderly, Drivers, LoadStopped, Invoked, At, store, TypeOK
<1>2. /\ pc'[c] \in {"frontier", "end"} /\ \A d \in Call : d # c => pc'[d] = pc[d]
      /\ pc'[c] = "frontier" => rec.status \in Awaits(c)
    BY <1>1, GotoMoves DEF LoadStopped, Awaits
<1>3. CASE pc'[c] = "end"
  <2>1. ~Are(c, Busy) /\ ~Are(c, Busy)'
      BY <1>1, <1>3 DEF Are, Busy, Begins, Working
  <2> QED BY <1>1, <1>2, <1>3, <2>1, OtherStep
<1>4. CASE pc'[c] = "frontier"
  <2>1. ASSUME NEW d \in Call \ {c}, Alive(d)' PROVE pc'[d] \in Inert
    <3>1. Alive(d) /\ pc'[d] = pc[d] /\ pc[d] \notin Closing
        BY <1>1, <1>2, <2>1 DEF LoadStopped, Alive
    <3>2. pc[d] \notin Deciders \cup {"release", "bury"}
        BY <3>1, Inertia
    <3>3. pc[d] \notin Begins
        BY <1>4, <2>1, <3>1 DEF First
    <3>4. pc[d] \notin Working
      <4>1. d \in Drivers /\ pc[d] \in Working => rec.status = "running"
          BY <3>1 DEF Many, Owned, Stands
      <4>2. rec.status # "running"
          BY <1>1, <1>2, <1>4 DEF Awaits, Resumable
      <4> QED BY <1>1, <4>1, <4>2, Placed DEF Busy
    <3> QED BY <1>1, <3>1, <3>2, <3>3, <3>4, Placed DEF Busy
  <2>2. Stands(c)'
      BY <1>1, <1>2, <1>4 DEF Stands, Begins, Working, Holding, Awaits
  <2>3. rec'.status # "queued"
      BY <1>1, <1>2, <1>4 DEF Awaits, Resumable
  <2> QED BY <1>1, <2>1, <2>2, <2>3, BeginStep
<1> QED BY <1>2, <1>3, <1>4

(* A cancel in the process of the run: it may stop the run in its stream.    *)
LEMMA CancelHereMany ==
    ASSUME Many, Orderly', Apart, NEW c \in Call, CancelHere(c)
    PROVE  Many'
<1>0. /\ TypeOK /\ Cast /\ Watched /\ Tasks /\ c \in Cancels /\ c \notin Drivers
      /\ pc[c] = "idle" /\ UNCHANGED <<rec, lease, cancelReq, up, seen>> /\ Alive(c)
    BY Kinds DEF Many, Orderly, CancelHere, Invoked, At, store, Cancels
<1>1. PICK t \in Drivers : t = handle[ProcOf[c]] /\ t \in Call /\ Alive(t)
    BY <1>0, Kinds DEF Tasks, CancelHere, HasTask, Drivers, Alive
<1>2. CASE pc[t] = "drive"
  <2>1. /\ pc' = [pc EXCEPT ![c] = "join", ![t] = "final"]
        /\ job' = [job EXCEPT ![t].status = "cancelled"]
      BY <1>1, <1>2 DEF CancelHere, SetJob
  <2>2. /\ pc'[c] = "join" /\ pc'[t] = "final" /\ \A d \in Call \ {c, t} : pc'[d] = pc[d]
        /\ job'[t].status = "cancelled" /\ job'[t].attempt = job[t].attempt
        /\ \A d \in Call \ {t} : job'[d] = job[d]
      BY <1>0, <1>1, <2>1 DEF TypeOK, Record
  <2>3. Are(t, Busy) /\ Stands(t)
      BY <1>0, <1>1, <1>2 DEF Are, Alive, Busy, Working, Many, Owned
  <2>4. rec.status = "running" /\ job[t].attempt = rec.attempt /\ lease = Mine(ProcOf[t], TRUE)
      BY <1>2, <2>3 DEF Stands, Working, Holding
  <2>5. Stands(t)'
    <3>1. pc'[t] = "final" /\ job'[t].status \in Stopped /\ UNCHANGED <<rec, lease>>
        BY <1>0, <1>1, <2>2 DEF Stopped, Settled
    <3> QED BY <2>2, <2>4, <3>1 DEF Stands, Begins, Working, Holding
  <2>6. \A d \in Call \ {t} : pc'[d] \in {pc[d]} \cup Inert /\ job'[d] = job[d] /\ seen'[d] = seen[d]
      BY <1>0, <1>1, <2>2 DEF Inert
  <2>7. pc[t] \notin Begins /\ pc'[t] \notin Begins
      BY <1>2, <2>2 DEF Begins
  <2>8. pc[t] # "release" /\ rec' = rec /\ cancelReq' = cancelReq /\ up' = up
      BY <1>0, <1>1, <1>2
  <2> QED BY <1>1, <2>3, <2>4, <2>5, <2>6, <2>7, <2>8, DriverStep
<1>3. CASE pc[t] # "drive"
  <2>1. pc' = [pc EXCEPT ![c] = "join"] /\ job' = job
      BY <1>1, <1>3 DEF CancelHere
  <2>2. pc'[c] = "join" /\ \A d \in Call : d # c => pc'[d] = pc[d]
      BY <1>0, <1>1, <2>1 DEF TypeOK
  <2>3. Decides(c)'
      BY <2>2, StandsNowhere DEF Inert
  <2> QED BY <1>0, <1>1, <2>1, <2>2, <2>3, OtherStep DEF Are, Inert
<1> QED BY <1>2, <1>3

(* Whoever drives the job past its beginning is seen to hold the lease.      *)
LEMMA SeenAlive ==
    ASSUME Many, Nobody(Begins), NEW d \in Drivers, Are(d, Busy)
    PROVE  lease = Mine(ProcOf[d], TRUE) /\ \A p \in Proc : ~OwnerIsGone(lease, p)
<1>1. d \in Call /\ Alive(d) /\ pc[d] \in Working \cup {"release"} /\ Stands(d)
    BY DEF Nobody, Are, Busy, Drivers, Many, Owned
<1>2. lease = Mine(ProcOf[d], TRUE)
    BY <1>1, Inertia DEF Stands
<1>3. lease # NoLease
    BY <1>1, <1>2, MineType, ConstantsAssumption
<1> QED BY <1>1, <1>2, <1>3 DEF Mine, OwnerIsGone, DeathIsCertain, PidGone, Alive

(* A call that drives nothing decides by what is there as it moves.          *)
LEMMA DecidesNext ==
    ASSUME NEW c \in Call \ Drivers, up' = up, \A d \in Call \ {c} : pc'[d] = pc[d],
           pc'[c] \in Deciders => /\ rec'.status \notin {"none", "queued"}
                                 /\ job'[c].attempt = rec'.attempt
                                 /\ Nobody(Begins),
           pc'[c] \in Deciders \ {"settling"} => job'[c].status = "running",
           pc'[c] = "settling" => job'[c].status \in {"failed", "cancelled"},
           pc'[c] \in Takers => Nobody(Busy),
           pc'[c] = "summary" => \A d \in Drivers : Are(d, Busy) => seen'[c] = Mine(ProcOf[d], TRUE),
           pc'[c] = "bury" => job'[c].attempt = rec'.attempt /\ Nobody(Working)
    PROVE  Decides(c)'
<1>1. \A d \in Drivers : d \in Call \ {c} /\ pc'[d] = pc[d] /\ (Alive(d)' <=> Alive(d))
    BY DEF Drivers, Alive
<1>2. /\ Nobody(Begins) => Nobody(Begins)'
      /\ Nobody(Working) => Nobody(Working)'
      /\ Nobody(Busy) => Nobody(Busy)'
    BY <1>1 DEF Nobody, Are
<1>3. \A d \in Drivers : Are(d, Busy)' <=> Are(d, Busy)
    BY <1>1 DEF Are
<1> QED BY <1>2, <1>3 DEF Decides

(* The steps of the calls that decide about the job.                         *)
LEMMA DecidesMany ==
    ASSUME Many, Orderly', Apart, ~MayCancelQueued, NEW c \in Call,
           \/ CancelElsewhere(c) \/ Join(c) \/ Request(c) \/ Bury(c) \/ Look(c) \/ ReadSummary(c)
           \/ Poll(c) \/ Deadline(c)
           \/ ListRunning(c) \/ ReadOwner(c) \/ Fence(c) \/ SecondLook(c) \/ Settle(c) \/ WriteSettlement(c)
    PROVE  Many'
<1> USE DEF store
<1>0. /\ TypeOK /\ Cast /\ up' = up /\ c \in Call \ Drivers /\ c \notin killed /\ Alive(c) /\ Decides(c)
      /\ ~Are(c, Busy) /\ ~Are(c, Busy)'
  <2>1. TypeOK /\ Cast /\ up' = up /\ Alive(c) /\ killed \subseteq Drivers
      BY DEF Many, Orderly, Tasks, CancelElsewhere, Join, Request, Bury, Look, ReadSummary, Poll, Deadline,
          ListRunning, ReadOwner, Fence, SecondLook, Settle, WriteSettlement, At, Invoked
  <2>2. KindOf[c] \in {"cancel", "recover"} \/ pc[c] \in Deciders \cup {"bury", "join"}
      BY DEF CancelElsewhere, Join, Request, Bury, Look, ReadSummary, Poll, Deadline,
          ListRunning, ReadOwner, Fence, SecondLook, Settle, WriteSettlement, At, Deciders, Takers
  <2>3. c \notin Drivers
      BY <2>1, <2>2, Kinds, Placed
  <2> QED BY <2>1, <2>3 DEF Many, Owned, Are
<1>1. ASSUME UNCHANGED <<rec, lease, cancelReq>>, rec.status = "none" => pc'[c] \in Inert,
             \A d \in Call \ {c} : pc'[d] = pc[d] /\ job'[d] = job[d] /\ seen'[d] = seen[d],
             Decides(c)'
      PROVE  Many'
    BY <1>0, <1>1, OtherStep
<1>2. rec.status = "running" => Nobody(Begins)
  <2>1. ASSUME NEW d \in Drivers, Are(d, Begins) PROVE rec.status \in Awaits(d)
      BY <2>1 DEF Are, Many, Owned, Stands
  <2> QED BY <2>1, Kinds DEF Nobody, Awaits, Resumable, Drivers, Kind
<1>3. CASE CancelElsewhere(c)
  <2>1. /\ UNCHANGED <<rec, lease, cancelReq, seen>> /\ job'[c] = rec /\ \A d \in Call : d # c => job'[d] = job[d]
        /\ rec.status \notin {"none", "queued"}
      BY <1>0, <1>3 DEF CancelElsewhere, TypeOK
  <2>2. /\ pc'[c] \in {"request", "bury", "end"} /\ \A d \in Call : d # c => pc'[d] = pc[d]
        /\ pc'[c] = "request" => rec.status = "running"
        /\ pc'[c] = "bury" => rec.status = "needs_input"
      BY <1>0, <1>3, <2>1, GotoMoves DEF CancelElsewhere
  <2>3. rec.status = "needs_input" => Nobody(Working)
      BY DEF Nobody, Are, Many, Owned, Stands
  <2>4. Decides(c)'
      BY <1>0, <1>2, <2>1, <2>2, <2>3, DecidesNext DEF Deciders, Takers
  <2> QED BY <1>1, <2>1, <2>2, <2>4
<1>4. CASE Join(c) \/ Deadline(c)
  <2>1. UNCHANGED <<rec, lease, cancelReq, seen>> /\ \A d \in Call : d # c => job'[d] = job[d]
      BY <1>0, <1>4 DEF Join, Deadline, TypeOK
  <2>2. pc'[c] = "end" /\ \A d \in Call : d # c => pc'[d] = pc[d]
      BY <1>0, <1>4, GotoMoves DEF Join, Deadline
  <2> QED BY <1>1, <2>1, <2>2, StandsNowhere DEF Inert
<1>5. ASSUME pc[c] \in Deciders
      PROVE  /\ rec.status \notin {"none", "queued"} /\ job[c].attempt = rec.attempt /\ Nobody(Begins)
             /\ pc[c] # "settling" => job[c].status = "running"
             /\ pc[c] \in Takers => Nobody(Busy)
    BY <1>0, <1>5 DEF Decides
<1>6. CASE Request(c)
  <2>1. pc[c] = "request" /\ pc[c] \in Deciders /\ UNCHANGED <<rec, lease, job, seen>>
      BY <1>6 DEF Request, At, Deciders
  <2>2. pc'[c] = "look" /\ \A d \in Call : d # c => pc'[d] = pc[d]
      BY <1>0, <1>5, <1>6, <2>1, GotoMoves DEF Request
  <2>3. Decides(c)'
      BY <1>0, <1>5, <2>1, <2>2, DecidesNext DEF Takers
  <2> QED BY <1>0, <1>5, <2>1, <2>2, <2>3, OtherStep
<1>7. CASE Bury(c)
  <2>1. /\ pc[c] = "bury" /\ UNCHANGED <<lease, cancelReq, seen>>
        /\ job' = [job EXCEPT ![c].status = "cancelled"] /\ rec' = job'[c]
      BY <1>7 DEF Bury, At, SetJob
  <2>2. /\ job'[c].status = "cancelled" /\ job'[c].attempt = job[c].attempt
        /\ \A d \in Call : d # c => job'[d] = job[d]
      BY <1>0, <2>1 DEF TypeOK, Record
  <2>3. pc'[c] = "end" /\ \A d \in Call : d # c => pc'[d] = pc[d]
      BY <1>0, <1>7, GotoMoves DEF Bury
  <2>4. job[c].attempt = rec.attempt /\ Nobody(Working)
      BY <1>0, <2>1 DEF Decides
  <2>5. Nobody(Begins)
      BY <1>0, <2>1 DEF Nobody, Apart, Are
  <2>6. Decides(c)'
      BY <2>3, StandsNowhere DEF Inert
  <2> QED BY <1>0, <2>1, <2>2, <2>3, <2>4, <2>5, <2>6, OtherStep
<1>8. CASE Look(c) \/ ReadOwner(c)
  <2>1. /\ pc[c] \in {"look", "owner"} /\ pc[c] \in Deciders /\ UNCHANGED <<rec, lease, cancelReq, job>>
        /\ seen'[c] = lease /\ \A d \in Call : d # c => seen'[d] = seen[d]
      BY <1>0, <1>8 DEF Look, ReadOwner, At, Deciders, TypeOK
  <2>2. /\ pc'[c] \in {"summary", "fence", "end"} /\ \A d \in Call : d # c => pc'[d] = pc[d]
        /\ pc'[c] = "fence" => OwnerIsGone(lease, ProcOf[c])
      BY <1>0, <1>8, GotoMoves DEF Look, ReadOwner
  <2>3. \A d \in Drivers : Are(d, Busy) => lease = Mine(ProcOf[d], TRUE) /\ ~OwnerIsGone(lease, ProcOf[c])
      BY <1>5, <2>1, SeenAlive, Kinds
  <2>4. Decides(c)'
      BY <1>0, <1>5, <2>1, <2>2, <2>3, DecidesNext DEF Takers, Nobody
  <2> QED BY <1>1, <1>5, <2>1, <2>2, <2>4
<1>9. CASE ReadSummary(c)
  <2>1. /\ pc[c] = "summary" /\ pc[c] \in Deciders /\ UNCHANGED <<rec, lease, cancelReq, seen>>
        /\ job'[c] = rec /\ \A d \in Call : d # c => job'[d] = job[d]
      BY <1>0, <1>9 DEF ReadSummary, At, Deciders, TypeOK
  <2>2. /\ pc'[c] \in {"poll", "fence", "end"} /\ \A d \in Call : d # c => pc'[d] = pc[d]
        /\ pc'[c] # "end" => rec.status = "running"
        /\ pc'[c] = "fence" => OwnerIsGone(seen[c], ProcOf[c])
      BY <1>0, <1>9, GotoMoves DEF ReadSummary
  <2>3. \A d \in Drivers : Are(d, Busy) => ~OwnerIsGone(seen[c], ProcOf[c])
      BY ZenonT(30), <1>0, <1>5, <2>1, SeenAlive, Kinds DEF Decides
  <2>4. pc'[c] = "fence" => Nobody(Busy)
      BY <2>2, <2>3 DEF Nobody
  <2>5. Decides(c)'
      BY <1>0, <1>5, <2>1, <2>2, <2>4, DecidesNext DEF Takers, Deciders
  <2> QED BY <1>1, <1>5, <2>1, <2>2, <2>5
<1>10. CASE Poll(c)
  <2>1. pc[c] = "poll" /\ pc[c] \in Deciders /\ UNCHANGED <<rec, lease, cancelReq, job, seen>>
      BY <1>10 DEF Poll, At, Deciders
  <2>2. pc'[c] = "look" /\ \A d \in Call : d # c => pc'[d] = pc[d]
      BY <1>0, <1>10, GotoMoves DEF Poll
  <2>3. Decides(c)'
      BY <1>0, <1>5, <2>1, <2>2, DecidesNext DEF Takers
  <2> QED BY <1>1, <1>5, <2>1, <2>2, <2>3
<1>11. CASE ListRunning(c)
  <2>1. /\ UNCHANGED <<rec, lease, cancelReq, seen>>
        /\ job'[c] = rec /\ \A d \in Call : d # c => job'[d] = job[d]
      BY <1>0, <1>11 DEF ListRunning, TypeOK
  <2>2. /\ pc'[c] \in {"owner", "end"} /\ \A d \in Call : d # c => pc'[d] = pc[d]
        /\ pc'[c] = "owner" => rec.status = "running"
      BY <1>0, <1>11, GotoMoves DEF ListRunning
  <2>3. Decides(c)'
      BY <1>0, <1>2, <2>1, <2>2, DecidesNext DEF Takers, Deciders
  <2> QED BY <1>1, <2>1, <2>2, <2>3 DEF Inert
<1>12. CASE Fence(c)
  <2>1. /\ pc[c] = "fence" /\ pc[c] \in Deciders /\ pc[c] \in Takers
        /\ UNCHANGED <<rec, cancelReq, job, seen>>
      BY <1>12 DEF Fence, At, Deciders, Takers
  <2>2. pc'[c] \in {"settle", "second"} /\ \A d \in Call : d # c => pc'[d] = pc[d]
      BY <1>0, <1>12, GotoMoves DEF Fence
  <2>3. Decides(c)'
      BY <1>0, <1>5, <2>1, <2>2, DecidesNext
  <2> QED BY <1>0, <1>5, <2>1, <2>2, <2>3, OtherStep
<1>13. CASE SecondLook(c)
  <2>1. /\ pc[c] = "second" /\ pc[c] \in Deciders /\ pc[c] \in Takers
        /\ UNCHANGED <<rec, lease, cancelReq, job>>
        /\ \A d \in Call : d # c => seen'[d] = seen[d]
      BY <1>0, <1>13 DEF SecondLook, At, Deciders, Takers, TypeOK
  <2>2. pc'[c] \in {"settle", "poll", "end"} /\ \A d \in Call : d # c => pc'[d] = pc[d]
      BY <1>0, <1>13, GotoMoves DEF SecondLook
  <2>3. Decides(c)'
      BY <1>0, <1>5, <2>1, <2>2, DecidesNext
  <2> QED BY <1>1, <1>5, <2>1, <2>2, <2>3
<1>14. CASE Settle(c)
  <2>1. /\ pc[c] = "settle" /\ pc[c] \in Deciders /\ pc[c] \in Takers
        /\ UNCHANGED <<rec, lease, cancelReq, seen>>
      BY <1>14 DEF Settle, At, Deciders, Takers
  <2>2. /\ pc'[c] \in {"settling", "end"} /\ \A d \in Call : d # c => pc'[d] = pc[d]
        /\ pc'[c] = "settling" => \E s \in {"failed", "cancelled"} : job' = [job EXCEPT ![c].status = s]
      BY <1>0, <1>14, GotoMoves DEF Settle, SetJob
  <2>3. /\ pc'[c] = "settling" => job'[c].status \in {"failed", "cancelled"} /\ job'[c].attempt = job[c].attempt
        /\ \A d \in Call : d # c => job'[d] = job[d]
      BY <1>0, <1>14, <2>2 DEF Settle, SetJob, TypeOK, Record
  <2>4. Decides(c)'
      BY <1>0, <1>5, <2>1, <2>2, <2>3, DecidesNext DEF Deciders, Takers
  <2> QED BY <1>1, <1>5, <2>1, <2>2, <2>3, <2>4
<1>15. CASE WriteSettlement(c)
  <2>1. /\ pc[c] = "settling" /\ pc[c] \in Deciders /\ pc[c] \in Takers
        /\ UNCHANGED <<lease, cancelReq, job, seen>> /\ rec' = job[c]
      BY <1>15 DEF WriteSettlement, At, Deciders, Takers
  <2>2. pc'[c] = "end" /\ \A d \in Call : d # c => pc'[d] = pc[d]
      BY <1>0, <1>15, GotoMoves DEF WriteSettlement
  <2>3. job[c].status \in {"failed", "cancelled"}
      BY <1>0, <2>1 DEF Decides
  <2>4. Nobody(Begins) /\ Nobody(Working)
      BY <1>5, <2>1 DEF Nobody, Are, Busy
  <2>5. Decides(c)'
      BY <2>2, StandsNowhere DEF Inert
  <2> QED BY <1>0, <1>5, <2>1, <2>2, <2>3, <2>4, <2>5, OtherStep
<1> QED BY <1>3, <1>4, <1>6, <1>7, <1>8, <1>9, <1>10, <1>11, <1>12, <1>13, <1>14, <1>15

LEMMA InitMany == Init => Many
<1> SUFFICES ASSUME Init PROVE Many
    OBVIOUS
<1>1. /\ \A c \in Call : pc[c] = "idle" /\ hb[c] = "off"
      /\ \A p \in Proc : handle[p] = NoCall
      /\ killed = {} /\ cancelReq = FALSE /\ Drivers \subseteq Call
    BY DEF Init, Drivers
<1>2. Orderly
    BY <1>1, Kinds, InitType DEF Orderly, Cast, Watched, Tasks
<1>3. \A c \in Call : Stands(c) /\ Decides(c)
    BY <1>1, Inertia DEF Inert
<1>4. \A c \in Drivers : ~Are(c, Busy)
    BY <1>1 DEF Are, Busy, Begins, Working
<1>5. Alone /\ Unborn /\ Unheard
    BY <1>1, <1>4 DEF Alone, Unborn, Unheard, Inert
<1> QED BY <1>1, <1>2, <1>3, <1>5 DEF Many, Owned

LEMMA NextMany ==
    ASSUME Many, Apart, ~MayStall, ~MayOvertake, ~MayCancelQueued, [Next]_vars,
           \A c \in Call : LoadStopped(c) => First(c)
    PROVE  Many'
<1>0. Orderly'
    BY NextOrderly DEF Many
<1>1. CASE UNCHANGED vars
  <2>1. UNCHANGED <<rec, lease, cancelReq, up, pc, job, seen>>
      BY <1>1 DEF vars
  <2>2. Owned'
      BY <2>1 DEF Many, Owned, Alone, Unborn, Unheard, Stands, Decides, Nobody, Are, Alive, Opens
  <2> QED BY <1>0, <2>2 DEF Many
<1>2. CASE Expire \/ \E p \in Proc : Crash(p)
    BY <1>0, <1>2, CrashOrExpire
<1>3. ASSUME NEW c \in Call, Create(c) \/ LoadStopped(c) \/ CancelHere(c) \/ Escape(c)
      PROVE  Many'
    BY <1>0, <1>3, CreateMany, ResumeMany, CancelHereMany, EscapeMany
<1>4. ASSUME NEW c \in Call,
             \/ LoadQueued(c) \/ AskFrontier(c) \/ ClearCancel(c) \/ SaveLease(c) \/ HearCancel(c)
             \/ Refuse(c) \/ Unlease(c) \/ MarkRunning(c)
      PROVE  Many'
    BY <1>0, <1>4, BeginsMany
<1>5. ASSUME NEW c \in Call,
             \/ EnterDrive(c) \/ Apply(c) \/ Finish(c) \/ Raise(c) \/ Tick(c) \/ Renew(c)
             \/ PersistEnding(c) \/ Release(c)
      PROVE  Many'
    BY <1>0, <1>5, WorksMany
<1>6. ASSUME NEW c \in Call,
             \/ CancelElsewhere(c) \/ Join(c) \/ Request(c) \/ Bury(c) \/ Look(c) \/ ReadSummary(c)
             \/ Poll(c) \/ Deadline(c)
             \/ ListRunning(c) \/ ReadOwner(c) \/ Fence(c) \/ SecondLook(c) \/ Settle(c) \/ WriteSettlement(c)
      PROVE  Many'
    BY <1>0, <1>6, DecidesMany
<1> QED BY <1>1, <1>2, <1>3, <1>4, <1>5, <1>6 DEF Next, Proceed

LEMMA ApartIsFirst ==
    ASSUME Many, Orderly', Apart', NEW c \in Call, LoadStopped(c)
    PROVE  First(c)
<1> SUFFICES ASSUME pc'[c] = "frontier", NEW d \in Call \ {c}, Alive(d) PROVE pc[d] \notin Begins
    BY DEF First
<1>1. TypeOK /\ c \in Drivers /\ Alive(c) /\ up' = up
    BY DEF Many, Orderly, LoadStopped, Invoked, At, Drivers
<1>2. pc'[d] = pc[d]
    BY <1>1, GotoMoves DEF LoadStopped
<1>3. Are(c, Begins)' /\ Alive(d)'
    BY <1>1 DEF Are, Alive, Begins
<1> QED BY <1>1, <1>2, <1>3 DEF Apart

LEMMA ManyRuns ==
    ASSUME Many
    PROVE  OneRun /\ LiveRunLooksAlive
<1>1. ASSUME NEW c \in Drivers, Driving(c) PROVE Are(c, Busy) /\ lease = Mine(ProcOf[c], TRUE)
  <2>1. Stands(c) /\ Alive(c) /\ pc[c] \in {"spawn", "drive"}
      BY <1>1 DEF Driving, Many, Owned
  <2> QED BY <2>1 DEF Stands, Holding, Are, Busy, Working
<1> QED BY <1>1 DEF OneRun, LiveRunLooksAlive, Many, Owned, Alone

(* Two runs never work on one checkpoint at the same time: whatever calls    *)
(* are made on the job and from wherever - runs, resumes, answers, cancels,  *)
(* recoveries - and whatever processes crash, as long as nobody begins the   *)
(* job while somebody else begins or buries it (Apart), no event loop stalls *)
(* past the TTL, a resume waits for the last attempt to be dealt with, and   *)
(* no cancel from elsewhere finds the job QUEUED.                            *)
THEOREM RunsAreAlone ==
    ASSUME ~MayStall, ~MayOvertake, ~MayCancelQueued
    PROVE  Safety /\ []Apart => []OneRun
<1>1. Init => Many
    BY InitMany
<1>2. Many /\ Apart /\ Apart' /\ [Next]_vars => Many'
    BY NextMany, ApartIsFirst, NextOrderly DEF Many
<1>3. Many => OneRun
    BY ManyRuns
<1> QED
    BY <1>1, <1>2, <1>3, PTL DEF Safety

(* A run at work is never taken for dead, be it a resumed one.               *)
THEOREM ResumedRunsLookAlive ==
    ASSUME ~MayStall, ~MayOvertake, ~MayCancelQueued
    PROVE  Safety /\ []Apart => []LiveRunLooksAlive
<1>1. Init => Many
    BY InitMany
<1>2. Many /\ Apart /\ Apart' /\ [Next]_vars => Many'
    BY NextMany, ApartIsFirst, NextOrderly DEF Many
<1>3. Many => LiveRunLooksAlive
    BY ManyRuns
<1> QED
    BY <1>1, <1>2, <1>3, PTL DEF Safety

(* A script that keeps its calls apart by itself: each kind of call that     *)
(* drives the job is made at most once, and no cancel meets an answer.       *)
OneOfEach == \A c, d \in Drivers : KindOf[c] = KindOf[d] => c = d
NoAnswerIsCancelled == Cancels = {} \/ \A c \in Call : KindOf[c] # "answer"

LEMMA OneOfEachIsFirst ==
    ASSUME Many, OneOfEach, NEW c \in Call, LoadStopped(c)
    PROVE  First(c)
<1> SUFFICES ASSUME pc'[c] = "frontier", NEW d \in Call \ {c}, Alive(d), pc[d] \in Begins PROVE FALSE
    BY DEF First
<1>1. c \in Drivers /\ rec.status \in Awaits(c)
  <2>1. TypeOK /\ KindOf[c] \in {"resume", "answer"}
      BY DEF Many, Orderly, LoadStopped
  <2> QED BY <2>1, GotoMoves DEF LoadStopped, Awaits, Drivers
<1>2. d \in Drivers /\ rec.status \in Awaits(d)
  <2>1. d \in Drivers
      BY Placed DEF Busy, Many, Orderly
  <2> QED BY <2>1 DEF Many, Owned, Stands
<1>3. KindOf[c] # KindOf[d]
    BY <1>1, <1>2 DEF OneOfEach
<1> QED BY <1>1, <1>2, <1>3, Kinds DEF Awaits, Resumable, Kind

(* Who comes to begin the job, and who comes to bury it.                     *)
LEMMA Arrivals ==
    ASSUME TypeOK, [Next]_vars, NEW c \in Call
    PROVE  /\ pc'[c] \in Begins => pc[c] \in Begins \/ Create(c) \/ LoadStopped(c)
           /\ pc'[c] = "bury" => pc[c] = "bury" \/ CancelElsewhere(c) \/ Request(c)
<1> DEFINE Comes == /\ pc'[c] \in Begins => pc[c] \in Begins \/ Create(c) \/ LoadStopped(c)
                    /\ pc'[c] = "bury" => pc[c] = "bury" \/ CancelElsewhere(c) \/ Request(c)
<1>1. CASE UNCHANGED vars \/ Expire \/ \E p \in Proc : Crash(p)
    BY <1>1 DEF vars, Expire, Crash
<1>2. ASSUME NEW e \in Call, pc[e] \in Begins \/ pc'[e] \notin Begins, pc'[e] # "bury",
             \A d \in Call : d # e => pc'[d] = pc[d]
      PROVE  Comes
    BY <1>2
<1>3. ASSUME NEW e \in Call, Create(e) \/ LoadStopped(e) \/ CancelElsewhere(e) \/ Request(e) PROVE Comes
  <2>1. \A d \in Call : d # e => pc'[d] = pc[d]
      BY <1>3, GotoMoves DEF Create, LoadStopped, CancelElsewhere, Request, TypeOK
  <2>2. CASE Create(e) \/ LoadStopped(e)
    <3>1. pc'[e] # "bury"
        BY <2>2, GotoMoves DEF Create, LoadStopped, TypeOK
    <3> QED BY <2>1, <2>2, <3>1
  <2>3. CASE CancelElsewhere(e) \/ Request(e)
    <3>1. pc'[e] \notin Begins
        BY <2>3, GotoMoves DEF CancelElsewhere, Request, Begins
    <3> QED BY <2>1, <2>3, <3>1
  <2> QED BY <1>3, <2>2, <2>3
<1>4. ASSUME NEW e \in Call,
             \/ LoadQueued(e) \/ AskFrontier(e) \/ ClearCancel(e) \/ SaveLease(e) \/ HearCancel(e)
             \/ Refuse(e) \/ Unlease(e) \/ MarkRunning(e)
      PROVE  Comes
  <2>1. pc[e] \in Begins
      BY <1>4 DEF LoadQueued, AskFrontier, ClearCancel, SaveLease, HearCancel, Refuse, Unlease, MarkRunning, At, Begins
  <2>2. pc'[e] # "bury" /\ \A d \in Call : d # e => pc'[d] = pc[d]
    <3>1. CASE Spawn(e)
        BY <3>1 DEF Spawn, TypeOK
    <3>2. CASE \E next \in PC \ {"bury"} : Goto(e, next)
        BY <3>2, GotoMoves
    <3>3. {"lease", "end", "clear", "control", "refuse", "running", "unlease", "drive"} \subseteq PC \ {"bury"}
        BY DEF PC
    <3> QED BY <1>4, <3>1, <3>2, <3>3 DEF LoadQueued, AskFrontier, ClearCancel, SaveLease, HearCancel, Refuse, Unlease, MarkRunning
  <2> QED BY <1>2, <2>1, <2>2
<1>5. ASSUME NEW e \in Call,
             EnterDrive(e) \/ Apply(e) \/ Finish(e) \/ Raise(e) \/ Tick(e) \/ Renew(e) \/ Escape(e)
      PROVE  Comes
  <2>1. pc' = pc \/ \E place \in {"drive", "final", "end"} : pc' = [pc EXCEPT ![e] = place]
      BY <1>5 DEF EnterDrive, Apply, Finish, Raise, Tick, Renew, Escape, Conclude
  <2>2. \/ pc' = pc
        \/ pc'[e] \in {"drive", "final", "end"} /\ \A d \in Call : d # e => pc'[d] = pc[d]
      BY <2>1 DEF TypeOK
  <2> QED BY <1>2, <2>2 DEF Begins
<1>6. ASSUME NEW e \in Call, CancelHere(e) PROVE Comes
  <2>1. pc'[c] \in {pc[c], "join", "final"}
      BY <1>6 DEF CancelHere, TypeOK
  <2> QED BY <2>1 DEF Begins
<1>7. ASSUME NEW e \in Call,
             \/ PersistEnding(e) \/ Release(e)
             \/ Join(e) \/ Bury(e) \/ Look(e) \/ ReadSummary(e) \/ Poll(e) \/ Deadline(e)
             \/ ListRunning(e) \/ ReadOwner(e) \/ Fence(e) \/ SecondLook(e) \/ Settle(e) \/ WriteSettlement(e)
      PROVE  Comes
  <2>1. \E next \in {"release", "end", "summary", "fence", "poll", "look", "owner", "settle", "second", "settling"} : Goto(e, next)
      BY <1>7 DEF PersistEnding, Release, Join, Bury, Look, ReadSummary, Poll, Deadline, ListRunning,
          ReadOwner, Fence, SecondLook, Settle, WriteSettlement
  <2>2. /\ pc'[e] \in {"release", "end", "summary", "fence", "poll", "look", "owner", "settle", "second", "settling"}
        /\ \A d \in Call : d # e => pc'[d] = pc[d]
      BY <2>1, GotoMoves
  <2> QED BY <1>2, <2>2 DEF Begins
<1> QED BY <1>1, <1>3, <1>4, <1>5, <1>6, <1>7 DEF Next, Proceed

LEMMA NobodyRevives ==
    ASSUME [Next]_vars, NEW c \in Call, Alive(c)'
    PROVE  Alive(c)
<1> DEFINE Fewer == up' = up \/ \E p \in Proc : up' = up \ {p}
<1>1. ASSUME NEW e \in Call,
             Create(e) \/ LoadStopped(e) \/ CancelHere(e) \/ CancelElsewhere(e) \/ ListRunning(e)
      PROVE  up' = up
    BY <1>1 DEF Create, LoadStopped, CancelHere, CancelElsewhere, ListRunning, store
<1>2. ASSUME NEW e \in Call,
             \/ LoadQueued(e) \/ AskFrontier(e) \/ ClearCancel(e) \/ SaveLease(e) \/ HearCancel(e)
             \/ Refuse(e) \/ Unlease(e) \/ MarkRunning(e) \/ EnterDrive(e)
      PROVE  up' = up
    BY <1>2 DEF LoadQueued, AskFrontier, ClearCancel, SaveLease, HearCancel, Refuse, Unlease,
        MarkRunning, EnterDrive, store
<1>3. ASSUME NEW e \in Call,
             \/ PersistEnding(e) \/ Release(e) \/ Escape(e) \/ Join(e) \/ Request(e) \/ Bury(e)
             \/ Look(e) \/ ReadSummary(e) \/ Poll(e)
      PROVE  up' = up
    BY <1>3 DEF PersistEnding, Release, Escape, Join, Request, Bury, Look, ReadSummary, Poll, store
<1>4. ASSUME NEW e \in Call,
             ReadOwner(e) \/ Fence(e) \/ SecondLook(e) \/ Settle(e) \/ WriteSettlement(e)
      PROVE  up' = up
    BY <1>4 DEF ReadOwner, Fence, SecondLook, Settle, WriteSettlement, store
<1>5. ASSUME NEW e \in Call,
             Apply(e) \/ Finish(e) \/ Raise(e) \/ Tick(e) \/ Renew(e) \/ Deadline(e)
      PROVE  up' = up
    BY <1>5 DEF Apply, Finish, Raise, Tick, Renew, Deadline, store
<1>6. ASSUME \/ \E p \in Proc : Crash(p)
             \/ Expire
             \/ UNCHANGED vars
      PROVE  Fewer
    BY <1>6 DEF Crash, Expire, vars, store
<1>7. Fewer
  <2> HIDE DEF Fewer
  <2>1. (\E e \in Call : Proceed(e)) => up' = up
      BY <1>2, <1>3, <1>4 DEF Proceed
  <2>2. up' = up => Fewer
      BY DEF Fewer
  <2> QED BY <1>1, <1>5, <1>6, <2>1, <2>2 DEF Next
<1> QED BY <1>7 DEF Alive

LEMMA StaysApart ==
    ASSUME Many, Many', Apart, ~MayOvertake, ~MayCancelQueued, NoAnswerIsCancelled, [Next]_vars
    PROVE  Apart'
<1> SUFFICES ASSUME NEW c \in Drivers, NEW d \in Call, c # d, Are(c, Begins)', Alive(d)'
             PROVE  pc'[d] \notin Begins \cup {"bury"}
    BY DEF Apart
<1>1. pc'[d] \notin Begins
  <2>1. pc'[d] \in Part(d) /\ Alone'
      BY DEF Many, Orderly, Owned, Cast, Part
  <2>2. pc'[d] \in Begins => d \in Drivers /\ Are(d, Busy)'
      BY <2>1, Parts DEF Are, Busy
  <2>3. Are(c, Busy)'
      BY DEF Are, Busy
  <2> QED BY <2>1, <2>2, <2>3 DEF Alone
<1>2. ASSUME pc'[d] = "bury" PROVE FALSE
  <2>1. /\ TypeOK /\ c \in Call /\ Alive(c) /\ Alive(d) /\ pc'[c] \in Begins
        /\ pc[c] \in Begins \/ Create(c) \/ LoadStopped(c)
        /\ pc[d] = "bury" \/ CancelElsewhere(d) \/ Request(d)
      BY <1>2, NobodyRevives, Arrivals DEF Many, Orderly, Drivers, Are
  <2>2. CASE Are(c, Begins)
    <3>1. pc[d] # "bury"
        BY <2>1, <2>2 DEF Apart
    <3>2. ~Request(d)
      <4>1. pc[d] # "request"
        <5>1. CASE d \in Drivers
            BY <5>1, Placed DEF Many, Orderly, Deciders
        <5>2. CASE d \notin Drivers
            BY <2>1, <2>2, <5>2 DEF Many, Owned, Decides, Deciders, Nobody
        <5> QED BY <5>1, <5>2
      <4> QED BY <4>1 DEF Request, At
    <3>3. CancelElsewhere(d) => rec.status = "needs_input" /\ d \in Cancels
        BY <1>2, <2>1, GotoMoves DEF CancelElsewhere, Cancels
    <3>4. rec.status \in Awaits(c)
        BY <2>1, <2>2 DEF Are, Many, Owned, Stands
    <3>5. rec.status = "needs_input" => KindOf[c] = "answer"
        BY <2>1, <3>4, Kinds DEF Awaits, Resumable
    <3> QED BY <2>1, <3>1, <3>2, <3>3, <3>5 DEF NoAnswerIsCancelled
  <2>3. CASE pc[c] \notin Begins
    <3>1. pc'[d] = pc[d]
        BY <2>1, <2>3, GotoMoves DEF Create, LoadStopped, TypeOK
    <3>2. CASE Create(c)
      <4>1. pc[d] \in Inert
          BY <3>2 DEF Create, Many, Owned, Unborn
      <4> QED BY <1>2, <3>1, <4>1 DEF Inert
    <3>3. CASE LoadStopped(c)
        BY <1>2, <2>1, <3>1, <3>3 DEF LoadStopped, Closing
    <3> QED BY <2>1, <2>3, <3>2, <3>3
  <2> QED BY <2>1, <2>2, <2>3 DEF Are
<1> QED BY <1>1, <1>2

(* ... so that no environment need be asked for: a run that crashes, is      *)
(* recovered and cancelled from anywhere, and resumed, or recovered and      *)
(* answered as well, is one run at a time.                                   *)
THEOREM OneOfEachIsAlone ==
    ASSUME ~MayStall, ~MayOvertake, ~MayCancelQueued, OneOfEach, NoAnswerIsCancelled
    PROVE  Safety => []OneRun
<1>1. Init => Many /\ Apart
  <2>1. Init => Apart
      BY DEF Init, Apart, Are, Begins, Drivers
  <2> QED BY <2>1, InitMany
<1>2. Many /\ Apart /\ [Next]_vars => Many' /\ Apart'
    BY NextMany, OneOfEachIsFirst, StaysApart
<1>3. Many => OneRun
    BY ManyRuns
<1> QED
    BY <1>1, <1>2, <1>3, PTL DEF Safety

----------------------------------------------------------------------------
(* Two calls that are both about to settle the job settle it alike: two      *)
(* cancels, or two recoveries.  A cancel and a recovery that both found the  *)
(* owner gone write different endings, and nothing keeps them apart.         *)
Agree == \A c, d \in Call :
    Alive(c) /\ Alive(d) /\ pc[c] = "settling" /\ pc[d] = "settling" => KindOf[c] = KindOf[d]

(* What is about to be written over the record finds what it was decided on. *)
Claims(c) ==
    /\ pc[c] = "settling" => /\ job[c].status = IF KindOf[c] = "cancel" THEN "cancelled" ELSE "failed"
                             /\ rec.status = "running" \/ rec = job[c]
    /\ pc[c] = "bury" => rec.status \in {"needs_input", "cancelled"}

(* A cancel that was answered CANCELLED was told the truth, for good.        *)
Answered(c) ==
    pc[c] = "end" /\ job[c].status = "cancelled" =>
        \/ job[c].attempt < rec.attempt
        \/ job[c].attempt = rec.attempt /\ rec.status = "cancelled"

Truthful ==
    /\ rec.status = "none" => rec.attempt = 0
    /\ \A c \in Call : Alive(c) => Claims(c)
    /\ \A c \in Cancels : Answered(c)

(* What a step may do to the record, and to the run that works on the job.   *)
Still == rec' = rec /\ (Nobody(Working) => Nobody(Working)')
Made == /\ rec.status = "none" /\ Nobody(Working) /\ Nobody(Working)'
        /\ rec'.status = "queued" /\ rec'.attempt = 1
Started == /\ rec.status = "queued" /\ Nobody(Working)
           /\ rec'.status = "running" /\ rec'.attempt = rec.attempt
Reopened == /\ rec.status \in Resumable \cup {"needs_input"} /\ Nobody(Working) /\ ~Nobody(Working)'
            /\ rec'.status = "running" /\ rec'.attempt = rec.attempt + 1
Ended == /\ rec.status = "running" /\ ~Nobody(Working) /\ Nobody(Working)'
         /\ rec'.status \in Stopped /\ rec'.attempt = rec.attempt
Closed == /\ rec.status \in {"running", "needs_input"} /\ Nobody(Working) /\ Nobody(Working)'
          /\ rec'.status \in {"failed", "cancelled"} /\ rec'.attempt = rec.attempt
Bears == Still \/ Made \/ Started \/ Reopened \/ Ended \/ Closed

LEMMA SameRecord ==
    ASSUME NEW x \in Record, NEW y \in Record, x.status = y.status, x.attempt = y.attempt
    PROVE  x = y
    BY DEF Record

LEMMA TruthfulStep ==
    ASSUME Many, Truthful, NEW e \in Call,
           \A d \in Call : Alive(d)' => Alive(d),
           \A d \in Call \ (Drivers \cup {e}) : pc'[d] \in {pc[d], "join"} /\ job'[d] = job[d],
           e \notin Drivers => Claims(e)', e \in Cancels => Answered(e)',
           e \in Drivers => pc'[e] \notin {"settling", "bury"},
           \/ rec' = rec
           \/ /\ \A d \in Call \ (Drivers \cup {e}) : Alive(d) =>
                    /\ pc[d] = "settling" => rec' = job[d]
                    /\ pc[d] = "bury" => rec'.status = "cancelled"
              /\ rec'.attempt > rec.attempt \/ (rec'.attempt = rec.attempt /\ rec.status # "cancelled")
              /\ rec'.status # "none",
           Cast', TypeOK'
    PROVE  Truthful'
<1>1. ASSUME NEW d \in Call, Alive(d)' PROVE Claims(d)'
  <2>1. CASE d \in Drivers
    <3>1. pc'[d] \in Part(d)
        BY DEF Cast, Part
    <3>2. pc'[d] \notin {"settling", "bury"}
        BY <2>1, <3>1, Parts DEF Deciders, Takers
    <3> QED BY <3>2 DEF Claims
  <2>2. CASE d \notin Drivers /\ d = e
      BY <2>2
  <2>3. CASE d \notin Drivers /\ d # e
    <3>1. Alive(d) /\ Claims(d) /\ pc'[d] \in {pc[d], "join"} /\ job'[d] = job[d]
        BY <1>1, <2>3 DEF Truthful
    <3> QED BY <2>3, <3>1 DEF Claims
  <2> QED BY <2>1, <2>2, <2>3
<1>2. ASSUME NEW d \in Cancels PROVE Answered(d)'
  <2>1. d \in Call /\ d \notin Drivers /\ Answered(d) /\ rec \in Record /\ rec' \in Record /\ job \in [Call -> Record]
      BY <1>2, Kinds DEF Truthful, Cancels, Drivers, Many, Orderly, TypeOK
  <2>2. CASE d # e
    <3>1. pc'[d] \in {pc[d], "join"} /\ job'[d] = job[d]
        BY <2>1, <2>2
    <3>2. rec.attempt \in Nat /\ rec'.attempt \in Nat /\ job[d].attempt \in Nat
        BY <2>1 DEF Record
    <3> QED BY <2>1, <3>1, <3>2 DEF Answered
  <2> QED BY <2>2
<1> QED BY <1>1, <1>2 DEF Truthful

(* A call that steps nowhere near the stream leaves nobody at work there.    *)
LEMMA StaysQuiet ==
    ASSUME NEW e \in Call, \A d \in Call : Alive(d)' => Alive(d),
           \A d \in Call \ {e} : pc'[d] = pc[d] \/ pc'[d] \notin Working,
           pc'[e] \notin Working \/ Are(e, Working)
    PROVE  Nobody(Working) => Nobody(Working)'
    BY DEF Nobody, Are, Drivers

LEMMA AloneAtWork ==
    ASSUME Many, NEW e \in Drivers, Are(e, Busy), pc[e] \notin Working
    PROVE  Nobody(Working)
<1> SUFFICES ASSUME NEW d \in Drivers, Are(d, Working) PROVE FALSE
    BY DEF Nobody
<1>1. Are(d, Busy)
    BY DEF Are, Busy
<1> QED BY <1>1 DEF Many, Owned, Alone, Are

(* Nobody else decides about a job that is begun, or takes one that is run.  *)
LEMMA NobodyElse ==
    ASSUME Many, Apart, NEW e \in Drivers, Are(e, Begins) \/ Are(e, Working)
    PROVE  \A d \in Call \ (Drivers \cup {e}) : Alive(d) => pc[d] \notin {"settling", "bury"}
<1> SUFFICES ASSUME NEW d \in Call \ (Drivers \cup {e}), Alive(d), pc[d] \in {"settling", "bury"} PROVE FALSE
    OBVIOUS
<1>1. Decides(d) /\ Are(e, Busy)
    BY DEF Many, Owned, Are, Busy
<1>2. CASE pc[d] = "settling"
    BY <1>1, <1>2 DEF Decides, Takers, Nobody
<1>3. CASE pc[d] = "bury"
    BY <1>1, <1>3 DEF Decides, Nobody, Apart, Are
<1> QED BY <1>2, <1>3

(* A call makes the record, or makes it RUNNING.                             *)
LEMMA CreateBears ==
    ASSUME Many, Many', Truthful, NEW c \in Call, Create(c)
    PROVE  Truthful' /\ Bears
<1>1. /\ TypeOK /\ TypeOK' /\ Cast' /\ c \in Drivers /\ pc'[c] = "load" /\ pc[c] = "idle"
      /\ rec.status = "none" /\ rec'.status = "queued" /\ rec'.attempt = 1 /\ UNCHANGED <<job, up>>
      /\ \A d \in Call : d # c => pc'[d] = pc[d]
    BY DEF Many, Orderly, Drivers, Create, Invoked, At, TypeOK
<1>2. \A d \in Call : pc[d] \in Inert /\ (Alive(d)' <=> Alive(d))
    BY <1>1 DEF Many, Owned, Unborn, Alive
<1>3. Nobody(Working) /\ Nobody(Working)'
    BY <1>1, <1>2 DEF Nobody, Are, Inert, Working, Drivers
<1>4. c \notin Cancels /\ rec.attempt = 0
    BY <1>1, Kinds DEF Truthful
<1>5. Truthful'
  <2>1. \A d \in Call \ (Drivers \cup {c}) : pc'[d] = pc[d] /\ job'[d] = job[d] /\ pc[d] \notin {"settling", "bury"}
      BY <1>1, <1>2 DEF Inert
  <2> QED BY <1>1, <1>2, <1>4, <2>1, TruthfulStep
<1> QED BY <1>1, <1>3, <1>5 DEF Bears, Made

(* The record is left alone: nobody comes to work on the job.                *)
LEMMA StillBears ==
    ASSUME Many, Many', Truthful, NEW e \in Call, \A d \in Call : Alive(d)' => Alive(d), rec' = rec,
           \A d \in Call \ {e} : pc'[d] = pc[d] \/ pc'[d] = "join",
           \A d \in Call \ (Drivers \cup {e}) : job'[d] = job[d],
           e \notin Drivers => Claims(e)', e \in Cancels => Answered(e)',
           pc'[e] \in Working => Are(e, Working)
    PROVE  Truthful' /\ Bears
<1>1. Cast' /\ TypeOK'
    BY DEF Many, Orderly
<1>2. e \in Drivers => pc'[e] \notin {"settling", "bury"}
  <2>1. pc'[e] \in Part(e)
      BY <1>1 DEF Cast, Part
  <2> QED BY <2>1, Parts DEF Deciders, Takers
<1>3. Truthful'
    BY <1>1, <1>2, TruthfulStep
<1>4. Nobody(Working) => Nobody(Working)'
    BY StaysQuiet DEF Working
<1> QED BY <1>3, <1>4 DEF Bears, Still

(* The steps of a call that begins the job, ...                              *)
LEMMA BeginsBears ==
    ASSUME Many, Many', Apart, Truthful, NEW c \in Call,
           \/ LoadQueued(c) \/ AskFrontier(c) \/ ClearCancel(c) \/ SaveLease(c) \/ HearCancel(c)
           \/ Refuse(c) \/ Unlease(c) \/ MarkRunning(c)
    PROVE  Truthful' /\ Bears
<1> USE DEF store
<1>0. /\ TypeOK /\ TypeOK' /\ Cast' /\ up' = up
      /\ c \in Drivers /\ c \notin Cancels /\ Are(c, Busy) /\ Are(c, Begins) /\ Stands(c)
      /\ pc[c] \in Begins \ {"refuse", "unlease"} /\ rec.status \in Awaits(c)
  <2>1. /\ TypeOK /\ TypeOK' /\ Cast /\ Cast' /\ up' = up
        /\ Alive(c) /\ pc[c] \in Begins
      BY DEF Many, Orderly, LoadQueued, AskFrontier, ClearCancel, SaveLease, HearCancel, Refuse, Unlease, MarkRunning, At, Begins
  <2>2. c \in Drivers /\ Stands(c) /\ c \notin Cancels
      BY <2>1, Placed, Inertia, Kinds DEF Many, Owned, Busy
  <2> QED BY <2>1, <2>2, Inertia DEF Are, Stands, Busy
<1>1. \A d \in Call : Alive(d)' <=> Alive(d)
    BY <1>0 DEF Alive
<1>2. CASE LoadQueued(c) \/ AskFrontier(c) \/ ClearCancel(c) \/ SaveLease(c) \/ HearCancel(c)
  <2>1. rec' = rec /\ \A d \in Call : d # c => pc'[d] = pc[d] /\ job'[d] = job[d]
      BY <1>0, <1>2, GotoMoves DEF LoadQueued, AskFrontier, ClearCancel, SaveLease, HearCancel, SetJob, TypeOK
  <2>2. pc'[c] \notin Working
    <3>1. \E next \in {"lease", "clear", "control", "running", "refuse", "end"} : Goto(c, next)
        BY <1>2 DEF LoadQueued, AskFrontier, ClearCancel, SaveLease, HearCancel
    <3>2. pc'[c] \in {"lease", "clear", "control", "running", "refuse", "end"}
        BY <1>0, <3>1, GotoMoves
    <3> QED BY <3>2 DEF Working
  <2> QED BY <1>0, <1>1, <2>1, <2>2, StillBears
<1>3. CASE MarkRunning(c)
  <2>1. pc[c] = "running" /\ UNCHANGED <<job, up>> /\ rec' = job[c]
      BY <1>3 DEF MarkRunning, At
  <2>2. pc'[c] \in {"drive", "spawn", "end"} /\ \A d \in Call : d # c => pc'[d] = pc[d]
    <3>1. CASE KindOf[c] = "run"
        BY <1>0, <1>3, <3>1, GotoMoves DEF MarkRunning
    <3>2. CASE KindOf[c] # "run"
        BY <1>0, <1>3, <3>2 DEF MarkRunning, Spawn, TypeOK
    <3> QED BY <3>1, <3>2
  <2>3. rec'.status = "running" /\ rec'.attempt = Opens(c)
      BY <1>0, <2>1 DEF Stands
  <2>4. Nobody(Working)
      BY <1>0, <2>1, AloneAtWork DEF Working
  <2>5. rec \in Record /\ rec.attempt \in Nat
      BY <1>0 DEF TypeOK, Record
  <2>6. \A d \in Call \ (Drivers \cup {c}) : Alive(d) => pc[d] \notin {"settling", "bury"}
      BY <1>0, NobodyElse
  <2>7. CASE KindOf[c] = "run"
    <3>1. rec.status = "queued" /\ rec'.attempt = rec.attempt
        BY <1>0, <2>3, <2>7 DEF Awaits, Opens
    <3>2. Truthful'
        BY <1>0, <1>1, <2>1, <2>2, <2>3, <2>6, <3>1, TruthfulStep
    <3> QED BY <2>3, <2>4, <3>1, <3>2 DEF Bears, Started
  <2>8. CASE KindOf[c] # "run"
    <3>1. rec.status \in Resumable \cup {"needs_input"} /\ rec'.attempt = rec.attempt + 1 /\ rec'.attempt > rec.attempt
        BY <1>0, <2>3, <2>5, <2>8, Kinds DEF Awaits, Opens, Kind
    <3>2. Truthful'
        BY <1>0, <1>1, <2>1, <2>2, <2>3, <2>6, <3>1, TruthfulStep
    <3>3. pc'[c] = "spawn"
        BY <1>0, <1>3, <2>8 DEF MarkRunning, Spawn, TypeOK
    <3>4. ~Nobody(Working)'
        BY <1>0, <1>1, <3>3 DEF Nobody, Are, Working
    <3> QED BY <2>3, <2>4, <3>1, <3>2, <3>4 DEF Bears, Reopened
  <2> QED BY <2>7, <2>8
<1> QED BY <1>0, <1>2, <1>3 DEF Refuse, Unlease, At

(* ... those of a run at work, ...                                           *)
LEMMA WorksBears ==
    ASSUME Many, Many', Apart, Truthful, NEW c \in Call,
           \/ EnterDrive(c) \/ Apply(c) \/ Finish(c) \/ Raise(c) \/ Tick(c) \/ Renew(c)
           \/ PersistEnding(c) \/ Release(c)
    PROVE  Truthful' /\ Bears
<1> USE DEF store
<1>0. /\ TypeOK /\ TypeOK' /\ Cast' /\ up' = up
      /\ c \in Drivers /\ c \notin Cancels /\ Are(c, Busy) /\ Stands(c)
      /\ pc[c] \in Working \cup {"release"}
  <2>1. /\ TypeOK /\ TypeOK' /\ Cast /\ Cast' /\ Alive(c) /\ pc[c] \in Working \cup {"release"} /\ up' = up
      BY DEF Many, Orderly, Watched, EnterDrive, Apply, Finish, Raise, Tick, Renew, PersistEnding, Release, At, Working
  <2>2. c \in Drivers /\ Stands(c) /\ c \notin Cancels
      BY <2>1, Placed, Kinds DEF Many, Owned, Busy
  <2> QED BY <2>1, <2>2, Inertia DEF Are, Stands, Busy
<1>1. \A d \in Call : Alive(d)' <=> Alive(d)
    BY <1>0 DEF Alive
<1>2. CASE EnterDrive(c) \/ Finish(c) \/ Raise(c) \/ Tick(c) \/ Renew(c) \/ Release(c)
  <2>1. rec' = rec /\ \A d \in Call : d # c => pc'[d] = pc[d] /\ job'[d] = job[d]
      BY ZenonT(30), <1>0, <1>2, GotoMoves DEF EnterDrive, Finish, Raise, Tick, Renew, Release, Conclude, SetJob, TypeOK
  <2>2. pc'[c] \in Working => Are(c, Working)
    <3>1. CASE Release(c)
        BY <1>0, <3>1, GotoMoves DEF Release, Working
    <3>2. CASE pc[c] # "release"
        BY <1>0, <3>2 DEF Are
    <3>3. ~Release(c) => pc[c] # "release"
        BY <1>2 DEF EnterDrive, Finish, Raise, Tick, Renew, At, Many, Orderly, Watched
    <3> QED BY <3>1, <3>2, <3>3
  <2> QED BY <1>0, <1>1, <2>1, <2>2, StillBears
<1>3. CASE Apply(c)
  <2>1. pc[c] = "drive" /\ UNCHANGED <<pc, job>> /\ rec' = job[c]
      BY <1>3 DEF Apply, At
  <2>2. rec' = rec
      BY <1>0, <2>1, SameRecord DEF Stands, Working, TypeOK
  <2> QED BY <1>0, <1>1, <2>1, <2>2, StillBears DEF Are, Working
<1>4. CASE PersistEnding(c)
  <2>1. /\ pc[c] = "final" /\ rec' = job[c] /\ UNCHANGED <<job, up>>
        /\ pc'[c] \in {"release", "end"} /\ \A d \in Call : d # c => pc'[d] = pc[d]
      BY <1>0, <1>4, GotoMoves DEF PersistEnding, At
  <2>2. /\ rec.status = "running" /\ rec'.attempt = rec.attempt /\ rec'.status \in Stopped
        /\ Are(c, Working)
      BY <1>0, <2>1 DEF Stands, Working, Are
  <2>3. \A d \in Call \ (Drivers \cup {c}) : Alive(d) => pc[d] \notin {"settling", "bury"}
      BY <1>0, <2>2, NobodyElse
  <2>4. rec'.status # "none"
      BY <2>2 DEF Stopped, Settled
  <2>5. Truthful'
      BY <1>0, <1>1, <2>1, <2>2, <2>3, <2>4, TruthfulStep
  <2>6. Nobody(Working)'
    <3> SUFFICES ASSUME NEW d \in Drivers, Are(d, Working)' PROVE FALSE
        BY DEF Nobody
    <3>1. d # c
        BY <2>1 DEF Are, Working
    <3>2. Are(d, Busy)
        BY <1>1, <2>1, <3>1 DEF Are, Busy, Drivers
    <3> QED BY <1>0, <3>1, <3>2 DEF Many, Owned, Alone
  <2> QED BY <1>0, <2>2, <2>5, <2>6 DEF Bears, Ended, Nobody
<1> QED BY <1>2, <1>3, <1>4

(* ... those of a call that comes to the job or is stopped, ...              *)
LEMMA ComesBears ==
    ASSUME Many, Many', Truthful, NEW c \in Call, LoadStopped(c) \/ CancelHere(c) \/ Escape(c)
    PROVE  Truthful' /\ Bears
<1> USE DEF store
<1>0. /\ TypeOK /\ Tasks /\ UNCHANGED <<rec, up>> /\ Alive(c)
    BY DEF Many, Orderly, LoadStopped, CancelHere, Escape, Invoked, At
<1>1. \A d \in Call : Alive(d)' => Alive(d)
    BY <1>0 DEF Alive
<1>2. CASE LoadStopped(c) \/ Escape(c)
  <2>1. c \in Drivers /\ c \notin Cancels
    <3>1. c \in Drivers
        BY <1>0, <1>2, Kinds DEF LoadStopped, Escape, Tasks
    <3> QED BY <3>1, Kinds
  <2>2. /\ pc'[c] \in {"frontier", "end"}
        /\ \A d \in Call : d # c => pc'[d] = pc[d] /\ job'[d] = job[d]
      BY <1>0, <1>2, GotoMoves DEF LoadStopped, Escape, TypeOK
  <2>3. pc'[c] \notin Working
      BY <2>2 DEF Working
  <2> QED BY <1>0, <1>1, <2>1, <2>2, <2>3, StillBears
<1>3. CASE CancelHere(c)
  <2>1. c \notin Drivers
      BY <1>3, Kinds DEF CancelHere
  <2>2. PICK t \in Drivers : t = handle[ProcOf[c]] /\ t \in Call /\ Alive(t) /\ t # c /\ t \notin Cancels
      BY <1>0, <1>3, <2>1, Kinds DEF Tasks, CancelHere, HasTask, Drivers, Alive
  <2>3. CASE pc[t] = "drive"
    <3>1. /\ pc' = [pc EXCEPT ![c] = "join", ![t] = "final"]
          /\ job' = [job EXCEPT ![t].status = "cancelled"]
        BY <1>3, <2>2, <2>3 DEF CancelHere, SetJob
    <3>2. \A d \in Call : d # t => pc'[d] \in {pc[d], "join"} /\ job'[d] = job[d]
        BY <1>0, <2>2, <3>1 DEF TypeOK
    <3>3. Are(t, Working)
        BY <2>2, <2>3 DEF Are, Working
    <3> QED BY <1>0, <1>1, <2>2, <3>2, <3>3, StillBears
  <2>4. CASE pc[t] # "drive"
    <3>1. pc' = [pc EXCEPT ![c] = "join"] /\ job' = job
        BY <1>3, <2>2, <2>4 DEF CancelHere
    <3>2. pc'[c] = "join" /\ \A d \in Call : d # c => pc'[d] = pc[d]
        BY <1>0, <3>1 DEF TypeOK
    <3>3. Claims(c)' /\ Answered(c)' /\ pc'[c] \notin Working
        BY <3>2 DEF Claims, Answered, Working
    <3> QED BY <1>0, <1>1, <3>1, <3>2, <3>3, StillBears
  <2> QED BY <2>3, <2>4
<1> QED BY <1>2, <1>3

(* ... those that decide about the job, ...                                  *)
LEMMA DecidesBears ==
    ASSUME Many, Many', Apart, Agree, Truthful, ~MayCancelQueued, NEW c \in Call,
           \/ CancelElsewhere(c) \/ Join(c) \/ Request(c) \/ Bury(c) \/ Look(c) \/ ReadSummary(c)
           \/ Poll(c) \/ Deadline(c)
           \/ ListRunning(c) \/ ReadOwner(c) \/ Fence(c) \/ SecondLook(c) \/ Settle(c) \/ WriteSettlement(c)
    PROVE  Truthful' /\ Bears
<1> USE DEF store
<1>0. /\ TypeOK /\ TypeOK' /\ Cast /\ Cast' /\ up' = up /\ c \in Call \ Drivers /\ c \notin killed
      /\ Alive(c) /\ Decides(c) /\ Claims(c) /\ rec \in Record
  <2>1. /\ TypeOK /\ TypeOK' /\ Cast /\ Cast' /\ up' = up /\ Alive(c) /\ killed \subseteq Drivers
      BY DEF Many, Orderly, Tasks, CancelElsewhere, Join, Request, Bury, Look, ReadSummary, Poll, Deadline,
          ListRunning, ReadOwner, Fence, SecondLook, Settle, WriteSettlement, At, Invoked
  <2>2. KindOf[c] \in {"cancel", "recover"} \/ pc[c] \in Deciders \cup {"bury", "join"}
      BY DEF CancelElsewhere, Join, Request, Bury, Look, ReadSummary, Poll, Deadline,
          ListRunning, ReadOwner, Fence, SecondLook, Settle, WriteSettlement, At, Deciders, Takers
  <2>3. c \notin Drivers
      BY <2>1, <2>2, Kinds, Placed
  <2> QED BY <2>1, <2>3 DEF Many, Owned, Truthful, TypeOK
<1>1. \A d \in Call : Alive(d)' <=> Alive(d)
    BY <1>0 DEF Alive
<1>2. ASSUME rec' = rec, \A d \in Call \ {c} : pc'[d] = pc[d] /\ job'[d] = job[d],
             pc'[c] \in Deciders \cup Inert \cup {"bury"}, Claims(c)', c \in Cancels => Answered(c)'
      PROVE  Truthful' /\ Bears
  <2>1. pc'[c] \notin Working
      BY <1>2 DEF Deciders, Takers, Inert, Working
  <2> QED BY <1>0, <1>1, <1>2, <2>1, StillBears
<1>3. CASE CancelElsewhere(c) \/ Join(c) \/ ReadSummary(c) \/ ListRunning(c)
  <2>1. rec' = rec /\ job'[c] = rec /\ \A d \in Call : d # c => job'[d] = job[d]
      BY <1>0, <1>3 DEF CancelElsewhere, Join, ReadSummary, ListRunning, TypeOK
  <2>2. \A d \in Call : d # c => pc'[d] = pc[d]
      BY <1>0, <1>3, GotoMoves DEF CancelElsewhere, Join, ReadSummary, ListRunning
  <2>3. /\ pc'[c] \in {"request", "bury", "end", "fence", "poll", "owner"}
        /\ pc'[c] = "bury" => rec.status = "needs_input"
    <3>1. CASE CancelElsewhere(c)
        BY <1>0, <3>1, GotoMoves DEF CancelElsewhere
    <3>2. CASE Join(c) \/ ReadSummary(c)
        BY <1>0, <3>2, GotoMoves DEF Join, ReadSummary
    <3>3. CASE ListRunning(c)
        BY <1>0, <3>3, GotoMoves DEF ListRunning
    <3> QED BY <1>3, <3>1, <3>2, <3>3
  <2>4. pc'[c] \in Deciders \cup Inert \cup {"bury"}
      BY <2>3 DEF Deciders, Takers, Inert
  <2>5. Claims(c)' /\ Answered(c)'
      BY <2>1, <2>3 DEF Claims, Answered
  <2> QED BY <1>2, <2>1, <2>2, <2>4, <2>5
<1>4. CASE Request(c) \/ Look(c) \/ Poll(c) \/ Deadline(c) \/ ReadOwner(c) \/ Fence(c) \/ SecondLook(c)
  <2>1. rec' = rec /\ job' = job /\ pc[c] \in Deciders \ {"settling"}
      BY <1>4 DEF Request, Look, Poll, Deadline, ReadOwner, Fence, SecondLook, At, Deciders, Takers
  <2>2. job[c].status = "running"
      BY <1>0, <2>1 DEF Decides
  <2>3. \A d \in Call : d # c => pc'[d] = pc[d]
      BY <1>0, <1>4, GotoMoves DEF Request, Look, Poll, Deadline, ReadOwner, Fence, SecondLook
  <2>4. pc'[c] \in {"look", "summary", "fence", "settle", "second", "poll", "end"}
    <3>1. CASE Request(c) \/ Look(c) \/ Poll(c) \/ Deadline(c)
        BY <1>0, <2>2, <3>1, GotoMoves DEF Request, Look, Poll, Deadline
    <3>2. CASE ReadOwner(c) \/ Fence(c) \/ SecondLook(c)
        BY <1>0, <3>2, GotoMoves DEF ReadOwner, Fence, SecondLook
    <3> QED BY <1>4, <3>1, <3>2
  <2>5. pc'[c] \in Deciders \cup Inert \cup {"bury"}
      BY <2>4 DEF Deciders, Takers, Inert
  <2>6. Claims(c)' /\ Answered(c)'
      BY <2>1, <2>2, <2>4 DEF Claims, Answered
  <2> QED BY <1>2, <2>1, <2>3, <2>5, <2>6
<1>5. CASE Settle(c)
  <2>1. rec' = rec /\ pc[c] = "settle"
      BY <1>5 DEF Settle, At
  <2>2. rec.status \notin {"none", "queued"}
      BY <1>0, <2>1 DEF Decides, Deciders, Takers
  <2>3. \/ pc'[c] = "end" /\ job' = [job EXCEPT ![c] = rec]
        \/ /\ pc'[c] = "settling" /\ rec.status = "running"
           /\ job' = [job EXCEPT ![c].status = IF KindOf[c] = "cancel" THEN "cancelled" ELSE "failed"]
      BY <1>0, <1>5, <2>2, GotoMoves DEF Settle, SetJob
  <2>4. \A d \in Call : d # c => pc'[d] = pc[d]
      BY <1>0, <1>5, GotoMoves DEF Settle
  <2>5. \A d \in Call : d # c => job'[d] = job[d]
      BY <1>0, <2>3 DEF TypeOK
  <2>6. pc'[c] = "settling" => job'[c].status = IF KindOf[c] = "cancel" THEN "cancelled" ELSE "failed"
      BY <1>0, <2>3 DEF TypeOK, Record
  <2>7. pc'[c] = "end" => job'[c] = rec
      BY <1>0, <2>3 DEF TypeOK
  <2>8. Claims(c)' /\ Answered(c)'
      BY <2>1, <2>3, <2>6, <2>7 DEF Claims, Answered
  <2>9. pc'[c] \in Deciders \cup Inert \cup {"bury"}
      BY <2>3 DEF Deciders, Takers, Inert
  <2> QED BY <1>2, <2>1, <2>4, <2>5, <2>8, <2>9
<1>6. CASE WriteSettlement(c)
  <2>1. pc[c] = "settling" /\ job' = job /\ rec' = job[c]
      BY <1>6 DEF WriteSettlement, At
  <2>2. pc'[c] = "end" /\ \A d \in Call : d # c => pc'[d] = pc[d]
      BY <1>0, <1>6, GotoMoves DEF WriteSettlement
  <2>3. /\ job[c].status = IF KindOf[c] = "cancel" THEN "cancelled" ELSE "failed"
        /\ job[c].attempt = rec.attempt
        /\ rec.status = "running" \/ rec = job[c]
        /\ Nobody(Busy)
      BY <1>0, <2>1 DEF Claims, Decides, Deciders, Takers
  <2>4. Claims(c)' /\ Answered(c)'
      BY <2>1, <2>2 DEF Claims, Answered
  <2>5. Nobody(Working) /\ Nobody(Working)'
    <3>1. Nobody(Working)
        BY <2>3 DEF Nobody, Are, Busy
    <3>2. pc'[c] \notin Working
        BY <2>2 DEF Working
    <3> QED BY <1>1, <2>2, <3>1, <3>2, StaysQuiet
  <2>6. CASE rec = job[c]
      BY <1>2, <2>1, <2>2, <2>4, <2>6 DEF Inert
  <2>7. CASE rec # job[c]
    <3>1. rec.status = "running" /\ rec'.attempt = rec.attempt /\ rec'.status \in {"failed", "cancelled"}
        BY <2>1, <2>3, <2>7
    <3>2. ASSUME NEW d \in Call \ (Drivers \cup {c}), Alive(d), pc[d] = "settling" PROVE rec' = job[d]
      <4>1. Claims(d) /\ Decides(d) /\ KindOf[d] = KindOf[c]
          BY <1>0, <2>1, <3>2 DEF Truthful, Many, Owned, Agree
      <4>2. job[d].status = job[c].status /\ job[d].attempt = job[c].attempt
          BY <2>3, <3>2, <4>1 DEF Claims, Decides, Deciders, Takers
      <4>3. job[c] \in Record /\ job[d] \in Record
          BY <1>0, <3>2 DEF TypeOK
      <4> QED BY <2>1, <4>2, <4>3, SameRecord
    <3>3. ASSUME NEW d \in Call \ (Drivers \cup {c}), Alive(d), pc[d] = "bury" PROVE rec'.status = "cancelled"
        BY <3>1, <3>3 DEF Truthful, Claims
    <3>4. Truthful'
        BY <1>0, <1>1, <2>1, <2>2, <2>4, <3>1, <3>2, <3>3, TruthfulStep
    <3> QED BY <2>5, <3>1, <3>4 DEF Bears, Closed
  <2> QED BY <2>6, <2>7
<1>7. CASE Bury(c)
  <2>1. pc[c] = "bury" /\ job' = [job EXCEPT ![c].status = "cancelled"] /\ rec' = job'[c]
      BY <1>7 DEF Bury, At, SetJob
  <2>2. /\ job'[c].status = "cancelled" /\ job'[c].attempt = job[c].attempt
        /\ \A d \in Call : d # c => job'[d] = job[d]
      BY <1>0, <2>1 DEF TypeOK, Record
  <2>3. pc'[c] = "end" /\ \A d \in Call : d # c => pc'[d] = pc[d]
      BY <1>0, <1>7, GotoMoves DEF Bury
  <2>4. job[c].attempt = rec.attempt /\ Nobody(Working) /\ rec.status \in {"needs_input", "cancelled"}
      BY <1>0, <2>1 DEF Decides, Claims
  <2>5. Claims(c)' /\ Answered(c)'
      BY <2>1, <2>3 DEF Claims, Answered
  <2>6. rec' \in Record
      BY <1>0 DEF TypeOK
  <2>7. CASE rec.status = "cancelled"
    <3>1. rec' = rec
        BY <1>0, <2>1, <2>2, <2>4, <2>6, <2>7, SameRecord
    <3> QED BY <1>2, <2>2, <2>3, <2>5, <3>1 DEF Inert
  <2>8. CASE rec.status = "needs_input"
    <3>1. rec'.attempt = rec.attempt /\ rec'.status = "cancelled"
        BY <2>1, <2>2, <2>4
    <3>2. ASSUME NEW d \in Call \ (Drivers \cup {c}), Alive(d) PROVE pc[d] # "settling"
      <4>1. Claims(d) /\ Decides(d)
          BY <3>2 DEF Truthful, Many, Owned
      <4> QED BY <2>8, <4>1 DEF Claims, Decides
    <3>3. Truthful'
        BY <1>0, <1>1, <2>2, <2>3, <2>5, <2>8, <3>1, <3>2, TruthfulStep
    <3>4. pc'[c] \notin Working
        BY <2>3 DEF Working
    <3>5. Nobody(Working)'
        BY <1>1, <2>3, <2>4, <3>4, StaysQuiet
    <3> QED BY <2>4, <2>8, <3>1, <3>3, <3>5 DEF Bears, Closed
  <2> QED BY <2>4, <2>7, <2>8
<1> QED BY <1>3, <1>4, <1>5, <1>6, <1>7

LEMMA InitTruthful == Init => Truthful
<1> SUFFICES ASSUME Init PROVE Truthful
    OBVIOUS
<1>1. /\ rec = Unstarted /\ \A c \in Call : pc[c] = "idle"
    BY DEF Init
<1> QED BY <1>1 DEF Truthful, Claims, Answered, Unstarted, Cancels

LEMMA NextTruthful ==
    ASSUME Many, Many', Apart, Agree, Truthful, ~MayCancelQueued, [Next]_vars
    PROVE  Truthful' /\ Bears
<1>1. CASE UNCHANGED vars \/ Expire \/ \E p \in Proc : Crash(p)
  <2>1. UNCHANGED <<rec, pc, job>> /\ up' \subseteq up
      BY <1>1 DEF vars, Expire, Crash, store
  <2>2. \A c \in Call : Alive(c)' => Alive(c)
      BY <2>1 DEF Alive
  <2>3. Truthful'
      BY <2>1, <2>2 DEF Truthful, Claims, Answered
  <2>4. Nobody(Working) => Nobody(Working)'
      BY <2>1, <2>2 DEF Nobody, Are, Drivers
  <2> QED BY <2>1, <2>3, <2>4 DEF Bears, Still
<1>2. ASSUME NEW c \in Call, Create(c) \/ LoadStopped(c) \/ CancelHere(c) \/ Escape(c)
      PROVE  Truthful' /\ Bears
    BY <1>2, CreateBears, ComesBears
<1>3. ASSUME NEW c \in Call,
             \/ LoadQueued(c) \/ AskFrontier(c) \/ ClearCancel(c) \/ SaveLease(c) \/ HearCancel(c)
             \/ Refuse(c) \/ Unlease(c) \/ MarkRunning(c)
      PROVE  Truthful' /\ Bears
    BY <1>3, BeginsBears
<1>4. ASSUME NEW c \in Call,
             \/ EnterDrive(c) \/ Apply(c) \/ Finish(c) \/ Raise(c) \/ Tick(c) \/ Renew(c)
             \/ PersistEnding(c) \/ Release(c)
      PROVE  Truthful' /\ Bears
    BY <1>4, WorksBears
<1>5. ASSUME NEW c \in Call,
             \/ CancelElsewhere(c) \/ Join(c) \/ Request(c) \/ Bury(c) \/ Look(c) \/ ReadSummary(c)
             \/ Poll(c) \/ Deadline(c)
             \/ ListRunning(c) \/ ReadOwner(c) \/ Fence(c) \/ SecondLook(c) \/ Settle(c) \/ WriteSettlement(c)
      PROVE  Truthful' /\ Bears
    BY <1>5, DecidesBears
<1> QED BY <1>1, <1>2, <1>3, <1>4, <1>5 DEF Next, Proceed

LEMMA TruthIsStopped ==
    ASSUME Many, Truthful
    PROVE  CancelledMeansStopped
<1> SUFFICES ASSUME NEW c \in Cancels, NEW d \in Drivers,
                    pc[c] = "end", job[c].status = "cancelled", Driving(d)
             PROVE  job[d].attempt > job[c].attempt
    BY DEF CancelledMeansStopped
<1>1. rec.status = "running" /\ job[d].attempt = rec.attempt
    BY DEF Driving, Many, Owned, Stands, Working
<1>2. Answered(c)
    BY DEF Truthful
<1>3. rec.attempt \in Nat /\ job[c].attempt \in Nat
    BY DEF Many, Orderly, TypeOK, Record, Cancels
<1> QED BY <1>1, <1>2, <1>3 DEF Answered

LEMMA BearsIsPromised ==
    ASSUME Truthful, Bears
    PROVE  [Promise!Next]_(Promise!vars)
<1> DEFINE worked == \E c \in Drivers : Alive(c) /\ pc[c] \in {"spawn", "drive", "final"}
<1>1. worked <=> ~Nobody(Working)
    BY DEF Nobody, Are, Working
<1>2. worked' <=> ~Nobody(Working)'
    BY DEF Nobody, Are, Working
<1>3. worked \in BOOLEAN /\ worked' \in BOOLEAN
    OBVIOUS
<1> HIDE DEF worked
<1>4. CASE Still
  <2>1. CASE Nobody(Working)' <=> Nobody(Working)
    <3>1. worked' = worked
        BY <1>1, <1>2, <1>3, <2>1
    <3> QED BY <1>4, <3>1 DEF Still, Promise!vars, worked
  <2>2. CASE ~Nobody(Working) /\ Nobody(Working)'
    <3>1. worked /\ worked' = FALSE
        BY <1>1, <1>2, <1>3, <2>2
    <3>2. Promise!Die
        BY <1>4, <3>1 DEF Still, Promise!Die, worked
    <3> QED BY <3>2 DEF Promise!Next
  <2> QED BY <1>4, <2>1, <2>2 DEF Still
<1>5. CASE Made
  <2>1. worked' = worked
      BY <1>1, <1>2, <1>3, <1>5 DEF Made
  <2>2. Promise!Create
      BY <1>5, <2>1 DEF Made, Promise!Create, worked
  <2> QED BY <2>2 DEF Promise!Next
<1>6. CASE Started
  <2>1. ~worked /\ worked' \in BOOLEAN
      BY <1>1, <1>3, <1>6 DEF Started
  <2>2. Promise!Start
      BY <1>6, <2>1 DEF Started, Promise!Start, worked
  <2> QED BY <2>2 DEF Promise!Next
<1>7. CASE Reopened
  <2>1. ~worked /\ worked' = TRUE
      BY <1>1, <1>2, <1>3, <1>7 DEF Reopened
  <2>2. Promise!Resume
      BY <1>7, <2>1 DEF Reopened, Resumable, Promise!Resume, worked
  <2> QED BY <2>2 DEF Promise!Next
<1>8. CASE Ended
  <2>1. worked /\ worked' = FALSE
      BY <1>1, <1>2, <1>3, <1>8 DEF Ended
  <2>2. Promise!End
      BY <1>8, <2>1 DEF Ended, Stopped, Settled, Promise!End, worked
  <2> QED BY <2>2 DEF Promise!Next
<1>9. CASE Closed
  <2>1. ~worked /\ worked' = worked
      BY <1>1, <1>2, <1>3, <1>9 DEF Closed
  <2>2. Promise!Settle
      BY <1>9, <2>1 DEF Closed, Promise!Settle, worked
  <2> QED BY <2>2 DEF Promise!Next
<1> QED BY <1>4, <1>5, <1>6, <1>7, <1>8, <1>9 DEF Bears

LEMMA InitPromise == Init => Promise!Init
<1> SUFFICES ASSUME Init PROVE Promise!Init
    OBVIOUS
<1>1. ~\E c \in Drivers : Alive(c) /\ pc[c] \in {"spawn", "drive", "final"}
    BY DEF Init, Drivers
<1>2. rec.status = "none" /\ rec.attempt = 0
    BY DEF Init, Unstarted
<1> QED BY <1>1, <1>2 DEF Promise!Init

LEMMA OneSideAgrees ==
    ASSUME Many, Cancels = {} \/ Recovers = {}
    PROVE  Agree
<1> SUFFICES ASSUME NEW c \in Call, NEW d \in Call, pc[c] = "settling", pc[d] = "settling"
             PROVE  KindOf[c] = KindOf[d]
    BY DEF Agree
<1>1. KindOf[c] \in {"cancel", "recover"} /\ KindOf[d] \in {"cancel", "recover"}
    BY Placed, Kinds DEF Many, Orderly, Deciders, Takers
<1> QED BY <1>1 DEF Cancels, Recovers

(* JobEngine implements JobRecord, with nothing asked of its environment:    *)
(* one run, one resume and any cancels, or one run, one resume, one answer   *)
(* and any recoveries, from any processes, with any crashes.  Each attempt   *)
(* begins on a settled or paused record, its run alone ends it, and whoever  *)
(* settles a record finds nobody at work ...                                 *)
THEOREM OneOfEachKeepsThePromise ==
    ASSUME ~MayStall, ~MayOvertake, ~MayCancelQueued, OneOfEach, NoAnswerIsCancelled,
           Cancels = {} \/ Recovers = {}
    PROVE  Safety => KeepsThePromise
<1>1. Init => Many /\ Apart /\ Truthful /\ Promise!Init
  <2>1. Init => Apart
      BY DEF Init, Apart, Are, Begins, Drivers
  <2> QED BY <2>1, InitMany, InitTruthful, InitPromise
<1>2. Many /\ Apart /\ Truthful /\ [Next]_vars
        => Many' /\ Apart' /\ Truthful' /\ [Promise!Next]_(Promise!vars)
    BY NextMany, OneOfEachIsFirst, StaysApart, OneSideAgrees, NextTruthful, BearsIsPromised
<1> QED
    BY <1>1, <1>2, PTL DEF Safety, KeepsThePromise, Promise!Spec

(* ... and CANCELLED is the truth there: no run of the attempt a cancel      *)
(* answered for, nor of an earlier one, is alive once it has answered.       *)
THEOREM OneOfEachIsStopped ==
    ASSUME ~MayStall, ~MayOvertake, ~MayCancelQueued, OneOfEach, NoAnswerIsCancelled,
           Recovers = {}
    PROVE  Safety => []CancelledMeansStopped
<1>1. Init => Many /\ Apart /\ Truthful
  <2>1. Init => Apart
      BY DEF Init, Apart, Are, Begins, Drivers
  <2> QED BY <2>1, InitMany, InitTruthful
<1>2. Many /\ Apart /\ Truthful /\ [Next]_vars => Many' /\ Apart' /\ Truthful'
    BY NextMany, OneOfEachIsFirst, StaysApart, OneSideAgrees, NextTruthful
<1>3. Many /\ Truthful => CancelledMeansStopped
    BY TruthIsStopped
<1> QED
    BY <1>1, <1>2, <1>3, PTL DEF Safety

============================================================================
