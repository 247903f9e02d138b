--------------------------- MODULE RelaunchProofs ---------------------------
(* What holds of Relaunch for any number of daemons and any bound, as long   *)
(* as no daemon sleeps through the others' claims (~MayStraddle).            *)
EXTENDS Relaunch, TLAPS

\* The one daemon that may be between its look and RUNNING finds the record
\* as it looked, and whoever still has its claim could be that daemon.
ClaimsHold ==
    \A d \in Daemon :
        /\ Taking(d) => Relaunchable /\ \A e \in Daemon : Taking(e) => e = d
        /\ pc[d] \in {"lease", "mark"} => copy[d] = rec.attempt + 1
        /\ At(d, "mark") => lease = d
        /\ At(d, "wait") /\ lease = d => Relaunchable

\* A run that is driven has its lease and its record to itself.
DriverIsNamed ==
    \A d \in Daemon : At(d, "drive") => lease = d /\ rec.status = "running" /\ rec.by = d

\* Only a run that is over is released.
ReleasedIsOver == \A d \in Daemon : At(d, "release") => rec.status = "done"

\* While everybody lives, somebody is going to relaunch the job: whoever comes
\* to recover it, then the daemon that the lease names.
SomebodyWill ==
    (\A d \in Daemon : ~At(d, "dead")) =>
        /\ rec.status = "running" /\ rec.by = "gone" =>
             /\ lease = "gone" /\ rec.attempt = 1
             /\ \A d \in Daemon : pc[d] \in {"down", "recover"}
        /\ rec.status = "failed" /\ Bound > 0 =>
             /\ rec.attempt = 1
             /\ lease \in Daemon /\ pc[lease] \in {"list", "claim", "wait", "load", "lease", "mark"}

IInv ==
    /\ TypeOK /\ RelaunchIsBounded /\ RunningIsRun
    /\ ClaimsHold /\ DriverIsNamed /\ ReleasedIsOver /\ SomebodyWill

----------------------------------------------------------------------------
LEMMA InitIInv == Init => IInv
<1> SUFFICES ASSUME Init PROVE IInv
    OBVIOUS
<1> USE RelaunchAssumption
<1>1. TypeOK
    BY DEF Init, TypeOK, PC
<1>2. RelaunchIsBounded /\ RunningIsRun
    BY DEF Init, RelaunchIsBounded, RunningIsRun
<1>3. ClaimsHold /\ DriverIsNamed /\ ReleasedIsOver /\ SomebodyWill
    BY DEF Init, ClaimsHold, DriverIsNamed, ReleasedIsOver, SomebodyWill, Taking, At
<1> QED BY <1>1, <1>2, <1>3 DEF IInv

\* A step of one daemon moves no other.
LEMMA OneMoves ==
    ASSUME TypeOK, NEW d \in Daemon, NEW there \in PC, Goto(d, there)
    PROVE  /\ pc' \in [Daemon -> PC]
           /\ pc'[d] = there
           /\ \A e \in Daemon : e # d => pc'[e] = pc[e]
    BY DEF TypeOK, Goto

LEMMA NextIInv ==
    ASSUME ~MayStraddle, IInv, [Next]_vars
    PROVE  IInv'
<1> USE RelaunchAssumption DEF IInv
<1>1. CASE UNCHANGED vars
    BY <1>1 DEF vars, TypeOK, RelaunchIsBounded, RunningIsRun, ClaimsHold, DriverIsNamed,
         ReleasedIsOver, SomebodyWill, Taking, Relaunchable, At
<1>2. ASSUME NEW d \in Daemon, Start(d) PROVE IInv'
  <2>1. TypeOK'
      BY <1>2 DEF Start, TypeOK, PC, Goto, At
  <2>2. RelaunchIsBounded' /\ RunningIsRun'
      BY <1>2 DEF Start, TypeOK, RelaunchIsBounded, RunningIsRun, ClaimsHold, DriverIsNamed, ReleasedIsOver, Taking, Relaunchable, Goto, At, PC, Dead
  <2>3. ClaimsHold'
      BY <1>2 DEF Start, TypeOK, RunningIsRun, ClaimsHold, DriverIsNamed, ReleasedIsOver, Taking, Relaunchable, Goto, At, PC, Dead
  <2>4. DriverIsNamed' /\ ReleasedIsOver'
      BY <1>2 DEF Start, TypeOK, ClaimsHold, DriverIsNamed, ReleasedIsOver, Taking, Relaunchable, Goto, At, PC, Dead
  <2>5. SomebodyWill'
      BY <1>2 DEF Start, TypeOK, RunningIsRun, ClaimsHold, DriverIsNamed, ReleasedIsOver, SomebodyWill, Taking, Relaunchable, Goto, At, PC, Dead
  <2> QED BY <2>1, <2>2, <2>3, <2>4, <2>5
<1>3. ASSUME NEW d \in Daemon, Recover(d) PROVE IInv'
  <2>1. TypeOK'
      BY <1>3 DEF Recover, TypeOK, PC, Goto, At
  <2>2. RelaunchIsBounded' /\ RunningIsRun'
      BY <1>3 DEF Recover, TypeOK, RelaunchIsBounded, RunningIsRun, ClaimsHold, DriverIsNamed, ReleasedIsOver, Taking, Relaunchable, Goto, At, PC, Dead
  <2>3. ClaimsHold'
      BY <1>3 DEF Recover, TypeOK, RunningIsRun, ClaimsHold, DriverIsNamed, ReleasedIsOver, Taking, Relaunchable, Goto, At, PC, Dead
  <2>4. DriverIsNamed' /\ ReleasedIsOver'
      BY <1>3 DEF Recover, TypeOK, ClaimsHold, DriverIsNamed, ReleasedIsOver, Taking, Relaunchable, Goto, At, PC, Dead
  <2>5. SomebodyWill'
    <3> SUFFICES ASSUME \A e \in Daemon : pc'[e] # "dead" PROVE SomebodyWill'
        BY DEF SomebodyWill, At
    <3>1. pc' \in [Daemon -> PC] /\ pc'[d] = "list" /\ \A e \in Daemon : e # d => pc'[e] = pc[e]
        BY <1>3, OneMoves DEF Recover, PC
    <3>2. \A e \in Daemon : ~At(e, "dead")
        BY <1>3, <3>1 DEF Recover, At
    <3>3. CASE rec.status = "running" /\ Dead(lease)
      <4>1. lease \in {"none", "gone"}
          BY <3>2, <3>3 DEF Dead, TypeOK, At
      <4>2. rec.by = "gone"
          BY <3>2, <3>3, <4>1 DEF RunningIsRun, DriverIsNamed, TypeOK, At
      <4>3. rec.attempt = 1
          BY <3>2, <3>3, <4>2 DEF SomebodyWill
      <4>4. rec'.status = "failed" /\ rec'.attempt = 1 /\ lease' = d
          BY <1>3, <3>3, <4>3 DEF Recover, TypeOK
      <4> QED BY <3>1, <4>4 DEF SomebodyWill
    <3>4. CASE ~(rec.status = "running" /\ Dead(lease))
      <4>1. UNCHANGED <<rec, lease>>
          BY <1>3, <3>4 DEF Recover
      <4>2. ~(rec.status = "running" /\ rec.by = "gone")
          BY <3>2, <3>4 DEF SomebodyWill, Dead
      <4>3. lease # d \/ pc[lease] = "recover"
          BY <1>3 DEF Recover, At
      <4> QED BY <3>1, <3>2, <4>1, <4>2, <4>3 DEF SomebodyWill, TypeOK
    <3> QED BY <3>3, <3>4
  <2> QED BY <2>1, <2>2, <2>3, <2>4, <2>5
<1>4. ASSUME NEW d \in Daemon, List(d) PROVE IInv'
  <2>1. TypeOK'
      BY <1>4 DEF List, TypeOK, PC, Goto, At, Relaunchable
  <2>2. RelaunchIsBounded' /\ RunningIsRun'
      BY <1>4 DEF List, TypeOK, RelaunchIsBounded, RunningIsRun, ClaimsHold, DriverIsNamed, ReleasedIsOver, Taking, Relaunchable, Goto, At, PC, Dead
  <2>3. ClaimsHold'
      BY <1>4 DEF List, TypeOK, RunningIsRun, ClaimsHold, DriverIsNamed, ReleasedIsOver, Taking, Relaunchable, Goto, At, PC, Dead
  <2>4. DriverIsNamed' /\ ReleasedIsOver'
      BY <1>4 DEF List, TypeOK, ClaimsHold, DriverIsNamed, ReleasedIsOver, Taking, Relaunchable, Goto, At, PC, Dead
  <2>5. SomebodyWill'
      BY <1>4 DEF List, TypeOK, RunningIsRun, ClaimsHold, DriverIsNamed, ReleasedIsOver, SomebodyWill, Taking, Relaunchable, Goto, At, PC, Dead
  <2> QED BY <2>1, <2>2, <2>3, <2>4, <2>5
<1>5. ASSUME NEW d \in Daemon, Claim(d) PROVE IInv'
  <2>1. TypeOK'
      BY <1>5 DEF Claim, TypeOK, PC, Goto, At
  <2>2. RelaunchIsBounded' /\ RunningIsRun'
      BY <1>5 DEF Claim, TypeOK, RelaunchIsBounded, RunningIsRun, ClaimsHold, DriverIsNamed, ReleasedIsOver, Taking, Relaunchable, Goto, At, PC, Dead
  <2>3. ClaimsHold'
      BY <1>5 DEF Claim, TypeOK, RunningIsRun, ClaimsHold, DriverIsNamed, ReleasedIsOver, Taking, Relaunchable, Goto, At, PC, Dead
  <2>4. DriverIsNamed' /\ ReleasedIsOver'
      BY <1>5 DEF Claim, TypeOK, ClaimsHold, DriverIsNamed, ReleasedIsOver, Taking, Relaunchable, Goto, At, PC, Dead
  <2>5. SomebodyWill'
      BY <1>5 DEF Claim, TypeOK, RunningIsRun, ClaimsHold, DriverIsNamed, ReleasedIsOver, SomebodyWill, Taking, Relaunchable, Goto, At, PC, Dead
  <2> QED BY <2>1, <2>2, <2>3, <2>4, <2>5
<1>6. ASSUME NEW d \in Daemon, Look(d) PROVE IInv'
  <2>1. TypeOK'
      BY <1>6 DEF Look, TypeOK, PC, Goto, At
  <2>2. RelaunchIsBounded' /\ RunningIsRun'
      BY <1>6 DEF Look, TypeOK, RelaunchIsBounded, RunningIsRun, ClaimsHold, DriverIsNamed, ReleasedIsOver, Taking, Relaunchable, Goto, At, PC, Dead
  <2>3. ClaimsHold'
      BY <1>6 DEF Look, TypeOK, RunningIsRun, ClaimsHold, DriverIsNamed, ReleasedIsOver, Taking, Relaunchable, Goto, At, PC, Dead
  <2>4. DriverIsNamed' /\ ReleasedIsOver'
      BY <1>6 DEF Look, TypeOK, ClaimsHold, DriverIsNamed, ReleasedIsOver, Taking, Relaunchable, Goto, At, PC, Dead
  <2>5. SomebodyWill'
      BY <1>6 DEF Look, TypeOK, RunningIsRun, ClaimsHold, DriverIsNamed, ReleasedIsOver, SomebodyWill, Taking, Relaunchable, Goto, At, PC, Dead
  <2> QED BY <2>1, <2>2, <2>3, <2>4, <2>5
<1>7. ASSUME NEW d \in Daemon, Load(d) PROVE IInv'
  <2>1. TypeOK'
      BY <1>7 DEF Load, TypeOK, PC, Goto, At
  <2>2. RelaunchIsBounded' /\ RunningIsRun'
      BY <1>7 DEF Load, TypeOK, RelaunchIsBounded, RunningIsRun, ClaimsHold, DriverIsNamed, ReleasedIsOver, Taking, Relaunchable, Goto, At, PC, Dead
  <2>3. ClaimsHold'
      BY <1>7 DEF Load, TypeOK, RunningIsRun, ClaimsHold, DriverIsNamed, ReleasedIsOver, Taking, Relaunchable, Goto, At, PC, Dead
  <2>4. DriverIsNamed' /\ ReleasedIsOver'
      BY <1>7 DEF Load, TypeOK, ClaimsHold, DriverIsNamed, ReleasedIsOver, Taking, Relaunchable, Goto, At, PC, Dead
  <2>5. SomebodyWill'
      BY <1>7 DEF Load, TypeOK, RunningIsRun, ClaimsHold, DriverIsNamed, ReleasedIsOver, SomebodyWill, Taking, Relaunchable, Goto, At, PC, Dead
  <2> QED BY <2>1, <2>2, <2>3, <2>4, <2>5
<1>8. ASSUME NEW d \in Daemon, Take(d) PROVE IInv'
  <2>1. TypeOK'
      BY <1>8 DEF Take, TypeOK, PC, Goto, At
  <2>2. RelaunchIsBounded' /\ RunningIsRun'
      BY <1>8 DEF Take, TypeOK, RelaunchIsBounded, RunningIsRun, ClaimsHold, DriverIsNamed, ReleasedIsOver, Taking, Relaunchable, Goto, At, PC, Dead
  <2>3. ClaimsHold'
      BY <1>8 DEF Take, TypeOK, RunningIsRun, ClaimsHold, DriverIsNamed, ReleasedIsOver, Taking, Relaunchable, Goto, At, PC, Dead
  <2>4. DriverIsNamed' /\ ReleasedIsOver'
      BY <1>8 DEF Take, TypeOK, ClaimsHold, DriverIsNamed, ReleasedIsOver, Taking, Relaunchable, Goto, At, PC, Dead
  <2>5. SomebodyWill'
      BY <1>8 DEF Take, TypeOK, RunningIsRun, ClaimsHold, DriverIsNamed, ReleasedIsOver, SomebodyWill, Taking, Relaunchable, Goto, At, PC, Dead
  <2> QED BY <2>1, <2>2, <2>3, <2>4, <2>5
<1>9. ASSUME NEW d \in Daemon, Mark(d) PROVE IInv'
  <2>1. TypeOK'
      BY <1>9 DEF Mark, TypeOK, PC, Goto, At, ClaimsHold
  <2>2. RelaunchIsBounded' /\ RunningIsRun'
      BY <1>9 DEF Mark, TypeOK, RelaunchIsBounded, RunningIsRun, ClaimsHold, DriverIsNamed, ReleasedIsOver, Taking, Relaunchable, Goto, At, PC, Dead
  <2>3. ClaimsHold'
      BY <1>9 DEF Mark, TypeOK, RunningIsRun, ClaimsHold, DriverIsNamed, ReleasedIsOver, Taking, Relaunchable, Goto, At, PC, Dead
  <2>4. DriverIsNamed' /\ ReleasedIsOver'
      BY <1>9 DEF Mark, TypeOK, ClaimsHold, DriverIsNamed, ReleasedIsOver, Taking, Relaunchable, Goto, At, PC, Dead
  <2>5. SomebodyWill'
      BY <1>9 DEF Mark, TypeOK, RunningIsRun, ClaimsHold, DriverIsNamed, ReleasedIsOver, SomebodyWill, Taking, Relaunchable, Goto, At, PC, Dead
  <2> QED BY <2>1, <2>2, <2>3, <2>4, <2>5
<1>10. ASSUME NEW d \in Daemon, Finish(d) PROVE IInv'
  <2>1. TypeOK'
      BY <1>10 DEF Finish, TypeOK, PC, Goto, At
  <2>2. RelaunchIsBounded' /\ RunningIsRun'
      BY <1>10 DEF Finish, TypeOK, RelaunchIsBounded, RunningIsRun, ClaimsHold, DriverIsNamed, ReleasedIsOver, Taking, Relaunchable, Goto, At, PC, Dead
  <2>3. ClaimsHold'
      BY <1>10 DEF Finish, TypeOK, RunningIsRun, ClaimsHold, DriverIsNamed, ReleasedIsOver, Taking, Relaunchable, Goto, At, PC, Dead
  <2>4. DriverIsNamed' /\ ReleasedIsOver'
      BY <1>10 DEF Finish, TypeOK, ClaimsHold, DriverIsNamed, ReleasedIsOver, Taking, Relaunchable, Goto, At, PC, Dead
  <2>5. SomebodyWill'
      BY <1>10 DEF Finish, TypeOK, RunningIsRun, ClaimsHold, DriverIsNamed, ReleasedIsOver, SomebodyWill, Taking, Relaunchable, Goto, At, PC, Dead
  <2> QED BY <2>1, <2>2, <2>3, <2>4, <2>5
<1>11. ASSUME NEW d \in Daemon, Release(d) PROVE IInv'
  <2>1. TypeOK'
      BY <1>11 DEF Release, TypeOK, PC, Goto, At
  <2>2. RelaunchIsBounded' /\ RunningIsRun'
      BY <1>11 DEF Release, TypeOK, RelaunchIsBounded, RunningIsRun, ClaimsHold, DriverIsNamed, ReleasedIsOver, Taking, Relaunchable, Goto, At, PC, Dead
  <2>3. ClaimsHold'
      BY <1>11 DEF Release, TypeOK, RunningIsRun, ClaimsHold, DriverIsNamed, ReleasedIsOver, Taking, Relaunchable, Goto, At, PC, Dead
  <2>4. DriverIsNamed' /\ ReleasedIsOver'
      BY <1>11 DEF Release, TypeOK, ClaimsHold, DriverIsNamed, ReleasedIsOver, Taking, Relaunchable, Goto, At, PC, Dead
  <2>5. SomebodyWill'
      BY <1>11 DEF Release, TypeOK, RunningIsRun, ClaimsHold, DriverIsNamed, ReleasedIsOver, SomebodyWill, Taking, Relaunchable, Goto, At, PC, Dead
  <2> QED BY <2>1, <2>2, <2>3, <2>4, <2>5
<1>12. ASSUME NEW d \in Daemon, Beat(d) PROVE IInv'
  <2>1. TypeOK'
      BY <1>12 DEF Beat, TypeOK, PC, Goto, At
  <2>2. RelaunchIsBounded' /\ RunningIsRun'
      BY <1>12 DEF Beat, TypeOK, RelaunchIsBounded, RunningIsRun, ClaimsHold, DriverIsNamed, ReleasedIsOver, Taking, Relaunchable, Goto, At, PC, Dead
  <2>3. ClaimsHold'
      BY <1>12 DEF Beat, TypeOK, RunningIsRun, ClaimsHold, DriverIsNamed, ReleasedIsOver, Taking, Relaunchable, Goto, At, PC, Dead
  <2>4. DriverIsNamed' /\ ReleasedIsOver'
      BY <1>12 DEF Beat, TypeOK, ClaimsHold, DriverIsNamed, ReleasedIsOver, Taking, Relaunchable, Goto, At, PC, Dead
  <2>5. SomebodyWill'
      BY <1>12 DEF Beat, TypeOK, RunningIsRun, ClaimsHold, DriverIsNamed, ReleasedIsOver, SomebodyWill, Taking, Relaunchable, Goto, At, PC, Dead
  <2> QED BY <2>1, <2>2, <2>3, <2>4, <2>5
<1>13. ASSUME NEW d \in Daemon, Crash(d) PROVE IInv'
  <2>1. TypeOK'
      BY <1>13 DEF Crash, TypeOK, PC, Goto, At
  <2>2. RelaunchIsBounded' /\ RunningIsRun'
      BY <1>13 DEF Crash, TypeOK, RelaunchIsBounded, RunningIsRun, ClaimsHold, DriverIsNamed, ReleasedIsOver, Taking, Relaunchable, Goto, At, PC, Dead
  <2>3. ClaimsHold'
      BY <1>13 DEF Crash, TypeOK, RunningIsRun, ClaimsHold, DriverIsNamed, ReleasedIsOver, Taking, Relaunchable, Goto, At, PC, Dead
  <2>4. DriverIsNamed' /\ ReleasedIsOver'
      BY <1>13 DEF Crash, TypeOK, ClaimsHold, DriverIsNamed, ReleasedIsOver, Taking, Relaunchable, Goto, At, PC, Dead
  <2>5. SomebodyWill'
      BY <1>13 DEF Crash, TypeOK, RunningIsRun, ClaimsHold, DriverIsNamed, ReleasedIsOver, SomebodyWill, Taking, Relaunchable, Goto, At, PC, Dead
  <2> QED BY <2>1, <2>2, <2>3, <2>4, <2>5
<1> QED BY <1>1, <1>2, <1>3, <1>4, <1>5, <1>6, <1>7, <1>8, <1>9, <1>10, <1>11, <1>12, <1>13 DEF Next, Work

----------------------------------------------------------------------------
LEMMA Always ==
    ASSUME ~MayStraddle
    PROVE  Spec => []IInv
<1>1. IInv /\ [Next]_vars => IInv'
    BY NextIInv
<1> QED BY <1>1, InitIInv, PTL DEF Spec

(* The store and the daemons keep their types.                               *)
THEOREM RelaunchTypeCorrect ==
    ASSUME ~MayStraddle
    PROVE  Spec => []TypeOK
<1>1. IInv => TypeOK
    BY DEF IInv
<1> QED BY <1>1, Always, PTL

(* However many daemons start and die, GraphSpec.relaunch bounds the attempts *)
(* they open, although the bound is judged on a listing (_relaunchable).     *)
THEOREM RelaunchesAreBounded ==
    ASSUME ~MayStraddle
    PROVE  Spec => []RelaunchIsBounded
<1>1. IInv => RelaunchIsBounded
    BY DEF IInv
<1> QED BY <1>1, Always, PTL

(* However many daemons claim the job at once, one drives it, the record     *)
(* names it, and of those that live somebody has (relaunch_interrupted).     *)
THEOREM ClaimsAlwaysAgree ==
    ASSUME ~MayStraddle, Daemon # {}
    PROVE  Spec => []ClaimsAgree
<1>1. IInv => ClaimsAgree
  <2> SUFFICES ASSUME IInv PROVE ClaimsAgree
      OBVIOUS
  <2>1. OneDriver
      BY DEF IInv, DriverIsNamed, OneDriver
  <2>2. RunningIsRun
      BY DEF IInv
  <2>3. SomebodyRelaunches
    <3> SUFFICES ASSUME \A d \in Daemon : At(d, "serve"), Bound > 0, rec.status # "done"
                 PROVE  FALSE
        BY DEF SomebodyRelaunches
    <3>1. \A d \in Daemon : ~At(d, "dead")
        BY DEF At
    <3>2. CASE rec.status = "failed"
        BY <3>1, <3>2 DEF IInv, SomebodyWill, At
    <3>3. CASE rec.status = "running" /\ rec.by = "gone"
        BY <3>1, <3>3 DEF IInv, SomebodyWill, At
    <3>4. CASE rec.status = "running" /\ rec.by # "gone"
        BY <3>4 DEF IInv, TypeOK, RunningIsRun, At
    <3> QED BY <3>2, <3>3, <3>4 DEF IInv, TypeOK
  <2> QED BY <2>1, <2>2, <2>3 DEF ClaimsAgree
<1> QED BY <1>1, Always, PTL

=============================================================================
