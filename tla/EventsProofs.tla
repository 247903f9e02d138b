---------------------------- MODULE EventsProofs ----------------------------
(* What holds of Events for any jobs, clock and queue, on either database,   *)
(* where saves commit in the order of their stamps, whatever looks, NOTIFYs  *)
(* and watches fail: every step is a step of Feed, and a watch at rest       *)
(* missed nothing but what a failure kept from it.                           *)
EXTENDS Events, FiniteSetTheorems, TLAPS

Watches ==
    {NoWatch} \cup [pc : {"open", "dead"}]
      \cup [pc : {"look"}, version : Nat, first : BOOLEAN]
      \cup [pc : {"wait"}, version : Nat]
      \cup [pc : {"fold"}, version : Nat, first : BOOLEAN, rows : UNION {[S -> Stamp] : S \in SUBSET Job}]

\* What the proofs need of the types.
Typed ==
    /\ backend \in {"sqlite", "postgres"} /\ clock \in Stamp /\ commits \in Nat
    /\ db \in [Job -> Stamp] /\ seen \in [Job -> Stamp]
    /\ saving \in [Job -> {NoSave} \cup [pc : {"commit", "publish"}, stamp : Stamp]]
    /\ {watermark, since} \subseteq Stamp /\ queue \in 0 .. MaxQueue
    /\ watch \in Watches

\* Nothing that was read, seen or asked for is younger than the clock, and what
\* commits next is no older than any of it, and younger than the job's record.
Timed ==
    /\ \A j \in Job : db[j] <= clock /\ seen[j] <= db[j]
    /\ since <= clock /\ watermark <= clock
    /\ \A j \in Job : saving[j].pc = "commit" =>
         /\ db[j] < saving[j].stamp /\ saving[j].stamp <= clock
         /\ since <= saving[j].stamp /\ watermark <= saving[j].stamp
         /\ \A k \in Job : db[k] <= saving[j].stamp /\ (saving[k].pc = "commit" => k = j)
    /\ \A j \in Job : saving[j].pc = "publish" => saving[j].stamp = db[j]
    /\ watch.pc = "fold" => \A j \in DOMAIN watch.rows : watch.rows[j] <= db[j]
    /\ watch.pc \in {"look", "fold", "wait"} => watch.version <= commits

\* What moved since the subscription and is not what the watch saw last.
Unseen(j) == since <= db[j] /\ seen[j] # db[j]

\* SQLite: what is older than the watermark was seen as it is.  A look that is
\* being folded read a row as it is, or there was a commit since, of a stamp
\* that the watermark does not pass; a watch that waits has a commit to see.
Read(j) == j \in DOMAIN watch.rows /\ watch.rows[j] = db[j]
Later(j) ==
    /\ watermark <= db[j] /\ \A k \in DOMAIN watch.rows : watch.rows[k] <= db[j]
    /\ watch.version < commits

Watermarked ==
    backend = "sqlite" =>
        /\ \A j \in Job : Unseen(j) => watermark <= db[j]
        /\ watch.pc = "fold" =>
             \A j \in Job : since <= db[j] =>
                Read(j) \/ Later(j) \/ (j \notin DOMAIN watch.rows /\ seen[j] = db[j])
        /\ watch.pc = "wait" => \A j \in Job : Unseen(j) => watch.version < commits \/ j \in lost

\* Postgres: what no look has read is named by a NOTIFY on its way, or lost.
Noted(j) == j \in notify \cup notes \/ saving[j].pc = "publish" \/ j \in lost

Notified ==
    backend = "postgres" =>
        /\ watch.pc = "fold" =>
             \A j \in Job : since <= db[j] =>
                Read(j) \/ Noted(j) \/ (j \notin DOMAIN watch.rows /\ seen[j] = db[j])
        /\ watch.pc = "wait" => \A j \in Job : Unseen(j) => Noted(j)

IInv == Typed /\ Timed /\ Watermarked /\ Notified


-----------------------------------------------------------------------------
LEMMA StampsAreNat == Stamp \subseteq Nat /\ MaxClock \in Nat /\ MaxQueue \in Nat \ {0}
    BY EventsAssumption DEF Stamp

LEMMA WatchTyped ==
    ASSUME Typed
    PROVE  /\ watch.pc \in {"off", "open", "dead", "look", "wait", "fold"}
           /\ watch.pc = "off" <=> watch = NoWatch
           /\ watch.pc \in {"look", "fold", "wait"} => watch.version \in Nat
           /\ watch.pc \in {"look", "fold"} => watch.first \in BOOLEAN
           /\ watch.pc = "fold" => DOMAIN watch.rows \subseteq Job /\ \A j \in DOMAIN watch.rows : watch.rows[j] \in Stamp
<1>1. NoWatch.pc = "off"
    BY DEF NoWatch
<1>2. watch \in Watches
    BY DEF Typed
<1> QED BY <1>1, <1>2 DEF Watches

LEMMA SavingTyped ==
    ASSUME Typed
    PROVE  \A j \in Job : /\ saving[j].pc \in {"idle", "commit", "publish"}
                          /\ saving[j].pc # "idle" => saving[j].stamp \in Stamp
<1>1. NoSave.pc = "idle"
    BY DEF NoSave
<1>2. \A j \in Job : saving[j] \in {NoSave} \cup [pc : {"commit", "publish"}, stamp : Stamp]
    BY DEF Typed
<1> QED BY <1>1, <1>2

\* The store's numbers.
LEMMA Numbers ==
    ASSUME Typed
    PROVE  /\ clock \in Nat /\ since \in Nat /\ watermark \in Nat /\ commits \in Nat /\ queue \in Nat
           /\ \A j \in Job : db[j] \in Nat /\ seen[j] \in Nat
           /\ \A j \in Job : saving[j].pc # "idle" => saving[j].stamp \in Nat
           /\ watch.pc = "fold" => \A j \in DOMAIN watch.rows : watch.rows[j] \in Nat
           /\ watch.pc \in {"look", "fold", "wait"} => watch.version \in Nat
<1>1. \A j \in Job : saving[j].pc # "idle" => saving[j].stamp \in Nat
    BY SavingTyped, StampsAreNat
<1>2. watch.pc = "fold" => \A j \in DOMAIN watch.rows : watch.rows[j] \in Nat
    BY WatchTyped, StampsAreNat
<1>3. watch.pc \in {"look", "fold", "wait"} => watch.version \in Nat
    BY WatchTyped
<1>4. clock \in Nat /\ since \in Nat /\ watermark \in Nat /\ commits \in Nat /\ queue \in Nat
  <2>1. clock \in Stamp /\ since \in Stamp /\ watermark \in Stamp /\ commits \in Nat /\ queue \in 0 .. MaxQueue
      BY DEF Typed
  <2> QED BY <2>1, StampsAreNat
<1>5. \A j \in Job : db[j] \in Nat /\ seen[j] \in Nat
    BY StampsAreNat DEF Typed
<1> QED BY <1>1, <1>2, <1>3, <1>4, <1>5

LEMMA SomeJobs ==
    ASSUME NEW S, S \subseteq Job
    PROVE  Cardinality(S) \in Nat /\ Cardinality(S) <= Cardinality(Job) /\ (Cardinality(S) = 0 <=> S = {})
<1>1. IsFiniteSet(Job)
    BY EventsAssumption
<1>2. IsFiniteSet(S) /\ Cardinality(S) <= Cardinality(Job)
    BY <1>1, FS_Subset
<1> QED BY <1>2, FS_CardinalityType, FS_EmptySet

\* A full queue stays full; else it has the events that came.
LEMMA Queued ==
    ASSUME queue \in 0 .. MaxQueue, NEW n \in Nat, Enqueued(n)
    PROVE  /\ queue' \in 0 .. MaxQueue
           /\ n = 0 => queue' = queue
<1>1. queue + n \in Nat /\ MaxQueue \in Nat
    BY StampsAreNat
<1>2. CASE queue + n <= MaxQueue
  <2>1. queue' = queue + n
      BY <1>1, <1>2 DEF Enqueued, Min
  <2> QED BY <1>2, <2>1, StampsAreNat
<1>3. CASE ~(queue + n <= MaxQueue)
  <2>1. queue' = MaxQueue
      BY <1>1, <1>3 DEF Enqueued, Min
  <2> QED BY <1>3, <2>1, StampsAreNat
<1> QED BY <1>2, <1>3

-----------------------------------------------------------------------------
(* The saves.                                                                *)
LEMMA SaveKeeps ==
    ASSUME ~MayCommitLate, IInv, NEW i \in Job, Save(i)
    PROVE  IInv'
<1> USE DEF IInv
<1>0. /\ saving[i] = NoSave /\ \A k \in Job : saving[k].pc # "commit"
      /\ clock' \in {clock, clock + 1} /\ db[i] < clock' /\ clock' \in Stamp /\ clock <= clock'
      /\ saving' = [saving EXCEPT ![i] = [pc |-> "commit", stamp |-> clock']]
      /\ UNCHANGED <<backend, db, commits, notify, notes, seen, watermark, since, watch, queue, lost>>
  <2>1. /\ saving[i] = NoSave /\ \A k \in Job : saving[k].pc # "commit"
        /\ clock' \in {clock, clock + 1} /\ clock' \in db[i] + 1 .. MaxClock
        /\ saving' = [saving EXCEPT ![i] = [pc |-> "commit", stamp |-> clock']]
        /\ UNCHANGED <<backend, db, commits, notify, notes, seen, watermark, since, watch, queue, lost>>
      BY DEF Save
  <2>2. clock' \in Stamp /\ db[i] < clock' /\ clock <= clock'
      BY <2>1, Numbers, StampsAreNat DEF Stamp
  <2> QED BY <2>1, <2>2
<1>1. /\ saving'[i].pc = "commit" /\ saving'[i].stamp = clock'
      /\ \A k \in Job : k # i => saving'[k] = saving[k] /\ saving'[k].pc # "commit"
      /\ saving[i].pc = "idle"
    BY <1>0 DEF Typed, NoSave
<1>2. Typed'
    BY <1>0 DEF Typed
<1>3. Timed'
  <2>1. \A j \in Job : db[j] <= clock' /\ seen[j] <= db[j]
    <3>1. clock' \in Nat
        BY <1>0, StampsAreNat
    <3> QED BY <1>0, <3>1, Numbers DEF Timed
  <2>2. since <= clock' /\ watermark <= clock'
    <3>1. clock' \in Nat
        BY <1>0, StampsAreNat
    <3> QED BY <1>0, <3>1, Numbers DEF Timed
  <2>3. \A k \in Job : db[k] <= clock'
      BY <2>1
  <2>4. \A j \in Job : saving'[j].pc = "commit" => j = i
      BY <1>1
  <2>5. \A j \in Job : saving'[j].pc = "publish" => saving'[j] = saving[j]
      BY <1>1
  <2>6. \A j \in Job : saving'[j].pc = "publish" => saving'[j].stamp = db[j]
      BY <2>5 DEF Timed
  <2>7. clock' <= clock'
      BY <1>0, StampsAreNat
  <2>8. \A j \in Job : saving'[j].pc = "commit" =>
         /\ db'[j] < saving'[j].stamp /\ saving'[j].stamp <= clock'
         /\ since' <= saving'[j].stamp /\ watermark' <= saving'[j].stamp
         /\ \A k \in Job : db'[k] <= saving'[j].stamp /\ (saving'[k].pc = "commit" => k = j)
      BY <1>0, <1>1, <2>2, <2>3, <2>4, <2>7
  <2> QED BY <1>0, <2>1, <2>2, <2>6, <2>8 DEF Timed
<1>4. Watermarked'
    BY <1>0 DEF Watermarked, Unseen, Read, Later
<1>5. Notified'
  <2>1. \A j \in Job : Noted(j)' <=> Noted(j)
      BY <1>0, <1>1 DEF Noted
  <2> QED BY <1>0, <2>1 DEF Notified, Unseen, Read
<1> QED BY <1>2, <1>3, <1>4, <1>5

LEMMA CommitKeeps ==
    ASSUME IInv, NEW i \in Job, Commit(i)
    PROVE  IInv'
<1> USE DEF IInv
<1>0. /\ saving[i].pc = "commit" /\ db' = [db EXCEPT ![i] = saving[i].stamp] /\ commits' = commits + 1
      /\ saving' = [saving EXCEPT ![i].pc = "publish"]
      /\ \A k \in Job : k # i => (k \in lost' <=> k \in lost)
      /\ UNCHANGED <<backend, clock, notify, notes, seen, watermark, since, watch, queue>>
    BY DEF Commit, Lost
<1>1. /\ saving[i] \in [pc : {"commit", "publish"}, stamp : Stamp]
      /\ saving'[i] = [pc |-> "publish", stamp |-> saving[i].stamp]
      /\ saving'[i].pc = "publish" /\ saving'[i].stamp = saving[i].stamp
      /\ \A k \in Job : k # i => saving'[k] = saving[k] /\ saving'[k].pc # "commit" /\ db'[k] = db[k]
      /\ db'[i] = saving[i].stamp /\ DOMAIN saving' = Job
  <2>1. saving[i] \in [pc : {"commit", "publish"}, stamp : Stamp]
      BY <1>0 DEF Typed, NoSave
  <2>2. saving'[i] = [saving[i] EXCEPT !.pc = "publish"] /\ DOMAIN saving' = Job
      BY <1>0 DEF Typed
  <2>3. saving'[i] = [pc |-> "publish", stamp |-> saving[i].stamp]
      BY <2>1, <2>2
  <2>4. \A k \in Job : k # i => saving'[k] = saving[k] /\ saving'[k].pc # "commit" /\ db'[k] = db[k]
      BY <1>0 DEF Typed, Timed
  <2> QED BY <1>0, <2>1, <2>2, <2>3, <2>4 DEF Typed
<1>2. Typed'
  <2>1. saving' \in [Job -> {NoSave} \cup [pc : {"commit", "publish"}, stamp : Stamp]]
      BY <1>0, <1>1 DEF Typed
  <2> QED BY <1>0, <1>1, <2>1 DEF Typed
<1>6. /\ db[i] < db'[i] /\ db'[i] <= clock /\ since <= db'[i] /\ watermark <= db'[i]
      /\ \A k \in Job : db[k] <= db'[i]
      /\ \A k \in Job : db[k] <= db'[k]
    BY <1>0, <1>1, Numbers DEF Timed
<1>7. \A k \in Job : db'[k] \in Nat
    BY <1>2, StampsAreNat DEF Typed
<1>3. Timed'
  <2>1. \A j \in Job : db'[j] <= clock /\ seen[j] <= db'[j]
      BY <1>0, <1>6, <1>1, <1>7, Numbers DEF Timed
  <2>2. watch.pc = "fold" => \A j \in DOMAIN watch.rows : watch.rows[j] <= db'[j]
    <3> SUFFICES ASSUME watch.pc = "fold", NEW j \in DOMAIN watch.rows PROVE watch.rows[j] <= db'[j]
        OBVIOUS
    <3>1. j \in Job /\ watch.rows[j] <= db[j] /\ db[j] <= db'[j] /\ watch.rows[j] \in Nat
        BY <1>6, WatchTyped, Numbers DEF Timed
    <3>2. db[j] \in Nat /\ db'[j] \in Nat
        BY <1>7, <3>1, Numbers
    <3> QED BY <3>1, <3>2
  <2>3. watch.pc \in {"look", "fold", "wait"} => watch.version <= commits'
      BY <1>0, Numbers DEF Timed
  <2>4. \A j \in Job : saving'[j].pc = "publish" => saving'[j].stamp = db'[j]
      BY <1>1 DEF Timed
  <2>5. \A j \in Job : saving'[j].pc # "commit"
      BY <1>1
  <2> QED BY <1>0, <2>1, <2>2, <2>3, <2>4, <2>5 DEF Timed
<1>4. Watermarked'
  <2>1. watch.pc \in {"look", "fold", "wait"} => watch.version < commits'
      BY <1>0, Numbers DEF Timed
  <2>2. \A j \in Job : j # i => (Unseen(j)' <=> Unseen(j)) /\ (Read(j)' <=> Read(j))
      BY <1>0, <1>1 DEF Unseen, Read
  <2>3. \A j \in Job : watch.pc = "fold" /\ j # i /\ Later(j) => Later(j)'
      BY <1>0, <1>1, <2>1 DEF Later
  <2>4. watch.pc = "fold" => Later(i)'
    <3> SUFFICES ASSUME watch.pc = "fold" PROVE Later(i)'
        OBVIOUS
    <3>1. \A k \in DOMAIN watch.rows : watch.rows[k] <= db'[i]
      <4> TAKE k \in DOMAIN watch.rows
      <4>1. k \in Job /\ watch.rows[k] <= db[k] /\ db[k] <= db'[i]
          BY <1>6, WatchTyped DEF Timed
      <4>2. watch.rows[k] \in Nat /\ db[k] \in Nat /\ db'[i] \in Nat
          BY <1>7, <4>1, Numbers
      <4> QED BY <4>1, <4>2
    <3> QED BY <1>0, <1>6, <2>1, <3>1 DEF Later
  <2>5. backend = "sqlite" => \A j \in Job : Unseen(j)' => watermark' <= db'[j]
      BY <1>0, <1>1, <1>6, <2>2 DEF Watermarked
  <2>6. watch.pc = "fold" /\ backend = "sqlite" =>
           \A j \in Job : since' <= db'[j] =>
              Read(j)' \/ Later(j)' \/ (j \notin DOMAIN watch'.rows /\ seen'[j] = db'[j])
    <3> SUFFICES ASSUME watch.pc = "fold", backend = "sqlite", NEW j \in Job, since' <= db'[j]
                 PROVE  Read(j)' \/ Later(j)' \/ (j \notin DOMAIN watch'.rows /\ seen'[j] = db'[j])
        OBVIOUS
    <3>1. CASE j = i
        BY <2>4, <3>1
    <3>2. CASE j # i
        BY <1>0, <1>1, <2>2, <2>3, <3>2 DEF Watermarked
    <3> QED BY <3>1, <3>2
  <2> QED BY <1>0, <2>1, <2>5, <2>6 DEF Watermarked
<1>5. Notified'
  <2>1. \A j \in Job : j # i => (Unseen(j)' <=> Unseen(j)) /\ (Read(j)' <=> Read(j)) /\ (Noted(j)' <=> Noted(j))
      BY <1>0, <1>1 DEF Unseen, Read, Noted
  <2>2. Noted(i)'
      BY <1>1 DEF Noted
  <2> QED BY <1>0, <1>1, <2>1, <2>2 DEF Notified
<1> QED BY <1>2, <1>3, <1>4, <1>5

LEMMA PublishKeeps ==
    ASSUME IInv, NEW i \in Job, Publish(i)
    PROVE  IInv'
<1> USE DEF IInv
<1>0. /\ saving[i].pc = "publish" /\ saving' = [saving EXCEPT ![i] = NoSave]
      /\ notify \subseteq notify' /\ (backend = "postgres" => i \in notify')
      /\ \/ seen' = [seen EXCEPT ![i] = saving[i].stamp] /\ lost' = lost \ {i}
         \/ UNCHANGED <<seen, lost>>
      /\ UNCHANGED <<backend, clock, db, commits, notes, watermark, since, watch>>
    BY DEF Publish
<1>1. /\ saving'[i].pc = "idle" /\ \A k \in Job : k # i => saving'[k] = saving[k]
      /\ saving[i].stamp = db[i] /\ DOMAIN saving' = Job
      /\ \A k \in Job : k # i => seen'[k] = seen[k]
      /\ seen'[i] = db[i] \/ seen'[i] = seen[i]
    BY <1>0 DEF Typed, Timed, NoSave
<1>2. Typed'
  <2>1. saving' \in [Job -> {NoSave} \cup [pc : {"commit", "publish"}, stamp : Stamp]]
      BY <1>0, <1>1 DEF Typed
  <2>2. seen' \in [Job -> Stamp]
      BY <1>0, <1>1 DEF Typed
  <2>3. queue' \in 0 .. MaxQueue
      BY Numbers, Queued DEF Publish, Typed
  <2> QED BY <1>0, <2>1, <2>2, <2>3 DEF Typed
<1>3. Timed'
  <2>1. \A j \in Job : db[j] <= clock /\ seen'[j] <= db[j]
      BY <1>0, <1>1, Numbers DEF Timed
  <2>2. \A j \in Job : saving'[j].pc = "commit" => saving'[j] = saving[j]
      BY <1>1
  <2>3. \A j \in Job : saving'[j].pc = "publish" => saving'[j] = saving[j]
      BY <1>1
  <2>4. \A j, k \in Job : saving'[j].pc = "commit" /\ saving'[k].pc = "commit" => k = j
      BY <2>2 DEF Timed
  <2> QED BY <1>0, <2>1, <2>2, <2>3, <2>4 DEF Timed
<1>6. \A j \in Job : /\ Unseen(j)' => Unseen(j) /\ (j \in lost => j \in lost')
                     /\ Read(j)' <=> Read(j)
                     /\ seen[j] = db[j] => seen'[j] = db'[j]
    BY <1>0, <1>1 DEF Unseen, Read, Typed
<1>4. Watermarked'
  <2>1. \A j \in Job : Later(j)' <=> Later(j)
      BY <1>0 DEF Later
  <2> QED BY <1>0, <1>6, <2>1 DEF Watermarked
<1>5. Notified'
  <2>1. backend = "postgres" => \A j \in Job : Noted(j) => Noted(j)'
      BY <1>0, <1>1 DEF Noted
  <2> QED BY <1>0, <1>6, <2>1 DEF Notified
<1> QED BY <1>2, <1>3, <1>4, <1>5

(* When neither saves nor the clock move, nor what was seen.                 *)
LEMMA TimedStays ==
    ASSUME Timed, UNCHANGED <<clock, db, saving, seen, watermark, since, commits>>,
           watch'.pc = "fold" => \A j \in DOMAIN watch'.rows : watch'.rows[j] <= db[j],
           watch'.pc \in {"look", "fold", "wait"} => watch'.version <= commits
    PROVE  Timed'
    BY DEF Timed

\* A NOTIFY is received, or dropped.
LEMMA NotifyKeeps ==
    ASSUME IInv, NEW i \in Job, Notify(i) \/ Drop(i)
    PROVE  IInv'
<1> USE DEF IInv
<1>0. /\ i \in notify /\ notify' = notify \ {i}
      /\ notes \subseteq notes' /\ lost \subseteq lost'
      /\ watch.pc \in {"fold", "wait"} => i \in notes' \cup lost' \/ saving[i].pc = "publish"
      /\ UNCHANGED <<backend, clock, db, saving, commits, seen, watermark, since, watch, queue>>
  <2>1. CASE Notify(i)
      BY <2>1 DEF Notify, store
  <2>2. CASE Drop(i)
    <3>1. watch.pc \in {"fold", "wait"} => watch # NoWatch
        BY DEF NoWatch
    <3> QED BY <2>2, <3>1 DEF Drop, Lost, store
  <2> QED BY <2>1, <2>2
<1>1. Typed'
    BY <1>0 DEF Typed
<1>2. Timed'
    BY <1>0, TimedStays DEF Timed
<1>3. Watermarked'
    BY <1>0 DEF Watermarked, Unseen, Read, Later
<1>4. Notified'
  <2>1. watch.pc \in {"fold", "wait"} => \A j \in Job : Noted(j) => Noted(j)'
      BY <1>0 DEF Noted
  <2> QED BY <1>0, <2>1 DEF Notified, Unseen, Read
<1> QED BY <1>1, <1>2, <1>3, <1>4

\* Another process dies in a save.
LEMMA DieKeeps ==
    ASSUME IInv, NEW i \in Job, Die(i)
    PROVE  IInv'
<1> USE DEF IInv
<1>0. /\ saving' = [saving EXCEPT ![i] = NoSave] /\ lost \subseteq lost'
      /\ (backend = "postgres" /\ saving[i].pc = "publish" /\ watch.pc \in {"fold", "wait"}) => i \in lost'
      /\ UNCHANGED <<backend, clock, db, commits, notify, notes, seen, watermark, since, watch, queue>>
  <2>1. watch.pc \in {"fold", "wait"} => watch # NoWatch
      BY DEF NoWatch
  <2> QED BY <2>1 DEF Die, Lost
<1>1. /\ saving'[i].pc = "idle" /\ \A k \in Job : k # i => saving'[k] = saving[k]
      /\ DOMAIN saving' = Job
    BY <1>0 DEF Typed, NoSave
<1>2. Typed'
  <2>1. saving' \in [Job -> {NoSave} \cup [pc : {"commit", "publish"}, stamp : Stamp]]
      BY <1>0, <1>1 DEF Typed
  <2> QED BY <1>0, <2>1 DEF Typed
<1>3. Timed'
  <2>1. \A j \in Job : saving'[j].pc = "commit" => saving'[j] = saving[j]
      BY <1>1
  <2>2. \A j \in Job : saving'[j].pc = "publish" => saving'[j] = saving[j]
      BY <1>1
  <2>3. \A j, k \in Job : saving'[j].pc = "commit" /\ saving'[k].pc = "commit" => k = j
      BY <2>1 DEF Timed
  <2> QED BY <1>0, <2>1, <2>2, <2>3 DEF Timed
<1>4. Watermarked'
    BY <1>0 DEF Watermarked, Unseen, Read, Later
<1>5. Notified'
  <2>1. backend = "postgres" /\ watch.pc \in {"fold", "wait"} => \A j \in Job : Noted(j) => Noted(j)'
      BY <1>0, <1>1 DEF Noted
  <2> QED BY <1>0, <2>1 DEF Notified, Unseen, Read
<1> QED BY <1>2, <1>3, <1>4, <1>5

-----------------------------------------------------------------------------
(* The subscription.                                                         *)
LEMMA SubscribeKeeps ==
    ASSUME ~MayCommitLate, IInv, Subscribe \/ Revive
    PROVE  IInv'
<1> USE DEF IInv
<1>0. /\ \A k \in Job : saving[k].pc # "commit"
      /\ since' = clock /\ watch' = [pc |-> "open"] /\ watch'.pc = "open"
      /\ UNCHANGED <<backend, clock, db, saving, commits, notify, notes, seen, watermark, queue>>
    BY DEF Subscribe, Revive, store
<1>1. Typed'
    BY <1>0 DEF Typed, Watches
<1>2. Timed'
    BY <1>0, Numbers DEF Timed
<1>3. Watermarked'
  <2>1. \A j \in Job : Unseen(j)' => watermark <= db[j]
    <3> SUFFICES ASSUME NEW j \in Job, clock <= db[j] PROVE watermark <= db[j]
        BY <1>0 DEF Unseen
    <3> QED BY Numbers DEF Timed
  <2> QED BY <1>0, <2>1 DEF Watermarked
<1>4. Notified'
    BY <1>0 DEF Notified
<1> QED BY <1>1, <1>2, <1>3, <1>4

LEMMA OpenKeeps ==
    ASSUME IInv, Open \/ Tick
    PROVE  IInv'
<1> USE DEF IInv
<1>0. /\ \E first \in BOOLEAN : watch' = [pc |-> "look", version |-> commits, first |-> first]
      /\ UNCHANGED <<backend, clock, db, saving, commits, notify, notes, seen, watermark, since, queue, lost>>
    BY DEF Open, Tick, store
<1>9. watch' \in Watches /\ watch'.pc = "look" /\ watch'.version = commits
    BY <1>0, Numbers DEF Watches
<1>1. Typed'
    BY <1>0, <1>9 DEF Typed
<1>2. Timed'
    BY <1>0, <1>9, Numbers, TimedStays
<1>3. Watermarked'
    BY <1>0, <1>9 DEF Watermarked, Unseen
<1>4. Notified'
    BY <1>0, <1>9 DEF Notified
<1> QED BY <1>1, <1>2, <1>3, <1>4

LEMMA LookKeeps ==
    ASSUME IInv, Look
    PROVE  IInv'
<1> USE DEF IInv
<1> DEFINE from == IF backend = "sqlite" THEN watermark ELSE since
           moved == {k \in Job : from <= db[k]}
<1>0. /\ watch.pc = "look"
      /\ watch' = [pc |-> "fold", version |-> watch.version, first |-> watch.first,
                   rows |-> [j \in moved |-> db[j]]]
      /\ UNCHANGED <<backend, clock, db, saving, commits, notify, notes, seen, watermark, since, queue, lost>>
  <2>1. \A k \in Job : db[k] >= from <=> from <= db[k]
      BY Numbers
  <2> QED BY <2>1 DEF Look, store
<1>9. /\ watch'.pc = "fold" /\ watch'.version = watch.version
      /\ DOMAIN watch'.rows = moved /\ \A j \in moved : watch'.rows[j] = db[j]
      /\ watch'.rows \in [moved -> Stamp]
  <2>1. moved \subseteq Job
      OBVIOUS
  <2> QED BY <1>0, <2>1 DEF Typed
<1>10. watch' \in Watches
  <2>1. moved \in SUBSET Job /\ watch.version \in Nat /\ watch.first \in BOOLEAN
      BY <1>0, WatchTyped
  <2>2. [j \in moved |-> db[j]] \in [moved -> Stamp]
      BY <2>1 DEF Typed
  <2> HIDE DEF moved
  <2>3. [moved -> Stamp] \in {[S -> Stamp] : S \in SUBSET Job}
      BY <2>1
  <2>4. [j \in moved |-> db[j]] \in UNION {[S -> Stamp] : S \in SUBSET Job}
      BY <2>2, <2>3
  <2> QED BY <1>0, <2>1, <2>4 DEF Watches
<1>1. Typed'
    BY <1>0, <1>10 DEF Typed
<1>2. Timed'
  <2>1. \A j \in DOMAIN watch'.rows : watch'.rows[j] <= db[j]
      BY <1>9, Numbers
  <2>2. watch'.version <= commits
      BY <1>0, <1>9 DEF Timed
  <2> QED BY <1>0, <2>1, <2>2, TimedStays
<1>3. Watermarked'
  <2>1. \A j \in Job : Unseen(j)' <=> Unseen(j)
      BY <1>0 DEF Unseen
  <2>2. ASSUME backend = "sqlite", NEW j \in Job, since <= db[j]
        PROVE  Read(j)' \/ (j \notin DOMAIN watch'.rows /\ seen'[j] = db'[j])
    <3>1. CASE watermark <= db[j]
        BY <1>0, <1>9, <2>2, <3>1 DEF Read
    <3>2. CASE ~(watermark <= db[j])
        BY <1>0, <1>9, <2>2, <3>2 DEF Watermarked, Unseen
    <3> QED BY <3>1, <3>2
  <2> QED BY <1>0, <1>9, <2>1, <2>2 DEF Watermarked
<1>4. Notified'
  <2>1. ASSUME backend = "postgres", NEW j \in Job, since <= db[j]
        PROVE  Read(j)'
      BY <1>0, <1>9, <2>1 DEF Read
  <2> QED BY <1>0, <1>9, <2>1 DEF Notified
<1> QED BY <1>1, <1>2, <1>3, <1>4

\* A NOTIFY is heeded.
LEMMA HeedKeeps ==
    ASSUME IInv, NEW i \in Job, Heed(i)
    PROVE  IInv'
<1> USE DEF IInv
<1>0. /\ backend = "postgres" /\ watch.pc = "wait" /\ notes' = notes \ {i}
      /\ watch' = [pc |-> "fold", version |-> watch.version, first |-> FALSE, rows |-> [k \in {i} |-> db[k]]]
      /\ UNCHANGED <<backend, clock, db, saving, commits, notify, seen, watermark, since, queue, lost>>
    BY DEF Heed, store
<1>9. /\ watch'.pc = "fold" /\ watch'.version = watch.version
      /\ DOMAIN watch'.rows = {i} /\ watch'.rows[i] = db[i]
    BY <1>0
<1>10. watch' \in Watches
  <2>1. {i} \in SUBSET Job /\ watch.version \in Nat
      BY <1>0, WatchTyped
  <2>2. [k \in {i} |-> db[k]] \in [{i} -> Stamp]
      BY <2>1 DEF Typed
  <2>3. [{i} -> Stamp] \in {[S -> Stamp] : S \in SUBSET Job}
      BY <2>1
  <2>4. [k \in {i} |-> db[k]] \in UNION {[S -> Stamp] : S \in SUBSET Job}
      BY <2>2, <2>3
  <2> QED BY <1>0, <2>1, <2>4 DEF Watches
<1>1. Typed'
    BY <1>0, <1>10 DEF Typed
<1>2. Timed'
  <2>1. \A j \in DOMAIN watch'.rows : watch'.rows[j] <= db[j]
      BY <1>9, Numbers
  <2>2. watch'.version <= commits
      BY <1>0, <1>9 DEF Timed
  <2> QED BY <1>0, <2>1, <2>2, TimedStays
<1>3. Watermarked'
    BY <1>0 DEF Watermarked
<1>4. Notified'
  <2>1. ASSUME NEW j \in Job, since <= db[j]
        PROVE  Read(j)' \/ Noted(j)' \/ (j \notin DOMAIN watch'.rows /\ seen'[j] = db'[j])
    <3>1. CASE j = i
        BY <1>0, <1>9, <3>1 DEF Read
    <3>2. CASE j # i
      <4>1. Noted(j)' <=> Noted(j)
          BY <1>0, <3>2 DEF Noted
      <4> QED BY <1>0, <1>9, <2>1, <3>2, <4>1 DEF Notified, Unseen
    <3> QED BY <3>1, <3>2
  <2> QED BY <1>0, <1>9, <2>1 DEF Notified
<1> QED BY <1>1, <1>2, <1>3, <1>4

\* A look fails, or the watch does.
LEMMA FailKeeps ==
    ASSUME IInv, Fail \/ Break
    PROVE  IInv'
<1> USE DEF IInv
<1>0. /\ \/ watch' = [pc |-> "dead"]
         \/ watch' = [pc |-> "wait", version |-> watch.version] /\ watch.pc = "look" /\ backend = "sqlite"
      /\ lost' = lost \cup Owed
      /\ UNCHANGED <<backend, clock, db, saving, commits, notify, seen, watermark, since, queue>>
  <2>1. watch # NoWatch
      BY DEF Fail, Break, NoWatch
  <2> QED BY <2>1 DEF Fail, Break, Lost, store
<1>1. Typed'
  <2>1. watch.pc = "look" => watch.version \in Nat
      BY WatchTyped
  <2>2. watch' \in Watches
      BY <1>0, <2>1 DEF Watches
  <2> QED BY <1>0, <2>2 DEF Typed
<1>2. Timed'
  <2>1. watch'.pc \in {"wait", "dead"}
      /\ (watch'.pc = "wait" => watch'.version = watch.version /\ watch.pc = "look")
      BY <1>0
  <2> QED BY <1>0, <2>1, TimedStays DEF Timed
<1>3. \A j \in Job : Unseen(j)' => j \in lost'
  <2>1. watch # NoWatch
      BY DEF Fail, Break, NoWatch
  <2>2. \A j \in Job : since <= db[j] <=> db[j] >= since
      BY Numbers
  <2> QED BY <1>0, <2>1, <2>2 DEF Unseen, Owed
<1>4. Watermarked' /\ Notified'
    BY <1>0, <1>3 DEF Watermarked, Notified, Unseen
<1> QED BY <1>1, <1>2, <1>4

\* What a fold does to the watch: every row that was read is what was seen.
LEMMA FoldDoes ==
    ASSUME IInv, Fold
    PROVE  /\ watch.pc = "fold" /\ watch' = [pc |-> "wait", version |-> watch.version] /\ watch'.pc = "wait"
           /\ watch'.version = watch.version
           /\ \A j \in Job : seen'[j] = IF j \in DOMAIN watch.rows THEN watch.rows[j] ELSE seen[j]
           /\ seen' \in [Job -> Stamp] /\ watermark' \in Stamp /\ watermark' \in Nat
           /\ watermark' = watermark \/ \E k \in DOMAIN watch.rows : watermark' = watch.rows[k]
           /\ \A j \in Job : j \in lost /\ ~Read(j) => j \in lost'
           /\ lost' \subseteq lost
           /\ UNCHANGED <<backend, clock, db, saving, commits, notify, notes, since>>
<1> USE DEF IInv
<1>1. watch.pc = "fold" /\ DOMAIN watch.rows \subseteq Job /\ \A j \in DOMAIN watch.rows : watch.rows[j] \in Stamp
    BY WatchTyped DEF Fold
<1>2. \A j \in Job : seen'[j] = IF j \in DOMAIN watch.rows THEN watch.rows[j] ELSE seen[j]
    BY DEF Fold
<1>3. seen' \in [Job -> Stamp]
  <2>1. \A j \in Job : seen'[j] \in Stamp
      BY <1>1, <1>2 DEF Typed
  <2>2. seen' = [j \in Job |-> seen'[j]]
      BY DEF Fold
  <2> QED BY <2>1, <2>2
<1>4. watermark' = watermark \/ \E k \in DOMAIN watch.rows : watermark' = watch.rows[k]
    BY DEF Fold
<1>5. watermark' \in Stamp
    BY <1>1, <1>4 DEF Typed
<1>6. lost' \subseteq lost /\ \A j \in Job : j \in lost /\ ~Read(j) => j \in lost'
    BY DEF Fold, Read
<1> QED BY <1>1, <1>2, <1>3, <1>4, <1>5, <1>6, StampsAreNat DEF Fold, store

LEMMA FoldKeeps ==
    ASSUME IInv, Fold
    PROVE  IInv'
<1> USE DEF IInv
<1>0. /\ watch.pc = "fold" /\ watch' = [pc |-> "wait", version |-> watch.version] /\ watch'.pc = "wait"
      /\ watch'.version = watch.version
      /\ \A j \in Job : seen'[j] = IF j \in DOMAIN watch.rows THEN watch.rows[j] ELSE seen[j]
      /\ seen' \in [Job -> Stamp] /\ watermark' \in Stamp /\ watermark' \in Nat
      /\ watermark' = watermark \/ \E k \in DOMAIN watch.rows : watermark' = watch.rows[k]
      /\ \A j \in Job : j \in lost /\ ~Read(j) => j \in lost'
      /\ UNCHANGED <<backend, clock, db, saving, commits, notify, notes, since>>
    BY FoldDoes
<1>9. DOMAIN watch.rows \subseteq Job /\ watch.version \in Nat
    BY <1>0, WatchTyped
<1>1. Typed'
  <2>1. watch' \in Watches
      BY <1>0, Numbers DEF Watches
  <2>2. queue' \in 0 .. MaxQueue
    <3>1. PICK n : n = Cardinality({j \in {j \in DOMAIN watch.rows : seen[j] # watch.rows[j]} :
                        ~(backend = "sqlite" /\ watch.first /\ watch.rows[j] < since)}) /\ Enqueued(n)
        BY DEF Fold
    <3>2. n \in Nat
        BY <3>1, <1>9, SomeJobs
    <3> QED BY <3>1, <3>2, Queued DEF Typed
  <2> QED BY <1>0, <2>1, <2>2 DEF Typed
<1>2. Timed'
  <2>1. \A j \in Job : db[j] <= clock /\ seen'[j] <= db[j]
      BY <1>0 DEF Timed
  <2>2. watermark' <= clock
    <3>1. CASE watermark' = watermark
        BY <3>1 DEF Timed
    <3>2. ASSUME NEW k \in DOMAIN watch.rows, watermark' = watch.rows[k] PROVE watermark' <= clock
      <4>1. watch.rows[k] <= db[k] /\ db[k] <= clock
          BY <1>0, <1>9 DEF Timed
      <4>2. watch.rows[k] \in Nat /\ db[k] \in Nat /\ clock \in Nat
          BY <1>0, <1>9, Numbers
      <4> QED BY <3>2, <4>1, <4>2
    <3> QED BY <1>0, <3>1, <3>2
  <2>3. \A j \in Job : saving[j].pc = "commit" => watermark' <= saving[j].stamp
    <3> SUFFICES ASSUME NEW j \in Job, saving[j].pc = "commit" PROVE watermark' <= saving[j].stamp
        OBVIOUS
    <3>1. CASE watermark' = watermark
        BY <3>1 DEF Timed
    <3>2. ASSUME NEW k \in DOMAIN watch.rows, watermark' = watch.rows[k] PROVE watermark' <= saving[j].stamp
      <4>1. watch.rows[k] <= db[k] /\ db[k] <= saving[j].stamp
          BY <1>0, <1>9 DEF Timed
      <4>2. watch.rows[k] \in Nat /\ db[k] \in Nat /\ saving[j].stamp \in Nat
          BY <1>0, <1>9, Numbers
      <4> QED BY <3>2, <4>1, <4>2
    <3> QED BY <1>0, <3>1, <3>2
  <2> QED BY <1>0, <2>1, <2>2, <2>3 DEF Timed
<1>3. Watermarked'
  <2> SUFFICES ASSUME backend = "sqlite", NEW j \in Job, since <= db[j], seen'[j] # db[j]
               PROVE  watermark' <= db[j] /\ watch.version < commits
      BY <1>0 DEF Watermarked, Unseen
  <2>1. ~Read(j) /\ ~(j \notin DOMAIN watch.rows /\ seen[j] = db[j])
      BY <1>0 DEF Read
  <2>2. Later(j)
      BY <1>0, <2>1 DEF Watermarked
  <2> QED BY <1>0, <2>2 DEF Later
<1>4. Notified'
  <2> SUFFICES ASSUME backend = "postgres", NEW j \in Job, since <= db[j], seen'[j] # db[j]
               PROVE  Noted(j)'
      BY <1>0 DEF Notified, Unseen
  <2>1. ~Read(j) /\ ~(j \notin DOMAIN watch.rows /\ seen[j] = db[j])
      BY <1>0 DEF Read
  <2>2. Noted(j)
      BY <1>0, <2>1 DEF Notified
  <2> QED BY <1>0, <2>1, <2>2 DEF Noted
<1> QED BY <1>1, <1>2, <1>3, <1>4

LEMMA LeaveKeeps ==
    ASSUME IInv, Unsubscribe \/ Take
    PROVE  IInv'
<1> USE DEF IInv
<1>0. /\ UNCHANGED <<backend, clock, db, saving, commits, notify, seen, watermark, since>>
      /\ queue' \in 0 .. MaxQueue
      /\ (watch' = NoWatch /\ watch'.pc = "off") \/ UNCHANGED <<watch, notes, lost>>
  <2>1. CASE Unsubscribe
      BY <2>1, StampsAreNat DEF Unsubscribe, store, NoWatch
  <2>2. CASE Take
    <3>1. queue > 0 /\ queue' = queue - 1 /\ queue \in 0 .. MaxQueue
        BY <2>2 DEF Take, Typed
    <3>2. queue' \in 0 .. MaxQueue
        BY <3>1, StampsAreNat
    <3> QED BY <2>2, <3>2 DEF Take, store
  <2> QED BY <2>1, <2>2
<1>1. Typed'
    BY <1>0 DEF Typed, Watches
<1>2. Timed'
    BY <1>0, TimedStays DEF Timed
<1>3. Watermarked'
    BY <1>0 DEF Watermarked, Unseen, Read, Later
<1>4. Notified'
    BY <1>0 DEF Notified, Unseen, Read, Noted
<1> QED BY <1>1, <1>2, <1>3, <1>4

-----------------------------------------------------------------------------
LEMMA InitIInv == Init => IInv
<1> SUFFICES ASSUME Init PROVE IInv
    OBVIOUS
<1>1. NoSave.pc = "idle" /\ NoWatch.pc = "off"
    BY DEF NoSave, NoWatch
<1>2. 0 \in Stamp /\ 1 \in Stamp
    BY EventsAssumption DEF Stamp
<1>3. Typed
    BY <1>2, EventsAssumption DEF Init, Typed, Watches
<1>4. Timed
    BY <1>1 DEF Init, Timed
<1>5. Watermarked /\ Notified
    BY <1>1 DEF Init, Watermarked, Notified, Unseen
<1> QED BY <1>3, <1>4, <1>5 DEF IInv

LEMMA NextIInv ==
    ASSUME ~MayCommitLate, IInv, [Next]_vars
    PROVE  IInv'
<1>1. CASE UNCHANGED vars
    BY <1>1 DEF vars, store, IInv, Typed, Timed, Watermarked, Notified, Unseen, Read, Later, Noted
<1>2. ASSUME NEW j \in Job,
             Save(j) \/ Commit(j) \/ Publish(j) \/ Die(j) \/ Notify(j) \/ Drop(j) \/ Heed(j)
      PROVE  IInv'
    BY <1>2, SaveKeeps, CommitKeeps, PublishKeeps, DieKeeps, NotifyKeeps, HeedKeeps
<1>3. CASE Watching
    BY <1>3, OpenKeeps, LookKeeps, FoldKeeps DEF Watching
<1>4. CASE Fail \/ Break
    BY <1>4, FailKeeps
<1>5. CASE Take \/ Subscribe \/ Revive \/ Unsubscribe
    BY <1>5, LeaveKeeps, SubscribeKeeps
<1> QED BY <1>1, <1>2, <1>3, <1>4, <1>5 DEF Next

(* Where saves commit in the order of their stamps, whatever fails, a watch  *)
(* at rest missed nothing but what a failure kept from it, on SQLite and on  *)
(* Postgres: rows read before others commit, stamps that repeat, this        *)
(* process's own events and stale rows leave something to look at.           *)
THEOREM OnlyLossIsMissedAtRest ==
    ASSUME ~MayCommitLate
    PROVE  Spec => []OnlyLossIsMissed
<1>1. IInv => OnlyLossIsMissed
  <2> SUFFICES ASSUME IInv, Rests, NEW j \in Job, watch # NoWatch, db[j] >= since, seen[j] # db[j],
                      j \notin lost
               PROVE  FALSE
      BY DEF OnlyLossIsMissed, Owed
  <2>1. Unseen(j)
    <3>1. db[j] \in Nat /\ since \in Nat
        BY Numbers DEF IInv
    <3> QED BY <3>1 DEF Unseen
  <2>2. CASE backend = "sqlite"
    <3>1. watch.version < commits /\ watch.version = commits /\ commits \in Nat
        BY <2>1, <2>2, Numbers DEF IInv, Rests, Watermarked
    <3> QED BY <3>1
  <2>3. CASE backend = "postgres"
    <3>1. Noted(j)
        BY <2>1, <2>3 DEF IInv, Rests, Notified
    <3>2. backend # "sqlite"
        BY <2>3
    <3>3. notify \cup notes = {} /\ saving[j].pc # "publish"
        BY <3>2 DEF Rests
    <3> QED BY <3>1, <3>3 DEF Noted
  <2> QED BY <2>2, <2>3 DEF IInv, Typed
<1>2. IInv /\ [Next]_vars => IInv'
    BY NextIInv
<1> QED BY <1>1, <1>2, InitIInv, PTL DEF Spec

-----------------------------------------------------------------------------
(* The promise, step by step.                                                *)
\* Nothing is lost to a process that does not listen.
Kept == lost \subseteq Job /\ (watch = NoWatch => lost = {})

LEMMA OwedAreJobs == Owed \subseteq Job /\ Owed' \subseteq Job /\ (watch = NoWatch => Owed = {})
    BY DEF Owed

LEMMA LostGrows ==
    ASSUME Kept, NEW S \in SUBSET Job, Lost(S)
    PROVE  /\ lost \subseteq lost' /\ lost' \subseteq Job
           /\ watch = NoWatch => lost' = {} /\ lost' = lost
           /\ watch # NoWatch => S \subseteq lost'
    BY DEF Kept, Lost

LEMMA WatchIsOn ==
    ASSUME watch.pc # "off"
    PROVE  watch # NoWatch
    BY DEF NoWatch

LEMMA WatchIsOnNext ==
    ASSUME watch'.pc # "off"
    PROVE  watch' # NoWatch
    BY DEF NoWatch

\* What each step that a job names does to the watch and to what is lost.
LEMMA StepsOfAJob ==
    ASSUME Kept, NEW j \in Job
    PROVE  /\ Save(j) \/ Notify(j) => UNCHANGED <<watch, lost>>
           /\ Heed(j) => watch # NoWatch /\ watch' # NoWatch /\ UNCHANGED lost
           /\ Commit(j) => UNCHANGED watch /\ lost' \subseteq Job /\ (watch = NoWatch => lost' = {})
           /\ Publish(j) => UNCHANGED watch /\ lost' \subseteq lost
           /\ Die(j) \/ Drop(j) =>
                /\ UNCHANGED watch /\ lost \subseteq lost' /\ lost' \subseteq Job
                /\ watch = NoWatch => lost' = {}
<1>1. Save(j) \/ Notify(j) => UNCHANGED <<watch, lost>>
    BY DEF Save, Notify, store
<1>2. Heed(j) => watch # NoWatch /\ watch' # NoWatch /\ UNCHANGED lost
    BY WatchIsOn, WatchIsOnNext DEF Heed
<1>3. Commit(j) => UNCHANGED watch /\ lost' \subseteq Job /\ (watch = NoWatch => lost' = {})
    BY DEF Commit, Kept, Lost
<1>4. Publish(j) => UNCHANGED watch /\ lost' \subseteq lost
    BY DEF Publish
<1>5. ASSUME Die(j) \/ Drop(j)
      PROVE  /\ UNCHANGED watch /\ lost \subseteq lost' /\ lost' \subseteq Job
             /\ watch = NoWatch => lost' = {}
  <2>1. UNCHANGED watch /\ (UNCHANGED lost \/ Lost({j}))
      BY <1>5 DEF Die, Drop
  <2>2. {j} \in SUBSET Job
      OBVIOUS
  <2>3. CASE UNCHANGED lost
      BY <2>1, <2>3 DEF Kept
  <2>4. CASE Lost({j})
      BY <2>1, <2>2, <2>4, LostGrows
  <2> QED BY <2>1, <2>3, <2>4
<1> QED BY <1>1, <1>2, <1>3, <1>4, <1>5

\* A watch that ends, fails a look or starts again loses what it owes.
LEMMA WatchLoses ==
    ASSUME IInv, Kept, Fail \/ Break \/ Revive
    PROVE  /\ UNCHANGED <<db, queue>> /\ watch # NoWatch /\ watch' # NoWatch
           /\ lost \subseteq lost' /\ lost' \subseteq Job /\ Owed \subseteq lost' /\ Owed' \subseteq lost'
<1>1. watch.pc # "off" /\ watch'.pc # "off" /\ Lost(Owed)
    BY DEF Fail, Break, Revive, Dead
<1>2. watch # NoWatch /\ watch' # NoWatch
    BY <1>1, WatchIsOn, WatchIsOnNext
<1>3. UNCHANGED <<db, seen, queue>> /\ (UNCHANGED since \/ since' = clock)
    BY DEF Fail, Break, Revive, store
<1>4. lost \subseteq lost' /\ lost' \subseteq Job /\ Owed \subseteq lost'
    BY <1>1, <1>2, OwedAreJobs, LostGrows
<1>5. Owed' \subseteq Owed
  <2> SUFFICES ASSUME NEW j \in Job, db[j] >= since', seen[j] # db[j] PROVE db[j] >= since
      BY <1>2, <1>3 DEF Owed
  <2>1. since \in Nat /\ clock \in Nat /\ db[j] \in Nat /\ since <= clock
      BY Numbers DEF IInv, Timed
  <2> QED BY <1>3, <2>1
<1> QED BY <1>2, <1>3, <1>4, <1>5

LEMMA KeptKeeps ==
    ASSUME IInv, Kept, [Next]_vars
    PROVE  Kept'
<1>1. CASE UNCHANGED vars
    BY <1>1 DEF vars, store, Kept
<1>2. ASSUME NEW j \in Job,
             Save(j) \/ Commit(j) \/ Publish(j) \/ Die(j) \/ Notify(j) \/ Drop(j) \/ Heed(j)
      PROVE  Kept'
    BY <1>2, StepsOfAJob DEF Kept
<1>3. CASE Watching
  <2>1. watch'.pc # "off" /\ lost' \subseteq lost
      BY <1>3, FoldDoes DEF Watching, Open, Look, Tick
  <2> QED BY <2>1, WatchIsOnNext DEF Kept
<1>4. CASE Fail \/ Break \/ Revive
    BY <1>4, WatchLoses DEF Kept
<1>5. CASE Take \/ Subscribe \/ Unsubscribe
    BY <1>5 DEF Take, Subscribe, Unsubscribe, store, Kept
<1> QED BY <1>1, <1>2, <1>3, <1>4, <1>5 DEF Next

\* A step that leaves the saves, what was seen, lost and the subscription alone.
LEMMA FeedStays ==
    ASSUME UNCHANGED <<db, seen, since, queue, lost>>, (watch = NoWatch)' <=> (watch = NoWatch)
    PROVE  UNCHANGED Promise!feed
<1>1. (watch # NoWatch)' = (watch # NoWatch)
    OBVIOUS
<1>2. Owed' = Owed
    BY <1>1 DEF Owed
<1> QED BY <1>1, <1>2 DEF Promise!feed

LEMMA SameCardinality == \A S : Promise!Cardinality(S) = Cardinality(S)
    BY DEF Promise!Cardinality, Cardinality

LEMMA SameQueue == \A n : Enqueued(n) => queue' = Promise!Min({queue + n, MaxQueue})
    BY DEF Enqueued, Min, Promise!Min

\* What is owed and was not lost, as the promise has it.
LEMMA Tells ==
    ASSUME UNCHANGED db, watch # NoWatch, watch' # NoWatch, lost' \subseteq lost,
           NEW n \in 1 .. Cardinality(Job), Enqueued(n)
    PROVE  Promise!Tell
<1>1. Owed' \ lost' \in SUBSET (Job \ lost')
    BY OwedAreJobs
<1>2. n \in 1 .. Promise!Cardinality(Job) /\ queue' = Promise!Min({queue + n, MaxQueue})
    BY SameCardinality, SameQueue
<1>3. (watch # NoWatch) /\ ((watch # NoWatch)' = (watch # NoWatch))
    OBVIOUS
<1> QED BY <1>1, <1>2, <1>3 DEF Promise!Tell

LEMMA Loses ==
    ASSUME UNCHANGED <<db, queue>>, watch # NoWatch, watch' # NoWatch,
           lost \subseteq lost', lost' \subseteq Job, Owed' \ lost' = Owed \ lost'
    PROVE  Promise!Lose
<1>1. Owed' \ lost' = (Owed \ lost) \ lost'
    OBVIOUS
<1>2. (watch # NoWatch) /\ ((watch # NoWatch)' = (watch # NoWatch))
    OBVIOUS
<1> QED BY <1>1, <1>2 DEF Promise!Lose

LEMMA CommitChanges ==
    ASSUME IInv, Kept, NEW j \in Job, Commit(j)
    PROVE  Promise!Change(j)
<1> USE DEF IInv
<1>1. /\ db' = [db EXCEPT ![j] = saving[j].stamp] /\ saving[j].pc = "commit"
      /\ UNCHANGED <<seen, since, watch, queue>>
      /\ (watch # NoWatch /\ lost' = lost \cup {j}) \/ lost' = lost \ {j}
    BY DEF Commit, Lost, Dead, NoWatch
<1>2. saving[j].stamp \in Stamp /\ saving[j].stamp > db[j]
  <2>1. saving[j].stamp \in Stamp /\ saving[j].stamp \in Nat /\ db[j] \in Nat /\ db[j] < saving[j].stamp
      BY <1>1, SavingTyped, Numbers DEF Timed
  <2> QED BY <2>1
<1>3. saving[j].stamp >= since /\ seen[j] # saving[j].stamp
  <2>1. /\ since <= saving[j].stamp /\ seen[j] <= db[j] /\ db[j] < saving[j].stamp
        /\ saving[j].stamp \in Nat /\ since \in Nat /\ db[j] \in Nat /\ seen[j] \in Nat
      BY <1>1, Numbers DEF Timed
  <2> QED BY <2>1
<1>4. Owed' = IF watch # NoWatch THEN Owed \cup {j} ELSE Owed
  <2>1. db'[j] = saving[j].stamp /\ \A k \in Job : k # j => db'[k] = db[k]
      BY <1>1 DEF Typed
  <2> QED BY <1>1, <1>3, <2>1 DEF Owed
<1>5. \E s \in Promise!Stamp : s > db[j] /\ db' = [db EXCEPT ![j] = s]
    BY <1>1, <1>2 DEF Promise!Stamp, Stamp
<1>6. (watch # NoWatch)' = (watch # NoWatch)
    BY <1>1
<1>7. CASE watch = NoWatch
  <2>1. lost' = lost /\ Owed' = Owed
      BY <1>1, <1>4, <1>7 DEF Kept
  <2> QED BY <1>1, <1>5, <1>6, <1>7, <2>1 DEF Promise!Change
<1>8. CASE watch # NoWatch /\ lost' = lost \ {j}
  <2>1. Owed' \ lost' = (Owed \ lost) \cup {j}
      BY <1>4, <1>8
  <2> QED BY <1>1, <1>5, <1>6, <1>8, <2>1 DEF Promise!Change
<1>9. CASE watch # NoWatch /\ lost' = lost \cup {j}
  <2>1. Owed' \ lost' = (Owed \ lost) \ {j}
      BY <1>4, <1>9
  <2> QED BY <1>1, <1>5, <1>6, <1>9, <2>1 DEF Promise!Change
<1> QED BY <1>1, <1>7, <1>8, <1>9

LEMMA PublishTells ==
    ASSUME IInv, Kept, NEW j \in Job, Publish(j)
    PROVE  [Promise!FeedNext]_(Promise!feed)
<1>1. UNCHANGED <<db, since, watch>> /\ lost' \subseteq lost
    BY DEF Publish
<1>2. CASE watch = NoWatch
  <2>1. UNCHANGED queue /\ Owed = {} /\ Owed' = {} /\ lost = {} /\ lost' = {}
      BY <1>1, <1>2 DEF Publish, Owed, Kept
  <2>2. (watch # NoWatch)' = (watch # NoWatch) /\ Owed \ lost = {} /\ (Owed \ lost)' = {}
      BY <1>1, <2>1
  <2> QED BY <1>1, <2>1, <2>2 DEF Promise!feed
<1>3. CASE watch # NoWatch /\ j \in Own
  <2>1. Enqueued(1)
      BY <1>3 DEF Publish
  <2>2. 1 \in 1 .. Cardinality(Job)
    <3>1. IsFiniteSet(Job) /\ Cardinality(Job) \in Nat /\ Cardinality(Job) # 0
        BY SomeJobs, EventsAssumption
    <3> QED BY <3>1
  <2>3. Promise!Tell
      BY <1>1, <1>3, <2>1, <2>2, Tells
  <2> QED BY <2>3 DEF Promise!FeedNext
<1>4. CASE j \notin Own
  <2>1. UNCHANGED <<seen, queue, lost>>
      BY <1>4 DEF Publish
  <2> QED BY <1>1, <2>1, FeedStays
<1> QED BY <1>2, <1>3, <1>4

LEMMA FoldTells ==
    ASSUME IInv, Kept, Fold
    PROVE  Promise!FeedNext
<1> USE DEF IInv
<1> DEFINE news == {j \in {j \in DOMAIN watch.rows : seen[j] # watch.rows[j]} :
                      ~(backend = "sqlite" /\ watch.first /\ watch.rows[j] < since)}
<1>1. /\ Enqueued(Cardinality(news)) /\ UNCHANGED <<db, since>>
      /\ \A j \in Job : seen'[j] = IF j \in DOMAIN watch.rows THEN watch.rows[j] ELSE seen[j]
      /\ watch.pc = "fold" /\ watch'.pc = "wait" /\ lost' \subseteq lost
      /\ news = {} => lost' = lost
    BY FoldDoes DEF Fold
<1>2. watch # NoWatch /\ watch' # NoWatch /\ DOMAIN watch.rows \subseteq Job
    BY <1>1, WatchTyped, WatchIsOn, WatchIsOnNext
<1>3. /\ Cardinality(news) \in Nat /\ Cardinality(Job) \in Nat
      /\ Cardinality(news) <= Cardinality(Job) /\ (Cardinality(news) = 0 => news = {})
    BY <1>2, SomeJobs, EventsAssumption
<1>4. CASE news = {}
  <2>1. Cardinality(news) = 0
      BY <1>4, FS_EmptySet
  <2>2. queue' = queue
      BY <1>1, <2>1, Queued DEF Typed
  <2>3. ASSUME NEW j \in Owed PROVE j \in Owed'
    <3>1. j \in Job /\ db[j] >= since /\ seen[j] # db[j]
        BY <2>3 DEF Owed
    <3>2. CASE j \in DOMAIN watch.rows /\ seen[j] # watch.rows[j]
      <4>1. watch.rows[j] < since
          BY <1>4, <3>2
      <4>2. watch.rows[j] \in Nat /\ since \in Nat /\ db[j] \in Nat
          BY <1>1, <3>1, <3>2, Numbers
      <4>3. watch.rows[j] # db[j]
          BY <3>1, <4>1, <4>2
      <4> QED BY <1>1, <1>2, <3>1, <3>2, <4>3 DEF Owed
    <3>3. CASE ~(j \in DOMAIN watch.rows /\ seen[j] # watch.rows[j])
        BY <1>1, <1>2, <3>1, <3>3 DEF Owed
    <3> QED BY <3>2, <3>3
  <2>4. lost' = lost
      BY <1>1, <1>4
  <2>5. Owed' \ lost' \in SUBSET (Job \ lost) /\ Owed \ lost \subseteq Owed' \ lost'
      BY <2>3, <2>4, OwedAreJobs
  <2>6. (watch # NoWatch) /\ ((watch # NoWatch)' = (watch # NoWatch))
      BY <1>2
  <2>7. Promise!Again
      BY <1>1, <2>2, <2>4, <2>5, <2>6 DEF Promise!Again
  <2> QED BY <2>7 DEF Promise!FeedNext
<1>5. CASE news # {}
  <2>1. Cardinality(news) # 0
      BY <1>3, <1>5
  <2> HIDE DEF news
  <2>2. Cardinality(news) \in 1 .. Cardinality(Job)
      BY <1>3, <2>1
  <2>3. Promise!Tell
      BY <1>1, <1>2, <2>2, Tells
  <2> QED BY <2>3 DEF Promise!FeedNext
<1> QED BY <1>4, <1>5

LEMMA StepKeepsPromise ==
    ASSUME IInv, Kept, [Next]_vars
    PROVE  [Promise!FeedNext]_(Promise!feed)
<1>1. CASE UNCHANGED vars
    BY <1>1, FeedStays DEF vars, store
<1>2. ASSUME NEW j \in Job, Save(j) \/ Notify(j) \/ Heed(j)
      PROVE  UNCHANGED Promise!feed
  <2>1. UNCHANGED <<db, seen, since, queue>>
      BY <1>2 DEF Save, Notify, Heed, store
  <2>2. UNCHANGED lost /\ ((watch = NoWatch)' <=> (watch = NoWatch))
      BY <1>2, StepsOfAJob
  <2> QED BY <2>1, <2>2, FeedStays
<1>3. ASSUME NEW j \in Job, Commit(j)
      PROVE  Promise!FeedNext
    BY <1>3, CommitChanges DEF Promise!FeedNext
<1>4. ASSUME NEW j \in Job, Publish(j)
      PROVE  [Promise!FeedNext]_(Promise!feed)
    BY <1>4, PublishTells
<1>5. ASSUME NEW j \in Job, Die(j) \/ Drop(j)
      PROVE  [Promise!FeedNext]_(Promise!feed)
  <2>1. UNCHANGED <<db, seen, since, queue, watch>>
      BY <1>5 DEF Die, Drop, store
  <2>2. lost \subseteq lost' /\ lost' \subseteq Job /\ (watch = NoWatch => lost' = {} /\ lost = {})
      BY <1>5, StepsOfAJob DEF Kept
  <2>3. CASE watch = NoWatch
      BY <2>1, <2>2, <2>3, FeedStays
  <2>4. CASE watch # NoWatch
    <3>1. Owed' = Owed
        BY <2>1 DEF Owed
    <3>2. Promise!Lose
        BY <2>1, <2>2, <2>4, <3>1, Loses
    <3> QED BY <3>2 DEF Promise!FeedNext
  <2> QED BY <2>3, <2>4
<1>6. CASE Open \/ Look \/ Tick
  <2>1. UNCHANGED <<db, seen, since, queue, lost>>
      BY <1>6 DEF Open, Look, Tick, store
  <2>2. watch.pc # "off" /\ watch'.pc # "off"
      BY <1>6 DEF Open, Look, Tick
  <2>3. watch # NoWatch /\ watch' # NoWatch
      BY <2>2, WatchIsOn, WatchIsOnNext
  <2> QED BY <2>1, <2>3, FeedStays
<1>7. CASE Fold
    BY <1>7, FoldTells
<1>8. CASE Fail \/ Break \/ Revive
  <2>1. Promise!Lose
      BY <1>8, WatchLoses, Loses
  <2> QED BY <2>1 DEF Promise!FeedNext
<1>9. CASE Take
  <2>1. UNCHANGED Owed
      BY <1>9 DEF Take, store, Owed
  <2>2. Promise!Take
      BY <1>9, <2>1 DEF Take, store, Promise!Take
  <2> QED BY <2>2 DEF Promise!FeedNext
<1>10. CASE Subscribe
  <2>1. watch = NoWatch /\ watch'.pc = "open" /\ UNCHANGED <<db, queue, lost>>
      BY <1>10 DEF Subscribe, store
  <2>2. watch' # NoWatch
      BY <2>1, WatchIsOnNext
  <2>3. (Owed \ lost)' \in SUBSET Job /\ ((watch # NoWatch)' = TRUE)
      BY <2>2, OwedAreJobs
  <2>4. Promise!Subscribe
      BY <2>1, <2>3 DEF Promise!Subscribe
  <2> QED BY <2>4 DEF Promise!FeedNext
<1>11. CASE Unsubscribe
  <2>1. watch # NoWatch /\ watch' = NoWatch /\ queue' = 0 /\ lost' = {} /\ UNCHANGED db
      BY <1>11 DEF Unsubscribe, store
  <2>2. (Owed \ lost)' = {} /\ ((watch # NoWatch)' = FALSE)
      BY <2>1 DEF Owed
  <2>3. Promise!Unsubscribe
      BY <2>1, <2>2 DEF Promise!Unsubscribe
  <2> QED BY <2>3 DEF Promise!FeedNext
<1> QED BY <1>1, <1>2, <1>3, <1>4, <1>5, <1>6, <1>7, <1>8, <1>9, <1>10, <1>11 DEF Next, Watching

(* Where saves commit in the order of their stamps, the feed keeps the       *)
(* safety half of its promise, whatever NOTIFY, look or watch is lost and    *)
(* whichever process dies in a save: a save moves one record forward and is  *)
(* owed an event if anybody listens, or lost with what announces it; what is *)
(* owed is paid by an event, given up by a loss or ends with the             *)
(* subscription, and a queue holds what came of it up to its bound.          *)
THEOREM FeedKeepsPromise ==
    ASSUME ~MayCommitLate
    PROVE  Spec => Promise!FeedInit /\ [][Promise!FeedNext]_(Promise!feed)
<1>1. Init => Promise!FeedInit /\ Kept
  <2> SUFFICES ASSUME Init PROVE Promise!FeedInit /\ Kept
      OBVIOUS
  <2>1. Owed = {} /\ Owed \ lost = {} /\ (watch # NoWatch) = FALSE
      BY DEF Init, Owed
  <2> QED BY <2>1 DEF Init, Promise!FeedInit, Kept
<1>2. IInv /\ Kept /\ [Next]_vars => IInv' /\ Kept'
    BY NextIInv, KeptKeeps
<1>3. IInv /\ Kept /\ [Next]_vars => [Promise!FeedNext]_(Promise!feed)
    BY StepKeepsPromise
<1> QED BY <1>1, <1>2, <1>3, InitIInv, PTL DEF Spec

=============================================================================
