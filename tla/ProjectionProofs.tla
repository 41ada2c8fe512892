-------------------------- MODULE ProjectionProofs --------------------------
(* The projection of a course: what the notes show never goes back, a       *)
(* user's text is kept, a conflict leaves one copy, and the status card     *)
(* says synced only when it is so: for any events, sections and faults.     *)
EXTENDS Projection, FiniteSetTheorems, TLAPS

-----------------------------------------------------------------------------
Places == {"idle", "listing", "reading", "revising", "writing", "copying", "mapping",
           "stopping", "closing"}
NoKey == <<"none", 0>>
Row == [status : {"queued", "leased", "completed", "conflict"}, available : Nat,
        created : Nat, ended : Nat]
Content == [marked : BOOLEAN, body : SUBSET Events, aside : SUBSET Nat]
Worker == [at : Places, job : Keys \cup {NoKey}, seen : SUBSET Events, section : Sections,
           copy : Content]

Typed ==
  /\ clock \in 0 .. LastStamp + DelayTicks
  /\ emitter \in [Events -> {"none", "stamped", "inserted", "keyed", "told", "gone"}]
  /\ stamp \in [Events -> Nat] /\ key \in [Events -> Keys \cup {NoKey}]
  /\ Jobs \subseteq Keys /\ IsFiniteSet(Jobs) /\ jobs \in [Jobs -> Row]
  /\ worker \in Worker
  /\ note \in [Sections -> Content]
  /\ revised \in [Sections -> SUBSET Nat] /\ copies \in [Sections -> SUBSET SUBSET Events]
  /\ recovered \subseteq Sections /\ edits \in Nat
  /\ orphaned \subseteq Sections /\ forgotten \subseteq Events /\ overtaken \subseteq Events

(* The notes.  A job that has read the log has seen all that a note shows,  *)
(* and its text is in the sections it has passed.                           *)
HasRead == worker.at \notin {"idle", "listing"}
Passed(s) == s < worker.section \/ worker.at = "closing"
NotesFit ==
  /\ \A s \in Sections : note[s].body \subseteq Inserted \cap Shows[s]
  /\ HasRead => /\ worker.seen \subseteq Inserted
                /\ \A s \in Sections :
                     /\ note[s].body \subseteq worker.seen
                     /\ Passed(s) => Body(s) \subseteq note[s].body
  /\ ~HasRead => worker.section = 1
  /\ worker.at \in {"revising", "writing"} => worker.copy.body = Body(worker.section)
AsideFits ==
  /\ \A s \in Sections : note[s].aside \subseteq 1 .. edits
  /\ worker.at \in {"revising", "writing"} => worker.copy.aside \subseteq 1 .. edits
  /\ worker.at = "writing" =>
       note[worker.section].aside \subseteq revised[worker.section] \cup exposed
  /\ EditsKept
CopiesFit ==
  /\ worker.at = "copying" => worker.section \notin recovered
  /\ \A s \in Sections \ orphaned :
       /\ \E B \in SUBSET Events : copies[s] \subseteq {B}
       /\ copies[s] # {} => s \in recovered \/ (worker.at = "mapping" /\ worker.section = s)

(* The queue.  A key is spent on an event when its job has read the log     *)
(* after the event, or will read it.                                        *)
Done(k) == k \in Ended \/ (k = worker.job /\ HasRead)
Covers(k, e) ==
  /\ Done(k) /\ HasRead => e \in worker.seen
  /\ k \in Ended =>
       \A r \in Jobs :
         jobs[r].status = "completed" /\ (r = k \/ jobs[r].ended > jobs[k].ended) => Shown(e)
QueueFits ==
  /\ worker.at # "idle" => worker.job \in Jobs /\ jobs[worker.job].status = "leased"
  /\ \A k \in Ended : jobs[k].ended <= Cardinality(Ended)
  /\ \A k \in Jobs : jobs[k].available > clock =>
       jobs[k].status = "queued"
  /\ \A n \in Nat : <<"bucket", n>> \in Jobs =>
       n * BucketTicks + DelayTicks <= jobs[<<"bucket", n>>].available
  /\ \A e \in Events : <<"final", e>> \in Jobs => e \in Inserted /\ Covers(<<"final", e>>, e)
Meant == Inserted \ (forgotten \cup overtaken)
WritersFit ==
  /\ \A e \in Events : emitter[e] = "keyed" =>
       \/ \E n \in Nat : key[e] = <<"bucket", n>> /\ e \notin Final /\ n * BucketTicks <= clock
       \/ \E f \in Inserted : key[e] = <<"final", f>>
  /\ \A e \in Meant :
       /\ emitter[e] = "keyed" /\ key[e] \in Jobs => Covers(key[e], e)
       /\ emitter[e] = "told" => \E k \in Jobs : Covers(k, e)

ProjectionInvariant == Typed /\ NotesFit /\ AsideFits /\ CopiesFit /\ QueueFits /\ WritersFit

-----------------------------------------------------------------------------
(* Types.                                                                   *)
LEMMA BucketOf ==
  ASSUME NEW c \in Nat
  PROVE  /\ c \div BucketTicks \in Nat /\ c \div BucketTicks <= c
         /\ (c \div BucketTicks) * BucketTicks <= c
         /\ c < (c \div BucketTicks) * BucketTicks + DelayTicks
<1>1. BucketTicks \in Nat /\ BucketTicks >= 1 /\ DelayTicks \in Nat /\ BucketTicks <= DelayTicks
  BY ProjectionAssumption
<1>2. PICK b \in Nat : b = BucketTicks
  BY <1>1
<1>3. b >= 1
  BY <1>1, <1>2
<1> DEFINE n == c \div b
           m == c % b
<1>4. n \in Nat /\ m \in 0 .. b - 1 /\ c = n * b + m
  BY <1>2, <1>3
<1>5. n * b \in Nat /\ n <= n * b
  BY <1>3, <1>4
<1> HIDE DEF n, m
<1>6. n <= c /\ n * b <= c /\ c < n * b + b
  BY <1>2, <1>4, <1>5
<1> QED BY <1>1, <1>2, <1>4, <1>5, <1>6 DEF n

LEMMA IdleTyped ==
  Idle \in Worker /\ Idle.at = "idle" /\ Idle.section = 1 /\ 1 \in Sections
<1>1. 1 \in Sections
  BY ProjectionAssumption DEF Sections
<1>2. NoCopy \in Content
  BY DEF NoCopy, Content
<1> QED BY <1>1, <1>2 DEF Idle, Worker, Places, NoKey

(* One key is queued.                                                       *)
LEMMA Queueing ==
  ASSUME Typed, NEW k \in Keys, NEW a \in Nat, EnqueueConnectorJob(k, a)
  PROVE  /\ Jobs' \subseteq Keys /\ IsFiniteSet(Jobs)' /\ jobs' \in [Jobs' -> Row]
         /\ \A j \in Jobs : j \in Jobs' /\ jobs'[j] = jobs[j]
         /\ \A j \in Jobs' : j \in Jobs \/
              (j = k /\ jobs'[j].status = "queued" /\ jobs'[j].available = a)
         /\ k \in Jobs' /\ Ended' = Ended
<1>1. IsFiniteSet(Jobs) /\ Jobs \subseteq Keys /\ jobs \in [Jobs -> Row]
  BY DEF Typed
<1>2. CASE k \in Jobs
  BY <1>1, <1>2 DEF EnqueueConnectorJob, Jobs, Ended
<1>3. CASE k \notin Jobs
  <2> DEFINE r == [status |-> "queued", available |-> a, created |-> Cardinality(Jobs),
                   ended |-> 0]
  <2>1. r \in Row /\ r.status = "queued" /\ r.available = a
    BY <1>1, FS_CardinalityType DEF Row
  <2> HIDE DEF r
  <2>2. jobs' = [j \in Jobs \cup {k} |-> IF j = k THEN r ELSE jobs[j]]
    BY <1>3 DEF EnqueueConnectorJob, r
  <2>3. Jobs' = Jobs \cup {k}
    BY <2>2 DEF Jobs
  <2>4. IsFiniteSet(Jobs)'
    BY <1>1, <2>3, FS_AddElement
  <2>5. jobs'[k] = r /\ \A j \in Jobs : jobs'[j] = jobs[j]
    BY <1>3, <2>2
  <2>6. jobs' \in [Jobs' -> Row]
    BY <1>1, <2>1, <2>2, <2>3
  <2>7. Ended' = Ended
    BY <2>1, <2>3, <2>5 DEF Ended
  <2> QED BY <1>1, <2>1, <2>3, <2>4, <2>5, <2>6, <2>7
<1> QED BY <1>2, <1>3

LEMMA Requeueing ==
  ASSUME Typed, NEW k \in Jobs, NEW status \in {"queued", "leased", "completed", "conflict"},
         jobs' = WithStatus(jobs, k, status)
  PROVE  /\ Jobs' = Jobs /\ jobs' \in [Jobs -> Row]
         /\ \A j \in Jobs : j # k => jobs'[j] = jobs[j]
         /\ jobs'[k].status = status /\ jobs'[k].available = jobs[k].available
         /\ jobs'[k].ended = jobs[k].ended
<1>1. jobs \in [Jobs -> Row]
  BY DEF Typed
<1>2. jobs' = [jobs EXCEPT ![k].status = status]
  BY DEF WithStatus
<1> QED BY <1>1, <1>2 DEF Jobs, Row

LEMMA Leasing ==
  ASSUME Typed, Lease
  PROVE  /\ worker.at = "idle" /\ Jobs' = Jobs /\ jobs' \in [Jobs -> Row]
         /\ worker' \in Worker /\ worker'.at = "listing" /\ worker'.section = 1
         /\ worker'.job \in Jobs /\ jobs'[worker'.job].status = "leased"
         /\ \A j \in Jobs :
              /\ jobs'[j].available = jobs[j].available /\ jobs'[j].ended = jobs[j].ended
              /\ jobs'[j].status # "queued" /\ jobs[j].status = "queued" =>
                   jobs[j].available <= clock
              /\ jobs'[j] = jobs[j] \/ (j \notin Ended /\ jobs'[j].status \in {"queued", "leased"})
<1>0. jobs \in [Jobs -> Row] /\ Jobs \subseteq Keys
  BY DEF Typed
<1>1. PICK expired \in SUBSET {k \in Jobs : jobs[k].status = "leased"} :
        \E k \in Due \cup expired :
          /\ jobs' = [j \in Jobs |->
                        IF j = k THEN [jobs[j] EXCEPT !.status = "leased"]
                        ELSE IF j \in expired THEN [jobs[j] EXCEPT !.status = "queued"]
                        ELSE jobs[j]]
          /\ worker' = [Idle EXCEPT !.at = "listing", !.job = k]
  BY DEF Lease
<1>2. PICK k \in Due \cup expired :
          /\ jobs' = [j \in Jobs |->
                        IF j = k THEN [jobs[j] EXCEPT !.status = "leased"]
                        ELSE IF j \in expired THEN [jobs[j] EXCEPT !.status = "queued"]
                        ELSE jobs[j]]
          /\ worker' = [Idle EXCEPT !.at = "listing", !.job = k]
  BY <1>1
<1>3. k \in Jobs /\ (jobs[k].status = "leased" \/ jobs[k].available <= clock)
      /\ jobs[k].status \in {"queued", "leased"}
  BY DEF Due
<1>4. worker' \in Worker /\ worker'.at = "listing" /\ worker'.job = k /\ worker'.section = 1
  BY <1>0, <1>2, <1>3, IdleTyped DEF Worker, Places
<1>5. Jobs' = Jobs
  BY <1>2 DEF Jobs
<1>6. ASSUME NEW j \in Jobs
      PROVE  /\ jobs'[j] \in Row
             /\ jobs'[j].available = jobs[j].available /\ jobs'[j].ended = jobs[j].ended
             /\ jobs'[j].status # "queued" /\ jobs[j].status = "queued" =>
                  jobs[j].available <= clock
             /\ jobs'[j] = jobs[j] \/ (j \notin Ended /\ jobs'[j].status \in {"queued", "leased"})
             /\ j = k => jobs'[j].status = "leased"
  <2>1. jobs[j] \in Row
    BY <1>0
  <2>2. CASE j = k
    <3>1. jobs'[j] = [jobs[j] EXCEPT !.status = "leased"]
      BY <1>2, <2>2
    <3> QED BY <1>3, <2>1, <2>2, <3>1 DEF Row, Ended
  <2>3. CASE j # k /\ j \in expired
    <3>1. jobs'[j] = [jobs[j] EXCEPT !.status = "queued"] /\ jobs[j].status = "leased"
      BY <1>2, <2>3
    <3> QED BY <2>1, <2>3, <3>1 DEF Row, Ended
  <2>4. CASE j # k /\ j \notin expired
    <3>1. jobs'[j] = jobs[j]
      BY <1>2, <2>4
    <3> QED BY <2>1, <2>4, <3>1
  <2> QED BY <2>2, <2>3, <2>4
<1>7. jobs' \in [Jobs -> Row]
  BY <1>2, <1>6
<1>8. worker.at = "idle"
  BY DEF Lease
<1> QED BY <1>3, <1>4, <1>5, <1>6, <1>7, <1>8

LEMMA Ending ==
  ASSUME Typed, worker.job \in Jobs, NEW status \in {"completed", "conflict"}, EndJob(status)
  PROVE  /\ Jobs' = Jobs /\ jobs' \in [Jobs -> Row] /\ worker' = Idle
         /\ \A j \in Jobs : j # worker.job => jobs'[j] = jobs[j]
         /\ jobs'[worker.job].status = status
         /\ jobs'[worker.job].available = jobs[worker.job].available
         /\ jobs'[worker.job].ended = Cardinality(Ended) + 1
         /\ IsFiniteSet(Ended) /\ Cardinality(Ended) \in Nat
<1>1. jobs \in [Jobs -> Row] /\ IsFiniteSet(Jobs)
  BY DEF Typed
<1>2. IsFiniteSet(Ended) /\ Cardinality(Ended) \in Nat
  <2>1. Ended \subseteq Jobs
    BY DEF Ended
  <2> QED BY <1>1, <2>1, FS_Subset, FS_CardinalityType
<1>3. PICK n \in Nat : n = Cardinality(Ended) + 1
  BY <1>2
<1>4. jobs' = [jobs EXCEPT ![worker.job].status = status, ![worker.job].ended = n]
      /\ worker' = Idle
  BY <1>3 DEF EndJob
<1>5. Jobs' = Jobs
  BY <1>4 DEF Jobs
<1> QED BY <1>1, <1>2, <1>3, <1>4, <1>5 DEF Row

LEMMA WorkerTyped ==
  ASSUME Typed
  PROVE  /\ worker \in Worker /\ worker.section \in Sections /\ worker.copy \in Content
         /\ worker.seen \subseteq Events
         /\ \A s \in Sections : Body(s) \in SUBSET Events /\ Body(s) \subseteq Shows[s]
         /\ \A s \in Sections : note[s] \in Content
         /\ Inserted \subseteq Events
         /\ \A place \in Places : /\ [worker EXCEPT !.at = place] \in Worker
                                  /\ [worker EXCEPT !.at = place].at = place
                                  /\ [worker EXCEPT !.at = place].job = worker.job
                                  /\ [worker EXCEPT !.at = place].seen = worker.seen
                                  /\ [worker EXCEPT !.at = place].section = worker.section
                                  /\ [worker EXCEPT !.at = place].copy = worker.copy
<1>1. worker \in Worker /\ note \in [Sections -> Content]
  BY DEF Typed
<1>2. \A s \in Sections : Body(s) \in SUBSET Events /\ Body(s) \subseteq Shows[s]
  BY <1>1 DEF Body, Worker
<1>3. \A place \in Places : /\ [worker EXCEPT !.at = place] \in Worker
                            /\ [worker EXCEPT !.at = place].at = place
                            /\ [worker EXCEPT !.at = place].job = worker.job
                            /\ [worker EXCEPT !.at = place].seen = worker.seen
                            /\ [worker EXCEPT !.at = place].section = worker.section
                            /\ [worker EXCEPT !.at = place].copy = worker.copy
  BY <1>1 DEF Worker
<1> QED BY <1>1, <1>2, <1>3 DEF Worker, Inserted

(* The next section, or the end of the job.                                 *)
LEMMA NextTyped ==
  ASSUME Typed
  PROVE  /\ NextSection \in Worker /\ NextSection.at \in {"reading", "closing"}
         /\ NextSection.job = worker.job /\ NextSection.seen = worker.seen
         /\ \/ worker.section = SectionCount /\ NextSection.at = "closing"
               /\ NextSection.section = worker.section
            \/ NextSection.at = "reading" /\ NextSection.section = worker.section + 1
<1>1. worker \in Worker /\ worker.section \in Sections /\ SectionCount \in Nat
  BY WorkerTyped, ProjectionAssumption
<1>2. CASE worker.section = SectionCount
  BY <1>2, WorkerTyped DEF NextSection, Here, Places
<1>3. CASE worker.section # SectionCount
  <2>1. NextSection = [worker EXCEPT !.at = "reading", !.section = worker.section + 1]
    BY <1>3 DEF NextSection, Here
  <2>2. worker.section + 1 \in Sections
    BY <1>1, <1>3 DEF Sections
  <2> QED BY <1>1, <2>1, <2>2 DEF Worker, Places
<1> QED BY <1>2, <1>3

(* GetContent: a conflict, nothing to write, or a write.                    *)
LEMMA Getting ==
  ASSUME Typed, GetContent
  PROVE  /\ worker.at = "reading" /\ worker' \in Worker
         /\ worker'.job = worker.job /\ worker'.seen = worker.seen
         /\ \/ /\ worker'.at \in {"stopping", "copying"} /\ worker'.section = worker.section
               /\ worker'.at = "copying" => worker.section \notin recovered
            \/ worker' = NextSection /\ note[worker.section].body = Body(worker.section)
            \/ /\ worker'.at = "revising" /\ worker'.section = worker.section
               /\ worker'.copy.body = Body(worker.section)
               /\ worker'.copy.aside = note[worker.section].aside
<1> DEFINE s == worker.section
           merged == [marked |-> TRUE, body |-> Body(s), aside |-> note[s].aside]
<1>1. /\ worker.at = "reading" /\ worker \in Worker /\ s \in Sections
      /\ Body(s) \in SUBSET Events /\ note[s] \in Content
  BY WorkerTyped DEF GetContent
<1>2. merged \in Content /\ merged.body = Body(s) /\ merged.aside = note[s].aside
  BY <1>1 DEF Content
<1>3. worker' = IF ~Mergeable(note[s], Body(s))
                  THEN [worker EXCEPT !.at = IF s \in recovered THEN "stopping" ELSE "copying"]
                ELSE IF merged = note[s] THEN NextSection
                ELSE [worker EXCEPT !.at = "revising", !.copy = merged]
  BY DEF GetContent, Here
<1> HIDE DEF merged
<1>4. ASSUME NEW place \in {"stopping", "copying"}, worker' = [worker EXCEPT !.at = place],
             place = "copying" => worker.section \notin recovered
      PROVE  /\ worker' \in Worker /\ worker'.job = worker.job /\ worker'.seen = worker.seen
             /\ worker'.at \in {"stopping", "copying"} /\ worker'.section = worker.section
             /\ worker'.at = "copying" => worker.section \notin recovered
  <2>1. place \in Places
    BY DEF Places
  <2> QED BY <1>4, <2>1, WorkerTyped
<1>5. CASE worker' = NextSection /\ merged = note[s]
  BY <1>1, <1>2, <1>5, NextTyped
<1>6. CASE worker' = [worker EXCEPT !.at = "revising", !.copy = merged]
  BY <1>1, <1>2, <1>6 DEF Worker, Places
<1>7. CASE ~Mergeable(note[s], Body(s))
  <2>1. CASE s \in recovered
    BY <1>1, <1>3, <1>4, <1>7, <2>1
  <2>2. CASE s \notin recovered
    BY <1>1, <1>3, <1>4, <1>7, <2>2
  <2> QED BY <2>1, <2>2
<1> QED BY <1>3, <1>5, <1>6, <1>7

(* What the faults do.                                                      *)
LEMMA Retrying ==
  ASSUME Typed, worker.job \in Jobs, Retried
  PROVE  /\ Jobs' = Jobs /\ jobs' \in [Jobs -> Row] /\ worker' = Idle
         /\ \A j \in Jobs : j # worker.job => jobs'[j] = jobs[j]
         /\ jobs'[worker.job].status = "queued"
         /\ jobs'[worker.job].available = jobs[worker.job].available
         /\ jobs'[worker.job].ended = jobs[worker.job].ended
  BY Requeueing DEF Retried

LEMMA KeyedTyped ==
  ASSUME Typed, WritersFit, NEW e \in Events, emitter[e] = "keyed"
  PROVE  key[e] \in Keys
<1>1. key[e] \in Keys \cup {NoKey}
  BY DEF Typed
<1>2. key[e] # NoKey
  BY DEF WritersFit, NoKey
<1> QED BY <1>1, <1>2

LEMMA ClockTyped == Typed => clock \in Nat /\ LastStamp \in Nat /\ DelayTicks \in Nat
  BY ProjectionAssumption DEF Typed

LEMMA QueueTyped ==
  ASSUME Typed, WritersFit, worker.at # "idle" => worker.job \in Jobs, [ProjectionNext]_vars
  PROVE  Jobs' \subseteq Keys /\ IsFiniteSet(Jobs)' /\ jobs' \in [Jobs' -> Row]
<1>1. CASE jobs' = jobs
  BY <1>1 DEF Typed, Jobs
<1>2. CASE Jobs' = Jobs /\ jobs' \in [Jobs -> Row]
  BY <1>2 DEF Typed
<1>3. ASSUME NEW e \in Events, EnqueueProjection(e)
      PROVE  Jobs' \subseteq Keys /\ IsFiniteSet(Jobs)' /\ jobs' \in [Jobs' -> Row]
  <2>1. key[e] \in Keys /\ clock + (IF e \in Final THEN 0 ELSE DelayTicks) \in Nat
    BY <1>3, KeyedTyped, ClockTyped DEF EnqueueProjection
  <2> QED BY <1>3, <2>1, Queueing DEF EnqueueProjection
<1>4. CASE Reconcile
  <2>1. <<"manual", 0>> \in Keys
    BY DEF Keys
  <2> QED BY <1>4, <2>1, ClockTyped, Queueing DEF Reconcile
<1>5. CASE Lease
  BY <1>2, <1>5, Leasing
<1>6. CASE CompleteConnectorJob \/ StopOnConflict
  <2>1. worker.job \in Jobs
    BY <1>6 DEF CompleteConnectorJob, StopOnConflict
  <2> QED BY <1>2, <1>6, <2>1, Ending DEF CompleteConnectorJob, StopOnConflict
<1>7. CASE RequestLost \/ ReplyLost
  <2>1. worker.job \in Jobs
    BY <1>7 DEF RequestLost, ReplyLost, Remote
  <2> QED BY <1>2, <1>7, <2>1, Retrying DEF RequestLost, ReplyLost
<1>8. CASE Tick \/ Crash \/ User \/ UNCHANGED vars
  BY <1>1, <1>8 DEF Tick, Crash, User, WriteAside, StripMarker, RepairMarker, Mark, vars
<1>9. CASE Emit
  BY <1>1, <1>3, <1>9 DEF Emit, Stamp, InsertEvent, ProjectionKey
<1>10. CASE Work
  BY <1>1, <1>5, <1>6, <1>10
  DEF Work, ListEvents, GetContent, CreateRevision, PutContent, CreateRecoveryNote,
      MapRecoveryNote
<1> QED BY <1>4, <1>7, <1>8, <1>9, <1>10 DEF ProjectionNext

(* Where the worker goes: it begins, goes on, or stops.                     *)
Moves == ListEvents \/ GetContent \/ CreateRevision \/ PutContent \/ CreateRecoveryNote
           \/ MapRecoveryNote
Going ==
  /\ worker.at # "idle" /\ worker'.at # "idle" /\ worker' \in Worker /\ worker'.job = worker.job
  /\ HasRead' /\ worker'.seen = IF HasRead THEN worker.seen ELSE Inserted
  /\ UNCHANGED <<clock, writers, jobs, user, history, asked, faults>>

LEMMA WorkGoes ==
  ASSUME Typed, Moves
  PROVE  Going
<1>1. CASE ListEvents
  BY <1>1, WorkerTyped DEF ListEvents, Going, HasRead, Worker, Places
<1>2. CASE GetContent
  <2>1. UNCHANGED <<clock, writers, jobs, user, history, asked, faults>>
    BY <1>2 DEF GetContent, remote
  <2>2. worker'.at \in {"stopping", "copying", "reading", "closing", "revising"}
    BY <1>2, Getting, NextTyped
  <2> QED BY <1>2, <2>1, <2>2, Getting DEF Going, HasRead
<1>3. CASE CreateRevision \/ CreateRecoveryNote \/ MapRecoveryNote
  <2>1. /\ worker.at \in {"revising", "copying", "mapping"}
        /\ \E place \in {"writing", "mapping", "stopping"} :
             worker' = [worker EXCEPT !.at = place]
    BY <1>3 DEF CreateRevision, CreateRecoveryNote, MapRecoveryNote
  <2>2. UNCHANGED <<clock, writers, jobs, user, history, asked, faults>>
    BY <1>3 DEF CreateRevision, CreateRecoveryNote, MapRecoveryNote
  <2>3. PICK place \in {"writing", "mapping", "stopping"} :
          worker' = [worker EXCEPT !.at = place]
    BY <2>1
  <2>4. worker'.at = place /\ worker' \in Worker /\ worker'.job = worker.job
        /\ worker'.seen = worker.seen
    BY <2>3, WorkerTyped DEF Places
  <2> QED BY <2>1, <2>2, <2>3, <2>4 DEF Going, HasRead
<1>4. CASE PutContent
  <2>1. /\ worker.at = "writing" /\ worker' = NextSection
        /\ UNCHANGED <<clock, writers, jobs, user, history, asked, faults>>
    BY <1>4 DEF PutContent
  <2> QED BY <2>1, NextTyped DEF Going, HasRead
<1> QED BY <1>1, <1>2, <1>3, <1>4 DEF Moves

(* What a step does to the notes, and to the two kinds of copies.           *)
Written == worker.at = "writing" /\ note' = [note EXCEPT ![worker.section] = worker.copy]
Edited(s) ==
  /\ note' = [note EXCEPT ![s].aside = @ \cup {edits + 1}] /\ edits' = edits + 1
  /\ exposed' = IF worker.at = "writing" /\ worker.section = s THEN exposed \cup {edits + 1}
                ELSE exposed
  /\ UNCHANGED <<worker, revised>>
Marked(s) == \E m \in BOOLEAN : note' = [note EXCEPT ![s].marked = m]

LEMMA NoteMoves ==
  ASSUME [ProjectionNext]_vars
  PROVE  \/ note' = note /\ edits' = edits /\ exposed' = exposed
         \/ Written /\ (PutContent \/ ReplyLost) /\ UNCHANGED <<edits, exposed, revised>>
         \/ User /\ \E s \in Sections :
              Edited(s) \/ (Marked(s) /\ UNCHANGED <<edits, exposed, worker, revised>>)
<1>1. CASE PutContent
  BY <1>1 DEF PutContent, Written, Here, user, history
<1>2. CASE ReplyLost
  BY <1>2 DEF ReplyLost, Written, Here, user
<1>3. CASE User
  BY <1>3
  DEF User, WriteAside, StripMarker, RepairMarker, Mark, Edited, Marked, Here, history
<1>4. CASE Lease \/ ListEvents \/ GetContent \/ CreateRevision \/ CreateRecoveryNote
           \/ MapRecoveryNote
  BY <1>4
  DEF Lease, ListEvents, GetContent, CreateRevision, CreateRecoveryNote, MapRecoveryNote,
      remote, user, history
<1>5. CASE CompleteConnectorJob \/ StopOnConflict
  BY <1>5 DEF CompleteConnectorJob, StopOnConflict, EndJob, remote, user, history
<1>6. CASE Tick \/ Reconcile \/ RequestLost \/ Crash \/ UNCHANGED vars
  BY <1>6 DEF Tick, Reconcile, RequestLost, Crash, vars, remote, user, history
<1>7. CASE Emit
  BY <1>7
  DEF Emit, Stamp, InsertEvent, ProjectionKey, EnqueueProjection, remote, user, history
<1> QED BY <1>1, <1>2, <1>3, <1>4, <1>5, <1>6, <1>7 DEF ProjectionNext, Work

LEMMA CopyMoves ==
  ASSUME [ProjectionNext]_vars
  PROVE  /\ revised' = revised
            \/ (worker.at = "revising" /\ (CreateRevision \/ ReplyLost) /\ exposed' = exposed
                /\ revised' = [revised EXCEPT ![worker.section] = @ \cup note[worker.section].aside])
         /\ (copies' = copies /\ orphaned \subseteq orphaned')
            \/ (worker.at = "copying"
                /\ copies' = [copies EXCEPT ![worker.section] = @ \cup {Body(worker.section)}]
                /\ \/ CreateRecoveryNote /\ orphaned' = orphaned
                   \/ ReplyLost /\ orphaned' = orphaned \cup {worker.section})
         /\ recovered' = recovered
            \/ (MapRecoveryNote /\ recovered' = recovered \cup {worker.section})
         /\ orphaned' \subseteq orphaned \cup {worker.section}
<1>1. CASE CreateRevision \/ PutContent
  BY <1>1 DEF CreateRevision, PutContent, Here, history
<1>8. CASE CreateRecoveryNote
  <2>1. UNCHANGED <<revised, recovered, orphaned>>
    BY <1>8 DEF CreateRecoveryNote, history
  <2>2. worker.at = "copying"
        /\ copies' = [copies EXCEPT ![worker.section] = @ \cup {Body(worker.section)}]
    BY <1>8 DEF CreateRecoveryNote, Here
  <2> QED BY <1>8, <2>1, <2>2
<1>9. CASE MapRecoveryNote
  BY <1>9 DEF MapRecoveryNote, Here, history
<1>2. CASE ReplyLost
  BY <1>2 DEF ReplyLost, Here
<1>3. CASE User
  BY <1>3 DEF User, WriteAside, StripMarker, RepairMarker, Mark, history
<1>4. CASE Lease \/ ListEvents \/ GetContent
  BY <1>4 DEF Lease, ListEvents, GetContent, remote, history
<1>5. CASE CompleteConnectorJob \/ StopOnConflict
  BY <1>5 DEF CompleteConnectorJob, StopOnConflict, EndJob, remote, history
<1>6. CASE Tick \/ Reconcile \/ RequestLost \/ Crash \/ UNCHANGED vars
  BY <1>6 DEF Tick, Reconcile, RequestLost, Crash, vars, remote, history, Here
<1>7. CASE Emit
  BY <1>7
  DEF Emit, Stamp, InsertEvent, ProjectionKey, EnqueueProjection, remote, history
<1> QED BY <1>1, <1>2, <1>3, <1>4, <1>5, <1>6, <1>7, <1>8, <1>9 DEF ProjectionNext, Work

(* What a step does to the worker.                                          *)
LEMMA WorkerMoves ==
  ASSUME Typed, worker.at # "idle" => worker.job \in Jobs, [ProjectionNext]_vars
  PROVE  \/ worker' = worker
         \/ Lease
         \/ Moves
         \/ worker' = Idle
<1>1. CASE Lease \/ UNCHANGED vars \/ Tick \/ Reconcile \/ User
  BY <1>1
  DEF vars, Tick, Reconcile, User, WriteAside, StripMarker, RepairMarker, Mark
<1>3. CASE CompleteConnectorJob \/ StopOnConflict \/ RequestLost \/ ReplyLost \/ Crash
  BY <1>3 DEF CompleteConnectorJob, StopOnConflict, EndJob, RequestLost, ReplyLost, Retried,
              Crash
<1>4. CASE Emit
  BY <1>4 DEF Emit, Stamp, InsertEvent, ProjectionKey, EnqueueProjection
<1> QED BY <1>1, <1>3, <1>4 DEF ProjectionNext, Work, Moves

LEMMA NoteTyped ==
  ASSUME Typed, [ProjectionNext]_vars
  PROVE  note' \in [Sections -> Content] /\ edits' \in Nat
<1>0. note \in [Sections -> Content] /\ edits \in Nat
  BY DEF Typed
<1>1. CASE note' = note /\ edits' = edits
  BY <1>0, <1>1
<1>2. CASE Written /\ UNCHANGED edits
  BY <1>0, <1>2, WorkerTyped DEF Written
<1>3. ASSUME NEW s \in Sections, Edited(s)
      PROVE  note' \in [Sections -> Content] /\ edits' \in Nat
  <2>1. PICK i \in Nat : i = edits + 1
    BY <1>0
  <2>2. note' = [note EXCEPT ![s].aside = @ \cup {i}] /\ edits' = i
    BY <1>3, <2>1 DEF Edited
  <2> QED BY <1>0, <2>2 DEF Content
<1>4. ASSUME NEW s \in Sections, Marked(s), edits' = edits
      PROVE  note' \in [Sections -> Content] /\ edits' \in Nat
  BY <1>0, <1>4 DEF Marked, Content
<1> QED BY <1>1, <1>2, <1>3, <1>4, NoteMoves

LEMMA EmitterTyped ==
  ASSUME Typed, WritersFit, [ProjectionNext]_vars
  PROVE  /\ clock' \in 0 .. LastStamp + DelayTicks
         /\ emitter' \in [Events -> {"none", "stamped", "inserted", "keyed", "told", "gone"}]
         /\ stamp' \in [Events -> Nat] /\ key' \in [Events -> Keys \cup {NoKey}]
         /\ forgotten' \subseteq Events /\ overtaken' \subseteq Events
<1>0. /\ clock \in 0 .. LastStamp + DelayTicks
      /\ emitter \in [Events -> {"none", "stamped", "inserted", "keyed", "told", "gone"}]
      /\ stamp \in [Events -> Nat] /\ key \in [Events -> Keys \cup {NoKey}]
      /\ forgotten \subseteq Events /\ overtaken \subseteq Events
      /\ clock \in Nat /\ LastStamp \in Nat /\ DelayTicks \in Nat
  BY ClockTyped DEF Typed
<1>1. CASE Tick
  BY <1>0, <1>1 DEF Tick, writers, history
<1>2. ASSUME NEW e \in Events, Stamp(e) \/ InsertEvent(e) \/ EnqueueProjection(e)
      PROVE  /\ clock' = clock
             /\ emitter' \in [Events -> {"none", "stamped", "inserted", "keyed", "told", "gone"}]
             /\ stamp' \in [Events -> Nat] /\ key' \in [Events -> Keys \cup {NoKey}]
             /\ forgotten' = forgotten /\ overtaken' = overtaken
  BY <1>0, <1>2 DEF Stamp, InsertEvent, EnqueueProjection, history, NoKey
<1>3. ASSUME NEW e \in Events, ProjectionKey(e)
      PROVE  /\ clock' = clock
             /\ emitter' \in [Events -> {"none", "stamped", "inserted", "keyed", "told", "gone"}]
             /\ stamp' \in [Events -> Nat] /\ key' \in [Events -> Keys \cup {NoKey}]
             /\ forgotten' = forgotten /\ overtaken' \subseteq Events
  <2>1. /\ clock' = clock /\ stamp' = stamp /\ forgotten' = forgotten
        /\ emitter' = [emitter EXCEPT ![e] = "keyed"]
    BY <1>3 DEF ProjectionKey
  <2>2. CASE e \in Final
    <3>1. PICK anchor \in Latest(Inserted) :
            /\ key' = [key EXCEPT ![e] = <<"final", anchor>>]
            /\ overtaken' = IF anchor = e THEN overtaken ELSE overtaken \cup {e}
      BY <1>3, <2>2 DEF ProjectionKey
    <3>2. anchor \in Events
      BY DEF Latest, Inserted
    <3>3. <<"final", anchor>> \in Keys
      BY <3>2 DEF Keys
    <3> QED BY <1>0, <2>1, <3>1, <3>3
  <2>3. CASE e \notin Final
    <3>1. PICK n \in Nat : n = clock \div BucketTicks /\ n <= clock
      BY <1>0, BucketOf
    <3>2. n \in 0 .. LastStamp + DelayTicks
      BY <1>0, <3>1
    <3>3. <<"bucket", n>> \in Keys
      BY <3>2 DEF Keys
    <3>4. key' = [key EXCEPT ![e] = <<"bucket", n>>] /\ overtaken' = overtaken
      BY <1>3, <2>3, <3>1 DEF ProjectionKey
    <3> QED BY <1>0, <2>1, <3>3, <3>4
  <2> QED BY <2>2, <2>3
<1>4. CASE Emit
  BY <1>0, <1>2, <1>3, <1>4 DEF Emit
<1>5. CASE Crash
  BY <1>0, <1>5 DEF Crash, Writing, NoKey
<1>6. CASE UNCHANGED <<clock, writers, forgotten, overtaken>>
  BY <1>0, <1>6 DEF writers
<1>7. CASE Reconcile \/ User \/ RequestLost \/ ReplyLost \/ UNCHANGED vars \/ Lease
           \/ CompleteConnectorJob \/ StopOnConflict
  <2>1. UNCHANGED <<clock, writers, forgotten, overtaken>>
    BY <1>7
    DEF Reconcile, User, WriteAside, StripMarker, RepairMarker, Mark, RequestLost, ReplyLost,
        vars, Lease, CompleteConnectorJob, StopOnConflict, EndJob, history
  <2> QED BY <1>6, <2>1
<1>8. CASE Work
  BY <1>6, <1>7, <1>8, WorkGoes DEF Work, Moves, Going, history
<1> QED BY <1>1, <1>4, <1>5, <1>7, <1>8 DEF ProjectionNext

LEMMA TypedStep ==
  ASSUME Typed, WritersFit, worker.at # "idle" => worker.job \in Jobs, [ProjectionNext]_vars
  PROVE  Typed'
<1>1. worker' \in Worker
  BY WorkerMoves, WorkGoes, Leasing, IdleTyped DEF Going, Typed
<1>2. revised' \in [Sections -> SUBSET Nat] /\ copies' \in [Sections -> SUBSET SUBSET Events]
      /\ recovered' \subseteq Sections /\ orphaned' \subseteq Sections
  <2>1. /\ revised \in [Sections -> SUBSET Nat] /\ copies \in [Sections -> SUBSET SUBSET Events]
        /\ recovered \subseteq Sections /\ orphaned \subseteq Sections
    BY DEF Typed
  <2>2. worker.section \in Sections /\ Body(worker.section) \in SUBSET Events
        /\ note[worker.section].aside \in SUBSET Nat
    BY WorkerTyped DEF Content
  <2>3. revised' \in [Sections -> SUBSET Nat]
    BY <2>1, <2>2, CopyMoves
  <2>4. copies' \in [Sections -> SUBSET SUBSET Events]
    BY <2>1, <2>2, CopyMoves
  <2>5. recovered' \subseteq Sections /\ orphaned' \subseteq Sections
    BY <2>1, <2>2, CopyMoves
  <2> QED BY <2>3, <2>4, <2>5
<1> QED BY <1>1, <1>2, QueueTyped, NoteTyped, EmitterTyped DEF Typed

-----------------------------------------------------------------------------
(* The notes.                                                               *)
LEMMA Moving ==
  ASSUME Typed, Moves
  PROVE  \/ worker.at = "listing" /\ worker'.at = "reading" /\ worker'.section = worker.section
         \/ HasRead /\ worker' = NextSection
            /\ (Written \/ (note' = note /\ note[worker.section].body = Body(worker.section)))
         \/ HasRead /\ worker'.at \in {"stopping", "copying", "mapping"}
            /\ worker'.section = worker.section
            /\ (worker'.at = "copying" => worker.section \notin recovered' /\ recovered' = recovered)
         \/ worker.at = "reading" /\ worker'.at = "revising" /\ worker'.section = worker.section
            /\ worker'.copy.body = Body(worker.section)
            /\ worker'.copy.aside = note[worker.section].aside
         \/ worker.at = "revising" /\ worker'.at = "writing" /\ worker'.section = worker.section
            /\ worker'.copy = worker.copy /\ note' = note
            /\ revised' = [revised EXCEPT ![worker.section] = @ \cup note[worker.section].aside]
<1>1. CASE ListEvents
  BY <1>1, WorkerTyped DEF ListEvents, Worker
<1>2. CASE GetContent
  BY <1>2, Getting DEF GetContent, HasRead, remote
<1>3. CASE CreateRevision
  BY <1>3, WorkerTyped DEF CreateRevision, Places, Here
<1>4. CASE PutContent
  BY <1>4 DEF PutContent, Written, HasRead, Here
<1>5. CASE CreateRecoveryNote
  BY <1>5, WorkerTyped DEF CreateRecoveryNote, HasRead, Places
<1>6. CASE MapRecoveryNote
  BY <1>6, WorkerTyped DEF MapRecoveryNote, HasRead, Places
<1> QED BY <1>1, <1>2, <1>3, <1>4, <1>5, <1>6 DEF Moves

(* The log only grows.                                                      *)
LEMMA InsertedGrows ==
  ASSUME Typed, [ProjectionNext]_vars
  PROVE  Inserted \subseteq Inserted'
<1>0. emitter \in [Events -> {"none", "stamped", "inserted", "keyed", "told", "gone"}]
  BY DEF Typed
<1>1. CASE emitter' = emitter
  BY <1>1 DEF Inserted
<1>2. CASE Emit
  BY <1>0, <1>2
  DEF Emit, Stamp, InsertEvent, ProjectionKey, EnqueueProjection, Inserted
<1>3. CASE Crash
  BY <1>0, <1>3 DEF Crash, Writing, Inserted
<1>4. CASE Work
  <2>1. emitter' = emitter
    BY <1>4, WorkGoes
    DEF Work, Moves, Going, Lease, CompleteConnectorJob, StopOnConflict, EndJob, writers
  <2> QED BY <1>1, <2>1
<1>5. CASE Tick \/ Reconcile \/ User \/ RequestLost \/ ReplyLost \/ UNCHANGED vars
  <2>1. emitter' = emitter
    BY <1>5
    DEF Tick, Reconcile, User, WriteAside, StripMarker, RepairMarker, Mark, RequestLost,
        ReplyLost, vars, writers
  <2> QED BY <1>1, <2>1
<1> QED BY <1>2, <1>3, <1>4, <1>5 DEF ProjectionNext

(* What a note shows stays, or is replaced by all the job has to say.       *)
LEMMA BodiesGrow ==
  ASSUME Typed, NotesFit, [ProjectionNext]_vars, NEW s \in Sections
  PROVE  /\ note[s].body \subseteq note'[s].body
         /\ note'[s].body = note[s].body \/ (HasRead /\ note'[s].body = Body(s))
         /\ Written => note'[worker.section].body = Body(worker.section)
<1>0. note \in [Sections -> Content] /\ worker.section \in Sections
  BY WorkerTyped DEF Typed
<1>1. ASSUME Written
      PROVE  /\ note[s].body \subseteq note'[s].body
             /\ note'[s].body = note[s].body \/ (HasRead /\ note'[s].body = Body(s))
             /\ note'[worker.section].body = Body(worker.section)
  <2>1. HasRead /\ worker.copy.body = Body(worker.section)
    BY <1>1 DEF Written, NotesFit, HasRead
  <2>2. note'[worker.section] = worker.copy /\ (s # worker.section => note'[s] = note[s])
    BY <1>0, <1>1 DEF Written
  <2>3. note[s].body \subseteq Body(s)
    BY <2>1 DEF NotesFit, Body
  <2> QED BY <2>1, <2>2, <2>3
<1>2. ASSUME NEW t \in Sections, Edited(t) \/ Marked(t)
      PROVE  note'[s].body = note[s].body
  BY <1>0, <1>2 DEF Edited, Marked, Content
<1>3. note'[s].body = note[s].body \/ Written
  BY <1>2, NoteMoves
<1> QED BY <1>1, <1>3

LEMMA NotesStep ==
  ASSUME Typed, NotesFit, worker.at # "idle" => worker.job \in Jobs, [ProjectionNext]_vars
  PROVE  NotesFit'
<1> USE DEF Inserted
<1>0. /\ worker \in Worker /\ worker.section \in Sections /\ SectionCount \in Nat
      /\ Inserted \subseteq Inserted' /\ Sections = 1 .. SectionCount
  BY WorkerTyped, InsertedGrows, ProjectionAssumption DEF Sections
<1>1. ASSUME NEW s \in Sections
      PROVE  note'[s].body \subseteq Inserted' \cap Shows[s]
  <2>1. CASE note'[s].body = note[s].body
    BY <1>0, <2>1 DEF NotesFit
  <2>2. CASE HasRead /\ note'[s].body = Body(s)
    BY <1>0, <2>2, WorkerTyped DEF NotesFit, Body
  <2> QED BY <2>1, <2>2, BodiesGrow
<1>2. CASE worker' = worker
  <2>1. HasRead' = HasRead /\ \A s \in Sections : Body(s)' = Body(s) /\ Passed(s)' = Passed(s)
    BY <1>2 DEF HasRead, Body, Passed
  <2>2. ASSUME HasRead, NEW s \in Sections
        PROVE  note'[s].body \subseteq worker.seen /\ (Passed(s) => Body(s) \subseteq note'[s].body)
    BY <2>2, BodiesGrow DEF NotesFit, Body
  <2> QED BY <1>0, <1>1, <1>2, <2>1, <2>2 DEF NotesFit
<1>3. CASE Lease \/ worker' = Idle
  <2>1. worker'.at \in {"idle", "listing"} /\ worker'.section = 1
    BY <1>3, IdleTyped, Leasing
  <2> QED BY <1>1, <2>1 DEF NotesFit, HasRead
<1>4. CASE Moves
  <2>1. HasRead' /\ worker'.seen = IF HasRead THEN worker.seen ELSE Inserted
    BY <1>4, WorkGoes DEF Going
  <2>2. worker'.seen \subseteq Inserted'
    BY <1>0, <2>1 DEF NotesFit
  <2>3. ASSUME NEW s \in Sections
        PROVE  note'[s].body \subseteq worker'.seen
    <3>1. CASE note'[s].body = note[s].body
      BY <2>1, <3>1 DEF NotesFit
    <3>2. CASE HasRead /\ note'[s].body = Body(s)
      BY <2>1, <3>2 DEF Body
    <3> QED BY <3>1, <3>2, BodiesGrow
  <2>4. ASSUME NEW s \in Sections, Passed(s)'
        PROVE  worker'.seen \cap Shows[s] \subseteq note'[s].body
    <3>1. HasRead /\ (Passed(s) \/ (s = worker.section /\ note'[s].body = Body(s)))
      <4>1. CASE worker.at = "listing" /\ worker'.at = "reading"
                 /\ worker'.section = worker.section
        BY <1>0, <2>4, <4>1 DEF NotesFit, HasRead, Passed
      <4>2. CASE HasRead /\ worker' = NextSection
            /\ (Written \/ (note' = note /\ note[worker.section].body = Body(worker.section)))
        <5>1. s < worker.section \/ s = worker.section
          BY <1>0, <2>4, <4>2, NextTyped DEF Passed
        <5> QED BY <4>2, <5>1, BodiesGrow DEF Passed
      <4>3. CASE HasRead /\ worker'.at # "closing" /\ worker'.section = worker.section
        BY <2>4, <4>3 DEF Passed
      <4> QED BY <1>4, <4>1, <4>2, <4>3, Moving DEF HasRead
    <3>2. note[s].body \subseteq note'[s].body
      BY BodiesGrow
    <3> QED BY <2>1, <3>1, <3>2 DEF NotesFit, Body
  <2>5. worker'.at \in {"revising", "writing"} =>
          worker'.copy.body = worker'.seen \cap Shows[worker'.section]
    <3>1. ASSUME worker'.at \in {"revising", "writing"}
          PROVE  /\ HasRead /\ worker'.section = worker.section
                 /\ worker'.copy.body = Body(worker.section)
      BY <1>4, <3>1, Moving, NextTyped DEF NotesFit, HasRead
    <3> QED BY <2>1, <3>1 DEF Body
  <2> QED BY <1>1, <2>1, <2>2, <2>3, <2>4, <2>5 DEF NotesFit, Body
<1> QED BY <1>2, <1>3, <1>4, WorkerMoves

(* A user's text.                                                           *)
LEMMA AsideStep ==
  ASSUME Typed, AsideFits, worker.at # "idle" => worker.job \in Jobs, [ProjectionNext]_vars
  PROVE  AsideFits'
<1>0. /\ note \in [Sections -> Content] /\ revised \in [Sections -> SUBSET Nat]
      /\ worker.section \in Sections /\ edits \in Nat
  BY WorkerTyped DEF Typed
<1>1. /\ edits' \in Nat /\ edits <= edits' /\ exposed \subseteq exposed'
      /\ \A s \in Sections : revised[s] \subseteq revised'[s]
  <2>1. \A s \in Sections : revised[s] \subseteq revised'[s]
    BY <1>0, CopyMoves
  <2> QED BY <1>0, <2>1, NoteMoves DEF Edited
<1>2. ASSUME NEW s \in Sections
      PROVE  \/ note'[s].aside = note[s].aside
             \/ /\ Written /\ (PutContent \/ ReplyLost)
                /\ s = worker.section /\ note'[s].aside = worker.copy.aside
             \/ /\ worker' = worker /\ edits' = edits + 1
                /\ note'[s].aside = note[s].aside \cup {edits + 1}
                /\ worker.at = "writing" /\ worker.section = s => edits + 1 \in exposed'
  <2>1. CASE note' = note \/ (Written /\ (PutContent \/ ReplyLost))
    BY <1>0, <2>1 DEF Written
  <2>2. ASSUME NEW t \in Sections, Edited(t), s = t
        PROVE  /\ worker' = worker /\ edits' = edits + 1
               /\ note'[s].aside = note[s].aside \cup {edits + 1}
               /\ worker.at = "writing" /\ worker.section = s => edits + 1 \in exposed'
    BY <1>0, <2>2 DEF Edited, Content
  <2>3. ASSUME NEW t \in Sections, (Edited(t) /\ s # t) \/ Marked(t)
        PROVE  note'[s].aside = note[s].aside
    BY <1>0, <2>3 DEF Edited, Marked, Content
  <2> QED BY <2>1, <2>2, <2>3, NoteMoves
<1>3. ASSUME NEW s \in Sections
      PROVE  note'[s].aside \subseteq 1 .. edits'
  <2>1. note[s].aside \subseteq 1 .. edits
    BY DEF AsideFits
  <2>2. Written => worker.copy.aside \subseteq 1 .. edits
    BY DEF Written, AsideFits
  <2> QED BY <1>0, <1>1, <1>2, <2>1, <2>2
<1>4. worker'.at \in {"revising", "writing"} => worker'.copy.aside \subseteq 1 .. edits'
  <2>1. CASE worker' = worker
    BY <1>0, <1>1, <2>1 DEF AsideFits
  <2>2. CASE Lease \/ worker' = Idle
    BY <2>2, IdleTyped, Leasing
  <2>3. CASE Moves
    <3>1. ASSUME worker'.at \in {"revising", "writing"}
          PROVE  worker'.copy.aside \subseteq 1 .. edits
      BY <1>0, <2>3, <3>1, Moving, NextTyped DEF AsideFits
    <3> QED BY <1>0, <1>1, <3>1
  <2> QED BY <2>1, <2>2, <2>3, WorkerMoves
<1>5. worker'.at = "writing" =>
        note'[worker'.section].aside \subseteq revised'[worker'.section] \cup exposed'
  <2>1. CASE worker' = worker
    <3>1. ASSUME worker.at = "writing"
          PROVE  note'[worker.section].aside \subseteq revised'[worker.section] \cup exposed'
      <4>1. note[worker.section].aside \subseteq revised[worker.section] \cup exposed
        BY <3>1 DEF AsideFits
      <4>2. ~PutContent /\ ~ReplyLost
        BY <2>1, <3>1, NextTyped, IdleTyped DEF PutContent, ReplyLost, Retried
      <4> QED BY <1>0, <1>1, <1>2, <3>1, <4>1, <4>2
    <3> QED BY <2>1, <3>1
  <2>2. CASE Lease \/ worker' = Idle
    BY <2>2, IdleTyped, Leasing
  <2>3. CASE Moves
    <3>1. ASSUME worker'.at = "writing"
          PROVE  /\ worker'.section = worker.section /\ note' = note
                 /\ revised' = [revised EXCEPT ![worker.section] = @ \cup note[worker.section].aside]
      BY <2>3, <3>1, Moving, NextTyped
    <3> QED BY <1>0, <3>1
  <2> QED BY <2>1, <2>2, <2>3, WorkerMoves
<1>6. ASSUME NEW i \in (1 .. edits') \ exposed'
      PROVE  \E s \in Sections : i \in note'[s].aside \cup revised'[s]
  <2>1. CASE i \in 1 .. edits
    <3>1. PICK s \in Sections : i \in note[s].aside \cup revised[s]
      BY <1>1, <2>1 DEF AsideFits, EditsKept
    <3>2. i \in revised[s] \/ i \in note'[s].aside
      <4>1. ASSUME Written, s = worker.section, i \in note[s].aside
            PROVE  i \in revised[s]
        BY <1>1, <4>1 DEF AsideFits, Written
      <4> QED BY <1>2, <3>1, <4>1
    <3> QED BY <1>1, <3>2
  <2>2. CASE i \notin 1 .. edits
    <3>1. PICK s \in Sections : Edited(s) /\ edits' = edits + 1
      BY <1>0, <2>2, NoteMoves DEF Edited
    <3>2. i = edits + 1
      BY <1>0, <2>2, <3>1
    <3>3. note'[s].aside = note[s].aside \cup {edits + 1}
      BY <1>0, <3>1 DEF Edited, Content
    <3> QED BY <3>2, <3>3
  <2> QED BY <2>1, <2>2
<1> QED BY <1>3, <1>4, <1>5, <1>6 DEF AsideFits, EditsKept

(* The copies of a section in conflict.                                     *)
LEMMA CopiesStep ==
  ASSUME Typed, CopiesFit, worker.at # "idle" => worker.job \in Jobs, [ProjectionNext]_vars
  PROVE  CopiesFit'
<1>0. /\ copies \in [Sections -> SUBSET SUBSET Events] /\ worker.section \in Sections
      /\ Body(worker.section) \in SUBSET Events
      /\ recovered \subseteq recovered' /\ orphaned \subseteq orphaned'
  BY WorkerTyped, CopyMoves DEF Typed
<1>1. worker'.at = "copying" => worker'.section \notin recovered'
  <2>1. CASE worker' = worker
    <3>1. ASSUME worker.at = "copying"
          PROVE  recovered' = recovered
      BY <3>1, CopyMoves DEF MapRecoveryNote
    <3> QED BY <2>1, <3>1 DEF CopiesFit
  <2>2. CASE Lease \/ worker' = Idle
    BY <2>2, IdleTyped, Leasing
  <2>3. CASE Moves
    BY <2>3, Moving, NextTyped
  <2> QED BY <2>1, <2>2, <2>3, WorkerMoves
<1>2. ASSUME worker.at = "mapping"
      PROVE  \/ worker' = worker
             \/ worker.section \in recovered'
             \/ worker.section \in orphaned'
  <2>1. CASE Moves
    BY <1>2, <2>1
    DEF Moves, ListEvents, GetContent, CreateRevision, PutContent, CreateRecoveryNote,
        MapRecoveryNote, Here
  <2>2. CASE CompleteConnectorJob \/ StopOnConflict \/ RequestLost \/ ReplyLost \/ Crash
    BY <1>2, <2>2
    DEF CompleteConnectorJob, StopOnConflict, RequestLost, ReplyLost, Remote, Crash, Here
  <2>3. CASE Lease
    BY <1>2, <2>3 DEF Lease
  <2>4. CASE Emit
    BY <2>4 DEF Emit, Stamp, InsertEvent, ProjectionKey, EnqueueProjection
  <2>5. CASE Tick \/ Reconcile \/ User \/ UNCHANGED vars
    BY <2>5
    DEF Tick, Reconcile, User, WriteAside, StripMarker, RepairMarker, Mark, vars
  <2> QED BY <2>1, <2>2, <2>3, <2>4, <2>5 DEF ProjectionNext, Work, Moves
<1>3. ASSUME NEW s \in Sections \ orphaned'
      PROVE  /\ \E B \in SUBSET Events : copies'[s] \subseteq {B}
             /\ copies'[s] # {} => s \in recovered' \/ (worker'.at = "mapping" /\ worker'.section = s)
  <2>0. s \in Sections \ orphaned
    BY <1>0
  <2>1. CASE copies'[s] = copies[s]
    BY <1>0, <1>2, <2>0, <2>1 DEF CopiesFit
  <2>2. CASE copies'[s] # copies[s]
    <3>1. /\ worker.at = "copying" /\ s = worker.section
          /\ copies' = [copies EXCEPT ![worker.section] = @ \cup {Body(worker.section)}]
          /\ CreateRecoveryNote \/ (ReplyLost /\ orphaned' = orphaned \cup {worker.section})
      BY <1>0, <2>2, CopyMoves
    <3>2. copies[s] = {}
      BY <2>0, <3>1 DEF CopiesFit
    <3>3. copies'[s] = {Body(s)}
      BY <1>0, <3>1, <3>2
    <3>4. worker'.at = "mapping" /\ worker'.section = s
      BY <3>1, WorkerTyped DEF CreateRecoveryNote, Places
    <3> QED BY <1>0, <3>1, <3>3, <3>4
  <2> QED BY <2>1, <2>2
<1> QED BY <1>1, <1>3 DEF CopiesFit

-----------------------------------------------------------------------------
(* The queue.  A step leaves the rows, adds one, leases one, ends one or    *)
(* gives one back.                                                          *)
NewRow(k) ==
  /\ jobs'[k].status = "queued"
  /\ \A n \in Nat : k = <<"bucket", n>> => n * BucketTicks + DelayTicks <= jobs'[k].available
  /\ \A e \in Events : k = <<"final", e>> => e \in Inserted
Grows ==
  /\ \A j \in Jobs : j \in Jobs' /\ jobs'[j] = jobs[j]
  /\ \A j \in Jobs' : j \in Jobs \/ NewRow(j)
Ends == CompleteConnectorJob \/ StopOnConflict
Lost == RequestLost \/ ReplyLost

LEMMA JobMoves ==
  ASSUME Typed, WritersFit, [ProjectionNext]_vars
  PROVE  \/ Grows /\ (worker' = worker \/ Moves \/ worker' = Idle)
         \/ Lease \/ Ends \/ Lost
<1>0. jobs' = jobs => Grows
  BY DEF Grows, Jobs
<1>1. CASE Tick \/ User \/ UNCHANGED vars \/ Crash
  BY <1>0, <1>1
  DEF Tick, User, WriteAside, StripMarker, RepairMarker, Mark, vars, Crash
<1>2. CASE Moves
  BY <1>0, <1>2, WorkGoes DEF Going
<1>3. ASSUME NEW e \in Events, EnqueueProjection(e)
      PROVE  Grows /\ worker' = worker
  <2>1. emitter[e] = "keyed" /\ clock \in Nat /\ DelayTicks \in Nat /\ key[e] \in Keys
    BY <1>3, ClockTyped, KeyedTyped DEF EnqueueProjection
  <2>2. PICK k \in Keys : k = key[e]
    BY <2>1
  <2>3. PICK a \in Nat : a = clock + (IF e \in Final THEN 0 ELSE DelayTicks)
    BY <2>1
  <2>4. EnqueueConnectorJob(k, a) /\ worker' = worker
    BY <1>3, <2>2, <2>3 DEF EnqueueProjection
  <2>5. \/ \E n \in Nat : k = <<"bucket", n>> /\ n * BucketTicks + DelayTicks <= a
        \/ \E f \in Inserted : k = <<"final", f>>
    <3>1. CASE \E f \in Inserted : key[e] = <<"final", f>>
      BY <2>2, <3>1
    <3>2. ASSUME NEW n \in Nat, key[e] = <<"bucket", n>>, e \notin Final,
                 n * BucketTicks <= clock
          PROVE  n * BucketTicks + DelayTicks <= a
      <4>1. n * BucketTicks \in Nat
        BY ProjectionAssumption
      <4>2. PICK m \in Nat : m = n * BucketTicks
        BY <4>1
      <4> QED BY <2>1, <2>3, <3>2, <4>2
    <3> QED BY <2>1, <2>2, <3>1, <3>2 DEF WritersFit
  <2>6. ASSUME NEW j \in Jobs', j \notin Jobs
        PROVE  NewRow(j)
    <3>1. j = k /\ jobs'[j].status = "queued" /\ jobs'[j].available = a
      BY <2>4, <2>6, Queueing
    <3> QED BY <2>5, <3>1 DEF NewRow
  <2> QED BY <2>4, <2>6, Queueing DEF Grows
<1>4. CASE Emit
  <2>1. (\E e \in Events : EnqueueProjection(e)) \/ (jobs' = jobs /\ worker' = worker)
    BY <1>4 DEF Emit, Stamp, InsertEvent, ProjectionKey
  <2> QED BY <1>0, <1>3, <2>1
<1>5. CASE Reconcile
  <2>1. EnqueueConnectorJob(<<"manual", 0>>, clock) /\ worker' = worker
    BY <1>5 DEF Reconcile
  <2>2. <<"manual", 0>> \in Keys /\ clock \in Nat
    BY ClockTyped DEF Keys
  <2>3. ASSUME NEW j \in Jobs', j \notin Jobs
        PROVE  NewRow(j)
    <3>1. j = <<"manual", 0>> /\ jobs'[j].status = "queued"
      BY <2>1, <2>2, <2>3, Queueing
    <3> QED BY <3>1 DEF NewRow
  <2> QED BY <2>1, <2>2, <2>3, Queueing DEF Grows
<1> QED BY <1>1, <1>2, <1>4, <1>5 DEF ProjectionNext, Work, Moves, Ends, Lost

(* What is over is over.                                                    *)
LEMMA EndedStays ==
  ASSUME Typed, QueueFits, WritersFit, [ProjectionNext]_vars
  PROVE  /\ Jobs \subseteq Jobs'
         /\ \A j \in Ended : j \in Ended' /\ jobs'[j] = jobs[j]
         /\ \A j \in Ended' : j \in Ended \/ (Ends /\ j = worker.job)
<1>1. CASE Grows
  <2>1. \A j \in Jobs' : j \in Jobs \/ jobs'[j].status = "queued"
    BY <1>1 DEF Grows, NewRow
  <2> QED BY <1>1, <2>1 DEF Grows, Ended
<1>2. CASE Lease
  BY <1>2, Leasing DEF Ended
<1>3. CASE Ends
  <2>1. worker.job \in Jobs /\ jobs[worker.job].status = "leased"
    BY <1>3 DEF Ends, CompleteConnectorJob, StopOnConflict, QueueFits
  <2>2. /\ Jobs' = Jobs
        /\ \A j \in Jobs : j # worker.job => jobs'[j] = jobs[j]
    BY <1>3, <2>1, Ending DEF Ends, CompleteConnectorJob, StopOnConflict
  <2> QED BY <1>3, <2>1, <2>2 DEF Ended
<1>4. CASE Lost
  <2>1. worker.job \in Jobs /\ jobs[worker.job].status = "leased" /\ Retried
    BY <1>4 DEF Lost, RequestLost, ReplyLost, Remote, QueueFits
  <2> QED BY <2>1, Retrying DEF Ended
<1> QED BY <1>1, <1>2, <1>3, <1>4, JobMoves

LEMMA ShownStays ==
  ASSUME Typed, NotesFit, [ProjectionNext]_vars, NEW e \in Events, Shown(e)
  PROVE  Shown(e)'
  BY BodiesGrow DEF Shown

(* A job that has read shows what it saw when it is complete.               *)
LEMMA CompletedShows ==
  ASSUME Typed, NotesFit, CompleteConnectorJob, NEW e \in Events, e \in worker.seen
  PROVE  Shown(e)
  BY DEF CompleteConnectorJob, NotesFit, HasRead, Passed, Body, Shown

LEMMA EndsFit ==
  ASSUME Typed, QueueFits, Ends
  PROVE  /\ HasRead /\ worker' = Idle /\ Jobs' = Jobs /\ worker.job \in Jobs \ Ended
         /\ jobs'[worker.job].status = "completed" => CompleteConnectorJob
         /\ jobs'[worker.job].status \in {"completed", "conflict"}
         /\ jobs'[worker.job].ended = Cardinality(Ended) + 1
         /\ jobs'[worker.job].available = jobs[worker.job].available
         /\ \A j \in Jobs : j # worker.job => jobs'[j] = jobs[j]
         /\ \A j \in Ended : jobs[j].ended \in Nat /\ jobs[j].ended <= Cardinality(Ended)
         /\ Cardinality(Ended) \in Nat /\ IsFiniteSet(Ended)
         /\ Ended' = Ended \cup {worker.job}
<1>1. worker.job \in Jobs /\ jobs[worker.job].status = "leased" /\ HasRead
  BY DEF Ends, CompleteConnectorJob, StopOnConflict, QueueFits, HasRead
<1>2. PICK status \in {"completed", "conflict"} :
        EndJob(status) /\ (status = "completed" => CompleteConnectorJob)
  BY DEF Ends, CompleteConnectorJob, StopOnConflict
<1>3. /\ Jobs' = Jobs /\ worker' = Idle
      /\ \A j \in Jobs : j # worker.job => jobs'[j] = jobs[j]
      /\ jobs'[worker.job].status = status
      /\ jobs'[worker.job].available = jobs[worker.job].available
      /\ jobs'[worker.job].ended = Cardinality(Ended) + 1
      /\ IsFiniteSet(Ended) /\ Cardinality(Ended) \in Nat
  BY <1>1, <1>2, Ending
<1>4. \A j \in Ended : jobs[j].ended \in Nat /\ jobs[j].ended <= Cardinality(Ended)
  BY DEF Typed, Row, QueueFits, Ended
<1>5. Ended' = Ended \cup {worker.job}
  BY <1>1, <1>3 DEF Ended
<1> QED BY <1>1, <1>2, <1>3, <1>4, <1>5 DEF Ended

(* An event that a job covers stays covered.                                *)
LEMMA CoversStays ==
  ASSUME Typed, NotesFit, QueueFits, WritersFit, [ProjectionNext]_vars,
         NEW k \in Jobs, NEW e \in Inserted, Covers(k, e)
  PROVE  Covers(k, e)'
<1>0. e \in Events /\ (Shown(e) => Shown(e)')
  BY ShownStays DEF Inserted
<1>1. CASE Ends
  <2>1. Done(k)' => Done(k)
    BY <1>1, EndsFit, IdleTyped DEF Done, HasRead
  <2>2. ~HasRead'
    BY <1>1, EndsFit, IdleTyped DEF HasRead
  <2>3. ASSUME k \in Ended', NEW r \in Jobs, jobs'[r].status = "completed",
               r = k \/ jobs'[r].ended > jobs'[k].ended
        PROVE  Shown(e)'
    <3>1. Done(k) /\ HasRead /\ e \in worker.seen
      BY <1>1, <2>1, <2>3, EndsFit DEF Done, Covers
    <3>2. CASE r = worker.job
      BY <1>0, <1>1, <2>3, <3>1, <3>2, EndsFit, CompletedShows
    <3>3. CASE r # worker.job
      <4>1. jobs'[r] = jobs[r] /\ r \in Ended
        BY <1>1, <2>3, <3>3, EndsFit DEF Ended
      <4>2. k # worker.job
        BY <1>1, <2>3, <3>3, <4>1, EndsFit
      <4>3. jobs'[k] = jobs[k] /\ k \in Ended
        BY <1>1, <2>3, <4>2, EndsFit
      <4> QED BY <1>0, <2>3, <4>1, <4>3 DEF Covers
    <3> QED BY <3>2, <3>3
  <2>4. Jobs' = Jobs
    BY <1>1, EndsFit
  <2> QED BY <2>2, <2>3, <2>4 DEF Covers
<1>2. CASE ~Ends
  <2>1. Ended' = Ended /\ \A j \in Ended : jobs'[j] = jobs[j]
    BY <1>2, EndedStays
  <2>2. ASSUME k \in Ended', NEW r \in Jobs', jobs'[r].status = "completed",
               r = k \/ jobs'[r].ended > jobs'[k].ended
        PROVE  Shown(e)'
    <3>1. r \in Ended
      BY <2>1, <2>2 DEF Ended
    <3>2. r \in Jobs
      BY <3>1 DEF Ended
    <3> QED BY <1>0, <2>1, <2>2, <3>1, <3>2 DEF Covers
  <2>3. Done(k)' /\ HasRead' => e \in worker'.seen
    <3>1. CASE worker' = worker
      <4>1. Done(k)' = Done(k) /\ HasRead' = HasRead
        BY <2>1, <3>1 DEF Done, HasRead
      <4> QED BY <3>1, <4>1 DEF Covers
    <3>2. CASE Lease \/ worker' = Idle
      BY <3>2, Leasing, IdleTyped DEF HasRead
    <3>3. CASE Moves
      <4>1. worker'.job = worker.job /\ HasRead'
            /\ worker'.seen = IF HasRead THEN worker.seen ELSE Inserted
        BY <3>3, WorkGoes DEF Going
      <4>2. HasRead /\ Done(k)' => Done(k)
        BY <2>1, <4>1 DEF Done
      <4> QED BY <4>1, <4>2 DEF Covers
    <3>4. worker.at # "idle" => worker.job \in Jobs
      BY DEF QueueFits
    <3> QED BY <3>1, <3>2, <3>3, <3>4, WorkerMoves
  <2> QED BY <2>2, <2>3 DEF Covers
<1> QED BY <1>1, <1>2

(* A job that waits will read what is there.                                *)
LEMMA WaitingCovers ==
  ASSUME QueueFits, NEW k \in Jobs, jobs[k].status = "queued", NEW e \in Events
  PROVE  Covers(k, e)
<1>1. ~Done(k) /\ k \notin Ended
  BY DEF Done, HasRead, QueueFits, Ended
<1> QED BY <1>1 DEF Covers

(* So does a job that is queued by this step: it has not begun.             *)
LEMMA NewCovers ==
  ASSUME QueueFits', NEW k, k \in Jobs', jobs'[k].status = "queued", NEW e \in Events
  PROVE  Covers(k, e)'
<1>1. ~Done(k)' /\ k \notin Ended'
  BY DEF Done, HasRead, QueueFits, Ended
<1> QED BY <1>1 DEF Covers

LEMMA ClockGrows ==
  ASSUME Typed, [ProjectionNext]_vars
  PROVE  clock \in Nat /\ clock' \in Nat /\ clock <= clock'
<1>1. clock' = clock \/ clock' = clock + 1
  <2>1. CASE Tick
    BY <2>1 DEF Tick
  <2>2. CASE Work
    BY <2>2, WorkGoes
    DEF Work, Moves, Going, Lease, CompleteConnectorJob, StopOnConflict, EndJob
  <2>3. CASE Emit
    BY <2>3 DEF Emit, Stamp, InsertEvent, ProjectionKey, EnqueueProjection
  <2>4. CASE Reconcile \/ User \/ RequestLost \/ ReplyLost \/ Crash \/ UNCHANGED vars
    BY <2>4
    DEF Reconcile, User, WriteAside, StripMarker, RepairMarker, Mark, RequestLost, ReplyLost,
        Crash, vars
  <2> QED BY <2>1, <2>2, <2>3, <2>4 DEF ProjectionNext
<1> QED BY <1>1, ClockTyped

LEMMA QueueStep ==
  ASSUME Typed, NotesFit, QueueFits, WritersFit, [ProjectionNext]_vars
  PROVE  QueueFits'
<1>0. /\ jobs \in [Jobs -> Row] /\ clock \in Nat /\ clock' \in Nat /\ clock <= clock'
      /\ Inserted \subseteq Inserted' /\ Typed'
  <2>1. worker.at # "idle" => worker.job \in Jobs
    BY DEF QueueFits
  <2>2. Typed'
    BY <2>1, TypedStep
  <2> QED BY <2>2, InsertedGrows, ClockGrows DEF Typed
<1>1. worker'.at # "idle" => worker'.job \in Jobs' /\ jobs'[worker'.job].status = "leased"
  <2>1. CASE Grows /\ (worker' = worker \/ Moves)
    <3>1. worker'.at # "idle" => worker.at # "idle" /\ worker'.job = worker.job
      BY <2>1, WorkGoes DEF Going
    <3> QED BY <2>1, <3>1 DEF Grows, QueueFits
  <2>2. CASE worker' = Idle
    BY <2>2, IdleTyped
  <2>3. CASE Lease
    BY <2>3, Leasing
  <2>4. CASE Ends \/ Lost
    BY <2>4, EndsFit, IdleTyped DEF Lost, RequestLost, ReplyLost, Retried
  <2> QED BY <2>1, <2>2, <2>3, <2>4, JobMoves
<1>2. \A k \in Ended' : jobs'[k].ended <= Cardinality(Ended')
  <2>1. CASE Ends
    <3>1. worker.job \notin Ended
      BY <2>1, EndsFit
    <3>2. Cardinality(Ended') = Cardinality(Ended) + 1
      BY <2>1, <3>1, EndsFit, FS_AddElement
    <3>3. PICK n \in Nat : n = Cardinality(Ended)
      BY <2>1, EndsFit
    <3>4. ASSUME NEW k \in Ended'
          PROVE  jobs'[k].ended <= n + 1
      <4>1. CASE k = worker.job
        BY <2>1, <3>3, <4>1, EndsFit
      <4>2. CASE k # worker.job
        <5>1. k \in Ended /\ jobs'[k] = jobs[k]
          BY <2>1, <4>2, EndsFit DEF Ended
        <5>2. jobs[k].ended \in Nat /\ jobs[k].ended <= n
          BY <2>1, <3>3, <5>1, EndsFit
        <5> QED BY <5>1, <5>2
      <4> QED BY <4>1, <4>2
    <3> QED BY <3>2, <3>3, <3>4
  <2>2. CASE ~Ends
    <3>1. Ended' = Ended /\ \A j \in Ended : jobs'[j] = jobs[j]
      BY <2>2, EndedStays
    <3> QED BY <3>1 DEF QueueFits
  <2> QED BY <2>1, <2>2
<1>3. ASSUME NEW k \in Jobs', jobs'[k].available > clock'
      PROVE  jobs'[k].status = "queued"
  <2>0. jobs'[k].available \in Nat
    BY <1>0 DEF Typed, Row
  <2>1. ASSUME k \in Jobs, jobs'[k].available = jobs[k].available
        PROVE  jobs[k].status = "queued" /\ jobs[k].available > clock
    <3>1. jobs[k].available > clock
      BY <1>0, <1>3, <2>0, <2>1
    <3> QED BY <2>1, <3>1 DEF QueueFits
  <2>2. CASE Grows
    BY <2>1, <2>2 DEF Grows, NewRow
  <2>3. CASE Lease
    <3>1. k \in Jobs /\ jobs'[k].available = jobs[k].available
          /\ (jobs'[k].status # "queued" /\ jobs[k].status = "queued" => jobs[k].available <= clock)
      BY <2>3, Leasing
    <3>2. jobs[k].available \in Nat
      BY <1>0, <3>1 DEF Row
    <3> QED BY <1>0, <2>1, <3>1, <3>2
  <2>4. CASE Ends
    <3>1. k \in Jobs /\ jobs'[k].available = jobs[k].available
      BY <2>4, EndsFit
    <3>2. k # worker.job
      BY <2>1, <2>4, <3>1 DEF QueueFits, Ends, CompleteConnectorJob, StopOnConflict
    <3> QED BY <2>1, <2>4, <3>1, <3>2, EndsFit
  <2>5. CASE Lost
    <3>1. worker.job \in Jobs /\ Retried
      BY <2>5 DEF Lost, RequestLost, ReplyLost, Remote, QueueFits
    <3> QED BY <2>1, <3>1, Retrying
  <2> QED BY <2>2, <2>3, <2>4, <2>5, JobMoves
<1>4. ASSUME NEW k \in Jobs'
      PROVE  \/ k \in Jobs /\ jobs'[k].available = jobs[k].available
             \/ NewRow(k)
  <2>1. CASE Grows
    BY <2>1 DEF Grows
  <2>2. CASE Lease
    BY <2>2, Leasing
  <2>3. CASE Ends
    BY <2>3, EndsFit
  <2>4. CASE Lost
    <3>1. worker.job \in Jobs /\ Retried
      BY <2>4 DEF Lost, RequestLost, ReplyLost, Remote, QueueFits
    <3> QED BY <3>1, Retrying
  <2> QED BY <2>1, <2>2, <2>3, <2>4, JobMoves
<1>5. ASSUME NEW n \in Nat, <<"bucket", n>> \in Jobs'
      PROVE  n * BucketTicks + DelayTicks <= jobs'[<<"bucket", n>>].available
  BY <1>4, <1>5 DEF QueueFits, NewRow
<1>6. ASSUME NEW e \in Events, <<"final", e>> \in Jobs'
      PROVE  e \in Inserted' /\ Covers(<<"final", e>>, e)'
  <2>1. CASE <<"final", e>> \in Jobs
    <3>1. e \in Inserted /\ Covers(<<"final", e>>, e)
      BY <2>1 DEF QueueFits
    <3> QED BY <1>0, <2>1, <3>1, CoversStays
  <2>2. CASE <<"final", e>> \notin Jobs
    <3>1. NewRow(<<"final", e>>)
      BY <1>4, <1>6, <2>2
    <3>2. ~Done(<<"final", e>>)' /\ <<"final", e>> \notin Ended'
      BY <1>1, <3>1 DEF NewRow, Done, HasRead, Ended
    <3> QED BY <1>0, <3>1, <3>2 DEF NewRow, Covers
  <2> QED BY <2>1, <2>2
<1> QED BY <1>1, <1>2, <1>3, <1>5, <1>6 DEF QueueFits

(* The writers of the events that are not given up.                         *)
LEMMA WriterMoves ==
  ASSUME Typed, [ProjectionNext]_vars, NEW e \in Events
  PROVE  /\ forgotten \subseteq forgotten' /\ overtaken \subseteq overtaken'
         /\ emitter'[e] = "keyed" => ProjectionKey(e) \/ (emitter[e] = "keyed" /\ key'[e] = key[e])
         /\ emitter'[e] = "told" =>
              EnqueueProjection(e) \/ emitter[e] = "told" \/ e \in forgotten'
<1>0. /\ emitter \in [Events -> {"none", "stamped", "inserted", "keyed", "told", "gone"}]
      /\ key \in [Events -> Keys \cup {NoKey}]
  BY DEF Typed
<1>1. CASE UNCHANGED <<writers, forgotten, overtaken>>
  BY <1>1 DEF writers
<1>2. ASSUME NEW f \in Events, Stamp(f) \/ InsertEvent(f) \/ ProjectionKey(f) \/ EnqueueProjection(f)
      PROVE  /\ forgotten \subseteq forgotten' /\ overtaken \subseteq overtaken'
             /\ f = e \/ (emitter'[e] = emitter[e] /\ key'[e] = key[e])
             /\ emitter'[f] = "keyed" => ProjectionKey(f)
             /\ emitter'[f] = "told" => EnqueueProjection(f)
  BY <1>0, <1>2 DEF Stamp, InsertEvent, ProjectionKey, EnqueueProjection, history
<1>3. CASE Emit
  BY <1>2, <1>3 DEF Emit
<1>4. CASE Crash
  BY <1>0, <1>4 DEF Crash, Writing
<1>5. CASE Work
  <2>1. UNCHANGED <<writers, forgotten, overtaken>>
    BY <1>5, WorkGoes
    DEF Work, Moves, Going, Lease, CompleteConnectorJob, StopOnConflict, EndJob, history
  <2> QED BY <1>1, <2>1
<1>6. CASE Tick \/ Reconcile \/ User \/ RequestLost \/ ReplyLost \/ UNCHANGED vars
  <2>1. UNCHANGED <<writers, forgotten, overtaken>>
    BY <1>6
    DEF Tick, Reconcile, User, WriteAside, StripMarker, RepairMarker, Mark, RequestLost,
        ReplyLost, vars, history
  <2> QED BY <1>1, <2>1
<1> QED BY <1>3, <1>4, <1>5, <1>6 DEF ProjectionNext

(* The key of a bucket is spent only when the bucket is over.               *)
LEMMA KeyComputed ==
  ASSUME Typed, QueueFits, NEW e \in Events, ProjectionKey(e)
  PROVE  /\ jobs' = jobs /\ clock' = clock /\ e \in Inserted /\ forgotten' = forgotten
         /\ overtaken' \subseteq overtaken \cup {e}
         /\ \/ \E n \in Nat : /\ key'[e] = <<"bucket", n>> /\ e \notin Final
                              /\ n * BucketTicks <= clock
                              /\ key'[e] \in Jobs => jobs[key'[e]].status = "queued"
            \/ \E f \in Inserted : key'[e] = <<"final", f>> /\ (f = e \/ e \in overtaken')
<1>0. /\ jobs' = jobs /\ clock' = clock /\ e \in Inserted /\ forgotten' = forgotten
      /\ key \in [Events -> Keys \cup {NoKey}] /\ clock \in Nat
  BY ClockTyped DEF ProjectionKey, Inserted, Typed
<1>1. CASE e \in Final
  <2>1. PICK anchor \in Latest(Inserted) :
          /\ key' = [key EXCEPT ![e] = <<"final", anchor>>]
          /\ overtaken' = IF anchor = e THEN overtaken ELSE overtaken \cup {e}
    BY <1>1 DEF ProjectionKey
  <2>2. anchor \in Inserted /\ key'[e] = <<"final", anchor>> /\ (anchor = e \/ e \in overtaken')
    BY <1>0, <2>1 DEF Latest
  <2> QED BY <1>0, <2>1, <2>2
<1>2. CASE e \notin Final
  <2>1. PICK n \in Nat : /\ n = clock \div BucketTicks /\ n * BucketTicks <= clock
                         /\ clock < n * BucketTicks + DelayTicks
    BY <1>0, BucketOf
  <2>2. key'[e] = <<"bucket", n>> /\ overtaken' = overtaken
    BY <1>0, <1>2, <2>1 DEF ProjectionKey
  <2>3. ASSUME <<"bucket", n>> \in Jobs
        PROVE  jobs[<<"bucket", n>>].status = "queued"
    <3>1. n * BucketTicks + DelayTicks <= jobs[<<"bucket", n>>].available
      BY <2>3 DEF QueueFits
    <3>2. jobs[<<"bucket", n>>].available \in Nat
      BY <2>3 DEF Typed, Row
    <3>3. n * BucketTicks \in Nat /\ DelayTicks \in Nat
      BY ProjectionAssumption
    <3>4. PICK m \in Nat : m = n * BucketTicks
      BY <3>3
    <3>5. jobs[<<"bucket", n>>].available > clock
      BY <1>0, <2>1, <3>1, <3>2, <3>3, <3>4
    <3> QED BY <2>3, <3>5 DEF QueueFits
  <2> QED BY <1>0, <1>2, <2>1, <2>2, <2>3
<1> QED BY <1>1, <1>2

LEMMA WritersStep ==
  ASSUME Typed, NotesFit, QueueFits, WritersFit, [ProjectionNext]_vars
  PROVE  WritersFit'
<1>0. /\ Inserted \subseteq Inserted' /\ Jobs \subseteq Jobs' /\ QueueFits'
  BY InsertedGrows, EndedStays, QueueStep
<1>1. ASSUME NEW e \in Events, emitter'[e] = "keyed"
      PROVE  \/ \E n \in Nat : key'[e] = <<"bucket", n>> /\ e \notin Final
                               /\ n * BucketTicks <= clock'
             \/ \E f \in Inserted' : key'[e] = <<"final", f>>
  <2>1. CASE ProjectionKey(e)
    BY <1>0, <2>1, KeyComputed
  <2>2. CASE emitter[e] = "keyed" /\ key'[e] = key[e]
    <3>1. CASE \E f \in Inserted : key[e] = <<"final", f>>
      BY <1>0, <2>2, <3>1
    <3>2. ASSUME NEW n \in Nat, key[e] = <<"bucket", n>>, e \notin Final, n * BucketTicks <= clock
          PROVE  n * BucketTicks <= clock'
      <4>1. PICK m \in Nat : m = n * BucketTicks
        BY ProjectionAssumption
      <4>2. clock \in Nat /\ clock' \in Nat /\ clock <= clock'
        BY ClockGrows
      <4> QED BY <3>2, <4>1, <4>2
    <3> QED BY <2>2, <3>1, <3>2 DEF WritersFit
  <2> QED BY <1>1, <2>1, <2>2, WriterMoves
<1>2. ASSUME NEW e \in Meant'
      PROVE  /\ emitter'[e] = "keyed" /\ key'[e] \in Jobs' => Covers(key[e], e)'
             /\ emitter'[e] = "told" => \E k \in Jobs' : Covers(k, e)'
  <2>0. e \in Events /\ e \notin forgotten' /\ e \notin overtaken'
    BY DEF Meant, Inserted
  <2>1. emitter[e] \in {"keyed", "told"} => e \in Meant
    BY <2>0, WriterMoves DEF Meant, Inserted
  <2>2. ASSUME NEW k \in Jobs', k \notin Jobs
        PROVE  Covers(k, e)'
    <3>1. jobs'[k].status = "queued"
      <4>1. Grows
        BY <2>2, JobMoves, Leasing, EndsFit, Retrying
        DEF Lost, RequestLost, ReplyLost, Remote, QueueFits
      <4> QED BY <2>2, <4>1 DEF Grows, NewRow
    <3> QED BY <1>0, <2>0, <2>2, <3>1, NewCovers
  <2>3. ASSUME emitter'[e] = "keyed", key'[e] \in Jobs'
        PROVE  Covers(key[e], e)'
    <3>1. PICK k \in Jobs' : k = key'[e]
      BY <2>3
    <3>2. Covers(k, e)'
      <4>1. CASE k \notin Jobs
        BY <2>2, <4>1
      <4>2. CASE k \in Jobs /\ ProjectionKey(e)
        <5>1. e \in Inserted
          BY <2>0, <4>2, KeyComputed
        <5>2. (jobs[k].status = "queued") \/ (k = <<"final", e>>)
          BY <2>0, <3>1, <4>2, KeyComputed
        <5>3. Covers(k, e)
          BY <2>0, <4>2, <5>2, WaitingCovers DEF QueueFits
        <5> QED BY <4>2, <5>1, <5>3, CoversStays
      <4>3. CASE k \in Jobs /\ emitter[e] = "keyed" /\ key'[e] = key[e]
        <5>1. e \in Inserted /\ Covers(k, e)
          BY <2>1, <3>1, <4>3 DEF WritersFit, Meant
        <5> QED BY <4>3, <5>1, CoversStays
      <4> QED BY <2>0, <2>3, <4>1, <4>2, <4>3, WriterMoves
    <3> QED BY <3>1, <3>2 DEF Covers, Done
  <2>4. ASSUME emitter'[e] = "told"
        PROVE  \E k \in Jobs' : Covers(k, e)'
    <3>1. CASE emitter[e] = "told"
      <4>1. PICK k \in Jobs : Covers(k, e)
        BY <2>1, <3>1 DEF WritersFit
      <4>2. e \in Inserted
        BY <2>1, <3>1 DEF Meant
      <4> QED BY <1>0, <4>1, <4>2, CoversStays
    <3>2. CASE EnqueueProjection(e)
      <4>1. emitter[e] = "keyed" /\ e \in Meant /\ e \in Inserted
        BY <2>1, <3>2 DEF EnqueueProjection, Meant
      <4>2. PICK k \in Keys : k = key[e]
        BY <2>0, <4>1, KeyedTyped
      <4>3. k \in Jobs'
        <5>1. PICK a \in Nat : a = clock + (IF e \in Final THEN 0 ELSE DelayTicks)
          BY ClockTyped
        <5>2. EnqueueConnectorJob(k, a)
          BY <3>2, <4>2, <5>1 DEF EnqueueProjection
        <5> QED BY <5>2, Queueing
      <4>4. CASE k \in Jobs
        <5>1. Covers(k, e)
          BY <4>1, <4>2, <4>4 DEF WritersFit
        <5> QED BY <4>1, <4>3, <4>4, <5>1, CoversStays
      <4>5. CASE k \notin Jobs
        BY <2>2, <4>3, <4>5
      <4> QED BY <4>4, <4>5
    <3> QED BY <2>0, <2>4, <3>1, <3>2, WriterMoves
  <2> QED BY <2>3, <2>4
<1> QED BY <1>1, <1>2 DEF WritersFit

-----------------------------------------------------------------------------
LEMMA InvariantInitially == ProjectionInit => ProjectionInvariant
<1> SUFFICES ASSUME ProjectionInit PROVE ProjectionInvariant
  OBVIOUS
<1>1. jobs = <<>> /\ Jobs = {} /\ Ended = {} /\ Inserted = {} /\ worker = Idle /\ edits = 0
  BY DEF ProjectionInit, Jobs, Ended, Inserted
<1>2. Typed
  <2>1. clock = 0 /\ 0 \in 0 .. LastStamp + DelayTicks
    BY ProjectionAssumption DEF ProjectionInit
  <2>2. jobs \in [Jobs -> Row] /\ IsFiniteSet(Jobs) /\ Jobs \subseteq Keys
    BY <1>1, FS_EmptySet
  <2>3. note \in [Sections -> Content]
    BY DEF ProjectionInit, Content
  <2> QED BY <1>1, <2>1, <2>2, <2>3, IdleTyped DEF Typed, ProjectionInit, NoKey
<1>3. NotesFit /\ AsideFits /\ CopiesFit
  <2>1. /\ \A s \in Sections : note[s].body = {} /\ note[s].aside = {} /\ copies[s] = {}
        /\ worker.at = "idle" /\ worker.section = 1
    BY <1>1, IdleTyped DEF ProjectionInit
  <2>2. NotesFit
    BY <2>1 DEF NotesFit, HasRead
  <2>3. AsideFits
    BY <1>1, <2>1 DEF AsideFits, EditsKept
  <2>4. CopiesFit
    BY <2>1 DEF CopiesFit
  <2> QED BY <2>2, <2>3, <2>4
<1>4. QueueFits /\ WritersFit
  BY <1>1, IdleTyped DEF ProjectionInit, QueueFits, WritersFit, Meant
<1> QED BY <1>2, <1>3, <1>4 DEF ProjectionInvariant

LEMMA InvariantStep ==
  ProjectionInvariant /\ [ProjectionNext]_vars => ProjectionInvariant'
<1> SUFFICES ASSUME ProjectionInvariant, [ProjectionNext]_vars PROVE ProjectionInvariant'
  OBVIOUS
<1>1. worker.at # "idle" => worker.job \in Jobs
  BY DEF ProjectionInvariant, QueueFits
<1>2. Typed' /\ NotesFit' /\ AsideFits' /\ CopiesFit'
  BY <1>1, TypedStep, NotesStep, AsideStep, CopiesStep DEF ProjectionInvariant
<1>3. QueueFits' /\ WritersFit'
  BY QueueStep, WritersStep DEF ProjectionInvariant
<1> QED BY <1>2, <1>3 DEF ProjectionInvariant

THEOREM ProjectionIsInvariant == ProjectionSpec => []ProjectionInvariant
  BY InvariantInitially, InvariantStep, PTL DEF ProjectionSpec

(* Every value stays in its domain; a leased row is the worker's, or one a  *)
(* dead process left.                                                       *)
THEOREM ProjectionTypeCorrect == ProjectionSpec => []ProjectionTypeOK
<1>1. ProjectionInvariant => ProjectionTypeOK
  BY WorkerTyped DEF ProjectionInvariant, Typed, NotesFit, AsideFits, QueueFits, ProjectionTypeOK
<1> QED BY <1>1, ProjectionIsInvariant, PTL

(* A user's text outside the managed region is in the note or in a revision *)
(* of it, unless it was typed between the revision and the PUT of one write *)
(* (put_content).                                                           *)
THEOREM UserTextIsKept == ProjectionSpec => []EditsKept
<1>1. ProjectionInvariant => EditsKept
  BY DEF ProjectionInvariant, AsideFits
<1> QED BY <1>1, ProjectionIsInvariant, PTL

(* However many jobs run into the conflict of a section, there is one       *)
(* recovery note (ensure_recovery_note), unless its creation was not        *)
(* recorded.                                                                *)
THEOREM ConflictLeavesOneCopy == ProjectionSpec => []OneRecoveryNote
<1>1. ASSUME ProjectionInvariant, NEW s \in Sections \ orphaned
      PROVE  Cardinality(copies[s]) <= 1
  <2>1. PICK B \in SUBSET Events : copies[s] \subseteq {B}
    BY <1>1 DEF ProjectionInvariant, CopiesFit
  <2>2. copies[s] = {} \/ copies[s] = {B}
    BY <2>1
  <2>3. Cardinality({B}) = 1 /\ Cardinality({}) = 0
    BY FS_EmptySet, FS_Singleton
  <2>4. CASE copies[s] = {}
    BY <2>3, <2>4
  <2>5. CASE copies[s] = {B}
    BY <2>3, <2>5
  <2> QED BY <2>2, <2>4, <2>5
<1>2. ProjectionInvariant => OneRecoveryNote
  BY <1>1 DEF OneRecoveryNote
<1> QED BY <1>2, ProjectionIsInvariant, PTL

(* What the sections show never goes back, also after retries and restarts  *)
(* (project_job, update_managed_note).                                      *)
THEOREM NotesNeverShowLess == ProjectionSpec => NeverShowsLess
<1>1. ProjectionInvariant /\ [ProjectionNext]_vars =>
        [\A s \in Sections : note[s].body \subseteq note'[s].body]_vars
  BY BodiesGrow DEF ProjectionInvariant
<1> QED BY <1>1, ProjectionIsInvariant, PTL DEF ProjectionSpec, NeverShowsLess

(* When the status card says synced, every event whose trigger reached the  *)
(* queue is in every section it belongs to (status_payload).                *)
THEOREM SyncedCardIsTrue == ProjectionSpec => []SyncedIsTrue
<1>1. ASSUME ProjectionInvariant, SyncStatus = "synced", NEW e \in Triggered
      PROVE  Shown(e)
  <2>1. ActiveConflicts = {} /\ Open = {}
    BY <1>1 DEF SyncStatus
  <2>2. e \in Meant /\ emitter[e] = "told"
    BY DEF Triggered, Meant, Inserted
  <2>3. PICK k \in Jobs : Covers(k, e)
    BY <1>1, <2>2 DEF ProjectionInvariant, WritersFit
  <2>4. jobs[k].status \in {"completed", "conflict"} /\ k \in Ended
    BY <1>1, <2>1 DEF ProjectionInvariant, Typed, Row, Open, Ended
  <2>5. CASE jobs[k].status = "completed"
    BY <2>3, <2>4, <2>5 DEF Covers
  <2>6. CASE jobs[k].status = "conflict"
    <3>1. PICK r \in Jobs : jobs[r].status = "completed" /\ jobs[r].ended > jobs[k].ended
      BY <2>1, <2>6 DEF ActiveConflicts
    <3> QED BY <2>3, <2>4, <3>1 DEF Covers
  <2> QED BY <2>4, <2>5, <2>6
<1>2. ProjectionInvariant => SyncedIsTrue
  BY <1>1 DEF SyncedIsTrue
<1> QED BY <1>2, ProjectionIsInvariant, PTL
============================================================================
