-------------------------- MODULE ClientSyncProofs --------------------------
(***************************************************************************)
(* Theorems about ClientSync for any number of jobs, changes, requests,     *)
(* lost streams and restarts, and any size of the event buffer.             *)
(***************************************************************************)
EXTENDS ClientSync, SequenceLemmas

-----------------------------------------------------------------------------
(* Types *)

Job == [id : JobIds, state : {"unfinished", "done"}]

\* No job is listed twice.
Distinct(list) == \A i, k \in DOMAIN list : i # k => list[i].id # list[k].id

IsList(list) ==
    /\ list \in [revision : Nat, version : Nat, jobs : Seq(Job)]
    /\ Distinct(list.jobs)

IsMessage(msg) ==
    /\ msg.kind \in {"reconnect", "list", "job"}
    /\ msg.kind = "list" => IsList(msg.list)
    /\ msg.kind = "job" => [id |-> msg.id, state |-> msg.state] \in Job

\* A snapshot that was taken, or none yet.
IsSnapshot(s) == s = <<>> \/ (s = <<s[1]>> /\ IsList(s[1]))

IsCall(call) ==
    /\ call = [step |-> call.step, asked |-> call.asked, reply |-> call.reply]
    /\ call.step \in {"refresh", "refreshing", "list"}
    /\ call.asked \in Nat /\ call.asked <= m.received
    /\ IsSnapshot(call.reply)
    /\ call.reply # <<>> => call.step = "list"

IsModel(model) ==
    /\ model \in [received : Nat, listed : Nat, revision : Nat, version : Nat,
                  jobs : Seq(Job), jobSeen : [JobIds -> Nat]]
    /\ model.listed <= model.received
    /\ \A id \in JobIds :
        /\ model.jobSeen[id] <= model.received
        /\ model.jobSeen[id] > 0 => Known(model.jobs, id)
    /\ Distinct(model.jobs)

DaemonTyped ==
    /\ revision \in Nat /\ version \in Nat /\ changes \in Nat /\ restarts \in Nat
    /\ ids \in Nat /\ submitted \in Nat /\ ids <= submitted /\ submitted <= MaxJobs
    /\ jobs \in Seq(Job) /\ Distinct(jobs)
    /\ \A i \in DOMAIN jobs : jobs[i].id <= ids
    /\ posting \subseteq Job
    /\ refresh = [step |-> refresh.step, snapshot |-> refresh.snapshot]
    /\ refresh.step \in {"none", "set", "post"}
    /\ IsSnapshot(refresh.snapshot)
    /\ refresh.step = "post" => refresh.snapshot # <<>>

StreamTyped ==
    /\ open \in BOOLEAN /\ (~ open => ch = <<>>)
    /\ Len(ch) \in Nat /\ Len(ch) <= Buffer
    /\ ch = [i \in 1 .. Len(ch) |-> ch[i]]
    /\ \A i \in 1 .. Len(ch) : IsMessage(ch[i])

ClientTyped ==
    /\ \A call \in calls : IsCall(call)
    /\ IsModel(m)
    /\ heard \in [JobIds -> {"none", "unfinished", "done"}]

Typed == DaemonTyped /\ StreamTyped /\ ClientTyped

-----------------------------------------------------------------------------
(* Revisions: once the client knows that its stream was opened again, it    *)
(* holds nothing newer than the daemon.                                     *)

Replied(call) == call.reply # <<>> /\ InTime(call)

Revisions ==
    /\ \A i \in DOMAIN ch :
        /\ i > 1 => ch[i].kind # "reconnect"
        /\ ch[i].kind = "list" => ch[i].list.revision <= revision
    /\ refresh.snapshot # <<>> => refresh.snapshot[1].revision <= revision
    /\ open /\ (ch # <<>> => ch[1].kind # "reconnect") =>
        /\ m.revision <= revision
        /\ \A call \in calls : Replied(call) => call.reply[1].revision <= revision

-----------------------------------------------------------------------------
(* What was heard, while the daemon was not replaced *)

\* The list does not hold the job unfinished.
Over(list, id) == \A i \in DOMAIN list : list[i].id = id => list[i].state = "done"

\* An event tells what the daemon still knows or has passed.
Told(id, state) == id <= ids /\ (state = "done" => Over(jobs, id))

News ==
    /\ \A event \in posting : Told(event.id, event.state)
    /\ \A i \in DOMAIN ch : ch[i].kind = "job" => Told(ch[i].id, ch[i].state)
    /\ \A id \in JobIds : heard[id] # "none" => Told(id, heard[id])

\* A higher revision has the newer connections.
Versions ==
    /\ version = changes
    /\ m.version <= version
    /\ \A i \in DOMAIN ch : ch[i].kind = "list" => ch[i].list.version <= version
    /\ refresh.snapshot # <<>> => refresh.snapshot[1].version <= version
    /\ \A call \in calls : call.reply # <<>> =>
        /\ call.reply[1].revision <= revision /\ call.reply[1].version <= version
        /\ call.reply[1].revision = revision => call.reply[1].version = version
        /\ InTime(call) /\ call.reply[1].revision >= m.revision
            => call.reply[1].version >= m.version
        /\ \A other \in calls :
            other.reply # <<>> /\ call.reply[1].revision >= other.reply[1].revision
                => call.reply[1].version >= other.reply[1].version

\* A reply the client will believe holds the jobs it heard of, unless it heard
\* of them since.
Holds ==
    \A call \in calls : Replied(call) => \A id \in JobIds :
        heard[id] # "none" /\ Known(jobs, id) =>
            m.jobSeen[id] > call.asked \/ Known(call.reply[1].jobs, id)

\* A reply the client will believe does not hold a job unfinished that was
\* heard to be over, unless it heard so since.
Passed ==
    \A call \in calls : Replied(call) => \A id \in JobIds :
        heard[id] = "done" =>
            \/ m.jobSeen[id] > call.asked
            \/ call.reply[1].revision < m.revision
            \/ Over(call.reply[1].jobs, id)

\* What makes up for a mark that a later reply removes: that reply was requested
\* after the event, and its refresh raised the revision above that of a reply
\* that was taken before.
Overtakes(later, call) ==
    \/ later.step = "refresh"
    \/ later.reply = <<>> /\ call.reply[1].revision < revision
    \/ later.reply # <<>> /\ call.reply[1].revision < later.reply[1].revision

Ordered ==
    \A call, later \in calls :
        Replied(call) /\ InTime(later) /\ call.asked < later.asked =>
            \A id \in JobIds : heard[id] = "done" /\ m.jobSeen[id] <= later.asked =>
                \/ call.reply[1].revision < m.revision
                \/ Over(call.reply[1].jobs, id)
                \/ Overtakes(later, call)

History == News /\ Versions /\ Holds /\ Passed /\ Ordered

IInv == Typed /\ Revisions /\ (restarts = 0 => History)

-----------------------------------------------------------------------------
(* The client's lists *)

LEMMA SeqElements ==
    ASSUME NEW S, NEW s \in Seq(S), NEW i \in DOMAIN s
    PROVE  s[i] \in S /\ i \in 1 .. Len(s)
BY ElementOfSeq

\* Subscripts of a concatenation.
LEMMA Concatenated ==
    ASSUME NEW S, NEW s \in Seq(S), NEW t \in Seq(S)
    PROVE  /\ s \o t \in Seq(S)
           /\ \A i \in DOMAIN (s \o t) :
                \/ i \in DOMAIN s /\ (s \o t)[i] = s[i]
                \/ i - Len(s) \in DOMAIN t /\ (s \o t)[i] = t[i - Len(s)]
           /\ \A i \in DOMAIN s : i \in DOMAIN (s \o t) /\ (s \o t)[i] = s[i]
           /\ \A i \in DOMAIN t : /\ i + Len(s) \in DOMAIN (s \o t)
                                  /\ (s \o t)[i + Len(s)] = t[i]
OBVIOUS

\* The jobs of the list keep their places; those with a newer event are the
\* client's own.
LEMMA Merging ==
    ASSUME NEW model, IsModel(model), NEW list, list \in Seq(Job), NEW asked \in Nat,
           NEW merged, merged = MergedJobs(model, list, asked)
    PROVE  /\ merged \in Seq(Job) /\ DOMAIN merged = DOMAIN list
           /\ \A i \in DOMAIN list :
                /\ merged[i].id = list[i].id
                /\ \/ merged[i] = list[i] /\ model.jobSeen[list[i].id] <= asked
                   \/ /\ merged[i] \in JobSet(model.jobs)
                      /\ model.jobSeen[list[i].id] > asked
<1>1. model.jobs \in Seq(Job) /\ model.jobSeen \in [JobIds -> Nat]
  BY DEF IsModel
<1>2. ASSUME NEW i \in DOMAIN list
      PROVE  /\ merged[i] \in Job /\ merged[i].id = list[i].id
             /\ \/ merged[i] = list[i] /\ model.jobSeen[list[i].id] <= asked
                \/ merged[i] \in JobSet(model.jobs) /\ model.jobSeen[list[i].id] > asked
  <2>1. list[i] \in Job /\ list[i].id \in JobIds
    <3>1. list[i] \in Job
      BY SeqElements
    <3> QED
      BY <3>1 DEF Job
  <2>2. model.jobSeen[list[i].id] \in Nat
    BY <1>1, <2>1
  <2> DEFINE own == CHOOSE job \in {model.jobs[k] : k \in DOMAIN model.jobs} :
                        job.id = list[i].id
  <2>3. CASE /\ model.jobSeen[list[i].id] > asked
             /\ Known(model.jobs, list[i].id)
    <3>1. merged[i] = own
      BY <2>3 DEF MergedJobs
    <3>2. PICK k \in DOMAIN model.jobs : model.jobs[k].id = list[i].id
      BY <2>3 DEF Known
    <3>3. own \in {model.jobs[n] : n \in DOMAIN model.jobs} /\ own.id = list[i].id
      BY <3>2
    <3>4. own \in JobSet(model.jobs)
      BY <3>3 DEF JobSet
    <3>5. own \in Job
      <4>1. PICK n \in DOMAIN model.jobs : own = model.jobs[n]
        BY <3>3
      <4>2. model.jobs[n] \in Job
        BY <1>1, SeqElements
      <4> QED
        BY <4>1, <4>2
    <3> QED
      BY <2>3, <3>1, <3>3, <3>4, <3>5
  <2>4. CASE ~ (/\ model.jobSeen[list[i].id] > asked
                /\ Known(model.jobs, list[i].id))
    <3>1. merged[i] = list[i]
      BY <2>4 DEF MergedJobs
    <3>2. model.jobSeen[list[i].id] <= asked
      BY <2>1, <2>2, <2>4 DEF IsModel
    <3> QED
      BY <2>1, <3>1, <3>2
  <2> QED
    BY <2>3, <2>4
<1>3. DOMAIN merged = DOMAIN list
  BY DEF MergedJobs
<1>4. merged \in [1 .. Len(list) -> Job]
  <2>1. DOMAIN list = 1 .. Len(list)
    OBVIOUS
  <2>2. merged = [i \in 1 .. Len(list) |-> merged[i]]
    BY <2>1 DEF MergedJobs
  <2> QED
    BY <1>2, <2>1, <2>2
<1>5. merged \in Seq(Job)
  BY <1>4, SeqDef
<1> QED
  BY <1>2, <1>3, <1>5

\* What is kept over a list.
LEMMA Keeping ==
    ASSUME NEW model, IsModel(model), NEW list, NEW asked \in Nat,
           NEW kept, kept = KeptJobs(model, list, asked)
    PROVE  /\ kept \in Seq(Job) /\ Distinct(kept)
           /\ \A n \in DOMAIN kept :
                /\ kept[n] \in JobSet(model.jobs)
                /\ model.jobSeen[kept[n].id] > asked /\ ~ Known(list, kept[n].id)
           /\ \A k \in DOMAIN model.jobs :
                model.jobSeen[model.jobs[k].id] > asked /\ ~ Known(list, model.jobs[k].id)
                    => Known(kept, model.jobs[k].id)
<1> DEFINE P == {i \in DOMAIN model.jobs :
                    /\ model.jobSeen[model.jobs[i].id] > asked
                    /\ ~ Known(list, model.jobs[i].id)}
<1>1. model.jobs \in Seq(Job) /\ P \subseteq DOMAIN model.jobs /\ kept = At(model.jobs, P)
  BY DEF IsModel, KeptJobs
<1>2. /\ kept \in Seq(Job)
      /\ \A n \in DOMAIN kept : Nth(P, n) \in P /\ kept[n] = model.jobs[Nth(P, n)]
      /\ \A i \in P : \E n \in DOMAIN kept : kept[n] = model.jobs[i]
      /\ \A i, n \in DOMAIN kept : Nth(P, i) = Nth(P, n) => i = n
  <2> HIDE DEF P
  <2> QED
    BY <1>1, AtKeeps
<1>3. Distinct(kept)
  <2>1. \A i, n \in DOMAIN kept : i # n => Nth(P, i) # Nth(P, n)
    BY <1>2
  <2>2. \A i, n \in P : i # n => model.jobs[i].id # model.jobs[n].id
    BY DEF IsModel, Distinct
  <2> HIDE DEF P
  <2> QED
    BY <1>2, <2>1, <2>2 DEF Distinct
<1>4. \A n \in DOMAIN kept : kept[n] \in JobSet(model.jobs)
  BY <1>2 DEF JobSet
<1>5. \A k \in DOMAIN model.jobs :
        model.jobSeen[model.jobs[k].id] > asked /\ ~ Known(list, model.jobs[k].id)
            => Known(kept, model.jobs[k].id)
  BY <1>2 DEF Known
<1> QED
  BY <1>2, <1>3, <1>4, <1>5

\* What forgetOutputs leaves of a client's marks.
LEMMA Forgetting ==
    ASSUME NEW model, DOMAIN model = {"received", "listed", "revision", "version", "jobs", "jobSeen"},
           model.jobSeen \in [JobIds -> Nat],
           NEW r, r = Forget(model)
    PROVE  /\ r.received = model.received /\ r.listed = model.listed
           /\ r.revision = model.revision /\ r.version = model.version
           /\ r.jobs = model.jobs
           /\ r.jobSeen \in [JobIds -> Nat]
           /\ \A id \in JobIds :
                r.jobSeen[id] = IF Known(model.jobs, id) THEN model.jobSeen[id] ELSE 0
<1> DEFINE seen == [id \in JobIds |-> IF Known(model.jobs, id) THEN model.jobSeen[id] ELSE 0]
<1>1. r = [model EXCEPT !.jobSeen = seen]
  BY DEF Forget
<1>2. seen \in [JobIds -> Nat]
  OBVIOUS
<1>3. \A id \in JobIds : seen[id] = IF Known(model.jobs, id) THEN model.jobSeen[id] ELSE 0
  OBVIOUS
<1> HIDE DEF seen
<1>4. r.jobSeen = seen
  BY <1>1
<1> QED
  BY <1>1, <1>2, <1>3, <1>4

\* A list that is not older than the one before: it is merged with what the
\* client heard after asked.
LEMMA Applying ==
    ASSUME NEW model, IsModel(model), NEW list, IsList(list), NEW asked \in Nat,
           list.revision >= model.revision,
           NEW r, r = ApplyList(model, list, asked)
    PROVE  /\ IsModel(r)
           /\ r.received = model.received /\ r.listed = model.listed
           /\ r.revision = list.revision /\ r.version = list.version
           /\ \A id \in JobIds :
                /\ r.jobSeen[id] # model.jobSeen[id] =>
                    r.jobSeen[id] = 0 /\ model.jobSeen[id] <= asked /\ ~ Known(list.jobs, id)
           /\ \A id : Known(list.jobs, id) => Known(r.jobs, id)
           /\ \A id \in JobIds : model.jobSeen[id] > asked => Known(r.jobs, id)
           /\ \A i \in DOMAIN r.jobs :
                \/ /\ r.jobs[i] \in JobSet(model.jobs)
                   /\ model.jobSeen[r.jobs[i].id] > asked
                \/ /\ r.jobs[i] \in JobSet(list.jobs)
                   /\ model.jobSeen[r.jobs[i].id] <= asked
           /\ \A k \in DOMAIN list.jobs :
                model.jobSeen[list.jobs[k].id] <= asked => list.jobs[k] \in JobSet(r.jobs)
<1> DEFINE merged == MergedJobs(model, list.jobs, asked)
           kept == KeptJobs(model, list.jobs, asked)
           all == merged \o kept
           next == [model EXCEPT !.revision = list.revision, !.version = list.version,
                                 !.jobs = all]
<1>1. /\ model \in [received : Nat, listed : Nat, revision : Nat, version : Nat,
                    jobs : Seq(Job), jobSeen : [JobIds -> Nat]]
      /\ model.jobs \in Seq(Job) /\ Distinct(model.jobs)
      /\ \A id \in JobIds : /\ model.jobSeen[id] \in Nat
                            /\ model.jobSeen[id] > 0 => Known(model.jobs, id)
  BY DEF IsModel
<1>2. list.jobs \in Seq(Job) /\ Distinct(list.jobs) /\ list.revision \in Nat /\ list.version \in Nat
  BY DEF IsList
<1>3. /\ merged \in Seq(Job) /\ DOMAIN merged = DOMAIN list.jobs
      /\ \A i \in DOMAIN list.jobs :
            /\ merged[i].id = list.jobs[i].id
            /\ \/ merged[i] = list.jobs[i] /\ model.jobSeen[list.jobs[i].id] <= asked
               \/ merged[i] \in JobSet(model.jobs) /\ model.jobSeen[list.jobs[i].id] > asked
  BY <1>2, Merging
<1>4. /\ kept \in Seq(Job) /\ Distinct(kept)
      /\ \A n \in DOMAIN kept :
            /\ kept[n] \in JobSet(model.jobs)
            /\ model.jobSeen[kept[n].id] > asked /\ ~ Known(list.jobs, kept[n].id)
      /\ \A k \in DOMAIN model.jobs :
            model.jobSeen[model.jobs[k].id] > asked /\ ~ Known(list.jobs, model.jobs[k].id)
                => Known(kept, model.jobs[k].id)
  BY Keeping
<1>5. r = Forget(next)
  BY DEF ApplyList, IsList, IsModel
<1> HIDE DEF merged, kept
<1>6. /\ all \in Seq(Job)
      /\ \A i \in DOMAIN all :
            \/ i \in DOMAIN merged /\ all[i] = merged[i]
            \/ i - Len(merged) \in DOMAIN kept /\ all[i] = kept[i - Len(merged)]
      /\ \A i \in DOMAIN merged : i \in DOMAIN all /\ all[i] = merged[i]
      /\ \A i \in DOMAIN kept : /\ i + Len(merged) \in DOMAIN all
                                /\ all[i + Len(merged)] = kept[i]
  BY <1>3, <1>4, Concatenated
<1> HIDE DEF all
<1>7. /\ DOMAIN next = {"received", "listed", "revision", "version", "jobs", "jobSeen"}
      /\ next.jobSeen = model.jobSeen /\ next.jobs = all
      /\ next.received = model.received /\ next.listed = model.listed
      /\ next.revision = list.revision /\ next.version = list.version
  BY <1>1
<1> HIDE DEF next
<1>8. /\ r.received = model.received /\ r.listed = model.listed
      /\ r.revision = list.revision /\ r.version = list.version
      /\ r.jobs = all /\ r.jobSeen \in [JobIds -> Nat]
      /\ \A id \in JobIds :
            r.jobSeen[id] = IF Known(all, id) THEN model.jobSeen[id] ELSE 0
      /\ r \in [received : Nat, listed : Nat, revision : Nat, version : Nat,
                jobs : Seq(Job), jobSeen : [JobIds -> Nat]]
  <2>1. next.jobSeen \in [JobIds -> Nat]
    BY <1>1, <1>7
  <2>2. /\ r.received = next.received /\ r.listed = next.listed
        /\ r.revision = next.revision /\ r.version = next.version
        /\ r.jobs = next.jobs
        /\ r.jobSeen \in [JobIds -> Nat]
        /\ \A id \in JobIds :
            r.jobSeen[id] = IF Known(next.jobs, id) THEN next.jobSeen[id] ELSE 0
    BY <1>5, <1>7, <2>1, Forgetting
  <2>3. r = [next EXCEPT !.jobSeen = r.jobSeen]
    BY <1>5, <1>7 DEF Forget
  <2>4. next \in [received : Nat, listed : Nat, revision : Nat, version : Nat,
                jobs : Seq(Job), jobSeen : [JobIds -> Nat]]
    BY <1>1, <1>2, <1>6 DEF next
  <2>5. r \in [received : Nat, listed : Nat, revision : Nat, version : Nat,
                jobs : Seq(Job), jobSeen : [JobIds -> Nat]]
    BY <2>2, <2>3, <2>4
  <2> QED
    BY <1>7, <2>2, <2>5
<1>9. \A id : Known(list.jobs, id) => Known(all, id)
  BY <1>3, <1>6 DEF Known
<1>10. \A id : Known(kept, id) => Known(all, id)
  BY <1>6 DEF Known
<1>11. \A id \in JobIds : model.jobSeen[id] > asked => Known(all, id)
  <2> SUFFICES ASSUME NEW id \in JobIds, model.jobSeen[id] > asked PROVE Known(all, id)
    OBVIOUS
  <2>1. Known(model.jobs, id)
    BY <1>1
  <2>2. PICK k \in DOMAIN model.jobs : model.jobs[k].id = id
    BY <2>1 DEF Known
  <2> QED
    BY <1>4, <1>9, <1>10, <2>2
<1>12. ASSUME NEW i \in DOMAIN all
       PROVE  \/ all[i] \in JobSet(model.jobs) /\ model.jobSeen[all[i].id] > asked
              \/ all[i] \in JobSet(list.jobs) /\ model.jobSeen[all[i].id] <= asked
  <2>1. CASE i \in DOMAIN merged /\ all[i] = merged[i]
    BY <1>3, <2>1 DEF JobSet
  <2>2. CASE i - Len(merged) \in DOMAIN kept /\ all[i] = kept[i - Len(merged)]
    BY <1>4, <2>2
  <2> QED
    BY <1>6, <2>1, <2>2
<1>13. ASSUME NEW k \in DOMAIN list.jobs, model.jobSeen[list.jobs[k].id] <= asked
       PROVE  list.jobs[k] \in JobSet(all)
  <2>1. list.jobs[k].id \in JobIds
    <3>1. list.jobs[k] \in Job
      BY <1>2, SeqElements
    <3> QED
      BY <3>1 DEF Job
  <2>2. ~ (model.jobSeen[list.jobs[k].id] > asked)
    BY <1>1, <1>13, <2>1
  <2>3. merged[k] = list.jobs[k] /\ k \in DOMAIN all /\ all[k] = merged[k]
    BY <1>3, <1>6, <2>2
  <2> QED
    BY <2>3 DEF JobSet
<1>14. Distinct(all)
  <2> SUFFICES ASSUME NEW i \in DOMAIN all, NEW k \in DOMAIN all, i # k
               PROVE  all[i].id # all[k].id
    BY DEF Distinct
  <2>1. CASE i \in DOMAIN merged /\ k \in DOMAIN merged
    BY <1>2, <1>3, <1>6, <2>1 DEF Distinct
  <2>2. ASSUME NEW a \in DOMAIN all, NEW b \in DOMAIN all,
               a \in DOMAIN merged, b \notin DOMAIN merged
        PROVE  all[a].id # all[b].id
    <3>1. Known(list.jobs, all[a].id)
      BY <1>3, <1>6, <2>2 DEF Known
    <3>2. ~ Known(list.jobs, all[b].id)
      BY <1>4, <1>6, <2>2
    <3> QED
      BY <3>1, <3>2
  <2>3. CASE i \notin DOMAIN merged /\ k \notin DOMAIN merged
    <3>1. /\ i - Len(merged) \in DOMAIN kept /\ all[i] = kept[i - Len(merged)]
          /\ k - Len(merged) \in DOMAIN kept /\ all[k] = kept[k - Len(merged)]
      BY <1>6, <2>3
    <3>2. i \in Nat /\ k \in Nat /\ Len(merged) \in Nat
      BY <1>3, <1>6
    <3>3. i - Len(merged) # k - Len(merged)
      BY <3>2
    <3> QED
      BY <1>4, <3>1, <3>3 DEF Distinct
  <2> QED
    BY <2>1, <2>2, <2>3
<1>15. IsModel(r)
  <2>1. r.listed <= r.received
    BY <1>8 DEF IsModel
  <2>2. ASSUME NEW id \in JobIds
        PROVE  r.jobSeen[id] <= r.received /\ (r.jobSeen[id] > 0 => Known(r.jobs, id))
    <3>1. model.jobSeen[id] <= model.received /\ model.received \in Nat /\ model.jobSeen[id] \in Nat
      BY <1>1 DEF IsModel
    <3> QED
      BY <1>8, <3>1
  <2> QED
    BY <1>8, <1>14, <2>1, <2>2 DEF IsModel
<1>16. ASSUME NEW id \in JobIds, r.jobSeen[id] # model.jobSeen[id]
       PROVE  r.jobSeen[id] = 0 /\ model.jobSeen[id] <= asked /\ ~ Known(list.jobs, id)
  <2>1. ~ Known(all, id)
    BY <1>8, <1>16
  <2>2. model.jobSeen[id] \in Nat
    BY <1>1
  <2> QED
    BY <1>8, <1>9, <1>11, <2>1, <2>2
<1> QED
  BY <1>8, <1>9, <1>11, <1>12, <1>13, <1>15, <1>16

\* The model with a message counted that is about a job.
IsMarked(marked, model, id) ==
    /\ marked \in [received : Nat, listed : Nat, revision : Nat, version : Nat,
                   jobs : Seq(Job), jobSeen : [JobIds -> Nat]]
    /\ marked.received = model.received + 1 /\ marked.listed = model.listed
    /\ marked.revision = model.revision /\ marked.version = model.version
    /\ marked.jobs = model.jobs
    /\ \A other \in JobIds : marked.jobSeen[other] =
            IF other = id THEN model.received + 1 ELSE model.jobSeen[other]

\* A job event: the client's next message.
LEMMA Hearing ==
    ASSUME NEW model, IsModel(model), NEW job \in Job,
           NEW marked,
           IsMarked(marked, model, job.id),
           NEW r, r = MergeJob(marked, job)
    PROVE  /\ IsModel(r)
           /\ r.received = model.received + 1 /\ r.listed = model.listed
           /\ r.revision = model.revision /\ r.version = model.version
           /\ \A id \in JobIds : r.jobSeen[id] =
                IF id = job.id THEN model.received + 1 ELSE model.jobSeen[id]
<1> DEFINE seen == marked.jobSeen
           all == IF Known(model.jobs, job.id)
                  THEN [i \in DOMAIN model.jobs |->
                            IF model.jobs[i].id = job.id THEN job ELSE model.jobs[i]]
                  ELSE Append(model.jobs, job)
           next == [marked EXCEPT !.jobs = all]
<1>1. /\ model \in [received : Nat, listed : Nat, revision : Nat, version : Nat,
                    jobs : Seq(Job), jobSeen : [JobIds -> Nat]]
      /\ model.jobs \in Seq(Job) /\ Distinct(model.jobs)
      /\ model.listed <= model.received
      /\ \A id \in JobIds : /\ model.jobSeen[id] \in Nat
                            /\ model.jobSeen[id] <= model.received
                            /\ model.jobSeen[id] > 0 => Known(model.jobs, id)
  BY DEF IsModel
<1>2. job.id \in JobIds
  BY DEF Job
<1>3. /\ all \in Seq(Job)
      /\ Distinct(all)
      /\ \A id : Known(model.jobs, id) \/ id = job.id => Known(all, id)
  <2>1. CASE Known(model.jobs, job.id)
    <3>1. /\ DOMAIN all = DOMAIN model.jobs
          /\ \A i \in DOMAIN all : all[i] = IF model.jobs[i].id = job.id THEN job ELSE model.jobs[i]
      BY <2>1
    <3>2. \A i \in DOMAIN all : all[i] \in Job /\ all[i].id = model.jobs[i].id
      BY <1>1, <3>1, SeqElements
    <3>3. all \in [1 .. Len(model.jobs) -> Job]
      <4>1. DOMAIN model.jobs = 1 .. Len(model.jobs)
        BY <1>1
      <4> QED
        BY <2>1, <3>1, <3>2, <4>1
    <3>4. all \in Seq(Job)
      BY <1>1, <3>3, SeqDef
    <3> QED
      BY <1>1, <2>1, <3>1, <3>2, <3>4 DEF Known, Distinct
  <2>2. CASE ~ Known(model.jobs, job.id)
    <3>1. all = Append(model.jobs, job)
      BY <2>2
    <3>2. /\ all \in Seq(Job) /\ Len(all) = Len(model.jobs) + 1
          /\ \A i \in 1 .. Len(model.jobs) : all[i] = model.jobs[i]
          /\ all[Len(model.jobs) + 1] = job
      BY <1>1, <3>1, AppendProperties
    <3> HIDE DEF all
    <3>3. DOMAIN all = 1 .. Len(model.jobs) + 1 /\ Len(model.jobs) \in Nat
          /\ DOMAIN model.jobs = 1 .. Len(model.jobs)
      BY <1>1, <3>2
    <3>4. \A i \in DOMAIN model.jobs : model.jobs[i].id # job.id
      BY <2>2 DEF Known
    <3>5. Distinct(all)
      BY <1>1, <3>2, <3>3, <3>4, SMTT(30) DEF Distinct
    <3>6. \A id : Known(model.jobs, id) \/ id = job.id => Known(all, id)
      BY <3>2, <3>3 DEF Known
    <3> QED
      BY <3>2, <3>5, <3>6
  <2> QED
    BY <2>1, <2>2
<1>4. /\ marked \in [received : Nat, listed : Nat, revision : Nat, version : Nat,
                     jobs : Seq(Job), jobSeen : [JobIds -> Nat]]
      /\ marked.received = model.received + 1 /\ marked.listed = model.listed
      /\ marked.revision = model.revision /\ marked.version = model.version
      /\ marked.jobs = model.jobs /\ marked.jobSeen = seen
  BY DEF IsMarked
<1>5. seen \in [JobIds -> Nat]
  BY <1>4
<1>6. \A id \in JobIds : seen[id] = IF id = job.id THEN model.received + 1 ELSE model.jobSeen[id]
  BY DEF IsMarked
<1> HIDE DEF all, seen
<1>7. /\ DOMAIN next = {"received", "listed", "revision", "version", "jobs", "jobSeen"}
      /\ next.jobSeen = seen /\ next.jobs = all
      /\ next.received = model.received + 1 /\ next.listed = model.listed
      /\ next.revision = model.revision /\ next.version = model.version
      /\ next \in [received : Nat, listed : Nat, revision : Nat, version : Nat,
                   jobs : Seq(Job), jobSeen : [JobIds -> Nat]]
      /\ r = Forget(next)
  <2>1. r = Forget(next)
    BY <1>4 DEF MergeJob, all
  <2> QED
    BY <1>3, <1>4, <2>1
<1>8. /\ r.received = next.received /\ r.listed = next.listed
      /\ r.revision = next.revision /\ r.version = next.version
      /\ r.jobs = all /\ r.jobSeen \in [JobIds -> Nat]
      /\ \A id \in JobIds : r.jobSeen[id] = IF Known(all, id) THEN seen[id] ELSE 0
      /\ r = [next EXCEPT !.jobSeen = r.jobSeen]
  <2> HIDE DEF next
  <2>1. next.jobSeen \in [JobIds -> Nat]
    BY <1>5, <1>7
  <2>2. r = [next EXCEPT !.jobSeen = r.jobSeen]
    BY <1>7 DEF Forget
  <2>3. /\ r.received = next.received /\ r.listed = next.listed
        /\ r.revision = next.revision /\ r.version = next.version
        /\ r.jobs = next.jobs /\ r.jobSeen \in [JobIds -> Nat]
        /\ \A id \in JobIds :
            r.jobSeen[id] = IF Known(next.jobs, id) THEN next.jobSeen[id] ELSE 0
    BY <1>7, <2>1, Forgetting
  <2> QED
    BY <1>7, <2>2, <2>3
<1> HIDE DEF next
<1>9. \A id \in JobIds : seen[id] > 0 => Known(all, id)
  BY <1>1, <1>3, <1>6
<1>10. r.jobSeen = seen
  BY <1>5, <1>8, <1>9
<1>11. IsModel(r)
  <2>1. r \in [received : Nat, listed : Nat, revision : Nat, version : Nat,
               jobs : Seq(Job), jobSeen : [JobIds -> Nat]]
    BY <1>7, <1>8
  <2>2. \A id \in JobIds : seen[id] <= model.received + 1
    BY <1>1, <1>6
  <2>3. r.listed <= r.received
    BY <1>1, <1>7, <1>8
  <2> QED
    BY <1>3, <1>7, <1>8, <1>9, <1>10, <2>1, <2>2, <2>3 DEF IsModel
<1> QED
  BY <1>6, <1>7, <1>8, <1>10, <1>11

-----------------------------------------------------------------------------
(* The daemon's steps *)

USE DEF budgets, daemonVars

LEMMA Bounds == MaxJobs \in Nat /\ Buffer \in Nat \ {0}
BY BoundsAssumption

\* Jobs are submitted, and end: nobody else's job gets an earlier state or
\* comes back.
LEMMA JobsMove ==
    ASSUME Typed, JobSubmit \/ \E id \in JobIds : JobFinish(id)
    PROVE  /\ ids' \in Nat /\ ids <= ids' /\ submitted' \in Nat /\ ids' <= submitted'
           /\ submitted' <= MaxJobs
           /\ jobs' \in Seq(Job) /\ Distinct(jobs)'
           /\ \A i \in DOMAIN jobs' : jobs'[i].id <= ids'
           /\ \A id \in JobIds : id <= ids /\ Over(jobs, id) => Over(jobs, id)'
           /\ \A id \in JobIds : id <= ids /\ Known(jobs, id)' => Known(jobs, id)
           /\ \E job \in Job : /\ posting' = posting \cup {job}
                               /\ Told(job.id, job.state)'
           /\ UNCHANGED <<revision, version, refresh, ch, open, calls, m, heard, changes,
                          requests, losses, restarts>>
<1> USE Bounds DEF Typed, DaemonTyped
<1>1. CASE JobSubmit
  <2>0. PICK job : job = [id |-> ids + 1, state |-> "unfinished"]
    OBVIOUS
  <2>1. /\ submitted < MaxJobs /\ submitted' = submitted + 1 /\ ids' = ids + 1
        /\ jobs' = Append(jobs, job) /\ posting' = posting \cup {job}
        /\ UNCHANGED <<revision, version, refresh, ch, open, calls, m, heard, changes,
                       requests, losses, restarts>>
    BY <1>1, <2>0 DEF JobSubmit, JobUpdate
  <2>2. job \in Job
    BY <2>0, <2>1 DEF Job, JobIds
  <2>3. /\ jobs' \in Seq(Job) /\ Len(jobs') = Len(jobs) + 1
        /\ \A i \in 1 .. Len(jobs) : jobs'[i] = jobs[i]
        /\ jobs'[Len(jobs) + 1] = job
    BY <2>1, <2>2, AppendProperties
  <2>4. /\ DOMAIN jobs = 1 .. Len(jobs) /\ Len(jobs) \in Nat
        /\ DOMAIN jobs' = 1 .. Len(jobs) + 1
    BY <2>3
  <2>5. job.id = ids + 1 /\ job.state = "unfinished"
    BY <2>0
  <2>6. \A i \in DOMAIN jobs : jobs[i].id \in Nat
    <3>1. ASSUME NEW i \in DOMAIN jobs PROVE jobs[i].id \in Nat
      <4>1. jobs[i] \in Job
        BY <3>1, SeqElements
      <4> QED
        BY <4>1 DEF Job, JobIds
    <3> QED
      BY <3>1
  <2>7. Distinct(jobs)' /\ \A i \in DOMAIN jobs' : jobs'[i].id <= ids'
    <3>1. /\ ids \in Nat /\ ids' = ids + 1
          /\ \A i \in DOMAIN jobs : jobs[i].id <= ids
      BY <2>1
    <3>2. ASSUME NEW i \in DOMAIN jobs'
          PROVE  \/ i \in DOMAIN jobs /\ jobs'[i] = jobs[i]
                 \/ i = Len(jobs) + 1 /\ jobs'[i].id = ids + 1
      BY <2>3, <2>4, <2>5
    <3>3. \A i \in DOMAIN jobs' : jobs'[i].id <= ids'
      BY <2>6, <3>1, <3>2
    <3>4. ASSUME NEW i \in DOMAIN jobs', NEW k \in DOMAIN jobs', jobs'[i].id = jobs'[k].id
          PROVE  i = k
      BY <2>6, <3>1, <3>2, <3>4 DEF Distinct
    <3> QED
      BY <3>3, <3>4 DEF Distinct
  <2>8. ASSUME NEW id \in JobIds, id <= ids
        PROVE  /\ Over(jobs, id) => Over(jobs, id)'
               /\ Known(jobs, id)' => Known(jobs, id)
    BY <2>1, <2>3, <2>4, <2>5, <2>8, SMTT(30) DEF Over, Known, JobIds
  <2>9. Told(job.id, job.state)'
    BY <2>1, <2>5 DEF Told
  <2> QED
    BY <2>1, <2>2, <2>3, <2>7, <2>8, <2>9, SMTT(30)
<1>2. ASSUME NEW id \in JobIds, JobFinish(id)
      PROVE  /\ jobs' \in Seq(Job) /\ Distinct(jobs)'
             /\ \A i \in DOMAIN jobs' :
                    jobs'[i] = [id |-> id, state |-> "done"]
                    \/ \E k \in DOMAIN jobs : jobs'[i] = jobs[k]
             /\ \A i \in DOMAIN jobs' : jobs'[i].id = id => jobs'[i].state = "done"
             /\ \E k \in DOMAIN jobs : jobs[k].id = id
             /\ posting' = posting \cup {[id |-> id, state |-> "done"]}
             /\ UNCHANGED <<revision, version, ids, refresh, ch, open, calls, m, heard,
                            submitted, changes, requests, losses, restarts>>
  <2> DEFINE job == [id |-> id, state |-> "done"]
             P == {i \in DOMAIN jobs : jobs[i].id = id \/ ~ Finished(jobs[i])}
             kept == At(jobs, P)
             all == [i \in DOMAIN kept |-> IF kept[i].id = id THEN job ELSE kept[i]]
  <2>1. jobs' = all
    BY <1>2 DEF JobFinish, JobUpdate
  <2>2. /\ kept \in Seq(Job)
        /\ \A n \in DOMAIN kept : Nth(P, n) \in P /\ kept[n] = jobs[Nth(P, n)]
        /\ \A i, n \in DOMAIN kept : Nth(P, i) = Nth(P, n) => i = n
    <3> P \subseteq DOMAIN jobs
      OBVIOUS
    <3> HIDE DEF P
    <3> QED
      BY AtKeeps
  <2>3. P \subseteq DOMAIN jobs /\ job \in Job /\ job.id = id /\ job.state = "done"
    BY DEF Job
  <2> HIDE DEF P, kept, job
  <2>4. /\ DOMAIN all = DOMAIN kept
        /\ \A i \in DOMAIN kept : all[i] = IF kept[i].id = id THEN job ELSE kept[i]
        /\ \A i \in DOMAIN kept : all[i].id = kept[i].id
    BY <2>3
  <2>5. all \in Seq(Job)
    <3>1. \A i \in DOMAIN kept : all[i] \in Job
      BY <2>2, <2>3, <2>4, SeqElements
    <3>2. DOMAIN kept = 1 .. Len(kept) /\ Len(kept) \in Nat
      BY <2>2
    <3>3. all \in [1 .. Len(kept) -> Job]
      BY <3>1, <3>2
    <3> QED
      BY <3>2, <3>3, SeqDef
  <2>6. Distinct(all)
    <3>1. \A i, k \in DOMAIN kept : i # k => Nth(P, i) # Nth(P, k)
      BY <2>2
    <3>2. \A i, k \in P : i # k => jobs[i].id # jobs[k].id
      BY <2>3 DEF Distinct
    <3>3. \A i \in DOMAIN kept : Nth(P, i) \in P /\ kept[i] = jobs[Nth(P, i)]
      BY <2>2
    <3> HIDE DEF all
    <3>4. \A i, k \in DOMAIN kept : i # k => kept[i].id # kept[k].id
      BY <3>1, <3>2, <3>3
    <3> QED
      BY <2>4, <3>4 DEF Distinct
  <2>7. ASSUME NEW i \in DOMAIN all
        PROVE  /\ all[i] = job \/ \E k \in DOMAIN jobs : all[i] = jobs[k]
               /\ all[i].id = id => all[i].state = "done"
    <3> HIDE DEF all
    <3> QED
      BY <2>2, <2>3, <2>4
  <2> HIDE DEF all
  <2>8. /\ \E k \in DOMAIN jobs : jobs[k].id = id
        /\ posting' = posting \cup {job}
        /\ UNCHANGED <<revision, version, ids, refresh, ch, open, calls, m, heard,
                       submitted, changes, requests, losses, restarts>>
    BY <1>2 DEF JobFinish, JobUpdate, job
  <2>9. Distinct(jobs)'
    BY <2>1, <2>6 DEF Distinct
  <2> QED
    BY <2>1, <2>5, <2>7, <2>8, <2>9 DEF job
<1>3. ASSUME NEW id \in JobIds, JobFinish(id)
      PROVE  /\ \A i \in DOMAIN jobs' : jobs'[i].id <= ids'
             /\ \A other : Over(jobs, other) => Over(jobs, other)'
             /\ \A other : Known(jobs, other)' => Known(jobs, other)
             /\ [id |-> id, state |-> "done"] \in Job
             /\ Told(id, "done")'
  <2>1. PICK k \in DOMAIN jobs : jobs[k].id = id
    BY <1>2, <1>3
  <2>2. id <= ids
    BY <2>1
  <2>3. \A i \in DOMAIN jobs' :
            \/ jobs'[i].id = id /\ jobs'[i].state = "done"
            \/ \E n \in DOMAIN jobs : jobs'[i] = jobs[n]
    BY <1>2, <1>3
  <2>4. \A i \in DOMAIN jobs' : jobs'[i].id <= ids'
    BY <1>2, <1>3, <2>2, <2>3
  <2>5. \A other : Over(jobs, other) => Over(jobs, other)'
    BY <2>3 DEF Over
  <2>6. \A other : Known(jobs, other)' => Known(jobs, other)
    BY <2>1, <2>3 DEF Known
  <2>7. Told(id, "done")'
    BY <1>2, <1>3, <2>2 DEF Told, Over
  <2> QED
    BY <2>4, <2>5, <2>6, <2>7 DEF Job
<1>4. ASSUME NEW id \in JobIds, JobFinish(id)
      PROVE  \E job \in Job : posting' = posting \cup {job} /\ Told(job.id, job.state)'
  <2> DEFINE job == [id |-> id, state |-> "done"]
  <2>1. job \in Job /\ job.id = id /\ job.state = "done"
    BY <1>3, <1>4
  <2>2. posting' = posting \cup {job} /\ Told(id, "done")'
    BY <1>2, <1>3, <1>4
  <2> HIDE DEF job
  <2>3. Told(job.id, job.state)'
    BY <2>1, <2>2
  <2> QED
    BY <2>1, <2>2, <2>3
<1>5. ASSUME NEW id \in JobIds, JobFinish(id) PROVE ids' = ids /\ submitted' = submitted
  BY <1>2, <1>5
<1>6. CASE \E id \in JobIds : JobFinish(id)
  <2>1. PICK id \in JobIds : JobFinish(id)
    BY <1>6
  <2>2. ids' = ids /\ submitted' = submitted
    BY <1>5, <2>1
  <2>3. /\ jobs' \in Seq(Job) /\ Distinct(jobs)'
        /\ UNCHANGED <<revision, version, refresh, ch, open, calls, m, heard, changes,
                       requests, losses, restarts>>
    BY <1>2, <2>1
  <2>4. /\ \A i \in DOMAIN jobs' : jobs'[i].id <= ids'
        /\ \A other : Over(jobs, other) => Over(jobs, other)'
        /\ \A other : Known(jobs, other)' => Known(jobs, other)
    BY <1>3, <2>1
  <2>5. \E job \in Job : posting' = posting \cup {job} /\ Told(job.id, job.state)'
    BY <1>4, <2>1
  <2> QED
    BY <2>2, <2>3, <2>4, <2>5
<1> QED
  BY <1>1, <1>6

LEMMA JobsKeep ==
    ASSUME IInv, JobSubmit \/ \E id \in JobIds : JobFinish(id)
    PROVE  IInv'
<1> USE DEF IInv
<1>1. /\ ids' \in Nat /\ ids <= ids' /\ submitted' \in Nat /\ ids' <= submitted'
      /\ submitted' <= MaxJobs
      /\ jobs' \in Seq(Job) /\ Distinct(jobs)'
      /\ \A i \in DOMAIN jobs' : jobs'[i].id <= ids'
      /\ \A id \in JobIds : id <= ids /\ Over(jobs, id) => Over(jobs, id)'
      /\ \A id \in JobIds : id <= ids /\ Known(jobs, id)' => Known(jobs, id)
      /\ UNCHANGED <<revision, version, refresh, ch, open, calls, m, heard, changes,
                     requests, losses, restarts>>
  BY JobsMove
<1>2. PICK job \in Job : posting' = posting \cup {job} /\ Told(job.id, job.state)'
  BY JobsMove
<1>3. Typed'
  <2>1. DaemonTyped'
    BY <1>1, <1>2 DEF Typed, DaemonTyped
  <2>2. StreamTyped'
    BY <1>1 DEF Typed, StreamTyped
  <2>3. ClientTyped'
    BY <1>1 DEF Typed, ClientTyped, IsCall
  <2> QED
    BY <2>1, <2>2, <2>3 DEF Typed
<1>4. Revisions'
  BY <1>1 DEF Revisions, Replied, InTime
<1>5. ASSUME History PROVE History'
  <2>1. \A id \in JobIds : \A state : Told(id, state) => Told(id, state)'
    <3> SUFFICES ASSUME NEW id \in JobIds, NEW state, Told(id, state) PROVE Told(id, state)'
      OBVIOUS
    <3>1. id <= ids /\ id \in Nat /\ ids \in Nat
      BY Bounds DEF Told, JobIds, Typed, DaemonTyped
    <3> QED
      BY <1>1, <3>1 DEF Told
  <2>2. News'
    <3>1. \A event \in posting : event.id \in JobIds
      BY DEF Typed, DaemonTyped, Job
    <3>2. \A i \in DOMAIN ch : ch[i].kind = "job" => ch[i].id \in JobIds
      BY DEF Typed, StreamTyped, IsMessage, Job
    <3>3. \A event \in posting' : Told(event.id, event.state)'
      BY <1>2, <1>5, <2>1, <3>1 DEF History, News
    <3>4. \A i \in DOMAIN ch' : ch'[i].kind = "job" => Told(ch[i].id, ch[i].state)'
      BY <1>1, <1>5, <2>1, <3>2 DEF History, News
    <3>5. \A id \in JobIds : heard'[id] # "none" => Told(id, heard[id])'
      <4> SUFFICES ASSUME NEW id \in JobIds, heard[id] # "none" PROVE Told(id, heard[id])'
        BY <1>1
      <4>1. PICK state : state = heard[id]
        OBVIOUS
      <4>2. Told(id, state)'
        BY <1>5, <2>1, <4>1 DEF History, News
      <4> QED
        BY <1>1, <4>1, <4>2
    <3> QED
      BY <3>3, <3>4, <3>5 DEF News
  <2>3. Versions'
    BY <1>1, <1>5 DEF History, Versions, InTime
  <2>4. Holds'
    <3> SUFFICES ASSUME NEW call \in calls, Replied(call), NEW id \in JobIds,
                        heard[id] # "none", Known(jobs, id)'
                 PROVE  m.jobSeen[id] > call.asked \/ Known(call.reply[1].jobs, id)
      BY <1>1 DEF Holds, Replied, InTime, Known
    <3>1. id <= ids
      BY <1>5 DEF History, News, Told
    <3> QED
      BY <1>1, <1>5, <3>1 DEF History, Holds
  <2>5. Passed'
    BY <1>1, <1>5 DEF History, Passed, Replied, InTime, Over
  <2>6. Ordered'
    BY <1>1, <1>5 DEF History, Ordered, Replied, InTime, Over, Overtakes
  <2> QED
    BY <2>2, <2>3, <2>4, <2>5, <2>6 DEF History
<1> QED
  BY <1>1, <1>3, <1>4, <1>5

-----------------------------------------------------------------------------
(* Events and snapshots *)

LEMMA Posting ==
    ASSUME StreamTyped, NEW event, IsMessage(event), event.kind # "reconnect",
           Broadcast(event), open' = open
    PROVE  /\ StreamTyped'
           /\ \A i \in DOMAIN ch' : \/ i \in DOMAIN ch /\ ch'[i] = ch[i]
                                    \/ ch'[i] = event
           /\ ch # <<>> => ch'[1] = ch[1] /\ ch' # <<>>
           /\ ch = <<>> /\ ch' # <<>> => ch'[1] = event
<1> DEFINE S == {ch[i] : i \in 1 .. Len(ch)} \cup {event}
<1>1. ch \in Seq(S) /\ event \in S
  BY SeqDef DEF StreamTyped
<1> HIDE DEF S
<1>2. CASE open /\ Len(ch) < Buffer
  <2>1. ch' = Append(ch, event)
    BY <1>2 DEF Broadcast
  <2>2. /\ ch' \in Seq(S) /\ Len(ch') = Len(ch) + 1
        /\ \A i \in 1 .. Len(ch) : ch'[i] = ch[i]
        /\ ch'[Len(ch) + 1] = event
    BY <1>1, <2>1, AppendProperties
  <2>3. /\ DOMAIN ch = 1 .. Len(ch) /\ Len(ch) \in Nat /\ DOMAIN ch' = 1 .. Len(ch) + 1
        /\ Len(ch') \in Nat
        /\ ch' = [i \in 1 .. Len(ch') |-> ch'[i]]
    BY <1>1, <2>2
  <2>4. \A i \in 1 .. Len(ch') : IsMessage(ch'[i])
    <3> SUFFICES ASSUME NEW i \in 1 .. Len(ch') PROVE IsMessage(ch'[i])
      OBVIOUS
    <3>1. CASE i \in 1 .. Len(ch)
      BY <2>2, <3>1 DEF StreamTyped
    <3>2. CASE i = Len(ch) + 1
      BY <2>2, <3>2
    <3> QED
      BY <2>2, <2>3, <3>1, <3>2
  <2>5. Len(ch') <= Buffer
    BY <1>2, <2>2, <2>3, Bounds
  <2>6. StreamTyped'
    BY <1>2, <2>3, <2>4, <2>5 DEF StreamTyped
  <2>7. ch # <<>> => Len(ch) # 0
    BY <1>1
  <2>8. ch = <<>> => Len(ch) = 0
    OBVIOUS
  <2> QED
    BY <2>2, <2>3, <2>6, <2>7, <2>8
<1>3. CASE ~ (open /\ Len(ch) < Buffer)
  BY <1>3 DEF Broadcast, StreamTyped
<1> QED
  BY <1>2, <1>3

LEMMA PostKeeps ==
    ASSUME IInv, NEW id \in JobIds, JobPost(id)
    PROVE  IInv'
<1> USE DEF IInv
<1>1. PICK event \in posting :
        /\ event.id = id
        /\ Broadcast([kind |-> "job", id |-> id, state |-> event.state])
        /\ posting' = posting \ {event}
  BY DEF JobPost
<1>2. PICK msg : msg = [kind |-> "job", id |-> id, state |-> event.state]
  OBVIOUS
<1>3. /\ Broadcast(msg) /\ msg.kind = "job" /\ msg.id = event.id /\ msg.state = event.state
      /\ IsMessage(msg)
  BY <1>1, <1>2 DEF IsMessage, Typed, DaemonTyped, Job
<1>4. UNCHANGED <<revision, version, ids, jobs, refresh, open, calls, m, heard, budgets>>
  BY DEF JobPost
<1>5. /\ StreamTyped'
      /\ \A i \in DOMAIN ch' : (i \in DOMAIN ch /\ ch'[i] = ch[i]) \/ ch'[i] = msg
      /\ ch # <<>> => ch'[1] = ch[1] /\ ch' # <<>>
      /\ ch = <<>> /\ ch' # <<>> => ch'[1] = msg
  BY <1>3, <1>4, Posting DEF Typed
<1>6. Typed'
  <2>1. DaemonTyped'
    BY <1>1, <1>4 DEF Typed, DaemonTyped
  <2>2. ClientTyped'
    BY <1>4 DEF Typed, ClientTyped, IsCall
  <2> QED
    BY <1>5, <2>1, <2>2 DEF Typed
<1>7. Revisions'
  <2>1. \A i \in DOMAIN ch' :
            /\ i > 1 => ch'[i].kind # "reconnect"
            /\ ch'[i].kind = "list" => ch'[i].list.revision <= revision'
    BY <1>3, <1>4, <1>5 DEF Revisions
  <2>2. (ch' # <<>> => ch'[1].kind # "reconnect") => (ch # <<>> => ch[1].kind # "reconnect")
    BY <1>5
  <2> QED
    BY <1>4, <2>1, <2>2 DEF Revisions, Replied, InTime
<1>8. ASSUME History PROVE History'
  <2>1. News'
    <3>1. Told(msg.id, msg.state)
      BY <1>3, <1>8 DEF History, News
    <3> QED
      BY <1>1, <1>4, <1>5, <1>8, <3>1 DEF History, News, Told, Over
  <2>2. Versions'
    BY <1>3, <1>4, <1>5, <1>8 DEF History, Versions, InTime
  <2>3. Holds' /\ Passed' /\ Ordered'
    BY <1>4, <1>8 DEF History, Holds, Passed, Ordered, Replied, InTime, Known, Overtakes
  <2> QED
    BY <2>1, <2>2, <2>3 DEF History
<1> QED
  BY <1>4, <1>6, <1>7, <1>8


LEMMA Taken ==
    ASSUME Typed
    PROVE  /\ IsList(Snapshot) /\ IsSnapshot(<<Snapshot>>) /\ <<Snapshot>> # <<>>
           /\ Snapshot.revision = revision /\ Snapshot.version = version
           /\ Snapshot.jobs = jobs /\ <<Snapshot>>[1] = Snapshot
BY DEF Typed, DaemonTyped, Snapshot, IsList, IsSnapshot

\* The revision goes up, and the connections with it.
LEMMA SetKeeps ==
    ASSUME IInv, RefreshSet
    PROVE  IInv'
<1> USE DEF IInv
<1>1. /\ revision' = revision + 1 /\ version' = changes + 1 /\ changes' = changes + 1
      /\ refresh' = [refresh EXCEPT !.step = "set"] /\ refresh = NoRefresh
      /\ UNCHANGED <<ids, jobs, posting, ch, open, calls, m, heard, submitted,
                     requests, losses, restarts>>
  BY DEF RefreshSet, Changed
<1>2. refresh'.step = "set" /\ refresh'.snapshot = <<>>
      /\ refresh' = [step |-> refresh'.step, snapshot |-> refresh'.snapshot]
  BY <1>1 DEF NoRefresh
<1>3. revision \in Nat /\ changes \in Nat /\ version \in Nat
  BY DEF Typed, DaemonTyped
<1>4. Typed'
  <2>1. DaemonTyped'
    BY <1>1, <1>2, <1>3 DEF Typed, DaemonTyped, IsSnapshot
  <2>2. StreamTyped' /\ ClientTyped'
    BY <1>1 DEF Typed, StreamTyped, ClientTyped, IsCall
  <2> QED
    BY <2>1, <2>2 DEF Typed
<1>5. Revisions'
  <2>1. \A i \in DOMAIN ch : ch[i].kind = "list" => ch[i].list.revision \in Nat
    BY DEF Typed, StreamTyped, IsMessage, IsList
  <2>2. m.revision \in Nat
    BY DEF Typed, ClientTyped, IsModel
  <2>3. \A call \in calls : call.reply # <<>> => call.reply[1].revision \in Nat
    BY DEF Typed, ClientTyped, IsCall, IsSnapshot, IsList
  <2> QED
    BY <1>1, <1>2, <1>3, <2>1, <2>2, <2>3 DEF Revisions, Replied, InTime
<1>6. ASSUME History PROVE History'
  <2>1. News'
    BY <1>1, <1>6 DEF History, News, Told, Over
  <2>2. Versions'
    <3>1. version' = version + 1 /\ revision' = revision + 1
      BY <1>1, <1>3, <1>6 DEF History, Versions
    <3>2. \A i \in DOMAIN ch : ch[i].kind = "list" => ch[i].list.version \in Nat
      BY DEF Typed, StreamTyped, IsMessage, IsList
    <3>3. \A call \in calls : call.reply # <<>> =>
            call.reply[1].revision \in Nat /\ call.reply[1].version \in Nat
      BY DEF Typed, ClientTyped, IsCall, IsSnapshot, IsList
    <3>4. m.version \in Nat
      BY DEF Typed, ClientTyped, IsModel
    <3>5. /\ version' = changes' /\ m'.version <= version'
          /\ \A i \in DOMAIN ch' : ch'[i].kind = "list" => ch'[i].list.version <= version'
      BY <1>1, <1>3, <1>6, <3>1, <3>2, <3>4 DEF History, Versions
    <3>6. ASSUME NEW call \in calls, call.reply # <<>>
          PROVE  /\ call.reply[1].revision <= revision' /\ call.reply[1].version <= version'
                 /\ call.reply[1].revision # revision'
      BY <1>3, <1>6, <3>1, <3>3, <3>6 DEF History, Versions
    <3> QED
      BY <1>1, <1>2, <1>6, <3>5, <3>6 DEF History, Versions, InTime
  <2>3. Holds' /\ Passed'
    BY <1>1, <1>6 DEF History, Holds, Passed, Replied, InTime, Known
  <2>4. Ordered'
    <3>1. \A call \in calls : call.reply # <<>> => call.reply[1].revision \in Nat
      BY DEF Typed, ClientTyped, IsCall, IsSnapshot, IsList
    <3>2. \A later, call \in calls : call.reply # <<>> /\ Overtakes(later, call) =>
                                        Overtakes(later, call)'
      BY <1>1, <1>3, <3>1 DEF Overtakes
    <3> QED
      BY <1>1, <1>6, <3>2 DEF History, Ordered, Replied, InTime
  <2> QED
    BY <2>1, <2>2, <2>3, <2>4 DEF History
<1> QED
  BY <1>1, <1>4, <1>5, <1>6

LEMMA SnapshotKeeps ==
    ASSUME IInv, RefreshSnapshot
    PROVE  IInv'
<1> USE DEF IInv
<1>1. /\ refresh' = [step |-> "post", snapshot |-> <<Snapshot>>]
      /\ UNCHANGED <<revision, version, ids, jobs, posting, ch, open, calls, m, heard, budgets>>
  BY DEF RefreshSnapshot
<1>2. PICK s : s = Snapshot
  OBVIOUS
<1>3. /\ refresh'.step = "post" /\ refresh'.snapshot = <<s>>
      /\ refresh' = [step |-> refresh'.step, snapshot |-> refresh'.snapshot]
      /\ IsList(s) /\ s.revision = revision /\ s.version = version
      /\ refresh'.snapshot # <<>> /\ refresh'.snapshot[1] = s
  BY <1>1, <1>2, Taken
<1>4. Typed'
  <2>1. IsSnapshot(refresh.snapshot)'
    BY <1>3 DEF IsSnapshot
  <2>2. DaemonTyped'
    BY <1>1, <1>3, <2>1 DEF Typed, DaemonTyped
  <2>3. StreamTyped' /\ ClientTyped'
    BY <1>1 DEF Typed, StreamTyped, ClientTyped, IsCall
  <2> QED
    BY <2>2, <2>3 DEF Typed
<1>5. revision \in Nat /\ version \in Nat
  BY DEF Typed, DaemonTyped
<1>6. Revisions'
  BY <1>1, <1>3, <1>5 DEF Revisions, Replied, InTime
<1>7. ASSUME History PROVE History'
  <2>1. News'
    BY <1>1, <1>7 DEF History, News, Told, Over
  <2>2. Versions'
    BY <1>1, <1>3, <1>5, <1>7 DEF History, Versions, InTime
  <2>3. Holds' /\ Passed' /\ Ordered'
    BY <1>1, <1>7 DEF History, Holds, Passed, Ordered, Replied, InTime, Known, Overtakes
  <2> QED
    BY <2>1, <2>2, <2>3 DEF History
<1> QED
  BY <1>1, <1>4, <1>6, <1>7

\* A list event; whoever asked for the refresh may be answered.
LEMMA RefreshPostKeeps ==
    ASSUME IInv, RefreshPost
    PROVE  IInv'
<1> USE DEF IInv
<1>1. PICK list : list = refresh.snapshot[1]
  OBVIOUS
<1>2. PICK msg : msg = [kind |-> "list", list |-> list]
  OBVIOUS
<1>3. /\ refresh.snapshot # <<>> /\ IsList(list)
      /\ list.revision <= revision
      /\ History => list.version <= version
  BY <1>1 DEF RefreshPost, Typed, DaemonTyped, IsSnapshot, Revisions, History, Versions
<1>4. /\ Broadcast(msg) /\ msg.kind = "list" /\ msg.list = list /\ IsMessage(msg)
      /\ refresh' = NoRefresh
      /\ UNCHANGED <<revision, version, ids, jobs, posting, open, m, heard, budgets>>
  BY <1>1, <1>2, <1>3 DEF RefreshPost, IsMessage
<1>5. /\ StreamTyped'
      /\ \A i \in DOMAIN ch' : (i \in DOMAIN ch /\ ch'[i] = ch[i]) \/ ch'[i] = msg
      /\ ch # <<>> => ch'[1] = ch[1] /\ ch' # <<>>
      /\ ch = <<>> /\ ch' # <<>> => ch'[1] = msg
  BY <1>4, Posting DEF Typed
<1>6. ASSUME NEW call \in calls'
      PROVE  /\ \E old \in calls :
                    /\ call.asked = old.asked /\ call.reply = old.reply
                    /\ old.step = "refresh" <=> call.step = "refresh"
             /\ IsCall(call)'
  <2>1. PICK old \in calls :
            call = IF old.step = "refreshing" THEN [old EXCEPT !.step = "list"] ELSE old
    BY DEF RefreshPost
  <2>2. IsCall(old)
    BY DEF Typed, ClientTyped
  <2>3. CASE old.step = "refreshing"
    <3>1. call = [step |-> "list", asked |-> old.asked, reply |-> old.reply]
      BY <2>1, <2>2, <2>3 DEF IsCall
    <3> QED
      BY <1>4, <2>2, <2>3, <3>1 DEF IsCall
  <2>4. CASE old.step # "refreshing"
    BY <1>4, <2>1, <2>2, <2>4 DEF IsCall
  <2> QED
    BY <2>3, <2>4
<1>7. Typed'
  <2>1. DaemonTyped'
    BY <1>4 DEF Typed, DaemonTyped, NoRefresh, IsSnapshot
  <2>2. ClientTyped'
    BY <1>4, <1>6 DEF Typed, ClientTyped
  <2> QED
    BY <1>5, <2>1, <2>2 DEF Typed
<1>8. refresh'.snapshot = <<>>
  BY <1>4 DEF NoRefresh
<1>9. Revisions'
  <2>1. \A i \in DOMAIN ch' :
            /\ i > 1 => ch'[i].kind # "reconnect"
            /\ ch'[i].kind = "list" => ch'[i].list.revision <= revision'
    BY <1>3, <1>4, <1>5 DEF Revisions
  <2>2. (ch' # <<>> => ch'[1].kind # "reconnect") => (ch # <<>> => ch[1].kind # "reconnect")
    BY <1>5
  <2>3. \A call \in calls' : Replied(call)' => \E old \in calls : Replied(old) /\ call.reply = old.reply
    BY <1>4, <1>6 DEF Replied, InTime
  <2> QED
    BY <1>4, <1>8, <2>1, <2>2, <2>3 DEF Revisions
<1>10. ASSUME History PROVE History'
  <2>1. News'
    BY <1>4, <1>5, <1>10 DEF History, News, Told, Over
  <2>2. Versions'
    BY <1>3, <1>4, <1>5, <1>6, <1>8, <1>10 DEF History, Versions, InTime
  <2>3. Holds' /\ Passed'
    BY <1>4, <1>6, <1>10 DEF History, Holds, Passed, Replied, InTime, Known
  <2>4. Ordered'
    <3> SUFFICES ASSUME NEW call \in calls', NEW later \in calls',
                        Replied(call)', InTime(later)', call.asked < later.asked,
                        NEW id \in JobIds, heard[id] = "done", m.jobSeen[id] <= later.asked
                 PROVE  \/ call.reply[1].revision < m.revision
                        \/ Over(call.reply[1].jobs, id)
                        \/ Overtakes(later, call)'
      BY <1>4 DEF Ordered
    <3>1. PICK c \in calls : call.asked = c.asked /\ call.reply = c.reply
      BY <1>6
    <3>2. PICK l \in calls : /\ later.asked = l.asked /\ later.reply = l.reply
                             /\ l.step = "refresh" <=> later.step = "refresh"
      BY <1>6
    <3>3. Replied(c) /\ InTime(l)
      BY <1>4, <3>1, <3>2 DEF Replied, InTime
    <3>4. \/ c.reply[1].revision < m.revision
          \/ Over(c.reply[1].jobs, id)
          \/ Overtakes(l, c)
      BY <1>10, <3>1, <3>2, <3>3 DEF History, Ordered
    <3> QED
      BY <1>4, <3>1, <3>2, <3>4 DEF Overtakes
  <2> QED
    BY <2>1, <2>2, <2>3, <2>4 DEF History
<1> QED
  BY <1>4, <1>7, <1>9, <1>10

-----------------------------------------------------------------------------
(* Requests and their replies *)

\* A forced refresh raises the revision above that of every reply taken.
LEMMA ServeRefreshKeeps ==
    ASSUME IInv, NEW call \in calls, ServeRefresh(call)
    PROVE  IInv'
<1> USE DEF IInv
<1>1. PICK new : new = [call EXCEPT !.step = "refreshing"]
  OBVIOUS
<1>2. /\ call.step = "refresh" /\ revision' = revision + 1
      /\ refresh' = [refresh EXCEPT !.step = "set"] /\ refresh = NoRefresh
      /\ calls' = (calls \ {call}) \cup {new}
      /\ UNCHANGED <<version, ids, jobs, posting, ch, open, m, heard, budgets>>
  BY <1>1 DEF ServeRefresh, Changed
<1>3. /\ IsCall(call) /\ call.reply = <<>>
      /\ new = [step |-> "refreshing", asked |-> call.asked, reply |-> <<>>]
  BY <1>1, <1>2 DEF Typed, ClientTyped, IsCall
<1>4. refresh'.step = "set" /\ refresh'.snapshot = <<>>
      /\ refresh' = [step |-> refresh'.step, snapshot |-> refresh'.snapshot]
  BY <1>2 DEF NoRefresh
<1>5. revision \in Nat /\ changes \in Nat /\ version \in Nat
  BY DEF Typed, DaemonTyped
<1>6. new.reply = <<>> /\ new.asked = call.asked /\ new.step = "refreshing"
  BY <1>3
<1>7. Typed'
  <2>1. DaemonTyped'
    BY <1>2, <1>4, <1>5 DEF Typed, DaemonTyped, IsSnapshot
  <2>2. StreamTyped'
    BY <1>2 DEF Typed, StreamTyped
  <2>3. IsCall(new)'
    BY <1>2, <1>3, <1>6 DEF IsCall, IsSnapshot
  <2>4. ClientTyped'
    BY <1>2, <2>3 DEF Typed, ClientTyped, IsCall
  <2> QED
    BY <2>1, <2>2, <2>4 DEF Typed
<1>8. \A c \in calls : c.reply # <<>> => c.reply[1].revision \in Nat
  BY DEF Typed, ClientTyped, IsCall, IsSnapshot, IsList
<1>9. Revisions'
  <2>1. \A i \in DOMAIN ch : ch[i].kind = "list" => ch[i].list.revision \in Nat
    BY DEF Typed, StreamTyped, IsMessage, IsList
  <2>2. m.revision \in Nat
    BY DEF Typed, ClientTyped, IsModel
  <2>3. \A c \in calls' : c.reply # <<>> => c \in calls
    BY <1>2, <1>6
  <2> QED
    BY <1>2, <1>4, <1>5, <1>8, <2>1, <2>2, <2>3 DEF Revisions, Replied, InTime
<1>10. ASSUME History PROVE History'
  <2>1. News'
    BY <1>2, <1>10 DEF History, News, Told, Over
  <2>2. \A c \in calls' : c.reply # <<>> => c \in calls
    BY <1>2, <1>6
  <2>3. Versions'
    <3>1. \A c \in calls : c.reply # <<>> =>
            c.reply[1].revision <= revision' /\ c.reply[1].revision # revision'
      BY <1>2, <1>5, <1>8, <1>10 DEF History, Versions
    <3> QED
      BY <1>2, <1>4, <1>10, <2>2, <3>1 DEF History, Versions, InTime
  <2>4. Holds' /\ Passed'
    BY <1>2, <1>10, <2>2 DEF History, Holds, Passed, Replied, InTime, Known
  <2>5. Ordered'
    <3> SUFFICES ASSUME NEW c \in calls', NEW later \in calls',
                        Replied(c)', InTime(later)', c.asked < later.asked,
                        NEW id \in JobIds, heard[id] = "done", m.jobSeen[id] <= later.asked
                 PROVE  \/ c.reply[1].revision < m.revision
                        \/ Over(c.reply[1].jobs, id)
                        \/ Overtakes(later, c)'
      BY <1>2 DEF Ordered
    <3>1. c \in calls /\ Replied(c) /\ c.reply # <<>>
      BY <1>2, <2>2 DEF Replied, InTime
    <3>2. c.reply[1].revision < revision'
      BY <1>2, <1>5, <1>8, <1>10, <3>1 DEF History, Versions
    <3>3. CASE later = new
      BY <1>6, <3>2, <3>3 DEF Overtakes
    <3>4. CASE later \in calls
      <4>1. InTime(later)
        BY <1>2 DEF InTime
      <4>2. \/ c.reply[1].revision < m.revision
            \/ Over(c.reply[1].jobs, id)
            \/ Overtakes(later, c)
        BY <1>10, <3>1, <3>4, <4>1 DEF History, Ordered
      <4> QED
        BY <3>2, <4>2 DEF Overtakes
    <3> QED
      BY <1>2, <3>3, <3>4
  <2> QED
    BY <2>1, <2>3, <2>4, <2>5 DEF History
<1> QED
  BY <1>2, <1>7, <1>9, <1>10

\* A reply holds what is true when it is taken.
LEMMA ServeKeeps ==
    ASSUME IInv, NEW call \in calls, Serve(call)
    PROVE  IInv'
<1> USE DEF IInv
<1>1. PICK s : s = Snapshot
  OBVIOUS
<1>2. PICK new : new = [call EXCEPT !.reply = <<s>>]
  OBVIOUS
<1>3. /\ call.step = "list" /\ call.reply = <<>>
      /\ calls' = (calls \ {call}) \cup {new}
      /\ UNCHANGED <<daemonVars, ch, open, m, heard, budgets>>
  BY <1>1, <1>2 DEF Serve
<1>4. /\ IsList(s) /\ IsSnapshot(<<s>>) /\ <<s>> # <<>> /\ <<s>>[1] = s
      /\ s.revision = revision /\ s.version = version /\ s.jobs = jobs
  BY <1>1, Taken
<1>5. IsCall(call) /\ new = [step |-> "list", asked |-> call.asked, reply |-> <<s>>]
  BY <1>2, <1>3 DEF Typed, ClientTyped, IsCall
<1>6. /\ new.step = "list" /\ new.asked = call.asked /\ new.reply # <<>>
      /\ new.reply[1] = s /\ new.reply = <<s>>
  BY <1>4, <1>5
<1>7. revision \in Nat /\ version \in Nat
  BY DEF Typed, DaemonTyped
<1>8. Typed'
  <2>1. DaemonTyped'
    BY <1>3 DEF Typed, DaemonTyped
  <2>2. StreamTyped'
    BY <1>3 DEF Typed, StreamTyped
  <2>3. IsCall(new)'
    BY <1>3, <1>4, <1>5, <1>6 DEF IsCall
  <2>4. ClientTyped'
    BY <1>3, <2>3 DEF Typed, ClientTyped, IsCall
  <2> QED
    BY <2>1, <2>2, <2>4 DEF Typed
<1>9. Revisions'
  <2>1. \A c \in calls' : c \in calls \/ (c = new /\ c.reply[1].revision = revision)
    BY <1>3, <1>4, <1>6
  <2> QED
    BY <1>3, <1>7, <2>1 DEF Revisions, Replied, InTime
<1>10. ASSUME History PROVE History'
  <2>1. News'
    BY <1>3, <1>10 DEF History, News, Told, Over
  <2>2. Versions'
    <3>1. \A c \in calls : c.reply # <<>> =>
            /\ c.reply[1].revision \in Nat /\ c.reply[1].version \in Nat
            /\ c.reply[1].revision <= revision /\ c.reply[1].version <= version
            /\ c.reply[1].revision = revision => c.reply[1].version = version
      BY <1>10 DEF History, Versions, Typed, ClientTyped, IsCall, IsSnapshot, IsList
    <3>2. m.version <= version
      BY <1>10 DEF History, Versions
    <3>3. \A c \in calls' : c.reply # <<>> =>
            /\ c.reply[1].revision <= revision' /\ c.reply[1].version <= version'
            /\ c.reply[1].revision = revision' => c.reply[1].version = version'
            /\ InTime(c)' /\ c.reply[1].revision >= m'.revision
                => c.reply[1].version >= m'.version
      BY <1>3, <1>4, <1>6, <1>7, <1>10, <3>1, <3>2 DEF History, Versions, InTime
    <3>4. \A c, other \in calls' :
            c.reply # <<>> /\ other.reply # <<>>
                /\ c.reply[1].revision >= other.reply[1].revision
            => c.reply[1].version >= other.reply[1].version
      <4> SUFFICES ASSUME NEW c \in calls', NEW other \in calls',
                          c.reply # <<>>, other.reply # <<>>,
                          c.reply[1].revision >= other.reply[1].revision
                   PROVE  c.reply[1].version >= other.reply[1].version
        OBVIOUS
      <4>1. CASE c = new
        BY <1>3, <1>4, <1>6, <1>7, <3>1, <4>1
      <4>2. CASE c \in calls /\ other = new
        <5>1. c.reply[1].revision = revision
          BY <1>4, <1>6, <1>7, <3>1, <4>2
        <5> QED
          BY <1>4, <1>6, <1>7, <3>1, <4>2, <5>1
      <4>3. CASE c \in calls /\ other \in calls
        BY <1>10, <4>3 DEF History, Versions
      <4> QED
        BY <1>3, <4>1, <4>2, <4>3
    <3>5. /\ version' = changes' /\ m'.version <= version'
          /\ \A i \in DOMAIN ch' : ch'[i].kind = "list" => ch'[i].list.version <= version'
          /\ refresh'.snapshot # <<>> => refresh'.snapshot[1].version <= version'
      BY <1>3, <1>10 DEF History, Versions
    <3> QED
      BY <3>3, <3>4, <3>5 DEF Versions
  <2>3. Holds'
    <3> SUFFICES ASSUME NEW c \in calls', Replied(c)', NEW id \in JobIds,
                        heard[id] # "none", Known(jobs, id)
                 PROVE  m.jobSeen[id] > c.asked \/ Known(c.reply[1].jobs, id)
      BY <1>3 DEF Holds, Known
    <3>1. CASE c = new
      BY <1>4, <1>6, <3>1
    <3>2. CASE c \in calls
      BY <1>3, <1>10, <3>2 DEF History, Holds, Replied, InTime
    <3> QED
      BY <1>3, <3>1, <3>2
  <2>4. Passed'
    <3> SUFFICES ASSUME NEW c \in calls', Replied(c)', NEW id \in JobIds, heard[id] = "done"
                 PROVE  \/ m.jobSeen[id] > c.asked
                        \/ c.reply[1].revision < m.revision
                        \/ Over(c.reply[1].jobs, id)
      BY <1>3 DEF Passed
    <3>1. CASE c = new
      BY <1>4, <1>6, <1>10, <3>1 DEF History, News, Told
    <3>2. CASE c \in calls
      BY <1>3, <1>10, <3>2 DEF History, Passed, Replied, InTime
    <3> QED
      BY <1>3, <3>1, <3>2
  <2>5. Ordered'
    <3> SUFFICES ASSUME NEW c \in calls', NEW later \in calls',
                        Replied(c)', InTime(later)', c.asked < later.asked,
                        NEW id \in JobIds, heard[id] = "done", m.jobSeen[id] <= later.asked
                 PROVE  \/ c.reply[1].revision < m.revision
                        \/ Over(c.reply[1].jobs, id)
                        \/ Overtakes(later, c)'
      BY <1>3 DEF Ordered
    <3>1. CASE c = new
      BY <1>4, <1>6, <1>10, <3>1 DEF History, News, Told
    <3>2. CASE c \in calls /\ later \in calls
      <4>1. Replied(c) /\ InTime(later)
        BY <1>3 DEF Replied, InTime
      <4> QED
        BY <1>3, <1>10, <3>2, <4>1 DEF History, Ordered, Overtakes
    <3>3. CASE c \in calls /\ later = new
      <4>1. Replied(c) /\ InTime(call)
        BY <1>3, <1>6, <3>3 DEF Replied, InTime
      <4>2. \/ c.reply[1].revision < m.revision
            \/ Over(c.reply[1].jobs, id)
            \/ Overtakes(call, c)
        BY <1>6, <1>10, <3>3, <4>1 DEF History, Ordered
      <4> QED
        BY <1>3, <1>4, <1>6, <3>3, <4>2 DEF Overtakes
    <3> QED
      BY <1>3, <3>1, <3>2, <3>3
  <2> QED
    BY <2>1, <2>2, <2>3, <2>4, <2>5 DEF History
<1> QED
  BY <1>3, <1>8, <1>9, <1>10

\* A request that has no reply yet and was just made.
LEMMA Requested ==
    ASSUME ClientTyped, NEW step \in {"refresh", "list"}, NEW asked \in Nat
    PROVE  /\ NewCall(step, asked).reply = <<>> /\ NewCall(step, asked).asked = asked
           /\ NewCall(step, asked).step = step
           /\ asked <= m.received => IsCall(NewCall(step, asked))
BY DEF NewCall, IsCall, IsSnapshot

\* connections.refresh is asked for.
LEMMA AskKeeps ==
    ASSUME IInv, Ask
    PROVE  IInv'
<1> USE DEF IInv
<1>1. PICK new : new = NewCall("refresh", m.received)
  OBVIOUS
<1>2. /\ calls' = calls \cup {new}
      /\ UNCHANGED <<daemonVars, ch, open, m, heard, submitted, changes, losses, restarts>>
  BY <1>1 DEF Ask
<1>3. m.received \in Nat
  BY DEF Typed, ClientTyped, IsModel
<1>4. IsCall(new) /\ new.reply = <<>> /\ new.asked = m.received /\ new.step = "refresh"
  BY <1>1, <1>3, Requested DEF Typed
<1>5. Typed'
  BY <1>2, <1>4 DEF Typed, DaemonTyped, StreamTyped, ClientTyped, IsCall
<1>6. \A c \in calls' : c.reply # <<>> => c \in calls
  BY <1>2, <1>4
<1>7. Revisions'
  BY <1>2, <1>6 DEF Revisions, Replied, InTime
<1>8. ASSUME History PROVE History'
  <2>1. News'
    BY <1>2, <1>8 DEF History, News, Told, Over
  <2>2. Versions'
    BY <1>2, <1>6, <1>8 DEF History, Versions, InTime
  <2>3. Holds' /\ Passed'
    BY <1>2, <1>6, <1>8 DEF History, Holds, Passed, Replied, InTime, Known
  <2>4. Ordered'
    <3> SUFFICES ASSUME NEW c \in calls', NEW later \in calls',
                        Replied(c)', InTime(later)', c.asked < later.asked,
                        NEW id \in JobIds, heard[id] = "done", m.jobSeen[id] <= later.asked
                 PROVE  \/ c.reply[1].revision < m.revision
                        \/ Over(c.reply[1].jobs, id)
                        \/ Overtakes(later, c)'
      BY <1>2 DEF Ordered
    <3>1. CASE later = new
      BY <1>4, <3>1 DEF Overtakes
    <3>2. CASE later \in calls
      <4>1. c \in calls /\ Replied(c) /\ InTime(later)
        BY <1>2, <1>6 DEF Replied, InTime
      <4> QED
        BY <1>2, <1>8, <3>2, <4>1 DEF History, Ordered, Overtakes
    <3> QED
      BY <1>2, <3>1, <3>2
  <2> QED
    BY <2>1, <2>2, <2>3, <2>4 DEF History
<1> QED
  BY <1>2, <1>5, <1>7, <1>8

LEMMA NoStream ==
    /\ Len(<<>>) = 0 /\ 0 <= Buffer /\ \A i : i \notin 1 .. 0
    /\ <<>> = [i \in 1 .. Len(<<>>) |-> <<>>[i]]
BY Bounds

\* The daemon is replaced, or the stream lost or opened again.
LEMMA BreaksKeep ==
    ASSUME IInv, Restart \/ Subscribe \/ Lose
    PROVE  IInv'
<1> USE DEF IInv
<1>1. CASE Restart
  <2>1. /\ restarts' = restarts + 1 /\ revision' = 1
        /\ version' \in {version, MaxChanges + restarts + 1}
        /\ ids' = 0 /\ jobs' = <<>> /\ posting' = {} /\ refresh' = NoRefresh
        /\ open' = FALSE /\ ch' = <<>>
        /\ \A call \in calls' : call \in calls
        /\ UNCHANGED <<m, heard, submitted, changes>>
    BY <1>1 DEF Restart
  <2>2. restarts' # 0 /\ restarts' \in Nat /\ version' \in Nat
    BY <2>1, BoundsAssumption, SMTT(30) DEF Typed, DaemonTyped
  <2>3. refresh' = [step |-> refresh'.step, snapshot |-> refresh'.snapshot]
        /\ refresh'.step = "none" /\ refresh'.snapshot = <<>>
    BY <2>1 DEF NoRefresh
  <2>4. DaemonTyped'
    BY <2>1, <2>2, <2>3 DEF Typed, DaemonTyped, Distinct, IsSnapshot
  <2>5. StreamTyped'
    BY <2>1, NoStream DEF StreamTyped
  <2>7. ClientTyped'
    BY <2>1 DEF Typed, ClientTyped, IsCall
  <2>6. Revisions'
    BY <2>1, <2>3 DEF Revisions
  <2> QED
    BY <2>2, <2>4, <2>5, <2>6, <2>7 DEF Typed
<1>2. ASSUME Subscribe \/ Lose
      PROVE  /\ \/ ch' = <<>> /\ open' = FALSE
                \/ ch' = <<[kind |-> "reconnect"]>> /\ open' = TRUE
             /\ UNCHANGED <<daemonVars, calls, m, heard, changes, restarts, submitted>>
  BY <1>2 DEF Subscribe, Lose
<1>3. CASE Subscribe \/ Lose
  <2>1. \A i \in DOMAIN ch' : i = 1 /\ ch'[i].kind = "reconnect"
    <3>1. PICK msg : msg = [kind |-> "reconnect"]
      OBVIOUS
    <3>2. msg.kind = "reconnect"
      BY <3>1
    <3>3. \A i \in DOMAIN <<msg>> : i = 1 /\ <<msg>>[i] = msg
      OBVIOUS
    <3>4. \A i : i \notin DOMAIN <<>>
      OBVIOUS
    <3> QED
      BY <1>2, <1>3, <3>1, <3>2, <3>3, <3>4
  <2>0. /\ UNCHANGED <<revision, version, ids, jobs, posting, refresh, calls, m, heard,
                       changes, restarts, submitted>>
        /\ ~ open' \/ (ch' # <<>> /\ 1 \in DOMAIN ch')
    <3>1. <<[kind |-> "reconnect"]>> # <<>> /\ 1 \in DOMAIN <<[kind |-> "reconnect"]>>
      OBVIOUS
    <3> QED
      BY <1>2, <1>3, <3>1
  <2>2. StreamTyped'
    <3>1. CASE ch' = <<>> /\ open' = FALSE
      BY <3>1, NoStream DEF StreamTyped
    <3>2. CASE ch' = <<[kind |-> "reconnect"]>> /\ open' = TRUE
      <4>1. Len(ch') = 1 /\ ch'[1].kind = "reconnect"
            /\ ch' = [i \in 1 .. Len(ch') |-> ch'[i]]
        BY <3>2
      <4>2. \A i \in 1 .. Len(ch') : IsMessage(ch'[i])
        BY <4>1 DEF IsMessage
      <4> QED
        BY <3>2, <4>1, <4>2, Bounds DEF StreamTyped
    <3> QED
      BY <1>2, <1>3, <3>1, <3>2
  <2>3. Typed'
    BY <1>2, <1>3, <2>2 DEF Typed, DaemonTyped, ClientTyped, IsCall
  <2>4. Revisions'
    BY <2>0, <2>1 DEF Revisions
  <2>5. ASSUME History PROVE History'
    <3>1. News'
      BY <1>2, <1>3, <2>1, <2>5 DEF History, News, Told, Over
    <3>2. Versions'
      BY <2>0, <2>1, <2>5 DEF History, Versions, InTime
    <3>3. Holds' /\ Passed' /\ Ordered'
      BY <2>0, <2>5 DEF History, Holds, Passed, Ordered, Replied, InTime, Known,
                              Overtakes
    <3> QED
      BY <3>1, <3>2, <3>3 DEF History
  <2> QED
    BY <1>2, <1>3, <2>3, <2>4, <2>5
<1> QED
  BY <1>1, <1>3

-----------------------------------------------------------------------------
(* The client's steps *)

LEMMA Subscripted ==
    ASSUME NEW S, NEW s \in Seq(S)
    PROVE  s = [i \in 1 .. Len(s) |-> s[i]] /\ DOMAIN s = 1 .. Len(s)
OBVIOUS

\* What is left of the stream.
LEMMA StreamLeft ==
    ASSUME StreamTyped, ch # <<>>, ch' = Tail(ch), open' = open
    PROVE  /\ StreamTyped' /\ IsMessage(ch[1]) /\ Head(ch) = ch[1] /\ 1 \in DOMAIN ch /\ open
           /\ \A i \in DOMAIN ch' : i + 1 \in DOMAIN ch /\ ch'[i] = ch[i + 1] /\ i >= 1
<1> DEFINE S == {ch[i] : i \in 1 .. Len(ch)}
<1>1. ch \in Seq(S)
  BY SeqDef DEF StreamTyped
<1> HIDE DEF S
<1>2. /\ Tail(ch) \in Seq(S) /\ Len(Tail(ch)) = Len(ch) - 1
      /\ \A i \in 1 .. Len(Tail(ch)) : Tail(ch)[i] = ch[i + 1]
      /\ Head(ch) = ch[1]
  BY <1>1, HeadTailProperties
<1>3. Len(ch) \in Nat /\ Len(ch) # 0 /\ DOMAIN ch = 1 .. Len(ch)
  BY <1>1
<1>4. /\ DOMAIN ch' = 1 .. Len(ch') /\ Len(ch') \in Nat /\ Len(ch') <= Buffer
      /\ ch' = [i \in 1 .. Len(ch') |-> ch'[i]]
  <2>1. Len(Tail(ch)) \in Nat /\ Len(Tail(ch)) <= Buffer
    BY <1>2, <1>3, Bounds DEF StreamTyped
  <2>2. Tail(ch) = [i \in 1 .. Len(Tail(ch)) |-> Tail(ch)[i]]
        /\ DOMAIN Tail(ch) = 1 .. Len(Tail(ch))
    BY <1>2, Subscripted
  <2> QED
    BY <2>1, <2>2
<1>5. \A i \in 1 .. Len(ch') : i + 1 \in 1 .. Len(ch) /\ ch'[i] = ch[i + 1] /\ i >= 1
  BY <1>2, <1>3
<1> QED
  BY <1>2, <1>3, <1>4, <1>5 DEF StreamTyped

\* A message that voids every request: no reply to an earlier one is believed.
LEMMA Voiding ==
    ASSUME IInv, open, open' = open,
           \A i \in DOMAIN ch' : i + 1 \in DOMAIN ch /\ ch'[i] = ch[i + 1] /\ i >= 1,
           UNCHANGED <<daemonVars, heard, budgets>>,
           StreamTyped', IsModel(m)', m'.received = m.received + 1, m'.listed = m'.received,
           m'.revision <= revision, restarts = 0 => m'.version <= version,
           \A call \in calls' :
                call \in calls \/ (call = NewCall("list", m.received + 1)),
           calls \subseteq calls'
    PROVE  IInv'
<1> USE DEF IInv
<1>1. m.received \in Nat
  BY DEF Typed, ClientTyped, IsModel
<1>2. PICK new : new = NewCall("list", m.received + 1)
  OBVIOUS
<1>7. new.reply = <<>> /\ IsCall(new)'
  <2>1. new = [step |-> "list", asked |-> m.received + 1, reply |-> <<>>]
    BY <1>2 DEF NewCall
  <2> QED
    BY <1>1, <2>1 DEF IsCall, IsSnapshot
<1>3. Typed'
  <2>1. \A call \in calls : IsCall(call)'
    BY <1>1 DEF Typed, ClientTyped, IsCall
  <2>2. ClientTyped'
    BY <1>2, <1>7, <2>1 DEF Typed, ClientTyped
  <2>3. DaemonTyped'
    BY DEF Typed, DaemonTyped
  <2> QED
    BY <2>2, <2>3 DEF Typed
<1>4. \A call \in calls' : ~ Replied(call)'
  <2> SUFFICES ASSUME NEW call \in calls', Replied(call)' PROVE FALSE
    OBVIOUS
  <2>1. call \in calls
    BY <1>2, <1>7 DEF Replied
  <2>2. call.asked \in Nat /\ call.asked <= m.received
    BY <2>1 DEF Typed, ClientTyped, IsCall
  <2> QED
    BY <1>1, <2>2 DEF Replied, InTime
<1>5. Revisions'
  <2>1. \A i \in DOMAIN ch : i > 1 => ch[i].kind # "reconnect"
    BY DEF Revisions
  <2>2. \A i \in DOMAIN ch' : ch'[i].kind # "reconnect"
    <3> SUFFICES ASSUME NEW i \in DOMAIN ch' PROVE ch'[i].kind # "reconnect"
      OBVIOUS
    <3>1. i \in Nat /\ i + 1 > 1
      BY DEF StreamTyped
    <3> QED
      BY <2>1, <3>1
  <2> QED
    BY <1>4, <2>2 DEF Revisions
<1>6. ASSUME restarts = 0 PROVE History'
  <2>0. History
    BY <1>6
  <2>1. News'
    BY <2>0 DEF History, News, Told, Over
  <2>2. Versions'
    <3>1. \A call \in calls' : call.reply # <<>> => call \in calls
      BY <1>2, <1>7
    <3>2. \A call \in calls' : ~ (call.reply # <<>> /\ InTime(call)')
      BY <1>4 DEF Replied
    <3> QED
      BY <1>6, <2>0, <3>1, <3>2 DEF History, Versions
  <2>3. Holds' /\ Passed' /\ Ordered'
    BY <1>4 DEF Holds, Passed, Ordered
  <2> QED
    BY <2>1, <2>2, <2>3 DEF History
<1> QED
  BY <1>3, <1>5, <1>6

LEMMA ReceiveKeeps ==
    ASSUME IInv, Receive
    PROVE  IInv'
<1> USE DEF IInv
<1>1. /\ ch # <<>> /\ ch' = Tail(ch)
      /\ UNCHANGED <<daemonVars, open, budgets>>
      /\ heard' = IF Head(ch).kind = "job"
                  THEN [heard EXCEPT ![Head(ch).id] = Head(ch).state] ELSE heard
  BY DEF Receive
<1>2. /\ StreamTyped' /\ IsMessage(ch[1]) /\ Head(ch) = ch[1] /\ 1 \in DOMAIN ch /\ open
      /\ \A i \in DOMAIN ch' : i + 1 \in DOMAIN ch /\ ch'[i] = ch[i + 1] /\ i >= 1
  BY <1>1, StreamLeft DEF Typed
<1>3. PICK msg : msg = ch[1]
  OBVIOUS
<1>4. /\ m \in [received : Nat, listed : Nat, revision : Nat, version : Nat,
                jobs : Seq(Job), jobSeen : [JobIds -> Nat]]
      /\ m.received \in Nat /\ m.listed \in Nat /\ m.listed <= m.received
      /\ \A id \in JobIds : /\ m.jobSeen[id] \in Nat /\ m.jobSeen[id] <= m.received
                            /\ m.jobSeen[id] > 0 => Known(m.jobs, id)
      /\ Distinct(m.jobs)
      /\ m.revision \in Nat /\ IsModel(m)
  BY DEF Typed, ClientTyped, IsModel
<1>5. revision \in Nat
  BY DEF Typed, DaemonTyped
<1>6. restarts = 0 => m.version <= version
  BY DEF History, Versions
<1>7. CASE msg.kind = "reconnect"
  <2>1. /\ m' = [m EXCEPT !.received = @ + 1, !.listed = m.received + 1, !.revision = 0]
        /\ calls' = calls \cup {NewCall("list", m.received + 1)}
    BY <1>2, <1>3, <1>7 DEF Receive, Reconnect
  <2>2. heard' = heard
    BY <1>1, <1>2, <1>3, <1>7
  <2>3. /\ m'.received = m.received + 1 /\ m'.listed = m.received + 1 /\ m'.revision = 0
        /\ m'.version = m.version /\ m'.jobs = m.jobs /\ m'.jobSeen = m.jobSeen
        /\ m' \in [received : Nat, listed : Nat, revision : Nat, version : Nat,
                   jobs : Seq(Job), jobSeen : [JobIds -> Nat]]
    <3>1. /\ m'.received = m.received + 1 /\ m'.listed = m.received + 1 /\ m'.revision = 0
          /\ m'.version = m.version /\ m'.jobs = m.jobs /\ m'.jobSeen = m.jobSeen
      BY <1>4, <2>1
    <3>2. m' = [received |-> m'.received, listed |-> m'.listed, revision |-> m'.revision,
                version |-> m'.version, jobs |-> m'.jobs, jobSeen |-> m'.jobSeen]
      BY <1>4, <2>1
    <3> QED
      BY <1>4, <3>1, <3>2
  <2>4. IsModel(m)'
    BY <1>4, <2>3 DEF IsModel
  <2> QED
    BY <1>1, <1>2, <1>5, <1>6, <2>1, <2>2, <2>3, <2>4, Voiding
<1>8. CASE msg.kind = "list"
  <2>1. PICK list : list = msg.list
    OBVIOUS
  <2>2. PICK counted : counted = [m EXCEPT !.received = @ + 1, !.listed = m.received + 1]
    OBVIOUS
  <2>3. m' = ApplyList(counted, list, m.received + 1) /\ calls' = calls
    <3>1. counted = [[m EXCEPT !.received = @ + 1] EXCEPT !.listed = m.received + 1]
      BY <2>2
    <3> QED
      BY <1>2, <1>3, <1>8, <2>1, <3>1 DEF Receive
  <2>4. heard' = heard
    BY <1>1, <1>2, <1>3, <1>8
  <2>5. /\ counted.received = m.received + 1 /\ counted.listed = m.received + 1
        /\ counted.revision = m.revision
        /\ counted.version = m.version /\ counted.jobs = m.jobs /\ counted.jobSeen = m.jobSeen
        /\ counted \in [received : Nat, listed : Nat, revision : Nat, version : Nat,
                        jobs : Seq(Job), jobSeen : [JobIds -> Nat]]
    <3>1. /\ counted.received = m.received + 1 /\ counted.listed = m.received + 1
          /\ counted.revision = m.revision /\ counted.version = m.version
          /\ counted.jobs = m.jobs /\ counted.jobSeen = m.jobSeen
      BY <1>4, <2>2
    <3>2. counted = [received |-> counted.received, listed |-> counted.listed,
                     revision |-> counted.revision, version |-> counted.version,
                     jobs |-> counted.jobs, jobSeen |-> counted.jobSeen]
      BY <1>4, <2>2
    <3> QED
      BY <1>4, <3>1, <3>2
  <2>6. IsModel(counted)
    BY <1>4, <2>5 DEF IsModel
  <2>7. /\ IsList(list) /\ list.revision <= revision /\ list.revision \in Nat
        /\ restarts = 0 => list.version <= version
    BY <1>2, <1>3, <1>8, <2>1 DEF IsMessage, IsList, Revisions, History, Versions
  <2>8. m.revision <= revision
    BY <1>2, <1>3, <1>8 DEF Revisions
  <2>9. /\ IsModel(m') /\ m'.received = m.received + 1 /\ m'.listed = m.received + 1
        /\ m'.revision <= revision
        /\ restarts = 0 => m'.version <= version
    <3>1. CASE list.revision < counted.revision
      <4>1. m' = counted
        BY <2>3, <3>1 DEF ApplyList
      <4> QED
        BY <1>6, <2>5, <2>6, <2>8, <4>1
    <3>2. CASE list.revision >= counted.revision
      <4>1. PICK r : r = ApplyList(counted, list, m.received + 1)
        OBVIOUS
      <4>2. /\ IsModel(r) /\ r.received = counted.received /\ r.listed = counted.listed
            /\ r.revision = list.revision /\ r.version = list.version
        BY <1>4, <2>6, <2>7, <3>2, <4>1, Applying
      <4> QED
        BY <2>3, <2>5, <2>7, <4>1, <4>2
    <3> QED
      BY <1>4, <2>5, <2>7, <3>1, <3>2
  <2>10. IsModel(m)'
    BY <2>9 DEF IsModel
  <2>11. m'.listed = m'.received
    BY <2>9
  <2>12. /\ \A call \in calls' : call \in calls \/ call = NewCall("list", m.received + 1)
         /\ calls \subseteq calls'
    BY <2>3
  <2> HIDE DEF IInv
  <2> QED
    BY <1>1, <1>2, <2>4, <2>9, <2>10, <2>11, <2>12, Voiding
<1>9. CASE msg.kind = "job"
  <2>1. PICK job : job = [id |-> msg.id, state |-> msg.state]
    OBVIOUS
  <2>2. job \in Job /\ job.id = msg.id /\ job.state = msg.state
        /\ job.id \in JobIds /\ job.state \in {"unfinished", "done"}
    BY <1>2, <1>3, <1>9, <2>1 DEF IsMessage, Job
  <2> DEFINE marked == [[m EXCEPT !.received = @ + 1] EXCEPT !.jobSeen[msg.id] = m.received + 1]
  <2>3. IsMarked(marked, m, job.id)
    <3>1. /\ marked.jobSeen = [m.jobSeen EXCEPT ![msg.id] = m.received + 1]
          /\ marked.received = m.received + 1 /\ marked.listed = m.listed
          /\ marked.revision = m.revision /\ marked.version = m.version
          /\ marked.jobs = m.jobs
      <4>1. DOMAIN m = {"received", "listed", "revision", "version", "jobs", "jobSeen"}
        BY <1>4
      <4> QED
        BY <4>1
    <3>2. marked = [received |-> marked.received, listed |-> marked.listed,
                    revision |-> marked.revision, version |-> marked.version,
                    jobs |-> marked.jobs, jobSeen |-> marked.jobSeen]
      <4> DEFINE one == [m EXCEPT !.received = @ + 1]
      <4>1. one \in [received : Nat, listed : Nat, revision : Nat, version : Nat,
                     jobs : Seq(Job), jobSeen : [JobIds -> Nat]]
        BY <1>4
      <4>2. marked = [one EXCEPT !.jobSeen = [one.jobSeen EXCEPT ![msg.id] = m.received + 1]]
        OBVIOUS
      <4>3. PICK seen : seen = [one.jobSeen EXCEPT ![msg.id] = m.received + 1]
        OBVIOUS
      <4> HIDE DEF one, marked
      <4>4. marked = [one EXCEPT !.jobSeen = seen]
        BY <4>2, <4>3
      <4> QED
        BY <4>1, <4>4
    <3> HIDE DEF marked
    <3>3. marked.jobSeen \in [JobIds -> Nat]
      BY <1>4, <2>2, <3>1
    <3>4. \A id \in JobIds : marked.jobSeen[id] =
                IF id = job.id THEN m.received + 1 ELSE m.jobSeen[id]
      BY <1>4, <2>2, <3>1
    <3> QED
      BY <1>4, <3>1, <3>2, <3>3, <3>4 DEF IsMarked
  <2>4. m' = MergeJob(marked, job) /\ calls' = calls
    BY <1>2, <1>3, <1>9, <2>1 DEF Receive
  <2> HIDE DEF marked
  <2>5. heard' = [heard EXCEPT ![job.id] = job.state]
    BY <1>1, <1>2, <1>3, <1>9, <2>2
  <2>6. PICK r : r = MergeJob(marked, job)
    OBVIOUS
  <2>7. /\ IsModel(r)
        /\ r.received = m.received + 1 /\ r.listed = m.listed
        /\ r.revision = m.revision /\ r.version = m.version
        /\ \A id \in JobIds : r.jobSeen[id] =
                IF id = job.id THEN m.received + 1 ELSE m.jobSeen[id]
    <3> HIDE DEF IInv
    <3> QED
      BY <1>4, <2>2, <2>3, <2>6, Hearing
  <2>8. m' = r
    BY <2>4, <2>6
  <2>9. /\ m'.received = m.received + 1 /\ m'.listed = m.listed
        /\ m'.revision = m.revision /\ m'.version = m.version
        /\ \A id \in JobIds :
            m'.jobSeen[id] = IF id = job.id THEN m.received + 1 ELSE m.jobSeen[id]
        /\ IsModel(m)'
    BY <2>2, <2>7, <2>8, <1>4 DEF IsModel
  <2>10. heard \in [JobIds -> {"none", "unfinished", "done"}]
    BY DEF Typed, ClientTyped
  <2>11. \A id \in JobIds : heard'[id] = IF id = job.id THEN job.state ELSE heard[id]
    BY <2>5, <2>10
  <2>12. \A call \in calls : call.asked \in Nat /\ call.asked <= m.received
    BY DEF Typed, ClientTyped, IsCall
  <2>13. Typed'
    <3>1. \A call \in calls : IsCall(call)'
      BY <1>4, <2>9, <2>12 DEF Typed, ClientTyped, IsCall
    <3>2. ClientTyped'
      BY <2>2, <2>4, <2>5, <2>9, <2>10, <3>1 DEF ClientTyped
    <3>3. DaemonTyped'
      BY <1>1 DEF Typed, DaemonTyped
    <3> QED
      BY <1>2, <3>2, <3>3 DEF Typed
  <2>14. \A call \in calls : Replied(call)' <=> Replied(call)
    BY <2>9 DEF Replied, InTime
  <2>15. Revisions'
    <3>1. \A i \in DOMAIN ch' :
            /\ ch'[i].kind # "reconnect"
            /\ ch'[i].kind = "list" => ch'[i].list.revision <= revision
      <4> SUFFICES ASSUME NEW i \in DOMAIN ch'
                   PROVE  /\ ch'[i].kind # "reconnect"
                          /\ ch'[i].kind = "list" => ch'[i].list.revision <= revision
        OBVIOUS
      <4>1. i \in Nat /\ i + 1 > 1
        BY <1>2 DEF StreamTyped
      <4> QED
        BY <1>2, <4>1 DEF Revisions
    <3>2. ch[1].kind # "reconnect"
      BY <1>3, <1>9
    <3> QED
      BY <1>1, <1>2, <2>4, <2>9, <2>14, <3>1, <3>2 DEF Revisions
  <2>16. ASSUME History PROVE History'
    <3>1. News'
      <4>1. Told(job.id, job.state)
        BY <1>2, <1>3, <1>9, <2>2, <2>16 DEF History, News
      <4>2. \A id \in JobIds : heard'[id] # "none" => Told(id, heard'[id])
        BY <2>11, <2>16, <4>1 DEF History, News
      <4> QED
        BY <1>1, <1>2, <2>16, <4>2 DEF History, News, Told, Over
    <3>2. Versions'
      BY <1>1, <1>2, <2>4, <2>9, <2>16 DEF History, Versions, InTime
    <3>3. \A call \in calls : m'.jobSeen[job.id] > call.asked
      BY <1>4, <2>2, <2>9, <2>12
    <3>4. Holds'
      BY <1>1, <2>4, <2>9, <2>11, <2>14, <2>16, <3>3 DEF History, Holds, Known
    <3>5. Passed'
      BY <1>1, <2>4, <2>9, <2>11, <2>14, <2>16, <3>3 DEF History, Passed
    <3>6. Ordered'
      <4> SUFFICES ASSUME NEW c \in calls, NEW later \in calls,
                          Replied(c), InTime(later), c.asked < later.asked,
                          NEW id \in JobIds, heard'[id] = "done", m'.jobSeen[id] <= later.asked
                   PROVE  \/ c.reply[1].revision < m.revision
                          \/ Over(c.reply[1].jobs, id)
                          \/ Overtakes(later, c)
        BY <1>1, <2>4, <2>9, <2>14 DEF Ordered, InTime, Overtakes
      <4>1. id # job.id
        BY <1>4, <2>9, <2>12
      <4> QED
        BY <2>9, <2>11, <2>16, <4>1 DEF History, Ordered
    <3> QED
      BY <3>1, <3>2, <3>4, <3>5, <3>6 DEF History
  <2> QED
    BY <1>1, <2>13, <2>15, <2>16
<1> QED
  BY <1>2, <1>3, <1>7, <1>8, <1>9 DEF IsMessage

\* A reply is applied, or came too late.
LEMMA DeliverKeeps ==
    ASSUME IInv, NEW call \in calls, Deliver(call)
    PROVE  IInv'
<1> USE DEF IInv
<1>1. /\ call.reply # <<>> /\ calls' = calls \ {call}
      /\ m' = IF InTime(call) THEN ApplyList(m, call.reply[1], call.asked) ELSE m
      /\ UNCHANGED <<daemonVars, ch, open, heard, budgets>>
  BY DEF Deliver
<1>2. PICK list : list = call.reply[1]
  OBVIOUS
<1>3. /\ IsList(list) /\ list.revision \in Nat /\ list.version \in Nat
      /\ call.asked \in Nat /\ call.asked <= m.received
      /\ IsModel(m) /\ m.revision \in Nat /\ m.version \in Nat
      /\ m.jobSeen \in [JobIds -> Nat]
  BY <1>1, <1>2 DEF Typed, ClientTyped, IsCall, IsSnapshot, IsList, IsModel
<1>4. CASE m' = m
  <2>1. Typed'
    BY <1>1, <1>4 DEF Typed, DaemonTyped, StreamTyped, ClientTyped, IsCall
  <2>2. Revisions'
    BY <1>1, <1>4 DEF Revisions, Replied, InTime
  <2>3. ASSUME History PROVE History'
    <3>1. News'
      BY <1>1, <1>4, <2>3 DEF History, News, Told, Over
    <3>2. Versions'
      BY <1>1, <1>4, <2>3 DEF History, Versions, InTime
    <3>3. Holds' /\ Passed' /\ Ordered'
      BY <1>1, <1>4, <2>3 DEF History, Holds, Passed, Ordered, Replied, InTime, Known,
                              Overtakes
    <3> QED
      BY <3>1, <3>2, <3>3 DEF History
  <2> QED
    BY <1>1, <2>1, <2>2, <2>3
<1>5. CASE InTime(call) /\ list.revision >= m.revision
  <2>1. /\ IsModel(m')
        /\ m'.received = m.received /\ m'.listed = m.listed
        /\ m'.revision = list.revision /\ m'.version = list.version
        /\ \A id \in JobIds : m'.jobSeen[id] # m.jobSeen[id] =>
            m'.jobSeen[id] = 0 /\ m.jobSeen[id] <= call.asked /\ ~ Known(list.jobs, id)
    <3>1. m' = ApplyList(m, list, call.asked)
      BY <1>1, <1>2, <1>5
    <3> HIDE DEF IInv
    <3> QED
      BY <1>3, <1>5, <3>1, Applying
  <2>2. Replied(call)
    BY <1>1, <1>5 DEF Replied
  <2>3. \A c \in calls : (Replied(c)' <=> Replied(c)) /\ (InTime(c)' <=> InTime(c))
    BY <2>1 DEF Replied, InTime
  <2>4. Typed'
    <3>1. \A c \in calls : IsCall(c)'
      BY <2>1 DEF Typed, ClientTyped, IsCall
    <3>2. IsModel(m)'
      BY <2>1 DEF IsModel
    <3>3. ClientTyped'
      BY <1>1, <3>1, <3>2 DEF Typed, ClientTyped
    <3>4. DaemonTyped' /\ StreamTyped'
      BY <1>1 DEF Typed, DaemonTyped, StreamTyped
    <3> QED
      BY <3>3, <3>4 DEF Typed
  <2>5. Revisions'
    BY <1>1, <1>2, <2>1, <2>2, <2>3 DEF Revisions
  <2>6. ASSUME History PROVE History'
    <3>1. News'
      BY <1>1, <2>6 DEF History, News, Told, Over
    <3>2. Versions'
      <4>1. list.version <= version
        BY <1>1, <1>2, <2>6 DEF History, Versions
      <4>2. \A c \in calls : c.reply # <<>> /\ c.reply[1].revision >= list.revision =>
                c.reply[1].version >= list.version
        BY <1>1, <1>2, <2>6 DEF History, Versions
      <4> QED
        BY <1>1, <2>1, <2>6, <4>1, <4>2 DEF History, Versions
    <3>3. Holds'
      <4> SUFFICES ASSUME NEW c \in calls, Replied(c), NEW id \in JobIds,
                          heard[id] # "none", Known(jobs, id)
                   PROVE  m'.jobSeen[id] > c.asked \/ Known(c.reply[1].jobs, id)
        BY <1>1, <2>3 DEF Holds, Known
      <4>1. m.jobSeen[id] > c.asked \/ Known(c.reply[1].jobs, id)
        BY <2>6 DEF History, Holds
      <4>2. m.jobSeen[id] > call.asked \/ Known(list.jobs, id)
        BY <1>2, <2>2, <2>6 DEF History, Holds
      <4>3. m'.jobSeen[id] = m.jobSeen[id]
        BY <1>3, <2>1, <4>2
      <4> QED
        BY <4>1, <4>3
    <3>4. \A c \in calls : c.asked \in Nat /\ (c.reply # <<>> => c.reply[1].revision \in Nat)
      BY DEF Typed, ClientTyped, IsCall, IsSnapshot, IsList
    <3>5. ASSUME NEW c \in calls, Replied(c), c.asked < call.asked,
                 NEW id \in JobIds, heard[id] = "done", m.jobSeen[id] <= call.asked
          PROVE  c.reply[1].revision < m'.revision \/ Over(c.reply[1].jobs, id)
      <4>1. \/ c.reply[1].revision < m.revision
            \/ Over(c.reply[1].jobs, id)
            \/ Overtakes(call, c)
        BY <1>5, <2>6, <3>5 DEF History, Ordered
      <4>2. call.step = "list"
        BY <1>1 DEF Typed, ClientTyped, IsCall
      <4>3. c.reply[1].revision \in Nat
        BY <3>4, <3>5 DEF Replied
      <4> QED
        BY <1>1, <1>2, <1>3, <1>5, <2>1, <4>1, <4>2, <4>3 DEF Overtakes
    <3>6. \A c \in calls : Replied(c) /\ c.reply[1].revision < m.revision =>
                                c.reply[1].revision < m'.revision
      BY <1>3, <1>5, <2>1, <3>4 DEF Replied
    <3>7. Passed'
      <4> SUFFICES ASSUME NEW c \in calls, Replied(c), NEW id \in JobIds, heard[id] = "done"
                   PROVE  \/ m'.jobSeen[id] > c.asked
                          \/ c.reply[1].revision < m'.revision
                          \/ Over(c.reply[1].jobs, id)
        BY <1>1, <2>3 DEF Passed
      <4>1. \/ m.jobSeen[id] > c.asked
            \/ c.reply[1].revision < m.revision
            \/ Over(c.reply[1].jobs, id)
        BY <2>6 DEF History, Passed
      <4>2. CASE m.jobSeen[id] > c.asked /\ m'.jobSeen[id] # m.jobSeen[id]
        <5>1. m.jobSeen[id] <= call.asked /\ c.asked < call.asked
          BY <1>3, <2>1, <3>4, <4>2
        <5> QED
          BY <3>5, <5>1
      <4> QED
        BY <3>6, <4>1, <4>2
    <3>8. Ordered'
      <4> SUFFICES ASSUME NEW c \in calls, NEW later \in calls,
                          Replied(c), InTime(later), c.asked < later.asked,
                          NEW id \in JobIds, heard[id] = "done", m'.jobSeen[id] <= later.asked
                   PROVE  \/ c.reply[1].revision < m'.revision
                          \/ Over(c.reply[1].jobs, id)
                          \/ Overtakes(later, c)
        BY <1>1, <2>3 DEF Ordered, Overtakes
      <4>1. CASE m.jobSeen[id] <= later.asked
        BY <2>6, <3>6, <4>1 DEF History, Ordered
      <4>2. CASE ~ (m.jobSeen[id] <= later.asked)
        <5>1. m'.jobSeen[id] # m.jobSeen[id]
          BY <4>2
        <5>2. m.jobSeen[id] <= call.asked /\ c.asked < call.asked
          BY <1>3, <2>1, <3>4, <4>2, <5>1
        <5> QED
          BY <3>5, <5>2
      <4> QED
        BY <4>1, <4>2
    <3> QED
      BY <3>1, <3>2, <3>3, <3>7, <3>8 DEF History
  <2> QED
    BY <1>1, <2>4, <2>5, <2>6
<1>6. CASE InTime(call) /\ list.revision < m.revision
  <2>1. m' = m
    BY <1>1, <1>2, <1>6 DEF ApplyList
  <2> QED
    BY <1>4, <2>1
<1> QED
  BY <1>1, <1>3, <1>4, <1>5, <1>6

-----------------------------------------------------------------------------
(* The invariant *)

LEMMA Starts == Init => IInv
<1> SUFFICES ASSUME Init PROVE IInv
  OBVIOUS
<1> USE Bounds DEF Init
<1>1. DaemonTyped
  BY DEF DaemonTyped, Distinct, NoRefresh, IsSnapshot
<1>2. StreamTyped
  BY NoStream DEF StreamTyped
<1>3. ASSUME NEW list, list = <<>> PROVE list \in Seq(Job) /\ Distinct(list)
  BY <1>3 DEF Distinct
<1>4. NoModel \in [received : Nat, listed : Nat, revision : Nat, version : Nat,
                   jobs : Seq(Job), jobSeen : [JobIds -> Nat]]
  BY <1>3 DEF NoModel
<1>5. /\ m \in [received : Nat, listed : Nat, revision : Nat, version : Nat,
                jobs : Seq(Job), jobSeen : [JobIds -> Nat]]
      /\ m.jobs = <<>> /\ m.version = 0 /\ m.revision <= 1
      /\ m.listed = m.received
      /\ \A id \in JobIds : m.jobSeen[id] = 0
  <2>1. /\ NoModel.jobs = <<>> /\ NoModel.version = 0 /\ NoModel.revision = 0
        /\ NoModel.listed = 0 /\ NoModel.received = 0
        /\ \A id \in JobIds : NoModel.jobSeen[id] = 0
    BY DEF NoModel
  <2>2. \/ m = NoModel
        \/ m = [NoModel EXCEPT !.received = 1, !.listed = 1, !.revision = 1]
    OBVIOUS
  <2>3. CASE m = [NoModel EXCEPT !.received = 1, !.listed = 1, !.revision = 1]
    <3>1. /\ m.received = 1 /\ m.listed = 1 /\ m.revision = 1
          /\ m.version = NoModel.version /\ m.jobs = NoModel.jobs
          /\ m.jobSeen = NoModel.jobSeen
      BY <1>4, <2>3
    <3>2. m = [received |-> m.received, listed |-> m.listed, revision |-> m.revision,
               version |-> m.version, jobs |-> m.jobs, jobSeen |-> m.jobSeen]
      BY <1>4, <2>3
    <3> QED
      BY <1>4, <2>1, <3>1, <3>2
  <2> QED
    BY <1>4, <2>1, <2>2, <2>3
<1>6. IsModel(m)
  BY <1>3, <1>5 DEF IsModel
<1>7. \A call \in calls : call.reply = <<>> /\ IsCall(call)
  <2>1. CASE calls = {NewCall("list", 0)} /\ m = NoModel
    <3>1. PICK new : new = NewCall("list", 0)
      OBVIOUS
    <3>2. new = [step |-> "list", asked |-> 0, reply |-> <<>>]
      BY <3>1 DEF NewCall
    <3>3. m.received = 0
      BY <2>1 DEF NoModel
    <3>4. IsCall(new) /\ new.reply = <<>>
      BY <3>2, <3>3 DEF IsCall, IsSnapshot
    <3> QED
      BY <2>1, <3>1, <3>4
  <2> QED
    BY <2>1
<1>8. Typed
  BY <1>1, <1>2, <1>6, <1>7 DEF Typed, ClientTyped
<1>9. refresh.snapshot = <<>>
  BY DEF NoRefresh
<1>10. Revisions
  BY <1>5, <1>7, <1>9 DEF Revisions, Replied
<1>11. History
  <2>1. News
    BY DEF News
  <2>2. Versions
    BY <1>5, <1>7, <1>9 DEF Versions
  <2>3. Holds /\ Passed /\ Ordered
    BY <1>7 DEF Holds, Passed, Ordered, Replied
  <2> QED
    BY <2>1, <2>2, <2>3 DEF History
<1> QED
  BY <1>8, <1>10, <1>11 DEF IInv

LEMMA Stutters ==
    ASSUME IInv, UNCHANGED vars
    PROVE  IInv'
<1>1. /\ UNCHANGED <<revision, version, ids, jobs, posting, refresh, ch, open, calls, m, heard>>
      /\ UNCHANGED <<submitted, changes, requests, losses, restarts>>
  BY DEF vars
<1>2. Typed'
  BY <1>1 DEF IInv, Typed, DaemonTyped, StreamTyped, ClientTyped, IsCall
<1>3. Revisions'
  BY <1>1 DEF IInv, Revisions, Replied, InTime
<1>4. ASSUME restarts = 0 PROVE History'
  <2>1. History
    BY <1>4 DEF IInv
  <2>2. News'
    BY <1>1, <2>1 DEF History, News, Told, Over
  <2>3. Versions'
    BY <1>1, <2>1 DEF History, Versions, InTime
  <2>4. Holds' /\ Passed' /\ Ordered'
    BY <1>1, <2>1 DEF History, Holds, Passed, Ordered, Replied, InTime, Known, Overtakes
  <2> QED
    BY <2>2, <2>3, <2>4 DEF History
<1> QED
  BY <1>1, <1>2, <1>3, <1>4 DEF IInv

\* Every state the daemon and its client can reach satisfies the invariant:
\* what is under way is of the right shape, the client knows of no revision the
\* daemon has not had, and as long as the daemon was not replaced every reply
\* under way agrees with what the client heard.
THEOREM Invariance == Spec => []IInv
<1>1. Init => IInv
  BY Starts
<1>2. IInv /\ [Next]_vars => IInv'
  <2> SUFFICES ASSUME IInv, [Next]_vars PROVE IInv'
    OBVIOUS
  <2>1. CASE JobSubmit \/ \E id \in JobIds : JobFinish(id)
    BY <2>1, JobsKeep
  <2>2. CASE \E id \in JobIds : JobPost(id)
    BY <2>2, PostKeeps
  <2>3. CASE RefreshSet
    BY <2>3, SetKeeps
  <2>4. CASE RefreshSnapshot
    BY <2>4, SnapshotKeeps
  <2>5. CASE RefreshPost
    BY <2>5, RefreshPostKeeps
  <2>6. CASE Restart \/ Subscribe \/ Lose
    BY <2>6, BreaksKeep
  <2>7. CASE Ask
    BY <2>7, AskKeeps
  <2>8. CASE Receive
    BY <2>8, ReceiveKeeps
  <2>9. CASE \E call \in calls : ServeRefresh(call)
    BY <2>9, ServeRefreshKeeps
  <2>10. CASE \E call \in calls : Serve(call)
    BY <2>10, ServeKeeps
  <2>11. CASE \E call \in calls : Deliver(call)
    BY <2>11, DeliverKeeps
  <2>12. CASE UNCHANGED vars
    BY <2>12, Stutters
  <2> QED
    BY <2>1, <2>2, <2>3, <2>4, <2>5, <2>6, <2>7, <2>8, <2>9, <2>10, <2>11, <2>12 DEF Next
<1> QED
  BY <1>1, <1>2, PTL DEF Spec

\* The client's marks lie in its past and are of jobs it knows, it lists no job
\* twice, and the subscription holds no more events than its buffer: for any
\* buffer and any number of jobs, also across replaced daemons, whose job ids
\* start again.
THEOREM TypeCorrect == Spec => []TypeOK
<1>1. IInv => TypeOK
  BY DEF IInv, Typed, StreamTyped, ClientTyped, IsModel, Distinct, TypeOK
<1> QED
  BY <1>1, Invariance, PTL

\* A reply never undoes what arrived after it was requested (model.go): until
\* the daemon is replaced, no order of snapshots, events and replies makes a
\* reply set a job to an earlier state than an event reported, drop a job that
\* an event reported and the daemon keeps, or take the connections back.
THEOREM ReplyKept == Spec => ReplyNeverUndoes
<1> DEFINE P == (restarts = 0 /\ \E call \in calls : Deliver(call)) =>
        /\ m'.version >= m.version
        /\ \A i \in DOMAIN m'.jobs :
            m'.jobs[i] \in JobSet(m.jobs) \/ Rank(m'.jobs[i].state) >= Rank(heard[m'.jobs[i].id])
        /\ \A i \in DOMAIN m.jobs :
            heard[m.jobs[i].id] # "none" /\ Known(jobs, m.jobs[i].id)
                => Known(m'.jobs, m.jobs[i].id)
<1>1. IInv /\ [Next]_vars => P
  <2> SUFFICES ASSUME IInv, restarts = 0, NEW call \in calls, Deliver(call)
               PROVE  /\ m'.version >= m.version
                      /\ \A i \in DOMAIN m'.jobs :
                            \/ m'.jobs[i] \in JobSet(m.jobs)
                            \/ Rank(m'.jobs[i].state) >= Rank(heard[m'.jobs[i].id])
                      /\ \A i \in DOMAIN m.jobs :
                            heard[m.jobs[i].id] # "none" /\ Known(jobs, m.jobs[i].id)
                                => Known(m'.jobs, m.jobs[i].id)
    OBVIOUS
  <2>1. /\ call.reply # <<>>
        /\ m' = IF InTime(call) THEN ApplyList(m, call.reply[1], call.asked) ELSE m
    BY DEF Deliver
  <2>2. PICK list : list = call.reply[1]
    OBVIOUS
  <2>3. /\ IsList(list) /\ list.revision \in Nat /\ list.version \in Nat
        /\ call.asked \in Nat /\ IsModel(m) /\ m.revision \in Nat /\ m.version \in Nat
        /\ m.jobs \in Seq(Job) /\ list.jobs \in Seq(Job)
        /\ heard \in [JobIds -> {"none", "unfinished", "done"}]
    BY <2>1, <2>2 DEF IInv, Typed, ClientTyped, IsCall, IsSnapshot, IsList, IsModel
  <2>4. CASE m' = m
    BY <2>3, <2>4 DEF JobSet, Known
  <2>5. CASE InTime(call) /\ list.revision >= m.revision
    <3>1. m' = ApplyList(m, list, call.asked)
      BY <2>1, <2>2, <2>5
    <3>2. /\ m'.version = list.version
          /\ \A id : Known(list.jobs, id) => Known(m'.jobs, id)
          /\ \A id \in JobIds : m.jobSeen[id] > call.asked => Known(m'.jobs, id)
          /\ \A i \in DOMAIN m'.jobs :
                \/ m'.jobs[i] \in JobSet(m.jobs)
                \/ /\ m'.jobs[i] \in JobSet(list.jobs)
                   /\ m.jobSeen[m'.jobs[i].id] <= call.asked
          /\ IsModel(m')
      <4>1. PICK r : r = ApplyList(m, list, call.asked)
        OBVIOUS
      <4>2. /\ r.version = list.version
            /\ \A id : Known(list.jobs, id) => Known(r.jobs, id)
            /\ \A id \in JobIds : m.jobSeen[id] > call.asked => Known(r.jobs, id)
            /\ \A i \in DOMAIN r.jobs :
                \/ r.jobs[i] \in JobSet(m.jobs) /\ m.jobSeen[r.jobs[i].id] > call.asked
                \/ r.jobs[i] \in JobSet(list.jobs) /\ m.jobSeen[r.jobs[i].id] <= call.asked
            /\ IsModel(r)
        <5>1. IsModel(m) /\ IsList(list) /\ call.asked \in Nat /\ list.revision >= m.revision
          BY <2>3, <2>5
        <5> QED
          BY <4>1, <5>1, Applying
      <4> QED
        BY <3>1, <4>1, <4>2
    <3>3. Replied(call) /\ Holds /\ Passed
      BY <2>1, <2>5 DEF Replied, IInv, History
    <3>4. m'.version >= m.version
      BY <2>1, <2>2, <2>5, <3>2 DEF IInv, History, Versions
    <3>5. ASSUME NEW i \in DOMAIN m'.jobs, m'.jobs[i] \in JobSet(list.jobs),
                 m.jobSeen[m'.jobs[i].id] <= call.asked
          PROVE  Rank(m'.jobs[i].state) >= Rank(heard[m'.jobs[i].id])
      <4>1. PICK k \in DOMAIN list.jobs : list.jobs[k] = m'.jobs[i]
        BY <3>5 DEF JobSet
      <4>2. PICK job : job = list.jobs[k]
        OBVIOUS
      <4>3. job \in Job
        BY <2>3, <4>2, SeqElements
      <4>4. job.id \in JobIds /\ job.state \in {"unfinished", "done"}
        BY <4>3 DEF Job
      <4>5. heard[job.id] = "done" => job.state = "done"
        <5> SUFFICES ASSUME heard[job.id] = "done" PROVE job.state = "done"
          OBVIOUS
        <5>1. m.jobSeen[job.id] <= call.asked /\ m.jobSeen[job.id] \in Nat
          BY <2>3, <3>5, <4>1, <4>2, <4>4 DEF IsModel
        <5>2. Over(list.jobs, job.id)
          BY <2>2, <2>3, <2>5, <3>3, <4>4, <5>1 DEF Passed
        <5> QED
          BY <4>2, <5>2 DEF Over
      <4>6. heard[job.id] \in {"none", "unfinished", "done"}
        BY <2>3, <4>4
      <4>7. Rank(job.state) >= Rank(heard[job.id])
        <5> DEFINE a == job.state
                   b == heard[job.id]
        <5> HIDE DEF a, b
        <5>1. a \in {"unfinished", "done"} /\ b \in {"none", "unfinished", "done"}
              /\ (b = "done" => a = "done")
          BY <4>4, <4>5, <4>6 DEF a, b
        <5>2. Rank(a) >= Rank(b)
          BY <5>1 DEF Rank
        <5> QED
          BY <5>2 DEF a, b
      <4> QED
        BY <4>1, <4>2, <4>7
    <3>6. ASSUME NEW i \in DOMAIN m.jobs, heard[m.jobs[i].id] # "none",
                 Known(jobs, m.jobs[i].id)
          PROVE  Known(m'.jobs, m.jobs[i].id)
      <4>1. m.jobs[i] \in Job
        BY <2>3, SeqElements
      <4>2. m.jobs[i].id \in JobIds
        BY <4>1 DEF Job
      <4>3. m.jobSeen[m.jobs[i].id] > call.asked \/ Known(list.jobs, m.jobs[i].id)
        BY <2>2, <3>3, <3>6, <4>2 DEF Holds
      <4> QED
        BY <3>2, <4>2, <4>3
    <3> QED
      BY <3>2, <3>4, <3>5, <3>6
  <2>6. CASE InTime(call) /\ list.revision < m.revision
    <3>1. m' = m
      BY <2>1, <2>2, <2>6 DEF ApplyList
    <3> QED
      BY <2>4, <3>1
  <2>7. InTime(call) => list.revision >= m.revision \/ list.revision < m.revision
    BY <2>3
  <2>8. ~ InTime(call) => m' = m
    BY <2>1
  <2> QED
    BY <2>4, <2>5, <2>6, <2>7, <2>8
<1> HIDE DEF P
<1>2. Spec => [][P]_vars
  BY <1>1, Invariance, PTL DEF Spec
<1> QED
  BY <1>2 DEF P, ReplyNeverUndoes

\* Reading the list again makes up for anything missed (docs/design.md): a reply
\* that was requested and taken while nothing else was under way leaves the
\* client with exactly the daemon's connections and jobs, whatever was lost and
\* however often the daemon was replaced before.
THEOREM Rereads == Spec => RereadAgrees
<1> DEFINE P == \A call \in calls :
        (/\ Deliver(call) /\ Quiet
         /\ call.asked = m.received /\ call.reply = <<Snapshot>>) => Agree'
<1>1. IInv /\ [Next]_vars => P
  <2> SUFFICES ASSUME IInv, NEW call \in calls, Deliver(call), Quiet,
                      call.asked = m.received, call.reply = <<Snapshot>>
               PROVE  Agree'
    OBVIOUS
  <2>1. PICK list : list = Snapshot
    OBVIOUS
  <2>2. /\ IsList(list) /\ list.revision = revision /\ list.version = version
        /\ list.jobs = jobs /\ call.reply[1] = list
    BY <2>1, Taken DEF IInv
  <2>3. /\ IsModel(m) /\ m.received \in Nat /\ m.listed <= m.received
        /\ \A id \in JobIds : m.jobSeen[id] <= m.received
        /\ call.asked \in Nat
    BY DEF IInv, Typed, ClientTyped, IsCall, IsModel
  <2>4. list.revision >= m.revision
    BY <2>2 DEF IInv, Revisions, Quiet, Typed, DaemonTyped, ClientTyped, IsModel
  <2>5. m' = ApplyList(m, list, call.asked) /\ version' = version /\ jobs' = jobs
    BY <2>2, <2>3 DEF Deliver, InTime
  <2>6. /\ m'.version = version /\ IsModel(m')
        /\ \A i \in DOMAIN m'.jobs :
            \/ m'.jobs[i] \in JobSet(m.jobs) /\ m.jobSeen[m'.jobs[i].id] > call.asked
            \/ m'.jobs[i] \in JobSet(jobs)
        /\ \A k \in DOMAIN jobs :
            m.jobSeen[jobs[k].id] <= call.asked => jobs[k] \in JobSet(m'.jobs)
    BY <2>2, <2>3, <2>4, <2>5, Applying
  <2>7. JobSet(m'.jobs) \subseteq JobSet(jobs)
    <3>1. ASSUME NEW i \in DOMAIN m'.jobs PROVE m'.jobs[i] \in JobSet(jobs)
      <4>1. m'.jobs \in Seq(Job)
        BY <2>6 DEF IsModel
      <4>2. m'.jobs[i] \in Job
        BY <4>1, SeqElements
      <4>3. m'.jobs[i].id \in JobIds
        BY <4>2 DEF Job
      <4>4. m.jobSeen[m'.jobs[i].id] \in Nat
        BY <2>3, <4>3 DEF IsModel
      <4> QED
        BY <2>3, <2>6, <4>3, <4>4
    <3> QED
      BY <3>1 DEF JobSet
  <2>8. JobSet(jobs) \subseteq JobSet(m'.jobs)
    <3>1. ASSUME NEW k \in DOMAIN jobs PROVE jobs[k] \in JobSet(m'.jobs)
      <4>1. jobs \in Seq(Job)
        BY DEF IInv, Typed, DaemonTyped
      <4>2. jobs[k] \in Job
        BY <4>1, SeqElements
      <4>3. jobs[k].id \in JobIds
        BY <4>2 DEF Job
      <4> QED
        BY <2>3, <2>6, <4>3
    <3>2. JobSet(jobs) = {jobs[k] : k \in DOMAIN jobs}
      BY DEF JobSet
    <3> QED
      BY <3>1, <3>2
  <2> QED
    BY <2>5, <2>6, <2>7, <2>8, SMTT(30) DEF Agree, JobSet
<1> HIDE DEF P
<1>2. Spec => [][P]_vars
  BY <1>1, Invariance, PTL DEF Spec
<1> QED
  BY <1>2 DEF P, RereadAgrees
=============================================================================
