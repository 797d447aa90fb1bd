----------------------------- MODULE IntakeProofs -----------------------------
(***************************************************************************)
(* Proofs about Intake: that a job gets the NZB it was added for, and an   *)
(* item of a feed one job, for any number of files, uploads, requests,     *)
(* feeds and restarts.                                                     *)
(***************************************************************************)
EXTENDS Intake, SequenceTheorems, TLAPS

-----------------------------------------------------------------------------
(* The inductive invariant.                                                *)

\* The file a job was made of is still there, at its path, unless somebody has
\* written to it; what the engine reads is this file.
JobFits(j) ==
    /\ j.from = "watch" =>
          /\ j.key \in Files /\ j.what \in Contents
          /\ ~j.spoilt => dir[j.key] = j.what
    /\ j.from = "upload" =>
          /\ j.key \in Names /\ j.what \in Contents
          /\ ~j.spoilt => saved[j.key] = j.what
    /\ /\ j.from \in {"watch", "upload"}
       /\ j.status \in {"failed", "downloading", "completed"}
       /\ ~j.spoilt
       => j.read = j.what

JobsOK ==
    /\ jobs \in Seq(Job) /\ Len(jobs) <= MaxJobs
    /\ \A n \in DOMAIN jobs : JobFits(jobs[n])

FilesOK ==
    /\ dir \in [Files -> Contents \cup {None, Partial, Bad}]
    /\ saved \in [Names -> Contents \cup {None, Partial}]
    /\ stored \subseteq DOMAIN jobs

\* What the watcher has parsed is what is there, unless it was touched since.
WatchOK ==
    /\ todo \subseteq Files
    /\ parsed \in Parsed \cup {None}
    /\ parsed # None /\ ~parsed.spoilt => parsed.what = ParseFile(dir[parsed.file])

\* A request between the open and addAndPersistJob.
Uploading(c, name) == request[c] # None /\ request[c].pc # "added" /\ request[c].name = name

\* Who has a name to himself finds there what he has written; two uploads of a
\* name at a time are spoilt, and so is a job whose name is uploaded again.
UploadsOK ==
    /\ request \in [Clients -> Request \cup {None}]
    /\ \A c \in Clients : request[c] # None /\ request[c].pc = "added"
                             => request[c].job \in DOMAIN jobs
    /\ \A c \in Clients, name \in Names : Uploading(c, name) =>
          /\ request[c].pc = "saved" /\ ~request[c].spoilt
                => saved[name] = request[c].what
          /\ \A d \in Clients \ {c} : Uploading(d, name) => request[c].spoilt
          /\ \A n \in DOMAIN jobs :
                jobs[n].from = "upload" /\ jobs[n].key = name => jobs[n].spoilt

\* A job of this process that came from a feed.
FromFeed(n) == jobs[n].from = "rss" /\ jobs[n].recent

\* Its item is marked as seen, and no other has the same key.
FeedsOK ==
    /\ items \in Seq(Items)
    /\ \A n \in DOMAIN jobs : FromFeed(n) => ItemKey(jobs[n].key) \in seen
    /\ \A m, n \in DOMAIN jobs :
          /\ FromFeed(m) /\ FromFeed(n)
          /\ ItemKey(jobs[m].key) = ItemKey(jobs[n].key)
          => m = n

IndInv == JobsOK /\ FilesOK /\ WatchOK /\ UploadsOK /\ FeedsOK

LEMMA InitIndInv == Init => IndInv
<1>. SUFFICES ASSUME Init PROVE IndInv
  OBVIOUS
<1>1. jobs = <<>> /\ DOMAIN jobs = {} /\ Len(jobs) = 0 /\ jobs \in Seq(Job)
  BY DEF Init
<1>. QED
  BY <1>1, MaxJobsIsNat
     DEF Init, IndInv, JobsOK, FilesOK, WatchOK, UploadsOK, Uploading, FeedsOK

-----------------------------------------------------------------------------
(* What a step does to the jobs.                                           *)

\* The jobs are the same ones; one may have been spoilt.
SameJobs ==
    /\ jobs' \in Seq(Job) /\ Len(jobs') = Len(jobs) /\ DOMAIN jobs' = DOMAIN jobs
    /\ \A n \in DOMAIN jobs :
          /\ jobs'[n].from = jobs[n].from
          /\ jobs'[n].key = jobs[n].key
          /\ jobs'[n].what = jobs[n].what
          /\ jobs'[n].recent = jobs[n].recent
          /\ jobs[n].spoilt => jobs'[n].spoilt

LEMMA JobsAre ==
    ASSUME JobsOK
    PROVE  /\ jobs \in Seq(Job) /\ Len(jobs) \in Nat /\ DOMAIN jobs = 1..Len(jobs)
           /\ \A n \in DOMAIN jobs : jobs[n] \in Job
<1>1. jobs \in Seq(Job)
  BY DEF JobsOK
<1>. QED
  BY <1>1

\* jobs', given entry by entry.
LEMMA NewJobs ==
    ASSUME JobsOK, jobs' = [n \in DOMAIN jobs |-> jobs'[n]],
           \A n \in DOMAIN jobs : jobs'[n] \in Job
    PROVE  jobs' \in Seq(Job) /\ Len(jobs') = Len(jobs) /\ DOMAIN jobs' = DOMAIN jobs
<1>1. Len(jobs) \in Nat /\ DOMAIN jobs = 1..Len(jobs)
  BY JobsAre
<1>2. jobs' \in [1..Len(jobs) -> Job]
  BY <1>1
<1>. QED
  BY <1>1, <1>2

LEMMA UntouchedJobs == JobsOK /\ UNCHANGED jobs => SameJobs
BY JobsAre DEF SameJobs

LEMMA SpoilIs ==
    ASSUME JobsOK, NEW from, NEW key, jobs' = Spoil(from, key)
    PROVE  /\ SameJobs
           /\ \A n \in DOMAIN jobs :
                 /\ jobs'[n].read = jobs[n].read /\ jobs'[n].status = jobs[n].status
                 /\ jobs'[n].spoilt <=>
                       jobs[n].spoilt \/ (jobs[n].from = from /\ jobs[n].key = key)
<1>1. ASSUME NEW n \in DOMAIN jobs
      PROVE  /\ jobs'[n] \in Job
             /\ jobs'[n].from = jobs[n].from /\ jobs'[n].key = jobs[n].key
             /\ jobs'[n].what = jobs[n].what /\ jobs'[n].recent = jobs[n].recent
             /\ jobs'[n].read = jobs[n].read /\ jobs'[n].status = jobs[n].status
             /\ jobs'[n].spoilt =
                   (jobs[n].spoilt \/ (jobs[n].from = from /\ jobs[n].key = key))
  <2>. DEFINE hit == jobs[n].spoilt \/ (jobs[n].from = from /\ jobs[n].key = key)
  <2>1. jobs'[n] = [jobs[n] EXCEPT !.spoilt = hit]
    BY DEF Spoil
  <2>2. hit \in BOOLEAN /\ jobs[n] \in Job
    BY JobsAre DEF Job
  <2>. HIDE DEF hit
  <2>3. /\ jobs'[n] \in Job
        /\ jobs'[n].from = jobs[n].from /\ jobs'[n].key = jobs[n].key
        /\ jobs'[n].what = jobs[n].what /\ jobs'[n].recent = jobs[n].recent
        /\ jobs'[n].read = jobs[n].read /\ jobs'[n].status = jobs[n].status
        /\ jobs'[n].spoilt = hit
    BY <2>1, <2>2 DEF Job
  <2>. QED
    BY <2>3 DEF hit
<1>2. jobs' = [n \in DOMAIN jobs |-> jobs'[n]]
  BY DEF Spoil
<1>3. jobs' \in Seq(Job) /\ Len(jobs') = Len(jobs) /\ DOMAIN jobs' = DOMAIN jobs
  BY <1>1, <1>2, NewJobs
<1>. QED
  BY <1>1, <1>3 DEF SameJobs

LEMMA NewJobIs ==
    ASSUME NEW from \in {"watch", "rss", "upload", "url"},
           NEW key \in Files \cup Items \cup Names \cup {None},
           NEW what \in Contents \cup {None}, NEW spoilt \in BOOLEAN
    PROVE  LET j == NewJob(from, key, what, spoilt) IN
           /\ j \in Job /\ j.from = from /\ j.key = key /\ j.what = what
           /\ j.spoilt = spoilt /\ j.status = "queued"
BY DEF NewJob, Job

LEMMA AddIs ==
    ASSUME JobsOK, NEW j \in Job, Add(j)
    PROVE  \E new \in Nat :
           /\ new = Len(jobs) + 1 /\ new <= MaxJobs
           /\ jobs' \in Seq(Job) /\ Len(jobs') = new
           /\ DOMAIN jobs' = DOMAIN jobs \cup {new} /\ new \notin DOMAIN jobs
           /\ \A n \in DOMAIN jobs : jobs'[n] = jobs[n]
           /\ jobs'[new] = j
<1>1. Len(jobs) < MaxJobs /\ jobs' = Append(jobs, j)
  BY DEF Add
<1>2. /\ jobs' \in Seq(Job) /\ Len(jobs') = Len(jobs) + 1
      /\ \A n \in 1..Len(jobs) : jobs'[n] = jobs[n]
      /\ jobs'[Len(jobs) + 1] = j
  BY <1>1, JobsAre, AppendProperties
<1>3. DOMAIN jobs' = 1..Len(jobs) + 1
  BY <1>2
<1>4. Len(jobs) + 1 \in Nat
  BY JobsAre
<1>. WITNESS Len(jobs) + 1 \in Nat
<1>. QED
  BY <1>1, <1>2, <1>3, JobsAre, MaxJobsIsNat

\* The engine changes the status of a job and what it has read.
LEMMA EngineIs ==
    ASSUME JobsOK, NEW n \in DOMAIN jobs, NEW job \in Job,
           jobs' = [jobs EXCEPT ![n] = job],
           job.from = jobs[n].from, job.key = jobs[n].key, job.what = jobs[n].what,
           job.recent = jobs[n].recent, job.spoilt = jobs[n].spoilt
    PROVE  SameJobs /\ jobs'[n] = job /\ \A m \in DOMAIN jobs \ {n} : jobs'[m] = jobs[m]
<1>1. \A m \in DOMAIN jobs : jobs'[m] = IF m = n THEN job ELSE jobs[m]
  BY JobsAre
<1>2. \A m \in DOMAIN jobs : jobs'[m] \in Job
  BY <1>1, JobsAre
<1>3. jobs' = [m \in DOMAIN jobs |-> jobs'[m]]
  BY JobsAre
<1>4. jobs' \in Seq(Job) /\ Len(jobs') = Len(jobs) /\ DOMAIN jobs' = DOMAIN jobs
  BY <1>2, <1>3, NewJobs
<1>. QED
  BY <1>1, <1>4 DEF SameJobs

-----------------------------------------------------------------------------
(* The parts of the invariant that a step does not touch.                  *)

LEMMA SameFiles == FilesOK /\ SameJobs /\ UNCHANGED <<dir, saved, stored>> => FilesOK'
BY DEF FilesOK, SameJobs

LEMMA SameWatch == WatchOK /\ UNCHANGED <<dir, watchVars>> => WatchOK'
BY DEF WatchOK, watchVars

LEMMA SameUploads == UploadsOK /\ SameJobs /\ UNCHANGED <<saved, request>> => UploadsOK'
BY DEF UploadsOK, Uploading, SameJobs

LEMMA SameFeeds == FeedsOK /\ SameJobs /\ UNCHANGED rssVars => FeedsOK'
BY DEF FeedsOK, FromFeed, SameJobs, rssVars

LEMMA UntouchedJobsFit == JobsOK /\ UNCHANGED <<jobs, dir, saved>> => JobsOK'
BY DEF JobsOK, JobFits

-----------------------------------------------------------------------------
(* The watch directory.                                                    *)

\* Whoever changes a file of the watch directory spoils the jobs made of it, so
\* the others still fit.
LEMMA DirJobsFit ==
    ASSUME JobsOK, FilesOK, NEW f, jobs' = Spoil("watch", f), UNCHANGED saved,
           \A g \in Files \ {f} : dir'[g] = dir[g]
    PROVE  JobsOK' /\ SameJobs
<1>1. /\ SameJobs
      /\ \A n \in DOMAIN jobs :
            /\ jobs'[n].read = jobs[n].read /\ jobs'[n].status = jobs[n].status
            /\ jobs'[n].spoilt <=>
                  jobs[n].spoilt \/ (jobs[n].from = "watch" /\ jobs[n].key = f)
  BY SpoilIs
<1>2. ASSUME NEW n \in DOMAIN jobs PROVE JobFits(jobs[n])'
  BY <1>1, <1>2 DEF JobsOK, JobFits, SameJobs
<1>. QED
  BY <1>1, <1>2 DEF JobsOK, SameJobs

LEMMA TouchStep ==
    ASSUME IndInv, NEW f \in Files, NEW content \in Contents \cup {None, Partial, Bad},
           Touch(f, content)
    PROVE  IndInv'
<1>1. /\ dir' = [dir EXCEPT ![f] = content] /\ jobs' = Spoil("watch", f)
      /\ parsed' = IF parsed # None /\ parsed.file = f
                   THEN [parsed EXCEPT !.spoilt = TRUE] ELSE parsed
      /\ UNCHANGED <<saved, stored, todo, rssVars, request>>
  BY DEF Touch
<1>2. /\ dir' \in [Files -> Contents \cup {None, Partial, Bad}]
      /\ \A g \in Files \ {f} : dir'[g] = dir[g]
  BY <1>1 DEF IndInv, FilesOK
<1>3. JobsOK' /\ SameJobs
  BY <1>1, <1>2, DirJobsFit DEF IndInv
<1>4. FilesOK'
  BY <1>1, <1>2, <1>3 DEF IndInv, FilesOK, SameJobs
<1>5. WatchOK'
  <2>1. CASE parsed # None /\ parsed.file = f
    <3>1. parsed \in Parsed /\ parsed' = [parsed EXCEPT !.spoilt = TRUE]
      BY <1>1, <2>1 DEF IndInv, WatchOK
    <3>2. parsed' \in Parsed /\ parsed'.spoilt
      BY <3>1 DEF Parsed
    <3>. QED
      BY <1>1, <3>2 DEF IndInv, WatchOK
  <2>2. CASE ~(parsed # None /\ parsed.file = f)
    <3>1. parsed' = parsed /\ (parsed # None => parsed.file \in Files \ {f})
      BY <1>1, <2>2 DEF IndInv, WatchOK, Parsed
    <3>. QED
      BY <1>1, <1>2, <3>1 DEF IndInv, WatchOK
  <2>. QED
    BY <2>1, <2>2
<1>. QED
  BY <1>1, <1>3, <1>4, <1>5, SameUploads, SameFeeds DEF IndInv

LEMMA UserStep ==
    ASSUME IndInv, NEW f \in Files, CopyBegins(f) \/ CopyEnds(f) \/ TakeAway(f)
    PROVE  IndInv'
<1>1. \E content \in Contents \cup {None, Partial, Bad} : Touch(f, content)
  BY DEF CopyBegins, CopyEnds, TakeAway
<1>. QED
  BY <1>1, TouchStep

LEMMA ScanStep == IndInv /\ Scan => IndInv'
<1>. SUFFICES ASSUME IndInv, Scan PROVE IndInv'
  OBVIOUS
<1>1. /\ todo' \subseteq Files
      /\ UNCHANGED <<dir, saved, jobs, stored, parsed, rssVars, request>>
  BY DEF Scan
<1>2. SameJobs /\ JobsOK'
  BY <1>1, UntouchedJobs, UntouchedJobsFit DEF IndInv
<1>3. WatchOK'
  BY <1>1 DEF IndInv, WatchOK
<1>. QED
  BY <1>1, <1>2, <1>3, SameFiles, SameUploads, SameFeeds DEF IndInv

LEMMA ParseFileType == \A content : ParseFile(content) \in Contents \cup {None}
BY DEF ParseFile

LEMMA ParseEntryStep ==
    ASSUME IndInv, NEW f \in Files, ParseEntry(f)
    PROVE  IndInv'
<1>1. /\ todo' = todo \ {f}
      /\ parsed' = [file |-> f, what |-> ParseFile(dir[f]), spoilt |-> FALSE]
      /\ UNCHANGED <<dir, saved, jobs, stored, rssVars, request>>
  BY DEF ParseEntry
<1>2. SameJobs /\ JobsOK'
  BY <1>1, UntouchedJobs, UntouchedJobsFit DEF IndInv
<1>3. parsed' \in Parsed /\ parsed'.what = ParseFile(dir[parsed'.file])
  BY <1>1, ParseFileType DEF Parsed
<1>4. WatchOK'
  BY <1>1, <1>3 DEF IndInv, WatchOK
<1>. QED
  BY <1>1, <1>2, <1>4, SameFiles, SameUploads, SameFeeds DEF IndInv

LEMMA SetAsideStep == IndInv /\ SetAside => IndInv'
<1>. SUFFICES ASSUME IndInv, SetAside PROVE IndInv'
  OBVIOUS
<1>. DEFINE f == parsed.file
<1>1. /\ parsed # None /\ dir' = [dir EXCEPT ![f] = None]
      /\ jobs' = Spoil("watch", f) /\ parsed' = None
      /\ UNCHANGED <<saved, stored, todo, rssVars, request>>
  BY DEF SetAside
<1>2. /\ dir' \in [Files -> Contents \cup {None, Partial, Bad}]
      /\ \A g \in Files \ {f} : dir'[g] = dir[g]
  BY <1>1 DEF IndInv, FilesOK
<1>3. JobsOK' /\ SameJobs
  BY <1>1, <1>2, DirJobsFit DEF IndInv
<1>4. FilesOK'
  BY <1>1, <1>2, <1>3 DEF IndInv, FilesOK, SameJobs
<1>5. WatchOK'
  BY <1>1 DEF IndInv, WatchOK
<1>. QED
  BY <1>1, <1>3, <1>4, <1>5, SameUploads, SameFeeds DEF IndInv

\* A job that is added fits if what it was made of is at its path.
LEMMA AddedFits ==
    ASSUME JobsOK, NEW j \in Job, Add(j), j.status = "queued", UNCHANGED <<dir, saved>>,
           j.from = "watch" => /\ j.key \in Files /\ j.what \in Contents
                               /\ ~j.spoilt => dir[j.key] = j.what,
           j.from = "upload" => /\ j.key \in Names /\ j.what \in Contents
                                /\ ~j.spoilt => saved[j.key] = j.what
    PROVE  JobsOK'
<1>1. PICK new \in Nat :
         /\ jobs' \in Seq(Job) /\ Len(jobs') = new /\ new <= MaxJobs
         /\ DOMAIN jobs' = DOMAIN jobs \cup {new}
         /\ \A n \in DOMAIN jobs : jobs'[n] = jobs[n]
         /\ jobs'[new] = j
  BY AddIs
<1>2. JobFits(jobs[new])'
  BY <1>1 DEF JobFits
<1>3. ASSUME NEW n \in DOMAIN jobs PROVE JobFits(jobs[n])'
  BY <1>1, <1>3 DEF JobsOK, JobFits
<1>4. \A n \in DOMAIN jobs' : JobFits(jobs[n])'
  BY <1>1, <1>2, <1>3
<1>. QED
  BY <1>1, <1>4 DEF JobsOK

\* A job that does not come from a feed changes nothing there.
LEMMA FeedsDoNotSee ==
    ASSUME JobsOK, FeedsOK, NEW j \in Job, Add(j), j.from # "rss", UNCHANGED rssVars
    PROVE  FeedsOK'
<1>1. PICK new \in Nat :
         /\ DOMAIN jobs' = DOMAIN jobs \cup {new}
         /\ \A n \in DOMAIN jobs : jobs'[n] = jobs[n]
         /\ jobs'[new] = j
  BY AddIs
<1>2. \A n \in DOMAIN jobs' : FromFeed(n)' => n \in DOMAIN jobs /\ FromFeed(n)
  BY <1>1 DEF FromFeed
<1>. QED
  BY <1>1, <1>2 DEF FeedsOK, rssVars

LEMMA AddFileStep == IndInv /\ AddFile => IndInv'
<1>. SUFFICES ASSUME IndInv, AddFile PROVE IndInv'
  OBVIOUS
<1>. DEFINE j == NewJob("watch", parsed.file, parsed.what, parsed.spoilt)
<1>1. /\ parsed # None /\ parsed.what # None /\ Add(j) /\ parsed' = None
      /\ UNCHANGED <<dir, saved, stored, todo, rssVars, request>>
  BY DEF AddFile
<1>2. /\ parsed.file \in Files /\ parsed.what \in Contents /\ parsed.spoilt \in BOOLEAN
      /\ ~parsed.spoilt => dir[parsed.file] = parsed.what
  BY <1>1 DEF IndInv, WatchOK, Parsed, ParseFile
<1>3. /\ j \in Job /\ j.from = "watch" /\ j.key = parsed.file /\ j.what = parsed.what
      /\ j.spoilt = parsed.spoilt /\ j.status = "queued"
  BY <1>2, NewJobIs
<1>. HIDE DEF j
<1>4. JobsOK'
  BY <1>1, <1>2, <1>3, AddedFits DEF IndInv
<1>5. FeedsOK'
  BY <1>1, <1>3, FeedsDoNotSee DEF IndInv
<1>6. PICK new \in Nat : /\ DOMAIN jobs' = DOMAIN jobs \cup {new}
                         /\ \A n \in DOMAIN jobs : jobs'[n] = jobs[n]
                         /\ jobs'[new] = j
  BY <1>1, <1>3, AddIs DEF IndInv
<1>7. FilesOK' /\ WatchOK'
  BY <1>1, <1>6 DEF IndInv, FilesOK, WatchOK
<1>8. UploadsOK'
  BY <1>1, <1>3, <1>6 DEF IndInv, UploadsOK, Uploading
<1>. QED
  BY <1>4, <1>5, <1>7, <1>8 DEF IndInv

-----------------------------------------------------------------------------
(* The feeds.                                                              *)

LEMMA PollFeedStep ==
    ASSUME IndInv, NEW feed \in Feeds, PollFeed(feed)
    PROVE  IndInv'
<1>1. items' = feed /\ UNCHANGED <<dir, saved, jobs, stored, watchVars, seen, request>>
  BY DEF PollFeed
<1>2. SameJobs /\ JobsOK'
  BY <1>1, UntouchedJobs, UntouchedJobsFit DEF IndInv
<1>3. FeedsOK'
  BY <1>1, FeedsAreItems DEF IndInv, FeedsOK, FromFeed
<1>. QED
  BY <1>1, <1>2, <1>3, SameFiles, SameUploads, SameWatch DEF IndInv

LEMMA PollItemStep == IndInv /\ PollItem => IndInv'
<1>. SUFFICES ASSUME IndInv, PollItem PROVE IndInv'
  OBVIOUS
<1>0. PICK item : item = Head(items)
  OBVIOUS
<1>1. /\ items # <<>> /\ items' = Tail(items) /\ seen' = seen \cup {ItemKey(item)}
      /\ UNCHANGED <<dir, saved, stored, watchVars, request>>
  BY <1>0 DEF PollItem
<1>2. items' \in Seq(Items) /\ item \in Items
  BY <1>0, <1>1 DEF IndInv, FeedsOK
<1>3. CASE jobs' = jobs
  <2>1. SameJobs /\ JobsOK'
    BY <1>1, <1>3, UntouchedJobs, UntouchedJobsFit DEF IndInv
  <2>2. FeedsOK'
    BY <1>1, <1>2, <1>3 DEF IndInv, FeedsOK, FromFeed
  <2>. QED
    BY <1>1, <2>1, <2>2, SameFiles, SameUploads, SameWatch DEF IndInv
<1>4. CASE ItemKey(item) \notin seen /\ Add(NewJob("rss", item, None, FALSE))
  <2>. DEFINE j == NewJob("rss", item, None, FALSE)
  <2>1. j \in Job /\ j.from = "rss" /\ j.key = item /\ j.status = "queued"
    BY <1>2 DEF NewJob, Job
  <2>. HIDE DEF j
  <2>2. PICK new \in Nat :
           /\ DOMAIN jobs' = DOMAIN jobs \cup {new} /\ new \notin DOMAIN jobs
           /\ \A n \in DOMAIN jobs : jobs'[n] = jobs[n]
           /\ jobs'[new] = j
    BY <1>4, <2>1, AddIs DEF IndInv, j
  <2>a. JobsOK'
    BY <1>1, <1>4, <2>1, AddedFits DEF IndInv, j
  <2>3. \A n \in DOMAIN jobs : FromFeed(n)' = FromFeed(n)
    BY <2>2 DEF FromFeed
  <2>4. FeedsOK'
    <3>1. ASSUME NEW n \in DOMAIN jobs', FromFeed(n)'
          PROVE  ItemKey(jobs'[n].key) \in seen'
      BY <1>1, <2>1, <2>2, <2>3, <3>1 DEF IndInv, FeedsOK
    <3>2. ASSUME NEW m \in DOMAIN jobs', NEW n \in DOMAIN jobs',
                 FromFeed(m)', FromFeed(n)',
                 ItemKey(jobs'[m].key) = ItemKey(jobs'[n].key)
          PROVE  m = n
      <4>1. CASE m \in DOMAIN jobs /\ n \in DOMAIN jobs
        BY <2>2, <2>3, <3>2, <4>1 DEF IndInv, FeedsOK
      <4>2. CASE m = new /\ n \in DOMAIN jobs
        BY <1>4, <2>1, <2>2, <2>3, <3>2, <4>2 DEF IndInv, FeedsOK
      <4>3. CASE m \in DOMAIN jobs /\ n = new
        BY <1>4, <2>1, <2>2, <2>3, <3>2, <4>3 DEF IndInv, FeedsOK
      <4>. QED
        BY <2>2, <4>1, <4>2, <4>3
    <3>3. items' \in Seq(Items)
      BY <1>2
    <3>. QED
      BY <3>1, <3>2, <3>3, Zenon DEF FeedsOK, ItemKey
  <2>5. FilesOK'
    BY <1>1, <2>2 DEF IndInv, FilesOK
  <2>6. UploadsOK'
    BY <1>1, <2>1, <2>2 DEF IndInv, UploadsOK, Uploading
  <2>. QED
    BY <1>1, <2>a, <2>4, <2>5, <2>6, SameWatch DEF IndInv
<1>. QED
  BY <1>0, <1>3, <1>4 DEF PollItem

-----------------------------------------------------------------------------
(* The requests.                                                           *)

LEMMA RequestIs ==
    ASSUME NEW r \in Request
    PROVE  /\ r.pc \in {"saving", "saved", "added"}
           /\ r.pc # "added" => /\ r \in [pc : {"saving", "saved"}, name : Names,
                                          what : Contents, spoilt : BOOLEAN]
                                /\ r.name \in Names /\ r.what \in Contents
                                /\ r.spoilt \in BOOLEAN
BY DEF Request

LEMMA UploadBeginsStep ==
    ASSUME IndInv, NEW c \in Clients, NEW name \in Names, NEW what \in Contents,
           UploadBegins(c, name, what)
    PROVE  IndInv'
<1>. DEFINE new == [pc |-> "saving", name |-> name, what |-> what,
                    spoilt |-> SameName(name) # {}]
            spoilt(d) == [request[d] EXCEPT !.spoilt = TRUE]
<1>1. /\ request[c] = None
      /\ saved' = [saved EXCEPT ![name] = Partial]
      /\ request' = [d \in Clients |-> IF d = c THEN new
                                       ELSE IF d \in SameName(name) THEN spoilt(d)
                                       ELSE request[d]]
      /\ jobs' = Spoil("upload", name)
      /\ UNCHANGED <<dir, stored, watchVars, rssVars>>
  BY DEF UploadBegins, Idle
<1>2. /\ SameJobs
      /\ \A n \in DOMAIN jobs :
            /\ jobs'[n].read = jobs[n].read /\ jobs'[n].status = jobs[n].status
            /\ jobs'[n].spoilt <=>
                  jobs[n].spoilt \/ (jobs[n].from = "upload" /\ jobs[n].key = name)
  BY <1>1, SpoilIs DEF IndInv
<1>3. /\ saved' \in [Names -> Contents \cup {None, Partial}]
      /\ \A m \in Names \ {name} : saved'[m] = saved[m]
  BY <1>1 DEF IndInv, FilesOK
<1>4. JobsOK'
  <2>1. ASSUME NEW n \in DOMAIN jobs PROVE JobFits(jobs[n])'
    BY <1>1, <1>2, <1>3, <2>1 DEF IndInv, JobsOK, JobFits, SameJobs
  <2>. QED
    BY <1>2, <2>1 DEF IndInv, JobsOK, SameJobs
<1>5. FilesOK'
  BY <1>1, <1>2, <1>3 DEF IndInv, FilesOK, SameJobs
<1>6. \A d \in Clients : d \in SameName(name) <=> Uploading(d, name)
  BY DEF SameName, Uploading
<1>7. /\ new \in Request /\ new # None /\ new.pc = "saving" /\ new.name = name
      /\ new.spoilt <=> \E d \in Clients : Uploading(d, name)
  <2>1. (SameName(name) # {}) \in BOOLEAN
    OBVIOUS
  <2>2. new \in Request /\ new.pc = "saving" /\ new.name = name
    BY <2>1 DEF Request
  <2>3. new.spoilt <=> SameName(name) # {}
    OBVIOUS
  <2>4. SameName(name) # {} <=> \E d \in Clients : Uploading(d, name)
    BY DEF SameName, Uploading
  <2>. QED
    BY <2>2, <2>3, <2>4, NoneIsNoRecord
<1>8. ASSUME NEW d \in Clients, Uploading(d, name)
      PROVE  /\ spoilt(d) \in Request /\ spoilt(d) # None
             /\ spoilt(d).pc = request[d].pc /\ spoilt(d).pc # "added"
             /\ spoilt(d).name = name /\ spoilt(d).spoilt
  <2>1. request[d] \in Request /\ request[d].pc # "added" /\ request[d].name = name
    BY <1>8 DEF IndInv, UploadsOK, Uploading
  <2>2. spoilt(d) \in Request /\ spoilt(d).pc = request[d].pc
        /\ spoilt(d).name = name /\ spoilt(d).spoilt
    BY <2>1, RequestIs DEF Request
  <2>. QED
    BY <2>1, <2>2, NoneIsNoRecord
<1>. HIDE DEF new, spoilt
<1>9. ASSUME NEW d \in Clients
      PROVE  request'[d] = IF d = c THEN new
                           ELSE IF Uploading(d, name) THEN spoilt(d) ELSE request[d]
  BY <1>1, <1>6
<1>10. request' \in [Clients -> Request \cup {None}]
  <2>1. request \in [Clients -> Request \cup {None}]
    BY DEF IndInv, UploadsOK
  <2>2. \A d \in Clients : request'[d] \in Request \cup {None}
    BY <1>7, <1>8, <1>9, <2>1
  <2>3. request' = [d \in Clients |-> request'[d]]
    BY <1>1
  <2>. QED
    BY <2>2, <2>3
\* Of the other uploads, those of this name are spoilt and the rest is as before.
<1>11. ASSUME NEW d \in Clients, NEW m \in Names
       PROVE  /\ Uploading(d, m)' <=> (d = c /\ m = name) \/ (d # c /\ Uploading(d, m))
              /\ d # c /\ Uploading(d, m) /\ m # name => request'[d] = request[d]
              /\ d # c /\ Uploading(d, name) => request'[d].spoilt
  <2>1. CASE d = c
    BY <1>7, <1>9, <2>1 DEF Uploading
  <2>2. CASE d # c /\ Uploading(d, name)
    <3>1. /\ request'[d] = spoilt(d) /\ request[d].name = name
          /\ request[d].pc # "added" /\ request[d] # None
      BY <1>9, <2>2 DEF Uploading
    <3>. QED
      BY <1>8, <2>2, <3>1 DEF Uploading
  <2>3. CASE d # c /\ ~Uploading(d, name)
    BY <1>9, <2>3 DEF Uploading
  <2>. QED
    BY <2>1, <2>2, <2>3
<1>12. UploadsOK'
  <2>1. ASSUME NEW d \in Clients, request'[d] # None, request'[d].pc = "added"
        PROVE  request'[d].job \in DOMAIN jobs'
    <3>1. request'[d] = request[d]
      BY <1>7, <1>8, <1>9, <2>1
    <3>. QED
      BY <1>2, <2>1, <3>1 DEF IndInv, UploadsOK, SameJobs
  <2>2. ASSUME NEW d \in Clients, NEW m \in Names, Uploading(d, m)'
        PROVE  /\ request'[d].pc = "saved" /\ ~request'[d].spoilt
                      => saved'[m] = request'[d].what
               /\ \A e \in Clients \ {d} : Uploading(e, m)' => request'[d].spoilt
               /\ \A n \in DOMAIN jobs' :
                     jobs'[n].from = "upload" /\ jobs'[n].key = m => jobs'[n].spoilt
    <3>1. CASE m = name
      <4>1. \A n \in DOMAIN jobs' :
               jobs'[n].from = "upload" /\ jobs'[n].key = m => jobs'[n].spoilt
        BY <1>2, <3>1 DEF SameJobs
      <4>2. CASE d = c
        BY <1>7, <1>9, <1>11, <3>1, <4>1, <4>2
      <4>3. CASE d # c
        BY <1>11, <2>2, <3>1, <4>1, <4>3
      <4>. QED
        BY <4>2, <4>3
    <3>2. CASE m # name
      <4>1. d # c /\ Uploading(d, m) /\ request'[d] = request[d] /\ saved'[m] = saved[m]
        BY <1>3, <1>11, <2>2, <3>2
      <4>2. \A e \in Clients \ {d} : Uploading(e, m)' => Uploading(e, m)
        BY <1>11, <3>2
      <4>. QED
        BY <1>2, <4>1, <4>2 DEF IndInv, UploadsOK, SameJobs
    <3>. QED
      BY <3>1, <3>2
  <2>. QED
    BY <1>10, <2>1, <2>2, Zenon DEF UploadsOK
<1>. QED
  BY <1>1, <1>2, <1>4, <1>5, <1>12, SameWatch, SameFeeds DEF IndInv

\* A request with a name to itself has no upload of that name next to it and no
\* job of that name before it; one that ends leaves the others as they are.
LEMMA RequestEnds ==
    ASSUME UploadsOK, SameJobs, NEW c \in Clients,
           request' = [request EXCEPT ![c] = None], UNCHANGED saved
    PROVE  UploadsOK'
<1>1. /\ request' \in [Clients -> Request \cup {None}] /\ request'[c] = None
      /\ \A d \in Clients \ {c} : request'[d] = request[d]
  BY DEF UploadsOK
<1>2. \A d \in Clients, m \in Names : Uploading(d, m)' => d # c /\ Uploading(d, m)
  BY <1>1 DEF Uploading
<1>. QED
  BY <1>1, <1>2 DEF UploadsOK, SameJobs

LEMMA UploadSavedStep ==
    ASSUME IndInv, NEW c \in Clients, UploadSaved(c)
    PROVE  IndInv'
<1>. DEFINE r == request[c]
<1>1. /\ r # None /\ r.pc = "saving"
      /\ request' = [request EXCEPT ![c] = [r EXCEPT !.pc = "saved"]]
      /\ UNCHANGED <<dir, jobs, stored, watchVars, rssVars>>
  BY DEF UploadSaved, At, SetRequest
<1>2. PICK content \in {r.what} \cup (IF r.spoilt THEN {Partial} ELSE {}) :
         saved' = [saved EXCEPT ![r.name] = content]
  BY DEF UploadSaved
<1>3. /\ r \in Request /\ r.name \in Names /\ r.what \in Contents /\ r.spoilt \in BOOLEAN
  BY <1>1, RequestIs DEF IndInv, UploadsOK
<1>4. /\ saved' \in [Names -> Contents \cup {None, Partial}]
      /\ \A m \in Names \ {r.name} : saved'[m] = saved[m]
      /\ ~r.spoilt => saved'[r.name] = r.what
  BY <1>2, <1>3 DEF IndInv, FilesOK
<1>5. SameJobs
  BY <1>1, UntouchedJobs DEF IndInv
<1>. DEFINE s == [r EXCEPT !.pc = "saved"]
<1>6. /\ s \in Request /\ s # None /\ s.pc = "saved" /\ s.name = r.name
      /\ s.what = r.what /\ s.spoilt = r.spoilt
  <2>1. /\ s \in Request /\ s.pc = "saved" /\ s.name = r.name
        /\ s.what = r.what /\ s.spoilt = r.spoilt
    BY <1>1, <1>3, RequestIs DEF Request
  <2>. QED
    BY <2>1, NoneIsNoRecord
<1>7. request' = [request EXCEPT ![c] = s]
  BY <1>1
<1>8. Uploading(c, r.name)
  BY <1>1 DEF Uploading
<1>. HIDE DEF s
<1>9. /\ request' \in [Clients -> Request \cup {None}] /\ request'[c] = s
      /\ \A d \in Clients \ {c} : request'[d] = request[d]
  BY <1>6, <1>7 DEF IndInv, UploadsOK
<1>10. \A d \in Clients, m \in Names : Uploading(d, m)' <=> Uploading(d, m)
  BY <1>1, <1>6, <1>9 DEF Uploading
<1>11. JobsOK'
  <2>1. \A n \in DOMAIN jobs :
           jobs[n].from = "upload" /\ jobs[n].key = r.name => jobs[n].spoilt
    BY <1>3, <1>8 DEF IndInv, UploadsOK
  <2>2. ASSUME NEW n \in DOMAIN jobs PROVE JobFits(jobs[n])'
    BY <1>1, <1>4, <2>1, <2>2 DEF IndInv, JobsOK, JobFits
  <2>. QED
    BY <1>1, <2>2 DEF IndInv, JobsOK
<1>12. FilesOK'
  BY <1>1, <1>4 DEF IndInv, FilesOK
<1>13. UploadsOK'
  <2>1. ASSUME NEW d \in Clients, request'[d] # None, request'[d].pc = "added"
        PROVE  request'[d].job \in DOMAIN jobs'
    <3>1. d # c
      BY <1>6, <1>9, <2>1
    <3>. QED
      BY <1>1, <1>9, <2>1, <3>1 DEF IndInv, UploadsOK
  <2>2. ASSUME NEW d \in Clients, NEW m \in Names, Uploading(d, m)'
        PROVE  /\ request'[d].pc = "saved" /\ ~request'[d].spoilt
                      => saved'[m] = request'[d].what
               /\ \A e \in Clients \ {d} : Uploading(e, m)' => request'[d].spoilt
               /\ \A n \in DOMAIN jobs' :
                     jobs'[n].from = "upload" /\ jobs'[n].key = m => jobs'[n].spoilt
    <3>1. Uploading(d, m) /\ request'[d].spoilt = request[d].spoilt
      BY <1>6, <1>9, <1>10, <2>2
    <3>2. /\ \A e \in Clients \ {d} : Uploading(e, m)' => request'[d].spoilt
          /\ \A n \in DOMAIN jobs' :
                jobs'[n].from = "upload" /\ jobs'[n].key = m => jobs'[n].spoilt
      BY <1>1, <1>10, <3>1 DEF IndInv, UploadsOK
    <3>3. ASSUME request'[d].pc = "saved", ~request'[d].spoilt
          PROVE  saved'[m] = request'[d].what
      <4>1. CASE d = c
        BY <1>4, <1>6, <1>9, <3>1, <3>3, <4>1 DEF Uploading
      <4>2. CASE d # c
        <5>1. m # r.name
          BY <1>8, <3>1, <3>3, <4>2 DEF IndInv, UploadsOK
        <5>. QED
          BY <1>4, <1>9, <3>1, <3>3, <4>2, <5>1 DEF IndInv, UploadsOK
      <4>. QED
        BY <4>1, <4>2
    <3>. QED
      BY <3>2, <3>3
  <2>. QED
    BY <1>9, <2>1, <2>2, Zenon DEF UploadsOK
<1>. QED
  BY <1>1, <1>5, <1>11, <1>12, <1>13, SameWatch, SameFeeds DEF IndInv

LEMMA SaveFailsStep ==
    ASSUME IndInv, NEW c \in Clients, SaveFails(c)
    PROVE  IndInv'
<1>1. /\ request' = [request EXCEPT ![c] = None]
      /\ UNCHANGED <<dir, saved, jobs, stored, watchVars, rssVars>>
  BY DEF SaveFails, SetRequest
<1>2. SameJobs /\ JobsOK'
  BY <1>1, UntouchedJobs, UntouchedJobsFit DEF IndInv
<1>. QED
  BY <1>1, <1>2, RequestEnds, SameFiles, SameWatch, SameFeeds DEF IndInv

LEMMA PersistStep ==
    ASSUME IndInv, NEW c \in Clients, Persist(c)
    PROVE  IndInv'
<1>1. /\ request[c] # None /\ request[c].pc = "added"
      /\ stored' \in {stored, stored \cup {request[c].job}}
      /\ request' = [request EXCEPT ![c] = None]
      /\ UNCHANGED <<dir, saved, jobs, watchVars, rssVars>>
  BY DEF Persist, At, SetRequest
<1>2. SameJobs /\ JobsOK'
  BY <1>1, UntouchedJobs, UntouchedJobsFit DEF IndInv
<1>3. FilesOK'
  BY <1>1 DEF IndInv, FilesOK, UploadsOK
<1>. QED
  BY <1>1, <1>2, <1>3, RequestEnds, SameWatch, SameFeeds DEF IndInv

\* A request has added its job: the upload is over, whose name the job has.
LEMMA RequestAdds ==
    ASSUME IndInv, NEW c \in Clients, NEW j \in Job, Add(j), j.status = "queued",
           j.from \in {"upload", "url"},
           j.from = "upload" => /\ Uploading(c, j.key) /\ j.key \in Names
                                /\ request[c].pc = "saved" /\ j.what \in Contents
                                /\ j.what = request[c].what
                                /\ j.spoilt = request[c].spoilt,
           j.from = "url" => request[c] = None,
           request' = [request EXCEPT ![c] = [pc |-> "added", job |-> Len(jobs) + 1]],
           UNCHANGED <<dir, saved, stored, watchVars, rssVars>>
    PROVE  IndInv'
<1>1. PICK new \in Nat :
         /\ new = Len(jobs) + 1 /\ new <= MaxJobs
         /\ DOMAIN jobs' = DOMAIN jobs \cup {new} /\ new \notin DOMAIN jobs
         /\ \A n \in DOMAIN jobs : jobs'[n] = jobs[n]
         /\ jobs'[new] = j
  BY AddIs DEF IndInv
<1>2. JobsOK' /\ FeedsOK'
  <2>1. j.from = "upload" /\ ~j.spoilt => saved[j.key] = j.what
    BY DEF IndInv, UploadsOK
  <2>. QED
    BY <2>1, AddedFits, FeedsDoNotSee DEF IndInv
<1>3. FilesOK'
  BY <1>1 DEF IndInv, FilesOK
<1>. DEFINE r == [pc |-> "added", job |-> new]
<1>4. r \in Request /\ r # None /\ r.pc = "added" /\ r.job = new
  <2>1. new \in 1..MaxJobs
    BY <1>1, JobsAre DEF IndInv
  <2>2. r \in Request /\ r.pc = "added" /\ r.job = new
    BY <2>1 DEF Request
  <2>. QED
    BY <2>2, NoneIsNoRecord
<1>5. request' = [request EXCEPT ![c] = r]
  BY <1>1
<1>. HIDE DEF r
<1>6. /\ request' \in [Clients -> Request \cup {None}] /\ request'[c] = r
      /\ \A d \in Clients \ {c} : request'[d] = request[d]
  BY <1>4, <1>5 DEF IndInv, UploadsOK
<1>7. \A d \in Clients, m \in Names : Uploading(d, m)' => d # c /\ Uploading(d, m)
  BY <1>4, <1>6 DEF Uploading
<1>8. \A d \in Clients : request'[d] # None /\ request'[d].pc = "added"
                            => request'[d].job \in DOMAIN jobs'
  BY <1>1, <1>4, <1>6 DEF IndInv, UploadsOK
<1>9. ASSUME NEW d \in Clients, NEW m \in Names, Uploading(d, m)'
      PROVE  /\ request'[d].pc = "saved" /\ ~request'[d].spoilt
                    => saved'[m] = request'[d].what
             /\ \A e \in Clients \ {d} : Uploading(e, m)' => request'[d].spoilt
             /\ \A n \in DOMAIN jobs' :
                   jobs'[n].from = "upload" /\ jobs'[n].key = m => jobs'[n].spoilt
  <2>1. d # c /\ Uploading(d, m) /\ request'[d] = request[d]
    BY <1>6, <1>7, <1>9
  <2>2. j.from = "upload" /\ j.key = m => j.spoilt
    BY <2>1 DEF IndInv, UploadsOK
  <2>. QED
    BY <1>1, <1>7, <2>1, <2>2 DEF IndInv, UploadsOK
<1>10. UploadsOK'
  BY <1>6, <1>8, <1>9, Zenon DEF UploadsOK
<1>. QED
  BY <1>2, <1>3, <1>10, SameWatch DEF IndInv

LEMMA UploadAddedStep ==
    ASSUME IndInv, NEW c \in Clients, UploadAdded(c)
    PROVE  IndInv'
<1>. DEFINE r == request[c]
            j == NewJob("upload", r.name, r.what, r.spoilt)
<1>1. /\ r # None /\ r.pc = "saved" /\ Add(j)
      /\ request' = [request EXCEPT ![c] = [pc |-> "added", job |-> Len(jobs) + 1]]
      /\ UNCHANGED <<dir, saved, stored, watchVars, rssVars>>
  BY DEF UploadAdded, At, SetRequest
<1>2. r.name \in Names /\ r.what \in Contents /\ r.spoilt \in BOOLEAN
  BY <1>1, RequestIs DEF IndInv, UploadsOK
<1>3. /\ j \in Job /\ j.from = "upload" /\ j.key = r.name /\ j.what = r.what
      /\ j.spoilt = r.spoilt /\ j.status = "queued"
  BY <1>2, NewJobIs
<1>4. Uploading(c, r.name)
  BY <1>1 DEF Uploading
<1>. HIDE DEF j
<1>. QED
  BY <1>1, <1>2, <1>3, <1>4, RequestAdds

LEMMA AddURLStep ==
    ASSUME IndInv, NEW c \in Clients, AddURL(c)
    PROVE  IndInv'
<1>. DEFINE j == NewJob("url", None, None, FALSE)
<1>1. /\ request[c] = None /\ Add(j)
      /\ request' = [request EXCEPT ![c] = [pc |-> "added", job |-> Len(jobs) + 1]]
      /\ UNCHANGED <<dir, saved, stored, watchVars, rssVars>>
  BY DEF AddURL, Idle, SetRequest
<1>2. j \in Job /\ j.from = "url" /\ j.status = "queued"
  BY DEF NewJob, Job
<1>. HIDE DEF j
<1>. QED
  BY <1>1, <1>2, RequestAdds

-----------------------------------------------------------------------------
(* The engine, and the end of the process.                                 *)

\* The engine changes one job, and the database.
LEMMA EngineStep ==
    ASSUME IndInv, NEW n \in DOMAIN jobs, NEW j \in Job,
           jobs' = [jobs EXCEPT ![n] = j],
           j.from = jobs[n].from, j.key = jobs[n].key, j.what = jobs[n].what,
           j.recent = jobs[n].recent, j.spoilt = jobs[n].spoilt,
           JobFits(j), stored' \subseteq DOMAIN jobs,
           UNCHANGED <<dir, saved, watchVars, rssVars, request>>
    PROVE  IndInv'
<1>1. SameJobs /\ jobs'[n] = j /\ \A m \in DOMAIN jobs \ {n} : jobs'[m] = jobs[m]
  BY EngineIs DEF IndInv
<1>2. ASSUME NEW m \in DOMAIN jobs PROVE JobFits(jobs[m])'
  <2>1. CASE m = n
    BY <1>1, <2>1 DEF JobFits
  <2>2. CASE m # n
    BY <1>1, <2>2 DEF IndInv, JobsOK, JobFits
  <2>. QED
    BY <2>1, <2>2
<1>3. JobsOK'
  BY <1>1, <1>2 DEF IndInv, JobsOK, SameJobs
<1>4. FilesOK'
  BY <1>1 DEF IndInv, FilesOK, SameJobs
<1>. QED
  BY <1>1, <1>3, <1>4, SameWatch, SameUploads, SameFeeds DEF IndInv

LEMMA StartStep ==
    ASSUME IndInv, NEW n \in DOMAIN jobs, Start(n)
    PROVE  IndInv'
<1>. DEFINE j == [jobs[n] EXCEPT !.status = "started"]
<1>1. /\ jobs' = [jobs EXCEPT ![n] = j] /\ stored' = stored \cup {n}
      /\ UNCHANGED <<dir, saved, watchVars, rssVars, request>>
  BY DEF Start
<1>2. jobs[n] \in Job /\ JobFits(jobs[n]) /\ stored' \subseteq DOMAIN jobs
  BY <1>1, JobsAre DEF IndInv, JobsOK, FilesOK
<1>3. /\ j \in Job /\ j.status = "started" /\ j.from = jobs[n].from
      /\ j.key = jobs[n].key /\ j.what = jobs[n].what /\ j.recent = jobs[n].recent
      /\ j.spoilt = jobs[n].spoilt
  BY <1>2 DEF Job
<1>. HIDE DEF j
<1>4. JobFits(j)
  BY <1>2, <1>3 DEF JobFits
<1>. QED
  BY <1>1, <1>2, <1>3, <1>4, EngineStep

\* What the engine reads is at the path of the job, where a job that is not
\* spoilt has what it was made of.
LEMMA ReadNZBStep ==
    ASSUME IndInv, NEW n \in DOMAIN jobs, ReadNZB(n)
    PROVE  IndInv'
<1>. DEFINE nzb == ParseFile(AtPath(jobs[n]))
            status == IF nzb = None THEN "failed" ELSE "downloading"
            j == [jobs[n] EXCEPT !.read = nzb, !.status = status]
<1>1. /\ jobs' = [jobs EXCEPT ![n] = j]
      /\ stored' = IF nzb = None THEN stored \ {n} ELSE stored
      /\ UNCHANGED <<dir, saved, watchVars, rssVars, request>>
  BY DEF ReadNZB
<1>2. jobs[n] \in Job /\ JobFits(jobs[n]) /\ stored' \subseteq DOMAIN jobs
  BY <1>1, JobsAre DEF IndInv, JobsOK, FilesOK
<1>3. nzb \in Contents \cup {None} /\ status \in {"failed", "downloading"}
  BY ParseFileType
<1>4. jobs[n].from \in {"watch", "upload"} /\ ~jobs[n].spoilt => nzb = jobs[n].what
  <2>1. CASE jobs[n].from = "watch" /\ ~jobs[n].spoilt
    BY <1>2, <2>1 DEF JobFits, AtPath, ParseFile
  <2>2. CASE jobs[n].from = "upload" /\ ~jobs[n].spoilt
    BY <1>2, <2>2 DEF JobFits, AtPath, ParseFile
  <2>. QED
    BY <2>1, <2>2
<1>. HIDE DEF nzb, status
<1>5. /\ j \in Job /\ j.read = nzb /\ j.status = status /\ j.from = jobs[n].from
      /\ j.key = jobs[n].key /\ j.what = jobs[n].what /\ j.recent = jobs[n].recent
      /\ j.spoilt = jobs[n].spoilt
  BY <1>2, <1>3 DEF Job
<1>. HIDE DEF j
<1>6. JobFits(j)
  BY <1>2, <1>4, <1>5 DEF JobFits
<1>. QED
  BY <1>1, <1>2, <1>5, <1>6, EngineStep

LEMMA FinishStep ==
    ASSUME IndInv, NEW n \in DOMAIN jobs, Finish(n)
    PROVE  IndInv'
<1>. DEFINE j == [jobs[n] EXCEPT !.status = "completed"]
<1>1. /\ jobs' = [jobs EXCEPT ![n] = j] /\ stored' = stored \ {n}
      /\ jobs[n].status = "downloading"
      /\ UNCHANGED <<dir, saved, watchVars, rssVars, request>>
  BY DEF Finish
<1>2. jobs[n] \in Job /\ JobFits(jobs[n]) /\ stored' \subseteq DOMAIN jobs
  BY <1>1, JobsAre DEF IndInv, JobsOK, FilesOK
<1>3. /\ j \in Job /\ j.read = jobs[n].read /\ j.from = jobs[n].from
      /\ j.key = jobs[n].key /\ j.what = jobs[n].what /\ j.recent = jobs[n].recent
      /\ j.spoilt = jobs[n].spoilt
  BY <1>2 DEF Job
<1>. HIDE DEF j
<1>4. JobFits(j)
  BY <1>1, <1>2, <1>3 DEF JobFits
<1>. QED
  BY <1>1, <1>2, <1>3, <1>4, EngineStep

\* A restart forgets what the engine has read of an unfinished job, not where
\* the NZB is; no job is recent after it.
LEMMA RestartStep == IndInv /\ Restart => IndInv'
<1>. SUFFICES ASSUME IndInv, Restart PROVE IndInv'
  OBVIOUS
<1>1. /\ todo' = {} /\ parsed' = None /\ items' = <<>> /\ seen' = {}
      /\ request' = [c \in Clients |-> None]
      /\ UNCHANGED <<dir, saved, stored>>
  BY DEF Restart
<1>2. ASSUME NEW n \in DOMAIN jobs
      PROVE  /\ jobs'[n] \in Job
             /\ jobs'[n].from = jobs[n].from /\ jobs'[n].key = jobs[n].key
             /\ jobs'[n].what = jobs[n].what /\ jobs'[n].spoilt = jobs[n].spoilt
             /\ jobs'[n].recent = FALSE
             /\ \/ jobs'[n].status \in {"queued", "lost"}
                \/ jobs'[n].status = jobs[n].status /\ jobs'[n].read = jobs[n].read
  <2>. DEFINE status == IF jobs[n].status \in {"failed", "completed"}
                        THEN jobs[n].status ELSE "lost"
  <2>1. jobs[n] \in Job
    BY JobsAre DEF IndInv
  <2>2. CASE n \in stored
    <3>1. jobs'[n] = [jobs[n] EXCEPT !.status = "queued", !.read = None, !.recent = FALSE]
      BY <2>2 DEF Restart
    <3>. QED
      BY <2>1, <3>1 DEF Job
  <2>3. CASE n \notin stored
    <3>1. jobs'[n] = [jobs[n] EXCEPT !.recent = FALSE, !.status = status]
      BY <2>3 DEF Restart
    <3>2. /\ status \in {"failed", "completed", "lost"}
          /\ status = "lost" \/ status = jobs[n].status
      OBVIOUS
    <3>. HIDE DEF status
    <3>3. /\ jobs'[n] \in Job
          /\ jobs'[n].from = jobs[n].from /\ jobs'[n].key = jobs[n].key
          /\ jobs'[n].what = jobs[n].what /\ jobs'[n].spoilt = jobs[n].spoilt
          /\ jobs'[n].recent = FALSE /\ jobs'[n].read = jobs[n].read
          /\ jobs'[n].status = status
      BY <2>1, <3>1, <3>2 DEF Job
    <3>. QED
      BY <3>2, <3>3
  <2>. QED
    BY <2>2, <2>3
<1>3. jobs' \in Seq(Job) /\ Len(jobs') = Len(jobs) /\ DOMAIN jobs' = DOMAIN jobs
  <2>1. jobs' = [n \in DOMAIN jobs |-> jobs'[n]]
    BY DEF Restart
  <2>. QED
    BY <1>2, <2>1, NewJobs DEF IndInv
<1>4. ASSUME NEW n \in DOMAIN jobs PROVE JobFits(jobs[n])'
  BY <1>1, <1>2, <1>4 DEF IndInv, JobsOK, JobFits
<1>5. JobsOK' /\ FilesOK'
  BY <1>1, <1>3, <1>4 DEF IndInv, JobsOK, FilesOK
<1>6. WatchOK'
  BY <1>1 DEF WatchOK
<1>7. UploadsOK'
  BY <1>1 DEF UploadsOK, Uploading
<1>8. FeedsOK'
  <2>1. \A n \in DOMAIN jobs' : ~FromFeed(n)'
    BY <1>2, <1>3 DEF FromFeed
  <2>2. items' \in Seq(Items)
    BY <1>1
  <2>. QED
    BY <2>1, <2>2 DEF FeedsOK
<1>. QED
  BY <1>5, <1>6, <1>7, <1>8 DEF IndInv

LEMMA StepIndInv == IndInv /\ [Next]_vars => IndInv'
<1>. SUFFICES ASSUME IndInv, [Next]_vars PROVE IndInv'
  OBVIOUS
<1>1. CASE \E f \in Files : CopyBegins(f) \/ CopyEnds(f) \/ TakeAway(f) \/ ParseEntry(f)
  BY <1>1, UserStep, ParseEntryStep
<1>2. CASE Scan \/ SetAside \/ AddFile
  BY <1>2, ScanStep, SetAsideStep, AddFileStep
<1>3. CASE PollItem \/ \E feed \in Feeds : PollFeed(feed)
  BY <1>3, PollItemStep, PollFeedStep
<1>4. ASSUME NEW c \in Clients,
             \/ \E name \in Names, what \in Contents : UploadBegins(c, name, what)
             \/ UploadSaved(c) \/ SaveFails(c) \/ UploadAdded(c)
             \/ AddURL(c) \/ Persist(c)
      PROVE  IndInv'
  BY <1>4, UploadBeginsStep, UploadSavedStep, SaveFailsStep, UploadAddedStep,
     AddURLStep, PersistStep
<1>5. ASSUME NEW n \in DOMAIN jobs, Start(n) \/ ReadNZB(n) \/ Finish(n)
      PROVE  IndInv'
  BY <1>5, StartStep, ReadNZBStep, FinishStep
<1>6. CASE Restart
  BY <1>6, RestartStep
<1>7. CASE UNCHANGED vars
  <2>1. SameJobs /\ JobsOK'
    BY <1>7, UntouchedJobs, UntouchedJobsFit DEF vars, IndInv
  <2>. QED
    BY <1>7, <2>1, SameFiles, SameWatch, SameUploads, SameFeeds DEF vars, IndInv
<1>. QED
  BY <1>1, <1>2, <1>3, <1>4, <1>5, <1>6, <1>7 DEF Next

LEMMA Invariant == Spec => []IndInv
<1>. QED
  BY InitIndInv, StepIndInv, PTL DEF Spec

-----------------------------------------------------------------------------
(* The theorems.                                                           *)

\* Every way in adds well-formed jobs, and none makes a job of a file that is
\* still being written or is no NZB.
THEOREM IntakeTypeCorrect == Spec => []TypeOK
<1>1. IndInv => TypeOK
  <2>. SUFFICES ASSUME IndInv PROVE TypeOK
    OBVIOUS
  <2>1. \A n \in DOMAIN jobs : jobs[n].from \in {"watch", "upload"} => jobs[n].what # None
    BY ContentsAreContents DEF IndInv, JobsOK, JobFits
  <2>2. \A c \in Clients : request[c] = None \/ request[c] \in Request
    BY DEF IndInv, UploadsOK
  <2>. QED
    BY <2>1, <2>2 DEF IndInv, JobsOK, FilesOK, WatchOK, FeedsOK, TypeOK
<1>. QED
  BY <1>1, Invariant, PTL

\* The engine parses the NZB that the upload or the watcher has parsed when the
\* job was added, however many scans, uploads and restarts are in between,
\* unless the name was uploaded again or the file touched by the user.
THEOREM JobsGetTheirNZB == Spec => []NZBIsReadAsAdded
<1>1. IndInv => NZBIsReadAsAdded
  BY DEF IndInv, JobsOK, JobFits, NZBIsReadAsAdded
<1>. QED
  BY <1>1, Invariant, PTL

\* Poller.seen keeps an item from being queued twice by a process, in however
\* many feeds, polls and under however many links it appears.
THEOREM ItemsAreQueuedOnce == Spec => []ItemIsQueuedOnce
<1>1. IndInv => ItemIsQueuedOnce
  <2>. SUFFICES ASSUME IndInv, NEW m \in DOMAIN jobs, NEW n \in DOMAIN jobs,
                       FromFeed(m), FromFeed(n),
                       \/ Guid[jobs[m].key] # None /\ Guid[jobs[m].key] = Guid[jobs[n].key]
                       \/ jobs[m].key = jobs[n].key
                PROVE  m = n
    BY DEF ItemIsQueuedOnce, FromFeed
  <2>1. ItemKey(jobs[m].key) = ItemKey(jobs[n].key)
    BY DEF ItemKey
  <2>. QED
    BY <2>1 DEF IndInv, FeedsOK
<1>. QED
  BY <1>1, Invariant, PTL

\* The watcher renames to .failed only what processFile could not parse, or a
\* file that took the place of it after that.
THEOREM SetAsideIsUnreadable == Spec => OnlyUnreadableIsSetAside
<1>. DEFINE Allowed == \A f \in Files :
                          /\ parsed # None /\ parsed' = None
                          /\ dir[f] \in Contents /\ dir'[f] = None
                          => parsed.file = f /\ parsed.spoilt
<1>1. ASSUME IndInv, SetAside PROVE Allowed
  <2>1. /\ parsed # None /\ parsed.what = None
        /\ dir' = [dir EXCEPT ![parsed.file] = None]
    BY <1>1 DEF SetAside
  <2>2. /\ parsed.file \in Files /\ dir \in [Files -> Contents \cup {None, Partial, Bad}]
        /\ ~parsed.spoilt => ParseFile(dir[parsed.file]) = None
    BY <1>1, <2>1 DEF IndInv, WatchOK, FilesOK, Parsed
  <2>3. ASSUME NEW f \in Files, dir[f] \in Contents, dir'[f] = None
        PROVE  parsed.file = f /\ parsed.spoilt
    <3>1. dir[f] # None
      BY <2>3, ContentsAreContents
    <3>2. parsed.file = f
      BY <2>1, <2>2, <2>3, <3>1
    <3>. QED
      BY <2>2, <2>3, <3>1, <3>2 DEF ParseFile
  <2>. QED
    BY <2>3
<1>2. ASSUME IndInv, NEW f \in Files, NEW content, Touch(f, content) PROVE Allowed
  <2>1. parsed # None => parsed' # None
    <3>1. parsed # None => parsed \in Parsed /\ [parsed EXCEPT !.spoilt = TRUE] \in Parsed
      BY <1>2 DEF IndInv, WatchOK, Parsed
    <3>. QED
      BY <1>2, <3>1, NoneIsNoRecord DEF Touch
  <2>. QED
    BY <2>1
<1>3. ASSUME NEW f \in Files, CopyBegins(f) \/ CopyEnds(f) \/ TakeAway(f)
      PROVE  \E content : Touch(f, content)
  BY <1>3 DEF CopyBegins, CopyEnds, TakeAway
<1>4. ASSUME UNCHANGED dir PROVE Allowed
  BY <1>4, ContentsAreContents
<1>5. Next => \/ SetAside \/ UNCHANGED dir
              \/ \E f \in Files : CopyBegins(f) \/ CopyEnds(f) \/ TakeAway(f)
  BY DEF Next, ParseEntry, Scan, AddFile, PollFeed, PollItem, UploadBegins, UploadSaved,
         SaveFails, UploadAdded, AddURL, Persist, Start, ReadNZB, Finish, Restart
<1>6. IndInv /\ [Next]_vars => [Allowed]_vars
  BY <1>1, <1>2, <1>3, <1>4, <1>5 DEF vars
<1>. QED
  BY <1>6, Invariant, PTL DEF Spec, OnlyUnreadableIsSetAside

=============================================================================
