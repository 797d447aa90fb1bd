-------------------------------- MODULE Intake --------------------------------
(***************************************************************************)
(* How jobs come in, up to the moment the engine reads their NZB: the      *)
(* watch directory (internal/watcher), the RSS feeds (internal/rss), the   *)
(* uploads and addurl of the HTTP server (internal/api), and ParseFile at  *)
(* the start of processJob (internal/engine).                              *)
(*                                                                         *)
(* What connects them is the path of an NZB file, which one goroutine      *)
(* writes and another reads later, perhaps after a restart.  What the      *)
(* queue does in between is in JobLifecycle; here any queued job may be    *)
(* next.                                                                   *)
(***************************************************************************)
EXTENDS Integers, Sequences, FiniteSets

CONSTANTS
    Files,     \* names in the watch directory
    Names,     \* names of uploads, which give the path under <download>/nzb
    Contents,  \* NZBs that can be parsed
    Clients,   \* requests in flight
    Items,     \* items of the feeds
    Feeds,     \* the feeds, each a sequence of items
    Guid,      \* the guid of an item, or None
    Link,      \* its link
    MaxJobs,   \* bound: jobs added
    None

\* A file that is being written, and one that is no NZB.
Partial == "partial"
Bad == "bad"

ASSUME ContentsAreContents == {None, Partial, Bad} \cap Contents = {}
ASSUME FeedsAreItems == Feeds \subseteq Seq(Items)
ASSUME MaxJobsIsNat == MaxJobs \in Nat

VARIABLES
    dir,      \* the watch directory
    saved,    \* the directory saveNZB writes to
    jobs,     \* every job added, in order
    stored,   \* those that have a record in the database
    todo,     \* scan: the entries not gone through
    parsed,   \* processFile: the file it has parsed, or None
    items,    \* pollFeed: the items not gone through
    seen,     \* Poller.seen
    request   \* the request of each client

watchVars == <<todo, parsed>>
rssVars == <<items, seen>>
vars == <<dir, saved, jobs, stored, watchVars, rssVars, request>>

\* "what" is the content at the time of adding and "read" what the engine has
\* found.  spoilt: another hand has written to the path since (history).
\* recent: added by this process.
Job == [from : {"watch", "rss", "upload", "url"},
        key : Files \cup Items \cup Names \cup {None},
        what : Contents \cup {None},
        read : Contents \cup {None},
        status : {"queued", "started", "downloading", "completed", "failed", "lost"},
        spoilt : BOOLEAN,
        recent : BOOLEAN]

Request == [pc : {"saving", "saved"}, name : Names, what : Contents, spoilt : BOOLEAN]
           \cup [pc : {"added"}, job : 1..MaxJobs]

Parsed == [file : Files, what : Contents \cup {None}, spoilt : BOOLEAN]

ASSUME NoneIsNoRecord == None \notin Parsed \cup Request

\* No job is made of a file that is still being written or is no NZB.
TypeOK ==
    /\ dir \in [Files -> Contents \cup {None, Partial, Bad}]
    /\ saved \in [Names -> Contents \cup {None, Partial}]
    /\ jobs \in Seq(Job) /\ Len(jobs) <= MaxJobs
    /\ \A n \in DOMAIN jobs :
          jobs[n].from \in {"watch", "upload"} => jobs[n].what # None
    /\ stored \subseteq DOMAIN jobs
    /\ todo \subseteq Files
    /\ parsed \in Parsed \cup {None}
    /\ items \in Seq(Items)
    /\ \A c \in Clients : request[c] = None \/ request[c] \in Request

Init ==
    /\ dir = [f \in Files |-> None]
    /\ saved = [n \in Names |-> None]
    /\ jobs = <<>>
    /\ stored = {}
    /\ todo = {}
    /\ parsed = None
    /\ items = <<>>
    /\ seen = {}
    /\ request = [c \in Clients |-> None]

\* Queue.Add, of a job with a new ID.
NewJob(from, key, what, spoilt) ==
    [from |-> from, key |-> key, what |-> what, read |-> None,
     status |-> "queued", spoilt |-> spoilt, recent |-> TRUE]

Add(job) ==
    /\ Len(jobs) < MaxJobs
    /\ jobs' = Append(jobs, job)

\* The jobs, after somebody has written to the path of some of them.
Spoil(from, key) ==
    [n \in DOMAIN jobs |->
        [jobs[n] EXCEPT !.spoilt = @ \/ (jobs[n].from = from /\ jobs[n].key = key)]]

-----------------------------------------------------------------------------
(* The watch directory.                                                    *)

\* Somebody copies a file there, over an older one perhaps, or takes it away.
Touch(f, content) ==
    /\ dir' = [dir EXCEPT ![f] = content]
    /\ jobs' = Spoil("watch", f)
    /\ parsed' = IF parsed # None /\ parsed.file = f
                 THEN [parsed EXCEPT !.spoilt = TRUE] ELSE parsed
    /\ UNCHANGED <<saved, stored, todo, rssVars, request>>

CopyBegins(f) == dir[f] # Partial /\ Touch(f, Partial)
CopyEnds(f) == dir[f] = Partial /\ \E c \in Contents \cup {Bad} : Touch(f, c)
TakeAway(f) == dir[f] # None /\ Touch(f, None)

\* ReadDir, at every tick.
Scan ==
    /\ todo = {}
    /\ parsed = None
    /\ todo' = {f \in Files : dir[f] # None}
    /\ UNCHANGED <<dir, saved, jobs, stored, parsed, rssVars, request>>

\* Mutant of ParseFile: a file that ends early is an NZB too.
ParseFile_Lenient(content) == IF content \in {None, Bad} THEN None ELSE content

\* nzb.ParseFile: the content, or None for an error.
ParseFile(content) == IF content \in Contents THEN content ELSE None

ParseEntry(f) ==
    /\ f \in todo
    /\ parsed = None
    /\ todo' = todo \ {f}
    /\ parsed' = [file |-> f, what |-> ParseFile(dir[f]), spoilt |-> FALSE]
    /\ UNCHANGED <<dir, saved, jobs, stored, rssVars, request>>

\* The file is renamed to .failed, whatever it is by now.
SetAside ==
    /\ parsed # None
    /\ parsed.what = None
    /\ dir' = [dir EXCEPT ![parsed.file] = None]
    /\ jobs' = Spoil("watch", parsed.file)
    /\ parsed' = None
    /\ UNCHANGED <<saved, stored, todo, rssVars, request>>

\* Mutant of AddFile: the file is moved out of the way.
AddFile_Moved ==
    /\ parsed # None
    /\ parsed.what # None
    /\ Add(NewJob("watch", parsed.file, parsed.what, parsed.spoilt))
    /\ dir' = [dir EXCEPT ![parsed.file] = None]
    /\ parsed' = None
    /\ UNCHANGED <<saved, stored, todo, rssVars, request>>

\* The job gets the path of the file, which stays where it is and is found again
\* by the next scan.  There is no record of the job.
AddFile ==
    /\ parsed # None
    /\ parsed.what # None
    /\ Add(NewJob("watch", parsed.file, parsed.what, parsed.spoilt))
    /\ parsed' = None
    /\ UNCHANGED <<dir, saved, stored, todo, rssVars, request>>

-----------------------------------------------------------------------------
(* The feeds.                                                              *)

\* pollFeed, for one that can be fetched and parsed.
PollFeed(feed) ==
    /\ items = <<>>
    /\ items' = feed
    /\ UNCHANGED <<dir, saved, jobs, stored, watchVars, seen, request>>

\* Mutant of ItemKey: the link, whether there is a guid or not.
ItemKey_Link(i) == Link[i]

ItemKey(i) == IF Guid[i] = None THEN Link[i] ELSE Guid[i]

\* An item that was seen, in this feed or another, is skipped; another is marked
\* as seen, and added if it passes the filters, which the user may edit at any
\* time, and has a URL.  The URL takes the place of the path.
PollItem ==
    /\ items # <<>>
    /\ items' = Tail(items)
    /\ seen' = seen \cup {ItemKey(Head(items))}
    /\ \/ jobs' = jobs
       \/ /\ ItemKey(Head(items)) \notin seen
          /\ Add(NewJob("rss", Head(items), None, FALSE))
    /\ UNCHANGED <<dir, saved, stored, watchVars, request>>

-----------------------------------------------------------------------------
(* The requests.                                                           *)

Idle(c) == request[c] = None
SetRequest(c, r) == request' = [request EXCEPT ![c] = r]
At(c, pc) == request[c] # None /\ request[c].pc = pc

SameName(name) == {c \in Clients : request[c] # None /\ request[c].pc # "added"
                                   /\ request[c].name = name}

\* handleNZBUpload and sabAddFile: the upload is parsed, then saveNZB opens
\* the file and truncates it.
UploadBegins(c, name, what) ==
    /\ Idle(c)
    /\ saved' = [saved EXCEPT ![name] = Partial]
    /\ request' = [d \in Clients |->
          IF d = c
          THEN [pc |-> "saving", name |-> name, what |-> what,
                spoilt |-> SameName(name) # {}]
          ELSE IF d \in SameName(name) THEN [request[d] EXCEPT !.spoilt = TRUE]
          ELSE request[d]]
    /\ jobs' = Spoil("upload", name)
    /\ UNCHANGED <<dir, stored, watchVars, rssVars>>

\* Two that write at the same time may leave a mixture.
UploadSaved(c) ==
    /\ At(c, "saving")
    /\ \E content \in {request[c].what} \cup (IF request[c].spoilt THEN {Partial} ELSE {}) :
          saved' = [saved EXCEPT ![request[c].name] = content]
    /\ SetRequest(c, [request[c] EXCEPT !.pc = "saved"])
    /\ UNCHANGED <<dir, jobs, stored, watchVars, rssVars>>

\* The request fails, and the file stays as it is.
SaveFails(c) ==
    /\ At(c, "saving")
    /\ SetRequest(c, None)
    /\ UNCHANGED <<dir, saved, jobs, stored, watchVars, rssVars>>

\* Mutant of UploadAdded: the job is added while the file is written.
UploadAdded_Early(c) ==
    /\ At(c, "saving")
    /\ Add(NewJob("upload", request[c].name, request[c].what, request[c].spoilt))
    /\ saved' \in {saved, [saved EXCEPT ![request[c].name] = request[c].what]}
    /\ SetRequest(c, [pc |-> "added", job |-> Len(jobs) + 1])
    /\ UNCHANGED <<dir, stored, watchVars, rssVars>>

\* addAndPersistJob: the queue ...
UploadAdded(c) ==
    /\ At(c, "saved")
    /\ Add(NewJob("upload", request[c].name, request[c].what, request[c].spoilt))
    /\ SetRequest(c, [pc |-> "added", job |-> Len(jobs) + 1])
    /\ UNCHANGED <<dir, saved, stored, watchVars, rssVars>>

\* sabAddURL: a job without a path.
AddURL(c) ==
    /\ Idle(c)
    /\ Add(NewJob("url", None, None, FALSE))
    /\ SetRequest(c, [pc |-> "added", job |-> Len(jobs) + 1])
    /\ UNCHANGED <<dir, saved, stored, watchVars, rssVars>>

\* ... and the database, with a record from before or after the engine had the
\* job.  An error is dropped.
Persist(c) ==
    /\ At(c, "added")
    /\ stored' \in {stored, stored \cup {request[c].job}}
    /\ SetRequest(c, None)
    /\ UNCHANGED <<dir, saved, jobs, watchVars, rssVars>>

-----------------------------------------------------------------------------
(* The engine, and the end of the process.                                 *)

\* persistJob at the start of processJob.
Start(n) ==
    /\ jobs[n].status = "queued"
    /\ jobs' = [jobs EXCEPT ![n].status = "started"]
    /\ stored' = stored \cup {n}
    /\ UNCHANGED <<dir, saved, watchVars, rssVars, request>>

\* What is at the path of a job; nothing at a URL.
AtPath(job) == CASE job.from = "watch"  -> dir[job.key]
                 [] job.from = "upload" -> saved[job.key]
                 [] OTHER               -> None

\* A job whose NZB cannot be parsed goes to the history.
ReadNZB(n) ==
    /\ jobs[n].status = "started"
    /\ LET nzb == ParseFile(AtPath(jobs[n])) IN
          /\ jobs' = [jobs EXCEPT ![n].read = nzb,
                         ![n].status = IF nzb = None THEN "failed" ELSE "downloading"]
          /\ stored' = IF nzb = None THEN stored \ {n} ELSE stored
    /\ UNCHANGED <<dir, saved, watchVars, rssVars, request>>

Finish(n) ==
    /\ jobs[n].status = "downloading"
    /\ jobs' = [jobs EXCEPT ![n].status = "completed"]
    /\ stored' = stored \ {n}
    /\ UNCHANGED <<dir, saved, watchVars, rssVars, request>>

\* The process dies and the next one restores what has a record: everything else
\* that was not finished is gone, and so is seen.
Restart ==
    /\ jobs' = [n \in DOMAIN jobs |->
          IF n \in stored
          THEN [jobs[n] EXCEPT !.status = "queued", !.read = None, !.recent = FALSE]
          ELSE [jobs[n] EXCEPT !.recent = FALSE,
                               !.status = IF @ \in {"failed", "completed"} THEN @ ELSE "lost"]]
    /\ todo' = {}
    /\ parsed' = None
    /\ items' = <<>>
    /\ seen' = {}
    /\ request' = [c \in Clients |-> None]
    /\ UNCHANGED <<dir, saved, stored>>

Next ==
    \/ \E f \in Files : CopyBegins(f) \/ CopyEnds(f) \/ TakeAway(f) \/ ParseEntry(f)
    \/ Scan \/ SetAside \/ AddFile
    \/ \E feed \in Feeds : PollFeed(feed)
    \/ PollItem
    \/ \E c \in Clients :
          \/ \E name \in Names, what \in Contents : UploadBegins(c, name, what)
          \/ UploadSaved(c) \/ SaveFails(c) \/ UploadAdded(c)
          \/ AddURL(c) \/ Persist(c)
    \/ \E n \in DOMAIN jobs : Start(n) \/ ReadNZB(n) \/ Finish(n)
    \/ Restart

Spec == Init /\ [][Next]_vars

-----------------------------------------------------------------------------
(* Properties.                                                             *)

\* The engine downloads what was uploaded, and what the watcher found, at once
\* or after restarts: it never comes before the file is there, and the program
\* itself neither moves a file a job still needs nor sets it aside.  The
\* exceptions are a name that was uploaded again, for which saveNZB has one file,
\* and a file in the watch directory that the user has touched since.
NZBIsReadAsAdded ==
    \A n \in DOMAIN jobs :
        /\ jobs[n].from \in {"watch", "upload"}
        /\ jobs[n].status \in {"failed", "downloading", "completed"}
        /\ ~jobs[n].spoilt
        => jobs[n].read = jobs[n].what

\* An item is queued once in the life of a process, in however many feeds and
\* polls it appears, and under however many links.
ItemIsQueuedOnce ==
    \A m, n \in DOMAIN jobs :
        /\ jobs[m].from = "rss" /\ jobs[n].from = "rss"
        /\ jobs[m].recent /\ jobs[n].recent
        /\ \/ Guid[jobs[m].key] # None /\ Guid[jobs[m].key] = Guid[jobs[n].key]
           \/ jobs[m].key = jobs[n].key
        => m = n

\* The watcher sets no NZB aside that can be parsed, except one that took the
\* place of another while that was looked at.
OnlyUnreadableIsSetAside ==
    [][\A f \in Files :
          /\ parsed # None /\ parsed' = None
          /\ dir[f] \in Contents /\ dir'[f] = None
          => parsed.file = f /\ parsed.spoilt]_vars

=============================================================================
