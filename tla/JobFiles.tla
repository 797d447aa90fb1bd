------------------------------- MODULE JobFiles -------------------------------
(***************************************************************************)
(* The files of the jobs on disk: processJob's file loop as far as files   *)
(* are concerned (internal/engine/engine.go), the assembler that writes    *)
(* and moves them (internal/assembler), and what post-processing does to   *)
(* them (internal/postprocess).                                            *)
(*                                                                         *)
(* All jobs have the same output directory, which is so whenever they have *)
(* no category or the same one, and post-processing works on a directory,  *)
(* not on a job.  File names are distinct.  The engine has one job at a    *)
(* time; par2 and 7z are external programs, modelled by their outcomes.    *)
(***************************************************************************)
EXTENDS Integers, Sequences

CONSTANTS
    Jobs,
    Nzb,   \* the kinds of the files of each job, in the order of its NZB
    None   \* no job

\* "main": what extract takes for the archive of a set (.rar, .part01.rar, .7z,
\* .zip).  "part": the others of the set (.part02.rar, .r00).  "odd": an archive
\* extract takes for a part, because its name has ".part" and neither
\* ".part01.rar" nor ".part1.rar" in it.  "plain": anything else.
Kind == {"main", "part", "odd", "par2", "plain"}

ASSUME NzbIsKinds == Nzb \in [Jobs -> Seq(Kind)]
ASSUME NoneIsNoJob == None \notin Jobs

\* A file is its job and its place in the NZB.
Files == UNION {{<<j, i>> : i \in DOMAIN Nzb[j]} : j \in Jobs}
FilesOf(j) == {<<j, i>> : i \in DOMAIN Nzb[j]}
KindOf(f) == Nzb[f[1]][f[2]]
ArchiveKinds == {"main", "part", "odd"}

\* Content: no file; not all segments gone through; all of them, and each
\* there ("good"), or some missing or damaged ("bad").
Content == {"none", "partial", "good", "bad"}

VARIABLES
    work,       \* the working directories: workDir of each job
    out,        \* outputDir
    unpacked,   \* main archives whose content has been extracted to outputDir
    waiting,    \* jobs that the engine will take up, or take up again
    pc,         \* where processJob is
    cur,        \* the job it has, or None
    file,       \* its place in the file loop
    cfg,        \* the configuration read at the start of processJob
    archives,   \* the files extract has listed and not tried yet
    extracted,  \* Result.Extracted
    whole,      \* history variable: this attempt has met no error so far
    delivered,  \* history variable: files Finalize has moved to outputDir
    refused     \* history variable: archives on which 7z has failed

runVars == <<pc, cur, file, cfg, archives, extracted>>
ghostVars == <<whole, delivered, refused>>
vars == <<work, out, unpacked, waiting, runVars, ghostVars>>

PC == {"idle", "files", "writing", "finalize", "par2", "list", "extract",
       "cleanup", "finish"}

TypeOK ==
    /\ work \in [Files -> Content]
    /\ out \in [Files -> Content]
    /\ unpacked \subseteq Files
    /\ waiting \subseteq Jobs
    /\ pc \in PC
    /\ cur \in Jobs \cup {None}
    /\ IF cur = None THEN pc = "idle" /\ file = 0
                     ELSE pc # "idle" /\ file \in 1..Len(Nzb[cur]) + 1
    /\ cfg \in [par2 : BOOLEAN, unpack : BOOLEAN, cleanup : BOOLEAN]
    /\ archives \subseteq Files
    /\ extracted \in BOOLEAN
    /\ whole \in BOOLEAN
    /\ delivered \subseteq Files
    /\ refused \subseteq Files

Off == [par2 |-> FALSE, unpack |-> FALSE, cleanup |-> FALSE]

Init ==
    /\ work = [f \in Files |-> "none"]
    /\ out = [f \in Files |-> "none"]
    /\ unpacked = {}
    /\ waiting = Jobs
    /\ pc = "idle"
    /\ cur = None
    /\ file = 0
    /\ cfg = Off
    /\ archives = {}
    /\ extracted = FALSE
    /\ whole = TRUE
    /\ delivered = {}
    /\ refused = {}

Present(kinds) == {f \in Files : out[f] # "none" /\ KindOf(f) \in kinds}

Goto(from, to) == pc = from /\ pc' = to

Disk == <<work, out, unpacked>>

\* processJob is over, or gone with the process.
Leave ==
    /\ pc' = "idle"
    /\ cur' = None
    /\ file' = 0
    /\ cfg' = Off
    /\ archives' = {}
    /\ extracted' = FALSE

-----------------------------------------------------------------------------
(* The file loop.                                                          *)

\* Mutant of StartJob: a job taken up again goes on behind what it delivered.
StartJob_GoOn(j) ==
    /\ Goto("idle", "files")
    /\ j \in waiting
    /\ cur' = j
    /\ \E i \in 1..Len(Nzb[j]) + 1 :
          /\ \A k \in 1..i - 1 : <<j, k>> \in delivered
          /\ file' = i
    /\ cfg' \in [par2 : BOOLEAN, unpack : BOOLEAN, cleanup : BOOLEAN]
    /\ whole' = TRUE
    /\ UNCHANGED <<Disk, waiting, archives, extracted, delivered, refused>>

\* A job is taken up, for the first time or after a pause or a restart: from
\* its first file, with the configuration of the moment.
StartJob(j) ==
    /\ Goto("idle", "files")
    /\ j \in waiting
    /\ cur' = j
    /\ file' = 1
    /\ cfg' \in [par2 : BOOLEAN, unpack : BOOLEAN, cleanup : BOOLEAN]
    /\ whole' = TRUE
    /\ UNCHANGED <<Disk, waiting, archives, extracted, delivered, refused>>

\* Mutant of InLoop: one iteration too many.
InLoop_OneMore == file <= Len(Nzb[cur]) + 1

InLoop == file <= Len(Nzb[cur])
Current == <<cur, file>>

\* CreateFile truncates what an earlier attempt has left.
CreateFile ==
    /\ Goto("files", "writing")
    /\ InLoop
    /\ work' = [work EXCEPT ![Current] = "partial"]
    /\ UNCHANGED <<out, unpacked, waiting, cur, file, cfg, archives, extracted,
                   ghostVars>>

\* downloadFile returns nil: all segments written, or counted as failed.
FileWritten ==
    /\ Goto("writing", "finalize")
    /\ \E c \in {"good", "bad"} : work' = [work EXCEPT ![Current] = c]
    /\ UNCHANGED <<out, unpacked, waiting, cur, file, cfg, archives, extracted,
                   ghostVars>>

\* Mutant of FileFails: on to Finalize, not to the next file.
FileFails_Finalized ==
    /\ Goto("writing", "finalize")
    /\ whole' = FALSE
    /\ UNCHANGED <<Disk, waiting, cur, file, cfg, archives, extracted,
                   delivered, refused>>

\* The file cannot be created or written: on to the next one.
FileFails ==
    /\ \/ Goto("files", "files") /\ InLoop
       \/ Goto("writing", "files")
    /\ file' = file + 1
    /\ whole' = FALSE
    /\ UNCHANGED <<Disk, waiting, cur, cfg, archives, extracted, delivered,
                   refused>>

\* Finalize: a rename into the output directory, which replaces what is there.
Finalize ==
    /\ Goto("finalize", "files")
    /\ out' = [out EXCEPT ![Current] = work[Current]]
    /\ work' = [work EXCEPT ![Current] = "none"]
    /\ delivered' = delivered \cup {Current}
    /\ file' = file + 1
    /\ UNCHANGED <<unpacked, waiting, cur, cfg, archives, extracted, whole,
                   refused>>

\* Its error is logged.
FinalizeFails ==
    /\ Goto("finalize", "files")
    /\ file' = file + 1
    /\ whole' = FALSE
    /\ UNCHANGED <<Disk, waiting, cur, cfg, archives, extracted, delivered,
                   refused>>

\* The job is paused, and taken up again after a resume; or cancelled.
StopJob ==
    /\ pc = "files"
    /\ InLoop
    /\ Leave
    /\ waiting' \in {waiting, waiting \ {cur}}
    /\ UNCHANGED <<Disk, ghostVars>>

LoopEnds ==
    /\ Goto("files", IF cfg.par2 \/ cfg.unpack THEN "par2" ELSE "finish")
    /\ ~InLoop
    /\ UNCHANGED <<Disk, waiting, cur, file, cfg, archives, extracted, ghostVars>>

-----------------------------------------------------------------------------
(* postprocess.Runner.Run.                                                 *)

AfterPar2 == IF cfg.unpack THEN "list" ELSE "finish"

\* No par2 file, or none wanted.
SkipPar2 ==
    /\ Goto("par2", AfterPar2)
    /\ ~cfg.par2 \/ Present({"par2"}) = {}
    /\ UNCHANGED <<Disk, waiting, cur, file, cfg, archives, extracted, ghostVars>>

\* Verify, and repair if that fails, for one par2 set of the directory: the
\* first by name, whichever job it is of.  Without enough blocks the repair
\* fails, which is only logged.
Par2 ==
    /\ Goto("par2", AfterPar2)
    /\ cfg.par2
    /\ \E p \in Present({"par2"}) :
          LET repaired == FilesOf(p[1]) IN
          \/ out' = [f \in Files |-> IF f \in repaired THEN "good" ELSE out[f]]
          \/ out' = out
    /\ UNCHANGED <<work, unpacked, waiting, cur, file, cfg, archives,
                   extracted, ghostVars>>

\* extract lists the main archives of the directory.
ListArchives ==
    /\ Goto("list", "extract")
    /\ archives' = Present({"main"})
    /\ UNCHANGED <<Disk, waiting, cur, file, cfg, extracted, ghostVars>>

\* 7z succeeds on a set that is complete and undamaged.
Complete(a) == \A f \in FilesOf(a[1]) : KindOf(f) \in {"main", "part"} => out[f] = "good"

\* Mutant of Extract: one archive is enough.
Extract_First(a) ==
    /\ pc = "extract"
    /\ a \in archives
    /\ Complete(a)
    /\ archives' = {}
    /\ unpacked' = unpacked \cup {a}
    /\ extracted' = TRUE
    /\ UNCHANGED <<work, out, waiting, pc, cur, file, cfg, ghostVars>>

Extract(a) ==
    /\ pc = "extract"
    /\ a \in archives
    /\ Complete(a)
    /\ archives' = archives \ {a}
    /\ unpacked' = unpacked \cup {a}
    /\ extracted' = TRUE
    /\ UNCHANGED <<work, out, waiting, pc, cur, file, cfg, ghostVars>>

\* It may fail on any, and extract goes on with the next.
ExtractFails(a) ==
    /\ pc = "extract"
    /\ a \in archives
    /\ archives' = archives \ {a}
    /\ refused' = refused \cup {a}
    /\ UNCHANGED <<Disk, waiting, pc, cur, file, cfg, extracted, whole, delivered>>

\* Cleanup follows if at least one archive was extracted.
ExtractEnds ==
    /\ Goto("extract", IF cfg.cleanup /\ extracted THEN "cleanup" ELSE "finish")
    /\ archives = {}
    /\ UNCHANGED <<Disk, waiting, cur, file, cfg, archives, extracted, ghostVars>>

Rubbish == Present(ArchiveKinds \cup {"par2"})

\* Every archive and par2 file of the directory, one after the other.
CleanupOne(f) ==
    /\ pc = "cleanup"
    /\ f \in Rubbish
    /\ out' = [out EXCEPT ![f] = "none"]
    /\ UNCHANGED <<work, unpacked, waiting, runVars, ghostVars>>

CleanupEnds ==
    /\ Goto("cleanup", "finish")
    /\ Rubbish = {}
    /\ UNCHANGED <<Disk, waiting, cur, file, cfg, archives, extracted, ghostVars>>

Finish ==
    /\ pc = "finish"
    /\ Leave
    /\ waiting' = waiting \ {cur}
    /\ UNCHANGED <<Disk, ghostVars>>

\* The process dies; files stay.  A job whose record says downloading is
\* restored, one whose record says post-processing is not (restoreJobs).
SaysDownloading ==
    \/ pc \in {"files", "writing", "finalize"}
    \/ pc = "finish" /\ ~cfg.par2 /\ ~cfg.unpack

Die ==
    /\ pc # "idle"
    /\ waiting' = IF SaysDownloading THEN waiting ELSE waiting \ {cur}
    /\ Leave
    /\ UNCHANGED <<Disk, ghostVars>>

Next ==
    \/ \E j \in Jobs : StartJob(j)
    \/ CreateFile \/ FileWritten \/ FileFails \/ Finalize \/ FinalizeFails
    \/ StopJob \/ LoopEnds
    \/ SkipPar2 \/ Par2 \/ ListArchives \/ ExtractEnds
    \/ \E f \in Files : Extract(f) \/ ExtractFails(f) \/ CleanupOne(f)
    \/ CleanupEnds \/ Finish \/ Die

Spec == Init /\ [][Next]_vars

-----------------------------------------------------------------------------
(* Properties.                                                             *)

\* The output directory has whole files only: of a download that was cut short
\* by an error, a pause or a crash nothing is to be seen there, and no later
\* attempt leaves a mixture of two.
OutputIsWhole == \A f \in Files : out[f] # "partial"

\* A job that met no error comes to post-processing with all its files in the
\* output directory, whatever happened to those of earlier attempts: another
\* job's cleanup may have removed them while this one was paused.
AttemptDeliversAll ==
    pc \in {"par2", "list"} /\ whole
        => \A f \in FilesOf(cur) : out[f] \in {"good", "bad"}

\* What is delivered stays as long as nothing was ever extracted: without a
\* working 7z, cleanup removes nothing, neither of this job nor of another.
\* And an archive is gone only if its set was extracted, once or more, and lies
\* unpacked in the directory, or 7z has failed on it.  The others that go are
\* those extract does not take for archives ("odd").
ArchiveOrContent ==
    \A f \in delivered : out[f] = "none" =>
        /\ unpacked # {}
        /\ KindOf(f) = "main" /\ f \notin refused => f \in unpacked

-----------------------------------------------------------------------------
(* What a comment says and the code does not keep.                         *)

\* postprocess.go: "cleanup removes archive and parity files after successful
\* extraction".
CleanupAfterExtraction ==
    [][\A f \in Files :
          out[f] # "none" /\ out'[f] = "none" /\ KindOf(f) \in {"main", "odd"}
              => f \in unpacked]_vars

=============================================================================
