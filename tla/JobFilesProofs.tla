---------------------------- MODULE JobFilesProofs ----------------------------
(***************************************************************************)
(* What the output directory shows is whole: of a file that Finalize moves *)
(* all segments have been gone through, for any number of jobs and files,  *)
(* in any state of the directories.  An attempt without an error delivers  *)
(* every file, and no archive goes without its content or a refusal of 7z. *)
(***************************************************************************)
EXTENDS JobFiles, TLAPS

\* Inside the loop there is a file in hand, and in front of the rename it has
\* been gone through to its end.
Writing == pc \in {"writing", "finalize"} => InLoop

Gone == pc = "finalize" => work[Current] \in {"good", "bad"}

IndInv == TypeOK /\ Writing /\ Gone /\ OutputIsWhole

-----------------------------------------------------------------------------

\* What the loop is at is a file.
LEMMA CurrentIsFile ==
    ASSUME cur \in Jobs, file \in 1..Len(Nzb[cur]) + 1, InLoop
    PROVE  Current \in Files
<1>1. file \in DOMAIN Nzb[cur]
  BY NzbIsKinds DEF InLoop
<1>2. QED
  BY <1>1 DEF Files, Current

LEMMA InitIndInv == Init => IndInv
<1> SUFFICES ASSUME Init
             PROVE  IndInv
  OBVIOUS
<1>1. work \in [Files -> Content] /\ out \in [Files -> Content]
  BY DEF Init, Content
<1>2. cfg \in [par2 : BOOLEAN, unpack : BOOLEAN, cleanup : BOOLEAN]
  BY DEF Init, Off
<1>3. OutputIsWhole
  BY DEF Init, OutputIsWhole
<1>4. pc = "idle" /\ cur = None /\ file = 0
  BY DEF Init
<1>5. Writing /\ Gone
  BY <1>4 DEF Writing, Gone
<1>6. TypeOK
  BY <1>1, <1>2, <1>4 DEF Init, TypeOK, PC
<1>7. QED
  BY <1>3, <1>5, <1>6 DEF IndInv

LEMMA StepIndInv == IndInv /\ [Next]_vars => IndInv'
<1> SUFFICES ASSUME IndInv, [Next]_vars
             PROVE  IndInv'
  OBVIOUS
<1> USE DEF IndInv
<1>0. cur # None => Len(Nzb[cur]) \in Nat
  BY NzbIsKinds DEF TypeOK
<1>1. ASSUME NEW j \in Jobs, StartJob(j)
      PROVE  IndInv'
  <2>1. Len(Nzb[j]) \in Nat
    BY NzbIsKinds
  <2>2. QED
    BY <1>1, <2>1, NoneIsNoJob DEF StartJob, Goto, Disk, TypeOK, PC, Writing, Gone,
       OutputIsWhole
<1>2. CASE CreateFile
  <2>1. cur \in Jobs
    BY <1>2 DEF CreateFile, Goto, TypeOK
  <2>2. Current \in Files
    BY <1>2, <2>1, CurrentIsFile, NoneIsNoJob DEF CreateFile, TypeOK
  <2>3. work' \in [Files -> Content]
    <3>1. work \in [Files -> Content] /\ "partial" \in Content
      BY DEF TypeOK, Content
    <3>2. work' = [work EXCEPT ![Current] = "partial"]
      BY <1>2 DEF CreateFile
    <3>3. QED
      BY <2>2, <3>1, <3>2
  <2>4. TypeOK'
    BY <1>2, <2>1, <2>3 DEF CreateFile, Goto, TypeOK, PC, ghostVars
  <2>5. Writing' /\ Gone'
    BY <1>2 DEF CreateFile, Goto, Writing, Gone, InLoop
  <2>6. QED
    BY <1>2, <2>4, <2>5 DEF CreateFile, OutputIsWhole
<1>3. CASE FileWritten
  <2>1. cur \in Jobs
    BY <1>3 DEF FileWritten, Goto, TypeOK
  <2>2. Current \in Files
    BY <1>3, <2>1, CurrentIsFile, NoneIsNoJob DEF FileWritten, Goto, TypeOK, Writing
  <2>3. QED
    BY <1>3, <2>1, <2>2 DEF FileWritten, Goto, TypeOK, PC, Writing, Gone,
       OutputIsWhole, Content, ghostVars, InLoop, Current
<1>4. CASE FileFails
  <2>1. cur \in Jobs /\ InLoop
    BY <1>4 DEF FileFails, Goto, TypeOK, Writing
  <2>2. file + 1 \in 1..Len(Nzb[cur]) + 1
    BY <1>0, <2>1, NoneIsNoJob DEF TypeOK, InLoop
  <2>3. TypeOK'
    BY <1>4, <2>1, <2>2 DEF FileFails, Goto, Disk, TypeOK, PC
  <2>4. QED
    BY <1>4, <2>3 DEF FileFails, Goto, Disk, Writing, Gone, OutputIsWhole
<1>5. CASE Finalize
  <2>1. cur \in Jobs
    BY <1>5 DEF Finalize, Goto, TypeOK
  <2>2. Current \in Files
    BY <1>5, <2>1, CurrentIsFile, NoneIsNoJob DEF Finalize, Goto, TypeOK, Writing
  <2>3. out' = [out EXCEPT ![Current] = work[Current]] /\ work[Current] \in {"good", "bad"}
    BY <1>5 DEF Finalize, Goto, Gone
  <2>4. OutputIsWhole'
    BY <2>2, <2>3 DEF OutputIsWhole, TypeOK
  <2>5. TypeOK'
    BY <1>0, <1>5, <2>1, <2>2, <2>3 DEF Finalize, Goto, TypeOK, PC, Content, Writing, InLoop
  <2>6. QED
    BY <1>5, <2>4, <2>5 DEF Finalize, Goto, Writing, Gone
<1>6. CASE FinalizeFails
  <2>1. cur \in Jobs /\ InLoop
    BY <1>6 DEF FinalizeFails, Goto, TypeOK, Writing
  <2>2. file + 1 \in 1..Len(Nzb[cur]) + 1
    BY <1>0, <2>1, NoneIsNoJob DEF TypeOK, InLoop
  <2>3. TypeOK'
    BY <1>6, <2>1, <2>2 DEF FinalizeFails, Goto, Disk, TypeOK, PC
  <2>4. QED
    BY <1>6, <2>3 DEF FinalizeFails, Goto, Disk, Writing, Gone, OutputIsWhole
<1>7. CASE StopJob
  BY <1>7 DEF StopJob, Leave, Disk, ghostVars, TypeOK, PC, Writing, Gone,
     OutputIsWhole, Off
<1>8. CASE LoopEnds
  BY <1>8 DEF LoopEnds, Goto, Disk, ghostVars, TypeOK, PC, Writing, Gone, OutputIsWhole
<1>9. CASE SkipPar2
  BY <1>9 DEF SkipPar2, AfterPar2, Goto, Disk, ghostVars, TypeOK, PC, Writing, Gone,
     OutputIsWhole
<1>10. CASE Par2
  <2>1. out' \in [Files -> Content] /\ OutputIsWhole'
    BY <1>10 DEF Par2, TypeOK, Content, OutputIsWhole
  <2>2. QED
    BY <1>10, <2>1 DEF Par2, AfterPar2, Goto, ghostVars, TypeOK, PC, Writing, Gone
<1>11. CASE ListArchives
  BY <1>11 DEF ListArchives, Present, Goto, Disk, ghostVars, TypeOK, PC, Writing, Gone,
     OutputIsWhole
<1>12. CASE ExtractEnds
  BY <1>12 DEF ExtractEnds, Goto, Disk, ghostVars, TypeOK, PC, Writing, Gone, OutputIsWhole
<1>13. ASSUME NEW f \in Files, Extract(f)
       PROVE  IndInv'
  BY <1>13 DEF Extract, ghostVars, TypeOK, PC, Writing, Gone, OutputIsWhole, InLoop, Current
<1>14. ASSUME NEW f \in Files, ExtractFails(f)
       PROVE  IndInv'
  BY <1>14 DEF ExtractFails, Disk, TypeOK, PC, Writing, Gone, OutputIsWhole, InLoop, Current
<1>15. ASSUME NEW f \in Files, CleanupOne(f)
       PROVE  IndInv'
  BY <1>15 DEF CleanupOne, runVars, ghostVars, TypeOK, PC, Content, Writing, Gone,
     OutputIsWhole, InLoop, Current
<1>16. CASE CleanupEnds
  BY <1>16 DEF CleanupEnds, Goto, Disk, ghostVars, TypeOK, PC, Writing, Gone, OutputIsWhole
<1>17. CASE Finish
  BY <1>17 DEF Finish, Leave, Disk, ghostVars, TypeOK, PC, Writing, Gone, OutputIsWhole, Off
<1>18. CASE Die
  BY <1>18 DEF Die, Leave, Disk, ghostVars, TypeOK, PC, Writing, Gone, OutputIsWhole, Off
<1>19. CASE UNCHANGED vars
  BY <1>19 DEF vars, runVars, ghostVars, TypeOK, Writing, Gone, OutputIsWhole, InLoop, Current
<1>20. QED
  BY <1>1, <1>2, <1>3, <1>4, <1>5, <1>6, <1>7, <1>8, <1>9, <1>10, <1>11, <1>12, <1>13,
     <1>14, <1>15, <1>16, <1>17, <1>18, <1>19 DEF Next

\* The output directory has whole files only, through errors, pauses, crashes
\* and second attempts (engine.go 217-249, assembler.go 49-64).
THEOREM OutputStaysWhole == Spec => []OutputIsWhole
<1>1. IndInv => OutputIsWhole
  BY DEF IndInv
<1>2. QED
  BY InitIndInv, StepIndInv, <1>1, PTL DEF Spec

\* Every reachable state is type correct; in particular the file loop never
\* goes past the file behind the last.
THEOREM FilesTypeCorrect == Spec => []TypeOK
<1>1. IndInv => TypeOK
  BY DEF IndInv
<1>2. QED
  BY InitIndInv, StepIndInv, <1>1, PTL DEF Spec
-----------------------------------------------------------------------------
(* What is delivered.                                                      *)

Has(f) == out[f] \in {"good", "bad"}

\* While the loop has met no error, what it has gone through is delivered.
LoopDelivers ==
    pc \in {"files", "writing", "finalize"} /\ whole
        => \A i \in 1..file - 1 : Has(<<cur, i>>)

\* Every archive in the directory is still to be tried, or has been.
MainsTried ==
    /\ pc = "extract" => Present({"main"}) \subseteq archives \cup unpacked \cup refused
    /\ pc = "cleanup" => Present({"main"}) \subseteq unpacked \cup refused

\* Cleanup follows an extraction, whose content stays.
ExtractedSome ==
    /\ extracted => unpacked # {}
    /\ pc = "cleanup" => extracted

DeliveryInv ==
    /\ LoopDelivers
    /\ AttemptDeliversAll
    /\ MainsTried
    /\ ExtractedSome
    /\ ArchiveOrContent

LEMMA InitDeliveryInv == Init => DeliveryInv
BY DEF Init, DeliveryInv, LoopDelivers, AttemptDeliversAll, MainsTried,
       ExtractedSome, ArchiveOrContent

LEMMA StepDeliveryInv == IndInv /\ DeliveryInv /\ [Next]_vars => DeliveryInv'
<1> SUFFICES ASSUME IndInv, DeliveryInv, [Next]_vars
             PROVE  DeliveryInv'
  OBVIOUS
<1>a. TypeOK /\ out \in [Files -> Content]
  BY DEF IndInv, TypeOK
<1> USE DEF DeliveryInv, ExtractedSome, Goto
\* Steps of the loop that deliver nothing, and the ends of an attempt.
<1>1. ASSUME UNCHANGED <<out, unpacked, delivered, refused>>,
             pc' \in {"idle", "writing", "finalize", "finish"}
                \/ (pc' = "files" /\ whole' = FALSE),
             pc' \in {"writing", "finalize"}
                => /\ UNCHANGED <<cur, file, whole>>
                   /\ pc \in {"files", "writing", "finalize"},
             extracted' => extracted
      PROVE  DeliveryInv'
  BY <1>1 DEF LoopDelivers, AttemptDeliversAll, MainsTried, ArchiveOrContent, Has
<1>2. ASSUME NEW j \in Jobs, StartJob(j)
      PROVE  DeliveryInv'
  BY <1>2 DEF StartJob, Disk, LoopDelivers, AttemptDeliversAll, MainsTried,
     ArchiveOrContent
<1>3. CASE CreateFile \/ FileWritten
  BY <1>1, <1>3 DEF CreateFile, FileWritten, ghostVars
<1>4. CASE FileFails \/ FinalizeFails
  BY <1>1, <1>4 DEF FileFails, FinalizeFails, Disk
<1>5. CASE Finalize
  <2>1. Current \in Files /\ cur \in Jobs /\ file \in Nat \ {0}
    <3>1. cur \in Jobs
      BY <1>5, <1>a DEF Finalize, TypeOK
    <3>2. Current \in Files
      BY <1>5, <1>a, <3>1, CurrentIsFile, NoneIsNoJob DEF Finalize, TypeOK, IndInv, Writing
    <3>3. Len(Nzb[cur]) \in Nat
      BY <3>1, NzbIsKinds
    <3> QED
      BY <1>a, <3>1, <3>2, <3>3, NoneIsNoJob DEF TypeOK
  <2>2. work[Current] \in {"good", "bad"}
    BY <1>5 DEF Finalize, IndInv, Gone
  <2>3. \A f \in Files : out'[f] = IF f = Current THEN work[Current] ELSE out[f]
    BY <1>5, <1>a, <2>1 DEF Finalize
  <2>4. LoopDelivers'
    <3> SUFFICES ASSUME whole, NEW i \in 1..file
                 PROVE  out'[<<cur, i>>] \in {"good", "bad"}
      BY <1>5, <2>1 DEF Finalize, LoopDelivers, Has
    <3>1. <<cur, i>> \in Files
      <4>1. Nzb[cur] \in Seq(Kind)
        BY <2>1, NzbIsKinds
      <4>2. i \in 1..Len(Nzb[cur])
        BY <1>5, <2>1, <4>1 DEF Finalize, IndInv, Writing, InLoop
      <4> QED
        BY <2>1, <4>1, <4>2 DEF Files
    <3>2. i # file => Has(<<cur, i>>)
      BY <1>5, <2>1 DEF Finalize, LoopDelivers
    <3> QED
      BY <2>2, <2>3, <3>1, <3>2 DEF Current, Has
  <2>5. ArchiveOrContent'
    <3> SUFFICES ASSUME NEW f \in delivered', out'[f] = "none"
                 PROVE  /\ unpacked # {}
                        /\ KindOf(f) = "main" /\ f \notin refused => f \in unpacked
      BY <1>5 DEF Finalize, ArchiveOrContent
    <3>1. f \in Files
      BY <1>5, <1>a, <2>1 DEF Finalize, TypeOK
    <3>2. f # Current
      BY <2>2, <2>3, <3>1
    <3>3. f \in delivered /\ out[f] = "none"
      BY <1>5, <2>3, <3>1, <3>2 DEF Finalize
    <3> QED
      BY <3>3 DEF ArchiveOrContent
  <2> QED
    BY <1>5, <2>4, <2>5 DEF Finalize, AttemptDeliversAll, MainsTried
<1>6. CASE StopJob \/ Finish \/ Die
  BY <1>1, <1>6 DEF StopJob, Finish, Die, Leave, Disk, ghostVars
<1>7. CASE LoopEnds
  <2>1. CASE pc' = "finish"
    BY <1>1, <1>7, <2>1 DEF LoopEnds, Disk, ghostVars
  <2>2. CASE pc' = "par2"
    <3>1. ASSUME whole, NEW f \in FilesOf(cur)
          PROVE  Has(f)
      <4>1. cur \in Jobs
        BY <1>7, <1>a DEF LoopEnds, TypeOK
      <4>2. Len(Nzb[cur]) \in Nat /\ DOMAIN Nzb[cur] = 1..Len(Nzb[cur])
        BY <4>1, NzbIsKinds
      <4>3. file = Len(Nzb[cur]) + 1
        BY <1>7, <1>a, <4>1, <4>2, NoneIsNoJob DEF LoopEnds, TypeOK, InLoop
      <4>4. PICK i \in 1..Len(Nzb[cur]) : f = <<cur, i>>
        BY <4>2 DEF FilesOf
      <4>5. i \in 1..file - 1
        BY <4>2, <4>3
      <4> QED
        BY <1>7, <3>1, <4>4, <4>5 DEF LoopEnds, LoopDelivers
    <3> QED
      BY <1>7, <2>2, <3>1 DEF LoopEnds, Disk, ghostVars, LoopDelivers, Has,
         AttemptDeliversAll, MainsTried, ArchiveOrContent
  <2> QED
    BY <1>7, <2>1, <2>2 DEF LoopEnds
<1>8. CASE SkipPar2
  BY <1>8 DEF SkipPar2, AfterPar2, Disk, ghostVars, LoopDelivers,
     AttemptDeliversAll, MainsTried, ArchiveOrContent
\* par2 makes files, or makes them good.
<1>9. CASE Par2
  <2>1. \A f \in Files : out'[f] = out[f] \/ out'[f] = "good"
    BY <1>9, <1>a DEF Par2
  <2>2. \A f \in FilesOf(cur) : cur \in Jobs => f \in Files
    BY DEF Files, FilesOf
  <2>3. cur \in Jobs /\ delivered \subseteq Files
    BY <1>9, <1>a DEF Par2, TypeOK
  <2>4. AttemptDeliversAll'
    BY <1>9, <2>1, <2>2, <2>3 DEF Par2, AfterPar2, ghostVars, AttemptDeliversAll
  <2>5. ArchiveOrContent'
    BY <1>9, <2>1, <2>3 DEF Par2, ghostVars, ArchiveOrContent
  <2> QED
    BY <1>9, <2>4, <2>5 DEF Par2, AfterPar2, ghostVars, LoopDelivers, MainsTried
<1>10. CASE ListArchives
  BY <1>10 DEF ListArchives, Disk, ghostVars, LoopDelivers, AttemptDeliversAll,
     MainsTried, ArchiveOrContent, Present
<1>11. ASSUME NEW f \in Files, Extract(f) \/ ExtractFails(f)
       PROVE  DeliveryInv'
  <2>1. /\ pc = "extract" /\ pc' = "extract"
        /\ out' = out /\ delivered' = delivered
        /\ archives' = archives \ {f}
        /\ unpacked \subseteq unpacked' /\ refused \subseteq refused'
        /\ f \in unpacked' \cup refused'
    BY <1>11 DEF Extract, ExtractFails, Disk, ghostVars
  <2>2. extracted' => unpacked' # {}
    BY <1>11, <2>1 DEF Extract, ExtractFails, Disk
  <2>3. MainsTried'
    BY <2>1 DEF MainsTried, Present
  <2>4. ArchiveOrContent'
    BY <2>1 DEF ArchiveOrContent
  <2> QED
    BY <2>1, <2>2, <2>3, <2>4 DEF LoopDelivers, AttemptDeliversAll
<1>12. CASE ExtractEnds
  BY <1>12 DEF ExtractEnds, Disk, ghostVars, LoopDelivers, AttemptDeliversAll,
     MainsTried, ArchiveOrContent, Present
<1>13. ASSUME NEW f \in Files, CleanupOne(f)
       PROVE  DeliveryInv'
  <2>1. /\ pc = "cleanup" /\ pc' = "cleanup"
        /\ out[f] # "none"
        /\ \A g \in Files : out'[g] = IF g = f THEN "none" ELSE out[g]
        /\ UNCHANGED <<unpacked, extracted, delivered, refused>>
    BY <1>13, <1>a DEF CleanupOne, Rubbish, Present, runVars, ghostVars
  <2>2. KindOf(f) = "main" => f \in unpacked \cup refused
    BY <2>1 DEF MainsTried, Present
  <2>3. ArchiveOrContent'
    BY <1>a, <2>1, <2>2 DEF ArchiveOrContent, TypeOK
  <2>4. MainsTried'
    BY <2>1 DEF MainsTried, Present
  <2> QED
    BY <2>1, <2>3, <2>4 DEF LoopDelivers, AttemptDeliversAll
<1>14. CASE CleanupEnds
  BY <1>1, <1>14 DEF CleanupEnds, Disk, ghostVars
<1>15. CASE UNCHANGED vars
  BY <1>15 DEF vars, runVars, ghostVars, LoopDelivers, AttemptDeliversAll,
     MainsTried, ArchiveOrContent, Present, Has
<1> QED
  BY <1>2, <1>3, <1>4, <1>5, <1>6, <1>7, <1>8, <1>9, <1>10, <1>11, <1>12,
     <1>13, <1>14, <1>15 DEF Next

\* A job that met no error comes to post-processing with all its files in the
\* output directory, though an earlier attempt of it was cut short and other
\* jobs were cleaned up meanwhile.
THEOREM ErrorFreeAttemptDelivers == Spec => []AttemptDeliversAll
<1>1. DeliveryInv => AttemptDeliversAll
  BY DEF DeliveryInv
<1>2. QED
  BY InitIndInv, StepIndInv, InitDeliveryInv, StepDeliveryInv, <1>1, PTL DEF Spec

\* A delivered file goes only when something was extracted, and an archive
\* only when it was extracted itself or 7z has failed on it.
THEOREM ArchivesAreTriedFirst == Spec => []ArchiveOrContent
<1>1. DeliveryInv => ArchiveOrContent
  BY DEF DeliveryInv
<1>2. QED
  BY InitIndInv, StepIndInv, InitDeliveryInv, StepDeliveryInv, <1>1, PTL DEF Spec

=============================================================================
