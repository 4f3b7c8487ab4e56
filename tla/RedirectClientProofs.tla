------------------------ MODULE RedirectClientProofs ------------------------
(* What redirect_client promises about the copy it publishes, for any      *)
(* number of competing runs, any manifest and any number of faults.        *)
EXTENDS RedirectClient, TLAPS

Left(r) == {todo[r][i] : i \in DOMAIN todo[r]}

(* What a run may count on at each point of create_patched_copy.  What a   *)
(* verification has read so far is as it must be: nobody else writes to    *)
(* the temporary directory, and the source changes only with a fault.  The *)
(* published copy is the run's own until it ends or has removed it.        *)
RunInv(r) ==
    /\ pc[r] = "verifying_temporary" =>
          \A p \in Paths : p \in Left(r) \/ temporary[r][p] = Patched[p]
    /\ pc[r] = "renaming" => temporary[r] = Patched
    /\ pc[r] = "verifying_source_again" /\ quiet[r] =>
          \A p \in Paths : p \in Left(r) \/ source[p] = Original[p]
    /\ pc[r] = "created" /\ quiet[r] => source = Original
    /\ owner = r => published[r]
    /\ pc[r] \in {"waiting", "verifying_source"} => ~published[r]
    /\ published[r] => temporary[r] = NoDir
    /\ pc[r] \in {"verifying_output", "verifying_source_again", "created"} =>
          owner = r /\ output # EmptyDir
    /\ pc[r] = "removing_output" => temporary[r] = NoDir
    /\ pc[r] = "removing_output" => \A p \in doomed[r] : owner = r /\ output[p] # "absent"
    /\ pc[r] = "failed" => temporary[r] = NoDir /\ owner # r

OutputHasOwner == output = NoDir <=> owner = NoRun

IInv ==
    /\ TypeOK
    /\ OutputHasOwner
    /\ PublishedIsWhole
    /\ \A r \in Runs : RunInv(r)

-----------------------------------------------------------------------------
(* The trees and lists of paths that the actions name.                     *)
LEMMA TreeTypes ==
    /\ EmptyDir \in Trees /\ Original \in Trees /\ Patched \in Trees
    /\ Patched # EmptyDir
<1>1. EmptyDir \in Trees /\ Original \in Trees
      BY DEF EmptyDir, Original, Trees, Contents
<1>2. Patched \in Trees  BY <1>1 DEF Patched, Trees, Contents, Paths
<1>3. Patched[Marker] = "marker" /\ EmptyDir[Marker] = "absent"
      BY <1>1 DEF Patched, EmptyDir, Trees, Paths
<1>. QED BY <1>1, <1>2, <1>3

(* Writing one path of a tree gives a tree.                                *)
LEMMA TreeEdit ==
    ASSUME NEW t \in Trees, NEW p \in Paths, NEW c \in Contents
    PROVE  [t EXCEPT ![p] = c] \in Trees
BY DEF Trees

(* The paths with a name of their own are paths.                           *)
LEMMA PathTypes ==
    /\ Metadata \in Paths /\ Marker \in Paths /\ Extra \in Paths
    /\ "patched" \in Contents /\ "marker" \in Contents /\ "other" \in Contents
    /\ "absent" \in Contents
    /\ ManifestFiles \cup {Extra} \subseteq Paths
BY RedirectAssumption DEF Paths, Contents

(* The manifest is a sequence of paths, and so are the lists built from it. *)
LEMMA ListTypes ==
    /\ SourceChecks \in Seq(Paths) /\ CopyChecks \in Seq(Paths)
    /\ Manifest \o <<Marker, Extra>> \in Seq(Paths)
<1>1. Manifest \in Seq(Paths)
  <2>1. Manifest \in Seq(ManifestFiles)  BY RedirectAssumption
  <2>. QED BY <2>1 DEF Paths
<1>2. Marker \in Paths /\ Extra \in Paths /\ Metadata \in Paths
      BY RedirectAssumption DEF Paths
<1>3. <<Marker, Extra, Metadata>> \in Seq(Paths) /\ <<Marker>> \in Seq(Paths)
      /\ <<Extra, Metadata>> \in Seq(Paths) /\ <<Marker, Extra>> \in Seq(Paths)
      BY <1>2
<1>4. <<Marker>> \o Manifest \in Seq(Paths)  BY <1>1, <1>3
<1>. QED BY <1>1, <1>3, <1>4 DEF SourceChecks, CopyChecks

(* Taking the head off a list leaves every other member in it.             *)
LEMMA TailKeepsTheRest ==
    ASSUME NEW S, NEW a \in Seq(S), a # <<>>, NEW i \in DOMAIN a, a[i] # Head(a)
    PROVE  \E k \in DOMAIN Tail(a) : Tail(a)[k] = a[i]
<1>1. i # 1 /\ i - 1 \in DOMAIN Tail(a) /\ Tail(a)[i - 1] = a[i]  OBVIOUS
<1>. QED BY <1>1

(* A verification reads every path: nothing is published unread.           *)
LEMMA ChecksReadEverything ==
    \A p \in Paths :
        /\ \E i \in DOMAIN SourceChecks : SourceChecks[i] = p
        /\ \E i \in DOMAIN CopyChecks : CopyChecks[i] = p
<1>. SUFFICES ASSUME NEW p \in Paths
              PROVE  /\ \E i \in DOMAIN SourceChecks : SourceChecks[i] = p
                     /\ \E i \in DOMAIN CopyChecks : CopyChecks[i] = p
     OBVIOUS
<1>. DEFINE n == Len(Manifest)
<1>1. Manifest \in Seq(Paths) /\ n \in Nat
  <2>1. Manifest \in Seq(ManifestFiles)  BY RedirectAssumption
  <2>. QED BY <2>1 DEF Paths
<1>2. CASE p \in ManifestFiles
  <2>1. PICK i \in DOMAIN Manifest : Manifest[i] = p  BY <1>2 DEF ManifestFiles
  <2>2. i \in DOMAIN SourceChecks /\ SourceChecks[i] = p
        BY <1>1, <2>1 DEF SourceChecks
  <2>3. i + 1 \in DOMAIN CopyChecks /\ CopyChecks[i + 1] = p
        BY <1>1, <2>1 DEF CopyChecks
  <2>. QED BY <2>2, <2>3
<1>3. CASE p = Marker
  <2>1. n + 1 \in DOMAIN SourceChecks /\ SourceChecks[n + 1] = Marker
        BY <1>1 DEF SourceChecks
  <2>2. 1 \in DOMAIN CopyChecks /\ CopyChecks[1] = Marker
        BY <1>1 DEF CopyChecks
  <2>. QED BY <1>3, <2>1, <2>2
<1>4. CASE p = Extra
  <2>1. n + 2 \in DOMAIN SourceChecks /\ SourceChecks[n + 2] = Extra
        BY <1>1 DEF SourceChecks
  <2>2. n + 2 \in DOMAIN CopyChecks /\ CopyChecks[n + 2] = Extra
        BY <1>1 DEF CopyChecks
  <2>. QED BY <1>4, <2>1, <2>2
<1>. QED BY <1>2, <1>3, <1>4 DEF Paths

-----------------------------------------------------------------------------
(* Types.                                                                  *)

(* The variables a jump of one run changes keep their types.               *)
ControlTypes ==
    /\ pc' \in [Runs -> Phases]
    /\ todo' \in [Runs -> Seq(Paths)]
    /\ doomed' \in [Runs -> SUBSET Paths]

(* A jump to a phase with its list.                                        *)
LEMMA GotoTypes ==
    ASSUME TypeOK, NEW r \in Runs, NEW phase \in Phases, NEW work \in Seq(Paths),
           Goto(r, phase, work)
    PROVE  ControlTypes
BY DEF TypeOK, Goto, ControlTypes

(* An exception, wherever it is raised.                                    *)
LEMMA RaiseTypes ==
    ASSUME TypeOK, NEW r \in Runs, Raise(r)
    PROVE  /\ ControlTypes
           /\ pc' = [pc EXCEPT ![r] = pc'[r]]
           /\ pc'[r] \in {"removing_temporary", "removing_output", "failed"}
           /\ pc'[r] = "removing_temporary" => temporary[r] # NoDir
<1>1. CASE Goto(r, "removing_temporary", <<>>) /\ temporary[r] # NoDir
      BY <1>1 DEF TypeOK, Goto, ControlTypes, Phases, Removing
<1>2. CASE Goto(r, "failed", <<>>)
      BY <1>2 DEF TypeOK, Goto, ControlTypes, Phases, Ended
<1>3. CASE StartRemoval(r)
      BY <1>3 DEF TypeOK, StartRemoval, Entries, ControlTypes, Phases, Removing
<1>. QED BY <1>1, <1>2, <1>3 DEF Raise, RemoveOutput

(* Every step of a run, of a fault or of another program keeps the types.  *)
LEMMA TypeStep == TypeOK /\ [Next]_vars => TypeOK'
<1>. SUFFICES ASSUME TypeOK, [Next]_vars PROVE TypeOK'
     OBVIOUS
<1>. USE TreeTypes, ListTypes, RedirectAssumption
<1>1. ASSUME NEW r \in Runs, Begin(r) PROVE TypeOK'
  <2>1. ControlTypes
    <3>1. "refused" \in Phases /\ "verifying_source" \in Phases /\ <<>> \in Seq(Paths)
          BY DEF Phases, Ended, Working, Verifying, ReadingSource
    <3>2. CASE Goto(r, "refused", <<>>)  BY <3>1, <3>2, GotoTypes, Zenon
    <3>3. CASE Goto(r, "verifying_source", SourceChecks)  BY <3>1, <3>3, GotoTypes, Zenon
    <3>. QED BY <1>1, <3>2, <3>3 DEF Begin
  <2>. QED BY <1>1, <2>1 DEF TypeOK, ControlTypes, Begin, Goto, Trees_, History, HavingTemporary
<1>2. ASSUME NEW r \in Runs, Check(r) PROVE TypeOK'
  <2>1. CASE Raise(r)
    <3>1. ControlTypes /\ pc' = [pc EXCEPT ![r] = pc'[r]]
          /\ pc'[r] \in {"removing_temporary", "removing_output", "failed"}
          /\ (pc'[r] = "removing_temporary" => temporary[r] # NoDir)
          BY <2>1, RaiseTypes, Zenon
    <3>. QED BY <1>2, <3>1 DEF TypeOK, ControlTypes, Check, Trees_, History, HavingTemporary
  <2>2. CASE Goto(r, pc[r], Tail(todo[r]))
    <3>1. Tail(todo[r]) \in Seq(Paths) /\ pc[r] \in Phases
          BY <1>2 DEF TypeOK, Check
    <3>2. ControlTypes  BY <2>2, <3>1, GotoTypes, Zenon
    <3>. QED BY <1>2, <2>2, <3>2 DEF TypeOK, ControlTypes, Check, Goto, Trees_, History, HavingTemporary
  <2>. QED BY <1>2, <2>1, <2>2 DEF Check
<1>3. ASSUME NEW r \in Runs, Verified(r) PROVE TypeOK'
  <2>. DEFINE list == Manifest \o <<Marker, Extra>>
  <2>1. CASE /\ pc[r] = "verifying_source"
             /\ temporary' = [temporary EXCEPT ![r] = EmptyDir]
             /\ Goto(r, "copying", list)
    <3>1. list \in Seq(Paths)  OBVIOUS
    <3>. HIDE DEF list
    <3>2. ControlTypes
      <4>1. "copying" \in Phases  BY DEF Phases, Working
      <4>. QED BY <2>1, <3>1, <4>1, GotoTypes, Zenon
    <3>3. temporary' \in [Runs -> Trees \cup {NoDir}] /\ temporary'[r] # NoDir
          /\ \A s \in Runs \ {r} : temporary'[s] = temporary[s]
          BY <2>1 DEF TypeOK
    <3>4. \A s \in Runs : pc'[s] \in HavingTemporary => temporary'[s] # NoDir
          BY <2>1, <3>3 DEF TypeOK, Goto, HavingTemporary
    <3>. QED BY <1>3, <3>2, <3>3, <3>4 DEF TypeOK, ControlTypes, Verified, History
  <2>2. CASE /\ pc[r] = "verifying_temporary"
             /\ Goto(r, "renaming", <<>>)
             /\ UNCHANGED temporary
        BY <1>3, <2>2 DEF TypeOK, Verified, Goto, History, HavingTemporary, Phases, Working
  <2>3. CASE /\ pc[r] = "verifying_output"
             /\ Goto(r, "verifying_source_again", SourceChecks)
             /\ UNCHANGED temporary
        BY <1>3, <2>3 DEF TypeOK, Verified, Goto, History, HavingTemporary,
           Phases, Working, Verifying, ReadingSource
  <2>4. CASE /\ pc[r] = "verifying_source_again"
             /\ Goto(r, "created", <<>>)
             /\ UNCHANGED temporary
        BY <1>3, <2>4 DEF TypeOK, Verified, Goto, History, HavingTemporary, Phases, Ended
  <2>. QED BY <1>3, <2>1, <2>2, <2>3, <2>4 DEF Verified
<1>4. ASSUME NEW r \in Runs, CopyFile(r) PROVE TypeOK'
  <2>. DEFINE phase == IF Len(todo[r]) = 1 THEN "patching" ELSE "copying"
              p == Head(todo[r])
  <2>1. p \in Paths /\ Tail(todo[r]) \in Seq(Paths) /\ source[p] \in Contents
        BY <1>4 DEF TypeOK, CopyFile, Trees
  <2>2. temporary[r] \in Trees  BY <1>4 DEF TypeOK, CopyFile, HavingTemporary
  <2>3. ControlTypes
    <3>1. phase \in Phases  BY DEF Phases, Working
    <3>2. Goto(r, phase, Tail(todo[r]))  BY <1>4 DEF CopyFile
    <3>. HIDE DEF phase
    <3>. QED BY <2>1, <3>1, <3>2, GotoTypes, Zenon
  <2>4. temporary' = [temporary EXCEPT ![r] = [temporary[r] EXCEPT ![p] = source[p]]]
        BY <1>4 DEF CopyFile
  <2>5. temporary' \in [Runs -> Trees \cup {NoDir}] /\ temporary'[r] # NoDir
        /\ \A s \in Runs \ {r} : temporary'[s] = temporary[s]
    <3>. HIDE DEF p
    <3>1. [temporary[r] EXCEPT ![p] = source[p]] \in Trees  BY <2>1, <2>2, TreeEdit, Zenon
    <3>. QED BY <2>4, <3>1 DEF TypeOK
  <2>6. \A s \in Runs : pc'[s] \in HavingTemporary => temporary'[s] # NoDir
        BY <1>4, <2>5 DEF TypeOK, CopyFile, Goto
  <2>. QED BY <1>4, <2>3, <2>5, <2>6 DEF TypeOK, ControlTypes, CopyFile, History
<1>5. ASSUME NEW r \in Runs, PatchMetadata(r) PROVE TypeOK'
  <2>1. temporary[r] \in Trees  BY <1>5 DEF TypeOK, PatchMetadata, HavingTemporary
  <2>2. [temporary[r] EXCEPT ![Metadata] = "patched"] \in Trees
        BY <2>1, TreeEdit, PathTypes, Zenon
  <2>3. CASE Raise(r) /\ UNCHANGED temporary
    <3>1. ControlTypes /\ pc' = [pc EXCEPT ![r] = pc'[r]]
          /\ pc'[r] \in {"removing_temporary", "removing_output", "failed"}
          /\ (pc'[r] = "removing_temporary" => temporary[r] # NoDir)
          BY <2>3, RaiseTypes, Zenon
    <3>. QED BY <1>5, <2>3, <3>1 DEF TypeOK, ControlTypes, PatchMetadata, History, HavingTemporary
  <2>4. CASE /\ temporary' = [temporary EXCEPT ![r][Metadata] = "patched"]
             /\ Goto(r, "marking", <<>>)
    <3>1. ControlTypes
      <4>1. "marking" \in Phases /\ <<>> \in Seq(Paths)  BY DEF Phases, Working
      <4>. QED BY <2>4, <4>1, GotoTypes, Zenon
    <3>2. temporary' \in [Runs -> Trees \cup {NoDir}] /\ temporary'[r] # NoDir
          /\ \A s \in Runs \ {r} : temporary'[s] = temporary[s]
      <4>1. temporary' = [temporary EXCEPT ![r] = [temporary[r] EXCEPT ![Metadata] = "patched"]]
            BY <2>4
      <4>. QED BY <2>2, <4>1 DEF TypeOK
    <3>3. \A s \in Runs : pc'[s] \in HavingTemporary => temporary'[s] # NoDir
          BY <2>4, <3>2 DEF TypeOK, Goto, HavingTemporary
    <3>. QED BY <1>5, <3>1, <3>2, <3>3 DEF TypeOK, ControlTypes, PatchMetadata, History
  <2>. QED BY <1>5, <2>3, <2>4 DEF PatchMetadata
<1>6. ASSUME NEW r \in Runs, WriteMarker(r) PROVE TypeOK'
  <2>1. temporary[r] \in Trees  BY <1>6 DEF TypeOK, WriteMarker, HavingTemporary
  <2>2. [temporary[r] EXCEPT ![Marker] = "marker"] \in Trees
        BY <2>1, TreeEdit, PathTypes, Zenon
  <2>3. ControlTypes
    <3>1. "verifying_temporary" \in Phases  BY DEF Phases, Working, Verifying
    <3>2. Goto(r, "verifying_temporary", CopyChecks)  BY <1>6 DEF WriteMarker
    <3>. QED BY <3>1, <3>2, GotoTypes, Zenon
  <2>4. temporary' = [temporary EXCEPT ![r] = [temporary[r] EXCEPT ![Marker] = "marker"]]
        BY <1>6 DEF WriteMarker
  <2>5. temporary' \in [Runs -> Trees \cup {NoDir}] /\ temporary'[r] # NoDir
        /\ \A s \in Runs \ {r} : temporary'[s] = temporary[s]
        BY <2>2, <2>4 DEF TypeOK
  <2>6. \A s \in Runs : pc'[s] \in HavingTemporary => temporary'[s] # NoDir
        BY <1>6, <2>5 DEF TypeOK, WriteMarker, Goto
  <2>. QED BY <1>6, <2>3, <2>5, <2>6 DEF TypeOK, ControlTypes, WriteMarker, History
<1>7. ASSUME NEW r \in Runs, Rename(r) PROVE TypeOK'
  <2>1. temporary[r] \in Trees  BY <1>7 DEF TypeOK, Rename, HavingTemporary
  <2>2. CASE Publish(r)
        BY <1>7, <2>1, <2>2 DEF TypeOK, Rename, Publish, Goto, HavingTemporary,
           Phases, Working, Verifying
  <2>3. CASE Raise(r) /\ UNCHANGED <<Trees_, published, History, faults>>
    <3>1. ControlTypes /\ pc' = [pc EXCEPT ![r] = pc'[r]]
          /\ pc'[r] \in {"removing_temporary", "removing_output", "failed"}
          /\ (pc'[r] = "removing_temporary" => temporary[r] # NoDir)
          BY <2>3, RaiseTypes, Zenon
    <3>. QED BY <2>3, <3>1 DEF TypeOK, ControlTypes, Trees_, History, HavingTemporary
  <2>. QED BY <1>7, <2>2, <2>3 DEF Rename
<1>8. ASSUME NEW r \in Runs, RemoveTemporary(r) PROVE TypeOK'
  <2>1. CASE StartRemoval(r)
        BY <1>8, <2>1 DEF TypeOK, RemoveTemporary, StartRemoval, Entries, History,
           HavingTemporary, Phases, Removing
  <2>2. CASE Goto(r, "failed", <<>>)
        BY <1>8, <2>2 DEF TypeOK, RemoveTemporary, Goto, History, HavingTemporary, Phases, Ended
  <2>. QED BY <1>8, <2>1, <2>2 DEF RemoveTemporary, RemoveOutput
<1>9. ASSUME NEW r \in Runs, Unlink(r) PROVE TypeOK'
  <2>1. PICK p \in doomed[r] :
          IF output # NoDir /\ output[p] # "absent"
          THEN /\ output' = [output EXCEPT ![p] = "absent"]
               /\ pristine' = FALSE
               /\ doomed' = [doomed EXCEPT ![r] = @ \ {p}]
               /\ UNCHANGED <<pc, todo>>
          ELSE /\ Goto(r, "left_over", <<>>)
               /\ UNCHANGED <<output, pristine>>
        BY <1>9 DEF Unlink
  <2>2. CASE output # NoDir /\ output[p] # "absent"
    <3>1. output \in Trees /\ p \in Paths  BY <2>2 DEF TypeOK
    <3>2. output' = [output EXCEPT ![p] = "absent"]  BY <2>1, <2>2, Zenon
    <3>6. output' \in Trees  BY <3>1, <3>2, TreeEdit, PathTypes, Zenon
    <3>3. pristine' \in BOOLEAN  BY <2>1, <2>2, Zenon
    <3>4. doomed' = [doomed EXCEPT ![r] = doomed[r] \ {p}] /\ UNCHANGED <<pc, todo>>
          BY <2>1, <2>2, Zenon
    <3>5. doomed' \in [Runs -> SUBSET Paths]  BY <3>4 DEF TypeOK
    <3>. HIDE <2>1
    <3>. QED BY <1>9, <3>6, <3>3, <3>4, <3>5 DEF TypeOK, Unlink, HavingTemporary
  <2>3. CASE ~(output # NoDir /\ output[p] # "absent")
    <3>1. Goto(r, "left_over", <<>>) /\ UNCHANGED <<output, pristine>>
          BY <2>1, <2>3, Zenon
    <3>2. pristine' \in BOOLEAN  BY <3>1 DEF TypeOK
    <3>3. UNCHANGED <<output, source, temporary, published, owner, quiet, faults>>
          BY <1>9, <3>1 DEF Unlink
    <3>. QED BY <3>1, <3>2, <3>3 DEF TypeOK, Goto, HavingTemporary, Phases, Ended
  <2>. QED BY <2>2, <2>3
<1>10. ASSUME NEW r \in Runs, RemoveDirectory(r) PROVE TypeOK'
  <2>1. CASE output' = NoDir /\ owner' = NoRun /\ pristine' = FALSE /\ Goto(r, "failed", <<>>)
    <3>1. pristine' \in BOOLEAN  BY <2>1, Zenon
    <3>2. output' = NoDir /\ owner' = NoRun /\ Goto(r, "failed", <<>>)  BY <2>1, Zenon
    <3>3. UNCHANGED <<source, temporary, published, quiet, faults>>  BY <1>10 DEF RemoveDirectory
    <3>. QED BY <3>1, <3>2, <3>3 DEF TypeOK, Goto, HavingTemporary, Phases, Ended
  <2>2. CASE Goto(r, "left_over", <<>>) /\ UNCHANGED <<output, owner, pristine>>
    <3>1. UNCHANGED <<source, temporary, published, quiet, faults>>  BY <1>10 DEF RemoveDirectory
    <3>. QED BY <2>2, <3>1 DEF TypeOK, Goto, HavingTemporary, Phases, Ended
  <2>. QED BY <1>10, <2>1, <2>2, Zenon DEF RemoveDirectory
<1>11. ASSUME EditSource PROVE TypeOK'
  <2>1. source' \in Trees
    <3>1. PICK p \in ManifestFiles \cup {Extra} :
            \E c \in {Original[p], "other", "absent"} : source' = [source EXCEPT ![p] = c]
          BY <1>11, Zenon DEF EditSource
    <3>2. p \in Paths  BY PathTypes
    <3>5. PICK c \in {Original[p], "other", "absent"} : source' = [source EXCEPT ![p] = c]
          BY <3>1, Zenon
    <3>3. Original[p] \in Contents  BY <3>2 DEF Trees
    <3>4. c \in Contents  BY <3>3, PathTypes
    <3>. QED BY <3>2, <3>4, <3>5, TreeEdit, Zenon DEF TypeOK
  <2>. QED BY <1>11, <2>1 DEF TypeOK, EditSource, Fault, HavingTemporary
<1>12. ASSUME EditOutput PROVE TypeOK'
  <2>1. output \in Trees  BY <1>12 DEF TypeOK, EditOutput
  <2>2. PICK p \in Paths : output' = [output EXCEPT ![p] = "other"]
        BY <1>12, Zenon DEF EditOutput
  <2>3. output' \in Trees  BY <2>1, <2>2, TreeEdit, PathTypes, Zenon
  <2>4. pristine' \in BOOLEAN  BY <1>12, Zenon DEF EditOutput
  <2>5. faults' \in 0 .. MaxFaults  BY <1>12 DEF TypeOK, EditOutput, Fault
  <2>6. UNCHANGED <<source, temporary, pc, todo, doomed, published, owner, quiet>>
        BY <1>12 DEF EditOutput
  <2>. QED BY <2>3, <2>4, <2>5, <2>6 DEF TypeOK, HavingTemporary
<1>13. ASSUME NEW r \in Runs, DiskError(r) PROVE TypeOK'
  <2>1. ControlTypes /\ pc' = [pc EXCEPT ![r] = pc'[r]]
        /\ pc'[r] \in {"removing_temporary", "removing_output", "failed"}
        /\ (pc'[r] = "removing_temporary" => temporary[r] # NoDir)
    <3>1. Raise(r)  BY <1>13 DEF DiskError
    <3>. QED BY <3>1, RaiseTypes, Zenon
  <2>. QED BY <1>13, <2>1 DEF TypeOK, ControlTypes, DiskError, Fault, Trees_, History, HavingTemporary
<1>14. ASSUME NEW r \in Runs, RemovalFails(r) PROVE TypeOK'
       BY <1>14 DEF TypeOK, RemovalFails, Fault, Goto, Trees_, History, HavingTemporary, Phases, Ended
<1>15. ASSUME NEW r \in Runs, Kill(r) PROVE TypeOK'
       BY <1>15 DEF TypeOK, Kill, Fault, Goto, Trees_, History, HavingTemporary, Phases, Ended
<1>16. CASE UNCHANGED vars
       BY <1>16 DEF TypeOK, vars, HavingTemporary
<1>. QED BY <1>1, <1>2, <1>3, <1>4, <1>5, <1>6, <1>7, <1>8, <1>9, <1>10, <1>11, <1>12, <1>13,
            <1>14, <1>15, <1>16 DEF Next, Step

-----------------------------------------------------------------------------
(* The inductive invariant.                                                *)

(* It holds before any run starts.                                         *)
LEMMA Initially == Init => IInv
<1>. SUFFICES ASSUME Init PROVE IInv
     OBVIOUS
<1>. USE RedirectAssumption
<1>1. TypeOK
  <2>1. pristine \in BOOLEAN  BY Zenon DEF Init
  <2>2. source \in Trees  BY TreeTypes DEF Init
  <2>3. /\ temporary \in [Runs -> Trees \cup {NoDir}]
        /\ todo \in [Runs -> Seq(Paths)]
        /\ doomed \in [Runs -> SUBSET Paths]
        BY DEF Init
  <2>4. published \in [Runs -> BOOLEAN] /\ quiet \in [Runs -> BOOLEAN]
        BY DEF Init
  <2>5. pc \in [Runs -> Phases] /\ \A r \in Runs : pc[r] \notin HavingTemporary
        BY DEF Init, Phases, HavingTemporary
  <2>6. output \in Trees \cup {NoDir} /\ owner \in Runs \cup {NoRun} /\ faults \in 0 .. MaxFaults
        BY DEF Init
  <2>. QED BY <2>1, <2>2, <2>3, <2>4, <2>5, <2>6 DEF TypeOK
<1>2. OutputHasOwner /\ PublishedIsWhole
      BY DEF Init, OutputHasOwner, PublishedIsWhole
<1>3. ASSUME NEW r \in Runs PROVE RunInv(r)
      BY <1>3 DEF Init, RunInv
<1>. QED BY <1>1, <1>2, <1>3 DEF IInv

(* A step that leaves the state of a run and the shared trees alone leaves *)
(* what the run may count on.                                              *)
LEMMA Untouched ==
    ASSUME NEW s \in Runs, RunInv(s),
           pc'[s] = pc[s], todo'[s] = todo[s], doomed'[s] = doomed[s],
           temporary'[s] = temporary[s], published'[s] = published[s], quiet'[s] = quiet[s],
           UNCHANGED <<source, output, owner>>
    PROVE  RunInv(s)'
BY DEF RunInv, Left

(* An exception keeps the invariant of the run that meets it: if its copy  *)
(* is out, it is still its own.                                            *)
LEMMA RaiseInv ==
    ASSUME IInv, NEW r \in Runs, pc[r] \in Working, Raise(r),
           UNCHANGED <<source, temporary, output, published, owner, quiet>>
    PROVE  RunInv(r)'
<1>. USE RedirectAssumption
<1>0. RunInv(r) /\ OutputHasOwner /\ pc \in [Runs -> Phases] /\ doomed \in [Runs -> SUBSET Paths]
      /\ (pc[r] \in HavingTemporary => temporary[r] # NoDir)
      BY DEF IInv, TypeOK
<1>1. CASE Goto(r, "removing_temporary", <<>>)
  <2>1. pc'[r] = "removing_temporary"  BY <1>0, <1>1 DEF Goto
  <2>. QED BY <1>0, <2>1 DEF RunInv
<1>2. CASE temporary[r] = NoDir /\ ~(published[r] /\ output # NoDir) /\ Goto(r, "failed", <<>>)
  <2>1. pc'[r] = "failed"  BY <1>0, <1>2 DEF Goto
  <2>2. owner # r  BY <1>0, <1>2 DEF RunInv, OutputHasOwner
  <2>. QED BY <1>0, <1>2, <2>1, <2>2 DEF RunInv
<1>3. CASE temporary[r] = NoDir /\ published[r] /\ output # NoDir /\ StartRemoval(r)
  <2>1. pc'[r] = "removing_output" /\ doomed'[r] = Entries(output)
        BY <1>0, <1>3 DEF StartRemoval
  <2>2. owner = r
    <3>1. pc[r] \in {"verifying_output", "verifying_source_again"}
          BY <1>0, <1>3 DEF RunInv, Working, Verifying, ReadingSource, HavingTemporary
    <3>. QED BY <1>0, <3>1 DEF RunInv
  <2>3. \A p \in doomed'[r] : output[p] # "absent"  BY <2>1 DEF Entries
  <2>. QED BY <1>0, <1>3, <2>1, <2>2, <2>3 DEF RunInv
<1>. QED BY <1>1, <1>2, <1>3 DEF Raise, RemoveOutput

(* Only run r moves.                                                       *)
Alone(r) ==
    \A s \in Runs \ {r} :
        /\ pc'[s] = pc[s] /\ todo'[s] = todo[s] /\ doomed'[s] = doomed[s]
        /\ temporary'[s] = temporary[s] /\ published'[s] = published[s] /\ quiet'[s] = quiet[s]

(* A step of one run that leaves the shared trees as they are keeps the    *)
(* invariant when it keeps it for that run.                                *)
LEMMA Elsewhere ==
    ASSUME IInv, TypeOK', NEW r \in Runs, RunInv(r)', Alone(r),
           UNCHANGED <<source, output, owner, pristine>>
    PROVE  IInv'
<1>1. ASSUME NEW s \in Runs \ {r} PROVE RunInv(s)'
  <2>1. RunInv(s)  BY DEF IInv
  <2>2. /\ pc'[s] = pc[s] /\ todo'[s] = todo[s] /\ doomed'[s] = doomed[s]
        /\ temporary'[s] = temporary[s] /\ published'[s] = published[s] /\ quiet'[s] = quiet[s]
        BY DEF Alone
  <2>. QED BY <2>1, <2>2, Untouched, Zenon
<1>2. \A s \in Runs : RunInv(s)'  BY <1>1, Zenon
<1>3. OutputHasOwner' /\ PublishedIsWhole'
      BY DEF IInv, OutputHasOwner, PublishedIsWhole
<1>. QED BY <1>2, <1>3, Zenon DEF IInv

(* Phases in which a run counts on nothing but what it has published.      *)
Undemanding == {"refused", "left_over", "killed", "copying", "patching", "marking",
                "removing_temporary"}

(* A run that goes to one of them keeps its invariant.                     *)
LEMMA UndemandingInv ==
    ASSUME IInv, NEW r \in Runs, pc'[r] \in Undemanding,
           UNCHANGED <<published, owner>>,
           published[r] => temporary'[r] = NoDir
    PROVE  RunInv(r)'
<1>1. RunInv(r)  BY DEF IInv
<1>. QED BY <1>1 DEF RunInv, Undemanding

(* What the steps below have in common.                                    *)
LEMMA InvParts ==
    ASSUME IInv, NEW r \in Runs
    PROVE  /\ RunInv(r)
           /\ pc \in [Runs -> Phases] /\ todo \in [Runs -> Seq(Paths)]
           /\ doomed \in [Runs -> SUBSET Paths]
           /\ temporary \in [Runs -> Trees \cup {NoDir}]
           /\ pc[r] \in HavingTemporary => temporary[r] # NoDir
           /\ published[r] => temporary[r] = NoDir
BY DEF IInv, TypeOK, RunInv

(* A step that raises an exception.                                        *)
LEMMA RaiseStep ==
    ASSUME IInv, TypeOK', NEW r \in Runs, pc[r] \in Working, Raise(r),
           UNCHANGED <<source, temporary, output, published, owner, pristine, quiet>>
    PROVE  IInv'
<1>1. RunInv(r)'  BY RaiseInv, Zenon
<1>2. Alone(r)
  <2>0. pc \in [Runs -> Phases] /\ todo \in [Runs -> Seq(Paths)] /\ doomed \in [Runs -> SUBSET Paths]
        BY InvParts, Zenon
  <2>1. CASE \E phase : Goto(r, phase, <<>>)  BY <2>0, <2>1 DEF Goto, Alone
  <2>2. CASE StartRemoval(r)  BY <2>0, <2>2 DEF StartRemoval, Alone
  <2>. QED BY <2>1, <2>2, Zenon DEF Raise, RemoveOutput
<1>. QED BY <1>1, <1>2, Elsewhere, Zenon

(* main: the run begins, or refuses an output that exists.                 *)
LEMMA BeginStep == ASSUME IInv, TypeOK', NEW r \in Runs, Begin(r) PROVE IInv'
<1>0. /\ RunInv(r) /\ pc \in [Runs -> Phases] /\ todo \in [Runs -> Seq(Paths)]
      /\ pc[r] = "waiting"
      /\ UNCHANGED <<source, temporary, output, published, owner, pristine, quiet, doomed>>
  <2>1. /\ pc[r] = "waiting"
        /\ UNCHANGED <<source, temporary, output, published, owner, pristine, quiet, doomed>>
        BY DEF Begin, Goto, Trees_, History
  <2>. QED BY <2>1, InvParts, Zenon
<1>1. RunInv(r)' /\ Alone(r)
  <2>1. CASE Goto(r, "refused", <<>>)
    <3>1. pc'[r] = "refused"  BY <1>0, <2>1 DEF Goto
    <3>. QED BY <1>0, <2>1, <3>1 DEF Goto, Alone, RunInv
  <2>2. CASE Goto(r, "verifying_source", SourceChecks)
    <3>1. pc'[r] = "verifying_source"  BY <1>0, <2>2 DEF Goto
    <3>. QED BY <1>0, <2>2, <3>1 DEF Goto, Alone, RunInv
  <2>. QED BY <2>1, <2>2 DEF Begin
<1>. QED BY <1>0, <1>1, Elsewhere, Zenon

(* A verification reads a file: what it has read so far is as it must be.  *)
LEMMA CheckStep == ASSUME IInv, TypeOK', NEW r \in Runs, Check(r) PROVE IInv'
<1>0. /\ RunInv(r) /\ pc \in [Runs -> Phases] /\ todo \in [Runs -> Seq(Paths)]
      /\ pc[r] \in Verifying /\ todo[r] # <<>>
      /\ UNCHANGED <<source, temporary, output, published, owner, pristine, quiet>>
  <2>1. /\ pc[r] \in Verifying /\ todo[r] # <<>>
        /\ UNCHANGED <<source, temporary, output, published, owner, pristine, quiet>>
        BY DEF Check, Trees_, History
  <2>. QED BY <2>1, InvParts, Zenon
<1>1. CASE Raise(r)
  <2>1. pc[r] \in Working  BY <1>0 DEF Working
  <2>. QED BY <1>0, <1>1, <2>1, RaiseStep, Zenon
<1>2. CASE /\ Checked(r)[Head(todo[r])] = Wanted(r)[Head(todo[r])]
           /\ Goto(r, pc[r], Tail(todo[r]))
  <2>1. pc' = pc /\ todo'[r] = Tail(todo[r]) /\ Alone(r)
        BY <1>0, <1>2 DEF Goto, Alone
  <2>2. ASSUME NEW p \in Paths, p \in Left(r) PROVE p \in Left(r)' \/ p = Head(todo[r])
    <3>1. PICK i \in DOMAIN todo[r] : todo[r][i] = p  BY <2>2 DEF Left
    <3>2. SUFFICES ASSUME p # Head(todo[r]) PROVE p \in Left(r)'
          OBVIOUS
    <3>3. todo[r] \in Seq(Paths)  BY <1>0
    <3>4. \E k \in DOMAIN Tail(todo[r]) : Tail(todo[r])[k] = todo[r][i]
          BY <1>0, <3>1, <3>2, <3>3, TailKeepsTheRest, Zenon
    <3>. QED BY <2>1, <3>1, <3>4 DEF Left
  <2>3. pc[r] = "verifying_temporary" =>
          \A p \in Paths : p \in Left(r)' \/ temporary[r][p] = Patched[p]
    <3>1. SUFFICES ASSUME pc[r] = "verifying_temporary", NEW p \in Paths
                   PROVE  p \in Left(r)' \/ temporary[r][p] = Patched[p]
          BY Zenon
    <3>2. Checked(r) = temporary[r] /\ Wanted(r) = Patched
          BY <3>1 DEF Checked, Wanted, ReadingSource
    <3>. QED BY <1>0, <1>2, <2>2, <3>1, <3>2 DEF RunInv
  <2>4. pc[r] = "verifying_source_again" /\ quiet[r] =>
          \A p \in Paths : p \in Left(r)' \/ source[p] = Original[p]
    <3>1. SUFFICES ASSUME pc[r] = "verifying_source_again", quiet[r], NEW p \in Paths
                   PROVE  p \in Left(r)' \/ source[p] = Original[p]
          BY Zenon
    <3>2. Checked(r) = source /\ Wanted(r) = Original
          BY <3>1 DEF Checked, Wanted, ReadingSource
    <3>. QED BY <1>0, <1>2, <2>2, <3>1, <3>2 DEF RunInv
  <2>5. pc[r] \notin {"renaming", "created", "waiting", "removing_output", "failed"}
        BY <1>0 DEF Verifying, ReadingSource
  <2>6. RunInv(r)'
        BY <1>0, <2>1, <2>3, <2>4, <2>5 DEF RunInv
  <2>. QED BY <1>0, <2>1, <2>6, Elsewhere, Zenon
<1>. QED BY <1>1, <1>2 DEF Check

(* A verification with nothing left to read: all of the tree is as it must *)
(* be, and the next verification has everything left to read.              *)
LEMMA VerifiedStep == ASSUME IInv, TypeOK', NEW r \in Runs, Verified(r) PROVE IInv'
<1>0. /\ RunInv(r) /\ pc \in [Runs -> Phases] /\ todo \in [Runs -> Seq(Paths)]
      /\ temporary \in [Runs -> Trees \cup {NoDir}] /\ source \in Trees
      /\ pc[r] \in HavingTemporary => temporary[r] # NoDir
      /\ todo[r] = <<>> /\ Left(r) = {}
      /\ UNCHANGED <<source, output, published, owner, pristine, quiet, doomed>>
  <2>1. /\ todo[r] = <<>>
        /\ UNCHANGED <<source, output, published, owner, pristine, quiet>>
        BY DEF Verified, History
  <2>2. UNCHANGED doomed  BY DEF Verified, Goto
  <2>3. Left(r) = {}  BY <2>1 DEF Left
  <2>4. source \in Trees  BY DEF IInv, TypeOK
  <2>. QED BY <2>1, <2>2, <2>3, <2>4, InvParts, Zenon
<1>1. CASE /\ pc[r] = "verifying_source"
           /\ temporary' = [temporary EXCEPT ![r] = EmptyDir]
           /\ Goto(r, "copying", Manifest \o <<Marker, Extra>>)
  <2>1. pc'[r] = "copying" /\ Alone(r)
        BY <1>0, <1>1 DEF Goto, Alone
  <2>2. ~published[r]  BY <1>0, <1>1 DEF RunInv
  <2>3. RunInv(r)'  BY <1>0, <2>1, <2>2 DEF RunInv
  <2>. QED BY <1>0, <2>1, <2>3, Elsewhere, Zenon
<1>2. CASE /\ pc[r] = "verifying_temporary"
           /\ Goto(r, "renaming", <<>>)
           /\ UNCHANGED temporary
  <2>1. pc'[r] = "renaming" /\ Alone(r)
        BY <1>0, <1>2 DEF Goto, Alone
  <2>2. temporary[r] = Patched
    <3>1. \A p \in Paths : temporary[r][p] = Patched[p]
          BY <1>0, <1>2 DEF RunInv
    <3>2. temporary[r] \in Trees  BY <1>0, <1>2 DEF HavingTemporary
    <3>3. Patched \in Trees  BY TreeTypes
    <3>. QED BY <3>1, <3>2, <3>3 DEF Trees
  <2>3. RunInv(r)'  BY <1>0, <1>2, <2>1, <2>2 DEF RunInv
  <2>. QED BY <1>0, <2>1, <2>3, Elsewhere, Zenon
<1>3. CASE /\ pc[r] = "verifying_output"
           /\ Goto(r, "verifying_source_again", SourceChecks)
           /\ UNCHANGED temporary
  <2>1. pc'[r] = "verifying_source_again" /\ todo'[r] = SourceChecks /\ Alone(r)
        BY <1>0, <1>3 DEF Goto, Alone
  <2>2. \A p \in Paths : p \in Left(r)'  BY <2>1, ChecksReadEverything DEF Left
  <2>3. owner = r /\ output # EmptyDir  BY <1>0, <1>3 DEF RunInv
  <2>4. RunInv(r)'  BY <1>0, <1>3, <2>1, <2>2, <2>3 DEF RunInv
  <2>. QED BY <1>0, <2>1, <2>4, Elsewhere, Zenon
<1>4. CASE /\ pc[r] = "verifying_source_again"
           /\ Goto(r, "created", <<>>)
           /\ UNCHANGED temporary
  <2>1. pc'[r] = "created" /\ Alone(r)
        BY <1>0, <1>4 DEF Goto, Alone
  <2>2. quiet[r] => source = Original
    <3>1. SUFFICES ASSUME quiet[r] PROVE source = Original
          BY Zenon
    <3>2. \A p \in Paths : source[p] = Original[p]
          BY <1>0, <1>4, <3>1 DEF RunInv
    <3>3. Original \in Trees  BY TreeTypes
    <3>. QED BY <1>0, <3>2, <3>3 DEF Trees
  <2>3. owner = r /\ output # EmptyDir  BY <1>0, <1>4 DEF RunInv
  <2>4. RunInv(r)'  BY <1>0, <1>4, <2>1, <2>2, <2>3 DEF RunInv
  <2>. QED BY <1>0, <2>1, <2>4, Elsewhere, Zenon
<1>. QED BY <1>1, <1>2, <1>3, <1>4 DEF Verified

(* shutil.copytree writes to the temporary directory of its own run.       *)
LEMMA CopyStep == ASSUME IInv, TypeOK', NEW r \in Runs, CopyFile(r) PROVE IInv'
<1>. DEFINE phase == IF Len(todo[r]) = 1 THEN "patching" ELSE "copying"
            tree == [temporary[r] EXCEPT ![Head(todo[r])] = source[Head(todo[r])]]
<1>0. /\ RunInv(r) /\ pc \in [Runs -> Phases] /\ todo \in [Runs -> Seq(Paths)]
      /\ temporary \in [Runs -> Trees \cup {NoDir}]
      /\ ~published[r]
  <2>1. pc[r] = "copying"  BY DEF CopyFile
  <2>2. temporary[r] # NoDir /\ (published[r] => temporary[r] = NoDir)
        BY <2>1, InvParts DEF HavingTemporary
  <2>. QED BY <2>2, InvParts, Zenon
<1>1. /\ pc' = [pc EXCEPT ![r] = phase]
      /\ todo' = [todo EXCEPT ![r] = Tail(todo[r])]
      /\ temporary' = [temporary EXCEPT ![r] = tree]
      /\ UNCHANGED <<source, output, published, owner, pristine, quiet, doomed>>
      BY DEF CopyFile, Goto, History
<1>2. phase \in Undemanding  BY DEF Undemanding
<1>. HIDE DEF phase, tree
<1>3. pc'[r] \in Undemanding /\ Alone(r)  BY <1>0, <1>1, <1>2 DEF Alone
<1>4. RunInv(r)'  BY <1>0, <1>1, <1>3, UndemandingInv, Zenon
<1>. QED BY <1>1, <1>3, <1>4, Elsewhere, Zenon

(* The patch writes there too, or raises an error.                         *)
LEMMA PatchStep == ASSUME IInv, TypeOK', NEW r \in Runs, PatchMetadata(r) PROVE IInv'
<1>0. /\ RunInv(r) /\ pc \in [Runs -> Phases] /\ todo \in [Runs -> Seq(Paths)]
      /\ temporary \in [Runs -> Trees \cup {NoDir}]
      /\ pc[r] = "patching" /\ ~published[r]
      /\ UNCHANGED <<source, output, published, owner, pristine, quiet>>
  <2>1. /\ pc[r] = "patching"
        /\ UNCHANGED <<source, output, published, owner, pristine, quiet>>
        BY DEF PatchMetadata, History
  <2>2. temporary[r] # NoDir /\ (published[r] => temporary[r] = NoDir)
        BY <2>1, InvParts DEF HavingTemporary
  <2>. QED BY <2>1, <2>2, InvParts, Zenon
<1>1. CASE Raise(r) /\ UNCHANGED temporary
  <2>1. pc[r] \in Working  BY <1>0 DEF Working
  <2>. QED BY <1>0, <1>1, <2>1, RaiseStep, Zenon
<1>2. CASE /\ temporary' = [temporary EXCEPT ![r][Metadata] = "patched"]
           /\ Goto(r, "marking", <<>>)
  <2>1. pc'[r] \in Undemanding /\ Alone(r)
    <3>1. temporary' = [temporary EXCEPT ![r] = [temporary[r] EXCEPT ![Metadata] = "patched"]]
          BY <1>2
    <3>. QED BY <1>0, <1>2, <3>1 DEF Goto, Alone, Undemanding
  <2>2. RunInv(r)'  BY <1>0, <2>1, UndemandingInv, Zenon
  <2>. QED BY <1>0, <2>1, <2>2, Elsewhere, Zenon
<1>. QED BY <1>1, <1>2 DEF PatchMetadata

(* After the marker, the copy is verified from its first file to its last. *)
LEMMA MarkerStep == ASSUME IInv, TypeOK', NEW r \in Runs, WriteMarker(r) PROVE IInv'
<1>0. /\ RunInv(r) /\ pc \in [Runs -> Phases] /\ todo \in [Runs -> Seq(Paths)]
      /\ temporary \in [Runs -> Trees \cup {NoDir}]
      /\ ~published[r]
  <2>1. pc[r] = "marking"  BY DEF WriteMarker
  <2>2. temporary[r] # NoDir /\ (published[r] => temporary[r] = NoDir)
        BY <2>1, InvParts DEF HavingTemporary
  <2>. QED BY <2>2, InvParts, Zenon
<1>1. /\ temporary' = [temporary EXCEPT ![r] = [temporary[r] EXCEPT ![Marker] = "marker"]]
      /\ pc' = [pc EXCEPT ![r] = "verifying_temporary"]
      /\ todo' = [todo EXCEPT ![r] = CopyChecks]
      /\ UNCHANGED <<source, output, published, owner, pristine, quiet, doomed>>
      BY DEF WriteMarker, Goto, History
<1>2. pc'[r] = "verifying_temporary" /\ todo'[r] = CopyChecks /\ Alone(r)
      BY <1>0, <1>1 DEF Alone
<1>3. \A p \in Paths : p \in Left(r)'  BY <1>2, ChecksReadEverything DEF Left
<1>4. RunInv(r)'  BY <1>0, <1>1, <1>2, <1>3 DEF RunInv
<1>. QED BY <1>1, <1>2, <1>4, Elsewhere, Zenon

(* The rename: it finds no directory, or an empty one, where no other run  *)
(* has anything left that it counts on.                                    *)
LEMMA RenameStep == ASSUME IInv, TypeOK', NEW r \in Runs, Rename(r) PROVE IInv'
<1>. USE RedirectAssumption
<1>0. /\ RunInv(r) /\ pc \in [Runs -> Phases] /\ todo \in [Runs -> Seq(Paths)]
      /\ temporary \in [Runs -> Trees \cup {NoDir}]
      /\ pc[r] = "renaming"
  <2>1. pc[r] = "renaming"  BY DEF Rename
  <2>. QED BY <2>1, InvParts, Zenon
<1>1. CASE output # NoDir /\ Raise(r) /\ UNCHANGED <<Trees_, published, History, faults>>
  <2>1. UNCHANGED <<source, temporary, output, published, owner, pristine, quiet>>
        BY <1>1 DEF Trees_, History
  <2>2. pc[r] \in Working  BY <1>0 DEF Working
  <2>. QED BY <1>1, <2>1, <2>2, RaiseStep, Zenon
<1>2. CASE output \in {NoDir, EmptyDir} /\ Publish(r)
  <2>1. /\ output' = Patched /\ owner' = r /\ source' = source
        /\ pc' = [pc EXCEPT ![r] = "verifying_output"]
        /\ todo' = [todo EXCEPT ![r] = CopyChecks]
        /\ temporary' = [temporary EXCEPT ![r] = NoDir]
        /\ published' = [published EXCEPT ![r] = TRUE]
        /\ quiet' = [quiet EXCEPT ![r] = TRUE]
        /\ doomed' = doomed
    <3>1. temporary[r] = Patched  BY <1>0 DEF RunInv
    <3>. QED BY <1>2, <3>1 DEF Publish, Goto
  <2>2. Patched \in Trees /\ Patched # EmptyDir /\ Patched # NoDir  BY TreeTypes
  <2>3. published \in [Runs -> BOOLEAN] /\ quiet \in [Runs -> BOOLEAN]
        BY DEF IInv, TypeOK
  <2>4. published'[r]  BY <2>1, <2>3, Zenon
  <2>5. pc'[r] = "verifying_output" /\ temporary'[r] = NoDir  BY <1>0, <2>1
  <2>6. RunInv(r)'  BY <2>1, <2>2, <2>4, <2>5 DEF RunInv
  <2>7. ASSUME NEW s \in Runs \ {r} PROVE RunInv(s)'
    <3>1. /\ RunInv(s) /\ doomed \in [Runs -> SUBSET Paths]
          BY InvParts, Zenon
    <3>2. pc'[s] = pc[s] /\ todo'[s] = todo[s] /\ temporary'[s] = temporary[s]
          BY <1>0, <2>1
    <3>3. published'[s] = published[s] /\ quiet'[s] = quiet[s]
          BY <2>1, <2>3, Zenon
    <3>4. output = NoDir => owner # s  BY DEF IInv, OutputHasOwner
    <3>5. pc[s] \notin {"verifying_output", "verifying_source_again", "created"}
          BY <1>2, <3>1, <3>4 DEF RunInv
    <3>6. pc[s] = "removing_output" => doomed[s] = {}
      <4>1. SUFFICES ASSUME pc[s] = "removing_output", NEW p \in doomed[s] PROVE FALSE
            OBVIOUS
      <4>2. owner = s /\ output[p] # "absent" /\ p \in Paths  BY <3>1, <4>1 DEF RunInv
      <4>3. output = EmptyDir  BY <1>2, <3>4, <4>2
      <4>. QED BY <4>2, <4>3 DEF EmptyDir
    <3>7. doomed'[s] = doomed[s] /\ owner' # s  BY <2>1
    <3>. QED BY <3>1, <3>2, <3>3, <3>5, <3>6, <3>7 DEF RunInv, Left
  <2>8. OutputHasOwner' /\ PublishedIsWhole'
        BY <2>1, <2>2 DEF OutputHasOwner, PublishedIsWhole
  <2>9. \A s \in Runs : RunInv(s)'  BY <2>6, <2>7, Zenon
  <2>. QED BY <2>8, <2>9, Zenon DEF IInv
<1>. QED BY <1>1, <1>2 DEF Rename

(* A run that still had its temporary directory has published nothing.     *)
LEMMA RemoveTemporaryStep == ASSUME IInv, TypeOK', NEW r \in Runs, RemoveTemporary(r) PROVE IInv'
<1>0. /\ RunInv(r) /\ pc \in [Runs -> Phases] /\ todo \in [Runs -> Seq(Paths)]
      /\ temporary \in [Runs -> Trees \cup {NoDir}]
      /\ ~published[r]
      /\ temporary' = [temporary EXCEPT ![r] = NoDir]
      /\ UNCHANGED <<source, output, published, owner, pristine, quiet>>
  <2>1. /\ pc[r] = "removing_temporary"
        /\ temporary' = [temporary EXCEPT ![r] = NoDir]
        /\ UNCHANGED <<source, output, published, owner, pristine, quiet>>
        BY DEF RemoveTemporary, History
  <2>2. temporary[r] # NoDir /\ (published[r] => temporary[r] = NoDir)
        BY <2>1, InvParts DEF HavingTemporary
  <2>. QED BY <2>1, <2>2, InvParts, Zenon
<1>1. Goto(r, "failed", <<>>)  BY <1>0 DEF RemoveTemporary, RemoveOutput
<1>2. pc'[r] = "failed" /\ temporary'[r] = NoDir /\ Alone(r)
      BY <1>0, <1>1 DEF Goto, Alone
<1>3. RunInv(r)'  BY <1>0, <1>2 DEF RunInv
<1>. QED BY <1>0, <1>2, <1>3, Elsewhere, Zenon

(* rmtree removes files of the run's own copy: while it has one to remove, *)
(* no other run counts on the output.                                      *)
LEMMA UnlinkStep == ASSUME IInv, TypeOK', NEW r \in Runs, Unlink(r) PROVE IInv'
<1>. USE RedirectAssumption
<1>0. /\ RunInv(r) /\ pc \in [Runs -> Phases] /\ todo \in [Runs -> Seq(Paths)]
      /\ doomed \in [Runs -> SUBSET Paths]
      /\ pc[r] = "removing_output"
      /\ UNCHANGED <<source, temporary, published, owner, quiet>>
  <2>1. /\ pc[r] = "removing_output"
        /\ UNCHANGED <<source, temporary, published, owner, quiet>>
        BY DEF Unlink
  <2>. QED BY <2>1, InvParts, Zenon
<1>1. PICK p \in doomed[r] :
        IF output # NoDir /\ output[p] # "absent"
        THEN /\ output' = [output EXCEPT ![p] = "absent"]
             /\ pristine' = FALSE
             /\ doomed' = [doomed EXCEPT ![r] = @ \ {p}]
             /\ UNCHANGED <<pc, todo>>
        ELSE /\ Goto(r, "left_over", <<>>)
             /\ UNCHANGED <<output, pristine>>
      BY DEF Unlink
<1>2. CASE ~(output # NoDir /\ output[p] # "absent")
  <2>1. Goto(r, "left_over", <<>>) /\ UNCHANGED <<output, pristine>>
        BY <1>1, <1>2, Zenon
  <2>2. pc'[r] \in Undemanding /\ Alone(r)
        BY <1>0, <2>1 DEF Goto, Alone, Undemanding
  <2>3. published[r] => temporary'[r] = NoDir  BY <1>0 DEF RunInv
  <2>4. RunInv(r)'  BY <1>0, <2>2, <2>3, UndemandingInv, Zenon
  <2>. QED BY <1>0, <2>1, <2>2, <2>4, Elsewhere, Zenon
<1>3. CASE output # NoDir /\ output[p] # "absent"
  <2>1. /\ output' = [output EXCEPT ![p] = "absent"]
        /\ ~pristine'
        /\ doomed' = [doomed EXCEPT ![r] = doomed[r] \ {p}]
        /\ pc' = pc /\ todo' = todo
        BY <1>1, <1>3, Zenon
  <2>2. output \in Trees  BY <1>3 DEF IInv, TypeOK
  <2>3. owner = r  BY <1>0 DEF RunInv
  <2>4. output' # NoDir
    <3>1. output' \in Trees  BY <2>1, <2>2 DEF Trees, Contents
    <3>. QED BY <3>1
  <2>5. ASSUME NEW q \in doomed'[r] PROVE output'[q] # "absent"
    <3>1. q \in doomed[r] /\ q # p /\ q \in Paths  BY <1>0, <2>1
    <3>2. output[q] # "absent"  BY <1>0, <3>1 DEF RunInv
    <3>. QED BY <2>1, <2>2, <3>1, <3>2 DEF Trees
  <2>6. RunInv(r)'  BY <1>0, <2>1, <2>3, <2>5 DEF RunInv
  <2>7. ASSUME NEW s \in Runs \ {r} PROVE RunInv(s)'
    <3>1. RunInv(s)  BY InvParts, Zenon
    <3>2. doomed'[s] = doomed[s]  BY <1>0, <2>1
    <3>. QED BY <1>0, <2>1, <2>3, <3>1, <3>2 DEF RunInv, Left
  <2>8. OutputHasOwner'
        BY <1>0, <1>3, <2>4 DEF IInv, OutputHasOwner
  <2>9. PublishedIsWhole'  BY <2>1, Zenon DEF PublishedIsWhole
  <2>10. \A s \in Runs : RunInv(s)'  BY <2>6, <2>7, Zenon
  <2>. QED BY <2>8, <2>9, <2>10, Zenon DEF IInv
<1>. QED BY <1>2, <1>3

(* It removes the directory only when it is empty, and then nobody counts  *)
(* on it.                                                                  *)
LEMMA RemoveDirectoryStep == ASSUME IInv, TypeOK', NEW r \in Runs, RemoveDirectory(r) PROVE IInv'
<1>. USE RedirectAssumption
<1>0. /\ RunInv(r) /\ pc \in [Runs -> Phases] /\ todo \in [Runs -> Seq(Paths)]
      /\ pc[r] = "removing_output"
      /\ UNCHANGED <<source, temporary, published, quiet>>
  <2>1. /\ pc[r] = "removing_output"
        /\ UNCHANGED <<source, temporary, published, quiet>>
        BY DEF RemoveDirectory
  <2>. QED BY <2>1, InvParts, Zenon
<1>1. CASE Goto(r, "left_over", <<>>) /\ UNCHANGED <<output, owner, pristine>>
  <2>2. pc'[r] \in Undemanding /\ Alone(r)
        BY <1>0, <1>1 DEF Goto, Alone, Undemanding
  <2>3. published[r] => temporary'[r] = NoDir  BY <1>0 DEF RunInv
  <2>4. RunInv(r)'  BY <1>0, <1>1, <2>2, <2>3, UndemandingInv, Zenon
  <2>. QED BY <1>0, <1>1, <2>2, <2>4, Elsewhere, Zenon
<1>2. CASE /\ output = EmptyDir /\ output' = NoDir /\ owner' = NoRun
           /\ pristine' = FALSE /\ Goto(r, "failed", <<>>)
  <2>1. ~pristine'  BY <1>2, Zenon
  <2>2. /\ output = EmptyDir /\ output' = NoDir /\ owner' = NoRun
        /\ Goto(r, "failed", <<>>)
        BY <1>2, Zenon
  <2>3. pc'[r] = "failed" /\ Alone(r) /\ doomed' = doomed
        BY <1>0, <2>2 DEF Goto, Alone
  <2>4. RunInv(r)'  BY <1>0, <2>2, <2>3 DEF RunInv
  <2>5. ASSUME NEW s \in Runs \ {r} PROVE RunInv(s)'
    <3>1. RunInv(s) /\ doomed \in [Runs -> SUBSET Paths]  BY InvParts, Zenon
    <3>2. pc'[s] = pc[s] /\ todo'[s] = todo[s] /\ doomed'[s] = doomed[s]
          BY <2>3 DEF Alone
    <3>3. pc[s] \notin {"verifying_output", "verifying_source_again", "created"}
          BY <2>2, <3>1 DEF RunInv
    <3>4. pc[s] = "removing_output" => doomed[s] = {}
      <4>1. SUFFICES ASSUME pc[s] = "removing_output", NEW p \in doomed[s] PROVE FALSE
            OBVIOUS
      <4>2. output[p] # "absent" /\ p \in Paths  BY <3>1, <4>1 DEF RunInv
      <4>. QED BY <2>2, <4>2 DEF EmptyDir
    <3>. QED BY <1>0, <2>2, <3>1, <3>2, <3>3, <3>4 DEF RunInv, Left
  <2>6. OutputHasOwner'  BY <2>2 DEF OutputHasOwner
  <2>7. PublishedIsWhole'  BY <2>1, Zenon DEF PublishedIsWhole
  <2>8. \A s \in Runs : RunInv(s)'  BY <2>4, <2>5, Zenon
  <2>. QED BY <2>6, <2>7, <2>8, Zenon DEF IInv
<1>. QED BY <1>1, <1>2, Zenon DEF RemoveDirectory

(* A change of the source ends what any run may expect of it.              *)
LEMMA EditSourceStep == ASSUME IInv, TypeOK', EditSource PROVE IInv'
<1>0. UNCHANGED <<temporary, output, pc, todo, doomed, published, owner, pristine>>
      BY DEF EditSource
<1>1. ASSUME NEW r \in Runs PROVE RunInv(r)'
  <2>1. RunInv(r)  BY InvParts, Zenon
  <2>2. quiet' = [s \in Runs |-> FALSE]  BY DEF EditSource
  <2>3. ~quiet'[r]  BY <2>2, Zenon
  <2>. QED BY <1>0, <2>1, <2>3 DEF RunInv, Left
<1>2. OutputHasOwner' /\ PublishedIsWhole'
      BY <1>0 DEF IInv, OutputHasOwner, PublishedIsWhole
<1>3. \A r \in Runs : RunInv(r)'  BY <1>1, Zenon
<1>. QED BY <1>2, <1>3, Zenon DEF IInv

(* A write to the output makes no file of it disappear.                    *)
LEMMA EditOutputStep == ASSUME IInv, TypeOK', EditOutput PROVE IInv'
<1>. USE RedirectAssumption
<1>0. UNCHANGED <<source, temporary, pc, todo, doomed, published, owner, quiet>>
      /\ output \in Trees
      BY DEF EditOutput, IInv, TypeOK
<1>1. ~pristine'  BY Zenon DEF EditOutput
<1>2. PICK p \in Paths : output' = [output EXCEPT ![p] = "other"]
      BY Zenon DEF EditOutput
<1>3. output' \in Trees /\ output'[p] = "other"
  <2>1. output' \in Trees  BY <1>0, <1>2, TreeEdit, PathTypes, Zenon
  <2>. QED BY <1>0, <1>2, <2>1 DEF Trees
<1>4. output' # NoDir /\ output' # EmptyDir
      BY <1>3 DEF EmptyDir
<1>5. \A q \in Paths : output[q] # "absent" => output'[q] # "absent"
      BY <1>0, <1>2 DEF Trees
<1>6. ASSUME NEW r \in Runs PROVE RunInv(r)'
  <2>1. RunInv(r) /\ doomed \in [Runs -> SUBSET Paths]  BY InvParts, Zenon
  <2>2. doomed[r] \subseteq Paths  BY <2>1
  <2>. QED BY <1>0, <1>4, <1>5, <2>1, <2>2 DEF RunInv, Left
<1>7. OutputHasOwner'
      BY <1>0, <1>4 DEF IInv, OutputHasOwner, EditOutput
<1>8. PublishedIsWhole'  BY <1>1, Zenon DEF PublishedIsWhole
<1>9. \A r \in Runs : RunInv(r)'  BY <1>6, Zenon
<1>. QED BY <1>7, <1>8, <1>9, Zenon DEF IInv

(* A run that is killed, or whose rmtree raises, counts on nothing more.   *)
LEMMA StoppedStep ==
    ASSUME IInv, TypeOK', NEW r \in Runs, NEW phase \in {"left_over", "killed"},
           Goto(r, phase, <<>>), UNCHANGED <<Trees_, published, History>>
    PROVE  IInv'
<1>1. /\ pc \in [Runs -> Phases] /\ todo \in [Runs -> Seq(Paths)]
      /\ published[r] => temporary[r] = NoDir
      BY InvParts, Zenon
<1>2. UNCHANGED <<source, temporary, output, published, owner, pristine, quiet>>
      BY DEF Trees_, History
<1>3. pc'[r] \in Undemanding /\ Alone(r)
      BY <1>1, <1>2 DEF Goto, Alone, Undemanding
<1>4. RunInv(r)'  BY <1>1, <1>2, <1>3, UndemandingInv, Zenon
<1>. QED BY <1>2, <1>3, <1>4, Elsewhere, Zenon

(* Every step of a run, of a fault or of another program keeps IInv.       *)
LEMMA InductiveStep == IInv /\ [Next]_vars => IInv'
<1>. SUFFICES ASSUME IInv, [Next]_vars PROVE IInv'
     OBVIOUS
<1>1. TypeOK'  BY TypeStep, Zenon DEF IInv
<1>2. ASSUME NEW r \in Runs, Step(r) PROVE IInv'
  <2>1. CASE Begin(r)  BY <1>1, <2>1, BeginStep, Zenon
  <2>2. CASE Check(r)  BY <1>1, <2>2, CheckStep, Zenon
  <2>3. CASE Verified(r)  BY <1>1, <2>3, VerifiedStep, Zenon
  <2>4. CASE CopyFile(r)  BY <1>1, <2>4, CopyStep, Zenon
  <2>5. CASE PatchMetadata(r)  BY <1>1, <2>5, PatchStep, Zenon
  <2>6. CASE WriteMarker(r)  BY <1>1, <2>6, MarkerStep, Zenon
  <2>7. CASE Rename(r)  BY <1>1, <2>7, RenameStep, Zenon
  <2>8. CASE RemoveTemporary(r)  BY <1>1, <2>8, RemoveTemporaryStep, Zenon
  <2>9. CASE Unlink(r)  BY <1>1, <2>9, UnlinkStep, Zenon
  <2>10. CASE RemoveDirectory(r)  BY <1>1, <2>10, RemoveDirectoryStep, Zenon
  <2>. QED BY <1>2, <2>1, <2>2, <2>3, <2>4, <2>5, <2>6, <2>7, <2>8, <2>9, <2>10, Zenon DEF Step
<1>3. ASSUME NEW r \in Runs, DiskError(r) PROVE IInv'
  <2>1. /\ pc[r] \in Working /\ Raise(r)
        /\ UNCHANGED <<source, temporary, output, published, owner, pristine, quiet>>
        BY <1>3 DEF DiskError, Trees_, History
  <2>. QED BY <1>1, <2>1, RaiseStep, Zenon
<1>4. ASSUME NEW r \in Runs, RemovalFails(r) PROVE IInv'
  <2>1. "left_over" \in {"left_over", "killed"}  OBVIOUS
  <2>. QED BY <1>1, <1>4, <2>1, StoppedStep, Zenon DEF RemovalFails
<1>5. ASSUME NEW r \in Runs, Kill(r) PROVE IInv'
  <2>1. "killed" \in {"left_over", "killed"}  OBVIOUS
  <2>. QED BY <1>1, <1>5, <2>1, StoppedStep, Zenon DEF Kill
<1>6. CASE EditSource  BY <1>1, <1>6, EditSourceStep, Zenon
<1>7. CASE EditOutput  BY <1>1, <1>7, EditOutputStep, Zenon
<1>8. CASE UNCHANGED vars
  <2>1. ASSUME NEW r \in Runs PROVE RunInv(r)'
    <3>1. RunInv(r)  BY InvParts, Zenon
    <3>. QED BY <1>8, <3>1 DEF vars, RunInv, Left
  <2>2. OutputHasOwner' /\ PublishedIsWhole'
        BY <1>8 DEF vars, IInv, OutputHasOwner, PublishedIsWhole
  <2>3. \A r \in Runs : RunInv(r)'  BY <2>1, Zenon
  <2>. QED BY <1>1, <2>2, <2>3, Zenon DEF IInv
<1>. QED BY <1>2, <1>3, <1>4, <1>5, <1>6, <1>7, <1>8, Zenon DEF Next

(* IInv holds in every reachable state.                                    *)
LEMMA Invariant == Spec => []IInv
BY Initially, InductiveStep, PTL DEF Spec

-----------------------------------------------------------------------------
(* What follows from it.                                                   *)

(* Every variable keeps its type, and the code never patches, marks,       *)
(* verifies, renames or removes a temporary directory that does not exist. *)
THEOREM RedirectTypeCorrect == Spec => []TypeOK
<1>1. IInv => TypeOK  BY DEF IInv
<1>. QED BY <1>1, Invariant, PTL

(* A published copy that nobody has touched since is the patched client,   *)
(* complete, whatever happened to the original while it was copied.        *)
THEOREM RedirectPublishedIsWhole == Spec => []PublishedIsWhole
<1>1. IInv => PublishedIsWhole  BY DEF IInv
<1>. QED BY <1>1, Invariant, PTL

(* What a run has reported as created is neither replaced by a later       *)
(* rename nor removed by another run's except clause.                      *)
THEOREM RedirectCreatedIsKept == Spec => []CreatedIsKept
<1>1. IInv => CreatedIsKept
  <2>1. SUFFICES ASSUME IInv, NEW r \in Runs, pc[r] = "created"
                 PROVE  owner = r /\ output # NoDir
        BY Zenon DEF CreatedIsKept
  <2>2. owner = r  BY <2>1, InvParts DEF RunInv
  <2>3. owner # NoRun  BY <2>2, RedirectAssumption
  <2>. QED BY <2>1, <2>2, <2>3 DEF IInv, OutputHasOwner
<1>. QED BY <1>1, Invariant, PTL

(* A run that reports success leaves the original as the manifest has it,  *)
(* unless something changed it after the rename.                           *)
THEOREM RedirectSuccessMeansSourceIntact == Spec => []SuccessMeansSourceIntact
<1>1. IInv => SuccessMeansSourceIntact  BY DEF IInv, RunInv, SuccessMeansSourceIntact
<1>. QED BY <1>1, Invariant, PTL

(* A run that ends with an exception and could remove what it made leaves  *)
(* neither its temporary directory nor a published copy behind.            *)
THEOREM RedirectNothingLeftBehind == Spec => []NothingLeftBehind
<1>1. IInv => NothingLeftBehind  BY DEF IInv, RunInv, NothingLeftBehind
<1>. QED BY <1>1, Invariant, PTL
=============================================================================
