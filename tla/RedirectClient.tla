--------------------------- MODULE RedirectClient ---------------------------
(***************************************************************************)
(* tools/redirect_client.py: create_patched_copy, as several runs of it on *)
(* the same output directory.  A run verifies the original client, copies  *)
(* it to a temporary directory of its own, patches the metadata, writes    *)
(* the marker, verifies the copy, publishes it with a rename and verifies  *)
(* both trees again; an exception removes what the run made.  Verification *)
(* and copying read one file at a time, so that another program can change *)
(* the trees in between.                                                   *)
(*                                                                         *)
(* A tree gives every path a content: "original" and "patched" are the two *)
(* contents whose SHA-256 the manifest and the patch plan name, "other" is *)
(* any other one.  The occurrence counts of _verify_metadata_bytes follow  *)
(* from those hashes.                                                      *)
(***************************************************************************)
EXTENDS Integers, Sequences

CONSTANTS Runs,       \* the runs of `create` on one output
          Manifest,   \* the paths of the manifest, in its order
          Metadata,   \* plan.metadata_path
          Marker,     \* MARKER_NAME
          Extra,      \* a path outside the manifest
          NoDir,      \* a directory that does not exist
          NoRun,      \* nobody
          MaxFaults   \* bound on edits by others, errors and kills

ManifestFiles == {Manifest[i] : i \in DOMAIN Manifest}
Paths == ManifestFiles \cup {Marker, Extra}
Contents == {"original", "patched", "marker", "other", "absent"}
Trees == [Paths -> Contents]

ASSUME RedirectAssumption ==
    /\ Manifest \in Seq(ManifestFiles)
    /\ Metadata \in ManifestFiles
    /\ Marker \notin ManifestFiles
    /\ Extra \notin ManifestFiles \cup {Marker}
    /\ NoDir \notin Trees
    /\ NoRun \notin Runs
    /\ MaxFaults \in Nat

VARIABLES
    source,     \* the original client, a tree
    temporary,  \* [Runs -> Trees \cup {NoDir}]: each run's own directory
    output,     \* the published directory, a tree or NoDir
    pc,         \* [Runs -> Phases]
    todo,       \* [Runs -> Seq(Paths)]: what a verification or copy has left
    doomed,     \* [Runs -> SUBSET Paths]: what an rmtree of output has left
    published,  \* [Runs -> BOOLEAN]: the local variable of the code
    owner,      \* history: the run whose copy output is
    pristine,   \* history: output is as it was when it was published
    quiet,      \* history: [Runs -> BOOLEAN]: source unchanged since its rename
    faults      \* edits by others, errors and kills so far

vars == <<source, temporary, output, pc, todo, doomed, published, owner, pristine, quiet, faults>>

EmptyDir == [p \in Paths |-> "absent"]
Original == [p \in Paths |-> IF p \in ManifestFiles THEN "original" ELSE "absent"]
Patched == [Original EXCEPT ![Metadata] = "patched", ![Marker] = "marker"]

ReadingSource == {"verifying_source", "verifying_source_again"}
Verifying == ReadingSource \cup {"verifying_temporary", "verifying_output"}
Working == Verifying \cup {"copying", "patching", "marking", "renaming"}
HavingTemporary == {"copying", "patching", "marking", "verifying_temporary",
                    "renaming", "removing_temporary"}
Removing == {"removing_temporary", "removing_output"}
Ended == {"refused", "created", "failed", "left_over", "killed"}
Phases == {"waiting"} \cup Working \cup Removing \cup Ended

(* verify_original_client: every file of the manifest, the files outside   *)
(* it, then the bytes of the metadata.                                     *)
SourceChecks == Manifest \o <<Marker, Extra, Metadata>>

(* Fault: the files outside the manifest are not looked for.               *)
CopyChecksListed == <<Marker>> \o Manifest \o <<Metadata>>

(* verify_patched_copy: the marker comes first and is allowed.             *)
CopyChecks == <<Marker>> \o Manifest \o <<Extra, Metadata>>

(* What a walk over a directory finds in it.                               *)
Entries(tree) == {p \in Paths : tree[p] # "absent"}

(* The directory a verification reads, and the tree it must be.            *)
Checked(r) == CASE pc[r] \in ReadingSource -> source
                [] pc[r] = "verifying_temporary" -> temporary[r]
                [] OTHER -> output
Wanted(r) == IF pc[r] \in ReadingSource THEN Original ELSE Patched

Init ==
    /\ source = Original
    /\ temporary = [r \in Runs |-> NoDir]
    /\ output = NoDir
    /\ pc = [r \in Runs |-> "waiting"]
    /\ todo = [r \in Runs |-> <<>>]
    /\ doomed = [r \in Runs |-> {}]
    /\ published = [r \in Runs |-> FALSE]
    /\ owner = NoRun
    /\ pristine = FALSE
    /\ quiet = [r \in Runs |-> FALSE]
    /\ faults = 0

Goto(r, phase, work) ==
    /\ pc' = [pc EXCEPT ![r] = phase]
    /\ todo' = [todo EXCEPT ![r] = work]
    /\ UNCHANGED doomed

StartRemoval(r) ==
    /\ pc' = [pc EXCEPT ![r] = "removing_output"]
    /\ todo' = [todo EXCEPT ![r] = <<>>]
    /\ doomed' = [doomed EXCEPT ![r] = Entries(output)]

(* Fault: published is not looked at.                                      *)
RemoveOutputAlways(r) ==
    IF output # NoDir
    THEN StartRemoval(r)
    ELSE Goto(r, "failed", <<>>)

(* Fault: only the temporary directory is cleaned up.                      *)
RemoveOutputNever(r) == Goto(r, "failed", <<>>)

(* The rest of the except clause once the temporary directory is gone.     *)
RemoveOutput(r) ==
    IF published[r] /\ output # NoDir
    THEN StartRemoval(r)
    ELSE Goto(r, "failed", <<>>)

(* except Exception: before the try block there is nothing to remove yet.  *)
Raise(r) ==
    IF temporary[r] # NoDir
    THEN Goto(r, "removing_temporary", <<>>)
    ELSE RemoveOutput(r)

Trees_ == <<source, temporary, output>>
History == <<owner, pristine, quiet>>

Begin(r) ==
    /\ pc[r] = "waiting"
    /\ IF output # NoDir
       THEN Goto(r, "refused", <<>>)
       ELSE Goto(r, "verifying_source", SourceChecks)
    /\ UNCHANGED <<Trees_, published, History, faults>>

(* One file, marker or listing read by a verification.                     *)
Check(r) ==
    /\ pc[r] \in Verifying
    /\ todo[r] # <<>>
    /\ IF Checked(r) # NoDir /\ Checked(r)[Head(todo[r])] = Wanted(r)[Head(todo[r])]
       THEN Goto(r, pc[r], Tail(todo[r]))
       ELSE Raise(r)
    /\ UNCHANGED <<Trees_, published, History, faults>>

(* Fault: the original is not verified a second time.                      *)
VerifiedOnce(r) ==
    /\ todo[r] = <<>>
    /\ \/ /\ pc[r] = "verifying_source"
          /\ temporary' = [temporary EXCEPT ![r] = EmptyDir]
          /\ Goto(r, "copying", Manifest \o <<Marker, Extra>>)
       \/ /\ pc[r] = "verifying_temporary"
          /\ Goto(r, "renaming", <<>>)
          /\ UNCHANGED temporary
       \/ /\ pc[r] = "verifying_output"
          /\ Goto(r, "created", <<>>)
          /\ UNCHANGED temporary
    /\ UNCHANGED <<source, output, published, History, faults>>

(* A verification that found nothing wrong returns.                        *)
Verified(r) ==
    /\ todo[r] = <<>>
    /\ \/ /\ pc[r] = "verifying_source"
          /\ temporary' = [temporary EXCEPT ![r] = EmptyDir]
          /\ Goto(r, "copying", Manifest \o <<Marker, Extra>>)
       \/ /\ pc[r] = "verifying_temporary"
          /\ Goto(r, "renaming", <<>>)
          /\ UNCHANGED temporary
       \/ /\ pc[r] = "verifying_output"
          /\ Goto(r, "verifying_source_again", SourceChecks)
          /\ UNCHANGED temporary
       \/ /\ pc[r] = "verifying_source_again"
          /\ Goto(r, "created", <<>>)
          /\ UNCHANGED temporary
    /\ UNCHANGED <<source, output, published, History, faults>>

(* shutil.copytree: each path as the source has it at that moment.         *)
CopyFile(r) ==
    /\ pc[r] = "copying"
    /\ todo[r] # <<>>
    /\ temporary' = [temporary EXCEPT ![r][Head(todo[r])] = source[Head(todo[r])]]
    /\ Goto(r, IF Len(todo[r]) = 1 THEN "patching" ELSE "copying", Tail(todo[r]))
    /\ UNCHANGED <<source, output, published, History, faults>>

(* _patch_metadata: the original bytes or an error.                        *)
PatchMetadata(r) ==
    /\ pc[r] = "patching"
    /\ IF temporary[r][Metadata] = "original"
       THEN /\ temporary' = [temporary EXCEPT ![r][Metadata] = "patched"]
            /\ Goto(r, "marking", <<>>)
       ELSE /\ Raise(r)
            /\ UNCHANGED temporary
    /\ UNCHANGED <<source, output, published, History, faults>>

WriteMarker(r) ==
    /\ pc[r] = "marking"
    /\ temporary' = [temporary EXCEPT ![r][Marker] = "marker"]
    /\ Goto(r, "verifying_temporary", CopyChecks)
    /\ UNCHANGED <<source, output, published, History, faults>>

Publish(r) ==
    /\ output' = temporary[r]
    /\ temporary' = [temporary EXCEPT ![r] = NoDir]
    /\ published' = [published EXCEPT ![r] = TRUE]
    /\ owner' = r
    /\ pristine' = TRUE
    /\ quiet' = [quiet EXCEPT ![r] = TRUE]
    /\ Goto(r, "verifying_output", CopyChecks)
    /\ UNCHANGED <<source, faults>>

(* Fault: the rename waits for the output to go away.                      *)
RenameWaiting(r) ==
    /\ pc[r] = "renaming"
    /\ output \in {NoDir, EmptyDir}
    /\ Publish(r)

(* temporary.rename(output): a directory with files in it is an OSError; an *)
(* empty one is replaced on POSIX systems and an error on Windows.          *)
Rename(r) ==
    /\ pc[r] = "renaming"
    /\ \/ /\ output \in {NoDir, EmptyDir}
          /\ Publish(r)
       \/ /\ output # NoDir
          /\ Raise(r)
          /\ UNCHANGED <<Trees_, published, History, faults>>

RemoveTemporary(r) ==
    /\ pc[r] = "removing_temporary"
    /\ temporary' = [temporary EXCEPT ![r] = NoDir]
    /\ RemoveOutput(r)
    /\ UNCHANGED <<source, output, published, History, faults>>

(* shutil.rmtree(output): each file it has listed; one that is gone is an  *)
(* OSError.                                                                *)
Unlink(r) ==
    /\ pc[r] = "removing_output"
    /\ \E p \in doomed[r] :
          IF output # NoDir /\ output[p] # "absent"
          THEN /\ output' = [output EXCEPT ![p] = "absent"]
               /\ pristine' = FALSE
               /\ doomed' = [doomed EXCEPT ![r] = @ \ {p}]
               /\ UNCHANGED <<pc, todo>>
          ELSE /\ Goto(r, "left_over", <<>>)
               /\ UNCHANGED <<output, pristine>>
    /\ UNCHANGED <<source, temporary, published, owner, quiet, faults>>

(* ... and then the directory, which must be empty by now.                 *)
RemoveDirectory(r) ==
    /\ pc[r] = "removing_output"
    /\ doomed[r] = {}
    /\ IF output = EmptyDir
       THEN /\ output' = NoDir
            /\ owner' = NoRun
            /\ pristine' = FALSE
            /\ Goto(r, "failed", <<>>)
       ELSE /\ Goto(r, "left_over", <<>>)
            /\ UNCHANGED <<output, owner, pristine>>
    /\ UNCHANGED <<source, temporary, published, quiet, faults>>

Step(r) ==
    \/ Begin(r) \/ Check(r) \/ Verified(r) \/ CopyFile(r) \/ PatchMetadata(r)
    \/ WriteMarker(r) \/ Rename(r) \/ RemoveTemporary(r) \/ Unlink(r) \/ RemoveDirectory(r)

----------------------------------------------------------------------------
(* The faults around the runs, MaxFaults of them in a behaviour.           *)
Fault ==
    /\ faults < MaxFaults
    /\ faults' = faults + 1

(* Another program changes, removes, adds or restores a file of the source. *)
EditSource ==
    /\ Fault
    /\ \E p \in ManifestFiles \cup {Extra} :
          \E c \in {Original[p], "other", "absent"} : source' = [source EXCEPT ![p] = c]
    /\ quiet' = [r \in Runs |-> FALSE]
    /\ UNCHANGED <<temporary, output, pc, todo, doomed, published, owner, pristine>>

(* The published client writes into its own directory.                     *)
EditOutput ==
    /\ Fault
    /\ output # NoDir
    /\ \E p \in Paths : output' = [output EXCEPT ![p] = "other"]
    /\ pristine' = FALSE
    /\ UNCHANGED <<source, temporary, pc, todo, doomed, published, owner, quiet>>

(* Any operation on the disk may raise OSError.                            *)
DiskError(r) ==
    /\ Fault
    /\ pc[r] \in Working
    /\ Raise(r)
    /\ UNCHANGED <<Trees_, published, History>>

(* An rmtree that raises is not continued: what is left stays.             *)
RemovalFails(r) ==
    /\ Fault
    /\ pc[r] \in Removing
    /\ Goto(r, "left_over", <<>>)
    /\ UNCHANGED <<Trees_, published, History>>

(* A kill, or KeyboardInterrupt, which except Exception does not catch.    *)
Kill(r) ==
    /\ Fault
    /\ pc[r] \in Working \cup Removing
    /\ Goto(r, "killed", <<>>)
    /\ UNCHANGED <<Trees_, published, History>>

Next ==
    \/ \E r \in Runs : Step(r) \/ DiskError(r) \/ RemovalFails(r) \/ Kill(r)
    \/ EditSource
    \/ EditOutput

Spec == Init /\ [][Next]_vars

(* The operating system keeps running every run that it has not killed.    *)
FairSpec == Spec /\ \A r \in Runs : WF_vars(Step(r))

----------------------------------------------------------------------------
(* Every variable keeps its type, and a run that works in its temporary    *)
(* directory, or is about to remove it, has one.                           *)
TypeOK ==
    /\ source \in Trees
    /\ temporary \in [Runs -> Trees \cup {NoDir}]
    /\ output \in Trees \cup {NoDir}
    /\ pc \in [Runs -> Phases]
    /\ todo \in [Runs -> Seq(Paths)]
    /\ doomed \in [Runs -> SUBSET Paths]
    /\ published \in [Runs -> BOOLEAN]
    /\ owner \in Runs \cup {NoRun}
    /\ pristine \in BOOLEAN
    /\ quiet \in [Runs -> BOOLEAN]
    /\ faults \in 0 .. MaxFaults
    /\ \A r \in Runs : pc[r] \in HavingTemporary => temporary[r] # NoDir

(* A published copy that nobody has touched since is the patched client,   *)
(* complete and with nothing in it from outside the manifest, whatever     *)
(* happened to the original while it was verified and copied: what the     *)
(* rename publishes is exactly what verify_patched_copy has read.          *)
PublishedIsWhole == pristine => output = Patched

(* A copy that its run reported as created stays published as that run's:  *)
(* no later rename replaces it, and no other run's cleanup removes it (a   *)
(* run that lost the race to the rename also runs the except clause).      *)
CreatedIsKept ==
    \A r \in Runs : pc[r] = "created" => owner = r /\ output # NoDir

(* A run that reports success leaves the original client as the manifest   *)
(* has it, unless something changed it after the rename: changes during    *)
(* the copy are found by the second verify_original_client.                *)
SuccessMeansSourceIntact ==
    \A r \in Runs : pc[r] = "created" /\ quiet[r] => source = Original

(* A run that ends with an exception and could remove what it made leaves  *)
(* neither its temporary directory nor a published copy behind.            *)
NothingLeftBehind ==
    \A r \in Runs : pc[r] = "failed" => temporary[r] = NoDir /\ owner # r

(* Every run comes to an end.                                              *)
EveryRunEnds == \A r \in Runs : <>(pc[r] \in Ended)

(* With no fault, runs that compete for the output do not defeat each      *)
(* other: one of them creates it.                                          *)
SomeRunSucceeds == <>(faults > 0 \/ \E r \in Runs : pc[r] = "created")
=============================================================================
