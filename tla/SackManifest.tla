---------------------------- MODULE SackManifest ----------------------------
(***************************************************************************)
(* The sack of the old subsystem: TierOrchestrator walks through the state *)
(* folders, workers append to the files of the active one in work slices   *)
(* (SliceContext), ManifestEngine logs what a slice declared and committed *)
(* and cuts the files back at the next start.  The process may be killed   *)
(* between any two steps: what its streams had not flushed then reaches    *)
(* the disk up to any point.                                               *)
(*                                                                         *)
(* A file is the sequence of the slices that wrote to it.  The manifest is *)
(* a sequence of fields; both kinds of record have three, so that a torn   *)
(* record shifts everything behind it.                                     *)
(***************************************************************************)
EXTENDS Naturals, Sequences, FiniteSets, SequencesExt

CONSTANTS
    FillingFiles,     \* names the worker of FillingSack uses
    SprinklingFiles,  \* names the worker of SprinklingSack uses
    MaxSlices,        \* bound: work slices begun
    MaxWrites,        \* bound: writes to one file in one slice
    MaxCrashes        \* bound: how often the process ends

Files == FillingFiles \cup SprinklingFiles

ASSUME SackAssumption ==
    /\ FillingFiles \cap SprinklingFiles = {}
    /\ {MaxSlices, MaxWrites, MaxCrashes} \subseteq Nat

VARIABLES
    current_state_,  \* the state the orchestrator is in, "Off" or "Failed"
    pc,              \* what the running process does
    folders,         \* the state folders that exist
    locked,          \* those without permission to enter or write
    data,            \* the files on disk
    buffered,        \* what the streams of the slice hold back
    open_files_,     \* the files the slice opened
    declared,        \* those it declared
    manifest,        \* the fields of manifest.tx in the active folder
    out_,            \* the fields its stream holds back
    slice_id_,       \* the slices begun
    kept,            \* ghost: each file at the last commit that covers it
    tailCovered,     \* ghost: were fields appended behind a cut-off slice?
    crashes

sack == << current_state_, pc, folders, locked, data, buffered, open_files_,
           declared, manifest, out_, slice_id_, kept, tailCovered, crashes >>

Working == {"Filling", "Sprinkling"}
FilesOf == [Filling |-> FillingFiles, Sprinkling |-> SprinklingFiles]
NextState == [Filling |-> "Sprinkling", Sprinkling |-> "Product"]

-----------------------------------------------------------------------------
(* The manifest.                                                           *)

Declaration(f, n) ==
    << [part |-> "declaration"], [part |-> "name", of |-> f], [part |-> "offset", to |-> n] >>
Commit(id) ==
    << [part |-> "commit"], [part |-> "magic"], [part |-> "slice", of |-> id] >>

\* Where the fields of the j-th record the reader takes from m begin; it stops
\* at the first type it does not know.
TypeAt(m, j) == 3 * j - 2
Known(m, j) ==
    TypeAt(m, j) <= Len(m) /\ m[TypeAt(m, j)].part \in {"declaration", "commit"}
ReadableRecords(m) == {j \in 1 .. Len(m) : \A i \in 1 .. j : Known(m, i)}

IsDeclarationOf(m, j, f) ==
    /\ m[TypeAt(m, j)].part = "declaration"
    /\ TypeAt(m, j) + 2 <= Len(m)
    /\ m[TypeAt(m, j) + 1] = [part |-> "name", of |-> f]
IsCommit(m, j) ==
    /\ m[TypeAt(m, j)].part = "commit"
    /\ TypeAt(m, j) + 1 <= Len(m)
    /\ m[TypeAt(m, j) + 1].part = "magic"

\* The declarations of f that some commit follows: pending_lengths is not
\* emptied, so that a commit takes over whatever was declared before it.
Validated(m, f) ==
    {j \in ReadableRecords(m) :
        IsDeclarationOf(m, j, f) /\ \E c \in ReadableRecords(m) : c > j /\ IsCommit(m, c)}

\* The bytes of any other field, taken for an offset, are a length beyond
\* every file.
read_offset(field) ==
    IF field.part = "offset" THEN field.to ELSE MaxSlices * MaxWrites + 1

last_committed_lengths(m) ==
    [f \in {g \in Files : Validated(m, g) # {}} |->
        read_offset(m[TypeAt(m, Max(Validated(m, f))) + 2])]


resize_file(s, n) == [i \in 1 .. n |-> IF i <= Len(s) THEN s[i] ELSE 0]
RecoveredNothing(m) == data  \* fault: the files stay as they are
Recovered(m) ==
    LET lengths == last_committed_lengths(m) IN
    [f \in Files |-> IF f \in DOMAIN lengths THEN resize_file(data[f], lengths[f]) ELSE data[f]]

EndsWithCommit(m) ==
    m = << >> \/ (Len(m) >= 3 /\ m[Len(m) - 2].part = "commit")

-----------------------------------------------------------------------------
(* Work slices.                                                            *)

Init ==
    /\ current_state_ = "Off" /\ pc = "idle"
    /\ folders = {"Filling"} /\ locked = {}
    /\ data = [f \in Files |-> << >>] /\ buffered = [f \in Files |-> << >>]
    /\ open_files_ = {} /\ declared = {}
    /\ manifest = << >> /\ out_ = << >>
    /\ slice_id_ = 0 /\ crashes = 0
    /\ kept = [f \in Files |-> << >>] /\ tailCovered = FALSE

BeginSlice ==
    /\ pc = "idle" /\ current_state_ \in Working
    /\ slice_id_ < MaxSlices
    /\ slice_id_' = slice_id_ + 1
    /\ pc' = "work"
    /\ UNCHANGED << current_state_, folders, locked, data, buffered, open_files_,
                    declared, manifest, out_, kept, tailCovered, crashes >>

microstep(filenames) ==
    /\ pc = "work"
    /\ filenames # {} /\ filenames \subseteq FilesOf[current_state_]
    /\ \A f \in filenames : Len(buffered[f]) < MaxWrites
    /\ open_files_' = open_files_ \cup filenames
    /\ buffered' = [f \in Files |-> IF f \in filenames THEN Append(buffered[f], slice_id_)
                                    ELSE buffered[f]]
    /\ UNCHANGED << current_state_, pc, folders, locked, data, declared, manifest,
                    out_, slice_id_, kept, tailCovered, crashes >>

Unflushed(f) == data  \* fault: declared before it is flushed
Flushed(f) == [data EXCEPT ![f] = @ \o buffered[f]]

\* ~SliceContext, file by file: flush, ask for the position, declare it.
record_microstep_declaration(f) ==
    /\ pc \in {"work", "declare"}
    /\ f \in open_files_ \ declared
    /\ data' = Flushed(f)
    /\ buffered' = [buffered EXCEPT ![f] = << >>]
    /\ declared' = declared \cup {f}
    /\ out_' = out_ \o Declaration(f, Len(data[f]) + Len(buffered[f]))
    /\ pc' = "declare"
    /\ UNCHANGED << current_state_, folders, locked, open_files_, manifest,
                    slice_id_, kept, tailCovered, crashes >>

commit_work_slice ==
    /\ pc = "declare" /\ declared = open_files_
    /\ out_' = out_ \o Commit(slice_id_)
    /\ pc' = "flush"
    /\ UNCHANGED << current_state_, folders, locked, data, buffered, open_files_,
                    declared, manifest, slice_id_, kept, tailCovered, crashes >>

\* What reaches manifest.tx, by a flush or by the end of the process.
Appended(fields) ==
    /\ manifest' = manifest \o fields
    /\ tailCovered' = (tailCovered \/ (fields # << >> /\ ~EndsWithCommit(manifest)))
    /\ kept' = IF \E i \in DOMAIN fields : fields[i].part = "magic"
               THEN [f \in Files |-> IF f \in open_files_ THEN data[f] ELSE kept[f]]
               ELSE kept
    /\ out_' = << >>

flush_manifest ==
    /\ pc = "flush"
    /\ Appended(out_)
    /\ open_files_' = {} /\ declared' = {}
    /\ pc' = "idle"
    /\ UNCHANGED << current_state_, folders, locked, data, buffered, slice_id_, crashes >>

-----------------------------------------------------------------------------
(* From one state to the next: finalize_current_state.                     *)

RemoveManifest ==
    /\ pc = "idle" /\ current_state_ \in Working
    /\ manifest' = << >> /\ tailCovered' = FALSE
    /\ pc' = "lock"
    /\ UNCHANGED << current_state_, folders, locked, data, buffered, open_files_,
                    declared, out_, slice_id_, kept, crashes >>

LockFolder ==
    /\ pc = "lock"
    /\ locked' = locked \cup {current_state_}
    /\ pc' = "create"
    /\ UNCHANGED << current_state_, folders, data, buffered, open_files_, declared,
                    manifest, out_, slice_id_, kept, tailCovered, crashes >>

CreateNext ==
    /\ pc = "create"
    /\ folders' = folders \cup {NextState[current_state_]}
    /\ current_state_' = NextState[current_state_]
    /\ pc' = "idle"
    /\ UNCHANGED << locked, data, buffered, open_files_, declared, manifest, out_,
                    slice_id_, kept, tailCovered, crashes >>

-----------------------------------------------------------------------------
(* The end of the process, and the next start.                             *)

End ==
    /\ current_state_ \in Working \cup {"Product"}
    /\ crashes < MaxCrashes
    /\ crashes' = crashes + 1
    /\ \E n \in 0 .. Len(out_) : Appended(SubSeq(out_, 1, n))
    /\ \E reached \in [open_files_ -> 0 .. MaxWrites] :
          /\ \A f \in open_files_ : reached[f] <= Len(buffered[f])
          /\ data' = [f \in Files |-> IF f \in open_files_
                                      THEN data[f] \o SubSeq(buffered[f], 1, reached[f])
                                      ELSE data[f]]
    /\ buffered' = [f \in Files |-> << >>]
    /\ open_files_' = {} /\ declared' = {}
    /\ current_state_' = "Off" /\ pc' = "idle"
    /\ UNCHANGED << folders, locked, slice_id_ >>

OldestFolder(existing) == "Filling"  \* fault: the folders are tried in the other order
ActiveFolder(existing) ==
    IF "Product" \in existing THEN "Product"
    ELSE IF "Sprinkling" \in existing THEN "Sprinkling"
    ELSE "Filling"

\* In a folder without permission to enter, asking whether manifest.tx exists
\* throws, unless the account or the platform does not care.
BootThrows ==
    /\ current_state_ = "Off"
    /\ ActiveFolder(folders) \in locked
    /\ current_state_' = "Failed"
    /\ UNCHANGED << pc, folders, locked, data, buffered, open_files_, declared,
                    manifest, out_, slice_id_, kept, tailCovered, crashes >>

boot_and_recover ==
    /\ current_state_ = "Off"
    /\ current_state_' = ActiveFolder(folders)
    /\ data' = IF current_state_' = "Product" THEN data ELSE Recovered(manifest)
    /\ UNCHANGED << pc, folders, locked, buffered, open_files_, declared, manifest,
                    out_, slice_id_, kept, tailCovered, crashes >>

Next ==
    \/ BeginSlice \/ commit_work_slice \/ flush_manifest
    \/ \E filenames \in SUBSET Files : microstep(filenames)
    \/ \E f \in Files : record_microstep_declaration(f)
    \/ RemoveManifest \/ LockFolder \/ CreateNext
    \/ End \/ BootThrows \/ boot_and_recover

Spec == Init /\ [][Next]_sack

-----------------------------------------------------------------------------
(* Properties.                                                             *)

\* Every length a start would cut a file to is there: data is flushed before
\* it is declared, and declared before it is committed, so that recovery never
\* has to make up the end of a file.  This ends when a commit follows
\* the records of a slice that was cut off: reading stops at the torn record,
\* or counts its declarations into the next commit.
CommittedIsOnDisk ==
    ~tailCovered =>
        \A f \in DOMAIN last_committed_lengths(manifest) :
            last_committed_lengths(manifest)[f] <= Len(data[f])

\* Between slices, after a start as well as after a commit, each file with a
\* commit in the manifest holds exactly what it held at that commit, wherever
\* the process ended before, provided the manifest has not been continued
\* behind the records of a slice that was cut off.
FilesHoldLastCommit ==
    (pc = "idle" /\ current_state_ \in Working /\ ~tailCovered) =>
        \A f \in DOMAIN last_committed_lengths(manifest) : data[f] = kept[f]

\* The files of a state that was left never change again, although a start
\* goes by the folders alone and a folder is left in three steps.
FinishedFolderIsFinal ==
    [][\A s \in Working :
          NextState[s] \in folders => \A f \in FilesOf[s] : data'[f] = data[f]]_sack

=============================================================================
