------------------------- MODULE SackManifestProofs -------------------------
(***************************************************************************)
(* Why the files of a state that was left never change again: what the     *)
(* manifest names, what is open and what is written belongs to the state   *)
(* that a start would take up, for any files and any number of slices,     *)
(* writes and crashes.                                                     *)
(*                                                                         *)
(* And why what was committed is on disk: what waits for the manifest's    *)
(* stream declares what the files already have, so that a commit, wherever *)
(* the process ends, validates lengths that are there, and a start cuts    *)
(* each file back to what it was.                                          *)
(***************************************************************************)
EXTENDS SackManifest, SequenceTheorems, WellFoundedInduction, TLAPS

FoldersSeen == {{"Filling"}, {"Filling", "Sprinkling"}, {"Filling", "Sprinkling", "Product"}}

\* The files of the state that a start would take up.
FilesInUse ==
    IF folders = {"Filling"} THEN FillingFiles
    ELSE IF folders = {"Filling", "Sprinkling"} THEN SprinklingFiles
    ELSE {}

\* The fields of a manifest that names files of F only.  What its offsets
\* are plays no part.
Fields(F, offsets) ==
    [part : {"declaration", "commit", "magic"}] \cup [part : {"name"}, of : F]
        \cup [part : {"offset"}, to : offsets] \cup [part : {"slice"}, of : Nat]

NamesFilesInUse(m) == \E offsets : m \in Seq(Fields(FilesInUse, offsets))

StateInv ==
    /\ DOMAIN data = Files
    /\ slice_id_ \in Nat
    /\ folders \in FoldersSeen
    /\ current_state_ \in Working \cup {"Off", "Failed", "Product"}
    /\ current_state_ \notin {"Off", "Failed"} => current_state_ = ActiveFolder(folders)
    /\ pc \in {"idle", "work", "declare", "flush", "lock", "create"}
    /\ pc # "idle" => current_state_ \in Working

\* Between slices nothing is open, and a state is left without a manifest.
SliceInv ==
    /\ open_files_ \subseteq FilesInUse
    /\ pc \in {"idle", "lock", "create"} => open_files_ = {} /\ out_ = << >>
    /\ pc \in {"lock", "create"} => manifest = << >>
    /\ NamesFilesInUse(manifest)
    /\ NamesFilesInUse(out_)

SackInv == StateInv /\ SliceInv

-----------------------------------------------------------------------------
(* The fields of manifests.                                                *)

LEMMA MoreOffsets ==
  ASSUME NEW F, NEW A, NEW B, A \subseteq B, NEW m \in Seq(Fields(F, A))
  PROVE  m \in Seq(Fields(F, B))
<1>1. Fields(F, A) \subseteq Fields(F, B)
  BY DEF Fields
<1> QED
  BY <1>1

LEMMA Joined ==
  ASSUME NEW m, NEW fields, NamesFilesInUse(m), NamesFilesInUse(fields)
  PROVE  NamesFilesInUse(m \o fields)
<1>1. PICK A : m \in Seq(Fields(FilesInUse, A))
  BY DEF NamesFilesInUse
<1>2. PICK B : fields \in Seq(Fields(FilesInUse, B))
  BY DEF NamesFilesInUse
<1>3. m \in Seq(Fields(FilesInUse, A \cup B)) /\ fields \in Seq(Fields(FilesInUse, A \cup B))
  BY <1>1, <1>2, MoreOffsets
<1>4. m \o fields \in Seq(Fields(FilesInUse, A \cup B))
  BY <1>3
<1> QED
  BY <1>4 DEF NamesFilesInUse

\* Only named files have a length in the manifest.
LEMMA LengthsOfNamedFiles ==
  ASSUME NEW m, NamesFilesInUse(m), NEW f, Validated(m, f) # {}
  PROVE  f \in FilesInUse
<1>1. PICK offsets : m \in Seq(Fields(FilesInUse, offsets))
  BY DEF NamesFilesInUse
<1>2. PICK j \in 1 .. Len(m) : IsDeclarationOf(m, j, f)
  BY DEF Validated, ReadableRecords
<1>3. TypeAt(m, j) + 1 \in 1 .. Len(m)
  BY <1>1, <1>2 DEF IsDeclarationOf, TypeAt
<1>4. m[TypeAt(m, j) + 1] \in Fields(FilesInUse, offsets)
  BY <1>1, <1>3
<1>5. [part |-> "name", of |-> f] \in Fields(FilesInUse, offsets)
  BY <1>2, <1>4 DEF IsDeclarationOf
<1> QED
  BY <1>5 DEF Fields

-----------------------------------------------------------------------------
(* The invariant.                                                          *)

\* The files of the state that is running are those in use, and no other
\* state has them.
LEMMA FilesOfState ==
  ASSUME StateInv
  PROVE  /\ current_state_ \in Working => FilesInUse = FilesOf[current_state_]
         /\ \A s \in Working : NextState[s] \in folders => FilesInUse \cap FilesOf[s] = {}
         /\ FilesInUse \subseteq Files
<1> USE SackAssumption DEF StateInv, FoldersSeen, FilesInUse, ActiveFolder, Working, FilesOf,
                           NextState, Files
<1>1. CASE folders = {"Filling"}
  BY <1>1
<1>2. CASE folders = {"Filling", "Sprinkling"}
  BY <1>2
<1>3. CASE folders = {"Filling", "Sprinkling", "Product"}
  <2>1. folders # {"Filling"} /\ folders # {"Filling", "Sprinkling"}
    BY <1>3
  <2>2. FilesInUse = {}
    BY <2>1
  <2>3. ActiveFolder(folders) = "Product"
    BY <1>3
  <2>4. current_state_ \notin Working
    BY <2>3
  <2> QED
    BY <2>2, <2>4
<1> QED
  BY <1>1, <1>2, <1>3

LEMMA EmptyNamesNothing == NamesFilesInUse(<< >>)
  BY DEF NamesFilesInUse

LEMMA InitSackInv == Init => SackInv
<1> SUFFICES ASSUME Init PROVE SackInv
  OBVIOUS
<1>1. StateInv
  BY DEF Init, StateInv, FoldersSeen, Working
<1>2. SliceInv
  BY EmptyNamesNothing DEF Init, SliceInv
<1> QED
  BY <1>1, <1>2 DEF SackInv

\* Steps in which the folders stay.
LEMMA SameFilesInUse ==
  ASSUME UNCHANGED folders
  PROVE  /\ FilesInUse' = FilesInUse
         /\ \A m : NamesFilesInUse(m)' <=> NamesFilesInUse(m)
  BY DEF FilesInUse, NamesFilesInUse

LEMMA StepSackInv == SackInv /\ [Next]_sack => SackInv'
<1> SUFFICES ASSUME SackInv, [Next]_sack PROVE SackInv'
  OBVIOUS
<1>0. StateInv /\ SliceInv
  BY DEF SackInv
<1>1. CASE BeginSlice
  <2>1. StateInv'
    BY <1>0, <1>1 DEF StateInv, BeginSlice, Working
  <2>2. SliceInv'
    BY <1>0, <1>1 DEF SliceInv, BeginSlice, FilesInUse, NamesFilesInUse
  <2> QED
    BY <2>1, <2>2 DEF SackInv
<1>2. ASSUME NEW filenames \in SUBSET Files, microstep(filenames)
      PROVE  SackInv'
  <2>1. StateInv'
    BY <1>0, <1>2 DEF StateInv, microstep
  <2>2. filenames \subseteq FilesInUse
    BY <1>0, <1>2, FilesOfState DEF StateInv, microstep
  <2>3. SliceInv'
    BY <1>0, <1>2, <2>2 DEF SliceInv, microstep, FilesInUse, NamesFilesInUse
  <2> QED
    BY <2>1, <2>3 DEF SackInv
<1>3. ASSUME NEW f \in Files, record_microstep_declaration(f)
      PROVE  SackInv'
  <2>1. StateInv'
    BY <1>0, <1>3 DEF StateInv, record_microstep_declaration, Flushed
  <2>2. f \in FilesInUse
    BY <1>0, <1>3 DEF SliceInv, record_microstep_declaration
  <2>3. NamesFilesInUse(Declaration(f, Len(data[f]) + Len(buffered[f])))
    <3> DEFINE end == Len(data[f]) + Len(buffered[f])
    <3>1. Declaration(f, end) \in Seq(Fields(FilesInUse, {end}))
      BY <2>2 DEF Declaration, Fields
    <3> QED
      BY <3>1 DEF NamesFilesInUse
  <2>4. NamesFilesInUse(out_')
    BY <1>0, <1>3, <2>3, Joined DEF SliceInv, record_microstep_declaration
  <2>5. SliceInv'
    BY <1>0, <1>3, <2>4, SameFilesInUse DEF SliceInv, record_microstep_declaration, NamesFilesInUse
  <2> QED
    BY <2>1, <2>5 DEF SackInv
<1>4. CASE commit_work_slice
  <2>1. StateInv'
    BY <1>0, <1>4 DEF StateInv, commit_work_slice
  <2>2. Commit(slice_id_) \in Seq(Fields(FilesInUse, {}))
    BY <1>0 DEF StateInv, Commit, Fields
  <2>3. NamesFilesInUse(out_')
    BY <1>0, <1>4, <2>2, Joined DEF SliceInv, commit_work_slice, NamesFilesInUse
  <2>4. SliceInv'
    BY <1>0, <1>4, <2>3 DEF SliceInv, commit_work_slice, NamesFilesInUse, FilesInUse
  <2> QED
    BY <2>1, <2>4 DEF SackInv
<1>5. CASE flush_manifest
  <2>1. StateInv'
    BY <1>0, <1>5 DEF StateInv, flush_manifest
  <2>2. NamesFilesInUse(manifest') /\ NamesFilesInUse(out_')
    BY <1>0, <1>5, Joined, EmptyNamesNothing DEF SliceInv, flush_manifest, Appended
  <2>3. SliceInv'
    BY <1>0, <1>5, <2>2 DEF SliceInv, flush_manifest, Appended, FilesInUse, NamesFilesInUse
  <2> QED
    BY <2>1, <2>3 DEF SackInv
<1>6. CASE RemoveManifest \/ LockFolder
  <2>1. StateInv'
    BY <1>0, <1>6 DEF StateInv, RemoveManifest, LockFolder
  <2>2. SliceInv'
    BY <1>0, <1>6, EmptyNamesNothing DEF SliceInv, RemoveManifest, LockFolder, FilesInUse, NamesFilesInUse
  <2> QED
    BY <2>1, <2>2 DEF SackInv
<1>7. CASE CreateNext
  <2>1. StateInv'
    <3>1. /\ DOMAIN data' = Files /\ slice_id_' \in Nat /\ pc' = "idle"
          /\ current_state_ \in Working /\ current_state_ = ActiveFolder(folders)
      BY <1>0, <1>7 DEF StateInv, CreateNext, Working
    <3>2. CASE current_state_ = "Filling"
      <4>1. folders = {"Filling"}
        BY <1>0, <3>1, <3>2 DEF StateInv, FoldersSeen, ActiveFolder
      <4>2. folders' = {"Filling", "Sprinkling"} /\ current_state_' = "Sprinkling"
        BY <1>7, <3>2, <4>1 DEF CreateNext, NextState
      <4> QED
        BY <3>1, <4>2 DEF StateInv, FoldersSeen, ActiveFolder, Working
    <3>3. CASE current_state_ = "Sprinkling"
      <4>1. folders = {"Filling", "Sprinkling"}
        BY <1>0, <3>1, <3>3 DEF StateInv, FoldersSeen, ActiveFolder
      <4>2. folders' = {"Filling", "Sprinkling", "Product"} /\ current_state_' = "Product"
        BY <1>7, <3>3, <4>1 DEF CreateNext, NextState
      <4> QED
        BY <3>1, <4>2 DEF StateInv, FoldersSeen, ActiveFolder, Working
    <3> QED
      BY <3>1, <3>2, <3>3 DEF Working
  <2>2. NamesFilesInUse(<< >>)'
    BY EmptyNamesNothing DEF NamesFilesInUse
  <2>3. SliceInv'
    BY <1>0, <1>7, <2>2 DEF SliceInv, CreateNext
  <2> QED
    BY <2>1, <2>3 DEF SackInv
<1>8. CASE End
  <2>1. StateInv'
    BY <1>0, <1>8 DEF StateInv, End
  <2>2. PICK n \in 0 .. Len(out_) : Appended(SubSeq(out_, 1, n))
    BY <1>8 DEF End
  <2>3. NamesFilesInUse(SubSeq(out_, 1, n))
    <3>1. PICK offsets : out_ \in Seq(Fields(FilesInUse, offsets))
      BY <1>0 DEF SliceInv, NamesFilesInUse
    <3>2. SubSeq(out_, 1, n) \in Seq(Fields(FilesInUse, offsets))
      BY <3>1
    <3> QED
      BY <3>2 DEF NamesFilesInUse
  <2>4. NamesFilesInUse(manifest') /\ NamesFilesInUse(out_')
    BY <1>0, <2>2, <2>3, Joined, EmptyNamesNothing DEF SliceInv, Appended
  <2>5. SliceInv'
    <3>1. open_files_' = {} /\ out_' = << >> /\ pc' = "idle" /\ folders' = folders
      BY <1>8, <2>2 DEF End, Appended
    <3> QED
      BY <3>1, <2>4, SameFilesInUse DEF SliceInv, NamesFilesInUse
  <2> QED
    BY <2>1, <2>5 DEF SackInv
<1>9. CASE BootThrows
  <2>1. StateInv'
    BY <1>0, <1>9 DEF StateInv, BootThrows, Working
  <2>2. SliceInv'
    BY <1>0, <1>9 DEF SliceInv, BootThrows, FilesInUse, NamesFilesInUse
  <2> QED
    BY <2>1, <2>2 DEF SackInv
<1>10. CASE boot_and_recover
  <2>1. StateInv'
    <3>1. DOMAIN data' = Files
      BY <1>0, <1>10 DEF StateInv, boot_and_recover, Recovered
    <3>2. current_state_' = ActiveFolder(folders) /\ current_state_' \in Working \cup {"Product"}
      BY <1>0, <1>10 DEF StateInv, boot_and_recover, ActiveFolder, Working
    <3> QED
      BY <1>0, <1>10, <3>1, <3>2 DEF StateInv, boot_and_recover, ActiveFolder, Working
  <2>2. SliceInv'
    BY <1>0, <1>10 DEF SliceInv, boot_and_recover, FilesInUse, NamesFilesInUse
  <2> QED
    BY <2>1, <2>2 DEF SackInv
<1>11. CASE UNCHANGED sack
  <2>1. StateInv'
    BY <1>0, <1>11 DEF StateInv, sack
  <2>2. SliceInv'
    BY <1>0, <1>11 DEF SliceInv, sack, FilesInUse, NamesFilesInUse
  <2> QED
    BY <2>1, <2>2 DEF SackInv
<1> QED
  BY <1>1, <1>2, <1>3, <1>4, <1>5, <1>6, <1>7, <1>8, <1>9, <1>10, <1>11 DEF Next

\* What is open and what the manifest names are files of the state that the
\* folders stand for, whenever the process ends.
THEOREM OnlyFilesInUse == Spec => []SackInv
  BY InitSackInv, StepSackInv, PTL DEF Spec

-----------------------------------------------------------------------------
(* Finished folders.                                                       *)

\* A step changes files in use only.
LEMMA OthersStay ==
  ASSUME SackInv, [Next]_sack, NEW f \in Files \ FilesInUse
  PROVE  data'[f] = data[f]
<1>0. StateInv /\ SliceInv
  BY DEF SackInv
<1>1. ASSUME NEW g \in Files, record_microstep_declaration(g)
      PROVE  data'[f] = data[f]
  <2>1. g # f
    BY <1>0, <1>1 DEF SliceInv, record_microstep_declaration
  <2> QED
    BY <1>0, <1>1, <2>1 DEF StateInv, record_microstep_declaration, Flushed
<1>2. CASE End
  <2>1. f \notin open_files_
    BY <1>0 DEF SliceInv
  <2> QED
    BY <1>2, <2>1 DEF End
<1>3. CASE boot_and_recover
  <2>1. f \notin DOMAIN last_committed_lengths(manifest)
    BY <1>0, LengthsOfNamedFiles DEF SliceInv, last_committed_lengths
  <2> QED
    BY <1>3, <2>1 DEF boot_and_recover, Recovered
<1>4. CASE UNCHANGED data
  BY <1>4
<1> QED
  BY <1>1, <1>2, <1>3, <1>4 DEF Next, sack, BeginSlice, microstep, commit_work_slice,
     flush_manifest, RemoveManifest, LockFolder, CreateNext, BootThrows

\* For any files, and any number of slices, writes and crashes.
THEOREM FinishedFolderStaysFinal == Spec => FinishedFolderIsFinal
<1> DEFINE Stays == \A s \in Working :
                       NextState[s] \in folders => \A f \in FilesOf[s] : data'[f] = data[f]
<1>1. ASSUME SackInv, [Next]_sack PROVE Stays
  <2> SUFFICES ASSUME NEW s \in Working, NextState[s] \in folders, NEW f \in FilesOf[s]
               PROVE  data'[f] = data[f]
    OBVIOUS
  <2>1. StateInv
    BY <1>1 DEF SackInv
  <2>2. f \in Files \ FilesInUse
    BY <2>1, FilesOfState DEF Working, FilesOf, Files
  <2> QED
    BY <1>1, <2>2, OthersStay
<1>2. SackInv /\ [Next]_sack => [Stays]_sack
  BY <1>1
<1> QED
  BY <1>2, OnlyFilesInUse, PTL DEF Spec, FinishedFolderIsFinal

-----------------------------------------------------------------------------
(* What the manifest says of the files.                                    *)

IsName(x, f) == x = [part |-> "name", of |-> f]

\* Every field is where a reader that takes three at a time expects it; the
\* last record may be torn.
WellFormed(m) ==
    \A j \in 1 .. Len(m) :
        /\ 3 * j - 2 <= Len(m) => m[3 * j - 2].part \in {"declaration", "commit"}
        /\ 3 * j - 1 <= Len(m) =>
               m[3 * j - 1].part = IF m[3 * j - 2].part = "declaration" THEN "name" ELSE "magic"
        /\ 3 * j <= Len(m) => m[3 * j].part \in {"offset", "slice"}

\* What a slice has opened and what it has declared.
FilesInv ==
    /\ data \in [Files -> Seq(Nat)]
    /\ buffered \in [Files -> Seq(Nat)]
    /\ kept \in [Files -> Seq(Nat)]
    /\ manifest \in Seq(Fields(Files, Nat)) /\ out_ \in Seq(Fields(Files, Nat))
    /\ open_files_ \subseteq Files /\ declared \subseteq open_files_
    /\ \A f \in Files : buffered[f] # << >> => f \in open_files_ \ declared
    /\ pc \notin {"declare", "flush"} => declared = {}
    /\ pc = "flush" => declared = open_files_

\* k records wait for the manifest's stream: a declaration of each declared
\* file with the length it has, and at the end of the slice a commit.
Waiting(k) ==
    /\ Len(out_) = 3 * k
    /\ pc = "flush" => k > 0
    /\ \A j \in 1 .. k :
          IF pc = "flush" /\ j = k
          THEN out_[3 * j - 2].part = "commit" /\ out_[3 * j - 1].part = "magic"
               /\ out_[3 * j].part = "slice"
          ELSE /\ out_[3 * j - 2].part = "declaration"
               /\ out_[3 * j].part = "offset"
               /\ \E f \in declared : IsName(out_[3 * j - 1], f) /\ out_[3 * j].to = Len(data[f])
    /\ \A f \in declared : \E j \in 1 .. k : IsName(out_[3 * j - 1], f)

StreamInv == \E k \in 0 .. Len(out_) : Waiting(k)

IsBeginning(s, t) == Len(s) <= Len(t) /\ \A i \in 1 .. Len(s) : t[i] = s[i]

\* Until a tail is covered, a file has at least what it had at its last commit,
\* and no more when it is not being written.
CommitsInv ==
    ~tailCovered =>
        /\ WellFormed(manifest)
        /\ \A f \in DOMAIN last_committed_lengths(manifest) :
              /\ Len(kept[f]) = last_committed_lengths(manifest)[f]
              /\ IsBeginning(kept[f], data[f])
              /\ current_state_ \in Working /\ f \notin open_files_ => data[f] = kept[f]

KeptInv == FilesInv /\ StreamInv /\ CommitsInv

-----------------------------------------------------------------------------
(* Numbers and joined sequences.                                           *)

\* A nonempty set of numbers has a least one.
LEMMA LeastNumber ==
  ASSUME NEW T \in SUBSET Nat, T # {}
  PROVE  \E n \in T : \A m \in T : n <= m
<1>1. PICK n \in T : \A m \in T : ~ (<< m, n >> \in OpToRel(<, Nat))
  BY NatLessThanWellFounded, WFMin
<1>2. \A m \in T : ~ (m < n)
  BY <1>1 DEF OpToRel
<1> QED
  BY <1>2

\* A bounded one has a greatest.
LEMMA MaxIs ==
  ASSUME NEW n \in Nat, NEW T \in SUBSET (1 .. n), T # {}
  PROVE  Max(T) \in T /\ \A x \in T : x <= Max(T)
<1> DEFINE D == {n - x : x \in T}
<1>1. D \in SUBSET Nat /\ D # {}
  OBVIOUS
<1>2. PICK d \in D : \A e \in D : d <= e
  <2> HIDE DEF D
  <2> QED
    BY <1>1, LeastNumber
<1>3. PICK x \in T : d = n - x
  OBVIOUS
<1>4. ASSUME NEW y \in T PROVE x >= y
  <2>1. n - y \in D /\ x \in 1 .. n /\ y \in 1 .. n
    OBVIOUS
  <2>2. n - x <= n - y
    BY <1>2, <1>3, <2>1
  <2> QED
    BY <2>1, <2>2
<1>5. PICK z : z = CHOOSE u \in T : \A y \in T : u >= y
  OBVIOUS
<1>6. z \in T /\ \A y \in T : z >= y
  BY <1>4, <1>5
<1>7. Max(T) = z
  BY <1>5 DEF Max
<1> QED
  BY <1>6, <1>7

LEMMA PlaceInRecord ==
  ASSUME NEW i \in Nat \ {0}
  PROVE  \E j \in 1 .. i : i = 3 * j - 2 \/ i = 3 * j - 1 \/ i = 3 * j
<1>1. (i + 2) \div 3 \in 1 .. i
  OBVIOUS
<1>2. PICK j \in 1 .. i : j = (i + 2) \div 3
  BY <1>1
<1>3. i = 3 * j - 2 \/ i = 3 * j - 1 \/ i = 3 * j
  BY <1>2
<1> QED
  BY <1>3

\* What t = m \o n has in which place.
Joins(t, m, n) ==
    /\ Len(m) \in Nat /\ Len(n) \in Nat /\ Len(t) = Len(m) + Len(n)
    /\ \A i \in 1 .. Len(m) : t[i] = m[i]
    /\ \A i \in 1 .. Len(n) : t[Len(m) + i] = n[i]

LEMMA JoinIs ==
  ASSUME NEW S, NEW m \in Seq(S), NEW n \in Seq(S)
  PROVE  Joins(m \o n, m, n)
<1>1. PICK a \in Nat : a = Len(m)
  OBVIOUS
<1>2. PICK b \in Nat : b = Len(n)
  OBVIOUS
<1>3. PICK t : t = m \o n
  OBVIOUS
<1>4. /\ Len(t) = a + b
      /\ \A i \in 1 .. a + b : t[i] = IF i <= a THEN m[i] ELSE n[i - a]
  BY <1>1, <1>2, <1>3, ConcatProperties
<1>5. \A i \in 1 .. a : t[i] = m[i]
  BY <1>4
<1>6. ASSUME NEW i \in 1 .. b PROVE t[a + i] = n[i]
  <2>1. a + i \in 1 .. a + b /\ ~(a + i <= a) /\ (a + i) - a = i
    OBVIOUS
  <2> QED
    BY <1>4, <2>1
<1> QED
  BY <1>1, <1>2, <1>3, <1>4, <1>5, <1>6 DEF Joins

-----------------------------------------------------------------------------
(* Well-formed manifests.                                                  *)

LEMMA WellFormedJoin ==
  ASSUME NEW t, NEW m, NEW n, NEW k \in Nat, Joins(t, m, n), Len(m) = 3 * k,
         WellFormed(m), WellFormed(n)
  PROVE  WellFormed(t)
<1> SUFFICES ASSUME NEW j \in 1 .. Len(t)
             PROVE  /\ 3 * j - 2 <= Len(t) => t[3 * j - 2].part \in {"declaration", "commit"}
                    /\ 3 * j - 1 <= Len(t) =>
                           t[3 * j - 1].part = IF t[3 * j - 2].part = "declaration" THEN "name" ELSE "magic"
                    /\ 3 * j <= Len(t) => t[3 * j].part \in {"offset", "slice"}
  BY DEF WellFormed
<1>1. PICK a \in Nat : a = Len(n)
  BY DEF Joins
<1>2. /\ Len(t) = 3 * k + a /\ \A i \in 1 .. 3 * k : t[i] = m[i]
      /\ \A i \in 1 .. a : t[3 * k + i] = n[i]
  BY <1>1 DEF Joins
<1>3. CASE j <= k
  <2>1. /\ 3 * j - 2 \in 1 .. 3 * k /\ 3 * j - 1 \in 1 .. 3 * k /\ 3 * j \in 1 .. 3 * k
        /\ j \in 1 .. 3 * k
    BY <1>2, <1>3
  <2>2. /\ m[3 * j - 2].part \in {"declaration", "commit"}
        /\ m[3 * j - 1].part = IF m[3 * j - 2].part = "declaration" THEN "name" ELSE "magic"
        /\ m[3 * j].part \in {"offset", "slice"}
    BY <2>1 DEF WellFormed
  <2> QED
    BY <1>2, <2>1, <2>2
<1>4. CASE j > k /\ 3 * j - 2 <= Len(t)
  <2>1. PICK q \in Nat : j = k + q
    <3>1. j - k \in Nat /\ j = k + (j - k)
      BY <1>2, <1>4
    <3> QED
      BY <3>1
  <2>2. q \in 1 .. a /\ 3 * q - 2 \in 1 .. a
    BY <1>2, <1>4, <2>1
  <2>3. /\ 3 * j - 2 = 3 * k + (3 * q - 2) /\ 3 * j - 1 = 3 * k + (3 * q - 1)
        /\ 3 * j = 3 * k + 3 * q
        /\ 3 * j - 1 <= Len(t) <=> 3 * q - 1 <= a
        /\ 3 * j <= Len(t) <=> 3 * q <= a
    BY <1>2, <2>1
  <2>4. /\ 3 * q - 2 <= a => n[3 * q - 2].part \in {"declaration", "commit"}
        /\ 3 * q - 1 <= a =>
               n[3 * q - 1].part = IF n[3 * q - 2].part = "declaration" THEN "name" ELSE "magic"
        /\ 3 * q <= a => n[3 * q].part \in {"offset", "slice"}
    BY <1>1, <2>2 DEF WellFormed
  <2>5. t[3 * j - 2] = n[3 * q - 2] /\ 3 * q - 2 <= a
    <3>1. t[3 * k + (3 * q - 2)] = n[3 * q - 2]
      BY <1>2, <2>2
    <3> QED
      BY <2>2, <2>3, <3>1
  <2>6. ASSUME 3 * j - 1 <= Len(t) PROVE t[3 * j - 1] = n[3 * q - 1] /\ 3 * q - 1 <= a
    <3>1. 3 * q - 1 <= a /\ 3 * q - 1 \in 1 .. a
      BY <2>2, <2>3, <2>6
    <3>2. t[3 * k + (3 * q - 1)] = n[3 * q - 1]
      BY <1>2, <3>1
    <3> QED
      BY <2>3, <3>1, <3>2
  <2>7. ASSUME 3 * j <= Len(t) PROVE t[3 * j] = n[3 * q] /\ 3 * q <= a
    <3>1. 3 * q <= a /\ 3 * q \in 1 .. a
      BY <2>2, <2>3, <2>7
    <3>2. t[3 * k + 3 * q] = n[3 * q]
      BY <1>2, <3>1
    <3> QED
      BY <2>3, <3>1, <3>2
  <2> QED
    BY <2>4, <2>5, <2>6, <2>7
<1>5. CASE ~(3 * j - 2 <= Len(t))
  BY <1>2, <1>5
<1> QED
  BY <1>2, <1>3, <1>4, <1>5

\* A beginning of one is one.
LEMMA WellFormedCut ==
  ASSUME NEW t, NEW m, NEW n \in Nat, NEW a \in Nat, Len(m) = a, Len(t) = n, n <= a,
         \A i \in 1 .. n : t[i] = m[i], WellFormed(m)
  PROVE  WellFormed(t)
<1> SUFFICES ASSUME NEW j \in 1 .. n
             PROVE  /\ 3 * j - 2 <= n => t[3 * j - 2].part \in {"declaration", "commit"}
                    /\ 3 * j - 1 <= n =>
                           t[3 * j - 1].part = IF t[3 * j - 2].part = "declaration" THEN "name" ELSE "magic"
                    /\ 3 * j <= n => t[3 * j].part \in {"offset", "slice"}
  BY DEF WellFormed
<1>1. /\ 3 * j - 2 <= n => 3 * j - 2 \in 1 .. n /\ 3 * j - 2 <= a
      /\ 3 * j - 1 <= n => 3 * j - 1 \in 1 .. n /\ 3 * j - 2 \in 1 .. n /\ 3 * j - 1 <= a
      /\ 3 * j <= n => 3 * j \in 1 .. n /\ 3 * j <= a
      /\ j \in 1 .. a
  OBVIOUS
<1>2. /\ 3 * j - 2 <= a => m[3 * j - 2].part \in {"declaration", "commit"}
      /\ 3 * j - 1 <= a => m[3 * j - 1].part = IF m[3 * j - 2].part = "declaration" THEN "name" ELSE "magic"
      /\ 3 * j <= a => m[3 * j].part \in {"offset", "slice"}
  BY <1>1 DEF WellFormed
<1> QED
  BY <1>1, <1>2

\* What ends with a commit ends with a record.
LEMMA EndsWithRecord ==
  ASSUME NEW m, Len(m) \in Nat, m = << >> <=> Len(m) = 0, WellFormed(m), EndsWithCommit(m)
  PROVE  \E k \in Nat : Len(m) = 3 * k /\ (k > 0 => m[3 * k - 2].part = "commit")
<1>1. CASE m = << >>
  BY <1>1
<1>2. CASE m # << >>
  <2>1. Len(m) >= 3 /\ m[Len(m) - 2].part = "commit"
    BY <1>2 DEF EndsWithCommit
  <2>2. PICK a \in Nat : a = Len(m)
    OBVIOUS
  <2>3. a - 2 \in Nat \ {0} /\ m[a - 2].part = "commit"
    BY <2>1, <2>2
  <2>4. PICK j \in 1 .. a - 2 : a - 2 = 3 * j - 2 \/ a - 2 = 3 * j - 1 \/ a - 2 = 3 * j
    BY <2>3, PlaceInRecord
  <2>5. j \in 1 .. a /\ 3 * j - 2 <= a
    BY <2>3, <2>4
  <2>6. a - 2 # 3 * j - 1
    <3> SUFFICES ASSUME a - 2 = 3 * j - 1 PROVE FALSE
      OBVIOUS
    <3>1. 3 * j - 1 <= a
      BY <2>3
    <3>2. m[3 * j - 1].part \in {"name", "magic"}
      BY <2>2, <2>5, <3>1 DEF WellFormed
    <3> QED
      BY <2>3, <3>2
  <2>7. a - 2 # 3 * j
    <3> SUFFICES ASSUME a - 2 = 3 * j PROVE FALSE
      OBVIOUS
    <3>1. 3 * j <= a
      BY <2>3
    <3>2. m[3 * j].part \in {"offset", "slice"}
      BY <2>2, <2>5, <3>1 DEF WellFormed
    <3> QED
      BY <2>3, <3>2
  <2>8. a = 3 * j /\ a - 2 = 3 * j - 2 /\ j \in Nat
    BY <2>3, <2>4, <2>6, <2>7
  <2> QED
    BY <2>2, <2>3, <2>8
<1> QED
  BY <1>1, <1>2

-----------------------------------------------------------------------------
(* What the reader takes from a longer manifest.                           *)

\* Record j of m is a declaration of f; record c is a commit.
Declares(m, j, f) ==
    3 * j <= Len(m) /\ m[3 * j - 2].part = "declaration" /\ IsName(m[3 * j - 1], f)
Commits(m, c) ==
    3 * c - 1 <= Len(m) /\ m[3 * c - 2].part = "commit" /\ m[3 * c - 1].part = "magic"

\* The reader comes as far as record c.
Reaches(m, c) ==
    c \in 1 .. Len(m) /\ \A i \in 1 .. c : 3 * i - 2 <= Len(m) /\ m[3 * i - 2].part \in {"declaration", "commit"}

LEMMA ValidatedIs ==
  ASSUME NEW m, Len(m) \in Nat, NEW f, NEW j
  PROVE  j \in Validated(m, f) <=>
            Reaches(m, j) /\ Declares(m, j, f) /\ \E c \in Nat : c > j /\ Reaches(m, c) /\ Commits(m, c)
<1>1. \A c : c \in ReadableRecords(m) <=> Reaches(m, c)
  BY DEF ReadableRecords, Reaches, Known, TypeAt
<1>2. \A c \in 1 .. Len(m) : /\ IsCommit(m, c) <=> Commits(m, c)
                             /\ IsDeclarationOf(m, c, f) <=> Declares(m, c, f)
  <2> SUFFICES ASSUME NEW c \in 1 .. Len(m)
               PROVE  /\ IsCommit(m, c) <=> Commits(m, c)
                      /\ IsDeclarationOf(m, c, f) <=> Declares(m, c, f)
    OBVIOUS
  <2>1. 3 * c - 2 + 1 = 3 * c - 1 /\ 3 * c - 2 + 2 = 3 * c
    OBVIOUS
  <2> QED
    BY <2>1 DEF IsCommit, Commits, IsDeclarationOf, Declares, IsName, TypeAt
<1>3. \A c : Reaches(m, c) => c \in 1 .. Len(m) /\ c \in Nat
  BY DEF Reaches
<1> QED
  BY <1>1, <1>2, <1>3 DEF Validated

\* A well-formed manifest is read to its end.
LEMMA AllReached ==
  ASSUME NEW m, NEW a \in Nat, Len(m) = a, WellFormed(m), NEW c \in Nat \ {0}, 3 * c - 2 <= a
  PROVE  Reaches(m, c)
<1>1. \A i \in 1 .. c : i \in 1 .. a /\ 3 * i - 2 <= a
  OBVIOUS
<1>2. c \in 1 .. a
  OBVIOUS
<1> QED
  BY <1>1, <1>2 DEF Reaches, WellFormed

\* What follows without a commit changes nothing.
LEMMA NothingCommitted ==
  ASSUME NEW t, NEW m, NEW n, Joins(t, m, n), \A i \in 1 .. Len(n) : n[i].part # "magic"
  PROVE  last_committed_lengths(t) = last_committed_lengths(m)
<1>1. PICK a \in Nat : a = Len(m)
  BY DEF Joins
<1>2. PICK b \in Nat : b = Len(n)
  BY DEF Joins
<1>3. /\ Len(t) = a + b /\ \A i \in 1 .. a : t[i] = m[i]
      /\ \A i \in 1 .. b : t[a + i] = n[i]
  BY <1>1, <1>2 DEF Joins
<1>4. ASSUME NEW c \in Nat \ {0}, 3 * c - 1 <= a + b, t[3 * c - 1].part = "magic"
      PROVE  3 * c - 1 <= a
  <2> SUFFICES ASSUME ~(3 * c - 1 <= a) PROVE FALSE
    OBVIOUS
  <2>1. PICK i \in 1 .. b : 3 * c - 1 = a + i
    <3>1. (3 * c - 1) - a \in 1 .. b /\ 3 * c - 1 = a + ((3 * c - 1) - a)
      BY <1>4
    <3> QED
      BY <3>1
  <2> QED
    BY <1>2, <1>3, <1>4, <2>1
<1>5. ASSUME NEW c \in Nat \ {0}, 3 * c - 2 <= a
      PROVE  Reaches(t, c) <=> Reaches(m, c)
  <2>1. \A i \in 1 .. c : 3 * i - 2 \in 1 .. a /\ 3 * i - 2 <= a + b /\ t[3 * i - 2] = m[3 * i - 2]
    BY <1>3, <1>5
  <2>2. c \in 1 .. a /\ c \in 1 .. a + b
    BY <1>5
  <2> QED
    BY <1>1, <1>3, <2>1, <2>2 DEF Reaches
<1>6. ASSUME NEW c \in Nat \ {0}, 3 * c - 1 <= a PROVE Commits(t, c) <=> Commits(m, c)
  <2>1. 3 * c - 2 \in 1 .. a /\ 3 * c - 1 \in 1 .. a /\ 3 * c - 1 <= a + b
    BY <1>6
  <2> QED
    BY <1>1, <1>3, <2>1 DEF Commits
<1>7. ASSUME NEW j \in Nat \ {0}, 3 * j <= a, NEW f
      PROVE  (Declares(t, j, f) <=> Declares(m, j, f)) /\ t[3 * j] = m[3 * j]
  <2>1. 3 * j - 2 \in 1 .. a /\ 3 * j - 1 \in 1 .. a /\ 3 * j \in 1 .. a /\ 3 * j <= a + b
    BY <1>7
  <2> QED
    BY <1>1, <1>3, <2>1 DEF Declares
<1>8. ASSUME NEW f, NEW j
      PROVE  /\ j \in Validated(t, f) <=> j \in Validated(m, f)
             /\ j \in Validated(m, f) => j \in Nat \ {0} /\ 3 * j <= a
  <2>1. ASSUME j \in Validated(t, f)
        PROVE  j \in Validated(m, f)
    <3>1. Reaches(t, j) /\ Declares(t, j, f)
      BY <1>3, <2>1, ValidatedIs
    <3>2. PICK c \in Nat : c > j /\ Reaches(t, c) /\ Commits(t, c)
      BY <1>3, <2>1, ValidatedIs
    <3>3. j \in Nat \ {0} /\ c \in Nat \ {0}
      BY <1>3, <3>1, <3>2 DEF Reaches
    <3>4. 3 * c - 1 <= a
      BY <1>3, <1>4, <3>2, <3>3 DEF Commits
    <3>5. 3 * c - 2 <= a /\ 3 * j <= a /\ 3 * j - 2 <= a
      BY <3>2, <3>3, <3>4
    <3> QED
      BY <1>1, <1>5, <1>6, <1>7, <3>1, <3>2, <3>3, <3>4, <3>5, ValidatedIs
  <2>2. ASSUME j \in Validated(m, f)
        PROVE  j \in Validated(t, f) /\ j \in Nat \ {0} /\ 3 * j <= a
    <3>1. Reaches(m, j) /\ Declares(m, j, f)
      BY <1>1, <2>2, ValidatedIs
    <3>2. PICK c \in Nat : c > j /\ Reaches(m, c) /\ Commits(m, c)
      BY <1>1, <2>2, ValidatedIs
    <3>3. j \in Nat \ {0} /\ c \in Nat \ {0} /\ 3 * c - 1 <= a /\ 3 * j <= a
      BY <1>1, <3>1, <3>2 DEF Reaches, Commits, Declares
    <3>4. 3 * c - 2 <= a /\ 3 * j - 2 <= a
      BY <3>3
    <3> QED
      BY <1>3, <1>5, <1>6, <1>7, <3>1, <3>2, <3>3, <3>4, ValidatedIs
  <2> QED
    BY <2>1, <2>2
<1>9. ASSUME NEW f PROVE Validated(t, f) = Validated(m, f)
  <2>1. Validated(t, f) \subseteq Validated(m, f) /\ Validated(m, f) \subseteq Validated(t, f)
    BY <1>8
  <2>2. \A A, B : A \subseteq B /\ B \subseteq A => A = B
    OBVIOUS
  <2> QED
    BY <2>1, <2>2
<1>10. ASSUME NEW f, Validated(m, f) # {}
       PROVE  t[3 * Max(Validated(m, f))] = m[3 * Max(Validated(m, f))]
  <2>1. Validated(m, f) \in SUBSET (1 .. a)
    BY <1>1 DEF Validated, ReadableRecords
  <2>2. Max(Validated(m, f)) \in Validated(m, f)
    BY <1>10, <2>1, MaxIs
  <2> QED
    BY <1>7, <1>8, <2>2
<1>11. \A f : Validated(m, f) # {} =>
                 read_offset(t[TypeAt(t, Max(Validated(t, f))) + 2]) =
                     read_offset(m[TypeAt(m, Max(Validated(m, f))) + 2])
  <2> SUFFICES ASSUME NEW f, Validated(m, f) # {}
               PROVE  read_offset(t[TypeAt(t, Max(Validated(m, f))) + 2]) =
                          read_offset(m[TypeAt(m, Max(Validated(m, f))) + 2])
    BY <1>9
  <2>1. PICK v : v = Max(Validated(m, f))
    OBVIOUS
  <2>2. v \in Nat
    <3>1. Validated(m, f) \in SUBSET (1 .. a)
      BY <1>1 DEF Validated, ReadableRecords
    <3> QED
      BY <2>1, <3>1, MaxIs
  <2>3. 3 * v - 2 + 2 = 3 * v
    BY <2>2
  <2> QED
    BY <1>10, <2>1, <2>3 DEF TypeAt
<1>12. {g \in Files : Validated(t, g) # {}} = {g \in Files : Validated(m, g) # {}}
  BY <1>9
<1>13. \A g \in {h \in Files : Validated(m, h) # {}} :
          read_offset(t[TypeAt(t, Max(Validated(t, g))) + 2]) =
              read_offset(m[TypeAt(m, Max(Validated(m, g))) + 2])
  BY <1>11
<1>14. last_committed_lengths(t) =
          [g \in {h \in Files : Validated(m, h) # {}} |->
              read_offset(m[TypeAt(m, Max(Validated(m, g))) + 2])]
  BY ONLY <1>12, <1>13 DEF last_committed_lengths
<1> QED
  BY <1>14 DEF last_committed_lengths

\* t is m, which k whole records make up, continued by n, the q - 1
\* declarations of a slice and its commit.
SliceAppended(t, m, n, k, q) ==
    /\ Joins(t, m, n) /\ WellFormed(m) /\ WellFormed(n)
    /\ Len(m) = 3 * k /\ (k > 0 => m[3 * k - 2].part = "commit")
    /\ 3 * q - 1 <= Len(n) /\ Len(n) <= 3 * q
    /\ n[3 * q - 2].part = "commit"
    /\ \A j \in 1 .. q - 1 : n[3 * j - 2].part = "declaration"

DeclaredIn(n, q, f) == \E j \in 1 .. q - 1 : IsName(n[3 * j - 1], f)

DeclaredAs(n, q, f, size) ==
    \A j \in 1 .. q - 1 : IsName(n[3 * j - 1], f) => read_offset(n[3 * j]) = size

\* A commit takes over what its slice has declared, and nothing else.
LEMMA SliceCommitted ==
  ASSUME NEW t, NEW m, NEW n, NEW k \in Nat, NEW q \in Nat \ {0}, SliceAppended(t, m, n, k, q),
         NEW f
  PROVE  /\ \A j \in 1 .. q - 1 : IsName(n[3 * j - 1], f) => k + j \in Validated(t, f)
         /\ \A v \in Validated(t, f) :
               \/ v \in Validated(m, f) /\ v <= k /\ t[3 * v] = m[3 * v]
               \/ \E j \in 1 .. q - 1 : /\ v = k + j /\ IsName(n[3 * j - 1], f)
                                        /\ t[3 * v] = n[3 * j]
         /\ Validated(m, f) \subseteq Validated(t, f)
<1>1. PICK b \in Nat : b = Len(n)
  BY DEF SliceAppended, Joins
<1>2. /\ Len(t) = 3 * k + b /\ \A i \in 1 .. 3 * k : t[i] = m[i]
      /\ \A i \in 1 .. b : t[3 * k + i] = n[i]
      /\ Len(m) = 3 * k /\ 3 * q - 1 <= b /\ b <= 3 * q
      /\ k > 0 => m[3 * k - 2].part = "commit"
      /\ n[3 * q - 2].part = "commit"
      /\ \A j \in 1 .. q - 1 : n[3 * j - 2].part = "declaration"
      /\ WellFormed(m) /\ WellFormed(n)
  BY <1>1 DEF SliceAppended, Joins
<1>3. WellFormed(t)
  BY WellFormedJoin DEF SliceAppended
<1>4. PICK a \in Nat : a = 3 * k + b
  OBVIOUS
<1>5. \A c \in Nat \ {0} : /\ 3 * c - 2 <= a => Reaches(t, c)
                           /\ 3 * c - 2 <= 3 * k => Reaches(m, c)
  BY <1>2, <1>3, <1>4, AllReached
\* Places of the old and of the new records.
<1>6. ASSUME NEW c \in Nat \ {0}, c <= k
      PROVE  t[3 * c - 2] = m[3 * c - 2] /\ t[3 * c - 1] = m[3 * c - 1] /\ t[3 * c] = m[3 * c]
  <2>1. 3 * c - 2 \in 1 .. 3 * k /\ 3 * c - 1 \in 1 .. 3 * k /\ 3 * c \in 1 .. 3 * k
    BY <1>6
  <2> QED
    BY <1>2, <2>1
<1>7. ASSUME NEW j \in 1 .. q - 1
      PROVE  /\ t[3 * (k + j) - 2] = n[3 * j - 2] /\ t[3 * (k + j) - 1] = n[3 * j - 1]
             /\ t[3 * (k + j)] = n[3 * j]
             /\ k + j \in Nat \ {0} /\ 3 * (k + j) <= a /\ k + j < k + q
  <2>1. 3 * j - 2 \in 1 .. b /\ 3 * j - 1 \in 1 .. b /\ 3 * j \in 1 .. b
    BY <1>2
  <2>2. /\ 3 * (k + j) - 2 = 3 * k + (3 * j - 2) /\ 3 * (k + j) - 1 = 3 * k + (3 * j - 1)
        /\ 3 * (k + j) = 3 * k + 3 * j
    OBVIOUS
  <2>3. k + j \in Nat \ {0} /\ 3 * (k + j) <= a /\ k + j < k + q
    BY <1>4, <2>1
  <2> QED
    BY <1>2, <2>1, <2>2, <2>3
<1>8. /\ k + q \in Nat \ {0} /\ 3 * (k + q) - 1 <= a
      /\ t[3 * (k + q) - 2].part = "commit" /\ t[3 * (k + q) - 1].part = "magic"
  <2>1. 3 * q - 2 \in 1 .. b /\ 3 * q - 1 \in 1 .. b /\ q \in 1 .. b
    BY <1>2
  <2>2. /\ 3 * (k + q) - 2 = 3 * k + (3 * q - 2) /\ 3 * (k + q) - 1 = 3 * k + (3 * q - 1)
    OBVIOUS
  <2>3. k + q \in Nat \ {0} /\ 3 * (k + q) - 1 <= a
    <3>1. 3 * q - 1 <= b /\ a = 3 * k + b
      BY <1>2, <1>4
    <3> QED
      BY <3>1
  <2>4. n[3 * q - 1].part = "magic"
    BY <1>1, <1>2, <2>1 DEF WellFormed
  <2> QED
    BY <1>2, <2>1, <2>2, <2>3, <2>4
<1>9. Reaches(t, k + q) /\ Commits(t, k + q)
  <2>1. 3 * (k + q) - 2 <= a
    BY <1>8
  <2> QED
    BY <1>2, <1>4, <1>5, <1>8, <2>1 DEF Commits
<1>10. ASSUME NEW j \in 1 .. q - 1, IsName(n[3 * j - 1], f)
       PROVE  k + j \in Validated(t, f)
  <2>1. Reaches(t, k + j)
    <3>1. k + j \in Nat \ {0} /\ 3 * (k + j) - 2 <= a
      BY <1>7
    <3> QED
      BY <1>5, <3>1
  <2>2. Declares(t, k + j, f)
    BY <1>2, <1>4, <1>7, <1>10 DEF Declares
  <2>3. k + q > k + j /\ k + q \in Nat
    BY <1>7, <1>8
  <2> QED
    BY <1>2, <1>4, <1>9, <2>1, <2>2, <2>3, ValidatedIs
<1>11. ASSUME NEW v \in Validated(m, f)
       PROVE  v \in Validated(t, f) /\ v \in Nat \ {0} /\ v <= k
  <2>1. Reaches(m, v) /\ Declares(m, v, f)
    <3>1. Len(m) \in Nat
      BY DEF SliceAppended, Joins
    <3> QED
      BY <3>1, ValidatedIs
  <2>2. v \in Nat \ {0} /\ 3 * v <= 3 * k
    BY <1>2, <2>1 DEF Reaches, Declares
  <2>3. v <= k /\ 3 * v <= a /\ 3 * v - 2 <= a
    BY <1>4, <2>2
  <2>4. Reaches(t, v) /\ Declares(t, v, f)
    BY <1>2, <1>4, <1>5, <1>6, <2>1, <2>2, <2>3 DEF Declares
  <2>5. k + q > v /\ k + q \in Nat
    BY <1>8, <2>2, <2>3
  <2> QED
    BY <1>2, <1>4, <1>9, <2>2, <2>3, <2>4, <2>5, ValidatedIs
<1>12. ASSUME NEW v \in Validated(t, f)
       PROVE  \/ v \in Validated(m, f) /\ v <= k /\ t[3 * v] = m[3 * v]
              \/ \E j \in 1 .. q - 1 : v = k + j /\ IsName(n[3 * j - 1], f) /\ t[3 * v] = n[3 * j]
  <2>1. Reaches(t, v) /\ Declares(t, v, f)
    BY <1>2, <1>4, ValidatedIs
  <2>2. v \in Nat \ {0} /\ 3 * v <= a /\ t[3 * v - 2].part = "declaration" /\ IsName(t[3 * v - 1], f)
    BY <1>2, <1>4, <2>1 DEF Reaches, Declares
  <2>3. CASE v <= k
    <3>1. v # k
      <4> SUFFICES ASSUME v = k PROVE FALSE
        OBVIOUS
      <4>1. t[3 * v - 2] = m[3 * k - 2] /\ k > 0
        BY <1>6, <2>2, <2>3
      <4> QED
        BY <1>2, <2>2, <4>1
    <3>2. k > v /\ 3 * v <= 3 * k /\ 3 * v - 2 <= 3 * k /\ k \in Nat \ {0}
      BY <2>2, <2>3, <3>1
    <3>3. Reaches(m, v) /\ Declares(m, v, f)
      BY <1>2, <1>5, <1>6, <2>2, <2>3, <3>2 DEF Declares
    <3>4. Reaches(m, k) /\ Commits(m, k)
      <4>1. 3 * k - 2 <= 3 * k /\ 3 * k - 1 <= 3 * k /\ k \in 1 .. 3 * k
        BY <3>2
      <4>2. m[3 * k - 1].part = IF m[3 * k - 2].part = "declaration" THEN "name" ELSE "magic"
        BY <1>2, <4>1 DEF WellFormed
      <4>3. m[3 * k - 1].part = "magic"
        BY <1>2, <3>2, <4>2
      <4> QED
        BY <1>2, <1>5, <3>2, <4>1, <4>3 DEF Commits
    <3>5. v \in Validated(m, f)
      <4>1. Len(m) \in Nat
        BY <1>2
      <4> QED
        BY <3>2, <3>3, <3>4, <4>1, ValidatedIs
    <3> QED
      BY <1>6, <2>2, <2>3, <3>5
  <2>4. CASE v > k
    <3>1. PICK j \in Nat \ {0} : v = k + j
      <4>1. v - k \in Nat \ {0} /\ v = k + (v - k)
        BY <2>2, <2>4
      <4> QED
        BY <4>1
    <3>2. j <= q
      BY <1>2, <1>4, <2>2, <3>1
    <3>3. j # q
      BY <1>8, <2>2, <3>1
    <3>4. j \in 1 .. q - 1
      BY <3>2, <3>3
    <3> QED
      BY <1>7, <2>2, <3>1, <3>4
  <2> QED
    BY <2>2, <2>3, <2>4
<1> QED
  BY <1>10, <1>11, <1>12

\* So a file is as long as its slice says, or as it was.
LEMMA LengthsCommitted ==
  ASSUME NEW t, NEW m, NEW n, NEW k \in Nat, NEW q \in Nat \ {0}, SliceAppended(t, m, n, k, q),
         NEW f \in Files, NEW size, DeclaredAs(n, q, f, size)
  PROVE  /\ DeclaredIn(n, q, f) =>
               f \in DOMAIN last_committed_lengths(t) /\ last_committed_lengths(t)[f] = size
         /\ ~DeclaredIn(n, q, f) =>
               /\ f \in DOMAIN last_committed_lengths(t) <=> f \in DOMAIN last_committed_lengths(m)
               /\ f \in DOMAIN last_committed_lengths(m) =>
                      last_committed_lengths(t)[f] = last_committed_lengths(m)[f]
<1>1. /\ \A j \in 1 .. q - 1 : IsName(n[3 * j - 1], f) => k + j \in Validated(t, f)
      /\ \A v \in Validated(t, f) :
            \/ v \in Validated(m, f) /\ v <= k /\ t[3 * v] = m[3 * v]
            \/ \E j \in 1 .. q - 1 : v = k + j /\ IsName(n[3 * j - 1], f) /\ t[3 * v] = n[3 * j]
      /\ Validated(m, f) \subseteq Validated(t, f)
  BY SliceCommitted
<1>2. PICK a \in Nat : a = Len(t)
  BY DEF SliceAppended, Joins
<1>3. Validated(t, f) \in SUBSET (1 .. a)
  BY <1>2 DEF Validated, ReadableRecords
<1>4. Validated(t, f) # {} =>
          /\ Max(Validated(t, f)) \in Validated(t, f) /\ Max(Validated(t, f)) \in Nat
          /\ \A x \in Validated(t, f) : x <= Max(Validated(t, f))
  <2>1. PICK V : V = Validated(t, f)
    OBVIOUS
  <2>2. V \in SUBSET (1 .. a)
    BY <1>3, <2>1
  <2>3. V # {} => Max(V) \in V /\ \A x \in V : x <= Max(V)
    BY <2>2, MaxIs
  <2>4. \A x \in V : x \in Nat
    BY <2>2
  <2> QED
    BY <2>1, <2>3, <2>4
<1>5. \A s : /\ f \in DOMAIN last_committed_lengths(s) <=> Validated(s, f) # {}
             /\ f \in DOMAIN last_committed_lengths(s) =>
                    last_committed_lengths(s)[f] = read_offset(s[TypeAt(s, Max(Validated(s, f))) + 2])
  BY DEF last_committed_lengths
<1>6. \A s : \A v \in Nat : TypeAt(s, v) + 2 = 3 * v
  BY DEF TypeAt
<1>7. CASE DeclaredIn(n, q, f)
  <2>1. PICK j \in 1 .. q - 1 : IsName(n[3 * j - 1], f)
    BY <1>7 DEF DeclaredIn
  <2>2. k + j \in Validated(t, f) /\ Validated(t, f) # {}
    BY <1>1, <2>1
  <2>3. PICK v \in Validated(t, f) : v = Max(Validated(t, f)) /\ k + j <= v /\ v \in Nat
    BY <1>4, <2>2
  <2>4. ~(v <= k)
    BY <2>3
  <2>5. PICK i \in 1 .. q - 1 : IsName(n[3 * i - 1], f) /\ t[3 * v] = n[3 * i]
    BY <1>1, <2>3, <2>4
  <2>6. read_offset(t[3 * v]) = size
    BY <2>5 DEF DeclaredAs
  <2>7. last_committed_lengths(t)[f] = read_offset(t[3 * v])
    BY <1>5, <1>6, <2>2, <2>3
  <2> QED
    BY <1>5, <1>7, <2>2, <2>6, <2>7
<1>8. CASE ~DeclaredIn(n, q, f)
  <2>1. \A v \in Validated(t, f) : v \in Validated(m, f) /\ t[3 * v] = m[3 * v]
    BY <1>1, <1>8 DEF DeclaredIn
  <2>2. Validated(t, f) = Validated(m, f)
    <3>1. Validated(t, f) \subseteq Validated(m, f) /\ Validated(m, f) \subseteq Validated(t, f)
      BY <1>1, <2>1
    <3>2. \A A, B : A \subseteq B /\ B \subseteq A => A = B
      OBVIOUS
    <3> QED
      BY <3>1, <3>2
  <2>3. ASSUME Validated(m, f) # {}
        PROVE  last_committed_lengths(t)[f] = last_committed_lengths(m)[f]
    <3>1. PICK v \in Validated(t, f) : v = Max(Validated(t, f)) /\ v \in Nat
      BY <1>4, <2>2, <2>3
    <3>2. last_committed_lengths(t)[f] = read_offset(t[3 * v])
      BY <1>5, <1>6, <2>2, <2>3, <3>1
    <3>3. last_committed_lengths(m)[f] = read_offset(m[3 * v])
      BY <1>5, <1>6, <2>2, <2>3, <3>1
    <3> QED
      BY <2>1, <3>1, <3>2, <3>3
  <2> QED
    BY <1>5, <1>8, <2>2, <2>3
<1> QED
  BY <1>7, <1>8

-----------------------------------------------------------------------------
(* The files and what a slice has written.                                 *)

LEMMA FieldFacts ==
  /\ \A f \in Files : \A n \in Nat : Declaration(f, n) \in Seq(Fields(Files, Nat))
  /\ \A n \in Nat : Commit(n) \in Seq(Fields(Files, Nat))
  /\ \A x \in Fields(Files, Nat) : read_offset(x) \in Nat
<1>1. \A f \in Files : \A n \in Nat : Declaration(f, n) \in Seq(Fields(Files, Nat))
  BY DEF Declaration, Fields
<1>2. \A n \in Nat : Commit(n) \in Seq(Fields(Files, Nat))
  BY DEF Commit, Fields
<1>3. MaxSlices * MaxWrites + 1 \in Nat
  BY SackAssumption
<1>4. ASSUME NEW x \in Fields(Files, Nat), x.part = "offset" PROVE x.to \in Nat
  BY <1>4 DEF Fields
<1> QED
  BY <1>1, <1>2, <1>3, <1>4 DEF read_offset

\* A length that the manifest has is a number.
LEMMA LengthsAreNumbers ==
  ASSUME manifest \in Seq(Fields(Files, Nat)), NEW f \in DOMAIN last_committed_lengths(manifest)
  PROVE  f \in Files /\ last_committed_lengths(manifest)[f] \in Nat
<1>1. PICK V : V = Validated(manifest, f)
  OBVIOUS
<1>2. PICK a \in Nat : a = Len(manifest)
  OBVIOUS
<1>3. V \in SUBSET (1 .. a) /\ V # {} /\ f \in Files
  BY <1>1, <1>2 DEF last_committed_lengths, Validated, ReadableRecords
<1>4. PICK v : v = Max(V)
  OBVIOUS
<1>5. v \in V
  BY <1>3, <1>4, MaxIs
<1>6. v \in 1 .. a /\ TypeAt(manifest, v) + 2 <= Len(manifest)
  BY <1>1, <1>3, <1>5 DEF Validated, IsDeclarationOf
<1>7. TypeAt(manifest, v) + 2 \in 1 .. a
  BY <1>2, <1>6 DEF TypeAt
<1>8. manifest[TypeAt(manifest, v) + 2] \in Fields(Files, Nat)
  BY <1>2, <1>7
<1>9. last_committed_lengths(manifest)[f] = read_offset(manifest[TypeAt(manifest, v) + 2])
  BY <1>1, <1>4 DEF last_committed_lengths
<1> QED
  BY <1>3, <1>8, <1>9, FieldFacts

LEMMA NoLengths == DOMAIN last_committed_lengths(<< >>) = {} /\ WellFormed(<< >>)
<1>1. \A f : Validated(<< >>, f) = {}
  BY DEF Validated, ReadableRecords
<1> QED
  BY <1>1 DEF last_committed_lengths, WellFormed

LEMMA InitKeptInv == Init => KeptInv
<1> SUFFICES ASSUME Init PROVE KeptInv
  OBVIOUS
<1>1. FilesInv
  BY DEF Init, FilesInv
<1>2. Waiting(0)
  BY DEF Init, Waiting
<1>3. CommitsInv
  BY NoLengths DEF Init, CommitsInv
<1> QED
  BY <1>1, <1>2, <1>3 DEF KeptInv, StreamInv, Init

LEMMA FilesStep ==
  ASSUME SackInv, FilesInv, [Next]_sack
  PROVE  FilesInv'
<1>0. /\ StateInv /\ SliceInv
      /\ data \in [Files -> Seq(Nat)] /\ buffered \in [Files -> Seq(Nat)] /\ kept \in [Files -> Seq(Nat)]
      /\ manifest \in Seq(Fields(Files, Nat)) /\ out_ \in Seq(Fields(Files, Nat))
      /\ slice_id_ \in Nat
  BY DEF SackInv, FilesInv, StateInv
<1>1. CASE BeginSlice
  BY <1>0, <1>1 DEF BeginSlice, FilesInv
<1>2. ASSUME NEW filenames \in SUBSET Files, microstep(filenames)
      PROVE  FilesInv'
  <2>1. buffered' \in [Files -> Seq(Nat)]
    <3>1. ASSUME NEW f \in Files PROVE Append(buffered[f], slice_id_) \in Seq(Nat)
      BY <1>0
    <3> QED
      BY <1>0, <1>2, <3>1 DEF microstep
  <2>2. declared = {}
    BY <1>2 DEF microstep, FilesInv
  <2>3. \A f \in Files : buffered'[f] # << >> => f \in open_files_'
    BY <1>2 DEF microstep, FilesInv
  <2> QED
    BY <1>0, <1>2, <2>1, <2>2, <2>3 DEF microstep, FilesInv
<1>3. ASSUME NEW f \in Files, record_microstep_declaration(f)
      PROVE  FilesInv'
  <2>1. /\ data' = [data EXCEPT ![f] = data[f] \o buffered[f]]
        /\ data[f] \o buffered[f] \in Seq(Nat)
    BY <1>0, <1>3 DEF record_microstep_declaration, Flushed
  <2>2. data' \in [Files -> Seq(Nat)]
    BY <1>0, <2>1
  <2>3. /\ buffered' = [buffered EXCEPT ![f] = << >>]
        /\ declared' = declared \cup {f} /\ f \in open_files_ /\ f \notin declared
        /\ UNCHANGED << open_files_, kept, manifest >> /\ pc' = "declare"
        /\ out_' = out_ \o Declaration(f, Len(data[f]) + Len(buffered[f]))
    BY <1>3 DEF record_microstep_declaration
  <2>4. buffered' \in [Files -> Seq(Nat)] /\ buffered'[f] = << >>
        /\ \A g \in Files \ {f} : buffered'[g] = buffered[g]
    BY <1>0, <2>3
  <2>5. Len(data[f]) + Len(buffered[f]) \in Nat
    BY <1>0
  <2>6. Declaration(f, Len(data[f]) + Len(buffered[f])) \in Seq(Fields(Files, Nat))
    BY <2>5, FieldFacts
  <2>7. out_' \in Seq(Fields(Files, Nat))
    BY <1>0, <2>3, <2>6
  <2> QED
    BY <1>0, <2>2, <2>3, <2>4, <2>7 DEF FilesInv
<1>4. CASE commit_work_slice
  <2>1. out_' \in Seq(Fields(Files, Nat))
    <3>1. Commit(slice_id_) \in Seq(Fields(Files, Nat))
      BY <1>0, FieldFacts
    <3> QED
      BY <1>0, <1>4, <3>1 DEF commit_work_slice
  <2> QED
    BY <1>0, <1>4, <2>1 DEF commit_work_slice, FilesInv
<1>5. CASE flush_manifest
  <2>1. kept' \in [Files -> Seq(Nat)] /\ manifest' \in Seq(Fields(Files, Nat)) /\ out_' = << >>
    BY <1>0, <1>5 DEF flush_manifest, Appended
  <2>2. \A f \in Files : buffered[f] = << >>
    BY <1>5 DEF flush_manifest, FilesInv
  <2> QED
    BY <1>0, <1>5, <2>1, <2>2 DEF flush_manifest, FilesInv
<1>6. CASE RemoveManifest \/ LockFolder \/ CreateNext \/ BootThrows
  <2>1. /\ UNCHANGED << data, buffered, kept, open_files_, declared, out_ >>
        /\ manifest' \in {manifest, << >>}
        /\ pc' = pc \/ (pc \notin {"declare", "flush"} /\ pc' \notin {"declare", "flush"})
    BY <1>6 DEF RemoveManifest, LockFolder, CreateNext, BootThrows
  <2>2. manifest' \in Seq(Fields(Files, Nat))
    <3>1. << >> \in Seq(Fields(Files, Nat))
      OBVIOUS
    <3> QED
      BY <1>0, <2>1, <3>1, Zenon
  <2>3. /\ pc' \notin {"declare", "flush"} => declared = {}
        /\ pc' = "flush" => declared = open_files_
    BY <2>1 DEF FilesInv
  <2> QED
    BY <1>0, <2>1, <2>2, <2>3 DEF FilesInv
<1>7. CASE End
  <2>1. PICK n \in 0 .. Len(out_) : Appended(SubSeq(out_, 1, n))
    BY <1>7 DEF End
  <2>2. kept' \in [Files -> Seq(Nat)] /\ manifest' \in Seq(Fields(Files, Nat)) /\ out_' = << >>
    <3>1. SubSeq(out_, 1, n) \in Seq(Fields(Files, Nat))
      BY <1>0
    <3> QED
      BY <1>0, <2>1, <3>1 DEF Appended
  <2>3. PICK reached \in [open_files_ -> 0 .. MaxWrites] :
           /\ \A f \in open_files_ : reached[f] <= Len(buffered[f])
           /\ data' = [f \in Files |-> IF f \in open_files_
                                       THEN data[f] \o SubSeq(buffered[f], 1, reached[f])
                                       ELSE data[f]]
    BY <1>7 DEF End
  <2>4. ASSUME NEW f \in open_files_ PROVE data[f] \o SubSeq(buffered[f], 1, reached[f]) \in Seq(Nat)
    <3>1. f \in Files /\ reached[f] \in Nat /\ reached[f] <= Len(buffered[f])
      BY <2>3, SackAssumption DEF FilesInv
    <3>2. SubSeq(buffered[f], 1, reached[f]) \in Seq(Nat)
      BY <1>0, <3>1
    <3> QED
      BY <1>0, <3>1, <3>2
  <2>5. data' \in [Files -> Seq(Nat)]
    BY <1>0, <2>3, <2>4
  <2>6. /\ buffered' \in [Files -> Seq(Nat)] /\ \A f \in Files : buffered'[f] = << >>
        /\ open_files_' = {} /\ declared' = {} /\ pc' = "idle"
    BY <1>7 DEF End
  <2> QED
    BY <2>2, <2>5, <2>6 DEF FilesInv
<1>8. CASE boot_and_recover
  <2>1. ASSUME NEW f \in DOMAIN last_committed_lengths(manifest)
        PROVE  resize_file(data[f], last_committed_lengths(manifest)[f]) \in Seq(Nat)
    <3>1. PICK n \in Nat : n = last_committed_lengths(manifest)[f] /\ f \in Files
      BY <1>0, LengthsAreNumbers
    <3>2. \A i \in 1 .. n : (IF i <= Len(data[f]) THEN data[f][i] ELSE 0) \in Nat
      BY <1>0, <3>1
    <3> QED
      BY <3>1, <3>2 DEF resize_file
  <2>2. Recovered(manifest) \in [Files -> Seq(Nat)]
    BY <1>0, <2>1 DEF Recovered
  <2>3. data' \in [Files -> Seq(Nat)]
    BY <1>0, <1>8, <2>2 DEF boot_and_recover
  <2> QED
    BY <1>0, <1>8, <2>3 DEF boot_and_recover, FilesInv
<1>9. CASE UNCHANGED sack
  BY <1>9 DEF sack, FilesInv
<1> QED
  BY <1>1, <1>2, <1>3, <1>4, <1>5, <1>6, <1>7, <1>8, <1>9 DEF Next

\* The three fields of a record that is put behind k others.
LEMMA RecordAdded ==
  ASSUME NEW S, NEW m \in Seq(S), NEW r \in Seq(S), NEW k \in Nat, Len(m) = 3 * k, Len(r) = 3
  PROVE  /\ m \o r \in Seq(S) /\ Len(m \o r) = 3 * (k + 1)
         /\ \A j \in 1 .. k : /\ (m \o r)[3 * j - 2] = m[3 * j - 2]
                              /\ (m \o r)[3 * j - 1] = m[3 * j - 1]
                              /\ (m \o r)[3 * j] = m[3 * j]
         /\ (m \o r)[3 * (k + 1) - 2] = r[1]
         /\ (m \o r)[3 * (k + 1) - 1] = r[2]
         /\ (m \o r)[3 * (k + 1)] = r[3]
<1>1. PICK t : t = m \o r
  OBVIOUS
<1>2. t \in Seq(S) /\ Joins(t, m, r)
  BY <1>1, JoinIs
<1>3. /\ Len(t) = 3 * k + 3 /\ \A i \in 1 .. 3 * k : t[i] = m[i]
      /\ \A i \in 1 .. 3 : t[3 * k + i] = r[i]
  BY <1>2 DEF Joins
<1>4. 3 * k + 3 = 3 * (k + 1) /\ 3 * k + 1 = 3 * (k + 1) - 2 /\ 3 * k + 2 = 3 * (k + 1) - 1
  OBVIOUS
<1>5. \A j \in 1 .. k : 3 * j - 2 \in 1 .. 3 * k /\ 3 * j - 1 \in 1 .. 3 * k /\ 3 * j \in 1 .. 3 * k
  OBVIOUS
<1>6. t[3 * k + 1] = r[1] /\ t[3 * k + 2] = r[2] /\ t[3 * k + 3] = r[3]
  BY <1>3
<1> QED
  BY <1>1, <1>2, <1>3, <1>4, <1>5, <1>6

LEMMA DeclarationAdded ==
  ASSUME FilesInv, NEW f \in Files, record_microstep_declaration(f), NEW k \in Nat, Waiting(k)
  PROVE  Waiting(k + 1)'
<1>1. PICK n \in Nat : n = Len(data[f]) + Len(buffered[f])
  BY DEF FilesInv
<1>2. /\ out_ \in Seq(Fields(Files, Nat)) /\ Declaration(f, n) \in Seq(Fields(Files, Nat))
      /\ Len(Declaration(f, n)) = 3 /\ Len(out_) = 3 * k
  BY <1>1, FieldFacts DEF Declaration, FilesInv, Waiting
<1>3. /\ out_' = out_ \o Declaration(f, n) /\ declared' = declared \cup {f}
      /\ f \notin declared /\ pc \in {"work", "declare"} /\ pc' = "declare"
      /\ data' = Flushed(f)
  BY <1>1 DEF record_microstep_declaration
<1>4. /\ Len(out_') = 3 * (k + 1)
      /\ \A j \in 1 .. k : /\ out_'[3 * j - 2] = out_[3 * j - 2]
                           /\ out_'[3 * j - 1] = out_[3 * j - 1]
                           /\ out_'[3 * j] = out_[3 * j]
      /\ out_'[3 * (k + 1) - 2] = Declaration(f, n)[1]
      /\ out_'[3 * (k + 1) - 1] = Declaration(f, n)[2]
      /\ out_'[3 * (k + 1)] = Declaration(f, n)[3]
  <2>1. PICK r : r = Declaration(f, n)
    OBVIOUS
  <2>2. PICK S : S = Fields(Files, Nat)
    OBVIOUS
  <2>3. out_ \in Seq(S) /\ r \in Seq(S) /\ Len(out_) = 3 * k /\ Len(r) = 3 /\ out_' = out_ \o r
    BY <1>2, <1>3, <2>1, <2>2
  <2>4. PICK t : t = out_ \o r
    OBVIOUS
  <2>5. /\ Len(t) = 3 * (k + 1)
        /\ \A j \in 1 .. k : /\ t[3 * j - 2] = out_[3 * j - 2] /\ t[3 * j - 1] = out_[3 * j - 1]
                             /\ t[3 * j] = out_[3 * j]
        /\ t[3 * (k + 1) - 2] = r[1] /\ t[3 * (k + 1) - 1] = r[2] /\ t[3 * (k + 1)] = r[3]
    BY <2>3, <2>4, RecordAdded
  <2> QED
    BY <2>1, <2>3, <2>4, <2>5
<1>5. /\ Declaration(f, n)[1].part = "declaration" /\ IsName(Declaration(f, n)[2], f)
      /\ Declaration(f, n)[3].part = "offset" /\ Declaration(f, n)[3].to = n
  BY DEF Declaration, IsName
<1>6. Len(data'[f]) = n /\ \A g \in declared : data'[g] = data[g]
  <2>1. /\ data \in [Files -> Seq(Nat)] /\ buffered[f] \in Seq(Nat) /\ data[f] \in Seq(Nat)
        /\ declared \subseteq Files
    BY DEF FilesInv
  <2>2. data' = [data EXCEPT ![f] = data[f] \o buffered[f]]
    BY <1>3 DEF Flushed
  <2>3. data'[f] = data[f] \o buffered[f]
    BY <2>1, <2>2
  <2>4. Len(data'[f]) = Len(data[f]) + Len(buffered[f])
    BY <2>1, <2>3
  <2> QED
    BY <1>1, <1>3, <2>1, <2>2, <2>4
<1>7. ASSUME NEW j \in 1 .. k + 1
      PROVE  /\ out_'[3 * j - 2].part = "declaration"
             /\ out_'[3 * j].part = "offset"
             /\ \E g \in declared' : IsName(out_'[3 * j - 1], g) /\ out_'[3 * j].to = Len(data'[g])
  <2>1. CASE j \in 1 .. k
    <3>1. /\ out_[3 * j - 2].part = "declaration" /\ out_[3 * j].part = "offset"
          /\ \E g \in declared : IsName(out_[3 * j - 1], g) /\ out_[3 * j].to = Len(data[g])
      BY <1>3, <2>1 DEF Waiting
    <3> QED
      BY <1>3, <1>4, <1>6, <2>1, <3>1
  <2>2. CASE j = k + 1
    BY <1>3, <1>4, <1>5, <1>6, <2>2
  <2> QED
    BY <2>1, <2>2
<1>8. ASSUME NEW g \in declared' PROVE \E j \in 1 .. k + 1 : IsName(out_'[3 * j - 1], g)
  <2>1. CASE g = f
    BY <1>4, <1>5, <2>1
  <2>2. CASE g # f
    <3>1. PICK j \in 1 .. k : IsName(out_[3 * j - 1], g)
      BY <1>3, <2>2 DEF Waiting
    <3> QED
      BY <1>4, <3>1
  <2> QED
    BY <2>1, <2>2
<1> QED
  BY <1>3, <1>4, <1>7, <1>8 DEF Waiting

LEMMA CommitAdded ==
  ASSUME SackInv, FilesInv, commit_work_slice, NEW k \in Nat, Waiting(k)
  PROVE  Waiting(k + 1)'
<1>1. PICK n \in Nat : n = slice_id_
  BY DEF SackInv, StateInv
<1>2. /\ out_ \in Seq(Fields(Files, Nat)) /\ Commit(n) \in Seq(Fields(Files, Nat))
      /\ Len(Commit(n)) = 3 /\ Len(out_) = 3 * k
  BY <1>1, FieldFacts DEF Commit, FilesInv, Waiting
<1>3. /\ out_' = out_ \o Commit(n) /\ UNCHANGED << declared, data >>
      /\ pc = "declare" /\ pc' = "flush"
  BY <1>1 DEF commit_work_slice
<1>4. /\ Len(out_') = 3 * (k + 1)
      /\ \A j \in 1 .. k : /\ out_'[3 * j - 2] = out_[3 * j - 2]
                           /\ out_'[3 * j - 1] = out_[3 * j - 1]
                           /\ out_'[3 * j] = out_[3 * j]
      /\ out_'[3 * (k + 1) - 2] = Commit(n)[1]
      /\ out_'[3 * (k + 1) - 1] = Commit(n)[2]
      /\ out_'[3 * (k + 1)] = Commit(n)[3]
  <2>1. PICK r : r = Commit(n)
    OBVIOUS
  <2>2. PICK S : S = Fields(Files, Nat)
    OBVIOUS
  <2>3. out_ \in Seq(S) /\ r \in Seq(S) /\ Len(out_) = 3 * k /\ Len(r) = 3 /\ out_' = out_ \o r
    BY <1>2, <1>3, <2>1, <2>2
  <2>4. PICK t : t = out_ \o r
    OBVIOUS
  <2>5. /\ Len(t) = 3 * (k + 1)
        /\ \A j \in 1 .. k : /\ t[3 * j - 2] = out_[3 * j - 2] /\ t[3 * j - 1] = out_[3 * j - 1]
                             /\ t[3 * j] = out_[3 * j]
        /\ t[3 * (k + 1) - 2] = r[1] /\ t[3 * (k + 1) - 1] = r[2] /\ t[3 * (k + 1)] = r[3]
    BY <2>3, <2>4, RecordAdded
  <2> QED
    BY <2>1, <2>3, <2>4, <2>5
<1>5. /\ Commit(n)[1].part = "commit" /\ Commit(n)[2].part = "magic" /\ Commit(n)[3].part = "slice"
  BY DEF Commit
<1>6. ASSUME NEW j \in 1 .. k
      PROVE  /\ out_'[3 * j - 2].part = "declaration"
             /\ out_'[3 * j].part = "offset"
             /\ \E g \in declared : IsName(out_'[3 * j - 1], g) /\ out_'[3 * j].to = Len(data[g])
  <2>1. /\ out_[3 * j - 2].part = "declaration"
        /\ out_[3 * j].part = "offset"
        /\ \E g \in declared : IsName(out_[3 * j - 1], g) /\ out_[3 * j].to = Len(data[g])
    BY <1>3 DEF Waiting
  <2> QED
    BY <1>4, <2>1
<1>7. \A j \in 1 .. k + 1 : j \in 1 .. k \/ j = k + 1
  OBVIOUS
<1>8. \A j \in 1 .. k : j \in 1 .. k + 1 /\ j # k + 1
  OBVIOUS
<1>9. ASSUME NEW g \in declared PROVE \E j \in 1 .. k + 1 : IsName(out_'[3 * j - 1], g)
  <2>1. PICK j \in 1 .. k : IsName(out_[3 * j - 1], g)
    BY DEF Waiting
  <2> QED
    BY <1>4, <1>8, <2>1
<1>10. \A j \in 1 .. k + 1 :
          IF pc' = "flush" /\ j = k + 1
          THEN out_'[3 * j - 2].part = "commit" /\ out_'[3 * j - 1].part = "magic"
               /\ out_'[3 * j].part = "slice"
          ELSE /\ out_'[3 * j - 2].part = "declaration"
               /\ out_'[3 * j].part = "offset"
               /\ \E f \in declared' : IsName(out_'[3 * j - 1], f) /\ out_'[3 * j].to = Len(data'[f])
  <2> SUFFICES ASSUME NEW j \in 1 .. k + 1
               PROVE  IF pc' = "flush" /\ j = k + 1
                      THEN out_'[3 * j - 2].part = "commit" /\ out_'[3 * j - 1].part = "magic"
                           /\ out_'[3 * j].part = "slice"
                      ELSE /\ out_'[3 * j - 2].part = "declaration"
                           /\ out_'[3 * j].part = "offset"
                           /\ \E f \in declared' : IsName(out_'[3 * j - 1], f) /\ out_'[3 * j].to = Len(data'[f])
    OBVIOUS
  <2>1. CASE j = k + 1
    BY <1>3, <1>4, <1>5, <2>1
  <2>2. CASE j # k + 1
    BY <1>3, <1>6, <1>7, <2>2
  <2> QED
    BY <2>1, <2>2
<1> QED
  <2>1. k + 1 > 0
    OBVIOUS
  <2>2. \A f \in declared' : \E j \in 1 .. k + 1 : IsName(out_'[3 * j - 1], f)
    BY <1>3, <1>9
  <2>3. Len(out_') = 3 * (k + 1)
    BY <1>4
  <2> QED
    BY ONLY <1>10, <2>1, <2>2, <2>3 DEF Waiting, IsName

LEMMA StreamStep ==
  ASSUME SackInv, FilesInv, StreamInv, [Next]_sack
  PROVE  StreamInv'
<1>0. StateInv /\ SliceInv
  BY DEF SackInv
<1>1. ASSUME out_' = << >>, declared' = {}, pc' # "flush" PROVE StreamInv'
  <2>1. Waiting(0)'
    BY <1>1 DEF Waiting
  <2> QED
    BY <1>1, <2>1 DEF StreamInv
<1>2. ASSUME UNCHANGED << out_, declared, data >>, pc' = "flush" <=> pc = "flush" PROVE StreamInv'
  <2>1. PICK k \in 0 .. Len(out_) : Waiting(k)
    BY DEF StreamInv
  <2>2. out_' = out_ /\ declared' = declared /\ data' = data
    BY <1>2
  <2>3. CASE pc = "flush"
    <3>1. pc' = pc
      BY <1>2, <2>3
    <3>2. Waiting(k)'
      BY ONLY <2>1, <2>2, <3>1 DEF Waiting
    <3> QED
      BY <2>1, <2>2, <3>2 DEF StreamInv
  <2>4. CASE pc # "flush"
    <3>1. pc' # "flush"
      BY <1>2, <2>4
    <3>2. Waiting(k)'
      BY ONLY <2>1, <2>2, <2>4, <3>1 DEF Waiting
    <3> QED
      BY <2>1, <2>2, <3>2 DEF StreamInv
  <2> QED
    BY <2>3, <2>4
<1>3. ASSUME NEW k \in Nat, Waiting(k)' PROVE StreamInv'
  <2>1. k \in 0 .. Len(out_')
    BY <1>3 DEF Waiting
  <2> QED
    BY <1>3, <2>1 DEF StreamInv
<1>4. PICK k \in 0 .. Len(out_) : Waiting(k)
  BY DEF StreamInv
<1>5. k \in Nat /\ k + 1 \in Nat
  OBVIOUS
<1>6. CASE BeginSlice \/ BootThrows \/ UNCHANGED sack \/ \E filenames \in SUBSET Files : microstep(filenames)
  BY <1>2, <1>6 DEF BeginSlice, BootThrows, microstep, sack
<1>7. CASE \E f \in Files : record_microstep_declaration(f)
  BY <1>3, <1>4, <1>5, <1>7, DeclarationAdded
<1>8. CASE commit_work_slice
  BY <1>3, <1>4, <1>5, <1>8, CommitAdded
<1>9. CASE flush_manifest \/ End
  BY <1>1, <1>9 DEF flush_manifest, End, Appended
<1>10. CASE RemoveManifest \/ LockFolder \/ CreateNext
  BY <1>2, <1>10 DEF RemoveManifest, LockFolder, CreateNext
<1>11. CASE boot_and_recover
  <2>1. pc = "idle"
    BY <1>0, <1>11 DEF StateInv, boot_and_recover, Working
  <2> QED
    BY <1>0, <1>1, <1>11, <2>1 DEF SliceInv, FilesInv, boot_and_recover
<1> QED
  BY <1>6, <1>7, <1>8, <1>9, <1>10, <1>11 DEF Next

-----------------------------------------------------------------------------
(* What was committed stays.                                               *)

LEMMA BeginningOfLonger ==
  ASSUME NEW r \in Seq(Nat), NEW s \in Seq(Nat), NEW t \in Seq(Nat),
         IsBeginning(r, s), IsBeginning(s, t)
  PROVE  IsBeginning(r, t)
<1>1. PICK a \in Nat : a = Len(r)
  OBVIOUS
<1>2. PICK b \in Nat : b = Len(s)
  OBVIOUS
<1>3. PICK c \in Nat : c = Len(t)
  OBVIOUS
<1>4. a <= b /\ b <= c /\ \A i \in 1 .. a : i \in 1 .. b
  BY <1>1, <1>2, <1>3 DEF IsBeginning
<1> QED
  BY <1>1, <1>2, <1>3, <1>4 DEF IsBeginning

LEMMA BeginningOfConcat ==
  ASSUME NEW s \in Seq(Nat), NEW t \in Seq(Nat)
  PROVE  IsBeginning(s, s \o t) /\ IsBeginning(s, s)
<1>1. Joins(s \o t, s, t)
  BY JoinIs
<1> QED
  BY <1>1 DEF Joins, IsBeginning

\* Steps that leave the manifest alone and at most extend what is open.
LEMMA CommitsStay ==
  ASSUME FilesInv, FilesInv', CommitsInv, UNCHANGED << manifest, tailCovered, kept >>,
         \A f \in Files : IsBeginning(data[f], data'[f]),
         \A f \in Files : current_state_' \in Working /\ f \notin open_files_' =>
             current_state_ \in Working /\ f \notin open_files_ /\ data'[f] = data[f]
  PROVE  CommitsInv'
<1> SUFFICES ASSUME ~tailCovered'
             PROVE  /\ WellFormed(manifest')
                    /\ \A f \in DOMAIN last_committed_lengths(manifest') :
                          /\ Len(kept'[f]) = last_committed_lengths(manifest')[f]
                          /\ IsBeginning(kept'[f], data'[f])
                          /\ current_state_' \in Working /\ f \notin open_files_' => data'[f] = kept'[f]
  BY DEF CommitsInv
<1>1. WellFormed(manifest')
  BY DEF CommitsInv
<1>2. ASSUME NEW f \in DOMAIN last_committed_lengths(manifest)
      PROVE  /\ Len(kept[f]) = last_committed_lengths(manifest)[f]
             /\ IsBeginning(kept[f], data'[f])
             /\ current_state_' \in Working /\ f \notin open_files_' => data'[f] = kept[f]
  <2>1. f \in Files
    BY DEF last_committed_lengths
  <2>2. /\ Len(kept[f]) = last_committed_lengths(manifest)[f]
        /\ IsBeginning(kept[f], data[f])
        /\ current_state_ \in Working /\ f \notin open_files_ => data[f] = kept[f]
    BY <1>2 DEF CommitsInv
  <2>3. kept[f] \in Seq(Nat) /\ data[f] \in Seq(Nat) /\ data'[f] \in Seq(Nat)
    BY <2>1 DEF FilesInv
  <2>4. IsBeginning(kept[f], data'[f])
    BY <2>1, <2>2, <2>3, BeginningOfLonger
  <2> QED
    BY <2>1, <2>2, <2>4
<1> QED
  BY <1>1, <1>2

\* What waits for the stream of the manifest.
LEMMA WaitingWell ==
  ASSUME NEW k \in Nat, Waiting(k)
  PROVE  /\ WellFormed(out_)
         /\ \A i \in 1 .. Len(out_) : out_[i].part = "magic" => pc = "flush" /\ i = 3 * k - 1
<1>1. ASSUME NEW j \in 1 .. k
      PROVE  /\ out_[3 * j - 2].part \in {"declaration", "commit"}
             /\ out_[3 * j - 1].part = IF out_[3 * j - 2].part = "declaration" THEN "name" ELSE "magic"
             /\ out_[3 * j].part \in {"offset", "slice"}
             /\ out_[3 * j - 1].part = "magic" => pc = "flush" /\ j = k
  <2>1. CASE pc = "flush" /\ j = k
    <3>1. out_[3 * j - 2].part = "commit" /\ out_[3 * j - 1].part = "magic" /\ out_[3 * j].part = "slice"
      BY <2>1 DEF Waiting
    <3> QED
      BY <2>1, <3>1
  <2>2. CASE ~(pc = "flush" /\ j = k)
    <3>1. /\ out_[3 * j - 2].part = "declaration" /\ out_[3 * j].part = "offset"
          /\ \E f \in declared : IsName(out_[3 * j - 1], f)
      BY <2>2 DEF Waiting
    <3>2. out_[3 * j - 1].part = "name"
      BY <3>1 DEF IsName
    <3> QED
      BY <3>1, <3>2
  <2> QED
    BY <2>1, <2>2
<1>2. Len(out_) = 3 * k
  BY DEF Waiting
<1>3. WellFormed(out_)
  <2> SUFFICES ASSUME NEW j \in 1 .. 3 * k
               PROVE  /\ 3 * j - 2 <= 3 * k => out_[3 * j - 2].part \in {"declaration", "commit"}
                      /\ 3 * j - 1 <= 3 * k => out_[3 * j - 1].part =
                             IF out_[3 * j - 2].part = "declaration" THEN "name" ELSE "magic"
                      /\ 3 * j <= 3 * k => out_[3 * j].part \in {"offset", "slice"}
    BY <1>2 DEF WellFormed
  <2>1. CASE j <= k
    BY <1>1, <2>1
  <2>2. CASE j > k
    <3>1. ~(3 * j - 2 <= 3 * k) /\ ~(3 * j - 1 <= 3 * k) /\ ~(3 * j <= 3 * k)
      BY <2>2
    <3> QED
      BY <3>1
  <2> QED
    BY <2>1, <2>2
<1>4. ASSUME NEW i \in 1 .. 3 * k, out_[i].part = "magic" PROVE pc = "flush" /\ i = 3 * k - 1
  <2>1. PICK j \in 1 .. i : i = 3 * j - 2 \/ i = 3 * j - 1 \/ i = 3 * j
    <3>1. i \in Nat \ {0}
      OBVIOUS
    <3> QED
      BY <3>1, PlaceInRecord
  <2>2. j \in 1 .. k
    BY <2>1
  <2>3. /\ out_[3 * j - 2].part \in {"declaration", "commit"}
        /\ out_[3 * j].part \in {"offset", "slice"}
        /\ out_[3 * j - 1].part = "magic" => pc = "flush" /\ j = k
    BY <1>1, <2>2
  <2>4. i = 3 * j - 1
    BY <1>4, <2>1, <2>3
  <2> QED
    BY <1>4, <2>3, <2>4
<1> QED
  BY <1>2, <1>3, <1>4

\* What reaches the manifest, by a flush or by the end of the process.
LEMMA CommitsAppended ==
  ASSUME SackInv, FilesInv, FilesInv', StreamInv, CommitsInv,
         NEW n \in 0 .. Len(out_), Appended(SubSeq(out_, 1, n)),
         \A f \in Files : IsBeginning(data[f], data'[f]),
         pc = "flush" => data' = data,
         current_state_' \in Working => pc = "flush" /\ n = Len(out_)
  PROVE  CommitsInv'
<1> SUFFICES ASSUME ~tailCovered'
             PROVE  /\ WellFormed(manifest')
                    /\ \A f \in DOMAIN last_committed_lengths(manifest') :
                          /\ Len(kept'[f]) = last_committed_lengths(manifest')[f]
                          /\ IsBeginning(kept'[f], data'[f])
                          /\ current_state_' \in Working => data'[f] = kept'[f]
  BY DEF CommitsInv
<1> DEFINE fields == SubSeq(out_, 1, n)
<1>1. PICK k \in 0 .. Len(out_) : Waiting(k)
  BY DEF StreamInv
<1>2. out_ \in Seq(Fields(Files, Nat)) /\ Len(out_) = 3 * k /\ k \in Nat /\ n \in Nat /\ n <= 3 * k
  BY <1>1 DEF FilesInv, Waiting
<1>3. WellFormed(out_) /\ \A i \in 1 .. Len(out_) : out_[i].part = "magic" => pc = "flush" /\ i = 3 * k - 1
  BY <1>1, <1>2, WaitingWell
<1>4. /\ fields \in Seq(Fields(Files, Nat)) /\ Len(fields) = n
      /\ \A i \in 1 .. n : fields[i] = out_[i]
  BY <1>2
<1>5. /\ manifest' = manifest \o fields
      /\ ~tailCovered /\ (fields = << >> \/ EndsWithCommit(manifest))
      /\ kept' = IF \E i \in DOMAIN fields : fields[i].part = "magic"
                 THEN [f \in Files |-> IF f \in open_files_ THEN data[f] ELSE kept[f]]
                 ELSE kept
  BY DEF Appended
<1> HIDE DEF fields
<1>6. WellFormed(fields)
  <2>1. /\ n \in Nat /\ 3 * k \in Nat /\ Len(out_) = 3 * k /\ Len(fields) = n /\ n <= 3 * k
        /\ \A i \in 1 .. n : fields[i] = out_[i]
    BY <1>2, <1>4
  <2> QED
    BY <1>3, <2>1, WellFormedCut
<1>7. /\ Joins(manifest', manifest, fields) /\ manifest \in Seq(Fields(Files, Nat))
      /\ WellFormed(manifest)
  <2>1. manifest \in Seq(Fields(Files, Nat))
    BY DEF FilesInv
  <2> QED
    BY <1>4, <1>5, <2>1, JoinIs DEF CommitsInv
<1>8. ASSUME NEW f \in DOMAIN last_committed_lengths(manifest)
      PROVE  /\ f \in Files /\ kept[f] \in Seq(Nat) /\ data[f] \in Seq(Nat) /\ data'[f] \in Seq(Nat)
             /\ Len(kept[f]) = last_committed_lengths(manifest)[f]
             /\ IsBeginning(kept[f], data[f]) /\ IsBeginning(data[f], data'[f])
             /\ current_state_ \in Working /\ f \notin open_files_ => data[f] = kept[f]
  <2>1. f \in Files
    BY DEF last_committed_lengths
  <2> QED
    BY <1>5, <1>8, <2>1 DEF CommitsInv, FilesInv
<1>9. CASE \A i \in 1 .. n : fields[i].part # "magic"
  <2>1. kept' = kept /\ DOMAIN fields = 1 .. n
    BY <1>4, <1>5, <1>9
  <2>2. last_committed_lengths(manifest') = last_committed_lengths(manifest)
    BY <1>4, <1>7, <1>9, NothingCommitted
  <2>3. WellFormed(manifest')
    <3>1. CASE fields = << >>
      <4>1. PICK a \in Nat : a = Len(manifest)
        BY <1>7
      <4>2. Len(manifest') = a /\ \A i \in 1 .. a : manifest'[i] = manifest[i]
        BY <1>4, <1>7, <3>1, <4>1 DEF Joins
      <4> QED
        BY <1>7, <4>1, <4>2, WellFormedCut
    <3>2. CASE EndsWithCommit(manifest)
      <4>1. Len(manifest) \in Nat /\ (manifest = << >> <=> Len(manifest) = 0)
        BY <1>7
      <4>2. PICK a \in Nat : Len(manifest) = 3 * a
        BY <1>7, <3>2, <4>1, EndsWithRecord
      <4> QED
        BY <1>6, <1>7, <4>2, WellFormedJoin
    <3> QED
      BY <1>5, <3>1, <3>2
  <2>4. current_state_' \notin Working
    <3> SUFFICES ASSUME current_state_' \in Working PROVE FALSE
      OBVIOUS
    <3>1. pc = "flush" /\ n = 3 * k
      BY <1>2
    <3>2. k > 0 /\ out_[3 * k - 1].part = "magic"
      BY <1>1, <3>1 DEF Waiting
    <3>3. 3 * k - 1 \in 1 .. n
      BY <1>2, <3>1, <3>2
    <3> QED
      BY <1>4, <1>9, <3>2, <3>3
  <2>5. \A f \in DOMAIN last_committed_lengths(manifest) : IsBeginning(kept[f], data'[f])
    BY <1>8, BeginningOfLonger
  <2> QED
    BY <1>8, <2>1, <2>2, <2>3, <2>4, <2>5
<1>10. CASE \E i \in 1 .. n : fields[i].part = "magic"
  <2>1. /\ pc = "flush" /\ 3 * k - 1 \in 1 .. n /\ data' = data /\ declared = open_files_
        /\ current_state_ \in Working
    <3>1. PICK i \in 1 .. n : out_[i].part = "magic"
      BY <1>4, <1>10
    <3>2. i \in 1 .. Len(out_)
      BY <1>2
    <3> QED
      BY <1>3, <3>1, <3>2 DEF FilesInv, SackInv, StateInv
  <2>2. kept' = [f \in Files |-> IF f \in open_files_ THEN data[f] ELSE kept[f]]
    <3>1. DOMAIN fields = 1 .. n
      BY <1>4
    <3>2. \E i \in DOMAIN fields : fields[i].part = "magic"
      BY <1>10, <3>1
    <3> QED
      BY <1>5, <3>2, Zenon
  <2>3. EndsWithCommit(manifest)
    <3>1. fields # << >>
      BY <1>4, <2>1
    <3> QED
      BY <1>5, <3>1
  <2>4. PICK a \in Nat : Len(manifest) = 3 * a /\ (a > 0 => manifest[3 * a - 2].part = "commit")
    <3>1. Len(manifest) \in Nat /\ (manifest = << >> <=> Len(manifest) = 0)
      BY <1>7
    <3> QED
      BY <1>7, <2>3, <3>1, EndsWithRecord
  <2>5. k \in Nat \ {0} /\ 3 * k - 1 <= n /\ n <= 3 * k
    BY <1>2, <2>1
  <2>6. ASSUME NEW j \in 1 .. k - 1
        PROVE  /\ fields[3 * j - 2].part = "declaration" /\ fields[3 * j].part = "offset"
               /\ \E f \in declared : IsName(fields[3 * j - 1], f) /\ fields[3 * j].to = Len(data[f])
    <3>1. 3 * j - 2 \in 1 .. n /\ 3 * j - 1 \in 1 .. n /\ 3 * j \in 1 .. n /\ j \in 1 .. k /\ j # k
      BY <2>5
    <3>2. /\ out_[3 * j - 2].part = "declaration" /\ out_[3 * j].part = "offset"
          /\ \E f \in declared : IsName(out_[3 * j - 1], f) /\ out_[3 * j].to = Len(data[f])
      BY <1>1, <3>1 DEF Waiting
    <3> QED
      BY <1>4, <3>1, <3>2
  <2>7. SliceAppended(manifest', manifest, fields, a, k)
    <3>1. fields[3 * k - 2].part = "commit"
      <4>1. 3 * k - 2 \in 1 .. n /\ k \in 1 .. k
        BY <2>5
      <4>2. out_[3 * k - 2].part = "commit"
        BY <1>1, <2>1, <4>1 DEF Waiting
      <4> QED
        BY <1>4, <4>1, <4>2
    <3> QED
      BY <1>4, <1>6, <1>7, <2>4, <2>5, <2>6, <3>1 DEF SliceAppended
  <2>8. WellFormed(manifest')
    BY <1>6, <1>7, <2>4, WellFormedJoin
  <2>9. ASSUME NEW f \in declared PROVE DeclaredIn(fields, k, f)
    <3>1. PICK j \in 1 .. k : IsName(out_[3 * j - 1], f)
      BY <1>1 DEF Waiting
    <3>2. j # k
      <4>1. k \in 1 .. k
        BY <2>5
      <4>2. out_[3 * k - 1].part = "magic"
        BY <1>1, <2>1, <4>1 DEF Waiting
      <4> QED
        BY <3>1, <4>2 DEF IsName
    <3>3. j \in 1 .. k - 1 /\ 3 * j - 1 \in 1 .. n
      BY <2>5, <3>2
    <3> QED
      BY <1>4, <3>1, <3>3 DEF DeclaredIn
  <2>10. ASSUME NEW f \in DOMAIN last_committed_lengths(manifest')
         PROVE  /\ Len(kept'[f]) = last_committed_lengths(manifest')[f]
                /\ IsBeginning(kept'[f], data'[f]) /\ data'[f] = kept'[f]
    <3>1. f \in Files /\ data[f] \in Seq(Nat)
      BY DEF last_committed_lengths, FilesInv
    <3>2. \A j \in 1 .. k - 1 : IsName(fields[3 * j - 1], f) => read_offset(fields[3 * j]) = Len(data[f])
      <4> SUFFICES ASSUME NEW j \in 1 .. k - 1, IsName(fields[3 * j - 1], f)
                   PROVE  read_offset(fields[3 * j]) = Len(data[f])
        OBVIOUS
      <4>1. PICK g \in declared : /\ IsName(fields[3 * j - 1], g) /\ fields[3 * j].to = Len(data[g])
                                  /\ fields[3 * j].part = "offset"
        BY <2>6
      <4>2. g = f
        BY <4>1 DEF IsName
      <4> QED
        BY <4>1, <4>2 DEF read_offset
    <3>3. PICK size : size = Len(data[f])
      OBVIOUS
    <3>4. /\ DeclaredIn(fields, k, f) => last_committed_lengths(manifest')[f] = size
          /\ ~DeclaredIn(fields, k, f) =>
                 /\ f \in DOMAIN last_committed_lengths(manifest)
                 /\ last_committed_lengths(manifest')[f] = last_committed_lengths(manifest)[f]
      <4>1. DeclaredAs(fields, k, f, size)
        BY <3>2, <3>3 DEF DeclaredAs
      <4>2. PICK t : t = manifest'
        OBVIOUS
      <4>3. a \in Nat /\ k \in Nat \ {0} /\ f \in Files /\ SliceAppended(t, manifest, fields, a, k)
        BY <2>4, <2>5, <2>7, <3>1, <4>2
      <4>4. /\ DeclaredIn(fields, k, f) => last_committed_lengths(t)[f] = size
            /\ ~DeclaredIn(fields, k, f) =>
                   /\ f \in DOMAIN last_committed_lengths(t) <=> f \in DOMAIN last_committed_lengths(manifest)
                   /\ f \in DOMAIN last_committed_lengths(manifest) =>
                          last_committed_lengths(t)[f] = last_committed_lengths(manifest)[f]
        BY ONLY <4>1, <4>3, LengthsCommitted
      <4> QED
        BY <2>10, <4>2, <4>4
    <3>5. CASE DeclaredIn(fields, k, f)
      <4>1. f \in open_files_
        <5>1. PICK j \in 1 .. k - 1 : IsName(fields[3 * j - 1], f)
          BY <3>5 DEF DeclaredIn
        <5>2. PICK g \in declared : IsName(fields[3 * j - 1], g)
          BY <2>6
        <5> QED
          BY <2>1, <5>1, <5>2 DEF IsName
      <4>2. kept'[f] = data[f]
        BY <2>2, <3>1, <4>1
      <4>3. IsBeginning(data[f], data[f])
        BY <3>1, BeginningOfConcat
      <4> QED
        BY <2>1, <3>3, <3>4, <3>5, <4>2, <4>3
    <3>6. CASE ~DeclaredIn(fields, k, f)
      <4>1. f \notin open_files_ /\ f \in DOMAIN last_committed_lengths(manifest)
        BY <2>1, <2>9, <3>4, <3>6
      <4>2. kept'[f] = kept[f] /\ data[f] = kept[f]
        BY <1>8, <2>1, <2>2, <3>1, <4>1
      <4> QED
        BY <1>8, <2>1, <3>4, <3>6, <4>1, <4>2
    <3> QED
      BY <3>5, <3>6
  <2> QED
    BY <2>8, <2>10
<1> QED
  BY <1>9, <1>10

\* A start cuts each file back to what it was at its last commit.
LEMMA CommitsRecovered ==
  ASSUME SackInv, FilesInv, CommitsInv, boot_and_recover
  PROVE  CommitsInv'
<1> SUFFICES ASSUME ~tailCovered'
             PROVE  /\ WellFormed(manifest')
                    /\ \A f \in DOMAIN last_committed_lengths(manifest') :
                          /\ Len(kept'[f]) = last_committed_lengths(manifest')[f]
                          /\ IsBeginning(kept'[f], data'[f])
                          /\ current_state_' \in Working => data'[f] = kept'[f]
  BY DEF CommitsInv
<1>1. /\ UNCHANGED << manifest, kept, tailCovered >>
      /\ data' = IF current_state_' = "Product" THEN data ELSE Recovered(manifest)
      /\ current_state_' \in Working => current_state_' # "Product"
  BY DEF boot_and_recover, Working
<1>2. ASSUME NEW f \in DOMAIN last_committed_lengths(manifest)
      PROVE  /\ Len(kept[f]) = last_committed_lengths(manifest)[f]
             /\ IsBeginning(kept[f], data'[f])
             /\ current_state_' \in Working => data'[f] = kept[f]
  <2>1. f \in Files
    BY DEF last_committed_lengths
  <2>2. kept[f] \in Seq(Nat) /\ data[f] \in Seq(Nat)
    BY <2>1 DEF FilesInv
  <2>3. /\ Len(kept[f]) = last_committed_lengths(manifest)[f] /\ IsBeginning(kept[f], data[f])
    BY <1>1, <1>2 DEF CommitsInv
  <2>4. ASSUME data' = Recovered(manifest) PROVE data'[f] = kept[f]
    <3>1. data'[f] = resize_file(data[f], Len(kept[f]))
      BY <2>1, <2>3, <2>4 DEF Recovered
    <3>2. PICK n \in Nat : n = Len(kept[f])
      BY <2>2
    <3>3. n <= Len(data[f]) /\ \A i \in 1 .. n : data[f][i] = kept[f][i]
      BY <2>3, <3>2 DEF IsBeginning
    <3>4. resize_file(data[f], n) = [i \in 1 .. n |-> kept[f][i]]
      <4>1. \A i \in 1 .. n : i <= Len(data[f])
        BY <2>2, <3>3
      <4> QED
        BY <3>3, <4>1 DEF resize_file
    <3>5. kept[f] = [i \in 1 .. n |-> kept[f][i]]
      BY <2>2, <3>2
    <3>6. data'[f] = kept[f]
      BY <3>1, <3>2, <3>4, <3>5
    <3> QED
      BY <3>6
  <2>5. IsBeginning(kept[f], kept[f])
    BY <2>2, BeginningOfConcat
  <2>6. CASE data' = data
    <3>1. current_state_' \in Working => data' = Recovered(manifest)
      BY <1>1
    <3> QED
      BY <2>3, <2>4, <2>6, <3>1
  <2>7. CASE data' = Recovered(manifest)
    BY <2>3, <2>4, <2>5, <2>7
  <2> QED
    BY <1>1, <2>6, <2>7
<1>3. WellFormed(manifest)
  BY <1>1 DEF CommitsInv
<1> QED
  BY <1>1, <1>2, <1>3

LEMMA CommitsStep ==
  ASSUME SackInv, FilesInv, FilesInv', StreamInv, CommitsInv, [Next]_sack
  PROVE  CommitsInv'
<1>0. /\ StateInv /\ SliceInv
      /\ data \in [Files -> Seq(Nat)] /\ data' \in [Files -> Seq(Nat)] /\ buffered \in [Files -> Seq(Nat)]
  BY DEF SackInv, FilesInv
<1>1. \A f \in Files : IsBeginning(data[f], data[f])
  BY <1>0, BeginningOfConcat
<1>2. CASE BeginSlice \/ commit_work_slice \/ UNCHANGED sack
  <2>1. /\ UNCHANGED << manifest, tailCovered, kept, data, current_state_, open_files_ >>
    BY <1>2 DEF BeginSlice, commit_work_slice, sack
  <2> QED
    BY <1>1, <2>1, CommitsStay
<1>3. ASSUME NEW filenames \in SUBSET Files, microstep(filenames)
      PROVE  CommitsInv'
  <2>1. /\ UNCHANGED << manifest, tailCovered, kept, data, current_state_ >>
        /\ open_files_' = open_files_ \cup filenames
    BY <1>3 DEF microstep
  <2> QED
    BY <1>1, <2>1, CommitsStay
<1>4. ASSUME NEW f \in Files, record_microstep_declaration(f)
      PROVE  CommitsInv'
  <2>1. /\ UNCHANGED << manifest, tailCovered, kept, current_state_, open_files_ >>
        /\ f \in open_files_ /\ data' = [data EXCEPT ![f] = data[f] \o buffered[f]]
    BY <1>4 DEF record_microstep_declaration, Flushed
  <2>2. \A g \in Files \ {f} : data'[g] = data[g]
    BY <1>0, <2>1
  <2>3. IsBeginning(data[f], data'[f])
    <3>1. data'[f] = data[f] \o buffered[f] /\ data[f] \in Seq(Nat) /\ buffered[f] \in Seq(Nat)
      BY <1>0, <2>1
    <3> QED
      BY <3>1, BeginningOfConcat
  <2>4. \A g \in Files : IsBeginning(data[g], data'[g])
    BY <1>1, <2>2, <2>3
  <2>5. \A g \in Files : current_state_' \in Working /\ g \notin open_files_' =>
             current_state_ \in Working /\ g \notin open_files_ /\ data'[g] = data[g]
    BY <2>1, <2>2
  <2> QED
    BY <2>1, <2>4, <2>5, CommitsStay
<1>5. CASE flush_manifest
  <2>1. /\ Appended(out_) /\ data' = data /\ pc = "flush"
    BY <1>5 DEF flush_manifest
  <2>2. PICK n \in 0 .. Len(out_) : n = Len(out_) /\ Appended(SubSeq(out_, 1, n))
    <3>1. out_ \in Seq(Fields(Files, Nat)) /\ Len(out_) \in 0 .. Len(out_)
      BY DEF FilesInv
    <3>2. SubSeq(out_, 1, Len(out_)) = out_
      BY <3>1
    <3> QED
      BY <2>1, <3>1, <3>2
  <2> QED
    BY <1>1, <2>1, <2>2, CommitsAppended
<1>6. CASE RemoveManifest
  <2>1. manifest' = << >>
    BY <1>6 DEF RemoveManifest
  <2> QED
    BY <2>1, NoLengths DEF CommitsInv
<1>7. CASE LockFolder \/ CreateNext
  <2>1. manifest' = << >>
    BY <1>0, <1>7 DEF LockFolder, CreateNext, SliceInv
  <2> QED
    BY <2>1, NoLengths DEF CommitsInv
<1>8. CASE End
  <2>1. PICK n \in 0 .. Len(out_) : Appended(SubSeq(out_, 1, n))
    BY <1>8 DEF End
  <2>2. PICK reached \in [open_files_ -> 0 .. MaxWrites] :
           /\ \A f \in open_files_ : reached[f] <= Len(buffered[f])
           /\ data' = [f \in Files |-> IF f \in open_files_
                                       THEN data[f] \o SubSeq(buffered[f], 1, reached[f])
                                       ELSE data[f]]
    BY <1>8 DEF End
  <2>3. ASSUME NEW f \in open_files_
        PROVE  /\ SubSeq(buffered[f], 1, reached[f]) \in Seq(Nat) /\ f \in Files
               /\ buffered[f] = << >> => SubSeq(buffered[f], 1, reached[f]) = << >>
    <3>1. f \in Files /\ reached[f] \in Nat /\ reached[f] <= Len(buffered[f])
      BY <2>2, SackAssumption DEF FilesInv
    <3>2. SubSeq(buffered[f], 1, reached[f]) \in Seq(Nat)
      BY <1>0, <3>1
    <3>3. ASSUME buffered[f] = << >> PROVE SubSeq(buffered[f], 1, reached[f]) = << >>
      <4>1. reached[f] = 0
        BY <3>1, <3>3
      <4> QED
        BY <1>0, <3>1, <3>3, <4>1
    <3> QED
      BY <3>1, <3>2, <3>3
  <2>4. \A f \in Files : IsBeginning(data[f], data'[f])
    BY <1>0, <1>1, <2>2, <2>3, BeginningOfConcat
  <2>5. ASSUME pc = "flush" PROVE data' = data
    <3>1. \A f \in Files : buffered[f] = << >>
      BY <2>5 DEF FilesInv
    <3>2. ASSUME NEW f \in open_files_ PROVE data[f] \o SubSeq(buffered[f], 1, reached[f]) = data[f]
      <4>1. SubSeq(buffered[f], 1, reached[f]) = << >> /\ data[f] \in Seq(Nat)
        BY <1>0, <2>3, <3>1
      <4>2. PICK d \in Seq(Nat) : d = data[f]
        BY <4>1
      <4>3. PICK t : t = << >> /\ SubSeq(buffered[f], 1, reached[f]) = t
        BY <4>1
      <4>4. d \o t = d
        BY <4>3
      <4> QED
        BY <4>2, <4>3, <4>4
    <3>3. \A f \in Files : data'[f] = data[f]
      BY <2>2, <3>2
    <3> QED
      BY <1>0, <3>3
  <2>6. current_state_' \notin Working
    BY <1>8 DEF End, Working
  <2> QED
    BY <2>1, <2>4, <2>5, <2>6, CommitsAppended
<1>9. CASE BootThrows
  <2>1. /\ UNCHANGED << manifest, tailCovered, kept, data >> /\ current_state_' \notin Working
    BY <1>9 DEF BootThrows, Working
  <2> QED
    BY <1>1, <2>1, CommitsStay
<1>10. CASE boot_and_recover
  BY <1>10, CommitsRecovered
<1> QED
  BY <1>2, <1>3, <1>4, <1>5, <1>6, <1>7, <1>8, <1>9, <1>10 DEF Next

LEMMA KeptStep == SackInv /\ KeptInv /\ [Next]_sack => KeptInv'
  BY FilesStep, StreamStep, CommitsStep DEF KeptInv

\* Until a manifest is continued behind a slice that was cut off, a file has on disk what it
\* had at the last commit that covers it, and between slices no more
\* (~SliceContext and commit_work_slice, against a crash anywhere).
THEOREM CommitsAreKept == Spec => []KeptInv
  BY InitKeptInv, KeptStep, OnlyFilesInUse, PTL DEF Spec

\* No start makes up the end of a file: what it cuts a file to is there.
THEOREM CommittedStaysOnDisk == Spec => []CommittedIsOnDisk
<1>1. KeptInv => CommittedIsOnDisk
  <2> SUFFICES ASSUME KeptInv, ~tailCovered, NEW f \in DOMAIN last_committed_lengths(manifest)
               PROVE  last_committed_lengths(manifest)[f] <= Len(data[f])
    BY DEF CommittedIsOnDisk
  <2> QED
    BY DEF KeptInv, CommitsInv, IsBeginning
<1> QED
  BY <1>1, CommitsAreKept, PTL

\* Between slices each file with a commit holds exactly what it held then.
THEOREM FilesAlwaysHoldLastCommit == Spec => []FilesHoldLastCommit
<1>1. SackInv /\ KeptInv => FilesHoldLastCommit
  <2> SUFFICES ASSUME SackInv, KeptInv, pc = "idle", current_state_ \in Working, ~tailCovered,
                      NEW f \in DOMAIN last_committed_lengths(manifest)
               PROVE  data[f] = kept[f]
    BY DEF FilesHoldLastCommit
  <2>1. f \notin open_files_
    BY DEF SackInv, SliceInv
  <2> QED
    BY <2>1 DEF KeptInv, CommitsInv
<1> QED
  BY <1>1, CommitsAreKept, OnlyFilesInUse, PTL

=============================================================================
