------------------------------ MODULE EntryFiles ------------------------------
(***************************************************************************)
(* A HashesOrder file or a file of suffix entries, its writer and its      *)
(* reader: hashes_order_file.hpp, ls_suffix_entries_file.hpp and the       *)
(* factory that opens them.                                                *)
(*                                                                         *)
(* The two classes are written alike, and one behaviour is about one file  *)
(* of one of them (format).  What the writer appends waits in its stream's *)
(* buffer, which reaches the file byte by byte when the library likes and  *)
(* is lost in a crash.  The reader is a std::ifstream: a position and the  *)
(* bits eofbit and failbit.                                                *)
(***************************************************************************)
EXTENDS DonutEntries

CONSTANTS
    Capacity,       \* entries of a donut
    PrefixCounts,   \* the ms_prefix_bits_counts to start with
    Presented,      \* hashes to append, of HashBytes
    LocalPis,       \* bound: indices to append
    MaxEntries      \* bound: entries appended to a file

ASSUME PresentedAreHashes == Presented \subseteq HashBytes /\ NoHash \notin HashBytes

ASSUME LocalPisFit == LocalPis \subseteq 0 .. Capacity - 1

\* Indices of two donuts are numbers of a word, and a prefix index is one.
ASSUME NumbersFit ==
    /\ Capacity \in Nat \ {0} /\ 2 * Capacity < 2 ^ WordBits
    /\ PrefixCounts \subseteq (0 .. HashBits) \cap (0 .. WordBits)

VARIABLES
    format,     \* "order" or "suffixes"
    n,          \* ms_prefix_bits_count_
    file,       \* the bytes of the file
    writer,     \* is a writer open
    buffer,     \* bytes the writer's stream has not written
    reader,     \* the reader's stream, or NoReader
    got,        \* what read_next has just returned, or Nothing
    appended,   \* the entries in file and buffer
    torn        \* a crash has left a part of an entry in the file

vars == <<format, n, file, writer, buffer, reader, got, appended, torn>>

NoReader == [pos |-> -1, eof |-> FALSE, fail |-> FALSE]
Nothing  == [found |-> FALSE, whole |-> FALSE, index |-> -1, entry |-> << >>]

pi_bytes_count     == calculate_bytes_per_local_pi(Capacity)
suffix_start_idx   == HashBytesCount - SuffixBytes(n)
spare_bits_count   == PrefixBytes(n) * ByteBits - n
entry_bytes        ==
    pi_bytes_count + (IF format = "order" THEN PrefixBytes(n) ELSE SuffixBytes(n))

-----------------------------------------------------------------------------
\* Entries and their bytes.

OrderEntries ==
    [local_pi : LocalPis \cup {NoMatch},
     ms_prefix_bits : {ms_prefix_index(h, n) : h \in Presented},
     spare_bits : {0 .. spare_bits_count - 1}]

SuffixEntries == [local_pi : LocalPis, hash : Presented]

OrderBytes(e) ==
    BytesOf(BitsOfNumber(e.local_pi), pi_bytes_count)
        \o BytesOf((e.ms_prefix_bits \cap (0 .. n - 1))
                       \cup {n + b : b \in e.spare_bits \cap (0 .. spare_bits_count - 1)},
                   PrefixBytes(n))

SuffixEntryBytes(e) ==
    SubSeq(e.hash, suffix_start_idx + 1, HashBytesCount)
        \o BytesOf(BitsOfNumber(e.local_pi), pi_bytes_count)

BytesOfEntry(e) == IF format = "order" THEN OrderBytes(e) ELSE SuffixEntryBytes(e)

OrderEntryFrom(pi_bytes, prefix_bytes) ==
    LET prefix_field == BitsOf(prefix_bytes)
    IN  [local_pi       |-> IF pi_bytes = [i \in 1 .. pi_bytes_count |-> AllOnes] THEN NoMatch
                            ELSE NumberOf(BitsOf(pi_bytes)),
         ms_prefix_bits |-> prefix_field \cap (0 .. n - 1),
         spare_bits     |-> ShiftRight(prefix_field, n)]

\* The bytes of the caller's buffer that are not in the file stay as they
\* were: zero.
SuffixEntryFrom(suffix_bytes, pi_bytes) ==
    [local_pi |-> NumberOf(BitsOf(pi_bytes)),
     hash     |-> [i \in 1 .. suffix_start_idx |-> {}] \o suffix_bytes]

-----------------------------------------------------------------------------
\* std::ifstream.  s is a stream; every operation is its state afterwards.

AtEnd(s)  == s.pos >= Len(file)
Good(s)   == ~s.eof /\ ~s.fail
Clear(s)  == [s EXCEPT !.eof = FALSE, !.fail = FALSE]

\* peek() returns eof if the stream is not good afterwards.
Peek(s) ==
    IF ~Good(s) THEN [s EXCEPT !.fail = TRUE] ELSE [s EXCEPT !.eof = AtEnd(s)]

\* What read(count) puts into the caller's bytes, and the stream afterwards.
Available(s, count) ==
    IF ~Good(s) THEN << >>
    ELSE SubSeq(file, s.pos + 1, IF s.pos + count <= Len(file) THEN s.pos + count ELSE Len(file))

Read(s, count) ==
    LET gcount == Len(Available(s, count))
    IN  IF ~Good(s) THEN [s EXCEPT !.fail = TRUE]
        ELSE [pos |-> s.pos + gcount, eof |-> gcount < count, fail |-> gcount < count]

SeekG(s, to) ==
    IF s.fail THEN [s EXCEPT !.eof = FALSE] ELSE [s EXCEPT !.eof = FALSE, !.pos = to]

-----------------------------------------------------------------------------
Init ==
    /\ format \in {"order", "suffixes"}
    /\ n \in PrefixCounts
    /\ file = << >> /\ buffer = << >> /\ appended = << >>
    /\ writer = FALSE
    /\ reader = NoReader
    /\ got = Nothing
    /\ torn = FALSE

\* create_empty_..._file: truncates.  Called between a writer and the next.
create_empty ==
    /\ ~writer /\ reader = NoReader
    /\ file # << >>
    /\ file' = << >> /\ appended' = << >> /\ torn' = FALSE
    /\ UNCHANGED <<format, n, writer, buffer, reader, got>>

\* The writer opens in append mode.
open_writer ==
    /\ ~writer
    /\ writer' = TRUE
    /\ UNCHANGED <<format, n, file, buffer, reader, got, appended, torn>>

append ==
    /\ writer
    /\ Len(appended) < MaxEntries
    /\ \E e \in IF format = "order" THEN OrderEntries ELSE SuffixEntries :
           /\ buffer' = buffer \o BytesOfEntry(e)
           /\ appended' = Append(appended, e)
    /\ got' = Nothing
    /\ UNCHANGED <<format, n, file, writer, reader, torn>>

\* The stream writes a part of its buffer.
drain ==
    /\ \E count \in 1 .. Len(buffer) :
           /\ file' = file \o SubSeq(buffer, 1, count)
           /\ buffer' = SubSeq(buffer, count + 1, Len(buffer))
    /\ got' = Nothing
    /\ UNCHANGED <<format, n, writer, reader, appended, torn>>

\* flush, and the destructor's close.
close_writer ==
    /\ writer
    /\ writer' = FALSE
    /\ file' = file \o buffer
    /\ buffer' = << >>
    /\ got' = Nothing
    /\ UNCHANGED <<format, n, reader, appended, torn>>

\* The process dies: what is in the buffer is lost.
crash ==
    /\ writer
    /\ writer' = FALSE
    /\ buffer' = << >>
    /\ appended' = SubSeq(appended, 1, Len(file) \div entry_bytes)
    /\ torn' = (torn \/ Len(file) % entry_bytes # 0)
    /\ reader' = NoReader
    /\ got' = Nothing
    /\ UNCHANGED <<format, n, file>>

open_reader ==
    /\ reader = NoReader
    /\ reader' = [NoReader EXCEPT !.pos = 0]
    /\ UNCHANGED <<format, n, file, writer, buffer, got, appended, torn>>

close_reader ==
    /\ reader # NoReader
    /\ reader' = NoReader
    /\ got' = Nothing
    /\ UNCHANGED <<format, n, file, writer, buffer, appended, torn>>

-----------------------------------------------------------------------------
\* The reader's calls.

\* Fault: neither reader clears its stream.
SoughtUncleared(s, index) == SeekG(s, index * entry_bytes)

\* Only the reader of suffixes clears its stream.
Sought(s, index) ==
    SeekG(IF format = "order" THEN s ELSE Clear(s), index * entry_bytes)

seek_entry ==
    /\ reader # NoReader
    /\ \E index \in 0 .. Len(appended) : reader' = Sought(reader, index)
    /\ got' = Nothing
    /\ UNCHANGED <<format, n, file, writer, buffer, appended, torn>>

\* The reader of suffixes does not look when it has failed, and clears
\* what it saw at the end.
Looked(s) ==
    IF format = "order" THEN Peek(s)
    ELSE IF s.fail THEN s
    ELSE IF Good(Peek(s)) THEN s ELSE Clear(s)

has_more ==
    /\ reader # NoReader
    /\ reader' = Looked(reader)
    /\ got' = Nothing
    /\ UNCHANGED <<format, n, file, writer, buffer, appended, torn>>

\* An entry read from s, which is where it begins.
Found(s, entry) ==
    [found |-> TRUE,
     whole |-> s.pos + entry_bytes <= Len(file),
     index |-> s.pos \div entry_bytes,
     entry |-> entry]

\* HashesOrderFileReader: what is not there is read as zeros.
read_next_order ==
    LET first  == Peek(reader)
        second == Read(first, pi_bytes_count)
    IN  IF ~Good(first)
        THEN reader' = first /\ got' = Nothing
        ELSE /\ reader' = IF PrefixBytes(n) > 0 THEN Read(second, PrefixBytes(n)) ELSE second
             /\ got' = Found(first, OrderEntryFrom(Available(first, pi_bytes_count),
                                                   Available(second, PrefixBytes(n))))

\* LSSuffixEntriesFileReader: an entry that is not all there is refused.
read_next_suffix ==
    LET suffix_bytes == Available(reader, SuffixBytes(n))
        second       == Read(reader, SuffixBytes(n))
        pi_bytes     == Available(second, pi_bytes_count)
    IN  IF reader.fail THEN UNCHANGED reader /\ got' = Nothing
        ELSE IF Len(suffix_bytes) < SuffixBytes(n)
        THEN reader' = second /\ got' = Nothing
        ELSE /\ reader' = Read(second, pi_bytes_count)
             /\ got' = IF Len(pi_bytes) < pi_bytes_count THEN Nothing
                       ELSE Found(reader, SuffixEntryFrom(suffix_bytes, pi_bytes))

read_next ==
    /\ reader # NoReader
    /\ IF format = "order" THEN read_next_order ELSE read_next_suffix
    /\ UNCHANGED <<format, n, file, writer, buffer, appended, torn>>

-----------------------------------------------------------------------------
Next ==
    \/ create_empty \/ open_writer \/ append \/ drain \/ close_writer \/ crash
    \/ open_reader \/ close_reader \/ seek_entry \/ has_more \/ read_next

Spec == Init /\ [][Next]_vars

-----------------------------------------------------------------------------
\* What is promised.

\* An entry that is wholly in the file is read back under the local index it
\* was appended with, wherever the calls before have left the stream; so is
\* everything else in an entry of the order file, and the hash in a suffix file
\* whose entries are long enough for all of it.  The reader of suffixes
\* returns no other entry.  Holds until a crash has cut an entry: nothing
\* repairs the file, and the next writer appends behind the cut.
EntriesReadBack ==
    got.found /\ ~torn =>
        /\ got.whole =>
              /\ got.entry.local_pi = appended[got.index + 1].local_pi
              /\ format = "order" \/ suffix_start_idx = 0 =>
                    got.entry = appended[got.index + 1]
        /\ format = "suffixes" => got.whole

\* "Write suffix bytes starting from the low-order offset"
\* (ls_suffix_entries_file.hpp:123), where "we consider the prefix to be the most
\* significant bits of the hash, and the suffix to be least significant"
\* (hash_prefix_suffix.hpp:18): the prefix, which names the file, and the bytes
\* that are read back from it are the whole hash.
SuffixCompletesHash ==
    format = "suffixes" /\ got.whole /\ ~torn =>
        LET hash         == appended[got.index + 1].hash
            suffix_bytes == SubSeq(got.entry.hash, suffix_start_idx + 1, HashBytesCount)
        IN  hash_from_prefix_suffix(n, ms_prefix_bytes_masked(hash, n), suffix_bytes) = hash

\* The end of the file, or of what has been drained so far, does not cost
\* the reader: after has_more or read_next on a good stream the stream can
\* seek again, unless an entry was returned that is not wholly there.  The
\* reader of suffixes can always seek.
SeekRecovers ==
    [][/\ reader # NoReader /\ reader' # NoReader
       /\ format = "suffixes" \/ (Good(reader) /\ (got'.found => got'.whole))
       => Good(Sought(reader', 0))]_vars

\* A hash is the same after it was split into its two entries and put
\* together again; so are its indices; no entry of a hash reads as the
\* sentinel, which the entry of no hash does; and two hashes are in one
\* suffix file exactly if their entries begin with the same prefix.  This
\* is about n alone, and TLC need not ask it again when the file has grown.
HashSurvivesSplit ==
    appended = << >> => \A h \in HashBytes, i \in 0 .. Capacity - 1, first \in {0, Capacity} :
        LET order  == write_hashes_order_file_entry(n, h, i, pi_bytes_count)
            gap    == write_hashes_order_file_entry(n, NoHash, NoMatch, pi_bytes_count)
            suffix == write_suffixes_file_entry(n, h, PiPlus(first, i), first, pi_bytes_count)
            o      == read_hashes_order_entry_from_bytes(n, order, pi_bytes_count)
            s      == read_ls_suffixes_entry_from_bytes(n, suffix, pi_bytes_count)
            path   == make_ms_prefix_path(n, ms_prefix_index(h, n))
        IN  /\ hash_from_prefix_suffix(n, o.ms_prefix, s.ls_suffix) = h
            /\ o.suffixes_file_index = i /\ s.local_pi = i
            /\ ~o.is_sentinel
            /\ read_hashes_order_entry_from_bytes(n, gap, pi_bytes_count).is_sentinel
            /\ \A g \in HashBytes :
                   path = make_ms_prefix_path(n, ms_prefix_index(g, n))
                       <=> o.ms_prefix = ms_prefix_bytes_masked(g, n)

=============================================================================
