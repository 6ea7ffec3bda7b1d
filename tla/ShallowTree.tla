----------------------------- MODULE ShallowTree -----------------------------
(***************************************************************************)
(* The in-memory trie over a set of presented hashes.  It is built once,   *)
(* from a span that it rearranges: each node examines the byte that tells  *)
(* the presentations under it apart best, and splits them into 256 slots;  *)
(* a presentation alone in its slot becomes a leaf, with a few of the      *)
(* bytes nobody examined as a reassurance.  A lookup follows the bytes of  *)
(* its target and compares the reassurance: its answer is a candidate.     *)
(*                                                                         *)
(* A node is named by its key: the bytes examined on the way to it, with   *)
(* their values.  The recursion is a set of calls still to be made.        *)
(***************************************************************************)
EXTENDS Integers, Sequences, FiniteSets, FiniteSetsExt, SequencesExt

CONSTANTS
    HashBytesCount,     \* the size of a hash
    Bytes,              \* the values its bytes take
    TailBits,           \* values of ls_tail_bits_count
    ReassuranceBytes,   \* values of reassurance_bytes_count
    NoMatch,            \* LOCAL_PI_NO_MATCH
    MaxInput            \* BOUND: how many hashes are presented

\* Without reassurance bytes make_leaf_node writes past an empty vector, and
\* the constructor does not refuse it: no caller may ask for none.
ASSUME ShallowTreeAssumption ==
    /\ HashBytesCount \in 1 .. 64
    /\ Bytes \subseteq 0 .. 255
    /\ TailBits \subseteq Nat
    /\ ReassuranceBytes \subseteq Nat \ {0}
    /\ NoMatch \notin Nat
    /\ MaxInput \in Nat

VARIABLES
    input,                      \* the caller's span
    ls_tail_bits_count,
    reassurance_bytes_count,
    state,                      \* of the constructor, or how it failed
    nodes,                      \* what root_slot_ holds, each node by its key
    calls,                      \* of recurse_generate_node, to be made
    presented                   \* history: what the span held at first

settings == <<ls_tail_bits_count, reassurance_bytes_count>>
vars == <<input, settings, state, nodes, calls, presented>>

-----------------------------------------------------------------------------
Hashes == [0 .. HashBytesCount - 1 -> Bytes]

\* The bytes the tail touches, if only with one bit.
HandledBytes == (ls_tail_bits_count + 7) \div 8

\* unused_mask before any byte was examined.
Unused == HandledBytes .. HashBytesCount - 1

\* The key of the root, and of the node in slot v of a node that examines b.
Root == [b \in {} |-> 0]
Under(key, b, v) == [d \in DOMAIN key \cup {b} |-> IF d = b THEN v ELSE key[d]]

\* unused_mask at the node with this key.
Left(key) == Unused \ DOMAIN key

IsBuilt == state = "built"

-----------------------------------------------------------------------------
\* bucket_partition_by_byte, for the span of a call

Span(c) == c.from .. c.to

Bucket(c, b, v) == {i \in Span(c) : input[i].hash[b] = v}

Count(c, b, v) == Cardinality(Bucket(c, b, v))

\* How many items precede the bucket of v.
Offset(c, b, v) == c.from - 1 + Cardinality({i \in Span(c) : input[i].hash[b] < v})

\* Where the i-th item goes: into its bucket, behind its predecessors.
Place(c, b, i) ==
    LET v == input[i].hash[b]
    IN  Offset(c, b, v) + Cardinality({j \in Bucket(c, b, v) : j <= i})

\* Fault: the scratch buffer is not copied back.
NotCopiedBack(c, b) == input

Partitioned(c, b) ==
    [p \in DOMAIN input |->
        IF p \in Span(c) THEN input[CHOOSE i \in Span(c) : Place(c, b, i) = p] ELSE input[p]]

-----------------------------------------------------------------------------
\* The sum of the squares of the counts: the pairs of items that collide.
\* The lower it is, the higher the entropy.
Collisions(c, b) ==
    Cardinality({pair \in Span(c) \X Span(c) :
                    input[pair[1]].hash[b] = input[pair[2]].hash[b]})

\* Fault: the order of the bytes decides.
FirstByte(c) == Min(Left(c.key))

\* The first of the bytes with the highest entropy.
BestByte(c) ==
    Min({b \in Left(c.key) : \A d \in Left(c.key) : Collisions(c, b) <= Collisions(c, d)})

\* Where b is among the bytes nobody examined, in order.
Rank(b, left) == Cardinality({d \in left : d <= b})

Leaf(item, left) ==
    [kind |-> "leaf",
     presentation_index |-> item.presentation_index,
     reassurance |-> [k \in 1 .. reassurance_bytes_count |->
                        IF \E b \in left : Rank(b, left) = k
                        THEN item.hash[CHOOSE b \in left : Rank(b, left) = k]
                        ELSE 0]]

Slots(b) == [kind |-> "slots", hash_byte_index |-> b]

-----------------------------------------------------------------------------
\* lookup_hash_unique_reassured_candidate, for a target of the right size

\* Fault: the count is compared before the byte is.
ReassuredButForOne(leaf, target, left) ==
    \A b \in left :
        Rank(b, left) < reassurance_bytes_count => target[b] = leaf.reassurance[Rank(b, left)]

Reassured(leaf, target, left) ==
    \A b \in left :
        Rank(b, left) <= reassurance_bytes_count => target[b] = leaf.reassurance[Rank(b, left)]

\* The loop goes from a node with slots to the slot of its byte, which is
\* empty unless there is a node with that key.
NodesOnTheWay(target) ==
    LET current[n \in 0 .. HashBytesCount] ==
            IF n = 0 THEN Root
            ELSE LET key == current[n - 1]
                 IN  IF key \in DOMAIN nodes /\ nodes[key].kind = "slots"
                     THEN Under(key, nodes[key].hash_byte_index,
                                target[nodes[key].hash_byte_index])
                     ELSE key
    IN  current

Candidate(target) ==
    LET key == NodesOnTheWay(target)[HashBytesCount]
    IN  IF key \in DOMAIN nodes /\ Reassured(nodes[key], target, Left(key))
        THEN nodes[key].presentation_index
        ELSE NoMatch

count_nodes == Cardinality(DOMAIN nodes)

-----------------------------------------------------------------------------
Init ==
    /\ input = << >>
    /\ ls_tail_bits_count \in TailBits
    /\ reassurance_bytes_count \in ReassuranceBytes
    /\ state = "unbuilt"
    /\ nodes = [key \in {} |-> 0]
    /\ calls = {}
    /\ presented = << >>

\* The caller puts one more hash, under the next index, into its array.
Present(h) ==
    /\ state = "unbuilt"
    /\ Len(input) < MaxInput
    /\ input' = Append(input, [hash |-> h, presentation_index |-> Len(input)])
    /\ presented' = input'
    /\ UNCHANGED <<settings, state, nodes, calls>>

\* The constructor refuses a tail longer than the hash.
Refuse ==
    /\ state = "unbuilt"
    /\ HandledBytes > HashBytesCount
    /\ state' = "invalid_argument"
    /\ UNCHANGED <<input, settings, nodes, calls, presented>>

BuildEmpty ==
    /\ state = "unbuilt"
    /\ HandledBytes <= HashBytesCount
    /\ input = << >>
    /\ state' = "built"
    /\ UNCHANGED <<input, settings, nodes, calls, presented>>

BuildLeaf ==
    /\ state = "unbuilt"
    /\ HandledBytes <= HashBytesCount
    /\ Len(input) = 1
    /\ nodes' = [key \in {Root} |-> Leaf(input[1], Unused)]
    /\ state' = "built"
    /\ UNCHANGED <<input, settings, calls, presented>>

BuildTree ==
    /\ state = "unbuilt"
    /\ HandledBytes <= HashBytesCount
    /\ Len(input) > 1
    /\ calls' = {[key |-> Root, from |-> 1, to |-> Len(input)]}
    /\ state' = "building"
    /\ UNCHANGED <<input, settings, nodes, presented>>

\* recurse_generate_node fills its slots in the order of the span.
IsNext(c) ==
    /\ c \in calls
    /\ \A d \in calls : c.from <= d.from

\* No byte is left, and the nodes made so far go with the exception.
Throw(c) ==
    /\ IsNext(c)
    /\ Left(c.key) = {}
    /\ state' = "duplicate"
    /\ nodes' = [key \in {} |-> 0]
    /\ calls' = {}
    /\ UNCHANGED <<input, settings, presented>>

\* A node for the span: a leaf for each item alone in its bucket, and a call
\* for each larger bucket.
Split(c, b) ==
    LET Loners == {Under(c.key, b, v) : v \in {w \in Bytes : Count(c, b, w) = 1}}
        Part(v) == [key  |-> Under(c.key, b, v),
                    from |-> Offset(c, b, v) + 1,
                    to   |-> Offset(c, b, v) + Count(c, b, v)]
    IN  /\ input' = Partitioned(c, b)
        /\ nodes' = [key \in DOMAIN nodes \cup {c.key} \cup Loners |->
                        IF key = c.key THEN Slots(b)
                        ELSE IF key \in Loners
                             THEN Leaf(input'[Offset(c, b, key[b]) + 1], Left(key))
                             ELSE nodes[key]]
        /\ calls' = (calls \ {c}) \cup {Part(v) : v \in {w \in Bytes : Count(c, b, w) > 1}}
        /\ state' = IF calls' = {} THEN "built" ELSE "building"

Recurse(c) ==
    /\ IsNext(c)
    /\ Left(c.key) # {}
    /\ Split(c, BestByte(c))
    /\ UNCHANGED <<settings, presented>>

Next ==
    \/ \E h \in Hashes : Present(h)
    \/ Refuse
    \/ BuildEmpty
    \/ BuildLeaf
    \/ BuildTree
    \/ \E c \in calls : Throw(c)
    \/ \E c \in calls : Recurse(c)

Spec == Init /\ [][Next]_vars

-----------------------------------------------------------------------------
\* The bytes outside of the tail on which two hashes agree.
Agreement(g, h) == {b \in Unused : g[b] = h[b]}

\* Two presentations that no byte outside of the tail tells apart.
Indistinguishable ==
    \E i, j \in DOMAIN presented :
        i # j /\ Agreement(presented[i].hash, presented[j].hash) = Unused

\* The constructor throws "Duplicate hashes detected" just when two hashes
\* agree outside of the bytes the tail touches.  Otherwise each presented hash
\* is found under its own index, and the rearranged span still holds them all.
LookupFindsPresented ==
    /\ state = "duplicate" => Indistinguishable
    /\ IsBuilt =>
        \A i \in DOMAIN presented :
            Candidate(presented[i].hash) = presented[i].presentation_index
    /\ Len(input) = Len(presented) /\ ToSet(input) = ToSet(presented)

\* "The result is reassured by a few spare bytes": whatever the target, the
\* presentation that a lookup answers agrees with it on as many bytes as were
\* to reassure, and on one more if there was a choice, or on all there are.
AnswersAreReassured ==
    IsBuilt =>
        \A target \in Hashes :
            Candidate(target) # NoMatch =>
                \E p \in ToSet(presented) :
                    /\ p.presentation_index = Candidate(target)
                    /\ Cardinality(Agreement(target, p.hash)) >=
                        Min({Cardinality(Unused),
                             reassurance_bytes_count + (IF Len(presented) > 1 THEN 1 ELSE 0)})

\* The tree is shallow: every examined byte tells presentations apart, so
\* that there are fewer inner nodes than leaves, one leaf for each hash.
TreeIsShallow ==
    IsBuilt /\ presented # << >> => count_nodes < 2 * Len(presented)

=============================================================================
