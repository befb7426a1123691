------------------------------ MODULE Manifest ------------------------------
(***************************************************************************)
(* The repository list of a round on its way from the register to the      *)
(* workers: sorted (NewManifest), cut into chunks that fit in a ConfigMap  *)
(* (EncodeManifest), mounted by every worker of the Job, and put together  *)
(* again (readManifest, DecodeManifest).                                   *)
(*                                                                         *)
(* A repository is its ID, a number here; its JSON is represented by its   *)
(* length.  SHA-256 is taken to be injective, so the digest of some data   *)
(* is that data.  Chunks are counted from 0, as in the code.               *)
(***************************************************************************)
EXTENDS Sorting, SequencesExt

CONSTANTS
  Lists,         \* what the register may return, in its order
  Limits,        \* values of maxChunkBytes
  RecordBytes,   \* length of the JSON of a repository, by ID
  FixedBytes,    \* length of an envelope without the digits of its numbers
  Batch,         \* ID of the batch
  Strangers,     \* [batch, list]: other manifests whose chunks may turn up
  MaxReplaced    \* bound: ConfigMaps with other content at the same time

ASSUME ManifestAssumption ==
  /\ Limits \subseteq Nat
  /\ FixedBytes \in Nat
  /\ MaxReplaced \in Nat
  /\ DOMAIN RecordBytes \subseteq Int
  /\ \A id \in DOMAIN RecordBytes : RecordBytes[id] \in Nat \ {0}
  /\ Lists \subseteq Seq(DOMAIN RecordBytes)

VARIABLES
  list,     \* the register's list
  limit,    \* maxChunkBytes
  stage,    \* "listed", then "encoded" or "rejected", then "read"
  chunks,   \* what EncodeManifest returned
  mounted,  \* data of the ConfigMaps the Pod mounts, by chunk
  result    \* what the worker read

vars == <<list, limit, stage, chunks, mounted, result>>

-----------------------------------------------------------------------------
(* NewManifest and EncodeManifest. *)

HasDuplicates(ids) == ~IsInjective(ids)

\* An index of a Job is a 32-bit number.
PowersOfTen == {10, 100, 1000, 10000, 100000, 1000000, 10000000, 100000000, 1000000000}

Digits(n) == 1 + Cardinality({power \in PowersOfTen : power <= n})

EnvelopeBytes(index, count) == FixedBytes + Digits(index) + Digits(count)

\* Mutant of EnvelopeBound: measured for a single chunk.
SingleChunkBound(ids) == EnvelopeBytes(0, 1)

\* Measured with numbers that are at least as long as those of any chunk.
EnvelopeBound(ids) == EnvelopeBytes(Len(ids) + 1, Len(ids) + 1)

RecordSize(id) == RecordBytes[id] + 1   \* with the separating comma

Fits(ids, max) ==
  /\ max > 0
  /\ \A i \in DOMAIN ids : EnvelopeBound(ids) + RecordSize(ids[i]) <= max

\* Mutant of Extend: the record that does not fit any more is lost.
LosingExtend(acc, id, base, max) ==
  IF acc.size + RecordSize(id) > max
  THEN [groups |-> Append(acc.groups, <<>>), size |-> base]
  ELSE [groups |-> Append(Front(acc.groups), Append(Last(acc.groups), id)),
        size   |-> acc.size + RecordSize(id)]

\* A record goes into the last group, or into a new one if that is full.
Extend(acc, id, base, max) ==
  IF acc.size + RecordSize(id) > max
  THEN [groups |-> Append(acc.groups, <<id>>), size |-> base + RecordSize(id)]
  ELSE [groups |-> Append(Front(acc.groups), Append(Last(acc.groups), id)),
        size   |-> acc.size + RecordSize(id)]

Cut(ids, max) ==
  LET base == EnvelopeBound(ids)
      upTo[i \in 0..Len(ids)] ==
        IF i = 0 THEN [groups |-> << <<>> >>, size |-> base]
        ELSE Extend(upTo[i - 1], ids[i], base, max)
  IN upTo[Len(ids)].groups

\* The chunks of a manifest, as the data of their ConfigMaps.
Encoded(batch, ids, max) ==
  LET groups == Cut(ids, max)
  IN [i \in 1..Len(groups) |->
        [batch |-> batch, index |-> i - 1, count |-> Len(groups), ids |-> groups[i]]]

Encode ==
  /\ stage = "listed"
  /\ IF HasDuplicates(Sorted(list)) \/ ~Fits(Sorted(list), limit)
     THEN stage' = "rejected" /\ UNCHANGED <<chunks, mounted>>
     ELSE /\ stage' = "encoded"
          /\ chunks' = Encoded(Batch, Sorted(list), limit)
          /\ mounted' = chunks'
  /\ UNCHANGED <<list, limit, result>>

-----------------------------------------------------------------------------
(* The ConfigMaps are immutable, but one may be deleted and created again    *)
(* with other content, such as that of another round or batch.              *)

Other ==
  UNION {LET ids == Sorted(m.list)
         IN IF Fits(ids, limit) THEN Range(Encoded(m.batch, ids, limit)) ELSE {}
         : m \in Strangers}

Replace(i) ==
  /\ stage = "encoded"
  /\ Cardinality({j \in DOMAIN mounted \ {i} : mounted[j] # chunks[j]}) < MaxReplaced
  /\ \E data \in Other : mounted' = [mounted EXCEPT ![i] = data]
  /\ UNCHANGED <<list, limit, stage, chunks, result>>

-----------------------------------------------------------------------------
(* The worker: readManifest, DecodeManifest and the check of the batch.     *)

\* Mutants of DigestHolds and InOrder: what DecodeManifest does is left out.
NoDigest(chunk) == TRUE
AsListed(files) == files

\* The file name has the index and the digest that the Job was created with.
File(i) == [index |-> i - 1, digest |-> chunks[i], data |-> mounted[i]]

DigestHolds(chunk) == chunk.digest = chunk.data

InOrder(files) ==
  LET order == Order([i \in DOMAIN files |-> files[i].index])
  IN [k \in DOMAIN files |-> files[order[k]]]

\* DecodeManifest, for files that all carry the same count: their number.
Consistent(ordered) ==
  \A i \in DOMAIN ordered :
    /\ ordered[i].index = i - 1
    /\ DigestHolds(ordered[i])
    /\ ordered[i].data.index = i - 1
    /\ ordered[i].data.count = Len(ordered)
    /\ ordered[i].data.batch = ordered[1].data.batch

BatchHolds(batch) == batch = Batch

Decoded(files) ==
  LET ordered == InOrder(files)
      ids == FlattenSeq([i \in DOMAIN ordered |-> ordered[i].data.ids])
  IN IF Consistent(ordered) /\ ~HasDuplicates(ids) /\ BatchHolds(ordered[1].data.batch)
     THEN [ok |-> TRUE, ids |-> ids]
     ELSE [ok |-> FALSE, ids |-> <<>>]

\* The directory may list the files in another order than that of the chunks.
Read ==
  /\ stage = "encoded"
  /\ LET files == [i \in DOMAIN chunks |-> File(i)]
     IN \E listing \in {files, Reverse(files)} : result' = Decoded(listing)
  /\ stage' = "read"
  /\ UNCHANGED <<list, limit, chunks, mounted>>

Init ==
  /\ list \in Lists
  /\ limit \in Limits
  /\ stage = "listed"
  /\ chunks = <<>> /\ mounted = <<>>
  /\ result = [ok |-> FALSE, ids |-> <<>>]

Next == Encode \/ (\E i \in DOMAIN mounted : Replace(i)) \/ Read

Spec == Init /\ [][Next]_vars

-----------------------------------------------------------------------------
(* Properties. *)

\* The length of the records of some repositories.
TotalBytes(ids) ==
  LET upTo[i \in 0..Len(ids)] == IF i = 0 THEN 0 ELSE upTo[i - 1] + RecordBytes[ids[i]]
  IN upTo[Len(ids)]

\* No chunk is longer than the limit: with its own index and count, and
\* commas between its records only (EncodeManifest).  The one chunk of an empty
\* list is measured against nothing; no round is made of it.
ChunksFit ==
  \A i \in DOMAIN chunks :
    LET ids == chunks[i].ids
    IN ids # <<>> =>
         EnvelopeBytes(chunks[i].index, chunks[i].count) + TotalBytes(ids) + Len(ids) - 1 <= limit

\* What Controller assumes of Groups: the chunks are a cut of the list, none of
\* them is empty, and no repository is lost or is in two of them. Their order is
\* that of the IDs, whatever the register's was: an attempt that reads the same
\* list again finds its ConfigMaps unchanged (NewManifest, EncodeManifest).
CutIntoGroups ==
  LET ids == FlattenSeq([i \in DOMAIN chunks |-> chunks[i].ids])
  IN stage \in {"encoded", "read"} =>
       /\ \A i \in DOMAIN chunks : list # <<>> => chunks[i].ids # <<>>
       /\ Range(ids) = Range(list)
       /\ IsAscending(ids)

\* What was encoded is read back, in whatever order the files are listed.
RoundTrip ==
  stage = "read" /\ mounted = chunks =>
    result.ok /\ IsAscending(result.ids) /\ Range(result.ids) = Range(list)

\* A worker never takes another list than the one its Job was created for,
\* also when a ConfigMap was replaced by that of another round or batch: its
\* index would then mean another repository than for the controller.
WorkerReadsItsJob ==
  stage = "read" /\ result.ok => Range(result.ids) = Range(list)
=============================================================================
