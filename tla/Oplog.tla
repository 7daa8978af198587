------------------------------- MODULE Oplog -------------------------------
(***************************************************************************)
(* Loro operations and version vectors, as the sync engine uses them.      *)
(*                                                                         *)
(* An operation is a pair <<peer, counter>>; every device commits under    *)
(* one peer, so the peer is the device.  A version vector that records     *)
(* counter c for peer p covers p's operations 1..c: it is represented by   *)
(* the set of operations it covers, so that merge is union and includes_vv *)
(* is set inclusion.  An update blob is the set of operations it carries,  *)
(* which need not start at counter 1.                                      *)
(*                                                                         *)
(* deps[o] is the version vector of the document in which operation o was  *)
(* committed: what it causally depends on.  Loro keeps an imported         *)
(* operation whose dependencies are missing aside ("pending"); it is not   *)
(* part of the document until they arrive.                                 *)
(***************************************************************************)
EXTENDS Integers, Sequences, FiniteSets

\* The declared range of a blob (partial_end_vv): for every peer present in
\* it, everything up to that peer's last counter.
Declared(ops) == UNION {{<<o[1], c>> : c \in 1..o[2]} : o \in ops}

\* The operations of peer p in a set.
OwnOps(ops, p) == {o \in ops : o[1] = p}

\* The document (oplog) that a set of imported operations gives: those whose
\* dependencies are all present.  deps of an operation is itself closed, so
\* one level is enough.
Applied(imported, deps) == {o \in imported : deps[o] \subseteq imported}

\* Fault: the frontier takes the highest seq seen.
IngestHighest(contig, lo, hi) == IF hi > contig THEN hi ELSE contig

\* Frontier bookkeeping of SyncEngine::ingest_seq over the seqs lo..hi of one
\* frame, in order: a seq at or below the frontier is a duplicate, the next
\* one advances it, one above leaves a hole and is not counted.
IngestRange(contig, lo, hi) ==
  IF lo <= contig + 1 /\ hi > contig THEN hi ELSE contig

MaxOf(a, b) == IF a >= b THEN a ELSE b
MinOf(S) == CHOOSE m \in S : \A x \in S : m <= x
=============================================================================
