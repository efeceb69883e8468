----------------------------- MODULE PipeProxy -----------------------------
(***************************************************************************)
(* A proxied pipe between two commands of a group (envexec/file_prepare.go *)
(* pipeProxy, envexec/file_pipe_linux.go pipeProxyZeroCopy): data of the   *)
(* producer goes on to the consumer, and the first limit bytes are stored  *)
(* for the response as well.  The consumer may exit at any time; then the  *)
(* rest is drained, so that the producer does not block.                   *)
(*                                                                         *)
(* The producer writes the chunks 1, 2, ..., Total; a chunk is what one    *)
(* system call moves, and the limit is counted in chunks.  The stored file *)
(* takes every write: storage is not full.                                 *)
(***************************************************************************)
EXTENDS Naturals, Sequences

CONSTANTS
    Total,     \* chunks the producer writes at most
    Limit,     \* Pipe.Limit in chunks
    Room       \* chunks the second pipe holds

\* Limit is an unsigned Size.
ASSUME ProxyAssumption == Total \in Nat /\ Limit \in Nat /\ Room \in Nat \ {0}

VARIABLES
    mode,        \* "copy" (DisableZeroCopy), "zero", or "none" before the pipes are made
    written,     \* chunks the producer has written
    eof,         \* the producer has closed its end
    src,         \* chunks in the first pipe
    dst,         \* chunks in the second pipe
    reading,     \* the consumer has its end open
    got,         \* chunks the consumer has read
    side,        \* chunks stored
    relayAt,     \* the relay: "store", "deliver" (copy: the chunk is stored, not yet written),
                 \* "drop" (zero: Tee has failed), "move", "done"
    chunk,       \* copy: the chunk it has read, 0 for none
    dstBroken,   \* the relay knows that the consumer is gone
    stored       \* done is closed: the stored file is complete

relayVars == <<dst, side, src, relayAt, chunk, dstBroken, stored>>
proxyVars == <<mode, written, eof, reading, got, relayVars>>

-----------------------------------------------------------------------------
(* The two commands *)

\* pipeProxy makes the pipes and starts the relay.
MakePipes ==
    /\ mode = "none"
    /\ mode' \in {"copy", "zero"}
    /\ UNCHANGED <<written, eof, reading, got, relayVars>>

Produce ==
    /\ mode # "none" /\ ~eof /\ written < Total
    /\ written' = written + 1 /\ src' = Append(src, written + 1)
    /\ UNCHANGED <<mode, eof, reading, got, dst, side, relayAt, chunk, dstBroken, stored>>

ProducerEnds ==
    /\ mode # "none" /\ ~eof /\ eof' = TRUE
    /\ UNCHANGED <<mode, written, reading, got, relayVars>>

ConsumerReads ==
    /\ reading /\ dst # << >>
    /\ got' = Append(got, Head(dst)) /\ dst' = Tail(dst)
    /\ UNCHANGED <<mode, written, eof, reading, src, side, relayAt, chunk, dstBroken, stored>>

ConsumerEnds ==
    /\ mode # "none" /\ reading /\ reading' = FALSE /\ dst' = << >>
    /\ UNCHANGED <<mode, written, eof, got, src, side, relayAt, chunk, dstBroken, stored>>

-----------------------------------------------------------------------------
(* pipeProxyZeroCopy *)

Storing == relayAt = "store" /\ Len(side) < Limit
AtEnd == src = << >> /\ eof

\* Tee to the consumer, then Splice to the stored file.
TeeChunk ==
    /\ mode = "zero" /\ Storing /\ ~dstBroken
    /\ src # << >> /\ reading /\ Len(dst) < Room
    /\ dst' = Append(dst, Head(src)) /\ side' = Append(side, Head(src)) /\ src' = Tail(src)
    /\ UNCHANGED <<mode, written, eof, reading, got, relayAt, chunk, dstBroken, stored>>

\* Tee fails when the consumer is gone: "fall through to handle this chunk via Drain".
TeeFails ==
    /\ mode = "zero" /\ Storing /\ ~dstBroken
    /\ src # << >> /\ ~reading
    /\ dstBroken' = TRUE /\ relayAt' = "drop"
    /\ UNCHANGED <<mode, written, eof, reading, got, src, dst, side, chunk, stored>>

\* The chunk at hand goes to /dev/null.
DropChunk ==
    /\ relayAt = "drop" /\ src # << >>
    /\ src' = Tail(src) /\ relayAt' = "store"
    /\ UNCHANGED <<mode, written, eof, reading, got, dst, side, chunk, dstBroken, stored>>

\* Without a consumer the chunks are still stored.
StoreOnly ==
    /\ mode = "zero" /\ Storing /\ dstBroken /\ src # << >>
    /\ side' = Append(side, Head(src)) /\ src' = Tail(src)
    /\ UNCHANGED <<mode, written, eof, reading, got, dst, relayAt, chunk, dstBroken, stored>>

\* Beyond the limit chunks are only passed on, or drained.
SpliceChunk ==
    /\ mode = "zero" /\ relayAt = "store" /\ Len(side) >= Limit /\ src # << >>
    /\ IF ~dstBroken /\ ~reading
       THEN dstBroken' = TRUE /\ UNCHANGED <<src, dst>>
       ELSE /\ dstBroken \/ Len(dst) < Room
            /\ dst' = IF dstBroken THEN dst ELSE Append(dst, Head(src))
            /\ src' = Tail(src) /\ UNCHANGED dstBroken
    /\ UNCHANGED <<mode, written, eof, reading, got, side, relayAt, chunk, stored>>

ZeroEnds ==
    /\ mode = "zero" /\ relayAt = "store" /\ AtEnd
    /\ relayAt' = "done" /\ stored' = TRUE
    /\ UNCHANGED <<mode, written, eof, reading, got, src, dst, side, chunk, dstBroken>>

-----------------------------------------------------------------------------
(* pipeProxy *)

\* TeeReader: a chunk of the limited reader is stored before it is written.
ReadTee ==
    /\ mode = "copy" /\ Storing /\ ~dstBroken /\ src # << >>
    /\ chunk' = Head(src) /\ src' = Tail(src) /\ side' = Append(side, Head(src))
    /\ relayAt' = "deliver"
    /\ UNCHANGED <<mode, written, eof, reading, got, dst, dstBroken, stored>>

\* Faulty variant: a chunk is written on although the consumer is gone.
DeliverBlocks ==
    /\ relayAt = "deliver" /\ Len(dst) < Room /\ reading
    /\ dst' = Append(dst, chunk)
    /\ chunk' = 0
    /\ relayAt' = IF stored THEN "move" ELSE "store"
    /\ UNCHANGED <<mode, written, eof, reading, got, src, side, dstBroken, stored>>

Deliver ==
    /\ relayAt = "deliver"
    /\ IF reading
       THEN Len(dst) < Room /\ dst' = Append(dst, chunk) /\ UNCHANGED dstBroken
       ELSE dstBroken' = TRUE /\ UNCHANGED dst
    /\ chunk' = 0
    /\ relayAt' = IF stored THEN "move" ELSE "store"
    /\ UNCHANGED <<mode, written, eof, reading, got, src, side, stored>>

\* io.Copy(buffer, lr): the rest up to the limit, when the consumer is gone.
StoreRest ==
    /\ mode = "copy" /\ Storing /\ dstBroken /\ src # << >>
    /\ side' = Append(side, Head(src)) /\ src' = Tail(src)
    /\ UNCHANGED <<mode, written, eof, reading, got, dst, relayAt, chunk, dstBroken, stored>>

\* close(done) at the limit or at the end of the data ...
CloseDone ==
    /\ mode = "copy" /\ relayAt = "store" /\ (Len(side) = Limit \/ AtEnd)
    /\ stored' = TRUE /\ relayAt' = "move"
    /\ UNCHANGED <<mode, written, eof, reading, got, src, dst, side, chunk, dstBroken>>

\* ... and copyAndClose: the rest goes on, and to io.Discard after a failed write.
MoveChunk ==
    /\ mode = "copy" /\ relayAt = "move" /\ src # << >>
    /\ src' = Tail(src)
    /\ IF dstBroken
       THEN UNCHANGED <<chunk, relayAt>>
       ELSE chunk' = Head(src) /\ relayAt' = "deliver"
    /\ UNCHANGED <<mode, written, eof, reading, got, dst, side, dstBroken, stored>>

CopyEnds ==
    /\ mode = "copy" /\ relayAt = "move" /\ AtEnd
    /\ relayAt' = "done"
    /\ UNCHANGED <<mode, written, eof, reading, got, src, dst, side, chunk, dstBroken, stored>>

-----------------------------------------------------------------------------

ProxyInit ==
    /\ mode = "none" /\ written = 0 /\ eof = FALSE
    /\ src = << >> /\ dst = << >> /\ reading = TRUE /\ got = << >>
    /\ side = << >> /\ relayAt = "store" /\ chunk = 0
    /\ dstBroken = FALSE /\ stored = FALSE

Relay ==
    \/ TeeChunk \/ TeeFails \/ DropChunk \/ StoreOnly \/ SpliceChunk \/ ZeroEnds
    \/ ReadTee \/ Deliver \/ StoreRest \/ CloseDone \/ MoveChunk \/ CopyEnds

ProxyNext == MakePipes \/ Produce \/ ProducerEnds \/ ConsumerReads \/ ConsumerEnds \/ Relay

\* The relay goes on; the producer ends and the consumer exits (each has a time limit).
ProxyFairness == WF_proxyVars(Relay) /\ WF_proxyVars(ProducerEnds) /\ WF_proxyVars(ConsumerEnds)

ProxySpec == ProxyInit /\ [][ProxyNext]_proxyVars /\ ProxyFairness

-----------------------------------------------------------------------------
(* Properties *)

Upto(n) == [k \in 1 .. n |-> k]
IsInitial(s) == s = Upto(Len(s))

DeliveredInOrder ==
    /\ IsInitial(got)
    /\ relayAt = "done" /\ reading /\ dst = << >> => got = Upto(written)

StoredWhileConsumed ==
    mode = "copy" \/ ~dstBroken =>
       /\ IsInitial(side)
       /\ stored => Len(side) = IF written < Limit THEN written ELSE Limit

\* The consumer reads what the producer wrote, without a gap and in order, and
\* all of it when it reads to the end: Tee and Splice, or Copy after Copy, must
\* hand over without losing or repeating a chunk at the limit.  While the
\* consumer is there, and in copy mode always, the stored file is the beginning
\* of the data, complete up to the limit when done is closed.
\* The producer never blocks for ever: what it has written is taken, also when
\* the consumer has exited, and the response gets its stored file.
ProxyPromise ==
    /\ [](DeliveredInOrder /\ StoredWhileConsumed)
    /\ eof ~> src = << >> /\ stored

\* The test of the drain reports the integrity of the stored file despite the
\* exit of the consumer; zero copy drops the chunk for which Tee failed.
StoredIsPrefix == IsInitial(side)
=============================================================================
