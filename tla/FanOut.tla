------------------------------- MODULE FanOut -------------------------------
(***************************************************************************)
(* fan_out_chunks (crates/busyncr-core/src/bench.rs): the calling thread   *)
(* reads a source once and hands every block to one chunker thread per     *)
(* candidate through bounded channels; dropping the senders ends the       *)
(* stream, and the threads are joined.                                     *)
(*                                                                         *)
(* A source is a sequence of blocks and a candidate is a number of blocks  *)
(* per chunk: like the real chunker it cuts by what it has read, wherever  *)
(* the blocks came apart.                                                  *)
(***************************************************************************)
EXTENDS Integers, Sequences

CONSTANT DEPTH      \* capacity of a chunker's channel

ASSUME DepthAssumption == DEPTH \in Nat \ {0}

VARIABLES
    rd,     \* the reader: source, blocks read, the block's next receiver
    wk      \* one chunker thread per candidate

Chunker(target) == [target |-> target, chan |-> <<>>, buf |-> <<>>, chunks |-> <<>>, st |-> "run"]

Spawned(source, configs) ==
    /\ rd' = [st |-> "reading", source |-> source, read |-> 0, to |-> 0, err |-> FALSE]
    /\ wk' = [w \in DOMAIN configs |-> Chunker(configs[w])]

\* A block is read, or the source is at its end and the senders are dropped.
read_block ==
    /\ rd.st = "reading" /\ rd.to = 0
    /\ rd' = IF rd.read < Len(rd.source) THEN [rd EXCEPT !.read = @ + 1, !.to = 1]
             ELSE [rd EXCEPT !.st = "joining"]
    /\ UNCHANGED wk

read_fails ==
    /\ rd.st = "reading" /\ rd.to = 0
    /\ rd' = [rd EXCEPT !.st = "joining", !.err = TRUE]
    /\ UNCHANGED wk

\* MUTANT: a chunker that stopped is waited for like any other.
Accepts_Waits(w) == Len(wk[w].chan) < DEPTH /\ wk[w].st = "run"

\* send returns: there is room, or the chunker has stopped and it fails.
Accepts(w) == Len(wk[w].chan) < DEPTH \/ wk[w].st # "run"

send_block ==
    /\ rd.to > 0 /\ Accepts(rd.to)
    /\ rd' = [rd EXCEPT !.to = IF @ < Len(wk) THEN @ + 1 ELSE 0]
    /\ wk' = IF wk[rd.to].st # "run" THEN wk
             ELSE [wk EXCEPT ![rd.to].chan = Append(@, rd.source[rd.read])]

\* The next block completes a chunk or not.
Fed(k) ==
    LET buf == Append(k.buf, Head(k.chan)) IN
    IF Len(buf) = k.target
    THEN [k EXCEPT !.chan = Tail(@), !.buf = <<>>, !.chunks = Append(@, buf)]
    ELSE [k EXCEPT !.chan = Tail(@), !.buf = buf]

AtEnd(k) == [k EXCEPT !.st = "done", !.buf = <<>>,
               !.chunks = IF k.buf = <<>> THEN @ ELSE Append(@, k.buf)]

chunk_block(w) ==
    /\ wk[w].st = "run"
    /\ \/ wk[w].chan # <<>> /\ wk' = [wk EXCEPT ![w] = Fed(@)]
       \/ /\ wk[w].chan = <<>> /\ rd.st = "joining"
          /\ wk' = [wk EXCEPT ![w] = AtEnd(@)]
    /\ UNCHANGED rd

\* An error or a panic ends a chunker and its channel.
chunker_fails(w) ==
    /\ wk[w].st = "run"
    /\ wk' = [wk EXCEPT ![w] = [@ EXCEPT !.st = "failed", !.chan = <<>>]]
    /\ UNCHANGED rd

Joined == rd.st = "joining" /\ \A w \in DOMAIN wk : wk[w].st # "run"

\* MUTANT: only the chunkers are asked how it went.
FanOutOk_IgnoresRead == \A w \in DOMAIN wk : wk[w].st = "done"

FanOutOk == ~rd.err /\ \A w \in DOMAIN wk : wk[w].st = "done"

FanOutStep == read_block \/ send_block \/ \E w \in DOMAIN wk : chunk_block(w)
FanOutFault == read_fails \/ \E w \in DOMAIN wk : chunker_fails(w)
=============================================================================
