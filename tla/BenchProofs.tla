---------------------------- MODULE BenchProofs ----------------------------
(***************************************************************************)
(* bench-chunking: the files in a report are whole, its figures add up,    *)
(* what it recommends is best, and the command runs out of steps, for any  *)
(* trees, candidate sizes, channel depth and costs, and whatever order     *)
(* reader and chunkers run or fail in.                                     *)
(***************************************************************************)
EXTENDS Bench, SequenceTheorems, FiniteSetTheorems, WellFoundedInduction, TLAPS

-----------------------------------------------------------------------------
(* The inductive invariant *)

\* A file as the report has it.
CutFile(file, cfgs) ==
    [ext |-> file.ext, path |-> file.path, bytes |-> Len(file.source) * BLOCK,
     per_candidate |-> [ci \in DOMAIN cfgs |-> Cut(file.source, cfgs[ci])]]

\* The first n files of a tree.
CutFiles(tree, n, cfgs) == [f \in 1 .. n |-> CutFile(tree[f], cfgs)]

FilesInv ==
    /\ DOMAIN files = DOMAIN cmd.trees
    /\ \A t \in DOMAIN cmd.trees :
         \E n \in 0 .. Len(cmd.trees[t]) : files[t] = CutFiles(cmd.trees[t], n, configs)

CommandInv ==
    /\ cmd \in Commands /\ pc \in {"sizes", "cutting", "done", "failed"}
    /\ configs \in Seq(Nat \ {0})
    /\ pc = "sizes" => rd.st = "idle" /\ \A t \in DOMAIN files : files[t] = <<>>
    /\ pc \in {"cutting", "done"} => configs # <<>> /\ (cmd.compression => Len(configs) = 1)

\* A chunker with sent blocks of the source behind it: chunks, buffer and
\* channel hold them, in this order.
Running(k, source, n, sent) ==
    /\ k.chunks \in Seq(Seq(Block)) /\ k.buf \in Seq(Block) /\ k.chan \in Seq(Block)
    /\ Len(k.buf) < n
    /\ Len(k.chunks) * n + Len(k.buf) + Len(k.chan) = sent
    /\ \A i \in 1 .. Len(k.chunks) : k.chunks[i] = SubSeq(source, (i - 1) * n + 1, i * n)
    /\ \A i \in 1 .. Len(k.buf) : k.buf[i] = source[Len(k.chunks) * n + i]
    /\ \A i \in 1 .. Len(k.chan) : k.chan[i] = source[Len(k.chunks) * n + Len(k.buf) + i]

Worker(k, source, n, sent) ==
    /\ DOMAIN k = {"target", "chan", "buf", "chunks", "st"} /\ k.target = n
    /\ k.st \in {"run", "done", "failed"}
    /\ k.st = "run" => Running(k, source, n, sent)

\* The blocks the reader has given to chunker w.
Sent(w) == IF rd.to = 0 \/ w < rd.to THEN rd.read ELSE rd.read - 1

ReaderInv ==
    /\ DOMAIN rd = {"st", "source", "read", "to", "err"}
    /\ rd.st \in {"reading", "joining"} /\ rd.err \in BOOLEAN
    /\ rd.source \in Seq(Block)
    /\ rd.read \in 0 .. Len(rd.source) /\ rd.to \in 0 .. Len(configs)
    /\ rd.to > 0 => rd.st = "reading" /\ rd.read > 0
    /\ rd.st = "joining" /\ ~rd.err => rd.read = Len(rd.source)

WorkersInv ==
    /\ DOMAIN wk = DOMAIN configs
    /\ \A w \in DOMAIN configs :
         /\ Worker(wk[w], rd.source, configs[w], Sent(w))
         /\ wk[w].st = "done" =>
              rd.st = "joining" /\ (~rd.err => wk[w].chunks = Cut(rd.source, configs[w]))

\* While threads run, the file they are at stays the next of its tree.
FanOutInv ==
    IF rd.st = "idle" THEN rd = Quiet /\ wk = <<>>
    ELSE /\ pc = "cutting" /\ Turn # {} /\ ~SinglePass /\ rd.source = Next1.source
         /\ ReaderInv /\ WorkersInv

CutInv == CommandInv /\ FilesInv /\ FanOutInv

-----------------------------------------------------------------------------
(* Numbers *)

\* Induction over the naturals, with the property as a set.
LEMMA NatInd ==
    ASSUME NEW G \in SUBSET Nat, 0 \in G, \A n \in G : n + 1 \in G
    PROVE  G = Nat
<1> DEFINE R == {p \in Nat \X Nat : p[1] < p[2]}
<1>1. IsWellFoundedOn(R, Nat)
  BY NatLessThanWellFounded DEF OpToRel
<1> HIDE DEF R
<1>2. SUFFICES ASSUME Nat \ G # {} PROVE FALSE
  OBVIOUS
<1>3. PICK x \in Nat \ G : \A y \in Nat \ G : ~ (<<y, x>> \in R)
  BY <1>1, <1>2, WFMin
<1>4. x # 0 /\ x - 1 \in Nat
  BY <1>3
<1>5. <<x - 1, x>> \in R
  BY <1>4 DEF R
<1>6. x - 1 \in G
  BY <1>3, <1>4, <1>5
<1> QED
  BY <1>3, <1>4, <1>6

\* A set of naturals that is not empty has a least element, which Min picks.
LEMMA MinIsLeast ==
    ASSUME NEW S \in SUBSET Nat, S # {}
    PROVE  Min(S) \in S /\ \A y \in S : Min(S) <= y
<1> DEFINE R == {p \in Nat \X Nat : p[1] < p[2]}
<1>1. IsWellFoundedOn(R, Nat)
  BY NatLessThanWellFounded DEF OpToRel
<1> HIDE DEF R
<1>2. PICK x \in S : \A y \in S : ~ (<<y, x>> \in R)
  BY <1>1, WFMin
<1>3. ASSUME NEW y \in S, ~ (x <= y) PROVE FALSE
  <2>1. x \in Nat /\ y \in Nat /\ y < x
    BY <1>3
  <2>2. <<y, x>> \in R
    BY <2>1 DEF R
  <2> QED
    BY <1>2, <2>2
<1> QED
  BY <1>3 DEF Min

\* How many chunks: whole ones, and one more for what is left.
LEMMA ChunkCount ==
    ASSUME NEW n \in Nat \ {0}, NEW c \in Nat, NEW b \in Nat, b < n
    PROVE  (c * n + b + n - 1) \div n = IF b = 0 THEN c ELSE c + 1
<1>1. CASE b = 0
  <2>1. c * n + b + n - 1 = n * c + (n - 1)
    BY <1>1
  <2> QED
    BY <1>1, <2>1
<1>2. CASE b # 0
  <2>1. c * n + b + n - 1 = n * (c + 1) + (b - 1)
    BY <1>2
  <2> QED
    BY <1>2, <2>1
<1> QED
  BY <1>1, <1>2

LEMMA TimesGrows ==
    ASSUME NEW i \in Nat, NEW c \in Nat, NEW n \in Nat, i <= c
    PROVE  i * n <= c * n
<1>1. PICK d \in Nat : c = i + d
  <2>1. c - i \in Nat /\ c = i + (c - i)
    OBVIOUS
  <2> QED
    BY <2>1
<1>2. c * n = i * n + d * n
  BY <1>1
<1>3. d * n \in Nat /\ i * n \in Nat
  OBVIOUS
<1> QED
  BY <1>2, <1>3

-----------------------------------------------------------------------------
(* One chunker *)

LEMMA NewChunker ==
    ASSUME NEW source, NEW n \in Nat \ {0}
    PROVE  Worker(Chunker(n), source, n, 0) /\ Chunker(n).st = "run"
  BY DEF Worker, Running, Chunker

\* The reader's next block goes to the end of the channel.
LEMMA ChunkerIsSent ==
    ASSUME NEW source \in Seq(Block), NEW n \in Nat \ {0}, NEW sent \in Nat,
           sent + 1 <= Len(source), NEW k, Worker(k, source, n, sent), k.st = "run"
    PROVE  Worker([k EXCEPT !.chan = Append(@, source[sent + 1])], source, n, sent + 1)
<1> DEFINE x == source[sent + 1]
           chan == Append(k.chan, x)
           z == [k EXCEPT !.chan = chan]
           l == Len(k.chan)
           c == Len(k.chunks)
           b == Len(k.buf)
<1>1. x \in Block
  OBVIOUS
<1>2. Running(k, source, n, sent)
  BY DEF Worker
<1>3. /\ DOMAIN z = DOMAIN k /\ z.target = n /\ z.st = "run"
      /\ z.chan = chan /\ z.buf = k.buf /\ z.chunks = k.chunks
  BY DEF Worker
<1>4. k.chan \in Seq(Block) /\ l \in Nat /\ c \in Nat /\ b \in Nat /\ c * n \in Nat
  BY <1>2 DEF Running
<1>5. chan \in Seq(Block) /\ Len(chan) = l + 1 /\ chan[l + 1] = x
      /\ \A i \in 1 .. l : chan[i] = k.chan[i]
  BY <1>1, <1>4, AppendProperties
<1>6. c * n + b + l = sent /\ \A i \in 1 .. l : k.chan[i] = source[c * n + b + i]
  BY <1>2 DEF Running
<1> DEFINE q == c * n
           p == q + b
<1> HIDE DEF q, b, l
<1>7. p \in Nat /\ p + l = sent
  <2>1. q \in Nat /\ q + b + l = sent
    BY <1>4, <1>6 DEF q
  <2> QED
    BY <1>4, <2>1
<1> HIDE DEF x, chan, p
<1>8. x = source[p + (l + 1)]
  <2>1. p + (l + 1) = sent + 1
    BY <1>4, <1>7
  <2> QED
    BY <2>1 DEF x
<1>9. \A i \in 1 .. (l + 1) : chan[i] = source[p + i]
  <2>1. \A i \in 1 .. l : chan[i] = source[p + i]
    BY <1>5, <1>6 DEF p, q
  <2> QED
    BY <1>4, <1>5, <1>8, <2>1
<1>10. p + (l + 1) = sent + 1
  BY <1>4, <1>7
<1> HIDE DEF z
<1>11. Running(z, source, n, sent + 1)
  BY <1>2, <1>3, <1>5, <1>9, <1>10 DEF Running, p, q, b
<1> QED
  BY <1>3, <1>11 DEF Worker, z, chan, x

\* A chunker takes a block: its buffer grows, or becomes the next chunk.
LEMMA ChunkerIsFed ==
    ASSUME NEW source \in Seq(Block), NEW n \in Nat \ {0}, NEW sent \in 0 .. Len(source),
           NEW k, Worker(k, source, n, sent), k.st = "run", k.chan # <<>>
    PROVE  Worker(Fed(k), source, n, sent) /\ Fed(k).st = "run"
<1> DEFINE x == Head(k.chan)
           rest == Tail(k.chan)
           buf == Append(k.buf, x)
           l == Len(k.chan)
           c == Len(k.chunks)
           b == Len(k.buf)
           p == c * n
<1>1. Running(k, source, n, sent) /\ k.target = n
  BY DEF Worker
<1>2. /\ k.chan \in Seq(Block) /\ k.buf \in Seq(Block) /\ k.chunks \in Seq(Seq(Block))
      /\ b < n /\ p + b + l = sent
      /\ \A i \in 1 .. b : k.buf[i] = source[p + i]
      /\ \A i \in 1 .. l : k.chan[i] = source[p + b + i]
      /\ \A i \in 1 .. c : k.chunks[i] = SubSeq(source, (i - 1) * n + 1, i * n)
  BY <1>1 DEF Running
<1>3. l \in Nat \ {0} /\ c \in Nat /\ b \in Nat /\ p \in Nat
  BY <1>2
<1>4. x = k.chan[1] /\ x \in Block
  BY <1>2
<1> HIDE DEF p
<1>5. x = source[p + b + 1]
  BY <1>2, <1>3, <1>4
<1>6. rest \in Seq(Block) /\ Len(rest) = l - 1 /\ \A i \in 1 .. (l - 1) : rest[i] = k.chan[i + 1]
  BY <1>2
<1>7. buf \in Seq(Block) /\ Len(buf) = b + 1 /\ buf[b + 1] = x /\ \A i \in 1 .. b : buf[i] = k.buf[i]
  BY <1>2, <1>4, AppendProperties
<1> HIDE DEF x, rest, buf, l, b
<1>8. \A i \in 1 .. (b + 1) : buf[i] = source[p + i]
  <2> SUFFICES ASSUME NEW i \in 1 .. (b + 1) PROVE buf[i] = source[p + i]
    OBVIOUS
  <2>1. CASE i = b + 1
    <3>1. p + b + 1 = p + i
      BY <1>3, <2>1
    <3> QED
      BY <1>5, <1>7, <2>1, <3>1
  <2>2. CASE i # b + 1
    BY <1>2, <1>3, <1>7, <2>2
  <2> QED
    BY <2>1, <2>2
<1>9. \A i \in 1 .. (l - 1) : rest[i] = source[p + (b + 1) + i]
  <2> SUFFICES ASSUME NEW i \in 1 .. (l - 1) PROVE rest[i] = source[p + (b + 1) + i]
    OBVIOUS
  <2>1. i + 1 \in 1 .. l /\ p + b + (i + 1) = p + (b + 1) + i
    BY <1>3
  <2> QED
    BY <1>2, <1>6, <2>1
<1>10. CASE b + 1 = n
  <2> DEFINE z == [k EXCEPT !.chan = rest, !.buf = <<>>, !.chunks = Append(@, buf)]
             chunks == Append(k.chunks, buf)
  <2>1. Fed(k) = z
    BY <1>1, <1>7, <1>10 DEF Fed, buf, rest, x
  <2>2. /\ DOMAIN z = DOMAIN k /\ z.target = n /\ z.st = "run"
        /\ z.chan = rest /\ z.buf = <<>> /\ z.chunks = chunks
    BY DEF Worker
  <2>3. chunks \in Seq(Seq(Block)) /\ Len(chunks) = c + 1 /\ chunks[c + 1] = buf
        /\ \A i \in 1 .. c : chunks[i] = k.chunks[i]
    BY <1>2, <1>7, AppendProperties
  <2>4. (c + 1) * n = p + n /\ (c + 1) * n <= Len(source) /\ ((c + 1) - 1) * n = p
    <3>1. (c + 1) * n = p + n
      BY <1>3 DEF p
    <3>2. (c + 1) - 1 = c
      BY <1>3
    <3>3. p + n <= Len(source)
      BY <1>2, <1>3, <1>10
    <3> QED
      BY <3>1, <3>2, <3>3 DEF p
  <2>5. buf = SubSeq(source, p + 1, p + n)
    <3>1. p + n <= Len(source)
      BY <2>4
    <3>2. SubSeq(source, p + 1, p + n) \in Seq(Block) /\ Len(SubSeq(source, p + 1, p + n)) = n
          /\ \A i \in 1 .. n : SubSeq(source, p + 1, p + n)[i] = source[p + i]
      BY <1>3, <3>1
    <3> DEFINE cut == SubSeq(source, p + 1, p + n)
    <3> HIDE DEF cut
    <3>3. Len(buf) = Len(cut) /\ \A i \in 1 .. Len(cut) : buf[i] = cut[i]
      BY <1>7, <1>8, <1>10, <3>2 DEF cut
    <3>4. buf = cut
      BY <1>7, <3>2, <3>3, SeqEqual DEF cut
    <3> QED
      BY <3>4 DEF cut
  <2>6. buf = SubSeq(source, ((c + 1) - 1) * n + 1, (c + 1) * n)
    BY <2>4, <2>5
  <2> HIDE DEF z, chunks
  <2>7. \A i \in 1 .. (c + 1) : chunks[i] = SubSeq(source, (i - 1) * n + 1, i * n)
    <3> HIDE DEF c
    <3> DEFINE Piece(i) == SubSeq(source, (i - 1) * n + 1, i * n)
    <3>1. buf = Piece(c + 1) /\ \A i \in 1 .. c : k.chunks[i] = Piece(i)
      BY <1>2, <2>6
    <3> HIDE DEF Piece
    <3>2. \A i \in 1 .. (c + 1) : chunks[i] = Piece(i)
      BY <1>3, <2>3, <3>1
    <3> QED
      BY <3>2 DEF Piece
  <2>8. \A i \in 1 .. (l - 1) : rest[i] = source[(c + 1) * n + 0 + i]
    <3> SUFFICES ASSUME NEW i \in 1 .. (l - 1) PROVE rest[i] = source[(c + 1) * n + 0 + i]
      OBVIOUS
    <3>1. p + n + 0 + i = p + (b + 1) + i
      BY <1>3, <1>10
    <3> QED
      BY <1>9, <2>4, <3>1
  <2>9. (c + 1) * n + 0 + (l - 1) = sent
    <3>1. p + n + 0 + (l - 1) = sent
      BY <1>2, <1>3, <1>10
    <3> QED
      BY <2>4, <3>1
  <2>10. Running(z, source, n, sent)
    <3>1. /\ z.chunks \in Seq(Seq(Block)) /\ z.buf \in Seq(Block) /\ z.chan \in Seq(Block)
          /\ Len(z.chunks) = c + 1 /\ Len(z.buf) = 0 /\ Len(z.chan) = l - 1
      BY <1>6, <2>2, <2>3
    <3>2. \A i \in 1 .. Len(z.chunks) : z.chunks[i] = SubSeq(source, (i - 1) * n + 1, i * n)
      BY <2>2, <2>7, <3>1
    <3>3. \A i \in 1 .. Len(z.chan) : z.chan[i] = source[Len(z.chunks) * n + Len(z.buf) + i]
      BY <2>2, <2>8, <3>1
    <3>4. Len(z.chunks) * n + Len(z.buf) + Len(z.chan) = sent
      BY <2>9, <3>1
    <3>5. Len(z.buf) < n /\ \A i \in 1 .. Len(z.buf) : FALSE
      BY <3>1
    <3> QED
      BY <3>1, <3>2, <3>3, <3>4, <3>5 DEF Running
  <2> QED
    BY <2>1, <2>2, <2>10 DEF Worker
<1>11. CASE b + 1 # n
  <2> DEFINE z == [k EXCEPT !.chan = rest, !.buf = buf]
  <2>1. Fed(k) = z
    BY <1>1, <1>7, <1>11 DEF Fed, buf, rest, x
  <2>2. /\ DOMAIN z = DOMAIN k /\ z.target = n /\ z.st = "run"
        /\ z.chan = rest /\ z.buf = buf /\ z.chunks = k.chunks
    BY DEF Worker
  <2>3. b + 1 < n /\ p + (b + 1) + (l - 1) = sent
    BY <1>2, <1>3, <1>11
  <2> HIDE DEF z
  <2>4. Running(z, source, n, sent)
    BY <1>2, <1>6, <1>7, <1>8, <1>9, <2>2, <2>3 DEF Running, p
  <2> QED
    BY <2>1, <2>2, <2>4 DEF Worker
<1> QED
  BY <1>10, <1>11

\* A chunker that has had the whole source leaves what a chunker alone with it
\* would make of it.
LEMMA ChunkerEnds ==
    ASSUME NEW source \in Seq(Block), NEW n \in Nat \ {0}, NEW k,
           Worker(k, source, n, Len(source)), k.st = "run", k.chan = <<>>
    PROVE  AtEnd(k).chunks = Cut(source, n)
<1> DEFINE L == Len(source)
           c == Len(k.chunks)
           b == Len(k.buf)
           p == c * n
           all == IF k.buf = <<>> THEN k.chunks ELSE Append(k.chunks, k.buf)
           m == IF b = 0 THEN c ELSE c + 1
           End(i) == IF i * n < L THEN i * n ELSE L
           Piece(i) == SubSeq(source, (i - 1) * n + 1, End(i))
<1>1. AtEnd(k).chunks = all
  BY DEF AtEnd, Worker
<1>2. Running(k, source, n, L) /\ Len(k.chan) = 0
  BY DEF Worker
<1>3. /\ k.buf \in Seq(Block) /\ k.chunks \in Seq(Seq(Block))
      /\ b < n /\ \A i \in 1 .. b : k.buf[i] = source[p + i]
      /\ \A i \in 1 .. c : k.chunks[i] = SubSeq(source, (i - 1) * n + 1, i * n)
  BY <1>2 DEF Running
<1>4. c \in Nat /\ b \in Nat /\ p \in Nat /\ L \in Nat
  BY <1>3
<1>5. L = p + b
  <2>1. p + b + 0 = L
    BY <1>2 DEF Running
  <2> HIDE DEF p, b
  <2> QED
    BY <1>4, <2>1
<1>6. (L + n - 1) \div n = m
  <2>1. (p + b + n - 1) \div n = m
    BY <1>3, <1>4, ChunkCount
  <2> QED
    BY <1>5, <2>1
<1>7. all \in Seq(Seq(Block)) /\ Len(all) = m
      /\ (\A i \in 1 .. c : all[i] = k.chunks[i]) /\ (b # 0 => all[c + 1] = k.buf)
  <2>1. b = 0 <=> k.buf = <<>>
    BY <1>3
  <2>2. CASE b = 0
    BY <1>3, <2>1, <2>2
  <2>3. CASE b # 0
    <3>1. all = Append(k.chunks, k.buf)
      BY <2>1, <2>3
    <3> HIDE DEF all
    <3> QED
      BY <1>3, <2>3, <3>1, AppendProperties
  <2> QED
    BY <2>2, <2>3
<1> HIDE DEF all
<1>8. ASSUME NEW i \in 1 .. c PROVE k.chunks[i] = Piece(i)
  <2>1. i * n <= p
    <3>1. i \in Nat /\ i <= c
      BY <1>4
    <3> QED
      BY <1>4, <3>1, TimesGrows
  <2>2. i * n \in Nat
    OBVIOUS
  <2>3. End(i) = i * n
    <3> DEFINE q == i * n
    <3> HIDE DEF p, q, b, L
    <3>1. q <= L
      BY <1>4, <1>5, <2>1, <2>2 DEF q
    <3>2. (IF q < L THEN q ELSE L) = q
      BY <1>4, <2>2, <3>1 DEF q
    <3> QED
      BY <3>2 DEF q, L
  <2> QED
    BY <1>3, <2>3
<1>9. ASSUME b # 0 PROVE k.buf = Piece(c + 1)
  <2>1. (c + 1) * n = p + n /\ (c + 1) - 1 = c
    BY <1>4
  <2> HIDE DEF p, b, L
  <2>2. End(c + 1) = L
    <3>1. ~ (p + n < L)
      BY <1>3, <1>4, <1>5
    <3> QED
      BY <2>1, <3>1 DEF L
  <2>3. Piece(c + 1) = SubSeq(source, p + 1, L)
    BY <2>1, <2>2 DEF p
  <2> DEFINE cut == SubSeq(source, p + 1, L)
  <2>4. cut \in Seq(Block) /\ Len(cut) = b /\ \A i \in 1 .. b : cut[i] = source[p + i]
    BY <1>4, <1>5, <1>9 DEF L
  <2> HIDE DEF cut
  <2>5. Len(k.buf) = Len(cut) /\ \A i \in 1 .. Len(cut) : k.buf[i] = cut[i]
    BY <1>3, <2>4 DEF b
  <2>6. k.buf = cut
    BY <1>3, <2>4, <2>5, SeqEqual
  <2> QED
    BY <2>3, <2>6 DEF cut
<1> HIDE DEF b, p, L, End, Piece
<1>10. \A i \in 1 .. m : all[i] = Piece(i)
  BY <1>4, <1>7, <1>8, <1>9
<1>11. all = [i \in 1 .. m |-> Piece(i)]
  <2>1. all = [i \in 1 .. Len(all) |-> all[i]]
    BY <1>7
  <2> HIDE DEF m
  <2> QED
    BY <1>7, <1>10, <2>1
<1>12. Cut(source, n) = [i \in 1 .. m |-> Piece(i)]
  BY <1>6 DEF Cut, Piece, End, L
<1> QED
  BY <1>1, <1>11, <1>12

-----------------------------------------------------------------------------
(* Files and candidates *)

LEMMA CutFilesEmpty ==
    ASSUME NEW tree, NEW cfgs PROVE CutFiles(tree, 0, cfgs) = <<>>
  BY DEF CutFiles

LEMMA CutFilesLen ==
    ASSUME NEW tree, NEW cfgs, NEW n \in Nat
    PROVE  Len(CutFiles(tree, n, cfgs)) = n /\ DOMAIN CutFiles(tree, n, cfgs) = 1 .. n
  BY DEF CutFiles

LEMMA CutFilesAppend ==
    ASSUME NEW tree, NEW cfgs, NEW n \in Nat
    PROVE  Append(CutFiles(tree, n, cfgs), CutFile(tree[n + 1], cfgs)) = CutFiles(tree, n + 1, cfgs)
<1> DEFINE F(f) == CutFile(tree[f], cfgs)
           S == {F(f) : f \in 1 .. (n + 1)}
           s == [f \in 1 .. n |-> F(f)]
           t == [f \in 1 .. (n + 1) |-> F(f)]
<1>1. s \in Seq(S) /\ t \in Seq(S) /\ F(n + 1) \in S /\ Len(s) = n /\ Len(t) = n + 1
  <2> HIDE DEF F
  <2> QED
    OBVIOUS
<1>2. (\A f \in 1 .. n : s[f] = F(f)) /\ \A f \in 1 .. (n + 1) : t[f] = F(f)
  <2> HIDE DEF F
  <2> QED
    OBVIOUS
<1> DEFINE u == Append(s, F(n + 1))
<1> HIDE DEF F, S, s, t
<1>3. u \in Seq(S) /\ Len(u) = n + 1 /\ u[n + 1] = F(n + 1) /\ \A f \in 1 .. n : u[f] = s[f]
  BY <1>1, AppendProperties
<1> HIDE DEF u
<1>4. \A f \in 1 .. (n + 1) : u[f] = t[f]
  BY <1>2, <1>3
<1>5. u = t
  BY <1>1, <1>3, <1>4, SeqEqual
<1> QED
  BY <1>5 DEF u, s, t, F, CutFiles

-----------------------------------------------------------------------------
(* Recursion over the naturals: a step function has iterates, and what each  *)
(* step keeps holds of all of them.                                          *)

IsIterate(up, base, L, step) ==
    up[0] = base /\ \A n \in 1 .. L : up[n] = step[<<n, up[n - 1]>>]

LEMMA Iterates ==
    ASSUME NEW V, NEW base \in V, NEW L \in Nat, NEW step \in [(1 .. L) \X V -> V]
    PROVE  \E up \in [0 .. L -> V] : IsIterate(up, base, L, step)
<1> DEFINE G == {m \in Nat : m <= L => \E up \in [0 .. m -> V] : IsIterate(up, base, m, step)}
<1>1. 0 \in G
  <2> DEFINE none == [n \in 0 .. 0 |-> base]
  <2>1. none \in [0 .. 0 -> V] /\ IsIterate(none, base, 0, step)
    BY DEF IsIterate
  <2> HIDE DEF none
  <2> QED
    BY <2>1
<1>2. ASSUME NEW m \in G PROVE m + 1 \in G
  <2>0. m \in Nat
    OBVIOUS
  <2>1. SUFFICES ASSUME m + 1 <= L
                 PROVE  \E up \in [0 .. (m + 1) -> V] : IsIterate(up, base, m + 1, step)
    BY <2>0
  <2>2. PICK up \in [0 .. m -> V] : IsIterate(up, base, m, step)
    BY <2>0, <2>1
  <2> DEFINE last == step[<<m + 1, up[m]>>]
             more == [n \in 0 .. (m + 1) |-> IF n <= m THEN up[n] ELSE last]
  <2>3. last \in V
    <3>1. m + 1 \in 1 .. L /\ m \in 0 .. m
      BY <2>0, <2>1
    <3>2. <<m + 1, up[m]>> \in (1 .. L) \X V
      BY <2>2, <3>1
    <3> QED
      BY <3>2
  <2> HIDE DEF last
  <2>4. more \in [0 .. (m + 1) -> V]
    BY <2>0, <2>2, <2>3
  <2>5. more[m + 1] = last /\ \A n \in 0 .. m : more[n] = up[n]
    BY <2>0
  <2> HIDE DEF more
  <2>6. ASSUME NEW n \in 1 .. (m + 1) PROVE more[n] = step[<<n, more[n - 1]>>]
    <3>1. CASE n = m + 1
      <4>1. n - 1 = m /\ m \in 0 .. m
        BY <3>1, <2>0
      <4> QED
        BY <4>1, <3>1, <2>5 DEF last
    <3>2. CASE n # m + 1
      <4>1. n \in 1 .. m /\ n \in 0 .. m /\ n - 1 \in 0 .. m
        BY <3>2, <2>0
      <4> QED
        BY <4>1, <2>2, <2>5 DEF IsIterate
    <3> QED
      BY <3>1, <3>2
  <2>7. more[0] = base
    <3>1. 0 \in 0 .. m
      BY <2>0
    <3> QED
      BY <3>1, <2>2, <2>5 DEF IsIterate
  <2>8. IsIterate(more, base, m + 1, step)
    BY <2>6, <2>7 DEF IsIterate
  <2> QED
    BY <2>4, <2>8
<1>3. L \in G
  <2>1. G \in SUBSET Nat
    OBVIOUS
  <2> HIDE DEF G
  <2> QED
    BY <2>1, <1>1, <1>2, NatInd
<1> QED
  BY <1>3

LEMMA StaysIn ==
    ASSUME NEW L \in Nat, NEW up, NEW V, up[0] \in V[0],
           \A n \in 1 .. L : up[n - 1] \in V[n - 1] => up[n] \in V[n]
    PROVE  \A n \in 0 .. L : up[n] \in V[n]
<1> DEFINE G == {m \in Nat : m <= L => up[m] \in V[m]}
<1>1. 0 \in G
  OBVIOUS
<1>2. ASSUME NEW m \in G PROVE m + 1 \in G
  <2>1. m \in Nat
    OBVIOUS
  <2>2. SUFFICES ASSUME m + 1 <= L PROVE up[m + 1] \in V[m + 1]
    BY <2>1
  <2>3. m + 1 \in 1 .. L /\ (m + 1) - 1 = m /\ m <= L
    BY <2>1, <2>2
  <2> QED
    BY <2>1, <2>3
<1>3. G = Nat
  <2>1. G \in SUBSET Nat
    OBVIOUS
  <2> HIDE DEF G
  <2> QED
    BY <2>1, <1>1, <1>2, NatInd
<1> QED
  BY <1>3

\* The candidates are sizes the chunker takes, and there is one.
LEMMA Candidates ==
    ASSUME NEW sizes \in Seq(Size), sizes # <<>>,
           \A k \in DOMAIN sizes : parse_size(sizes[k]) \in Nat \ {0}
    PROVE  candidate_configs(sizes) \in Seq(Nat \ {0}) /\ candidate_configs(sizes) # <<>>
<1> DEFINE P == Nat \ {0}
           L == Len(sizes)
           size(k) == parse_size(sizes[k])
           fresh == [k \in 1 .. L |-> \A j \in 1 .. k - 1 : size(j) # size(k)]
           upto[k \in 0 .. L] == IF k = 0 THEN <<>>
                                 ELSE IF fresh[k] THEN Append(upto[k - 1], size(k))
                                 ELSE upto[k - 1]
           step == [x \in (1 .. L) \X Seq(P) |-> IF fresh[x[1]] THEN Append(x[2], size(x[1])) ELSE x[2]]
<1>0. L \in Nat /\ L >= 1 /\ \A k \in 1 .. L : size(k) \in P
  <2> HIDE DEF size
  <2>1. \A k \in DOMAIN sizes : size(k) \in P
    BY DEF size
  <2> QED
    BY <2>1
<1>1. candidate_configs(sizes) = upto[L]
  BY DEF candidate_configs
<1>2. fresh[1]
  <2> HIDE DEF size
  <2>1. 1 \in 1 .. L /\ \A j \in 1 .. 1 - 1 : FALSE
    BY <1>0
  <2> QED
    BY <2>1
<1> HIDE DEF fresh, size
<1>3. step \in [(1 .. L) \X Seq(P) -> Seq(P)]
  <2> SUFFICES ASSUME NEW x \in (1 .. L) \X Seq(P)
               PROVE  (IF fresh[x[1]] THEN Append(x[2], size(x[1])) ELSE x[2]) \in Seq(P)
    OBVIOUS
  <2>1. x[2] \in Seq(P) /\ size(x[1]) \in P
    BY <1>0
  <2> HIDE DEF P
  <2> QED
    BY <2>1
<1>4. <<>> \in Seq(P)
  OBVIOUS
<1>5. PICK up \in [0 .. L -> Seq(P)] : IsIterate(up, <<>>, L, step)
  <2> HIDE DEF step, P, L
  <2> QED
    BY <1>0, <1>3, <1>4, Iterates
<1>6. up = [k \in 0 .. L |-> IF k = 0 THEN <<>>
                             ELSE IF fresh[k] THEN Append(up[k - 1], size(k)) ELSE up[k - 1]]
  <2>1. ASSUME NEW k \in 1 .. L
        PROVE  up[k] = IF fresh[k] THEN Append(up[k - 1], size(k)) ELSE up[k - 1]
    <3>1. k - 1 \in 0 .. L
      BY <1>0
    <3>2. <<k, up[k - 1]>> \in (1 .. L) \X Seq(P)
      BY <1>5, <3>1
    <3>3. up[k] = step[<<k, up[k - 1]>>]
      BY <1>5 DEF IsIterate
    <3> HIDE DEF L, P
    <3> QED
      BY <3>2, <3>3
  <2>2. up[0] = <<>>
    BY <1>5 DEF IsIterate
  <2> DEFINE E(k) == IF k = 0 THEN <<>>
                     ELSE IF fresh[k] THEN Append(up[k - 1], size(k)) ELSE up[k - 1]
  <2> HIDE DEF L, P, step
  <2>3. ASSUME NEW k \in 0 .. L PROVE up[k] = E(k)
    <3>1. CASE k = 0
      BY <2>2, <3>1
    <3>2. CASE k # 0
      <4>1. k \in 1 .. L
        BY <1>0, <3>2
      <4> QED
        BY <2>1, <3>2, <4>1
    <3> QED
      BY <3>1, <3>2
  <2> HIDE DEF E
  <2>4. up = [k \in 0 .. L |-> E(k)]
    BY <1>5, <2>3
  <2> QED
    BY <2>4 DEF E
<1>7. upto = [k \in 0 .. L |-> IF k = 0 THEN <<>>
                               ELSE IF fresh[k] THEN Append(upto[k - 1], size(k)) ELSE upto[k - 1]]
  <2> HIDE DEF L, P, step
  <2> QED
    BY <1>6 DEF upto
<1> DEFINE V == [n \in 0 .. L |-> IF n = 0 THEN {<<>>} ELSE Seq(P) \ {<<>>}]
<1> HIDE DEF upto, L, step, P
<1>8. upto[0] \in V[0]
  BY <1>0, <1>7
<1>9. ASSUME NEW n \in 1 .. L, upto[n - 1] \in V[n - 1] PROVE upto[n] \in V[n]
  <2>1. n - 1 \in 0 .. L /\ n \in 0 .. L /\ size(n) \in P /\ n # 0 /\ (n - 1 = 0 <=> n = 1)
    BY <1>0
  <2>2. upto[n] = IF fresh[n] THEN Append(upto[n - 1], size(n)) ELSE upto[n - 1]
    BY <1>7, <2>1, Zenon
  <2>3. upto[n - 1] \in Seq(P) /\ (n # 1 => upto[n - 1] # <<>>)
    <3>1. V[n - 1] = IF n - 1 = 0 THEN {<<>>} ELSE Seq(P) \ {<<>>}
      BY <2>1
    <3>2. <<>> \in Seq(P)
      OBVIOUS
    <3>3. upto[n - 1] \in V[n - 1]
      BY <1>9
    <3> HIDE DEF V
    <3>4. CASE n = 1
      BY <2>1, <3>1, <3>2, <3>3, <3>4
    <3>5. CASE n # 1
      BY <2>1, <3>1, <3>3, <3>5
    <3> QED
      BY <3>4, <3>5
  <2>4. upto[n] \in Seq(P)
    BY <2>1, <2>2, <2>3
  <2>5. upto[n] # <<>>
    <3>1. CASE fresh[n]
      <4>1. Len(Append(upto[n - 1], size(n))) = Len(upto[n - 1]) + 1 /\ Len(upto[n - 1]) \in Nat
        BY <2>1, <2>3
      <4> QED
        BY <2>2, <3>1, <4>1
    <3>2. CASE ~fresh[n]
      BY <1>2, <2>2, <2>3, <3>2
    <3> QED
      BY <3>1, <3>2
  <2> QED
    BY <1>0, <2>1, <2>4, <2>5
<1>10. \A n \in 0 .. L : upto[n] \in V[n]
  <2> HIDE DEF V
  <2> QED
    BY <1>0, <1>8, <1>9, StaysIn
<1>11. upto[L] \in Seq(P) \ {<<>>}
  BY <1>0, <1>10
<1> QED
  BY <1>1, <1>11 DEF P

-----------------------------------------------------------------------------
(* The threads of one file *)

\* A step of the threads leaves the command where it is.
LEMMA ThreadsKeep ==
    ASSUME CutInv, rd.st # "idle", UNCHANGED <<cutVars, pc, files>>,
           rd'.source = rd.source, rd'.st # "idle", ReaderInv', WorkersInv'
    PROVE  CutInv'
<1>1. UNCHANGED <<cmd, configs, files, pc>>
  BY DEF cutVars
<1>2. CommandInv'
  BY <1>1 DEF CutInv, CommandInv, FanOutInv
<1>3. FilesInv'
  BY <1>1 DEF CutInv, FilesInv
<1>4. Turn' = Turn /\ Next1' = Next1 /\ SinglePass' = SinglePass
  BY <1>1 DEF Turn, Next1, Tree, SinglePass
<1>5. pc = "cutting" /\ Turn # {} /\ ~SinglePass /\ rd.source = Next1.source
  BY DEF CutInv, FanOutInv
<1> HIDE DEF ReaderInv, WorkersInv
<1> QED
  BY <1>1, <1>2, <1>3, <1>4, <1>5 DEF CutInv, FanOutInv

\* What the threads' steps rely on.
LEMMA Fanning ==
    ASSUME CutInv, rd.st # "idle"
    PROVE  /\ ReaderInv /\ WorkersInv /\ configs \in Seq(Nat \ {0})
           /\ Len(wk) = Len(configs) /\ Len(configs) \in Nat \ {0}
           /\ \A w \in DOMAIN configs : configs[w] \in Nat \ {0} /\ w \in Nat \ {0}
<1>1. ReaderInv /\ WorkersInv /\ configs \in Seq(Nat \ {0}) /\ configs # <<>>
  BY DEF CutInv, FanOutInv, CommandInv
<1>2. DOMAIN configs = 1 .. Len(configs) /\ Len(configs) \in Nat \ {0}
  BY <1>1
<1>3. DOMAIN wk = 1 .. Len(configs)
  BY <1>1, <1>2 DEF WorkersInv
<1> QED
  BY <1>1, <1>2, <1>3

LEMMA ReadKeeps ==
    ASSUME CutInv, read_block, UNCHANGED <<cutVars, pc, files>>
    PROVE  CutInv'
<1>0. rd.st = "reading" /\ rd.to = 0 /\ wk' = wk /\ configs' = configs
  BY DEF read_block, cutVars
<1>1. /\ ReaderInv /\ WorkersInv /\ Len(configs) \in Nat \ {0}
      /\ \A w \in DOMAIN configs : w \in Nat \ {0}
  BY <1>0, Fanning
<1>2. Len(rd.source) \in Nat
  BY <1>1 DEF ReaderInv
<1>3. CASE rd.read < Len(rd.source)
  <2>1. rd' = [rd EXCEPT !.read = @ + 1, !.to = 1]
    BY <1>3 DEF read_block
  <2>2. /\ DOMAIN rd' = DOMAIN rd /\ rd'.st = rd.st /\ rd'.source = rd.source
        /\ rd'.read = rd.read + 1 /\ rd'.to = 1 /\ rd'.err = rd.err
    BY <1>1, <2>1 DEF ReaderInv
  <2>3. ReaderInv'
    BY <1>0, <1>1, <1>2, <1>3, <2>2 DEF ReaderInv
  <2>4. \A w \in DOMAIN configs : Sent(w)' = Sent(w)
    <3>1. \A w \in DOMAIN configs : ~ (w < 1)
      BY <1>1
    <3>2. rd.read \in Nat
      BY <1>1 DEF ReaderInv
    <3> QED
      BY <1>0, <2>2, <3>1, <3>2 DEF Sent
  <2>5. WorkersInv'
    BY <1>0, <1>1, <2>2, <2>4 DEF WorkersInv
  <2> QED
    BY <1>0, <2>2, <2>3, <2>5, ThreadsKeep
<1>4. CASE ~ (rd.read < Len(rd.source))
  <2>1. rd' = [rd EXCEPT !.st = "joining"]
    BY <1>4 DEF read_block
  <2>2. /\ DOMAIN rd' = DOMAIN rd /\ rd'.st = "joining" /\ rd'.source = rd.source
        /\ rd'.read = rd.read /\ rd'.to = 0 /\ rd'.err = rd.err
    BY <1>0, <1>1, <2>1 DEF ReaderInv
  <2>3. ReaderInv'
    BY <1>0, <1>1, <1>2, <1>4, <2>2 DEF ReaderInv
  <2>4. \A w \in DOMAIN configs : Sent(w)' = Sent(w)
    BY <1>0, <2>2 DEF Sent
  <2>5. WorkersInv'
    BY <1>0, <1>1, <2>2, <2>4 DEF WorkersInv
  <2> QED
    BY <1>0, <2>2, <2>3, <2>5, ThreadsKeep
<1> QED
  BY <1>3, <1>4

LEMMA ReadFailsKeeps ==
    ASSUME CutInv, read_fails, UNCHANGED <<cutVars, pc, files>>
    PROVE  CutInv'
<1>0. /\ rd.st = "reading" /\ rd.to = 0 /\ wk' = wk /\ configs' = configs
      /\ rd' = [rd EXCEPT !.st = "joining", !.err = TRUE]
  BY DEF read_fails, cutVars
<1>1. ReaderInv /\ WorkersInv
  BY <1>0, Fanning
<1>2. /\ DOMAIN rd' = DOMAIN rd /\ rd'.st = "joining" /\ rd'.source = rd.source
      /\ rd'.read = rd.read /\ rd'.to = 0 /\ rd'.err = TRUE
  BY <1>0, <1>1 DEF ReaderInv
<1>3. ReaderInv'
  BY <1>0, <1>1, <1>2 DEF ReaderInv
<1>4. \A w \in DOMAIN configs : Sent(w)' = Sent(w)
  BY <1>0, <1>2 DEF Sent
<1>5. WorkersInv'
  BY <1>0, <1>1, <1>2, <1>4 DEF WorkersInv
<1> QED
  BY <1>0, <1>2, <1>3, <1>5, ThreadsKeep

LEMMA SendKeeps ==
    ASSUME CutInv, send_block, UNCHANGED <<cutVars, pc, files>>
    PROVE  CutInv'
<1>0. rd.to > 0 /\ configs' = configs
  BY DEF send_block, cutVars
<1>1. rd.st # "idle"
  BY <1>0 DEF CutInv, FanOutInv, Quiet
<1>2. /\ ReaderInv /\ WorkersInv /\ Len(wk) = Len(configs) /\ Len(configs) \in Nat \ {0}
      /\ DOMAIN configs = 1 .. Len(configs)
      /\ \A w \in DOMAIN configs : configs[w] \in Nat \ {0} /\ w \in Nat \ {0}
  BY <1>1, Fanning
<1>3. /\ rd.st = "reading" /\ rd.read \in Nat \ {0} /\ rd.read <= Len(rd.source)
      /\ rd.to \in DOMAIN configs /\ rd.source \in Seq(Block) /\ Len(rd.source) \in Nat
  BY <1>0, <1>2 DEF ReaderInv
<1> DEFINE to == rd.to
           next == IF to < Len(configs) THEN to + 1 ELSE 0
<1>4. rd' = [rd EXCEPT !.to = next]
  BY <1>2 DEF send_block
<1>5. /\ DOMAIN rd' = DOMAIN rd /\ rd'.st = rd.st /\ rd'.source = rd.source
      /\ rd'.read = rd.read /\ rd'.to = next /\ rd'.err = rd.err
  BY <1>2, <1>4 DEF ReaderInv
<1>6. ReaderInv'
  BY <1>0, <1>2, <1>3, <1>5 DEF ReaderInv
<1>7. \A w \in DOMAIN configs :
        Sent(w)' = IF w = to THEN rd.read ELSE Sent(w)
  <2> SUFFICES ASSUME NEW w \in DOMAIN configs PROVE Sent(w)' = IF w = to THEN rd.read ELSE Sent(w)
    OBVIOUS
  <2>1. w \in 1 .. Len(configs) /\ to \in 1 .. Len(configs)
    BY <1>2, <1>3
  <2> QED
    BY <1>2, <1>3, <1>5, <2>1 DEF Sent
<1>8. Sent(to) = rd.read - 1
  BY <1>0, <1>2, <1>3 DEF Sent
<1> DEFINE k == wk[to]
           n == configs[to]
           fed == [k EXCEPT !.chan = Append(@, rd.source[rd.read])]
<1>9. /\ wk' = IF k.st # "run" THEN wk ELSE [wk EXCEPT ![to] = fed]
      /\ DOMAIN wk = DOMAIN configs
  BY <1>2 DEF send_block, WorkersInv
<1>10. Worker(k, rd.source, n, rd.read - 1)
  BY <1>2, <1>3, <1>8 DEF WorkersInv
<1>11. ASSUME k.st = "run" PROVE Worker(fed, rd.source, n, rd.read) /\ fed.st = "run"
  <2> DEFINE sent == rd.read - 1
  <2>1. sent \in Nat /\ sent + 1 = rd.read /\ n \in Nat \ {0}
    BY <1>2, <1>3
  <2>2. fed.st = "run"
    BY <1>10, <1>11 DEF Worker
  <2> HIDE DEF k, n, sent
  <2>3. Worker([k EXCEPT !.chan = Append(@, rd.source[sent + 1])], rd.source, n, sent + 1)
    BY <1>3, <1>10, <1>11, <2>1, ChunkerIsSent DEF sent
  <2> QED
    BY <2>1, <2>2, <2>3
<1>12. ASSUME k.st # "run" PROVE Worker(k, rd.source, n, rd.read)
  BY <1>10, <1>12 DEF Worker
<1>13. ASSUME NEW w \in DOMAIN configs
       PROVE  /\ Worker(wk'[w], rd.source, configs[w], Sent(w)')
              /\ wk'[w].st = "done" => wk[w].st = "done" /\ wk'[w].chunks = wk[w].chunks
  <2>1. CASE w = to /\ k.st = "run"
    <3>1. wk'[w] = fed
      BY <1>9, <2>1
    <3> HIDE DEF fed
    <3> QED
      BY <1>7, <1>11, <2>1, <3>1
  <2>2. CASE w = to /\ k.st # "run"
    BY <1>7, <1>9, <1>12, <2>2
  <2>3. CASE w # to
    <3>1. wk'[w] = wk[w]
      BY <1>9, <2>3
    <3> QED
      BY <1>2, <1>7, <2>3, <3>1 DEF WorkersInv
  <2> QED
    BY <2>1, <2>2, <2>3
<1>14. DOMAIN wk' = DOMAIN configs
  BY <1>9
<1>15. WorkersInv'
  BY <1>0, <1>2, <1>5, <1>13, <1>14 DEF WorkersInv
<1> QED
  BY <1>1, <1>3, <1>5, <1>6, <1>15, ThreadsKeep

\* A step of one chunker alone.
LEMMA OneChunker ==
    ASSUME CutInv, UNCHANGED <<cutVars, pc, files>>, UNCHANGED rd, NEW w \in DOMAIN wk, NEW k,
           wk' = [wk EXCEPT ![w] = k], rd.st # "idle",
           Worker(k, rd.source, configs[w], Sent(w)),
           k.st = "done" => rd.st = "joining" /\ (~rd.err => k.chunks = Cut(rd.source, configs[w]))
    PROVE  CutInv'
<1>1. ReaderInv /\ WorkersInv /\ configs' = configs
  BY Fanning DEF cutVars
<1>2. DOMAIN wk' = DOMAIN wk /\ wk'[w] = k /\ \A v \in DOMAIN wk \ {w} : wk'[v] = wk[v]
  OBVIOUS
<1>3. \A v : Sent(v)' = Sent(v)
  BY DEF Sent
<1>4. ReaderInv'
  BY <1>1 DEF ReaderInv
<1>5. WorkersInv'
  BY <1>1, <1>2, <1>3 DEF WorkersInv
<1> QED
  BY <1>4, <1>5, ThreadsKeep

LEMMA ChunkKeeps ==
    ASSUME CutInv, NEW w \in DOMAIN wk, chunk_block(w), UNCHANGED <<cutVars, pc, files>>
    PROVE  CutInv'
<1>0. rd.st # "idle"
  BY DEF CutInv, FanOutInv
<1>1. /\ ReaderInv /\ WorkersInv
      /\ \A v \in DOMAIN configs : configs[v] \in Nat \ {0} /\ v \in Nat \ {0}
  BY <1>0, Fanning
<1> DEFINE k == wk[w]
           n == configs[w]
           sent == Sent(w)
<1>2. w \in DOMAIN configs /\ n \in Nat \ {0} /\ Worker(k, rd.source, n, sent)
  BY <1>1 DEF WorkersInv
<1>3. k.st = "run" /\ rd' = rd
  BY DEF chunk_block
<1>4. rd.source \in Seq(Block) /\ sent \in 0 .. Len(rd.source)
  BY <1>1, <1>2 DEF ReaderInv, Sent
<1>5. CASE k.chan # <<>> /\ wk' = [wk EXCEPT ![w] = Fed(@)]
  <2>1. wk' = [wk EXCEPT ![w] = Fed(k)]
    BY <1>5
  <2>2. Worker(Fed(k), rd.source, n, sent) /\ Fed(k).st = "run"
    <3> HIDE DEF k, n, sent
    <3> QED
      BY <1>2, <1>3, <1>4, <1>5, ChunkerIsFed
  <2> QED
    BY <1>0, <1>3, <2>1, <2>2, OneChunker
<1>6. CASE /\ k.chan = <<>> /\ rd.st = "joining" /\ wk' = [wk EXCEPT ![w] = AtEnd(@)]
  <2>1. wk' = [wk EXCEPT ![w] = AtEnd(k)]
    BY <1>6
  <2>2. AtEnd(k).st = "done" /\ Worker(AtEnd(k), rd.source, n, sent)
    BY <1>2 DEF AtEnd, Worker
  <2>3. ASSUME ~rd.err PROVE AtEnd(k).chunks = Cut(rd.source, n)
    <3>1. sent = Len(rd.source)
      BY <1>1, <1>6, <2>3 DEF ReaderInv, Sent
    <3> HIDE DEF k, n, sent
    <3> QED
      BY <1>2, <1>3, <1>4, <1>6, <3>1, ChunkerEnds
  <2> QED
    BY <1>0, <1>3, <1>6, <2>1, <2>2, <2>3, OneChunker
<1> QED
  BY <1>5, <1>6 DEF chunk_block

LEMMA ChunkerFailsKeeps ==
    ASSUME CutInv, NEW w \in DOMAIN wk, chunker_fails(w), UNCHANGED <<cutVars, pc, files>>
    PROVE  CutInv'
<1>0. rd.st # "idle"
  BY DEF CutInv, FanOutInv
<1> DEFINE k == [wk[w] EXCEPT !.st = "failed", !.chan = <<>>]
<1>1. wk' = [wk EXCEPT ![w] = k] /\ rd' = rd
  BY DEF chunker_fails
<1>2. Worker(wk[w], rd.source, configs[w], Sent(w))
  BY <1>0, Fanning DEF WorkersInv
<1>3. Worker(k, rd.source, configs[w], Sent(w)) /\ k.st = "failed"
  BY <1>2 DEF Worker
<1> HIDE DEF k
<1> QED
  BY <1>0, <1>1, <1>3, OneChunker

-----------------------------------------------------------------------------
(* The command *)

\* The next file is one of its tree.
LEMMA TreeIsNext ==
    ASSUME CutInv, Turn # {}
    PROVE  /\ Tree \in DOMAIN cmd.trees /\ cmd.trees[Tree] \in Seq(SourceFile)
           /\ files[Tree] = CutFiles(cmd.trees[Tree], Len(files[Tree]), configs)
           /\ Len(files[Tree]) \in Nat /\ Len(files[Tree]) + 1 \in 1 .. Len(cmd.trees[Tree])
           /\ Next1 \in SourceFile
<1>1. cmd.trees \in Seq(Seq(SourceFile)) /\ DOMAIN files = DOMAIN cmd.trees
  BY CommandAssumption DEF CutInv, CommandInv, FilesInv
<1>2. Turn \in SUBSET Nat /\ Turn \subseteq DOMAIN cmd.trees
  BY <1>1 DEF Turn
<1>3. Tree \in Turn
  BY <1>2, MinIsLeast DEF Tree
<1>4. Tree \in DOMAIN cmd.trees /\ cmd.trees[Tree] \in Seq(SourceFile)
      /\ Len(files[Tree]) < Len(cmd.trees[Tree])
  BY <1>1, <1>2, <1>3 DEF Turn
<1>5. PICK n \in 0 .. Len(cmd.trees[Tree]) : files[Tree] = CutFiles(cmd.trees[Tree], n, configs)
  BY <1>4 DEF CutInv, FilesInv
<1>6. Len(files[Tree]) = n /\ n \in Nat /\ Len(cmd.trees[Tree]) \in Nat
  BY <1>4, <1>5, CutFilesLen
<1>7. n + 1 \in 1 .. Len(cmd.trees[Tree])
  BY <1>4, <1>6
<1>8. Next1 \in SourceFile
  BY <1>4, <1>6, <1>7 DEF Next1
<1> QED
  BY <1>4, <1>5, <1>6, <1>7, <1>8

\* A file kept as a chunker alone would cut it is the next one done.
LEMMA KeptKeeps ==
    ASSUME CutInv, Turn # {}, NEW per_candidate, NEW bytes, Kept1(per_candidate, bytes),
           per_candidate = [ci \in DOMAIN configs |-> Cut(Next1.source, configs[ci])],
           bytes = Len(Next1.source) * BLOCK, UNCHANGED <<cmd, configs>>
    PROVE  FilesInv'
<1> DEFINE T == Tree
           tree == cmd.trees[T]
           n == Len(files[T])
<1>1. /\ T \in DOMAIN cmd.trees /\ files[T] = CutFiles(tree, n, configs)
      /\ n \in Nat /\ n + 1 \in 1 .. Len(tree) /\ Len(tree) \in Nat
  BY TreeIsNext
<1>2. Next1 = tree[n + 1]
  BY DEF Next1
<1>3. files' = [files EXCEPT ![T] = Append(@, CutFile(Next1, configs))]
  BY DEF Kept1, CutFile
<1>4. DOMAIN files = DOMAIN cmd.trees
  BY DEF CutInv, FilesInv
<1> HIDE DEF T, n, tree
<1>5. files'[T] = CutFiles(tree, n + 1, configs)
  BY <1>1, <1>2, <1>3, <1>4, CutFilesAppend
<1>6. \A t \in DOMAIN cmd.trees \ {T} : files'[t] = files[t]
  BY <1>3, <1>4
<1>7. n + 1 \in 0 .. Len(tree)
  BY <1>1
<1>8. ASSUME NEW t \in DOMAIN cmd.trees
      PROVE  \E m \in 0 .. Len(cmd.trees[t]) : files'[t] = CutFiles(cmd.trees[t], m, configs)
  <2>1. CASE t = T
    BY <1>5, <1>7, <2>1 DEF tree
  <2>2. CASE t # T
    BY <1>6, <2>2 DEF CutInv, FilesInv
  <2> QED
    BY <2>1, <2>2
<1>9. DOMAIN files' = DOMAIN cmd.trees
  BY <1>3, <1>4
<1> QED
  BY <1>8, <1>9 DEF FilesInv

LEMMA ResolveKeeps == ASSUME CutInv, resolve PROVE CutInv'
<1>0. pc = "sizes" /\ UNCHANGED <<cmd, files, report, rd, wk>>
  BY DEF resolve
<1>1. cmd \in Commands /\ cmd.sizes \in Seq(Size) /\ configs \in Seq(Nat \ {0})
      /\ rd.st = "idle" /\ \A t \in DOMAIN files : files[t] = <<>>
  BY <1>0, CommandAssumption DEF CutInv, CommandInv
<1>2. rd = Quiet /\ wk = <<>> /\ DOMAIN files = DOMAIN cmd.trees
  BY <1>1 DEF CutInv, FanOutInv, FilesInv
<1>3. FanOutInv'
  BY <1>0, <1>1, <1>2 DEF FanOutInv, Quiet
<1>4. FilesInv'
  <2>1. ASSUME NEW t \in DOMAIN cmd.trees
        PROVE  0 \in 0 .. Len(cmd.trees[t]) /\ files[t] = CutFiles(cmd.trees[t], 0, configs')
    <3>1. cmd.trees[t] \in Seq(SourceFile)
      BY <1>1, <2>1, CommandAssumption
    <3>2. files[t] = <<>>
      BY <1>1, <1>2, <2>1
    <3>3. CutFiles(cmd.trees[t], 0, configs') = <<>>
      BY CutFilesEmpty
    <3> QED
      BY <3>1, <3>2, <3>3
  <2> QED
    BY <1>0, <1>2, <2>1 DEF FilesInv
<1>5. CommandInv'
  <2> DEFINE usable == \A k \in DOMAIN cmd.sizes :
                          Parses(cmd.sizes[k]) /\ with_target(parse_size(cmd.sizes[k]))
             cand == candidate_configs(cmd.sizes)
  <2>1. CASE usable /\ cmd.sizes # <<>> /\ (cmd.compression => Len(cand) = 1)
    <3>1. pc' = "cutting" /\ configs' = cand
      BY <2>1 DEF resolve
    <3>2. \A k \in DOMAIN cmd.sizes : parse_size(cmd.sizes[k]) \in Nat \ {0}
      BY <2>1, LimitsAssumption DEF with_target
    <3>3. cand \in Seq(Nat \ {0}) /\ cand # <<>>
      BY <1>1, <2>1, <3>2, Candidates
    <3> HIDE DEF cand
    <3> QED
      BY <1>0, <1>1, <2>1, <3>1, <3>3 DEF CommandInv
  <2>2. CASE ~ (usable /\ cmd.sizes # <<>> /\ (cmd.compression => Len(cand) = 1))
    <3>1. pc' = "failed" /\ configs' = configs
      BY <2>2 DEF resolve
    <3> QED
      BY <1>0, <1>1, <3>1 DEF CommandInv
  <2> QED
    BY <2>1, <2>2
<1> QED
  BY <1>3, <1>4, <1>5 DEF CutInv

LEMMA OpenKeeps == ASSUME CutInv, open_source PROVE CutInv'
<1>0. /\ pc = "cutting" /\ Turn # {} /\ ~SinglePass
      /\ UNCHANGED <<cmd, configs, report, pc, files>> /\ Spawned(Next1.source, configs)
  BY DEF open_source, cutVars
<1>1. Next1.source \in Seq(Block) /\ Len(Next1.source) \in Nat
  BY <1>0, TreeIsNext DEF SourceFile
<1>2. configs \in Seq(Nat \ {0}) /\ Len(configs) \in Nat
      /\ \A w \in DOMAIN configs : configs[w] \in Nat \ {0}
  BY DEF CutInv, CommandInv
<1>3. CommandInv' /\ FilesInv'
  BY <1>0 DEF CutInv, CommandInv, FilesInv
<1>4. Turn' = Turn /\ Next1' = Next1 /\ SinglePass' = SinglePass
  BY <1>0 DEF Turn, Next1, Tree, SinglePass
<1>5. /\ rd' = [st |-> "reading", source |-> Next1.source, read |-> 0, to |-> 0, err |-> FALSE]
      /\ wk' = [w \in DOMAIN configs |-> Chunker(configs[w])]
  BY <1>0 DEF Spawned
<1>6. ReaderInv'
  BY <1>0, <1>1, <1>2, <1>5 DEF ReaderInv
<1>7. WorkersInv'
  <2>1. DOMAIN wk' = DOMAIN configs
    BY <1>5
  <2>2. ASSUME NEW w \in DOMAIN configs
        PROVE  Worker(wk'[w], rd'.source, configs[w], Sent(w)') /\ wk'[w].st = "run"
    <3>1. wk'[w] = Chunker(configs[w])
      BY <1>5
    <3>2. Sent(w)' = 0
      BY <1>5 DEF Sent
    <3> QED
      BY <1>2, <3>1, <3>2, NewChunker
  <2> QED
    BY <1>0, <2>1, <2>2 DEF WorkersInv
<1>8. FanOutInv'
  BY <1>0, <1>4, <1>5, <1>6, <1>7 DEF FanOutInv
<1> QED
  BY <1>3, <1>8 DEF CutInv

LEMMA JoinKeeps == ASSUME CutInv, join PROVE CutInv'
<1>0. pc = "cutting" /\ Joined /\ rd' = Quiet /\ wk' = <<>> /\ UNCHANGED <<cmd, configs, report>>
  BY DEF join, cutVars
<1>1. rd.st = "joining"
  BY <1>0 DEF Joined
<1>2. ReaderInv /\ WorkersInv /\ Turn # {} /\ rd.source = Next1.source
  BY <1>1 DEF CutInv, FanOutInv
<1>3. FanOutInv'
  BY <1>0 DEF FanOutInv, Quiet
<1>4. CASE FanOutOk
  <2>1. Kept1([w \in DOMAIN wk |-> wk[w].chunks], rd.read * BLOCK) /\ pc' = pc
    BY <1>4 DEF join
  <2>2. rd.read = Len(Next1.source)
    BY <1>1, <1>2, <1>4 DEF FanOutOk, ReaderInv
  <2>3. \A w \in DOMAIN configs : wk[w].chunks = Cut(Next1.source, configs[w])
    BY <1>2, <1>4 DEF FanOutOk, WorkersInv
  <2>4. [w \in DOMAIN wk |-> wk[w].chunks] = [ci \in DOMAIN configs |-> Cut(Next1.source, configs[ci])]
    BY <1>2, <2>3 DEF WorkersInv
  <2>5. FilesInv'
    BY <1>0, <1>2, <2>1, <2>2, <2>4, KeptKeeps
  <2>6. CommandInv'
    BY <1>0, <2>1 DEF CutInv, CommandInv
  <2> QED
    BY <1>3, <2>5, <2>6 DEF CutInv
<1>5. CASE ~FanOutOk
  <2>1. pc' = "failed" /\ files' = files
    BY <1>5 DEF join
  <2> QED
    BY <1>0, <1>3, <2>1 DEF CutInv, CommandInv, FilesInv
<1> QED
  BY <1>4, <1>5

LEMMA ChunkWithBytesKeeps == ASSUME CutInv, chunk_with_bytes PROVE CutInv'
<1>0. /\ pc = "cutting" /\ Turn # {} /\ SinglePass
      /\ UNCHANGED <<cmd, configs, report, rd, wk>>
  BY DEF chunk_with_bytes, cutVars
<1>1. rd.st = "idle"
  BY <1>0 DEF CutInv, FanOutInv
<1>2. FanOutInv'
  BY <1>0, <1>1 DEF CutInv, FanOutInv
<1>3. CASE Kept1(<<Cut(Next1.source, configs[1])>>, Len(Next1.source) * BLOCK) /\ pc' = pc
  <2>1. DOMAIN configs = {1}
    BY <1>0 DEF CutInv, CommandInv, SinglePass
  <2>2. <<Cut(Next1.source, configs[1])>> = [ci \in DOMAIN configs |-> Cut(Next1.source, configs[ci])]
    BY <2>1
  <2>3. FilesInv'
    BY <1>0, <1>3, <2>2, KeptKeeps
  <2>4. CommandInv'
    BY <1>0, <1>3 DEF CutInv, CommandInv
  <2> QED
    BY <1>2, <2>3, <2>4 DEF CutInv
<1>4. CASE pc' = "failed" /\ files' = files
  BY <1>0, <1>2, <1>4 DEF CutInv, CommandInv, FilesInv
<1> QED
  BY <1>3, <1>4 DEF chunk_with_bytes

LEMMA PrintKeeps == ASSUME CutInv, print_report PROVE CutInv'
<1>0. /\ pc = "cutting" /\ rd.st = "idle" /\ pc' = "done"
      /\ UNCHANGED <<cmd, configs, files, rd, wk>>
  BY DEF print_report
<1> QED
  BY <1>0 DEF CutInv, CommandInv, FilesInv, FanOutInv

LEMMA TreeFailsKeeps == ASSUME CutInv, tree_fails PROVE CutInv'
<1>0. /\ pc = "cutting" /\ rd.st = "idle" /\ pc' = "failed"
      /\ UNCHANGED <<cmd, configs, report, files, rd, wk>>
  BY DEF tree_fails, cutVars
<1> QED
  BY <1>0 DEF CutInv, CommandInv, FilesInv, FanOutInv

LEMMA CutInit == Init => CutInv
<1> SUFFICES ASSUME Init PROVE CutInv
  OBVIOUS
<1>1. /\ cmd \in Commands /\ pc = "sizes" /\ configs = <<>> /\ rd = Quiet /\ wk = <<>>
      /\ files = [t \in DOMAIN cmd.trees |-> <<>>]
  BY DEF Init
<1>2. CommandInv
  BY <1>1 DEF CommandInv, Quiet
<1>3. FilesInv
  <2>1. ASSUME NEW t \in DOMAIN cmd.trees
        PROVE  0 \in 0 .. Len(cmd.trees[t]) /\ files[t] = CutFiles(cmd.trees[t], 0, configs)
    <3>1. cmd.trees[t] \in Seq(SourceFile)
      BY <1>1, <2>1, CommandAssumption
    <3>2. CutFiles(cmd.trees[t], 0, configs) = <<>>
      BY CutFilesEmpty
    <3> QED
      BY <1>1, <3>1, <3>2
  <2> QED
    BY <1>1, <2>1 DEF FilesInv
<1>4. FanOutInv
  BY <1>1 DEF FanOutInv, Quiet
<1> QED
  BY <1>2, <1>3, <1>4 DEF CutInv

LEMMA CutNext == CutInv /\ [Next]_vars => CutInv'
<1> SUFFICES ASSUME CutInv, [Next]_vars PROVE CutInv'
  OBVIOUS
<1>1. CASE Command
  BY <1>1, ResolveKeeps, OpenKeeps, JoinKeeps, ChunkWithBytesKeeps, PrintKeeps DEF Command
<1>2. CASE Threads
  BY <1>2, ReadKeeps, SendKeeps, ChunkKeeps DEF Threads, FanOutStep
<1>3. CASE Faults
  BY <1>3, ReadFailsKeeps, ChunkerFailsKeeps, TreeFailsKeeps DEF Faults, FanOutFault
<1>4. CASE UNCHANGED vars
  <2>1. UNCHANGED <<cmd, pc, configs, files, rd, wk>>
    BY <1>4 DEF vars
  <2>2. CommandInv' /\ FilesInv'
    BY <2>1 DEF CutInv, CommandInv, FilesInv
  <2>3. ReaderInv' = ReaderInv
    BY <2>1 DEF ReaderInv
  <2>4. WorkersInv' = WorkersInv
    BY <2>1 DEF WorkersInv, Sent
  <2>5. Turn' = Turn /\ Next1' = Next1 /\ SinglePass' = SinglePass
    BY <2>1 DEF Turn, Next1, Tree, SinglePass
  <2>6. FanOutInv'
    BY <2>1, <2>3, <2>4, <2>5 DEF CutInv, FanOutInv
  <2> QED
    BY <2>2, <2>6 DEF CutInv
<1> QED
  BY <1>1, <1>2, <1>3, <1>4 DEF Next

LEMMA CutInvariance == Spec => []CutInv
  BY CutInit, CutNext, PTL DEF Spec

LEMMA CutIsWhole == CutInv => FanOutIsWhole
<1> SUFFICES ASSUME CutInv, NEW t \in DOMAIN files, NEW f \in DOMAIN files[t]
             PROVE  /\ files[t][f].bytes = Len(cmd.trees[t][f].source) * BLOCK
                    /\ files[t][f].per_candidate =
                         [ci \in DOMAIN configs |-> Cut(cmd.trees[t][f].source, configs[ci])]
  BY DEF FanOutIsWhole
<1>1. t \in DOMAIN cmd.trees
  BY DEF CutInv, FilesInv
<1>2. PICK n \in 0 .. Len(cmd.trees[t]) : files[t] = CutFiles(cmd.trees[t], n, configs)
  BY <1>1 DEF CutInv, FilesInv
<1>3. files[t][f] = CutFile(cmd.trees[t][f], configs)
  BY <1>2 DEF CutFiles
<1> QED
  BY <1>3 DEF CutFile

\* Only whole files get into a report, cut as each candidate alone would cut
\* them: for any number of candidates and any channel depth, whatever the order
\* in which reader and chunkers run and whichever of them fail (bench.rs
\* fan_out_chunks).
THEOREM OnlyWholeFilesCount == Spec => []FanOutIsWhole
  BY CutInvariance, CutIsWhole, PTL

-----------------------------------------------------------------------------
(* Folds over a finite set, taking it apart element by element as the        *)
(* community modules' MapThenFoldSet does.                                   *)

Pick(s) == CHOOSE x \in s : TRUE
Rest(s) == s \ {Pick(s)}

LEMMA RestIsSmaller ==
    ASSUME NEW S, IsFiniteSet(S), NEW s \in SUBSET S, s # {}
    PROVE  /\ Pick(s) \in S /\ Rest(s) \in SUBSET S
           /\ Cardinality(s) \in Nat /\ Cardinality(Rest(s)) = Cardinality(s) - 1
<1>1. Pick(s) \in s
  BY DEF Pick
<1>2. IsFiniteSet(s)
  BY FS_Subset
<1>3. Cardinality(s) \in Nat
  BY <1>2, FS_CardinalityType
<1>4. Cardinality(s \ {Pick(s)}) = Cardinality(s) - 1
  BY <1>1, <1>2, FS_RemoveElement
<1> QED
  BY <1>1, <1>3, <1>4 DEF Rest

IsFold(g, base, sets, step) ==
    \A s \in sets : g[s] = IF s = {} THEN base ELSE step[<<Pick(s), g[Rest(s)]>>]

LEMMA FoldExists ==
    ASSUME NEW S, IsFiniteSet(S), NEW V, NEW base \in V, NEW step \in [S \X V -> V]
    PROVE  \E g \in [SUBSET S -> V] : IsFold(g, base, SUBSET S, step)
<1> DEFINE Upto(m) == {s \in SUBSET S : Cardinality(s) <= m}
           G == {m \in Nat : \E g \in [Upto(m) -> V] : IsFold(g, base, Upto(m), step)}
<1>0. \A s \in SUBSET S : Cardinality(s) \in Nat /\ (Cardinality(s) = 0 <=> s = {})
  BY FS_Subset, FS_CardinalityType, FS_EmptySet
<1>1. 0 \in G
  <2> DEFINE none == [s \in Upto(0) |-> base]
  <2>1. \A s \in Upto(0) : s = {}
    BY <1>0
  <2>2. IsFold(none, base, Upto(0), step)
    BY <2>1 DEF IsFold
  <2>3. none \in [Upto(0) -> V]
    OBVIOUS
  <2> HIDE DEF none, Upto
  <2> QED
    BY <2>2, <2>3
<1>2. ASSUME NEW m \in G PROVE m + 1 \in G
  <2>0. m \in Nat
    OBVIOUS
  <2>1. PICK g \in [Upto(m) -> V] : IsFold(g, base, Upto(m), step)
    OBVIOUS
  <2> DEFINE E(s) == IF s = {} THEN base ELSE step[<<Pick(s), g[Rest(s)]>>]
             more == [s \in Upto(m + 1) |-> E(s)]
  <2>2. ASSUME NEW s \in Upto(m + 1), s # {}
        PROVE  Rest(s) \in Upto(m) /\ Pick(s) \in S
    <3>1. Pick(s) \in S /\ Rest(s) \in SUBSET S /\ Cardinality(s) \in Nat
          /\ Cardinality(Rest(s)) = Cardinality(s) - 1
      BY <2>2, RestIsSmaller
    <3> QED
      BY <2>0, <2>2, <3>1
  <2>3. \A s \in Upto(m) : s \in Upto(m + 1)
    BY <1>0, <2>0
  <2> HIDE DEF Upto
  <2>4. ASSUME NEW s \in Upto(m + 1) PROVE E(s) \in V
    <3>1. CASE s = {}
      BY <3>1
    <3>2. CASE s # {}
      <4>1. <<Pick(s), g[Rest(s)]>> \in S \X V
        BY <2>1, <2>2, <3>2
      <4> QED
        BY <3>2, <4>1
    <3> QED
      BY <3>1, <3>2
  <2>5. \A s \in Upto(m) : more[s] = g[s]
    BY <2>1, <2>3 DEF IsFold
  <2>6. ASSUME NEW s \in Upto(m + 1)
        PROVE  more[s] = IF s = {} THEN base ELSE step[<<Pick(s), more[Rest(s)]>>]
    <3>1. more[s] = E(s)
      OBVIOUS
    <3>2. CASE s = {}
      BY <3>1, <3>2
    <3>3. CASE s # {}
      <4>1. more[Rest(s)] = g[Rest(s)]
        BY <2>2, <2>5, <3>3
      <4> HIDE DEF more
      <4> QED
        BY <3>1, <3>3, <4>1
    <3> QED
      BY <3>2, <3>3
  <2>7. more \in [Upto(m + 1) -> V]
    <3> HIDE DEF E
    <3> QED
      BY <2>4
  <2> HIDE DEF more
  <2>8. IsFold(more, base, Upto(m + 1), step)
    BY <2>6 DEF IsFold
  <2> QED
    BY <2>0, <2>7, <2>8
<1> DEFINE c == Cardinality(S)
<1>3. c \in Nat
  BY FS_CardinalityType
<1>4. c \in G
  <2>1. G \in SUBSET Nat
    OBVIOUS
  <2> HIDE DEF G
  <2> QED
    BY <2>1, <1>1, <1>2, <1>3, NatInd
<1>5. Upto(c) = SUBSET S
  BY FS_Subset
<1> HIDE DEF c
<1> QED
  BY <1>4, <1>5

LEMMA FoldStaysIn ==
    ASSUME NEW S, IsFiniteSet(S), NEW g, NEW V, g[{}] \in V[{}],
           \A s \in (SUBSET S) \ {{}} : g[Rest(s)] \in V[Rest(s)] => g[s] \in V[s]
    PROVE  g[S] \in V[S]
<1> DEFINE G == {m \in Nat : \A s \in SUBSET S : Cardinality(s) = m => g[s] \in V[s]}
<1>0. \A s \in SUBSET S : Cardinality(s) \in Nat /\ (Cardinality(s) = 0 <=> s = {})
  BY FS_Subset, FS_CardinalityType, FS_EmptySet
<1>1. 0 \in G
  BY <1>0
<1>2. ASSUME NEW m \in G PROVE m + 1 \in G
  <2>1. m \in Nat /\ \A s \in SUBSET S : Cardinality(s) = m => g[s] \in V[s]
    OBVIOUS
  <2>2. ASSUME NEW s \in SUBSET S, Cardinality(s) = m + 1 PROVE g[s] \in V[s]
    <3>1. s # {}
      BY <1>0, <2>1, <2>2
    <3>2. Rest(s) \in SUBSET S /\ Cardinality(Rest(s)) = Cardinality(s) - 1
      BY <3>1, RestIsSmaller
    <3>3. Cardinality(Rest(s)) = m
      BY <2>1, <2>2, <3>2
    <3> QED
      BY <2>1, <3>1, <3>2, <3>3
  <2> QED
    BY <2>1, <2>2
<1>3. Cardinality(S) \in G
  <2>1. G \in SUBSET Nat
    OBVIOUS
  <2>2. Cardinality(S) \in Nat
    BY FS_CardinalityType
  <2> HIDE DEF G
  <2> QED
    BY <2>1, <2>2, <1>1, <1>2, NatInd
<1> QED
  BY <1>3

\* Induction over the subsets of a finite set, with the property as a set.
LEMMA SetInd ==
    ASSUME NEW S, IsFiniteSet(S), NEW G \in SUBSET (SUBSET S), {} \in G,
           \A s \in G : \A x \in S \ s : s \cup {x} \in G
    PROVE  S \in G
<1> DEFINE g == [s \in SUBSET S |-> s]
           V == [s \in SUBSET S |-> G]
<1>1. g[{}] \in V[{}]
  OBVIOUS
<1>2. ASSUME NEW s \in (SUBSET S) \ {{}}, g[Rest(s)] \in V[Rest(s)] PROVE g[s] \in V[s]
  <2>1. Pick(s) \in S /\ Rest(s) \in SUBSET S
    BY RestIsSmaller
  <2>2. Pick(s) \in s
    BY DEF Pick
  <2>3. Rest(s) \in G /\ Pick(s) \in S \ Rest(s) /\ Rest(s) \cup {Pick(s)} = s
    BY <1>2, <2>1, <2>2 DEF Rest
  <2>4. s \in G
    BY <2>3
  <2> QED
    BY <2>4
<1>3. g[S] \in V[S]
  <2> HIDE DEF g, V
  <2> QED
    BY <1>1, <1>2, FoldStaysIn
<1> QED
  BY <1>3

\* Sums over a finite set of numbers F.
IsSum(g, S, F) == g = [s \in SUBSET S |-> IF s = {} THEN 0 ELSE F[Pick(s)] + g[Rest(s)]]

LEMMA SumExists ==
    ASSUME NEW S, IsFiniteSet(S), NEW F \in [S -> Nat]
    PROVE  \E g : IsSum(g, S, F)
<1> DEFINE step == [x \in S \X Nat |-> F[x[1]] + x[2]]
<1>1. step \in [S \X Nat -> Nat]
  OBVIOUS
<1>2. PICK g \in [SUBSET S -> Nat] : IsFold(g, 0, SUBSET S, step)
  <2> HIDE DEF step
  <2> QED
    BY <1>1, FoldExists
<1>3. ASSUME NEW s \in SUBSET S
      PROVE  g[s] = IF s = {} THEN 0 ELSE F[Pick(s)] + g[Rest(s)]
  <2>1. g[s] = IF s = {} THEN 0 ELSE step[<<Pick(s), g[Rest(s)]>>]
    BY <1>2 DEF IsFold
  <2>2. CASE s # {}
    <3>1. <<Pick(s), g[Rest(s)]>> \in S \X Nat
      BY <1>2, <2>2, RestIsSmaller
    <3>2. step[<<Pick(s), g[Rest(s)]>>] = F[Pick(s)] + g[Rest(s)]
      BY <3>1
    <3> QED
      BY <2>1, <2>2, <3>2
  <2> QED
    BY <2>1, <2>2
<1>4. g = [s \in SUBSET S |-> IF s = {} THEN 0 ELSE F[Pick(s)] + g[Rest(s)]]
  <2> DEFINE E(s) == IF s = {} THEN 0 ELSE F[Pick(s)] + g[Rest(s)]
  <2>1. \A s \in SUBSET S : g[s] = E(s)
    BY <1>3
  <2> HIDE DEF E
  <2>2. g = [s \in SUBSET S |-> E(s)]
    BY <1>2, <2>1
  <2> QED
    BY <2>2 DEF E
<1> QED
  BY <1>4 DEF IsSum

LEMMA SumAt ==
    ASSUME NEW S, NEW F, NEW g, IsSum(g, S, F), NEW s \in SUBSET S
    PROVE  g[s] = IF s = {} THEN 0 ELSE F[Pick(s)] + g[Rest(s)]
<1> DEFINE E(x) == IF x = {} THEN 0 ELSE F[Pick(x)] + g[Rest(x)]
<1>1. g = [x \in SUBSET S |-> E(x)]
  BY DEF IsSum
<1> HIDE DEF E
<1>2. g[s] = E(s)
  BY <1>1
<1> QED
  BY <1>2 DEF E

\* SumFunctionOnSet is the fold.
LEMMA SumIsFold ==
    ASSUME NEW F, NEW S, IsFiniteSet(S), \A x \in S : F[x] \in Nat
    PROVE  \E g : IsSum(g, S, F) /\ SumFunctionOnSet(F, S) = g[S]
<1> DEFINE H == [x \in S |-> F[x]]
           A(g, s) == IF s = {} THEN 0 ELSE F[Pick(s)] + g[Rest(s)]
           B(g, s) == IF s = {} THEN 0 ELSE H[Pick(s)] + g[Rest(s)]
           sum[s \in SUBSET S] == A(sum, s)
<1>1. SumFunctionOnSet(F, S) = sum[S]
  BY DEF SumFunctionOnSet, FoldFunctionOnSet, MapThenFoldSet, Pick, Rest
<1>2. H \in [S -> Nat]
  OBVIOUS
<1>3. ASSUME NEW g, NEW s \in SUBSET S PROVE A(g, s) = B(g, s)
  <2>1. s # {} => Pick(s) \in S
    BY RestIsSmaller
  <2> QED
    BY <2>1
<1>4. PICK g : g = [s \in SUBSET S |-> B(g, s)]
  <2> HIDE DEF H
  <2>1. PICK g : IsSum(g, S, H)
    BY <1>2, SumExists
  <2> QED
    BY <2>1 DEF IsSum
<1> HIDE DEF A, B, H
<1>5. g = [s \in SUBSET S |-> A(g, s)]
  BY <1>3, <1>4
<1>6. sum = [s \in SUBSET S |-> A(sum, s)]
  BY <1>5 DEF sum
<1> HIDE DEF sum
<1>7. IsSum(sum, S, F)
  BY <1>6 DEF A, IsSum
<1> QED
  BY <1>1, <1>7

\* Two sums over the same numbers agree on every set both know.
LEMMA SumsAgree ==
    ASSUME NEW F, NEW S, NEW T, IsFiniteSet(S), IsFiniteSet(T), S \subseteq T,
           NEW g, NEW h, IsSum(g, S, F), IsSum(h, T, F)
    PROVE  g[S] = h[S]
<1> DEFINE V == [s \in SUBSET S |-> {h[s]}]
<1>1. g[{}] \in V[{}]
  <2>1. {} \in SUBSET S /\ {} \in SUBSET T
    OBVIOUS
  <2>2. g[{}] = 0 /\ h[{}] = 0
    BY <2>1, SumAt
  <2> QED
    BY <2>1, <2>2
<1>2. ASSUME NEW s \in (SUBSET S) \ {{}}, g[Rest(s)] \in V[Rest(s)] PROVE g[s] \in V[s]
  <2>1. Rest(s) \in SUBSET S /\ s \in SUBSET S /\ s # {} /\ s \in SUBSET T
    BY RestIsSmaller
  <2>2. g[Rest(s)] = h[Rest(s)]
    BY <1>2, <2>1
  <2>3. g[s] = F[Pick(s)] + g[Rest(s)] /\ h[s] = F[Pick(s)] + h[Rest(s)]
    BY <2>1, SumAt
  <2> QED
    BY <2>1, <2>2, <2>3
<1>3. g[S] \in V[S]
  <2> HIDE DEF V
  <2> QED
    BY <1>1, <1>2, FoldStaysIn
<1> QED
  BY <1>3

Sum(F, S) == SumFunctionOnSet(F, S)

LEMMA SumStep ==
    ASSUME NEW F, NEW S, IsFiniteSet(S), \A x \in S : F[x] \in Nat
    PROVE  Sum(F, S) = IF S = {} THEN 0 ELSE F[Pick(S)] + Sum(F, Rest(S))
<1>1. PICK g : IsSum(g, S, F) /\ Sum(F, S) = g[S]
  BY SumIsFold DEF Sum
<1>2. S \in SUBSET S
  OBVIOUS
<1>3. g[S] = IF S = {} THEN 0 ELSE F[Pick(S)] + g[Rest(S)]
  BY <1>1, <1>2, SumAt
<1>4. CASE S = {}
  BY <1>1, <1>3, <1>4
<1>5. CASE S # {}
  <2>1. Rest(S) \subseteq S /\ IsFiniteSet(Rest(S))
    BY <1>2, <1>5, RestIsSmaller, FS_Subset
  <2>2. PICK h : IsSum(h, Rest(S), F) /\ Sum(F, Rest(S)) = h[Rest(S)]
    BY <2>1, SumIsFold DEF Sum
  <2>3. h[Rest(S)] = g[Rest(S)]
    BY <1>1, <2>1, <2>2, SumsAgree
  <2> QED
    BY <1>1, <1>3, <1>5, <2>2, <2>3
<1> QED
  BY <1>4, <1>5

LEMMA SumEmpty == ASSUME NEW F PROVE Sum(F, {}) = 0
<1>1. IsFiniteSet({}) /\ \A x \in {} : F[x] \in Nat
  BY FS_EmptySet
<1> QED
  BY <1>1, SumStep

LEMMA SumType ==
    ASSUME NEW F, NEW S, IsFiniteSet(S), \A x \in S : F[x] \in Nat
    PROVE  Sum(F, S) \in Nat
<1> DEFINE g == [s \in SUBSET S |-> Sum(F, s)]
           V == [s \in SUBSET S |-> Nat]
<1>1. g[{}] \in V[{}]
  BY SumEmpty
<1>2. ASSUME NEW s \in (SUBSET S) \ {{}}, g[Rest(s)] \in V[Rest(s)] PROVE g[s] \in V[s]
  <2>1. Pick(s) \in S /\ Rest(s) \in SUBSET S /\ IsFiniteSet(s) /\ s # {} /\ s \in SUBSET S
    BY RestIsSmaller, FS_Subset
  <2>2. Sum(F, s) = F[Pick(s)] + Sum(F, Rest(s))
    BY <2>1, SumStep
  <2>3. Sum(F, Rest(s)) \in Nat /\ F[Pick(s)] \in Nat
    BY <1>2, <2>1
  <2> QED
    BY <2>1, <2>2, <2>3
<1>3. g[S] \in V[S]
  <2> HIDE DEF V, g
  <2> QED
    BY <1>1, <1>2, FoldStaysIn
<1> QED
  BY <1>3

\* The order does not matter: any element may be taken out first.
LEMMA SumTake ==
    ASSUME NEW F, NEW S, IsFiniteSet(S), \A x \in S : F[x] \in Nat, NEW x \in S
    PROVE  Sum(F, S) = F[x] + Sum(F, S \ {x})
<1> DEFINE Ok(s) == \A y \in s : Sum(F, s) = F[y] + Sum(F, s \ {y})
           G == {m \in Nat : \A s \in SUBSET S : Cardinality(s) = m => Ok(s)}
<1>0. \A s \in SUBSET S : /\ IsFiniteSet(s) /\ Cardinality(s) \in Nat
                          /\ (Cardinality(s) = 0 <=> s = {}) /\ Sum(F, s) \in Nat
  BY FS_Subset, FS_CardinalityType, FS_EmptySet, SumType
<1>1. 0 \in G
  BY <1>0
<1>2. ASSUME NEW m \in G PROVE m + 1 \in G
  <2>0. m \in Nat /\ \A s \in SUBSET S : Cardinality(s) = m => Ok(s)
    OBVIOUS
  <2>1. ASSUME NEW s \in SUBSET S, Cardinality(s) = m + 1, NEW y \in s
        PROVE  Sum(F, s) = F[y] + Sum(F, s \ {y})
    <3> DEFINE p == Pick(s)
               r == s \ {p}
               q == s \ {y}
               b == r \ {y}
    <3>1. p \in s
      BY DEF Pick
    <3> HIDE DEF p
    <3>2. Sum(F, s) = F[p] + Sum(F, r)
      BY <1>0, SumStep DEF Rest, p
    <3>3. CASE y = p
      BY <3>2, <3>3
    <3>4. CASE y # p
      <4>1. r \in SUBSET S /\ q \in SUBSET S /\ b \in SUBSET S /\ y \in r /\ p \in q /\ q \ {p} = b
        BY <3>1, <3>4
      <4>2. Cardinality(r) = m /\ Cardinality(q) = m
        <5>1. IsFiniteSet(s)
          BY <1>0
        <5>2. Cardinality(s \ {p}) = Cardinality(s) - 1 /\ Cardinality(s \ {y}) = Cardinality(s) - 1
          BY <3>1, <5>1, FS_RemoveElement
        <5>3. (m + 1) - 1 = m
          BY <2>0
        <5> QED
          BY <2>1, <5>2, <5>3
      <4>3. Sum(F, r) = F[y] + Sum(F, b) /\ Sum(F, q) = F[p] + Sum(F, b)
        BY <2>0, <4>1, <4>2
      <4>4. Sum(F, b) \in Nat /\ F[y] \in Nat /\ F[p] \in Nat
        BY <1>0, <3>1, <4>1
      <4> HIDE DEF b, r, q
      <4>5. Sum(F, s) = F[y] + Sum(F, q)
        BY <3>2, <4>3, <4>4
      <4> QED
        BY <4>5 DEF q
    <3> QED
      BY <3>3, <3>4
  <2> QED
    BY <2>0, <2>1
<1>3. Cardinality(S) \in G
  <2>1. G \in SUBSET Nat
    OBVIOUS
  <2>2. Cardinality(S) \in Nat
    BY FS_CardinalityType
  <2> HIDE DEF G
  <2> QED
    BY <2>1, <2>2, <1>1, <1>2, NatInd
<1> QED
  BY <1>3

LEMMA SumAdd ==
    ASSUME NEW F, NEW S, IsFiniteSet(S), \A y \in S : F[y] \in Nat, NEW x, x \notin S, F[x] \in Nat
    PROVE  Sum(F, S \cup {x}) = Sum(F, S) + F[x]
<1> DEFINE T == S \cup {x}
<1>1. IsFiniteSet(T) /\ x \in T /\ T \ {x} = S /\ \A y \in T : F[y] \in Nat
  BY FS_AddElement
<1> HIDE DEF T
<1>2. Sum(F, T) = F[x] + Sum(F, S)
  BY <1>1, SumTake
<1>3. Sum(F, S) \in Nat
  BY SumType
<1> QED
  BY <1>2, <1>3 DEF T

\* Smaller numbers have a smaller sum.
LEMMA SumMono ==
    ASSUME NEW S, IsFiniteSet(S), NEW F, NEW H,
           \A x \in S : F[x] \in Nat /\ H[x] \in Nat /\ F[x] <= H[x]
    PROVE  Sum(F, S) <= Sum(H, S)
<1> DEFINE G == {s \in SUBSET S : Sum(F, s) <= Sum(H, s)}
<1>1. {} \in G
  BY SumEmpty
<1>2. ASSUME NEW s \in G, NEW x \in S \ s PROVE s \cup {x} \in G
  <2>1. IsFiniteSet(s) /\ s \in SUBSET S /\ Sum(F, s) <= Sum(H, s)
    BY FS_Subset
  <2>2. Sum(F, s \cup {x}) = Sum(F, s) + F[x] /\ Sum(H, s \cup {x}) = Sum(H, s) + H[x]
    BY <2>1, SumAdd
  <2>3. Sum(F, s) \in Nat /\ Sum(H, s) \in Nat
    BY <2>1, SumType
  <2> QED
    BY <2>1, <2>2, <2>3
<1>3. S \in G
  <2>1. G \in SUBSET (SUBSET S)
    OBVIOUS
  <2> HIDE DEF G
  <2> QED
    BY <1>1, <1>2, <2>1, SetInd
<1> QED
  BY <1>3

\* A sum depends on the numbers only.
LEMMA SumSame ==
    ASSUME NEW S, IsFiniteSet(S), NEW F, NEW H, \A x \in S : F[x] \in Nat /\ F[x] = H[x]
    PROVE  Sum(F, S) = Sum(H, S)
<1>1. \A x \in S : F[x] \in Nat /\ H[x] \in Nat /\ F[x] <= H[x] /\ H[x] <= F[x]
  OBVIOUS
<1>2. Sum(F, S) <= Sum(H, S) /\ Sum(H, S) <= Sum(F, S)
  BY <1>1, SumMono
<1>3. Sum(F, S) \in Nat /\ Sum(H, S) \in Nat
  BY <1>1, SumType
<1> QED
  BY <1>2, <1>3

LEMMA SumSubset ==
    ASSUME NEW S, IsFiniteSet(S), NEW F, \A x \in S : F[x] \in Nat, NEW T \in SUBSET S
    PROVE  Sum(F, T) <= Sum(F, S)
<1> DEFINE G == {s \in SUBSET S : Sum(F, T \cap s) <= Sum(F, s)}
<1>1. {} \in G
  <2>1. T \cap {} = {}
    OBVIOUS
  <2> QED
    BY <2>1, SumEmpty
<1>2. ASSUME NEW s \in G, NEW x \in S \ s PROVE s \cup {x} \in G
  <2> DEFINE t == T \cap s
  <2>1. IsFiniteSet(s) /\ s \in SUBSET S /\ Sum(F, t) <= Sum(F, s)
    BY FS_Subset
  <2>2. IsFiniteSet(t) /\ t \in SUBSET S /\ x \notin t
    BY FS_Subset
  <2>3. T \cap (s \cup {x}) = IF x \in T THEN t \cup {x} ELSE t
    OBVIOUS
  <2> HIDE DEF t
  <2>4. Sum(F, s \cup {x}) = Sum(F, s) + F[x] /\ Sum(F, t \cup {x}) = Sum(F, t) + F[x]
    BY <2>1, <2>2, SumAdd
  <2>5. Sum(F, s) \in Nat /\ Sum(F, t) \in Nat /\ F[x] \in Nat
    BY <2>1, <2>2, SumType
  <2>6. Sum(F, T \cap (s \cup {x})) <= Sum(F, s \cup {x})
    <3>1. CASE x \in T
      <4>1. T \cap (s \cup {x}) = t \cup {x}
        BY <2>3, <3>1
      <4>2. Sum(F, t) + F[x] <= Sum(F, s) + F[x]
        BY <2>1, <2>5
      <4> QED
        BY <2>4, <4>1, <4>2
    <3>2. CASE x \notin T
      <4>1. T \cap (s \cup {x}) = t
        BY <2>3, <3>2
      <4>2. Sum(F, t) <= Sum(F, s) + F[x]
        BY <2>1, <2>5
      <4> QED
        BY <2>4, <4>1, <4>2
    <3> QED
      BY <3>1, <3>2
  <2> QED
    BY <2>1, <2>6
<1>3. S \in G
  <2>1. G \in SUBSET (SUBSET S)
    OBVIOUS
  <2> HIDE DEF G
  <2> QED
    BY <1>1, <1>2, <2>1, SetInd
<1>4. T \cap S = T
  OBVIOUS
<1> QED
  BY <1>3, <1>4

\* Counting is adding up ones.
LEMMA SumOnes ==
    ASSUME NEW S, IsFiniteSet(S), NEW F, \A x \in S : F[x] = 1
    PROVE  Sum(F, S) = Cardinality(S)
<1> DEFINE G == {s \in SUBSET S : Sum(F, s) = Cardinality(s)}
<1>1. {} \in G
  BY SumEmpty, FS_EmptySet
<1>2. ASSUME NEW s \in G, NEW x \in S \ s PROVE s \cup {x} \in G
  <2>1. IsFiniteSet(s) /\ s \in SUBSET S /\ Sum(F, s) = Cardinality(s)
    BY FS_Subset
  <2>2. Sum(F, s \cup {x}) = Sum(F, s) + F[x]
    BY <2>1, SumAdd
  <2>3. Cardinality(s \cup {x}) = Cardinality(s) + 1
    BY <2>1, FS_AddElement
  <2> QED
    BY <2>1, <2>2, <2>3
<1>3. S \in G
  <2>1. G \in SUBSET (SUBSET S)
    OBVIOUS
  <2> HIDE DEF G
  <2> QED
    BY <1>1, <1>2, <2>1, SetInd
<1> QED
  BY <1>3

\* One number grows by d, and so does the sum.
LEMMA SumBump ==
    ASSUME NEW S, IsFiniteSet(S), NEW F, NEW H, NEW k \in S, NEW d \in Nat,
           \A x \in S : F[x] \in Nat, \A x \in S : H[x] = IF x = k THEN F[x] + d ELSE F[x]
    PROVE  Sum(H, S) = Sum(F, S) + d
<1> DEFINE T == S \ {k}
<1>1. IsFiniteSet(T) /\ \A x \in T : F[x] \in Nat /\ F[x] = H[x]
  BY FS_Subset
<1>2. \A x \in S : H[x] \in Nat
  OBVIOUS
<1>3. Sum(F, T) = Sum(H, T) /\ Sum(F, T) \in Nat
  BY <1>1, SumSame, SumType
<1>4. Sum(F, S) = F[k] + Sum(F, T) /\ Sum(H, S) = H[k] + Sum(H, T)
  BY <1>2, SumTake
<1> HIDE DEF T
<1> QED
  BY <1>3, <1>4

\* Split a set into classes, add up each, and add up the results.
LEMMA SumSplit ==
    ASSUME NEW S, IsFiniteSet(S), NEW F, \A x \in S : F[x] \in Nat,
           NEW C, IsFiniteSet(C), NEW class \in [S -> C]
    PROVE  Sum([k \in C |-> Sum(F, {x \in S : class[x] = k})], C) = Sum(F, S)
<1> DEFINE part(s, k) == {x \in s : class[x] = k}
           P(s) == [k \in C |-> Sum(F, part(s, k))]
           G == {s \in SUBSET S : Sum(P(s), C) = Sum(F, s)}
<1>0. ASSUME NEW s \in SUBSET S, NEW k \in C
      PROVE  IsFiniteSet(part(s, k)) /\ part(s, k) \in SUBSET S /\ P(s)[k] = Sum(F, part(s, k))
             /\ P(s)[k] \in Nat
  <2>1. part(s, k) \in SUBSET S
    OBVIOUS
  <2>2. IsFiniteSet(part(s, k))
    BY <2>1, FS_Subset
  <2>3. Sum(F, part(s, k)) \in Nat
    <3> HIDE DEF part
    <3> QED
      BY <2>1, <2>2, SumType
  <2> QED
    BY <2>1, <2>2, <2>3
<1>1. {} \in G
  <2> DEFINE zero == P({})
  <2>1. \A k \in C : part({}, k) = {}
    OBVIOUS
  <2>2. \A k \in C : zero[k] = 0
    BY <2>1, SumEmpty
  <2> HIDE DEF zero
  <2> DEFINE D == {c \in SUBSET C : Sum(zero, c) = 0}
  <2>3. {} \in D
    BY SumEmpty
  <2>4. ASSUME NEW c \in D, NEW k \in C \ c PROVE c \cup {k} \in D
    <3>1. IsFiniteSet(c) /\ c \in SUBSET C /\ Sum(zero, c) = 0
      BY FS_Subset
    <3>2. Sum(zero, c \cup {k}) = Sum(zero, c) + zero[k]
      BY <2>2, <3>1, SumAdd
    <3> QED
      BY <2>2, <3>1, <3>2
  <2>5. C \in D
    <3>1. D \in SUBSET (SUBSET C)
      OBVIOUS
    <3> HIDE DEF D
    <3> QED
      BY <2>3, <2>4, <3>1, SetInd
  <2> QED
    BY <2>5, SumEmpty DEF zero
<1>2. ASSUME NEW s \in G, NEW x \in S \ s PROVE s \cup {x} \in G
  <2> DEFINE t == s \cup {x}
  <2>1. IsFiniteSet(s) /\ s \in SUBSET S /\ t \in SUBSET S /\ Sum(P(s), C) = Sum(F, s)
    BY FS_Subset
  <2>2. Sum(F, t) = Sum(F, s) + F[x] /\ F[x] \in Nat /\ class[x] \in C
    BY <2>1, SumAdd
  <2>3. ASSUME NEW k \in C PROVE P(t)[k] = IF k = class[x] THEN P(s)[k] + F[x] ELSE P(s)[k]
    <3>1. part(t, k) = IF k = class[x] THEN part(s, k) \cup {x} ELSE part(s, k)
      OBVIOUS
    <3>2. x \notin part(s, k)
      OBVIOUS
    <3>3. IsFiniteSet(part(s, k)) /\ part(s, k) \in SUBSET S
          /\ P(s)[k] = Sum(F, part(s, k)) /\ P(t)[k] = Sum(F, part(t, k))
      BY <1>0, <2>1
    <3> HIDE DEF part, P, t
    <3>4. Sum(F, part(s, k) \cup {x}) = Sum(F, part(s, k)) + F[x]
      BY <2>2, <3>2, <3>3, SumAdd
    <3> QED
      BY <3>1, <3>3, <3>4
  <2>4. Sum(P(t), C) = Sum(P(s), C) + F[x]
    <3> DEFINE a == P(s)
               b == P(t)
    <3>1. \A k \in C : a[k] \in Nat
      BY <1>0, <2>1
    <3>2. \A k \in C : b[k] = IF k = class[x] THEN a[k] + F[x] ELSE a[k]
      BY <2>3
    <3> DEFINE d == F[x]
               c == class[x]
    <3>3. d \in Nat /\ c \in C /\ \A k \in C : b[k] = IF k = c THEN a[k] + d ELSE a[k]
      BY <2>2, <3>2
    <3> HIDE DEF a, b, c, d
    <3>4. Sum(b, C) = Sum(a, C) + d
      BY <3>1, <3>3, SumBump
    <3> QED
      BY <3>4 DEF a, b, d
  <2> HIDE DEF P, t
  <2> QED
    BY <2>1, <2>2, <2>4 DEF t
<1>3. S \in G
  <2>1. G \in SUBSET (SUBSET S)
    OBVIOUS
  <2> HIDE DEF G
  <2> QED
    BY <1>1, <1>2, <2>1, SetInd
<1> QED
  BY <1>3

\* Sums over prefixes.
LEMMA SumPrefix ==
    ASSUME NEW n \in Nat, NEW F, \A k \in 1 .. n + 1 : F[k] \in Nat
    PROVE  Sum(F, 1 .. n + 1) = Sum(F, 1 .. n) + F[n + 1] /\ Sum(F, 1 .. n) \in Nat
<1>1. IsFiniteSet(1 .. n) /\ n + 1 \notin 1 .. n /\ \A k \in 1 .. n : F[k] \in Nat
  BY FS_Interval
<1>2. 1 .. n + 1 = (1 .. n) \cup {n + 1} /\ F[n + 1] \in Nat
  OBVIOUS
<1>3. Sum(F, (1 .. n) \cup {n + 1}) = Sum(F, 1 .. n) + F[n + 1]
  <2> DEFINE I == 1 .. n
             x == n + 1
  <2>1. IsFiniteSet(I) /\ x \notin I /\ (\A k \in I : F[k] \in Nat) /\ F[x] \in Nat
    BY <1>1, <1>2
  <2> HIDE DEF I, x
  <2>2. Sum(F, I \cup {x}) = Sum(F, I) + F[x]
    BY <2>1, SumAdd
  <2> QED
    BY <2>2 DEF I, x
<1>4. Sum(F, 1 .. n) \in Nat
  BY <1>1, SumType
<1> QED
  BY <1>2, <1>3, <1>4

\* H lists the sums of the first n numbers of F.
AddsUp(H, F, N) == H[0] = 0 /\ \A k \in 1 .. N : F[k] \in Nat /\ H[k] = H[k - 1] + F[k]

LEMMA SumTelescopes ==
    ASSUME NEW N \in Nat, NEW F, NEW H, AddsUp(H, F, N)
    PROVE  Sum(F, 1 .. N) = H[N]
<1> USE DEF AddsUp
<1> DEFINE G == {m \in Nat : m <= N => Sum(F, 1 .. m) = H[m]}
<1>1. 0 \in G
  <2>1. 1 .. 0 = {}
    OBVIOUS
  <2> QED
    BY <2>1, SumEmpty
<1>2. ASSUME NEW m \in G PROVE m + 1 \in G
  <2>1. m \in Nat
    OBVIOUS
  <2>2. SUFFICES ASSUME m + 1 <= N PROVE Sum(F, 1 .. m + 1) = H[m + 1]
    BY <2>1
  <2>3. m + 1 \in 1 .. N /\ (m + 1) - 1 = m /\ m <= N /\ \A k \in 1 .. m + 1 : k \in 1 .. N
    BY <2>1, <2>2
  <2>4. Sum(F, 1 .. m + 1) = Sum(F, 1 .. m) + F[m + 1]
    BY <2>1, <2>3, SumPrefix
  <2>5. Sum(F, 1 .. m) = H[m]
    BY <2>3
  <2>6. H[m + 1] = H[m] + F[m + 1]
    BY <2>3
  <2> QED
    BY <2>4, <2>5, <2>6
<1>3. N \in G
  <2>1. G \in SUBSET Nat
    OBVIOUS
  <2> HIDE DEF G
  <2> QED
    BY <2>1, <1>1, <1>2, NatInd
<1> QED
  BY <1>3

LEMMA SumConcat ==
    ASSUME NEW s \in Seq(Nat), NEW t \in Seq(Nat)
    PROVE  Sum(s \o t, 1 .. Len(s \o t)) = Sum(s, 1 .. Len(s)) + Sum(t, 1 .. Len(t))
<1> DEFINE u == s \o t
           m == Len(s)
           n == Len(t)
           H == [k \in 0 .. m + n |-> IF k <= m THEN Sum(s, 1 .. k)
                                      ELSE Sum(s, 1 .. m) + Sum(t, 1 .. (k - m))]
<1>1. m \in Nat /\ n \in Nat /\ Len(u) = m + n /\ \A k \in 1 .. m + n : u[k] \in Nat
  OBVIOUS
<1>2. /\ \A k \in 1 .. m : u[k] = s[k] /\ s[k] \in Nat
      /\ \A k \in 1 .. n : u[m + k] = t[k] /\ t[k] \in Nat
  OBVIOUS
<1> HIDE DEF u, m, n
<1>3. Sum(s, 1 .. m) \in Nat
  <2>1. IsFiniteSet(1 .. m)
    BY <1>1, FS_Interval
  <2> QED
    BY <1>2, <2>1, SumType
<1>4. H[0] = 0
  <2>1. 1 .. 0 = {} /\ 0 \in 0 .. m + n /\ 0 <= m
    BY <1>1
  <2> QED
    BY <2>1, SumEmpty
<1>5. ASSUME NEW k \in 1 .. m + n PROVE H[k] = H[k - 1] + u[k]
  <2>1. k \in 0 .. m + n /\ k - 1 \in 0 .. m + n
    BY <1>1
  <2>2. CASE k <= m
    <3>1. k - 1 \in Nat /\ k - 1 <= m /\ (k - 1) + 1 = k /\ \A j \in 1 .. k : j \in 1 .. m
      BY <1>1, <2>2
    <3>2. Sum(s, 1 .. k) = Sum(s, 1 .. (k - 1)) + s[k]
      <4> DEFINE j == k - 1
      <4>1. j \in Nat /\ k = j + 1
        BY <3>1
      <4> HIDE DEF j
      <4>2. Sum(s, 1 .. j + 1) = Sum(s, 1 .. j) + s[j + 1]
        BY <1>2, <3>1, <4>1, SumPrefix
      <4> QED
        BY <4>1, <4>2 DEF j
    <3>3. u[k] = s[k]
      BY <1>1, <1>2, <2>2
    <3> QED
      BY <2>1, <2>2, <3>1, <3>2, <3>3
  <2>3. CASE ~(k <= m)
    <3> DEFINE j == k - m - 1
    <3>1. j \in Nat /\ k = m + (j + 1) /\ k - 1 = m + j /\ j + 1 \in 1 .. n /\ k - m = j + 1
          /\ (k - 1) - m = j /\ \A i \in 1 .. j + 1 : i \in 1 .. n
      BY <1>1, <2>3
    <3> HIDE DEF j
    <3>2. Sum(t, 1 .. j + 1) = Sum(t, 1 .. j) + t[j + 1] /\ Sum(t, 1 .. j) \in Nat
      BY <1>2, <3>1, SumPrefix
    <3>3. H[k] = Sum(s, 1 .. m) + Sum(t, 1 .. j + 1)
      BY <2>1, <2>3, <3>1
    <3>4. H[k - 1] = Sum(s, 1 .. m) + Sum(t, 1 .. j)
      <4>1. CASE j = 0
        <5>1. k - 1 = m /\ 1 .. j = {}
          BY <1>1, <3>1, <4>1
        <5>2. Sum(t, 1 .. j) = 0
          BY <5>1, SumEmpty
        <5>3. H[k - 1] = Sum(s, 1 .. m)
          BY <1>1, <2>1, <5>1
        <5> QED
          BY <1>3, <5>2, <5>3
      <4>2. CASE j # 0
        <5>1. ~(k - 1 <= m)
          BY <1>1, <3>1, <4>2
        <5> QED
          BY <2>1, <3>1, <5>1
      <4> QED
        BY <4>1, <4>2
    <3>5. u[k] = t[j + 1] /\ t[j + 1] \in Nat
      BY <1>2, <3>1
    <3> HIDE DEF H
    <3> QED
      BY <1>3, <3>2, <3>3, <3>4, <3>5
  <2> QED
    BY <2>2, <2>3
<1>6. Sum(u, 1 .. m + n) = H[m + n]
  <2> DEFINE N == m + n
  <2> HIDE DEF H
  <2>1. N \in Nat /\ AddsUp(H, u, N)
    BY <1>1, <1>4, <1>5 DEF AddsUp
  <2> HIDE DEF N
  <2>2. Sum(u, 1 .. N) = H[N]
    BY <2>1, SumTelescopes
  <2> QED
    BY <2>2 DEF N
<1>7. H[m + n] = Sum(s, 1 .. m) + Sum(t, 1 .. n)
  <2>1. m + n \in 0 .. m + n /\ (m + n) - m = n
    BY <1>1
  <2>2. CASE n = 0
    <3>1. 1 .. n = {} /\ m + n = m
      BY <1>1, <2>2
    <3>2. Sum(t, 1 .. n) = 0
      BY <3>1, SumEmpty
    <3> QED
      BY <1>1, <1>3, <2>1, <3>1, <3>2
  <2>3. CASE n # 0
    <3>1. ~(m + n <= m)
      BY <1>1, <2>3
    <3> QED
      BY <2>1, <3>1
  <2> QED
    BY <2>2, <2>3
<1> QED
  BY <1>1, <1>6, <1>7 DEF u, m, n

\* The projection's default number of snapshots is one.
LEMMA SteadyIsNat ==
    ASSUME NEW horizon \in Nat
    PROVE  steady_state_snapshots(horizon) \in Nat
<1> DEFINE T == RETENTION_TIERS
           upper(i) == IF i < Len(T) /\ T[i + 1][1] < horizon THEN T[i + 1][1] ELSE horizon
           S == {i \in DOMAIN T : upper(i) > T[i][1]}
           F == [i \in S |-> Cells(upper(i), T[i][1], T[i][2])]
<1>0. T \in Seq(Nat \X (Nat \ {0})) /\ Len(T) \in Nat /\ DOMAIN T = 1 .. Len(T)
  BY ReportAssumption
<1>1. steady_state_snapshots(horizon) = Sum(F, S)
  BY DEF steady_state_snapshots, SumFunction, Sum
<1>2. ASSUME NEW i \in S PROVE F[i] \in Nat
  <2>1. i \in 1 .. Len(T) /\ T[i][1] \in Nat /\ T[i][2] \in Nat \ {0} /\ upper(i) > T[i][1]
    BY <1>0
  <2>2. upper(i) \in Nat
    BY <1>0, <2>1
  <2> DEFINE u == upper(i)
             a == T[i][1]
             w == T[i][2]
  <2>3. F[i] = Cells(u, a, w)
    OBVIOUS
  <2> HIDE DEF u, a, w, T, upper, F
  <2>4. u - a + w - 1 \in Nat /\ w \in Nat \ {0}
    BY <2>1, <2>2 DEF u, a, w
  <2>5. (u - a + w - 1) \div w \in Nat
    BY <2>4
  <2> QED
    BY <2>3, <2>5 DEF Cells
<1>3. IsFiniteSet(S)
  <2>1. IsFiniteSet(1 .. Len(T))
    BY <1>0, FS_Interval
  <2> QED
    BY <1>0, <2>1, FS_Subset
<1> HIDE DEF S, F
<1> QED
  BY <1>1, <1>2, <1>3, SumType

-----------------------------------------------------------------------------
(* Percentiles *)

\* The positions that come no later than k in ascending order.
UpTo(lens, k) == {j \in DOMAIN lens : lens[j] < lens[k] \/ (lens[j] = lens[k] /\ j <= k)}

\* Each place in the order is taken.
LEMMA PlacesAreTaken ==
    ASSUME NEW lens \in Seq(Nat), NEW r \in 1 .. Len(lens)
    PROVE  \E k \in DOMAIN lens : Cardinality(UpTo(lens, k)) = r
<1> DEFINE n == Len(lens)
           D == 1 .. n
           f == [k \in D |-> Cardinality(UpTo(lens, k))]
<1>1. n \in Nat /\ DOMAIN lens = D /\ \A k \in D : lens[k] \in Nat
  OBVIOUS
<1>2. IsFiniteSet(D) /\ Cardinality(D) = n
  <2> HIDE DEF n
  <2>1. n = n - 1 + 1 /\ (1 > n => n = 0)
    BY <1>1
  <2> QED
    BY <1>1, <2>1, FS_Interval
<1> HIDE DEF n
<1>3. ASSUME NEW k \in D
      PROVE  /\ UpTo(lens, k) \in SUBSET D /\ k \in UpTo(lens, k)
             /\ IsFiniteSet(UpTo(lens, k)) /\ Cardinality(UpTo(lens, k)) \in D
  <2>1. UpTo(lens, k) \in SUBSET D /\ k \in UpTo(lens, k)
    BY <1>1 DEF UpTo
  <2>2. IsFiniteSet(UpTo(lens, k)) /\ Cardinality(UpTo(lens, k)) <= n
    BY <1>2, <2>1, FS_Subset
  <2>3. Cardinality(UpTo(lens, k)) \in Nat /\ Cardinality(UpTo(lens, k)) # 0
    BY <2>1, <2>2, FS_CardinalityType, FS_EmptySet
  <2> QED
    BY <1>1, <2>1, <2>2, <2>3
<1>4. ASSUME NEW k \in D, NEW m \in D, k # m, lens[k] < lens[m] \/ (lens[k] = lens[m] /\ k < m)
      PROVE  f[k] # f[m]
  <2>1. UpTo(lens, k) \subseteq UpTo(lens, m)
    BY <1>1, <1>4 DEF UpTo
  <2>2. m \notin UpTo(lens, k)
    BY <1>1, <1>4 DEF UpTo
  <2>3. Cardinality(UpTo(lens, k)) # Cardinality(UpTo(lens, m))
    BY <1>3, <2>1, <2>2, FS_Subset
  <2> QED
    BY <2>3
<1>5. ASSUME NEW k \in D, NEW m \in D, f[k] = f[m] PROVE k = m
  <2>1. SUFFICES ASSUME k # m PROVE FALSE
    OBVIOUS
  <2>2. \/ lens[k] < lens[m] \/ (lens[k] = lens[m] /\ k < m)
        \/ lens[m] < lens[k] \/ (lens[m] = lens[k] /\ m < k)
    BY <1>1, <2>1
  <2> HIDE DEF f
  <2> QED
    BY <1>4, <1>5, <2>1, <2>2
<1>6. f \in [D -> D]
  BY <1>3
<1> HIDE DEF f
<1>7. f \in Injection(D, D)
  BY <1>5, <1>6 DEF Injection, IsInjective
<1>8. f \in Surjection(D, D)
  BY <1>2, <1>7, FS_Injection
<1>9. r \in D
  BY DEF n
<1>10. \E k \in D : f[k] = r
  BY <1>8, <1>9 DEF Surjection
<1> QED
  BY <1>1, <1>10 DEF f

\* At least p per cent of the lengths stay within the p-th percentile, and fewer
\* stay below it.
LEMMA Percentile ==
    ASSUME NEW lens \in Seq(Nat), NEW p \in 1 .. 100
    PROVE  /\ Cardinality({k \in DOMAIN lens : lens[k] <= nearest_rank(Sorted(lens), p)}) * 100
                >= p * Len(lens)
           /\ lens # <<>> =>
                Cardinality({k \in DOMAIN lens : lens[k] < nearest_rank(Sorted(lens), p)}) * 100
                  < p * Len(lens)
<1> DEFINE n == Len(lens)
           x == nearest_rank(Sorted(lens), p)
           W == {k \in DOMAIN lens : lens[k] <= x}
           B == {k \in DOMAIN lens : lens[k] < x}
           rank == (n * p + 99) \div 100
<1>1. n \in Nat /\ DOMAIN lens = 1 .. n /\ \A k \in 1 .. n : lens[k] \in Nat
  OBVIOUS
<1> HIDE DEF x
<1>2. IsFiniteSet(W) /\ Cardinality(W) \in Nat
  <2>1. IsFiniteSet(1 .. n)
    BY <1>1, FS_Interval
  <2>2. W \in SUBSET (1 .. n)
    BY <1>1
  <2> HIDE DEF W
  <2> QED
    BY <2>1, <2>2, FS_Subset, FS_CardinalityType
<1>3. CASE n = 0
  <2> HIDE DEF W
  <2>1. Cardinality(W) * 100 >= p * n
    BY <1>2, <1>3
  <2>2. lens = <<>>
    BY <1>3
  <2> QED
    BY <2>1, <2>2 DEF W, x, n
<1>4. CASE n # 0
  <2> HIDE DEF n
  <2>1. n * p \in Nat
    BY <1>1
  <2>2. rank \in Nat /\ n * p <= 100 * rank /\ 100 * rank <= n * p + 99
    <3> DEFINE y == n * p
    <3>1. y \in Nat
      BY <2>1
    <3> HIDE DEF y
    <3>2. (y + 99) \div 100 \in Nat /\ y <= 100 * ((y + 99) \div 100) /\ 100 * ((y + 99) \div 100) <= y + 99
      BY <3>1
    <3> QED
      BY <3>2 DEF y
  <2>3. n * p >= n /\ n * p <= n * 100
    BY <1>1, <1>4
  <2> HIDE DEF rank
  <2>4. rank \in 1 .. n
    <3> DEFINE y == n * p
    <3>1. y \in Nat /\ y >= n /\ y <= n * 100 /\ y <= 100 * rank /\ 100 * rank <= y + 99
      BY <2>1, <2>2, <2>3
    <3> HIDE DEF y
    <3> QED
      BY <1>1, <1>4, <2>2, <3>1
  <2>5. PICK k \in DOMAIN lens : Cardinality(UpTo(lens, k)) = rank
    BY <2>4, PlacesAreTaken DEF n
  <2> DEFINE c == CHOOSE m \in DOMAIN lens : Cardinality(UpTo(lens, m)) = rank
  <2>6. c \in DOMAIN lens /\ Cardinality(UpTo(lens, c)) = rank
    BY <2>5
  <2>7. x = lens[c]
    <3>1. Sorted(lens) = [r \in DOMAIN lens |->
                            lens[CHOOSE m \in DOMAIN lens : Cardinality(UpTo(lens, m)) = r]]
      BY DEF Sorted, UpTo
    <3> DEFINE S == Sorted(lens)
    <3>2. rank \in DOMAIN lens
      BY <1>1, <2>4
    <3>3. S[rank] = lens[c]
      BY <3>1, <3>2
    <3>4. S \in Seq(Nat) /\ Len(S) = n /\ S # <<>>
      <4>1. DOMAIN S = 1 .. n
        BY <1>1, <3>1
      <4> DEFINE E(r) == lens[CHOOSE m \in DOMAIN lens : Cardinality(UpTo(lens, m)) = r]
      <4>2. ASSUME NEW r \in 1 .. n PROVE E(r) \in Nat
        <5>1. \E m \in DOMAIN lens : Cardinality(UpTo(lens, m)) = r
          BY <4>2, PlacesAreTaken DEF n
        <5> QED
          BY <1>1, <5>1
      <4>3. S = [r \in 1 .. n |-> E(r)]
        BY <1>1, <3>1
      <4> HIDE DEF E, S
      <4>4. S \in Seq(Nat) /\ Len(S) = n
        BY <1>1, <4>2, <4>3
      <4>5. Len(<<>>) = 0
        OBVIOUS
      <4> QED
        BY <1>4, <4>4, <4>5
    <3> HIDE DEF S
    <3>5. nearest_rank(S, p) = S[rank]
      <4>1. ~(rank < 1)
        BY <2>4
      <4>2. (Len(S) * p + 99) \div 100 = rank
        BY <3>4 DEF rank
      <4> QED
        BY <3>4, <4>1, <4>2 DEF nearest_rank
    <3> QED
      BY <3>3, <3>5 DEF x, S
  <2> HIDE DEF c
  <2>8. UpTo(lens, c) \subseteq W
    BY <1>1, <2>6, <2>7 DEF UpTo
  <2> HIDE DEF W
  <2>9. rank <= Cardinality(W)
    BY <1>2, <2>6, <2>8, FS_Subset
  <2>10. Cardinality(W) * 100 >= p * n
    <3> DEFINE y == n * p
               w == Cardinality(W)
    <3>1. y = p * n /\ y \in Nat /\ y <= 100 * rank /\ w \in Nat /\ rank <= w
      BY <1>1, <1>2, <2>1, <2>2, <2>9
    <3> HIDE DEF y, w
    <3>2. w * 100 >= y
      BY <2>2, <3>1
    <3> QED
      BY <3>1, <3>2 DEF y, w
  <2>11. B \subseteq UpTo(lens, c) /\ c \in UpTo(lens, c) /\ c \notin B
    BY <1>1, <2>6, <2>7 DEF UpTo
  <2>12. IsFiniteSet(B) /\ Cardinality(B) \in Nat /\ Cardinality(B) < rank
    <3>1. IsFiniteSet(UpTo(lens, c))
      <4>1. UpTo(lens, c) \subseteq 1 .. n
        BY <1>1 DEF UpTo
      <4>2. IsFiniteSet(1 .. n)
        BY <1>1, FS_Interval
      <4> QED
        BY <4>1, <4>2, FS_Subset
    <3> HIDE DEF B
    <3>2. IsFiniteSet(B) /\ Cardinality(B) <= rank /\ Cardinality(B) # rank
      BY <2>6, <2>11, <3>1, FS_Subset
    <3>3. Cardinality(B) \in Nat
      BY <3>2, FS_CardinalityType
    <3> QED
      BY <2>2, <3>2, <3>3
  <2> HIDE DEF B
  <2>13. Cardinality(B) * 100 < p * n
    <3> DEFINE y == n * p
               b == Cardinality(B)
    <3>1. y = p * n /\ y \in Nat /\ 100 * rank <= y + 99 /\ b \in Nat /\ b < rank
      BY <1>1, <2>1, <2>2, <2>12
    <3> HIDE DEF y, b
    <3>2. b * 100 < y
      BY <2>2, <3>1
    <3> QED
      BY <3>1, <3>2 DEF y, b
  <2> QED
    BY <2>10, <2>13 DEF W, B, n, x
<1> QED
  BY <1>3, <1>4

-----------------------------------------------------------------------------
(* The chunks of a tree *)

\* The chunks of all files, one after the other.
LEMMA MetasUnfold ==
    ASSUME NEW fs, NEW ci, Len(fs) \in Nat,
           \A n \in 1 .. Len(fs) : fs[n].per_candidate[ci] \in Seq(Content)
    PROVE  \E all \in [0 .. Len(fs) -> Seq(Content)] :
             /\ Metas(fs, ci) = all[Len(fs)] /\ all[0] = <<>>
             /\ \A n \in 1 .. Len(fs) : all[n] = all[n - 1] \o fs[n].per_candidate[ci]
<1> DEFINE L == Len(fs)
           C == Seq(Content)
           piece(n) == fs[n].per_candidate[ci]
           A(g, n) == IF n = 0 THEN <<>> ELSE g[n - 1] \o piece(n)
           all[n \in 0 .. L] == A(all, n)
           step == [x \in (1 .. L) \X C |-> x[2] \o piece(x[1])]
<1>1. Metas(fs, ci) = all[L]
  BY DEF Metas
<1>2. L \in Nat /\ <<>> \in C /\ \A n \in 1 .. L : piece(n) \in C
  OBVIOUS
<1> HIDE DEF L, piece
<1>3. step \in [(1 .. L) \X C -> C]
  <2> SUFFICES ASSUME NEW x \in (1 .. L) \X C PROVE x[2] \o piece(x[1]) \in C
    OBVIOUS
  <2>1. x[2] \in C /\ piece(x[1]) \in C
    BY <1>2
  <2> QED
    BY <2>1, ConcatProperties
<1> HIDE DEF C
<1>4. PICK g \in [0 .. L -> C] : IsIterate(g, <<>>, L, step)
  <2> HIDE DEF step
  <2> QED
    BY <1>2, <1>3, Iterates
<1>5. ASSUME NEW n \in 0 .. L PROVE g[n] = A(g, n)
  <2>1. CASE n = 0
    BY <1>4, <2>1 DEF IsIterate
  <2>2. CASE n # 0
    <3>1. n \in 1 .. L /\ n - 1 \in 0 .. L
      BY <1>2, <2>2
    <3>2. <<n, g[n - 1]>> \in (1 .. L) \X C
      BY <1>4, <3>1
    <3>3. g[n] = step[<<n, g[n - 1]>>]
      BY <1>4, <3>1 DEF IsIterate
    <3>4. step[<<n, g[n - 1]>>] = g[n - 1] \o piece(n)
      BY <3>2
    <3> QED
      BY <2>2, <3>3, <3>4
  <2> QED
    BY <2>1, <2>2
<1> HIDE DEF A
<1>6. g = [n \in 0 .. L |-> A(g, n)]
  BY <1>4, <1>5
<1>7. all = [n \in 0 .. L |-> A(all, n)]
  BY <1>6 DEF all
<1> HIDE DEF all
<1> DEFINE V == [n \in 0 .. L |-> {x \in C : x = all[n]}]
<1>8. all[0] = <<>> /\ all[0] \in V[0]
  BY <1>2, <1>7 DEF A
<1>9. ASSUME NEW n \in 1 .. L
      PROVE  /\ all[n] = all[n - 1] \o piece(n)
             /\ all[n - 1] \in V[n - 1] => all[n] \in V[n]
  <2>1. n \in 0 .. L /\ n - 1 \in 0 .. L /\ n # 0 /\ piece(n) \in C
    BY <1>2
  <2>2. all[n] = all[n - 1] \o piece(n)
    BY <1>7, <2>1 DEF A
  <2>3. ASSUME all[n - 1] \in V[n - 1] PROVE all[n] \in V[n]
    <3>1. all[n - 1] \in C
      BY <2>1, <2>3
    <3>2. all[n - 1] \o piece(n) \in C
      BY <2>1, <3>1, ConcatProperties DEF C
    <3> QED
      BY <2>1, <2>2, <3>2
  <2> QED
    BY <2>2, <2>3
<1>10. \A n \in 0 .. L : all[n] \in V[n]
  <2> HIDE DEF V
  <2> QED
    BY <1>2, <1>8, <1>9, StaysIn
<1>11. \A n \in 0 .. L : all[n] \in C
  BY <1>10
<1>12. all \in [0 .. L -> C]
  BY <1>7, <1>11
<1> QED
  BY <1>1, <1>8, <1>9, <1>12 DEF C, L, piece

LEMMA MetasAreChunks ==
    ASSUME NEW fs, NEW ci, Len(fs) \in Nat,
           \A n \in 1 .. Len(fs) : fs[n].per_candidate[ci] \in Seq(Content)
    PROVE  Metas(fs, ci) \in Seq(Content)
<1>1. PICK all \in [0 .. Len(fs) -> Seq(Content)] : Metas(fs, ci) = all[Len(fs)]
  BY MetasUnfold
<1> QED
  BY <1>1

\* A chunk of the tree is a chunk of one of its files.
LEMMA MetasComeFromFiles ==
    ASSUME NEW fs, NEW ci, Len(fs) \in Nat,
           \A n \in 1 .. Len(fs) : fs[n].per_candidate[ci] \in Seq(Content),
           NEW k \in DOMAIN Metas(fs, ci)
    PROVE  \E n \in 1 .. Len(fs) : \E j \in DOMAIN fs[n].per_candidate[ci] :
             fs[n].per_candidate[ci][j] = Metas(fs, ci)[k]
<1> DEFINE L == Len(fs)
           piece(n) == fs[n].per_candidate[ci]
           Found(c) == \E n \in 1 .. L : \E j \in DOMAIN piece(n) : piece(n)[j] = c
<1>1. PICK all \in [0 .. L -> Seq(Content)] :
        /\ Metas(fs, ci) = all[L] /\ all[0] = <<>>
        /\ \A n \in 1 .. L : all[n] = all[n - 1] \o piece(n)
  BY MetasUnfold
<1> DEFINE W == {x \in Seq(Content) : \A i \in DOMAIN x : Found(x[i])}
           V == [n \in 0 .. L |-> W]
<1> HIDE DEF L, Found
<1>2. L \in Nat /\ 0 \in 0 .. L
  BY DEF L
<1>3. all[0] \in V[0]
  BY <1>1, <1>2
<1>4. ASSUME NEW n \in 1 .. L, all[n - 1] \in V[n - 1] PROVE all[n] \in V[n]
  <2> DEFINE a == all[n - 1]
             b == piece(n)
  <2>1. n \in 0 .. L /\ n - 1 \in 0 .. L
    BY <1>2
  <2>2. a \in Seq(Content) /\ b \in Seq(Content) /\ all[n] = a \o b /\ \A i \in DOMAIN a : Found(a[i])
    BY <1>1, <1>4, <2>1 DEF L
  <2>3. \A i \in DOMAIN b : Found(b[i])
    BY DEF Found
  <2> HIDE DEF a, b
  <2>4. ASSUME NEW i \in DOMAIN (a \o b) PROVE Found((a \o b)[i])
    <3>1. CASE i <= Len(a)
      BY <2>2, <3>1
    <3>2. CASE ~(i <= Len(a))
      <4>1. i - Len(a) \in DOMAIN b /\ (a \o b)[i] = b[i - Len(a)]
        BY <2>2, <3>2
      <4> QED
        BY <2>3, <4>1
    <3> QED
      BY <3>1, <3>2
  <2>5. a \o b \in Seq(Content)
    BY <2>2, ConcatProperties
  <2> QED
    BY <2>1, <2>2, <2>4, <2>5
<1>5. \A n \in 0 .. L : all[n] \in V[n]
  <2> HIDE DEF V
  <2> QED
    BY <1>2, <1>3, <1>4, StaysIn
<1>6. all[L] \in W
  <2>1. L \in 0 .. L
    BY <1>2
  <2> HIDE DEF W
  <2> QED
    BY <1>5, <2>1
<1>7. Found(Metas(fs, ci)[k])
  BY <1>1, <1>6
<1> QED
  BY <1>7 DEF Found, L

-----------------------------------------------------------------------------
(* The figures of a report *)

\* What a chunker cuts out of a file has known lengths.
LEMMA CutsAreChunks ==
    ASSUME NEW source \in Seq(Block), Chunkable(source), NEW n \in Nat \ {0}
    PROVE  Cut(source, n) \in Seq(Content)
<1> DEFINE L == Len(source)
           m == (L + n - 1) \div n
           End(k) == IF k * n < L THEN k * n ELSE L
           Piece(k) == SubSeq(source, (k - 1) * n + 1, End(k))
<1>1. L \in Nat /\ L + n - 1 \in Nat
  OBVIOUS
<1>2. m \in Nat /\ m * n <= L + n - 1
  <2> DEFINE a == L + n - 1
  <2>1. a \in Nat
    BY <1>1
  <2> HIDE DEF a
  <2>2. a \div n \in Nat /\ (a \div n) * n <= a
    BY <2>1
  <2> QED
    BY <2>2 DEF a
<1> HIDE DEF L, m
<1>3. ASSUME NEW k \in 1 .. m PROVE Piece(k) \in Content
  <2> DEFINE p == (k - 1) * n
             q == k * n
  <2>1. p \in Nat /\ q = p + n
    <3>1. k - 1 \in Nat /\ k \in Nat
      BY <1>2
    <3> QED
      BY <3>1
  <2>2. q <= m * n
    <3>1. k \in Nat /\ k <= m
      BY <1>2
    <3> QED
      BY <1>2, <3>1, TimesGrows
  <2>3. m * n \in Nat
    BY <1>2
  <2> DEFINE r == m * n
  <2> HIDE DEF p, q, r
  <2>4. p + 1 <= L
    BY <1>1, <1>2, <2>1, <2>2, <2>3 DEF r
  <2> DEFINE e == IF q < L THEN q ELSE L
  <2>5. p + 1 \in 1 .. L /\ e \in 1 .. L /\ p + 1 <= e
    BY <1>1, <2>1, <2>4
  <2> HIDE DEF e
  <2>6. SubSeq(source, p + 1, e) \in Content
    <3>1. DOMAIN source = 1 .. L
      BY DEF L
    <3> DEFINE i == p + 1
    <3>2. i \in DOMAIN source /\ e \in DOMAIN source /\ i <= e
      BY <2>5, <3>1
    <3> HIDE DEF i
    <3>3. SubSeq(source, i, e) \in Content
      BY <3>2, Zenon DEF Chunkable
    <3> QED
      BY <3>3 DEF i
  <2> QED
    BY <2>6 DEF p, q, e
<1>4. Cut(source, n) = [k \in 1 .. m |-> Piece(k)]
  BY DEF Cut, L, m
<1> HIDE DEF Piece
<1> QED
  BY <1>2, <1>3, <1>4

\* The length of each chunk, and of each in a sequence of chunks.
RawLen == [c \in Content |-> Sizes[c].raw]
Lens(ms) == [k \in 1 .. Len(ms) |-> Sizes[ms[k]].raw]

LEMMA LensType ==
    ASSUME NEW ms \in Seq(Content)
    PROVE  /\ Lens(ms) \in Seq(Nat) /\ Len(Lens(ms)) = Len(ms) /\ DOMAIN Lens(ms) = 1 .. Len(ms)
           /\ \A k \in 1 .. Len(ms) : Lens(ms)[k] = Sizes[ms[k]].raw /\ Lens(ms)[k] \in Nat
<1>1. \A k \in 1 .. Len(ms) : Sizes[ms[k]].raw \in Nat
  BY CodecAssumption
<1>2. Len(ms) \in Nat
  OBVIOUS
<1> QED
  BY <1>1, <1>2 DEF Lens

\* A chunker loses no byte and makes none up.
LEMMA CutBytes ==
    ASSUME NEW source \in Seq(Block), Chunkable(source), NEW n \in Nat \ {0}
    PROVE  Sum(Lens(Cut(source, n)), 1 .. Len(Cut(source, n))) = Len(source) * BLOCK
<1> DEFINE L == Len(source)
           m == (L + n - 1) \div n
           End(k) == IF k * n < L THEN k * n ELSE L
           Piece(k) == SubSeq(source, (k - 1) * n + 1, End(k))
           C == Cut(source, n)
           H == [k \in 0 .. m |-> End(k) * BLOCK]
<1>1. L \in Nat /\ L + n - 1 \in Nat
  OBVIOUS
<1>2. m \in Nat /\ m * n <= L + n - 1 /\ L <= m * n
  <2> DEFINE a == L + n - 1
  <2>1. a \in Nat
    BY <1>1
  <2> HIDE DEF a
  <2>2. a \div n \in Nat /\ (a \div n) * n <= a /\ a < (a \div n) * n + n
    BY <2>1
  <2>3. m = a \div n
    BY DEF a
  <2> DEFINE r == m * n
  <2>4. r \in Nat /\ m \in Nat /\ r <= a /\ a < r + n
    BY <2>2, <2>3
  <2> HIDE DEF r, m
  <2>5. r <= L + n - 1 /\ L <= r
    BY <1>1, <2>4 DEF a
  <2> QED
    BY <2>4, <2>5 DEF r
<1>3. C \in Seq(Content)
  BY CutsAreChunks
<1>4. C = [k \in 1 .. m |-> Piece(k)]
  BY DEF Cut
<1> HIDE DEF L, m
<1>5. Len(C) = m
  <2> HIDE DEF Piece
  <2> QED
    BY <1>2, <1>4
<1>6. BLOCK \in Nat
  BY BlockAssumption
<1>7. ASSUME NEW k \in 1 .. m
      PROVE  H[k] = H[k - 1] + Lens(C)[k]
  <2> DEFINE p == (k - 1) * n
             q == k * n
             r == m * n
             e == IF q < L THEN q ELSE L
  <2>0. k - 1 \in Nat /\ k \in Nat /\ k <= m /\ k \in 0 .. m /\ k - 1 \in 0 .. m
    BY <1>2
  <2>1. p \in Nat /\ q = p + n
    BY <2>0
  <2>2. q <= r /\ r \in Nat
    BY <1>2, <2>0, TimesGrows
  <2>3. H[k] = End(k) * BLOCK /\ H[k - 1] = End(k - 1) * BLOCK
    BY <2>0
  <2>4. r <= L + n - 1
    BY <1>2
  <2> HIDE DEF p, q, r, H
  <2>5. p + 1 <= L
    BY <1>1, <2>1, <2>2, <2>4
  <2>6. End(k - 1) = p
    BY <1>1, <2>1, <2>5 DEF p
  <2>7. End(k) = e
    BY DEF q
  <2>8. e \in 1 .. L /\ p + 1 \in 1 .. L /\ p + 1 <= e
    BY <1>1, <2>1, <2>5
  <2> HIDE DEF End, e
  <2>9. Piece(k) = SubSeq(source, p + 1, e)
    BY <2>7 DEF p
  <2>10. Len(SubSeq(source, p + 1, e)) = e - p
    BY <2>1, <2>8, SubSeqProperties DEF L
  <2>11. C[k] = Piece(k) /\ C[k] \in Content
    <3>1. C[k] = Piece(k)
      <4> HIDE DEF Piece, C
      <4> QED
        BY <1>4
    <3>2. C[k] \in Content
      BY <1>3, <1>5
    <3> QED
      BY <3>1, <3>2
  <2> HIDE DEF C
  <2>12. Lens(C)[k] = Sizes[C[k]].raw
    BY <1>3, <1>5, LensType
  <2>13. Lens(C)[k] = (e - p) * BLOCK
    BY <2>9, <2>10, <2>11, <2>12, BlockAssumption
  <2>14. e * BLOCK = p * BLOCK + (e - p) * BLOCK
    BY <1>6, <2>1, <2>8
  <2> QED
    BY <2>3, <2>6, <2>7, <2>13, <2>14
<1>8. H[0] = 0
  <2>1. End(0) = 0 /\ 0 \in 0 .. m
    BY <1>1, <1>2
  <2> QED
    BY <1>6, <2>1
<1>9. H[m] = L * BLOCK
  <2>1. End(m) = L /\ m \in 0 .. m
    BY <1>1, <1>2
  <2> QED
    BY <2>1
<1> HIDE DEF H, C
<1>10. \A k \in 1 .. m : Lens(C)[k] \in Nat
  BY <1>3, <1>5, LensType
<1>11. Sum(Lens(C), 1 .. m) = H[m]
  <2> DEFINE F == Lens(C)
  <2>1. AddsUp(H, F, m)
    BY <1>7, <1>8, <1>10 DEF AddsUp
  <2> HIDE DEF F
  <2>2. Sum(F, 1 .. m) = H[m]
    BY <1>2, <2>1, SumTelescopes
  <2> QED
    BY <2>2 DEF F
<1> QED
  BY <1>5, <1>9, <1>11 DEF C, L

\* The chunks of a tree have the bytes of its files.
LEMMA TreeBytes ==
    ASSUME NEW fs, NEW ci, Len(fs) \in Nat,
           \A n \in 1 .. Len(fs) :
             /\ fs[n].per_candidate[ci] \in Seq(Content) /\ fs[n].bytes \in Nat
             /\ Sum(Lens(fs[n].per_candidate[ci]), 1 .. Len(fs[n].per_candidate[ci])) = fs[n].bytes
    PROVE  Sum(Lens(Metas(fs, ci)), 1 .. Len(Metas(fs, ci)))
             = Sum([n \in 1 .. Len(fs) |-> fs[n].bytes], 1 .. Len(fs))
<1> DEFINE L == Len(fs)
           piece(n) == fs[n].per_candidate[ci]
           F == [n \in 1 .. L |-> fs[n].bytes]
<1>1. PICK all \in [0 .. L -> Seq(Content)] :
        /\ Metas(fs, ci) = all[L] /\ all[0] = <<>>
        /\ \A n \in 1 .. L : all[n] = all[n - 1] \o piece(n)
  BY MetasUnfold
<1> DEFINE H == [n \in 0 .. L |-> Sum(Lens(all[n]), 1 .. Len(all[n]))]
<1>2. L \in Nat
  OBVIOUS
<1>3. ASSUME NEW n \in 1 .. L PROVE F[n] \in Nat /\ H[n] = H[n - 1] + F[n]
  <2> DEFINE a == all[n - 1]
             b == piece(n)
  <2>1. n \in 0 .. L /\ n - 1 \in 0 .. L
    BY <1>2
  <2>2. a \in Seq(Content) /\ b \in Seq(Content) /\ all[n] = a \o b
        /\ Sum(Lens(b), 1 .. Len(b)) = fs[n].bytes /\ F[n] = fs[n].bytes /\ F[n] \in Nat
    BY <1>1, <2>1
  <2>3. H[n] = Sum(Lens(all[n]), 1 .. Len(all[n])) /\ H[n - 1] = Sum(Lens(a), 1 .. Len(a))
    BY <2>1
  <2> HIDE DEF a, b, F, H, L
  <2>4. Lens(a) \in Seq(Nat) /\ Lens(b) \in Seq(Nat)
        /\ Len(Lens(a)) = Len(a) /\ Len(Lens(b)) = Len(b)
    BY <2>2, LensType
  <2>5. Lens(a \o b) = Lens(a) \o Lens(b)
    <3> DEFINE u == Lens(a \o b)
               v == Lens(a) \o Lens(b)
    <3>1. a \o b \in Seq(Content) /\ Len(a \o b) = Len(a) + Len(b)
      BY <2>2, ConcatProperties
    <3>2. u \in Seq(Nat) /\ Len(u) = Len(a) + Len(b)
          /\ \A k \in 1 .. Len(a) + Len(b) : u[k] = Sizes[(a \o b)[k]].raw
      BY <3>1, LensType
    <3>3. v \in Seq(Nat) /\ Len(v) = Len(a) + Len(b)
      <4> DEFINE x == Lens(a)
                 y == Lens(b)
      <4>1. x \in Seq(Nat) /\ y \in Seq(Nat) /\ Len(x) = Len(a) /\ Len(y) = Len(b) /\ v = x \o y
        BY <2>4
      <4> HIDE DEF x, y, v
      <4> QED
        BY <4>1, ConcatProperties
    <3>4. ASSUME NEW k \in 1 .. Len(a) + Len(b) PROVE u[k] = v[k]
      <4>0. Len(a) \in Nat /\ Len(b) \in Nat
        BY <2>2
      <4>1. CASE k <= Len(a)
        <5>1. k \in 1 .. Len(a) /\ (a \o b)[k] = a[k]
          BY <2>2, <4>0, <4>1
        <5>2. v[k] = Lens(a)[k]
          BY <2>4, <4>0, <5>1
        <5>3. Lens(a)[k] = Sizes[a[k]].raw
          BY <2>2, <5>1, LensType
        <5> QED
          BY <3>2, <5>1, <5>2, <5>3
      <4>2. CASE ~(k <= Len(a))
        <5> DEFINE j == k - Len(a)
        <5>1. j \in 1 .. Len(b) /\ (a \o b)[k] = b[j]
          BY <2>2, <4>0, <4>2
        <5>2. v[k] = Lens(b)[j]
          BY <2>4, <4>0, <4>2
        <5> HIDE DEF j
        <5>3. Lens(b)[j] = Sizes[b[j]].raw
          BY <2>2, <5>1, LensType
        <5> QED
          BY <3>2, <5>1, <5>2, <5>3
      <4> QED
        BY <4>1, <4>2
    <3> HIDE DEF u, v
    <3>5. u = v
      BY <3>2, <3>3, <3>4, SeqEqual
    <3> QED
      BY <3>5 DEF u, v
  <2>6. Len(Lens(a) \o Lens(b)) = Len(a \o b)
    BY <2>2, <2>4, ConcatProperties
  <2>7. H[n] = H[n - 1] + F[n]
    BY <2>2, <2>3, <2>4, <2>5, <2>6, SumConcat
  <2> QED
    BY <2>2, <2>7
<1>4. H[0] = 0
  <2>1. 0 \in 0 .. L /\ 1 .. Len(<<>>) = {} /\ all[0] = <<>>
    BY <1>1
  <2>2. H[0] = Sum(Lens(all[0]), 1 .. Len(all[0]))
    BY <2>1
  <2> HIDE DEF H
  <2> QED
    BY <2>1, <2>2, SumEmpty
<1>5. H[L] = Sum(Lens(Metas(fs, ci)), 1 .. Len(Metas(fs, ci)))
  BY <1>1, <1>2
<1> HIDE DEF F, H, L
<1>6. Sum(F, 1 .. L) = H[L]
  <2>1. AddsUp(H, F, L)
    BY <1>3, <1>4 DEF AddsUp
  <2> QED
    BY <1>2, <2>1, SumTelescopes
<1> QED
  BY <1>5, <1>6 DEF F, L

\* Counting each chunk once counts no more than counting every occurrence.
LEMMA UniqueBytes ==
    ASSUME NEW ms \in Seq(Content)
    PROVE  Sum(RawLen, {ms[k] : k \in 1 .. Len(ms)}) <= Sum(Lens(ms), 1 .. Len(ms))
<1> DEFINE D == 1 .. Len(ms)
           F == Lens(ms)
           U(d) == {ms[k] : k \in d}
           G == {d \in SUBSET D : IsFiniteSet(U(d)) /\ Sum(RawLen, U(d)) <= Sum(F, d)}
<1>1. IsFiniteSet(D) /\ \A k \in D : F[k] \in Nat /\ F[k] = RawLen[ms[k]] /\ ms[k] \in Content
  <2>1. Len(ms) \in Nat /\ \A k \in D : ms[k] \in Content
    OBVIOUS
  <2>2. IsFiniteSet(D)
    BY <2>1, FS_Interval
  <2> QED
    BY <2>1, <2>2, LensType DEF RawLen
<1> HIDE DEF D, F
<1>2. {} \in G
  <2>1. U({}) = {}
    OBVIOUS
  <2> HIDE DEF U
  <2>2. IsFiniteSet(U({})) /\ Sum(RawLen, U({})) = 0 /\ Sum(F, {}) = 0
    BY <2>1, SumEmpty, FS_EmptySet
  <2> QED
    BY <2>2
<1>3. ASSUME NEW d \in G, NEW k \in D \ d PROVE d \cup {k} \in G
  <2>1. IsFiniteSet(d) /\ d \in SUBSET D /\ IsFiniteSet(U(d)) /\ Sum(RawLen, U(d)) <= Sum(F, d)
    BY <1>1, FS_Subset
  <2>2. U(d \cup {k}) = U(d) \cup {ms[k]} /\ \A c \in U(d) : c \in Content
    BY <1>1, <2>1
  <2>3. ms[k] \in Content /\ F[k] = RawLen[ms[k]] /\ F[k] \in Nat /\ \A i \in d : F[i] \in Nat
    BY <1>1, <2>1
  <2>4. \A c \in U(d) : RawLen[c] \in Nat
    BY <2>2, CodecAssumption DEF RawLen
  <2> DEFINE u == U(d)
             c == ms[k]
  <2> HIDE DEF u, c
  <2>5. Sum(F, d \cup {k}) = Sum(F, d) + F[k] /\ Sum(F, d) \in Nat
    BY <2>1, <2>3, SumAdd, SumType
  <2>6. IsFiniteSet(u) /\ Sum(RawLen, u) \in Nat /\ Sum(RawLen, u) <= Sum(F, d) /\ IsFiniteSet(u \cup {c})
    BY <2>1, <2>4, SumType, FS_AddElement DEF u
  <2>7. Sum(RawLen, u \cup {c}) <= Sum(F, d \cup {k})
    <3>1. CASE c \in u
      <4>1. u \cup {c} = u
        BY <3>1
      <4>2. Sum(RawLen, u) <= Sum(F, d) + F[k]
        BY <2>3, <2>5, <2>6
      <4> QED
        BY <2>5, <4>1, <4>2
    <3>2. CASE c \notin u
      <4>1. Sum(RawLen, u \cup {c}) = Sum(RawLen, u) + RawLen[c]
        BY <2>3, <2>4, <2>6, <3>2, SumAdd DEF u, c
      <4>2. RawLen[c] = F[k]
        BY <2>3 DEF c
      <4>3. Sum(RawLen, u) + F[k] <= Sum(F, d) + F[k]
        BY <2>3, <2>5, <2>6
      <4> QED
        BY <2>5, <4>1, <4>2, <4>3
    <3> QED
      BY <3>1, <3>2
  <2>8. U(d \cup {k}) = u \cup {c}
    BY <2>2 DEF u, c
  <2> HIDE DEF U
  <2> QED
    BY <2>1, <2>6, <2>7, <2>8
<1>4. D \in G
  <2>1. G \in SUBSET (SUBSET D)
    OBVIOUS
  <2> HIDE DEF G
  <2> QED
    BY <1>1, <1>2, <1>3, <2>1, SetInd
<1> QED
  BY <1>4 DEF D, F

\* The files cut so far, as the report sees them.
LEMMA FirstTree == ASSUME CutInv PROVE 1 \in DOMAIN files
<1>1. cmd.trees \in Seq(Seq(SourceFile)) /\ cmd.trees # <<>>
  BY CommandAssumption DEF CutInv, CommandInv
<1> QED
  BY <1>1 DEF CutInv, FilesInv

LEMMA FilesAreTyped ==
    ASSUME CutInv, NEW t \in DOMAIN files
    PROVE  /\ Len(files[t]) \in Nat /\ DOMAIN files[t] = 1 .. Len(files[t])
           /\ \A f \in 1 .. Len(files[t]) :
                /\ files[t][f].path \in Nat
                /\ \A ci \in DOMAIN configs : files[t][f].per_candidate[ci] \in Seq(Content)
<1>1. t \in DOMAIN cmd.trees /\ cmd.trees[t] \in Seq(SourceFile) /\ cmd \in Commands
  BY CommandAssumption DEF CutInv, FilesInv, CommandInv
<1>2. PICK n \in 0 .. Len(cmd.trees[t]) : files[t] = CutFiles(cmd.trees[t], n, configs)
  BY <1>1 DEF CutInv, FilesInv
<1>3. n \in Nat /\ Len(files[t]) = n /\ DOMAIN files[t] = 1 .. n
  BY <1>1, <1>2, CutFilesLen
<1>4. ASSUME NEW f \in 1 .. n
      PROVE  /\ files[t][f].path \in Nat
             /\ \A ci \in DOMAIN configs : files[t][f].per_candidate[ci] \in Seq(Content)
  <2> DEFINE file == cmd.trees[t][f]
  <2>1. files[t][f] = CutFile(file, configs)
    BY <1>2, <1>4 DEF CutFiles
  <2>2. f \in DOMAIN cmd.trees[t] /\ file \in SourceFile
    BY <1>1, <1>2
  <2>3. Chunkable(file.source)
    BY <1>1, <2>2, CommandAssumption
  <2>4. file.path \in Nat /\ file.source \in Seq(Block)
    BY <2>2 DEF SourceFile
  <2> HIDE DEF file
  <2>5. ASSUME NEW ci \in DOMAIN configs PROVE files[t][f].per_candidate[ci] \in Seq(Content)
    <3>1. configs[ci] \in Nat \ {0}
      BY DEF CutInv, CommandInv
    <3>2. files[t][f].per_candidate[ci] = Cut(file.source, configs[ci])
      BY <2>1 DEF CutFile
    <3> QED
      BY <2>3, <2>4, <3>1, <3>2, CutsAreChunks
  <2>6. files[t][f].path \in Nat
    BY <2>1, <2>4 DEF CutFile
  <2> QED
    BY <2>5, <2>6
<1> QED
  BY <1>3, <1>4

LEMMA UniqueIsFinite ==
    ASSUME NEW fs, NEW ci, Metas(fs, ci) \in Seq(Content)
    PROVE  unique_ids(fs, ci) \in SUBSET Content /\ IsFiniteSet(unique_ids(fs, ci))
<1> DEFINE M == Metas(fs, ci)
<1>1. Len(M) \in Nat /\ DOMAIN M = 1 .. Len(M) /\ \A k \in DOMAIN M : M[k] \in Content
  OBVIOUS
<1>2. IsFiniteSet(DOMAIN M)
  BY <1>1, FS_Interval
<1> DEFINE U == {M[k] : k \in DOMAIN M}
<1>3. U \in SUBSET Content
  BY <1>1
<1>4. IsFiniteSet(U)
  <2> DEFINE h == [k \in DOMAIN M |-> M[k]]
  <2> HIDE DEF M
  <2>1. h \in Surjection(DOMAIN M, U)
    BY DEF Surjection
  <2> QED
    BY <1>2, <2>1, FS_Surjection
<1> QED
  BY <1>3, <1>4 DEF unique_ids

LEMMA SnapshotsIsNat == ASSUME CutInv PROVE Snapshots \in Nat
<1>1. cmd.snapshots \in Seq(Nat)
  BY CommandAssumption DEF CutInv, CommandInv
<1>2. steady_state_snapshots(HORIZON) \in Nat
  BY HorizonAssumption, SteadyIsNat
<1>3. cmd.snapshots # <<>> => cmd.snapshots[1] \in Nat
  BY <1>1
<1> QED
  BY <1>2, <1>3 DEF Snapshots

LEMMA CandidateFigures ==
    ASSUME CutInv, NEW ci \in DOMAIN configs, NEW snapshots \in Nat, NEW baseline
    PROVE  /\ CandidateReport(files[1], configs, ci, snapshots, baseline).target_size \in Nat
           /\ CandidateReport(files[1], configs, ci, snapshots, baseline).unique_bytes \in Nat
           /\ CandidateReport(files[1], configs, ci, snapshots, baseline).bookkeeping \in Nat
<1> DEFINE fs == files[1]
           u == unique_ids(fs, ci)
           cost(n) == FILE_FIXED_BYTES + fs[n].path + ID_LEN * Len(fs[n].per_candidate[ci])
           costs == [n \in DOMAIN fs |-> cost(n)]
           manifest == HEADER_BYTES + SumFunction(costs)
           raws == [c \in u |-> Sizes[c].raw]
<1>1. 1 \in DOMAIN files
  BY FirstTree
<1>2. /\ Len(fs) \in Nat /\ DOMAIN fs = 1 .. Len(fs)
      /\ \A f \in 1 .. Len(fs) : fs[f].path \in Nat /\ fs[f].per_candidate[ci] \in Seq(Content)
  BY <1>1, FilesAreTyped
<1> HIDE DEF fs
<1>3. Metas(fs, ci) \in Seq(Content)
  BY <1>2, MetasAreChunks
<1>4. u \in SUBSET Content /\ IsFiniteSet(u)
  BY <1>3, UniqueIsFinite
<1> HIDE DEF u
<1>5. SumFunction(raws) \in Nat
  <2>1. DOMAIN raws = u /\ \A c \in u : raws[c] \in Nat
    BY <1>4, CodecAssumption
  <2> HIDE DEF raws
  <2> QED
    BY <1>4, <2>1, SumType DEF SumFunction, Sum
<1>6. Cardinality(u) * WIRE_SIZE \in Nat
  <2>1. Cardinality(u) \in Nat
    BY <1>4, FS_CardinalityType
  <2> QED
    BY <2>1, ReportAssumption
<1>7. costs \in Seq(Nat)
  <2>1. ASSUME NEW n \in 1 .. Len(fs) PROVE cost(n) \in Nat
    <3>1. Len(fs[n].per_candidate[ci]) \in Nat /\ fs[n].path \in Nat
      BY <1>2
    <3> DEFINE l == Len(fs[n].per_candidate[ci])
               p == fs[n].path
    <3>2. ID_LEN \in Nat /\ FILE_FIXED_BYTES \in Nat
      BY ReportAssumption
    <3> HIDE DEF l, p
    <3>3. l \in Nat /\ p \in Nat
      BY <3>1 DEF l, p
    <3>4. FILE_FIXED_BYTES + p + ID_LEN * l \in Nat
      BY <3>2, <3>3
    <3> QED
      BY <3>4 DEF l, p
  <2> HIDE DEF cost
  <2> QED
    BY <1>2, <2>1
<1>8. manifest \in Nat
  <2>1. DOMAIN costs = 1 .. Len(fs) /\ \A n \in 1 .. Len(fs) : costs[n] \in Nat
    <3> HIDE DEF cost
    <3> QED
      BY <1>2, <1>7
  <2>2. IsFiniteSet(1 .. Len(fs))
    BY <1>2, FS_Interval
  <2> HIDE DEF costs
  <2>3. SumFunction(costs) \in Nat
    BY <2>1, <2>2, SumType DEF SumFunction, Sum
  <2> QED
    BY <2>3, ReportAssumption
<1>9. configs[ci] \in Nat
  BY DEF CutInv, CommandInv
<1> DEFINE c == CandidateReport(fs, configs, ci, snapshots, baseline)
<1>10. /\ c.target_size = configs[ci]
       /\ c.unique_bytes = SumFunction(raws)
       /\ c.bookkeeping = Cardinality(u) * WIRE_SIZE + snapshots * manifest
  BY DEF CandidateReport, u
<1> HIDE DEF manifest
<1>11. snapshots * manifest \in Nat
  BY <1>8
<1> HIDE DEF c
<1>12. c.target_size \in Nat /\ c.unique_bytes \in Nat
  BY <1>5, <1>9, <1>10
<1>13. c.bookkeeping \in Nat
  <2> DEFINE a == Cardinality(u) * WIRE_SIZE
             b == snapshots * manifest
  <2> HIDE DEF a, b
  <2>1. a \in Nat /\ b \in Nat /\ c.bookkeeping = a + b
    BY <1>6, <1>10, <1>11 DEF a, b
  <2> QED
    BY <2>1
<1> QED
  BY <1>12, <1>13 DEF c, fs

\* The least of a set of pairs of numbers.
IsLeast(d, D, f, g) == \A e \in D : f[d] < f[e] \/ (f[d] = f[e] /\ g[d] <= g[e])

LEMMA LexMin ==
    ASSUME NEW D, D # {}, NEW f \in [D -> Nat], NEW g \in [D -> Nat]
    PROVE  \E d \in D : IsLeast(d, D, f, g)
<1> DEFINE X == {f[d] : d \in D}
           E == {d \in D : f[d] = Min(X)}
           Y == {g[d] : d \in E}
<1>1. X \in SUBSET Nat /\ X # {}
  OBVIOUS
<1> HIDE DEF X
<1>2. Min(X) \in X /\ \A y \in X : Min(X) <= y
  BY <1>1, MinIsLeast
<1>3. Y \in SUBSET Nat /\ Y # {}
  BY <1>2 DEF X
<1> HIDE DEF Y
<1>4. Min(Y) \in Y /\ \A y \in Y : Min(Y) <= y
  BY <1>3, MinIsLeast
<1>5. PICK d \in D : f[d] = Min(X) /\ g[d] = Min(Y)
  BY <1>4 DEF Y
<1>6. ASSUME NEW e \in D PROVE f[d] < f[e] \/ (f[d] = f[e] /\ g[d] <= g[e])
  <2>1. f[d] <= f[e] /\ f[d] \in Nat /\ f[e] \in Nat
    BY <1>2, <1>5 DEF X
  <2>2. CASE f[d] = f[e]
    BY <1>4, <1>5, <2>2 DEF Y
  <2>3. CASE f[d] # f[e]
    BY <2>1, <2>3
  <2> QED
    BY <2>2, <2>3
<1> QED
  BY <1>6 DEF IsLeast

\* There is a best candidate, so recommend finds one.
LEMMA BestCandidate ==
    ASSUME CutInv, configs # <<>>, NEW baseline, NEW candidates,
           candidates = build_report(files[1], configs, Snapshots, baseline)
    PROVE  \E best \in DOMAIN candidates :
             /\ recommend(candidates) = candidates[best].target_size
             /\ \A c \in DOMAIN candidates : Better(candidates[best], candidates[c])
<1>1. DOMAIN candidates = DOMAIN configs /\ DOMAIN configs # {}
  BY DEF build_report, CutInv, CommandInv
<1>2. \A ci \in DOMAIN candidates :
        /\ candidates[ci].target_size \in Nat
        /\ candidates[ci].unique_bytes \in Nat /\ candidates[ci].bookkeeping \in Nat
  BY <1>1, SnapshotsIsNat, CandidateFigures DEF build_report
<1> DEFINE D == DOMAIN candidates
           f == [ci \in D |-> Cost(candidates[ci])]
           g == [ci \in D |-> candidates[ci].target_size]
<1>3. f \in [D -> Nat] /\ g \in [D -> Nat]
  BY <1>2 DEF Cost
<1>4. \A ci \in D : f[ci] = Cost(candidates[ci]) /\ g[ci] = candidates[ci].target_size
  OBVIOUS
<1> HIDE DEF f, g
<1>5. PICK d \in D : IsLeast(d, D, f, g)
  BY <1>1, <1>3, LexMin
<1>6. \A e \in D : Better(candidates[d], candidates[e])
  BY <1>4, <1>5 DEF Better, IsLeast
<1> DEFINE best == CHOOSE ci \in D : \A cj \in D : Better(candidates[ci], candidates[cj])
<1>7. best \in D /\ \A cj \in D : Better(candidates[best], candidates[cj])
  BY <1>6
<1>8. recommend(candidates) = candidates[best].target_size
  BY DEF recommend
<1> HIDE DEF best
<1> QED
  BY <1>7, <1>8

-----------------------------------------------------------------------------
(* Policies *)

\* What a chunk adds to the counters.
LEMMA CountedAdds ==
    ASSUME NEW counters \in PolicyCounters, NEW c \in Content, NEW phase, NEW cfg
    PROVE  /\ PayloadLen(c, Bucket(c, phase, cfg)) \in Nat
           /\ Counted(counters, c, phase, cfg) \in PolicyCounters
           /\ Total(Counted(counters, c, phase, cfg)) = Total(counters) + 1
           /\ Counted(counters, c, phase, cfg).bytes_in = counters.bytes_in + Sizes[c].raw
           /\ Counted(counters, c, phase, cfg).bytes_out
                = counters.bytes_out + PayloadLen(c, Bucket(c, phase, cfg))
<1> DEFINE bucket == Bucket(c, phase, cfg)
           e == IF Escalates(c, phase, cfg) THEN 1 ELSE 0
           l == PayloadLen(c, bucket)
<1>1. bucket \in {"raw", "zstd3", "escalated"}
  BY DEF Bucket
<1>2. Sizes[c].raw \in Nat /\ Sizes[c].zstd \in Nat /\ Sizes[c].zstd9 \in Nat
  BY CodecAssumption
<1>3. l \in Nat
  <2> HIDE DEF bucket
  <2> QED
    BY <1>1, <1>2 DEF PayloadLen
<1>4. e \in Nat
  OBVIOUS
<1>5. Counted(counters, c, phase, cfg) =
        [counters EXCEPT ![bucket] = @ + 1, !.escalation_attempts = @ + e,
                         !.bytes_in = @ + Sizes[c].raw, !.bytes_out = @ + l]
  BY DEF Counted
<1> HIDE DEF bucket, e, l
<1> DEFINE k == [counters EXCEPT ![bucket] = @ + 1]
           m == [k EXCEPT !.escalation_attempts = @ + e,
                          !.bytes_in = @ + Sizes[c].raw, !.bytes_out = @ + l]
<1>6. /\ k \in PolicyCounters /\ Total(k) = Total(counters) + 1
      /\ k.bytes_in = counters.bytes_in /\ k.bytes_out = counters.bytes_out
  <2>1. CASE bucket = "raw"
    BY <2>1 DEF PolicyCounters, Total
  <2>2. CASE bucket = "zstd3"
    BY <2>2 DEF PolicyCounters, Total
  <2>3. CASE bucket = "escalated"
    BY <2>3 DEF PolicyCounters, Total
  <2> QED
    BY <1>1, <2>1, <2>2, <2>3
<1>7. Counted(counters, c, phase, cfg) = m
  BY <1>1, <1>5 DEF PolicyCounters
<1> HIDE DEF k
<1>8. /\ m \in PolicyCounters /\ Total(m) = Total(k)
      /\ m.bytes_in = k.bytes_in + Sizes[c].raw /\ m.bytes_out = k.bytes_out + l
  <2> DEFINE a == [k EXCEPT !.escalation_attempts = @ + e]
             b == [a EXCEPT !.bytes_in = @ + Sizes[c].raw]
             d == [b EXCEPT !.bytes_out = @ + l]
  <2>1. a \in PolicyCounters
    BY <1>4, <1>6 DEF PolicyCounters
  <2>2. m = d
    OBVIOUS
  <2>5. /\ m.bytes_in = k.bytes_in + Sizes[c].raw /\ m.bytes_out = k.bytes_out + l
        /\ m.raw = k.raw /\ m.zstd3 = k.zstd3 /\ m.escalated = k.escalated
    BY <1>6 DEF PolicyCounters
  <2> HIDE DEF a
  <2>3. b \in PolicyCounters
    BY <1>2, <2>1 DEF PolicyCounters
  <2> HIDE DEF b
  <2>4. d \in PolicyCounters
    BY <1>3, <2>3 DEF PolicyCounters
  <2> QED
    BY <2>2, <2>4, <2>5 DEF Total
<1> HIDE DEF m
<1> QED
  BY <1>3, <1>6, <1>7, <1>8 DEF bucket, l

\* The length of what a policy makes of each chunk.
Paid(kind, phase) == [c \in Content |-> PayloadLen(c, Bucket(c, phase, config(kind)))]

\* An initial backup never escalates, so the two policies do the same.
LEMMA NoEscalation == Paid("zstd3+escalate", "InitialFull") = Paid("zstd3", "InitialFull")
<1> DEFINE a == config("zstd3+escalate")
           b == config("zstd3")
<1>1. a.use_probe = b.use_probe /\ a.keep_threshold = b.keep_threshold
      /\ a.probe_threshold = b.probe_threshold
  BY DEF config, Default
<1> HIDE DEF a, b
<1>2. ASSUME NEW c \in Content PROVE Bucket(c, "InitialFull", a) = Bucket(c, "InitialFull", b)
  <2>1. Kept(c, a) = Kept(c, b)
    BY <1>1 DEF Kept
  <2>2. ~Escalates(c, "InitialFull", a) /\ ~Escalates(c, "InitialFull", b)
    BY DEF Escalates
  <2> QED
    BY <2>1, <2>2 DEF Bucket
<1>3. \A c \in Content : PayloadLen(c, Bucket(c, "InitialFull", a)) = PayloadLen(c, Bucket(c, "InitialFull", b))
  BY <1>2
<1> QED
  BY <1>3 DEF a, b, Paid

\* A retry at level 9 is kept only if it is shorter.
LEMMA IncrementPaysNoMore ==
    ASSUME NEW kind, NEW c \in Content
    PROVE  /\ Paid(kind, "Incremental")[c] \in Nat /\ Paid(kind, "InitialFull")[c] \in Nat
           /\ Paid(kind, "Incremental")[c] <= Paid(kind, "InitialFull")[c]
<1> DEFINE cfg == config(kind)
<1>1. Sizes[c].raw \in Nat /\ Sizes[c].zstd \in Nat /\ Sizes[c].zstd9 \in Nat
  BY CodecAssumption
<1>2. /\ Paid(kind, "Incremental")[c] = PayloadLen(c, Bucket(c, "Incremental", cfg))
      /\ Paid(kind, "InitialFull")[c] = PayloadLen(c, Bucket(c, "InitialFull", cfg))
  BY DEF Paid
<1> HIDE DEF cfg
<1>3. CASE ~Kept(c, cfg)
  <2>1. Bucket(c, "InitialFull", cfg) = "raw" /\ Bucket(c, "Incremental", cfg) = "raw"
    BY <1>3 DEF Bucket, Escalates
  <2> QED
    BY <1>1, <1>2, <2>1 DEF PayloadLen
<1>4. CASE Kept(c, cfg)
  <2>1. Bucket(c, "InitialFull", cfg) = "zstd3"
    BY <1>4 DEF Bucket, Escalates
  <2>2. \/ Bucket(c, "Incremental", cfg) = "zstd3"
        \/ Bucket(c, "Incremental", cfg) = "escalated" /\ Sizes[c].zstd9 < Sizes[c].zstd
    BY <1>4 DEF Bucket
  <2> QED
    BY <1>1, <1>2, <2>1, <2>2 DEF PayloadLen
<1> QED
  BY <1>3, <1>4

\* The counters of a policy over a set of chunks.
IsTally(g, S, kind, phase) ==
    g = [s \in SUBSET S |-> IF s = {} THEN NoCounters
                            ELSE Counted(g[Rest(s)], Pick(s), phase, config(kind))]

LEMMA TallyAt ==
    ASSUME NEW S, NEW kind, NEW phase, NEW g, IsTally(g, S, kind, phase), NEW s \in SUBSET S
    PROVE  g[s] = IF s = {} THEN NoCounters
                  ELSE Counted(g[Rest(s)], Pick(s), phase, config(kind))
<1> DEFINE E(x) == IF x = {} THEN NoCounters
                   ELSE Counted(g[Rest(x)], Pick(x), phase, config(kind))
<1>1. g = [x \in SUBSET S |-> E(x)]
  BY DEF IsTally
<1> HIDE DEF E
<1>2. g[s] = E(s)
  BY <1>1
<1> QED
  BY <1>2 DEF E

LEMMA TallyExists ==
    ASSUME NEW S \in SUBSET Content, IsFiniteSet(S), NEW kind, NEW phase
    PROVE  \E g : IsTally(g, S, kind, phase)
<1> DEFINE P == PolicyCounters
           op(c, n) == Counted(n, c, phase, config(kind))
           step == [x \in S \X P |-> op(x[1], x[2])]
<1>1. \A c \in S, n \in P : op(c, n) \in P
  BY CountedAdds
<1>2. NoCounters \in P
  BY DEF NoCounters, PolicyCounters
<1> HIDE DEF P, op
<1>3. step \in [S \X P -> P]
  BY <1>1
<1>4. PICK g \in [SUBSET S -> P] : IsFold(g, NoCounters, SUBSET S, step)
  <2> HIDE DEF step
  <2> QED
    BY <1>2, <1>3, FoldExists
<1> DEFINE E(s) == IF s = {} THEN NoCounters ELSE op(Pick(s), g[Rest(s)])
<1>5. ASSUME NEW s \in SUBSET S PROVE g[s] = E(s)
  <2>1. g[s] = IF s = {} THEN NoCounters ELSE step[<<Pick(s), g[Rest(s)]>>]
    BY <1>4 DEF IsFold
  <2>2. CASE s # {}
    <3>1. <<Pick(s), g[Rest(s)]>> \in S \X P
      BY <1>4, <2>2, RestIsSmaller
    <3>2. step[<<Pick(s), g[Rest(s)]>>] = op(Pick(s), g[Rest(s)])
      BY <3>1
    <3> QED
      BY <2>1, <2>2, <3>2
  <2> QED
    BY <2>1, <2>2
<1> HIDE DEF E
<1>6. g = [s \in SUBSET S |-> E(s)]
  BY <1>4, <1>5
<1>7. IsTally(g, S, kind, phase)
  BY <1>6 DEF IsTally, E, op
<1> QED
  BY <1>7

\* What a tally adds up to.
Adds(n, s, kind, phase) ==
    /\ n \in PolicyCounters /\ Total(n) = Cardinality(s)
    /\ n.bytes_in = Sum(RawLen, s) /\ n.bytes_out = Sum(Paid(kind, phase), s)

LEMMA TallyAdds ==
    ASSUME NEW S \in SUBSET Content, IsFiniteSet(S), NEW kind, NEW phase,
           NEW g, IsTally(g, S, kind, phase)
    PROVE  Adds(g[S], S, kind, phase)
<1> DEFINE W(s) == {n \in PolicyCounters : Adds(n, s, kind, phase)}
           V == [s \in SUBSET S |-> W(s)]
           pay == Paid(kind, phase)
<1>0. \A c \in S : RawLen[c] \in Nat /\ RawLen[c] = Sizes[c].raw
                   /\ pay[c] = PayloadLen(c, Bucket(c, phase, config(kind)))
  BY CodecAssumption DEF RawLen, Paid
<1>1. g[{}] \in V[{}]
  <2>1. {} \in SUBSET S /\ NoCounters \in PolicyCounters /\ Total(NoCounters) = 0
        /\ NoCounters.bytes_in = 0 /\ NoCounters.bytes_out = 0
    BY DEF NoCounters, PolicyCounters, Total
  <2>2. g[{}] = NoCounters
    BY <2>1, TallyAt
  <2>3. Adds(NoCounters, {}, kind, phase)
    BY <2>1, SumEmpty, FS_EmptySet DEF Adds
  <2> QED
    BY <2>1, <2>2, <2>3
<1>2. ASSUME NEW s \in (SUBSET S) \ {{}}, g[Rest(s)] \in V[Rest(s)] PROVE g[s] \in V[s]
  <2> DEFINE c == Pick(s)
             r == Rest(s)
             n == g[r]
  <2>1. c \in S /\ r \in SUBSET S /\ s \in SUBSET S /\ s # {} /\ Cardinality(s) \in Nat
        /\ Cardinality(r) = Cardinality(s) - 1
    BY RestIsSmaller
  <2>2. n \in PolicyCounters /\ Adds(n, r, kind, phase)
    BY <1>2, <2>1
  <2>3. g[s] = Counted(n, c, phase, config(kind))
    BY <2>1, TallyAt
  <2>4. c \in s /\ r = s \ {c} /\ IsFiniteSet(s) /\ IsFiniteSet(r)
    BY <2>1, FS_Subset DEF Pick, Rest
  <2> HIDE DEF c, r, n
  <2>5. c \in Content
    BY <2>1
  <2>6. /\ PayloadLen(c, Bucket(c, phase, config(kind))) \in Nat
        /\ g[s] \in PolicyCounters /\ Total(g[s]) = Total(n) + 1
        /\ g[s].bytes_in = n.bytes_in + Sizes[c].raw
        /\ g[s].bytes_out = n.bytes_out + PayloadLen(c, Bucket(c, phase, config(kind)))
    BY <2>2, <2>3, <2>5, CountedAdds
  <2>7. ASSUME NEW x \in s PROVE pay[x] \in Nat
    <3>1. x \in Content /\ pay[x] = PayloadLen(x, Bucket(x, phase, config(kind)))
      BY <1>0, <2>1
    <3> QED
      BY <2>2, <3>1, CountedAdds
  <2>8. Sum(RawLen, s) = RawLen[c] + Sum(RawLen, r) /\ Sum(RawLen, r) \in Nat
    <3>1. \A x \in s : RawLen[x] \in Nat
      BY <1>0, <2>1
    <3>2. \A x \in r : RawLen[x] \in Nat
      BY <2>4, <3>1
    <3> QED
      BY <2>4, <3>1, <3>2, SumTake, SumType
  <2>9. Sum(pay, s) = pay[c] + Sum(pay, r) /\ Sum(pay, r) \in Nat
    <3> HIDE DEF pay
    <3> QED
      BY <2>1, <2>4, <2>7, SumTake, SumType
  <2>10. Total(g[s]) = Cardinality(s)
    BY <2>1, <2>2, <2>6 DEF Adds
  <2>11. g[s].bytes_in = Sum(RawLen, s)
    BY <1>0, <2>1, <2>2, <2>6, <2>8 DEF Adds
  <2>12. g[s].bytes_out = Sum(pay, s)
    <3> HIDE DEF pay
    <3>1. n.bytes_out = Sum(pay, r)
      BY <2>2 DEF Adds, pay
    <3>2. g[s].bytes_out = n.bytes_out + pay[c] /\ pay[c] \in Nat
      BY <1>0, <2>1, <2>6
    <3> QED
      BY <2>9, <3>1, <3>2
  <2>13. Adds(g[s], s, kind, phase)
    BY <2>6, <2>10, <2>11, <2>12 DEF Adds
  <2> QED
    BY <2>1, <2>6, <2>13
<1>3. g[S] \in V[S]
  <2> HIDE DEF V
  <2> QED
    BY <1>1, <1>2, FoldStaysIn
<1>4. g[S] \in W(S)
  <2>1. S \in SUBSET S
    OBVIOUS
  <2> HIDE DEF W
  <2> QED
    BY <1>3, <2>1
<1> QED
  BY <1>4

\* What simulate_policy adds up.
LEMMA Simulated ==
    ASSUME NEW S \in SUBSET Content, IsFiniteSet(S), NEW kind, NEW phase
    PROVE  /\ simulate_policy(S, kind, phase).chunk_count = Cardinality(S)
           /\ simulate_policy(S, kind, phase).bytes_in = Sum(RawLen, S)
           /\ simulate_policy(S, kind, phase).bytes_out = Sum(Paid(kind, phase), S)
           /\ simulate_policy(S, kind, phase).stored_bytes
                = Sum(Paid(kind, phase), S) + Cardinality(S) * (1 + BLOB_OVERHEAD)
           /\ Sum(RawLen, S) \in Nat /\ Sum(Paid(kind, phase), S) \in Nat /\ Cardinality(S) \in Nat
<1> DEFINE A(g, s) == IF s = {} THEN NoCounters
                      ELSE Counted(g[Rest(s)], Pick(s), phase, config(kind))
           tally[s \in SUBSET S] == A(tally, s)
           n == FoldSet(LAMBDA c, counters : Counted(counters, c, phase, config(kind)),
                        NoCounters, S)
<1>1. n = tally[S]
  BY DEF FoldSet, MapThenFoldSet, Pick, Rest
<1>2. /\ simulate_policy(S, kind, phase).chunk_count = Total(n)
      /\ simulate_policy(S, kind, phase).bytes_in = n.bytes_in
      /\ simulate_policy(S, kind, phase).bytes_out = n.bytes_out
      /\ simulate_policy(S, kind, phase).stored_bytes = n.bytes_out + Total(n) * (1 + BLOB_OVERHEAD)
  BY DEF simulate_policy
<1> HIDE DEF n
<1>3. PICK g : IsTally(g, S, kind, phase)
  BY TallyExists
<1>4. g = [s \in SUBSET S |-> A(g, s)]
  BY <1>3 DEF IsTally
<1> HIDE DEF A
<1>5. tally = [s \in SUBSET S |-> A(tally, s)]
  BY <1>4 DEF tally
<1> HIDE DEF tally
<1>6. IsTally(tally, S, kind, phase)
  BY <1>5 DEF IsTally, A
<1>7. Adds(n, S, kind, phase)
  BY <1>1, <1>6, TallyAdds
<1>8. n.bytes_in \in Nat /\ n.bytes_out \in Nat /\ Cardinality(S) \in Nat
  BY <1>7, FS_CardinalityType DEF Adds, PolicyCounters
<1> QED
  BY <1>2, <1>7, <1>8 DEF Adds

\* The rows of the report: one per policy, in order.
LEMMA PolicyRows ==
    ASSUME CutInv, 1 \in DOMAIN configs, NEW bookkeeping \in Nat, NEW rows,
           rows = build_compression(bookkeeping)
    PROVE  /\ DOMAIN rows = 1 .. 5
           /\ \A k \in 1 .. 5 : /\ rows[k].policy = PolicyKinds[k]
                                /\ rows[k].cpu \in Nat /\ rows[k].projected \in Nat
           /\ rows[3].projected = rows[5].projected
<1> DEFINE U == unique_ids(files[1], 1)
           stored(k) == simulate_policy(U, PolicyKinds[k], "InitialFull").stored_bytes
<1>1. 1 \in DOMAIN files
  BY FirstTree
<1>2. Metas(files[1], 1) \in Seq(Content)
  BY <1>1, FilesAreTyped, MetasAreChunks
<1>3. U \in SUBSET Content /\ IsFiniteSet(U)
  BY <1>2, UniqueIsFinite
<1>4. DOMAIN rows = DOMAIN PolicyKinds /\ DOMAIN PolicyKinds = 1 .. 5
  BY DEF build_compression, build_compression_report, PolicyKinds
<1>5. \A k \in 1 .. 5 : /\ rows[k].policy = PolicyKinds[k] /\ rows[k].cpu = cmd.cpu[PolicyKinds[k]]
                        /\ rows[k].projected = stored(k) + bookkeeping
  BY <1>4 DEF build_compression, build_compression_report, build_policy_row
<1> HIDE DEF U
<1>6. ASSUME NEW k \in 1 .. 5 PROVE stored(k) \in Nat
  <2> DEFINE p == Sum(Paid(PolicyKinds[k], "InitialFull"), U)
             n == Cardinality(U)
  <2>1. stored(k) = p + n * (1 + BLOB_OVERHEAD) /\ p \in Nat /\ n \in Nat
    BY <1>3, Simulated
  <2>2. 1 + BLOB_OVERHEAD \in Nat
    BY CodecAssumption
  <2> HIDE DEF p, n, stored
  <2>3. n * (1 + BLOB_OVERHEAD) \in Nat
    BY <2>1, <2>2
  <2> QED
    BY <2>1, <2>3
<1>7. stored(3) = stored(5)
  <2>1. PolicyKinds[3] = "zstd3" /\ PolicyKinds[5] = "zstd3+escalate"
    BY DEF PolicyKinds
  <2>2. /\ stored(3) = Sum(Paid("zstd3", "InitialFull"), U) + Cardinality(U) * (1 + BLOB_OVERHEAD)
        /\ stored(5) = Sum(Paid("zstd3+escalate", "InitialFull"), U) + Cardinality(U) * (1 + BLOB_OVERHEAD)
    BY <1>3, <2>1, Simulated
  <2> QED
    BY <2>2, NoEscalation
<1>8. \A k \in 1 .. 5 : cmd.cpu[PolicyKinds[k]] \in Nat
  <2>1. cmd.cpu \in [Range(PolicyKinds) -> Nat]
    BY CommandAssumption DEF CutInv, CommandInv
  <2>2. \A k \in 1 .. 5 : PolicyKinds[k] \in Range(PolicyKinds)
    BY <1>4 DEF Range
  <2> QED
    BY <2>1, <2>2
<1> HIDE DEF stored
<1> QED
  BY <1>4, <1>5, <1>6, <1>7, <1>8

\* What recommend_policy picks.
LEMMA BestPolicy ==
    ASSUME NEW rows, DOMAIN rows = 1 .. 5,
           \A k \in 1 .. 5 : /\ rows[k].policy = PolicyKinds[k]
                             /\ rows[k].cpu \in Nat /\ rows[k].projected \in Nat,
           rows[3].projected = rows[5].projected
    PROVE  \E k \in DOMAIN rows :
             /\ recommend_policy(rows) = rows[k].policy
             /\ rows[k].projected <= rows[3].projected /\ 2 * rows[k].cpu <= 3 * rows[3].cpu
             /\ rows[k].policy # "zstd3+escalate"
<1> DEFINE zstd3 == CHOOSE k \in DOMAIN rows : rows[k].policy = "zstd3"
           able == {k \in DOMAIN rows : 2 * rows[k].cpu <= 3 * rows[zstd3].cpu}
           Wins(k, m) == \/ rows[k].projected < rows[m].projected
                         \/ rows[k].projected = rows[m].projected /\ k <= m
           best == CHOOSE k \in able : \A m \in able : Wins(k, m)
<1>1. recommend_policy(rows) = rows[best].policy
  BY DEF recommend_policy
<1>2. /\ PolicyKinds[1] = "raw-only" /\ PolicyKinds[2] = "zstd3-always" /\ PolicyKinds[3] = "zstd3"
      /\ PolicyKinds[4] = "probe+zstd3" /\ PolicyKinds[5] = "zstd3+escalate"
  BY DEF PolicyKinds
<1>3. zstd3 = 3
  <2>1. \A k \in 1 .. 5 : rows[k].policy = "zstd3" <=> k = 3
    BY <1>2
  <2> QED
    BY <2>1
<1> HIDE DEF zstd3
<1>4. 3 \in able /\ able \subseteq 1 .. 5
  BY <1>3
<1>5. \A k \in able : 2 * rows[k].cpu <= 3 * rows[3].cpu
  BY <1>3
<1> HIDE DEF able
<1>6. \E k \in able : \A m \in able : Wins(k, m)
  <2> DEFINE f == [k \in able |-> rows[k].projected]
             g == [k \in able |-> k]
  <2>1. f \in [able -> Nat] /\ g \in [able -> Nat] /\ able # {}
    BY <1>4
  <2>2. \A k \in able : f[k] = rows[k].projected /\ g[k] = k
    OBVIOUS
  <2> HIDE DEF f, g
  <2>3. PICK d \in able : IsLeast(d, able, f, g)
    BY <2>1, LexMin
  <2> QED
    BY <2>2, <2>3 DEF IsLeast
<1>7. best \in able /\ \A m \in able : Wins(best, m)
  <2> HIDE DEF Wins
  <2> QED
    BY <1>6
<1> HIDE DEF best
<1>8. rows[best].projected <= rows[3].projected
  BY <1>4, <1>7
<1>9. best # 5
  BY <1>4, <1>7
<1>10. rows[best].policy # "zstd3+escalate"
  <2>1. best \in 1 .. 5
    BY <1>4, <1>7
  <2> QED
    BY <1>2, <1>9, <2>1
<1> QED
  BY <1>1, <1>4, <1>5, <1>7, <1>8, <1>10

-----------------------------------------------------------------------------
(* The default number of snapshots and the retention grid *)

TierStart(i) == RETENTION_TIERS[i][1]
TierWidth(i) == RETENTION_TIERS[i][2]
TierCount == Len(RETENTION_TIERS)
Covers(i, age) == TierStart(i) <= age /\ (i < TierCount => age < TierStart(i + 1))

LEMMA TierFacts ==
    /\ TierCount \in Nat \ {0} /\ DOMAIN RETENTION_TIERS = 1 .. TierCount /\ TierStart(1) = 0
    /\ \A i \in 1 .. TierCount : TierStart(i) \in Nat /\ TierWidth(i) \in Nat \ {0}
    /\ \A i, j \in 1 .. TierCount : i < j => TierStart(i) < TierStart(j)
    /\ \A i \in 1 .. TierCount : i < TierCount => i + 1 \in 1 .. TierCount /\ TierStart(i) < TierStart(i + 1)
<1> DEFINE T == RETENTION_TIERS
<1>1. T \in Seq(Nat \X (Nat \ {0})) /\ T # <<>> /\ T[1][1] = 0
  BY ReportAssumption
<1>2. \A i, j \in DOMAIN T : i < j => T[i][1] < T[j][1]
  BY ReportAssumption
<1> HIDE DEF T
<1>3. Len(T) \in Nat \ {0} /\ DOMAIN T = 1 .. Len(T)
  BY <1>1
<1>4. ASSUME NEW i \in 1 .. Len(T) PROVE T[i][1] \in Nat /\ T[i][2] \in Nat \ {0}
  <2>1. T[i] \in Nat \X (Nat \ {0})
    BY <1>1, <1>3
  <2> QED
    BY <2>1
<1>5. \A i \in 1 .. Len(T) : i < Len(T) => i + 1 \in 1 .. Len(T) /\ i < i + 1
  BY <1>3
<1> QED
  BY <1>1, <1>2, <1>3, <1>4, <1>5 DEF TierStart, TierWidth, TierCount, T

LEMMA NextStart ==
    ASSUME NEW j \in 1 .. TierCount, NEW i \in 1 .. TierCount, j < i
    PROVE  j + 1 \in 1 .. TierCount /\ j < TierCount /\ TierStart(j + 1) <= TierStart(i)
<1>1. j + 1 \in 1 .. TierCount /\ j < TierCount /\ TierStart(i) \in Nat
  BY TierFacts
<1>2. CASE j + 1 = i
  BY <1>1, <1>2
<1>3. CASE j + 1 < i
  <2>1. TierStart(j + 1) < TierStart(i) /\ TierStart(j + 1) \in Nat
    BY <1>1, <1>3, TierFacts
  <2> QED
    BY <1>1, <2>1
<1> QED
  BY <1>1, <1>2, <1>3

\* The grid puts an age into the tier that covers it.
LEMMA TierOf ==
    ASSUME NEW age \in Nat, NEW i \in 1 .. TierCount, Covers(i, age)
    PROVE  Grid!tier_for(age) = i
<1> DEFINE N == TierCount
           top(j) == IF j < N THEN TierStart(j + 1) ELSE USIZE_MAX
           First(j) == age < top(j) /\ \A k \in 1 .. N : k < j => top(k) <= age
<1>1. Grid!tier_for(age) = IF \E j \in 1 .. N : First(j) THEN CHOOSE j \in 1 .. N : First(j) ELSE N
  <2> DEFINE Ts == [j \in DOMAIN RETENTION_TIERS |->
                      [max_age |-> IF j < Len(RETENTION_TIERS) THEN RETENTION_TIERS[j + 1][1] ELSE USIZE_MAX,
                       cell |-> RETENTION_TIERS[j][2]]]
  <2>1. DOMAIN Ts = 1 .. N /\ Len(Ts) = N
    BY TierFacts
  <2>2. \A j \in 1 .. N : Ts[j].max_age = top(j)
    BY <2>1 DEF TierStart, TierCount
  <2>3. Grid!tier_for(age) =
          IF \E j \in DOMAIN Ts : Grid!FirstTier(j, age)
          THEN CHOOSE j \in DOMAIN Ts : Grid!FirstTier(j, age) ELSE Len(Ts)
    BY DEF Grid!tier_for
  <2>4. \A j : Grid!FirstTier(j, age) <=>
          age < Ts[j].max_age /\ \A k \in DOMAIN Ts : k < j => Ts[k].max_age <= age
    BY DEF Grid!FirstTier
  <2> HIDE DEF Ts, top
  <2>5. \A j \in 1 .. N : Grid!FirstTier(j, age) <=> First(j)
    BY <2>1, <2>2, <2>4
  <2> HIDE DEF First
  <2> QED
    BY <2>1, <2>3, <2>5
<1>2. ASSUME NEW j \in 1 .. N, First(j) PROVE j = i
  <2>1. CASE j < i
    <3>1. j + 1 \in 1 .. N /\ j < N /\ TierStart(j + 1) <= TierStart(i)
      BY <2>1, NextStart
    <3>2. age < TierStart(j + 1)
      BY <1>2, <3>1
    <3> QED
      BY <3>1, <3>2, TierFacts DEF Covers
  <2>2. CASE i < j
    <3>1. i < N /\ i + 1 \in 1 .. N
      BY <2>2, TierFacts
    <3>2. TierStart(i + 1) <= age
      BY <1>2, <2>2, <3>1
    <3> QED
      BY <3>1, <3>2, TierFacts DEF Covers
  <2> QED
    BY <2>1, <2>2, TierFacts
<1>3. i < N => First(i)
  <2> SUFFICES ASSUME i < N PROVE First(i)
    OBVIOUS
  <2>1. age < top(i)
    BY DEF Covers
  <2>2. ASSUME NEW k \in 1 .. N, k < i PROVE top(k) <= age
    <3>1. k + 1 \in 1 .. N /\ k < N /\ TierStart(k + 1) <= TierStart(i)
      BY <2>2, NextStart
    <3> QED
      BY <3>1, TierFacts DEF Covers
  <2> QED
    BY <2>1, <2>2
<1> HIDE DEF First
<1>4. CASE \E j \in 1 .. N : First(j)
  BY <1>1, <1>2, <1>4
<1>5. CASE ~ \E j \in 1 .. N : First(j)
  BY <1>1, <1>3, <1>5, TierFacts
<1> QED
  BY <1>4, <1>5

LEMMA TierExists ==
    ASSUME NEW age \in Nat PROVE \E i \in 1 .. TierCount : Covers(i, age)
<1> DEFINE N == TierCount
           X == {n \in 0 .. N - 1 : TierStart(N - n) <= age}
<1>1. X \in SUBSET Nat /\ N - 1 \in X
  BY TierFacts
<1>2. Min(X) \in X /\ \A n \in X : Min(X) <= n
  <2> HIDE DEF X
  <2> QED
    BY <1>1, MinIsLeast
<1> DEFINE n == Min(X)
           i == N - n
<1>3. n \in 0 .. N - 1 /\ TierStart(i) <= age /\ \A m \in 0 .. N - 1 : TierStart(N - m) <= age => n <= m
  <2> HIDE DEF n
  <2> QED
    BY <1>2 DEF n
<1> HIDE DEF n
<1>4. i \in 1 .. N
  BY <1>3, TierFacts
<1>5. ASSUME i < N PROVE age < TierStart(i + 1)
  <2>1. n - 1 \in 0 .. N - 1 /\ N - (n - 1) = i + 1 /\ i + 1 \in 1 .. N
    BY <1>3, <1>5, TierFacts
  <2> DEFINE m == n - 1
  <2>2. TierStart(N - m) <= age => n <= m
    <3>1. m \in 0 .. N - 1
      BY <2>1
    <3> HIDE DEF m
    <3> QED
      BY <1>3, <3>1
  <2>3. ~(TierStart(i + 1) <= age)
    BY <1>3, <2>1, <2>2
  <2> QED
    BY <2>1, <2>3, TierFacts
<1> QED
  BY <1>3, <1>4, <1>5 DEF Covers

\* The keys (tier, cell) that the times from a to b have in tier i with cells of
\* width w.  They meet as many cells as they are cells long, or one more.
KeysOf(i, w, a, b) == {<<i, t \div w>> : t \in a .. b}

LEMMA CellCount ==
    ASSUME NEW a \in Nat, NEW b \in Nat, a <= b, NEW w \in Nat \ {0}, NEW i
    PROVE  /\ IsFiniteSet(KeysOf(i, w, a, b)) /\ (b - a + w) \div w \in Nat
           /\ Cardinality(KeysOf(i, w, a, b)) \in {(b - a + w) \div w, (b - a + w) \div w + 1}
<1> DEFINE K == {<<i, t \div w>> : t \in a .. b}
           p == a \div w
           q == b \div w
           I == p .. q
           f == [c \in I |-> <<i, c>>]
<1>1. p \in Nat /\ q \in Nat /\ w * p <= a /\ a < w * p + w /\ w * q <= b /\ b < w * q + w
  BY SMTT(30)
<1>2. \A t \in a .. b : t \div w \in Nat /\ w * (t \div w) <= t /\ t < w * (t \div w) + w
  BY SMTT(30)
<1> HIDE DEF p, q
<1>3. ASSUME NEW t \in a .. b PROVE t \div w \in I
  <2> DEFINE c == t \div w
  <2>1. c \in Nat /\ w * c <= t /\ t < w * c + w /\ a <= t /\ t <= b /\ t \in Nat
    BY <1>2
  <2> HIDE DEF c
  <2>2. ~(c < p)
    <3>1. SUFFICES ASSUME c + 1 <= p PROVE FALSE
      BY <1>1, <2>1
    <3>2. w * (c + 1) <= w * p
      BY <1>1, <2>1, <3>1
    <3>3. w * (c + 1) = w * c + w /\ w * p \in Nat /\ w * c \in Nat
      BY <1>1, <2>1
    <3> QED
      BY <1>1, <2>1, <3>2, <3>3
  <2>3. ~(q < c)
    <3>1. SUFFICES ASSUME q + 1 <= c PROVE FALSE
      BY <1>1, <2>1
    <3>2. w * (q + 1) <= w * c
      BY <1>1, <2>1, <3>1
    <3>3. w * (q + 1) = w * q + w /\ w * q \in Nat /\ w * c \in Nat
      BY <1>1, <2>1
    <3> QED
      BY <1>1, <2>1, <3>2, <3>3
  <2>4. c \in I
    BY <1>1, <2>1, <2>2, <2>3
  <2> QED
    BY <2>4 DEF c
<1>4. ASSUME NEW c \in I PROVE \E t \in a .. b : t \div w = c
  <2>0. c \in Nat /\ p <= c /\ c <= q
    BY <1>1
  <2>1. CASE c = p
    BY <2>1 DEF p
  <2>2. CASE c # p
    <3>1. p + 1 <= c
      BY <1>1, <2>0, <2>2
    <3>2. w * (p + 1) <= w * c /\ w * c <= w * q
      BY <1>1, <2>0, <3>1
    <3>3. w * (p + 1) = w * p + w /\ w * p \in Nat /\ w * c \in Nat /\ w * q \in Nat
      BY <1>1, <2>0
    <3> DEFINE x == w * c
    <3>4. x \in a .. b
      BY <1>1, <3>2, <3>3
    <3>5. x \div w = c
      BY <2>0
    <3> QED
      BY <3>4, <3>5
  <2> QED
    BY <2>1, <2>2
<1>5. p <= q
  <2>1. p \in I
    <3>1. a \in a .. b
      OBVIOUS
    <3> QED
      BY <1>3, <3>1 DEF p
  <2> QED
    BY <1>1, <2>1
<1>6. IsFiniteSet(I) /\ Cardinality(I) = q - p + 1
  BY <1>1, <1>5, FS_Interval
<1>7. f \in Bijection(I, K)
  <2>1. \A c \in I : <<i, c>> \in K
    BY <1>4
  <2>2. \A k \in K : \E c \in I : k = <<i, c>>
    BY <1>3
  <2> HIDE DEF K, I
  <2> QED
    BY <2>1, <2>2 DEF Bijection, Injection, Surjection, IsInjective
<1>8. IsFiniteSet(K) /\ Cardinality(K) = q - p + 1
  <2> HIDE DEF f, I, K
  <2> QED
    BY <1>6, <1>7, FS_Bijection DEF ExistsBijection
<1> DEFINE n == b - a + w
           c == n \div w
<1>9. n \in Nat /\ c \in Nat /\ w * c <= n /\ n < w * c + w
  <2>1. n \in Nat
    OBVIOUS
  <2> HIDE DEF n
  <2> QED
    BY <2>1, SMTT(30)
<1> DEFINE d == q - p
<1>10. d \in Nat /\ w * d = w * q - w * p
  BY <1>1, <1>5
<1>11. w * d < n /\ n < w * d + 2 * w
  <2> DEFINE x == w * p
             y == w * q
             z == w * d
  <2>1. x \in Nat /\ y \in Nat /\ z = y - x /\ x <= a /\ a < x + w /\ y <= b /\ b < y + w
    BY <1>1, <1>10
  <2> HIDE DEF x, y, z, d
  <2>2. z < n /\ n < z + 2 * w
    BY <2>1
  <2> QED
    BY <2>2 DEF z
<1> HIDE DEF n, c, d
<1>12. c = d \/ c = d + 1
  <2>1. ~(c + 1 <= d)
    <3>1. SUFFICES ASSUME c + 1 <= d PROVE FALSE
      OBVIOUS
    <3>2. w * (c + 1) <= w * d /\ w * (c + 1) = w * c + w
      BY <1>9, <1>10, <3>1
    <3>3. w * d \in Nat /\ w * c \in Nat
      BY <1>9, <1>10
    <3> QED
      BY <1>9, <1>11, <3>2, <3>3
  <2>2. ~(d + 2 <= c)
    <3>1. SUFFICES ASSUME d + 2 <= c PROVE FALSE
      OBVIOUS
    <3>2. w * (d + 2) <= w * c /\ w * (d + 2) = w * d + 2 * w
      BY <1>9, <1>10, <3>1
    <3>3. w * d \in Nat /\ w * c \in Nat
      BY <1>9, <1>10
    <3> QED
      BY <1>9, <1>11, <3>2, <3>3
  <2> QED
    BY <1>9, <1>10, <2>1, <2>2
<1>13. Cardinality(K) \in {c, c + 1}
  BY <1>8, <1>9, <1>10, <1>12 DEF d
<1> QED
  BY <1>8, <1>9, <1>13 DEF c, n, KeysOf

\* Disjoint sets, each of the size that F says or one larger.
LEMMA UnionCount ==
    ASSUME NEW S, IsFiniteSet(S), NEW K, NEW F,
           \A i \in S : /\ IsFiniteSet(K[i]) /\ F[i] \in Nat
                        /\ Cardinality(K[i]) \in {F[i], F[i] + 1},
           \A i, j \in S : i # j => K[i] \cap K[j] = {}
    PROVE  /\ Cardinality(UNION {K[i] : i \in S}) \in Sum(F, S) .. Sum(F, S) + Cardinality(S)
           /\ Sum(F, S) \in Nat
<1> DEFINE U(s) == UNION {K[i] : i \in s}
           Good(s) == /\ IsFiniteSet(s) /\ IsFiniteSet(U(s)) /\ Sum(F, s) \in Nat
                      /\ Cardinality(U(s)) \in Sum(F, s) .. Sum(F, s) + Cardinality(s)
           G == {s \in SUBSET S : Good(s)}
<1>1. {} \in G
  <2>1. U({}) = {}
    OBVIOUS
  <2>2. Sum(F, {}) = 0
    BY SumEmpty
  <2>3. IsFiniteSet({}) /\ Cardinality({}) = 0
    BY FS_EmptySet
  <2>4. Good({})
    <3> HIDE DEF U
    <3> QED
      BY <2>1, <2>2, <2>3
  <2> QED
    BY <2>4
<1>2. ASSUME NEW s \in G, NEW x \in S \ s PROVE s \cup {x} \in G
  <2> DEFINE r == s \cup {x}
  <2>1. Good(s) /\ s \in SUBSET S
    BY <1>2
  <2>2. U(r) = U(s) \cup K[x]
    OBVIOUS
  <2>3. U(s) \cap K[x] = {}
    <3>1. \A i \in s : i \in S /\ i # x
      BY <2>1
    <3>2. \A i \in s : K[i] \cap K[x] = {}
      BY <3>1
    <3> QED
      BY <3>2
  <2> DEFINE a == U(s)
             b == K[x]
  <2>4. IsFiniteSet(a) /\ IsFiniteSet(b) /\ F[x] \in Nat /\ Cardinality(b) \in {F[x], F[x] + 1}
    BY <2>1
  <2>5. U(r) = a \cup b /\ a \cap b = {}
    BY <2>2, <2>3
  <2> HIDE DEF a, b
  <2>6. IsFiniteSet(a \cup b) /\ Cardinality(a \cup b) = Cardinality(a) + Cardinality(b)
    <3>1. /\ IsFiniteSet(a \cup b)
          /\ Cardinality(a \cup b) = Cardinality(a) + Cardinality(b) - Cardinality(a \cap b)
      BY <2>4, FS_Union
    <3>2. Cardinality(a) \in Nat /\ Cardinality(b) \in Nat
      BY <2>4, FS_CardinalityType
    <3>3. Cardinality(a \cap b) = 0
      BY <2>5, FS_EmptySet
    <3> QED
      BY <3>1, <3>2, <3>3
  <2>7. Sum(F, r) = Sum(F, s) + F[x]
    <3>1. \A y \in s : F[y] \in Nat
      BY <2>1
    <3> QED
      BY <2>1, <2>4, <3>1, SumAdd
  <2>8. IsFiniteSet(r) /\ Cardinality(r) = Cardinality(s) + 1 /\ Cardinality(s) \in Nat
    <3>1. IsFiniteSet(s) /\ x \notin s
      BY <2>1
    <3> QED
      BY <3>1, FS_AddElement, FS_CardinalityType
  <2>9. Cardinality(a) \in Sum(F, s) .. Sum(F, s) + Cardinality(s) /\ Sum(F, s) \in Nat
    BY <2>1 DEF a
  <2> DEFINE n == Cardinality(U(r))
             m == Sum(F, r)
             k == Cardinality(r)
  <2>10. n = Cardinality(a) + Cardinality(b) /\ IsFiniteSet(U(r))
    BY <2>5, <2>6
  <2> HIDE DEF r, U
  <2>11. n \in m .. m + k /\ m \in Nat
    BY <2>4, <2>7, <2>8, <2>9, <2>10
  <2>12. Good(r)
    BY <2>8, <2>10, <2>11
  <2>13. r \in SUBSET S
    BY <2>1 DEF r
  <2> HIDE DEF Good
  <2> QED
    BY <2>12, <2>13 DEF r
<1>3. G \in SUBSET (SUBSET S)
  OBVIOUS
<1> HIDE DEF G
<1>4. S \in G
  BY <1>1, <1>2, <1>3, SetInd
<1> QED
  BY <1>4 DEF G

\* The age at which a tier ends, as steady_state_snapshots has it, and the keys
\* that the times of its ages have at an instant.
TierEnd(i) == IF i < TierCount /\ TierStart(i + 1) < HORIZON THEN TierStart(i + 1) ELSE HORIZON
UsedTiers == {i \in 1 .. TierCount : TierEnd(i) > TierStart(i)}
TierKeys(i, now) == KeysOf(i, TierWidth(i), now - TierEnd(i) + 1, now - TierStart(i))

LEMMA TierEndFacts ==
    ASSUME NEW i \in 1 .. TierCount
    PROVE  TierEnd(i) \in Nat /\ TierEnd(i) <= HORIZON /\ (i < TierCount => TierEnd(i) <= TierStart(i + 1))
  BY TierFacts, HorizonAssumption DEF TierEnd

\* The grid's key of a time.
LEMMA GridKey ==
    ASSUME NEW now \in Nat, NEW t \in Nat, t <= now, NEW i \in 1 .. TierCount, Covers(i, now - t)
    PROVE  Grid!tier_for(now - t) = i /\ Grid!Cell(i, t) = t \div TierWidth(i)
<1> DEFINE age == now - t
<1>1. age \in Nat
  OBVIOUS
<1> HIDE DEF age
<1>2. Grid!tier_for(age) = i
  BY <1>1, TierOf DEF age
<1>3. Grid!Cell(i, t) = t \div TierWidth(i)
  <2> DEFINE Ts == [j \in DOMAIN RETENTION_TIERS |->
                      [max_age |-> IF j < Len(RETENTION_TIERS) THEN RETENTION_TIERS[j + 1][1] ELSE USIZE_MAX,
                       cell |-> RETENTION_TIERS[j][2]]]
  <2>1. Ts[i].cell = TierWidth(i) /\ TierWidth(i) \in Nat \ {0}
    BY TierFacts DEF TierWidth
  <2>2. Grid!Cell(i, t) = t \div (IF Ts[i].cell < 1 THEN 1 ELSE Ts[i].cell)
    BY DEF Grid!Cell, Grid!cell_ms
  <2> HIDE DEF Ts
  <2> QED
    BY <2>1, <2>2
<1> QED
  BY <1>2, <1>3 DEF age

LEMMA KeysByTier ==
    ASSUME NEW now \in Nat, HORIZON <= now
    PROVE  GridKeeps(now) = Cardinality(UNION {TierKeys(i, now) : i \in UsedTiers})
<1> DEFINE times == (now - HORIZON) + 1 .. now
           key(t) == <<Grid!tier_for(now - t), Grid!Cell(Grid!tier_for(now - t), t)>>
           X == {key(t) : t \in times}
           Y == UNION {TierKeys(i, now) : i \in UsedTiers}
<1>1. GridKeeps(now) = Cardinality(X)
  BY DEF GridKeeps
<1>2. ASSUME NEW t \in times PROVE key(t) \in Y
  <2>1. t \in Nat /\ t <= now /\ now - t \in Nat /\ now - t < HORIZON
    BY HorizonAssumption
  <2>2. PICK i \in 1 .. TierCount : Covers(i, now - t)
    BY <2>1, TierExists
  <2>3. key(t) = <<i, t \div TierWidth(i)>>
    BY <2>1, <2>2, GridKey
  <2>4. now - t < TierEnd(i) /\ TierStart(i) <= now - t
    BY <2>1, <2>2 DEF Covers, TierEnd
  <2>5. i \in UsedTiers
    BY <2>1, <2>4, TierFacts, TierEndFacts DEF UsedTiers
  <2>6. t \in now - TierEnd(i) + 1 .. now - TierStart(i)
    <3>1. TierEnd(i) \in Nat /\ TierStart(i) \in Nat
      BY TierFacts, TierEndFacts
    <3> QED
      BY <2>1, <2>4, <3>1
  <2>7. <<i, t \div TierWidth(i)>> \in TierKeys(i, now)
    BY <2>6 DEF TierKeys, KeysOf
  <2> QED
    BY <2>3, <2>5, <2>7
<1>3. ASSUME NEW i \in UsedTiers, NEW t \in now - TierEnd(i) + 1 .. now - TierStart(i)
      PROVE  <<i, t \div TierWidth(i)>> \in X
  <2>1. i \in 1 .. TierCount /\ TierEnd(i) > TierStart(i)
    BY DEF UsedTiers
  <2>2. /\ TierEnd(i) \in Nat /\ TierStart(i) \in Nat /\ TierEnd(i) <= HORIZON
        /\ i < TierCount => TierEnd(i) <= TierStart(i + 1) /\ TierStart(i + 1) \in Nat
    BY <2>1, TierFacts, TierEndFacts
  <2>3. t \in times /\ t \in Nat /\ t <= now
    BY <2>1, <2>2, HorizonAssumption
  <2>4. Covers(i, now - t)
    BY <2>2, <2>3 DEF Covers
  <2>5. key(t) = <<i, t \div TierWidth(i)>>
    BY <2>1, <2>3, <2>4, GridKey
  <2> QED
    BY <2>3, <2>5
<1>4. X = Y
  <2>1. \A x \in Y : x \in X
    BY <1>3 DEF TierKeys, KeysOf
  <2> HIDE DEF Y
  <2> QED
    BY <1>2, <2>1
<1> QED
  BY <1>1, <1>4

\* At every instant the grid keeps of a full history as many snapshots as
\* steady_state_snapshots says, or up to one more per tier.
LEMMA GridCount ==
    ASSUME NEW now \in Nat, HORIZON <= now
    PROVE  GridKeeps(now) \in steady_state_snapshots(HORIZON)
                              .. steady_state_snapshots(HORIZON) + Len(RETENTION_TIERS)
<1> DEFINE S == UsedTiers
           K == [i \in S |-> TierKeys(i, now)]
           F == [i \in S |-> Cells(TierEnd(i), TierStart(i), TierWidth(i))]
<1>1. steady_state_snapshots(HORIZON) = Sum(F, S)
  <2>1. DOMAIN RETENTION_TIERS = 1 .. TierCount
    BY TierFacts
  <2> QED
    BY <2>1 DEF steady_state_snapshots, SumFunction, Sum, UsedTiers, TierEnd, TierStart, TierWidth, TierCount
<1>2. IsFiniteSet(S) /\ Cardinality(S) <= TierCount /\ Cardinality(S) \in Nat
  <2>1. IsFiniteSet(1 .. TierCount) /\ Cardinality(1 .. TierCount) = TierCount
    BY TierFacts, FS_Interval
  <2>2. S \in SUBSET (1 .. TierCount)
    BY DEF UsedTiers
  <2> QED
    BY <2>1, <2>2, FS_Subset, FS_CardinalityType
<1>3. ASSUME NEW i \in S
      PROVE  IsFiniteSet(K[i]) /\ F[i] \in Nat /\ Cardinality(K[i]) \in {F[i], F[i] + 1}
  <2>1. i \in 1 .. TierCount /\ TierEnd(i) > TierStart(i)
    BY DEF UsedTiers
  <2> DEFINE u == TierEnd(i)
             l == TierStart(i)
             w == TierWidth(i)
             a == now - u + 1
             b == now - l
  <2>2. u \in Nat /\ l \in Nat /\ w \in Nat \ {0} /\ u <= HORIZON /\ u > l
    BY <2>1, TierFacts, TierEndFacts
  <2>3. K[i] = KeysOf(i, w, a, b) /\ F[i] = Cells(u, l, w)
    BY DEF TierKeys
  <2> HIDE DEF u, l, w, K, F
  <2>4. a \in Nat /\ b \in Nat /\ a <= b /\ b - a + w = u - l + w - 1
    BY <2>2, HorizonAssumption
  <2> HIDE DEF a, b
  <2>5. /\ IsFiniteSet(KeysOf(i, w, a, b)) /\ (b - a + w) \div w \in Nat
        /\ Cardinality(KeysOf(i, w, a, b)) \in {(b - a + w) \div w, (b - a + w) \div w + 1}
    BY <2>2, <2>4, CellCount
  <2> QED
    BY <2>3, <2>4, <2>5 DEF Cells
<1>4. \A i, j \in S : i # j => K[i] \cap K[j] = {}
  BY DEF TierKeys, KeysOf
<1>5. UNION {K[i] : i \in S} = UNION {TierKeys(i, now) : i \in UsedTiers}
  OBVIOUS
<1> HIDE DEF K, F, S
<1>6. Cardinality(UNION {K[i] : i \in S}) \in Sum(F, S) .. Sum(F, S) + Cardinality(S) /\ Sum(F, S) \in Nat
  BY <1>2, <1>3, <1>4, UnionCount
<1>7. GridKeeps(now) \in Sum(F, S) .. Sum(F, S) + Cardinality(S)
  BY <1>5, <1>6, KeysByTier
<1>8. GridKeeps(now) \in Sum(F, S) .. Sum(F, S) + TierCount
  BY <1>2, <1>6, <1>7, TierFacts
<1> QED
  BY <1>1, <1>8 DEF TierCount

-----------------------------------------------------------------------------
(* The figures of a report *)

\* The chunks of a file tile it.
LEMMA FileBytes ==
    ASSUME CutInv, NEW t \in DOMAIN files, NEW f \in 1 .. Len(files[t]), NEW ci \in DOMAIN configs
    PROVE  /\ files[t][f].bytes \in Nat
           /\ Sum(Lens(files[t][f].per_candidate[ci]), 1 .. Len(files[t][f].per_candidate[ci]))
                = files[t][f].bytes
<1>1. t \in DOMAIN cmd.trees /\ cmd.trees[t] \in Seq(SourceFile) /\ cmd \in Commands
  BY CommandAssumption DEF CutInv, FilesInv, CommandInv
<1>2. PICK n \in 0 .. Len(cmd.trees[t]) : files[t] = CutFiles(cmd.trees[t], n, configs)
  BY <1>1 DEF CutInv, FilesInv
<1>3. n \in Nat /\ Len(files[t]) = n
  BY <1>1, <1>2, CutFilesLen
<1> DEFINE file == cmd.trees[t][f]
<1>4. files[t][f] = CutFile(file, configs)
  BY <1>2, <1>3 DEF CutFiles
<1>5. f \in DOMAIN cmd.trees[t] /\ file \in SourceFile
  BY <1>1, <1>3
<1>6. Chunkable(file.source)
  BY <1>1, <1>5, CommandAssumption
<1>7. file.source \in Seq(Block)
  BY <1>5 DEF SourceFile
<1>8. configs[ci] \in Nat \ {0}
  BY DEF CutInv, CommandInv
<1> HIDE DEF file
<1>9. /\ files[t][f].per_candidate[ci] = Cut(file.source, configs[ci])
      /\ files[t][f].bytes = Len(file.source) * BLOCK
  BY <1>4 DEF CutFile
<1>10. Sum(Lens(Cut(file.source, configs[ci])), 1 .. Len(Cut(file.source, configs[ci])))
         = Len(file.source) * BLOCK
  BY <1>6, <1>7, <1>8, CutBytes
<1>11. Len(file.source) * BLOCK \in Nat
  BY <1>7, BlockAssumption
<1> QED
  BY <1>9, <1>10, <1>11

\* How many chunks of a list are no longer than x, how many shorter, and what
\* makes x their p-th percentile.
Within(ms, x) == Cardinality({k \in DOMAIN ms : Sizes[ms[k]].raw <= x})
Below(ms, x) == Cardinality({k \in DOMAIN ms : Sizes[ms[k]].raw < x})
Least(ms, x, p) == Within(ms, x) * 100 >= p * Len(ms) /\ (ms # <<>> => Below(ms, x) * 100 < p * Len(ms))

LEMMA PercentileOfChunks ==
    ASSUME NEW ms \in Seq(Content), NEW p \in 1 .. 100
    PROVE  Least(ms, nearest_rank(Sorted(Lens(ms)), p), p)
<1> DEFINE L == Lens(ms)
           x == nearest_rank(Sorted(L), p)
<1>1. /\ L \in Seq(Nat) /\ Len(L) = Len(ms) /\ DOMAIN L = 1 .. Len(ms)
      /\ \A k \in 1 .. Len(ms) : L[k] = Sizes[ms[k]].raw
  BY LensType
<1> HIDE DEF L
<1>2. /\ Cardinality({k \in DOMAIN L : L[k] <= x}) * 100 >= p * Len(L)
      /\ L # <<>> => Cardinality({k \in DOMAIN L : L[k] < x}) * 100 < p * Len(L)
  BY <1>1, Percentile
<1> HIDE DEF x
<1>3. /\ {k \in DOMAIN L : L[k] <= x} = {k \in DOMAIN ms : Sizes[ms[k]].raw <= x}
      /\ {k \in DOMAIN L : L[k] < x} = {k \in DOMAIN ms : Sizes[ms[k]].raw < x}
  BY <1>1
<1>4. ms # <<>> => L # <<>>
  BY <1>1
<1>5. Least(ms, x, p)
  BY <1>1, <1>2, <1>3, <1>4 DEF Within, Below, Least
<1> QED
  BY <1>5 DEF x, L

\* Every candidate tiles the bytes of the tree, and its other figures keep to
\* their bounds.
LEMMA CandidateAddsUp ==
    ASSUME CutInv, NEW ci \in DOMAIN configs, NEW snapshots, NEW baseline, NEW c,
           c = CandidateReport(files[1], configs, ci, snapshots, baseline)
    PROVE  /\ c.total_bytes = SumFunction([f \in DOMAIN files[1] |-> files[1][f].bytes])
           /\ c.unique_bytes <= c.total_bytes /\ c.shared <= c.unique_chunks
           /\ Least(Metas(files[1], ci), c.median, 50) /\ Least(Metas(files[1], ci), c.p95, 95)
<1> DEFINE fs == files[1]
           ms == Metas(fs, ci)
           u == unique_ids(fs, ci)
           raws == [d \in u |-> Sizes[d].raw]
           lens == [k \in DOMAIN ms |-> Sizes[ms[k]].raw]
           all == [f \in DOMAIN fs |-> fs[f].bytes]
<1>1. 1 \in DOMAIN files
  BY FirstTree
<1>2. /\ Len(fs) \in Nat /\ DOMAIN fs = 1 .. Len(fs)
      /\ \A f \in 1 .. Len(fs) :
           /\ fs[f].per_candidate[ci] \in Seq(Content) /\ fs[f].bytes \in Nat
           /\ Sum(Lens(fs[f].per_candidate[ci]), 1 .. Len(fs[f].per_candidate[ci])) = fs[f].bytes
  BY <1>1, FilesAreTyped, FileBytes
<1>3. /\ c.total_bytes = SumFunction(lens) /\ c.unique_bytes = SumFunction(raws)
      /\ c.unique_chunks = Cardinality(u) /\ c.shared = Cardinality(u \cap unique_ids(baseline, ci))
      /\ c.median = nearest_rank(Sorted(lens), 50) /\ c.p95 = nearest_rank(Sorted(lens), 95)
  BY DEF CandidateReport
<1> HIDE DEF fs
<1>4. ms \in Seq(Content)
  BY <1>2, MetasAreChunks
<1>5. u \in SUBSET Content /\ IsFiniteSet(u)
  BY <1>4, UniqueIsFinite
<1>6. u = {ms[k] : k \in 1 .. Len(ms)}
  BY <1>4 DEF unique_ids
<1>7. Sum(Lens(ms), 1 .. Len(ms)) = Sum([f \in 1 .. Len(fs) |-> fs[f].bytes], 1 .. Len(fs))
  BY <1>2, TreeBytes
<1> HIDE DEF ms, u
<1>8. lens = Lens(ms) /\ DOMAIN lens = 1 .. Len(ms)
  BY <1>4 DEF Lens
<1> HIDE DEF lens
<1>9. c.total_bytes = Sum(Lens(ms), 1 .. Len(ms))
  BY <1>3, <1>8 DEF SumFunction, Sum
<1>10. SumFunction(all) = Sum([f \in 1 .. Len(fs) |-> fs[f].bytes], 1 .. Len(fs))
  BY <1>2 DEF SumFunction, Sum
<1>11. SumFunction(raws) = Sum(RawLen, u)
  <2>1. DOMAIN raws = u /\ \A d \in u : raws[d] \in Nat /\ raws[d] = RawLen[d]
    BY <1>5, CodecAssumption DEF RawLen
  <2> HIDE DEF raws
  <2>2. Sum(raws, u) = Sum(RawLen, u)
    BY <1>5, <2>1, SumSame
  <2> QED
    BY <2>1, <2>2 DEF SumFunction, Sum
<1>12. Sum(RawLen, u) <= Sum(Lens(ms), 1 .. Len(ms))
  BY <1>4, <1>6, UniqueBytes
<1>13. Cardinality(u \cap unique_ids(baseline, ci)) <= Cardinality(u)
  BY <1>5, FS_Intersection
<1>14. Least(ms, c.median, 50) /\ Least(ms, c.p95, 95)
  BY <1>3, <1>4, <1>8, PercentileOfChunks
<1>15. c.total_bytes = SumFunction(all)
  BY <1>7, <1>9, <1>10
<1> HIDE DEF all
<1>16. c.unique_bytes <= c.total_bytes /\ c.shared <= c.unique_chunks
  <2> HIDE DEF raws
  <2> QED
    BY <1>3, <1>9, <1>11, <1>12, <1>13
<1> QED
  BY <1>14, <1>15, <1>16 DEF all, ms, fs

\* The class of a chunk is that of the first file that has it, so the classes
\* split the distinct chunks up.
LEMMA ClassesPartition ==
    ASSUME NEW fs, Len(fs) \in Nat, DOMAIN fs = 1 .. Len(fs),
           \A n \in 1 .. Len(fs) : fs[n].per_candidate[1] \in Seq(Content)
    PROVE  LET U == unique_ids(fs, 1)
               C == {classify(fs[n].ext) : n \in DOMAIN fs}
           IN  /\ IsFiniteSet(C)
               /\ \E class \in [U -> C] : \A k \in C : class_chunks(fs, k) = {c \in U : class[c] = k}
<1> DEFINE U == unique_ids(fs, 1)
           C == {classify(fs[n].ext) : n \in DOMAIN fs}
           holders(c) == {n \in DOMAIN fs : \E k \in DOMAIN fs[n].per_candidate[1] :
                            fs[n].per_candidate[1][k] = c}
           class == [c \in U |-> classify(fs[Min(holders(c))].ext)]
<1>1. IsFiniteSet(C)
  <2> DEFINE h == [n \in DOMAIN fs |-> classify(fs[n].ext)]
  <2>1. h \in Surjection(DOMAIN fs, C)
    BY DEF Surjection
  <2>2. IsFiniteSet(DOMAIN fs)
    BY FS_Interval
  <2> QED
    BY <2>1, <2>2, FS_Surjection
<1>2. ASSUME NEW c \in U PROVE Min(holders(c)) \in DOMAIN fs
  <2>1. PICK k \in DOMAIN Metas(fs, 1) : c = Metas(fs, 1)[k]
    BY DEF unique_ids
  <2>2. \E n \in 1 .. Len(fs) : \E j \in DOMAIN fs[n].per_candidate[1] :
          fs[n].per_candidate[1][j] = Metas(fs, 1)[k]
    BY MetasComeFromFiles
  <2>3. holders(c) # {} /\ holders(c) \in SUBSET (DOMAIN fs)
    BY <2>1, <2>2
  <2>4. holders(c) \in SUBSET Nat
    BY <2>3
  <2> DEFINE H == holders(c)
  <2> HIDE DEF H
  <2>5. Min(H) \in H
    BY <2>3, <2>4, MinIsLeast DEF H
  <2> QED
    BY <2>3, <2>5 DEF H
<1>3. class \in [U -> C]
  <2>1. \A c \in U : classify(fs[Min(holders(c))].ext) \in C
    BY <1>2
  <2> HIDE DEF holders, C, U
  <2> QED
    BY <2>1
<1>4. ASSUME NEW k \in C PROVE class_chunks(fs, k) = {c \in U : class[c] = k}
  <2>1. class_chunks(fs, k) = {c \in U : classify(fs[Min(holders(c))].ext) = k}
    BY DEF class_chunks
  <2>2. \A c \in U : class[c] = classify(fs[Min(holders(c))].ext)
    OBVIOUS
  <2> HIDE DEF class, holders, U
  <2> QED
    BY <2>1, <2>2
<1> HIDE DEF class, U, C
<1>5. \E cl \in [U -> C] : \A k \in C : class_chunks(fs, k) = {c \in U : cl[c] = k}
  BY <1>3, <1>4
<1> QED
  BY <1>1, <1>5 DEF U, C

\* One figure of the classes adds up to that of the whole.
LEMMA FigureSplits ==
    ASSUME NEW U, IsFiniteSet(U), NEW C, IsFiniteSet(C), NEW class \in [U -> C],
           NEW F, \A c \in U : F[c] \in Nat, NEW D, DOMAIN D = C,
           \A k \in C : D[k] = Sum(F, {c \in U : class[c] = k})
    PROVE  SumFunction(D) = Sum(F, U)
<1> DEFINE E == [k \in C |-> Sum(F, {c \in U : class[c] = k})]
<1>1. Sum(E, C) = Sum(F, U)
  BY SumSplit
<1>2. \A k \in C : E[k] = D[k] /\ E[k] \in Nat
  <2>1. ASSUME NEW k \in C PROVE Sum(F, {c \in U : class[c] = k}) \in Nat
    <3> DEFINE T == {c \in U : class[c] = k}
    <3>1. T \in SUBSET U
      OBVIOUS
    <3> HIDE DEF T
    <3>2. IsFiniteSet(T) /\ \A c \in T : F[c] \in Nat
      BY <3>1, FS_Subset
    <3>3. Sum(F, T) \in Nat
      BY <3>2, SumType
    <3> QED
      BY <3>3 DEF T
  <2> QED
    BY <2>1
<1> HIDE DEF E
<1>3. Sum(E, C) = Sum(D, C)
  BY <1>2, SumSame
<1> QED
  BY <1>1, <1>3 DEF SumFunction, Sum

\* The file classes split up what a policy makes of the tree.
LEMMA ClassesAddUp ==
    ASSUME CutInv, 1 \in DOMAIN configs, NEW kind,
           NEW figure \in {"bytes_in", "bytes_out", "chunk_count"}
    PROVE  LET D == file_class_diagnostics(files[1], kind)
           IN  SumFunction([class \in DOMAIN D |-> D[class][figure]])
                 = simulate_policy(unique_ids(files[1], 1), kind, "InitialFull")[figure]
<1> DEFINE fs == files[1]
           U == unique_ids(fs, 1)
           C == {classify(fs[n].ext) : n \in DOMAIN fs}
           D == file_class_diagnostics(fs, kind)
           paid == Paid(kind, "InitialFull")
           one == [c \in Content |-> 1]
           F == IF figure = "bytes_in" THEN RawLen ELSE IF figure = "bytes_out" THEN paid ELSE one
<1>1. 1 \in DOMAIN files
  BY FirstTree
<1>2. /\ Len(fs) \in Nat /\ DOMAIN fs = 1 .. Len(fs)
      /\ \A f \in 1 .. Len(fs) : fs[f].per_candidate[1] \in Seq(Content)
  BY <1>1, FilesAreTyped
<1> HIDE DEF fs
<1>3. U \in SUBSET Content /\ IsFiniteSet(U)
  BY <1>2, MetasAreChunks, UniqueIsFinite
<1>4. IsFiniteSet(C) /\ \E class \in [U -> C] : \A k \in C : class_chunks(fs, k) = {c \in U : class[c] = k}
  BY <1>2, ClassesPartition
<1>5. DOMAIN D = C /\ \A k \in C : D[k] = simulate_policy(class_chunks(fs, k), kind, "InitialFull")
  BY DEF file_class_diagnostics
<1> HIDE DEF U, C, D
<1>6. PICK class \in [U -> C] : \A k \in C : class_chunks(fs, k) = {c \in U : class[c] = k}
  BY <1>4
<1>7. \A c \in U : F[c] \in Nat
  <2>1. \A c \in U : RawLen[c] \in Nat /\ one[c] \in Nat
    BY <1>3, CodecAssumption DEF RawLen
  <2>2. \A c \in U : paid[c] \in Nat
    BY <1>3, IncrementPaysNoMore
  <2> HIDE DEF paid, one
  <2> QED
    BY <2>1, <2>2
<1>8. ASSUME NEW T \in SUBSET U PROVE simulate_policy(T, kind, "InitialFull")[figure] = Sum(F, T)
  <2>1. T \in SUBSET Content /\ IsFiniteSet(T)
    BY <1>3, FS_Subset
  <2> DEFINE r == simulate_policy(T, kind, "InitialFull")
  <2>2. r.chunk_count = Cardinality(T) /\ r.bytes_in = Sum(RawLen, T) /\ r.bytes_out = Sum(paid, T)
    BY <2>1, Simulated
  <2>3. Sum(one, T) = Cardinality(T)
    <3>1. \A c \in T : one[c] = 1
      BY <2>1
    <3> HIDE DEF one
    <3> QED
      BY <2>1, <3>1, SumOnes
  <2> HIDE DEF r, paid, one
  <2>4. CASE figure = "bytes_in"
    BY <2>2, <2>4 DEF r
  <2>5. CASE figure = "bytes_out"
    BY <2>2, <2>5 DEF r
  <2>6. CASE figure = "chunk_count"
    BY <2>2, <2>3, <2>6 DEF r
  <2> QED
    BY <2>4, <2>5, <2>6
<1> HIDE DEF F
<1> DEFINE G == [k \in DOMAIN D |-> D[k][figure]]
<1>9. DOMAIN G = C /\ \A k \in C : G[k] = Sum(F, {c \in U : class[c] = k})
  <2>1. ASSUME NEW k \in C PROVE G[k] = Sum(F, {c \in U : class[c] = k})
    <3> DEFINE T == {c \in U : class[c] = k}
    <3>1. T \in SUBSET U
      OBVIOUS
    <3>2. G[k] = simulate_policy(T, kind, "InitialFull")[figure]
      BY <1>5, <1>6
    <3> HIDE DEF T
    <3>3. G[k] = Sum(F, T)
      BY <1>8, <3>1, <3>2
    <3> QED
      BY <3>3 DEF T
  <2> QED
    BY <1>5, <2>1
<1> HIDE DEF G
<1>10. SumFunction(G) = Sum(F, U)
  BY <1>3, <1>4, <1>7, <1>9, FigureSplits
<1>11. simulate_policy(U, kind, "InitialFull")[figure] = Sum(F, U)
  BY <1>8
<1> QED
  BY <1>10, <1>11 DEF G, D, U, fs

\* Fewer chunks, as an increment, take up no more than all of them at first.
LEMMA IncrementStoresNoMore ==
    ASSUME NEW U \in SUBSET Content, IsFiniteSet(U), NEW T \in SUBSET U, NEW kind
    PROVE  /\ simulate_policy(T, kind, "Incremental").stored_bytes \in Nat
           /\ simulate_policy(U, kind, "InitialFull").stored_bytes \in Nat
           /\ simulate_policy(T, kind, "Incremental").stored_bytes
                <= simulate_policy(U, kind, "InitialFull").stored_bytes
<1> DEFINE inc == Paid(kind, "Incremental")
           full == Paid(kind, "InitialFull")
           h == 1 + BLOB_OVERHEAD
           m == Cardinality(T)
           n == Cardinality(U)
<1>1. T \in SUBSET Content /\ IsFiniteSet(T) /\ m <= n
  BY FS_Subset
<1>2. /\ simulate_policy(T, kind, "Incremental").stored_bytes = Sum(inc, T) + m * h
      /\ Sum(inc, T) \in Nat /\ m \in Nat
  BY <1>1, Simulated
<1>3. /\ simulate_policy(U, kind, "InitialFull").stored_bytes = Sum(full, U) + n * h
      /\ Sum(full, U) \in Nat /\ n \in Nat
  BY Simulated
<1>4. h \in Nat
  BY CodecAssumption
<1>5. \A c \in U : inc[c] \in Nat /\ full[c] \in Nat /\ inc[c] <= full[c]
  BY IncrementPaysNoMore
<1> HIDE DEF inc, full, h, m, n
<1>6. Sum(inc, T) <= Sum(inc, U)
  BY <1>5, SumSubset
<1>7. Sum(inc, U) <= Sum(full, U)
  BY <1>5, SumMono
<1>8. Sum(inc, U) \in Nat
  BY <1>5, SumType
<1>9. m * h <= n * h /\ m * h \in Nat /\ n * h \in Nat
  BY <1>1, <1>2, <1>3, <1>4
<1> QED
  BY <1>2, <1>3, <1>6, <1>7, <1>8, <1>9

\* Scaling by a percentage never makes a figure larger, rounding included.
LEMMA ScalesDown ==
    ASSUME NEW stats, NEW x \in DOMAIN stats, stats[x] \in Nat, NEW percent \in Nat
    PROVE  scale_stats(stats, percent)[x] <= stats[x]
<1> DEFINE p == IF percent > 100 THEN 100 ELSE percent
           y == stats[x]
<1>1. p \in Nat /\ p <= 100 /\ y \in Nat
  OBVIOUS
<1>2. scale_stats(stats, percent)[x] = (2 * y * p + 100) \div 200
  BY DEF scale_stats
<1> HIDE DEF p, y
<1> DEFINE z == y * p
<1>3. z \in Nat /\ z <= y * 100 /\ 2 * y * p = 2 * z
  BY <1>1
<1> HIDE DEF z
<1>4. (2 * z + 100) \div 200 <= y
  BY <1>1, <1>3
<1> QED
  BY <1>2, <1>3, <1>4 DEF y

LEMMA IncrementAddsUp ==
    ASSUME NEW U \in SUBSET Content, IsFiniteSet(U), NEW kind, NEW delta, NEW churn \in Seq(Nat),
           delta # <<>> => delta[1] \in SUBSET U, build_incremental(U, kind, delta, churn) # <<>>
    PROVE  build_incremental(U, kind, delta, churn)[1].stored_bytes
             <= simulate_policy(U, kind, "InitialFull").stored_bytes
<1> DEFINE full == simulate_policy(U, kind, "InitialFull").stored_bytes
           stats == simulate_policy(U, kind, "Incremental")
<1>1. CASE delta # <<>>
  <2>1. build_incremental(U, kind, delta, churn) = <<simulate_policy(delta[1], kind, "Incremental")>>
    BY <1>1 DEF build_incremental
  <2>2. simulate_policy(delta[1], kind, "Incremental").stored_bytes <= full
    BY <1>1, IncrementStoresNoMore
  <2> QED
    BY <2>1, <2>2
<1>2. CASE delta = <<>> /\ churn # <<>>
  <2>1. build_incremental(U, kind, delta, churn) = <<scale_stats(stats, churn[1])>>
    BY <1>2 DEF build_incremental
  <2>2. churn[1] \in Nat
    BY <1>2
  <2>3. stats["stored_bytes"] \in Nat /\ full \in Nat /\ stats["stored_bytes"] <= full
    BY IncrementStoresNoMore
  <2>4. "stored_bytes" \in DOMAIN stats
    BY DEF simulate_policy
  <2> HIDE DEF stats, full
  <2>5. scale_stats(stats, churn[1])["stored_bytes"] <= stats["stored_bytes"]
    BY <2>2, <2>3, <2>4, ScalesDown
  <2>6. scale_stats(stats, churn[1])["stored_bytes"] \in Int
    <3> DEFINE p == IF churn[1] > 100 THEN 100 ELSE churn[1]
               y == stats["stored_bytes"]
    <3>1. scale_stats(stats, churn[1])["stored_bytes"] = (2 * y * p + 100) \div 200
      BY <2>4 DEF scale_stats
    <3>2. p \in Nat /\ y \in Nat
      BY <2>2, <2>3
    <3> HIDE DEF p, y
    <3> QED
      BY <3>1, <3>2
  <2> QED
    BY <2>1, <2>3, <2>5, <2>6 DEF full
<1>3. CASE delta = <<>> /\ churn = <<>>
  BY <1>3 DEF build_incremental
<1> QED
  BY <1>1, <1>2, <1>3

\* The rows of the policies: their figures, and what their increments ship.
LEMMA PoliciesAddUp ==
    ASSUME CutInv, 1 \in DOMAIN configs, NEW bookkeeping, NEW rows,
           rows = build_compression(bookkeeping), NEW k \in DOMAIN rows
    PROVE  /\ rows[k].stored = simulate_policy(unique_ids(files[1], 1), rows[k].policy, "InitialFull")
           /\ rows[k].incremental # <<>> =>
                rows[k].incremental[1].stored_bytes <= rows[k].stored.stored_bytes
<1> DEFINE U == unique_ids(files[1], 1)
           delta == IF Len(files) = 1 THEN <<>> ELSE <<U \ unique_ids(Baseline, 1)>>
<1>1. 1 \in DOMAIN files
  BY FirstTree
<1>2. Metas(files[1], 1) \in Seq(Content)
  BY <1>1, FilesAreTyped, MetasAreChunks
<1>3. U \in SUBSET Content /\ IsFiniteSet(U)
  BY <1>2, UniqueIsFinite
<1>4. DOMAIN rows = DOMAIN PolicyKinds
  BY DEF build_compression, build_compression_report
<1>5. /\ rows[k].policy = PolicyKinds[k]
      /\ rows[k].stored = simulate_policy(U, PolicyKinds[k], "InitialFull")
      /\ rows[k].incremental = build_incremental(U, PolicyKinds[k], delta, cmd.churn)
  BY <1>4 DEF build_compression, build_compression_report, build_policy_row
<1>6. delta # <<>> => delta[1] \in SUBSET U
  OBVIOUS
<1>7. cmd.churn \in Seq(Nat)
  BY CommandAssumption DEF CutInv, CommandInv
<1> HIDE DEF U, delta
<1>8. rows[k].incremental # <<>> =>
        rows[k].incremental[1].stored_bytes <= rows[k].stored.stored_bytes
  BY <1>3, <1>5, <1>6, <1>7, IncrementAddsUp
<1> QED
  BY <1>5, <1>8 DEF U

LEMMA PrintRecommends == ASSUME CutInv, print_report PROVE RecommendationHolds'
<1>0. pc = "cutting" /\ UNCHANGED <<cmd, configs, files>>
  BY DEF print_report
<1>1. configs # <<>> /\ (cmd.compression => 1 \in DOMAIN configs) /\ cmd.compression \in BOOLEAN
  BY <1>0, CommandAssumption DEF CutInv, CommandInv
<1> DEFINE candidates == build_report(files[1], configs, Snapshots, Baseline)
           rows == build_compression(candidates[1].bookkeeping)
           policy == recommend_policy(rows)
<1>2. IF ~cmd.compression THEN report' = Report(candidates, <<>>, "none", <<>>)
      ELSE report' = Report(candidates, rows, policy, file_class_diagnostics(files[1], policy))
  BY DEF print_report
<1>3. /\ report'.candidates = candidates /\ report'.recommended = recommend(candidates)
      /\ cmd.compression => report'.policies = rows /\ report'.policy = policy
  <2> HIDE DEF candidates, rows, policy
  <2> QED
    BY <1>2 DEF Report
<1>4. PICK best \in DOMAIN candidates :
        /\ recommend(candidates) = candidates[best].target_size
        /\ \A c \in DOMAIN candidates : Better(candidates[best], candidates[c])
  BY <1>1, BestCandidate
<1>5. ASSUME cmd.compression
      PROVE  candidates[1].bookkeeping \in Nat
  BY <1>1, <1>5, SnapshotsIsNat, CandidateFigures DEF build_report
<1> HIDE DEF candidates
<1>6. ASSUME cmd.compression
      PROVE  \E row, zstd3 \in Range(rows) :
               /\ row.policy = policy /\ zstd3.policy = "zstd3"
               /\ row.projected <= zstd3.projected /\ 2 * row.cpu <= 3 * zstd3.cpu
               /\ policy # "zstd3+escalate"
  <2>1. /\ DOMAIN rows = 1 .. 5
        /\ \A k \in 1 .. 5 : /\ rows[k].policy = PolicyKinds[k]
                             /\ rows[k].cpu \in Nat /\ rows[k].projected \in Nat
        /\ rows[3].projected = rows[5].projected
    BY <1>1, <1>5, <1>6, PolicyRows
  <2> HIDE DEF rows
  <2>2. PICK k \in DOMAIN rows :
          /\ policy = rows[k].policy
          /\ rows[k].projected <= rows[3].projected /\ 2 * rows[k].cpu <= 3 * rows[3].cpu
          /\ rows[k].policy # "zstd3+escalate"
    BY <2>1, BestPolicy
  <2>3. rows[k] \in Range(rows) /\ rows[3] \in Range(rows) /\ rows[3].policy = "zstd3"
    BY <2>1, <2>2 DEF Range, PolicyKinds
  <2> QED
    BY <2>2, <2>3
<1> HIDE DEF rows, policy
<1>7. \E d \in Range(candidates) :
        /\ d.target_size = recommend(candidates)
        /\ \A c \in Range(candidates) :
             \/ d.unique_bytes + d.bookkeeping < c.unique_bytes + c.bookkeeping
             \/ /\ d.unique_bytes + d.bookkeeping = c.unique_bytes + c.bookkeeping
                /\ d.target_size <= c.target_size
  <2>1. candidates[best] \in Range(candidates)
    BY DEF Range
  <2>2. ASSUME NEW c \in Range(candidates) PROVE Better(candidates[best], c)
    BY <1>4 DEF Range
  <2> QED
    BY <1>4, <2>1, <2>2 DEF Better, Cost
<1> QED
  BY <1>0, <1>3, <1>6, <1>7 DEF RecommendationHolds

\* What is recommended is best: no candidate size is cheaper, and the policy
\* stores no more than zstd3, is not slower than 1.5 times zstd3 and never is the
\* escalating one, for any chunk lengths, layout figures and measured times
\* (bench.rs recommend, policy_bench.rs recommend_policy).
THEOREM RecommendedIsBest == Spec => []RecommendationHolds
<1>1. Init => RecommendationHolds
  BY DEF Init, RecommendationHolds
<1>2. CutInv /\ RecommendationHolds /\ [Next]_vars => RecommendationHolds'
  <2> SUFFICES ASSUME CutInv, RecommendationHolds, [Next]_vars PROVE RecommendationHolds'
    OBVIOUS
  <2>1. CASE print_report
    BY <2>1, PrintRecommends
  <2>2. CASE resolve
    BY <2>2 DEF resolve, RecommendationHolds
  <2>3. CASE open_source
    BY <2>3 DEF open_source, RecommendationHolds
  <2>4. CASE join
    <3>1. pc' # "done"
      BY <2>4 DEF join
    <3> QED
      BY <3>1 DEF RecommendationHolds
  <2>5. CASE chunk_with_bytes
    <3>1. pc' # "done"
      BY <2>5 DEF chunk_with_bytes
    <3> QED
      BY <3>1 DEF RecommendationHolds
  <2>6. CASE UNCHANGED <<cutVars, pc>>
    BY <2>6 DEF cutVars, RecommendationHolds
  <2>7. CASE tree_fails
    BY <2>7 DEF tree_fails, RecommendationHolds
  <2> QED
    BY <2>1, <2>2, <2>3, <2>4, <2>5, <2>6, <2>7 DEF Next, Command, Threads, Faults, vars, cutVars
<1> QED
  BY <1>1, <1>2, CutInvariance, PTL DEF Spec

LEMMA PrintAddsUp == ASSUME CutInv, print_report PROVE ReportAddsUp'
<1>0. pc = "cutting" /\ UNCHANGED <<cmd, configs, files>>
  BY DEF print_report
<1>1. cmd.compression \in BOOLEAN /\ (cmd.compression => 1 \in DOMAIN configs)
  BY <1>0, CommandAssumption DEF CutInv, CommandInv
<1> DEFINE candidates == build_report(files[1], configs, Snapshots, Baseline)
           rows == build_compression(candidates[1].bookkeeping)
           policy == recommend_policy(rows)
           classes == file_class_diagnostics(files[1], policy)
           all == SumFunction([f \in DOMAIN files[1] |-> files[1][f].bytes])
<1>2. IF ~cmd.compression THEN report' = Report(candidates, <<>>, "none", <<>>)
      ELSE report' = Report(candidates, rows, policy, classes)
  BY DEF print_report
<1>3. /\ report'.candidates = candidates /\ report'.snapshots = Snapshots
      /\ report'.policies = IF cmd.compression THEN rows ELSE <<>>
      /\ cmd.compression => report'.policy = policy /\ report'.classes = classes
  <2> HIDE DEF candidates, rows, policy, classes
  <2> QED
    BY <1>1, <1>2 DEF Report
<1>4. ASSUME NEW ci \in DOMAIN configs
      PROVE  LET c == candidates[ci]
                 metas == Metas(files[1], ci)
             IN  /\ c.total_bytes = all
                 /\ c.unique_bytes <= c.total_bytes /\ c.shared <= c.unique_chunks
                 /\ Least(metas, c.median, 50) /\ Least(metas, c.p95, 95)
  <2>1. candidates[ci] = CandidateReport(files[1], configs, ci, Snapshots, Baseline)
    BY DEF build_report
  <2> HIDE DEF candidates
  <2> QED
    BY <2>1, CandidateAddsUp
<1>5. ASSUME cmd.snapshots = <<>>, NEW now \in HORIZON .. HORIZON + 2 * RETENTION_TIERS[2][2]
      PROVE  GridKeeps(now) \in Snapshots .. Snapshots + Len(RETENTION_TIERS)
  <2>1. now \in Nat /\ HORIZON <= now
    BY HorizonAssumption
  <2>2. Snapshots = steady_state_snapshots(HORIZON)
    BY <1>5 DEF Snapshots
  <2> QED
    BY <2>1, <2>2, GridCount
<1>6. ASSUME cmd.compression, NEW k \in DOMAIN rows
      PROVE  /\ rows[k].policy = policy => \A figure \in {"bytes_in", "bytes_out", "chunk_count"} :
                  SumFunction([class \in DOMAIN classes |-> classes[class][figure]]) = rows[k].stored[figure]
             /\ rows[k].incremental # <<>> =>
                  rows[k].incremental[1].stored_bytes <= rows[k].stored.stored_bytes
  <2>1. /\ rows[k].stored = simulate_policy(unique_ids(files[1], 1), rows[k].policy, "InitialFull")
        /\ rows[k].incremental # <<>> =>
             rows[k].incremental[1].stored_bytes <= rows[k].stored.stored_bytes
    BY <1>1, <1>6, PoliciesAddUp
  <2> HIDE DEF rows, policy
  <2>2. ASSUME NEW figure \in {"bytes_in", "bytes_out", "chunk_count"}
        PROVE  SumFunction([class \in DOMAIN classes |-> classes[class][figure]])
                 = simulate_policy(unique_ids(files[1], 1), policy, "InitialFull")[figure]
    BY <1>1, <1>6, ClassesAddUp
  <2> HIDE DEF classes
  <2> QED
    BY <2>1, <2>2
<1> HIDE DEF candidates, rows, policy, classes
<1>7. ASSUME NEW ci \in DOMAIN configs'
      PROVE  LET c == report'.candidates[ci] IN
             /\ c.total_bytes = SumFunction([f \in DOMAIN files'[1] |-> files'[1][f].bytes])
             /\ c.unique_bytes <= c.total_bytes /\ c.shared <= c.unique_chunks
             /\ Least(Metas(files'[1], ci), c.median, 50) /\ Least(Metas(files'[1], ci), c.p95, 95)
  BY <1>0, <1>3, <1>4
<1>8. cmd'.snapshots = <<>> => \A now \in HORIZON .. HORIZON + 2 * RETENTION_TIERS[2][2] :
        GridKeeps(now) \in report'.snapshots .. report'.snapshots + Len(RETENTION_TIERS)
  BY <1>0, <1>3, <1>5
<1>9. \A k \in DOMAIN report'.policies : LET row == report'.policies[k] IN
        /\ row.policy = report'.policy => \A figure \in {"bytes_in", "bytes_out", "chunk_count"} :
             SumFunction([class \in DOMAIN report'.classes |-> report'.classes[class][figure]])
               = row.stored[figure]
        /\ row.incremental # <<>> => row.incremental[1].stored_bytes <= row.stored.stored_bytes
  <2>1. CASE cmd.compression
    BY <1>3, <1>6, <2>1
  <2>2. CASE ~cmd.compression
    BY <1>3, <2>2
  <2> QED
    BY <2>1, <2>2
<1> QED
  BY <1>7, <1>8, <1>9 DEF ReportAddsUp, Least, Within, Below

\* The figures of a report agree with each other, for any trees, chunk lengths,
\* candidate sizes, layout figures, retention tiers and horizon: candidates tile
\* the tree, a percentile is the least length its share of the chunks stay
\* within, the file classes split up the recommended policy's row, no increment
\* ships more than the whole, and the default snapshot count is what the
\* retention grid keeps, up to a cell per tier (bench.rs build_report and steady_state_snapshots,
\* policy_bench.rs build_compression_report and file_class_diagnostics).
THEOREM FiguresAddUp == Spec => []ReportAddsUp
<1>1. Init => ReportAddsUp
  BY DEF Init, ReportAddsUp
<1>2. CutInv /\ ReportAddsUp /\ [Next]_vars => ReportAddsUp'
  <2> SUFFICES ASSUME CutInv, ReportAddsUp, [Next]_vars PROVE ReportAddsUp'
    OBVIOUS
  <2>1. CASE print_report
    BY <2>1, PrintAddsUp
  <2>2. CASE pc' # "done"
    BY <2>2 DEF ReportAddsUp
  <2>3. CASE UNCHANGED <<cmd, pc, configs, files, report>>
    <3> SUFFICES ASSUME pc = "done" PROVE ReportAddsUp'
      BY <2>2, <2>3
    <3>1. ASSUME NEW ci \in DOMAIN configs'
          PROVE  LET c == report'.candidates[ci] IN
                 /\ c.total_bytes = SumFunction([f \in DOMAIN files'[1] |-> files'[1][f].bytes])
                 /\ c.unique_bytes <= c.total_bytes /\ c.shared <= c.unique_chunks
                 /\ Least(Metas(files'[1], ci), c.median, 50) /\ Least(Metas(files'[1], ci), c.p95, 95)
      BY <2>3 DEF ReportAddsUp, Least, Within, Below
    <3>2. cmd'.snapshots = <<>> => \A now \in HORIZON .. HORIZON + 2 * RETENTION_TIERS[2][2] :
            GridKeeps(now) \in report'.snapshots .. report'.snapshots + Len(RETENTION_TIERS)
      BY <2>3 DEF ReportAddsUp
    <3>3. \A k \in DOMAIN report'.policies : LET row == report'.policies[k] IN
            /\ row.policy = report'.policy => \A figure \in {"bytes_in", "bytes_out", "chunk_count"} :
                 SumFunction([class \in DOMAIN report'.classes |-> report'.classes[class][figure]])
                   = row.stored[figure]
            /\ row.incremental # <<>> => row.incremental[1].stored_bytes <= row.stored.stored_bytes
      BY <2>3 DEF ReportAddsUp
    <3> QED
      BY <3>1, <3>2, <3>3 DEF ReportAddsUp, Least, Within, Below
  <2>4. resolve \/ open_source \/ join \/ chunk_with_bytes \/ tree_fails => pc' # "done"
    BY DEF resolve, open_source, join, chunk_with_bytes, tree_fails
  <2> QED
    BY <2>1, <2>2, <2>3, <2>4 DEF Next, Command, Threads, Faults, vars, cutVars
<1> QED
  BY <1>1, <1>2, CutInvariance, PTL DEF Spec

-----------------------------------------------------------------------------
(* The command comes to its end: steps run out and nobody waits for ever *)

\* How far the command is.
Stage == IF pc = "sizes" THEN 2 ELSE IF pc = "cutting" THEN 1 ELSE 0

\* The files still to cut.
LeftIn == [t \in DOMAIN files |-> Len(cmd.trees[t]) - Len(files[t])]
Left == Sum(LeftIn, DOMAIN files)

\* What the chunkers have still to do: take what is in the channel, and end.
Load(ks) == [w \in DOMAIN ks |-> IF ks[w].st = "run" THEN Len(ks[w].chan) + 1 ELSE 0]

\* Steps left of the file under way: every block to come is read, sent to each
\* chunker and taken by it; the block at hand has to reach the chunkers from
\* r.to on; the senders have to be dropped.
WorkOf(r, ks) ==
    (Len(r.source) - r.read) * (1 + 2 * Len(ks))
      + (IF r.to = 0 THEN 0 ELSE 2 * (Len(ks) - r.to + 1))
      + Sum(Load(ks), DOMAIN ks) + (IF r.st = "reading" THEN 1 ELSE 0)
Work == WorkOf(rd, wk)

Measured == Stage \in Nat /\ Left \in Nat /\ (rd.st # "idle" => Work \in Nat)

\* A step goes down in the order of stage, files left, file opened, work left.
Advances ==
    \/ Stage' < Stage
    \/ /\ Stage' = Stage
       /\ \/ Left' < Left
          \/ /\ Left' = Left /\ rd'.st # "idle"
             /\ rd.st = "idle" \/ Work' < Work

\* Until the command has ended the main thread or some chunker can go on: the
\* first line for the main thread between files, then the reader about to read,
\* the reader about to send, a chunker, and the join.
NotStuck ==
    pc \in {"sizes", "cutting"} =>
    \/ rd.st = "idle"
    \/ rd.st = "reading" /\ rd.to = 0
    \/ rd.to > 0 /\ Accepts(rd.to)
    \/ \E w \in DOMAIN wk : wk[w].st = "run" /\ (wk[w].chan # <<>> \/ rd.st = "joining")
    \/ Joined

LEMMA SumChange ==
    ASSUME NEW S, IsFiniteSet(S), NEW F, NEW H, NEW k \in S,
           \A x \in S : F[x] \in Nat, H[k] \in Nat, \A x \in S \ {k} : H[x] = F[x]
    PROVE  Sum(H, S) + F[k] = Sum(F, S) + H[k] /\ Sum(F, S) \in Nat /\ Sum(H, S) \in Nat
<1> DEFINE T == S \ {k}
<1>1. IsFiniteSet(T) /\ \A x \in T : F[x] \in Nat /\ F[x] = H[x]
  BY FS_Subset
<1>2. \A x \in S : H[x] \in Nat
  OBVIOUS
<1>3. Sum(F, T) = Sum(H, T) /\ Sum(F, T) \in Nat
  BY <1>1, SumSame, SumType
<1>4. Sum(F, S) = F[k] + Sum(F, T) /\ Sum(H, S) = H[k] + Sum(H, T)
  BY <1>2, SumTake
<1> HIDE DEF T
<1> QED
  BY <1>3, <1>4

LEMMA LeftIsNat ==
    ASSUME CutInv
    PROVE  /\ IsFiniteSet(DOMAIN files) /\ DOMAIN LeftIn = DOMAIN files
           /\ \A t \in DOMAIN files : LeftIn[t] \in Nat
           /\ Left \in Nat
<1>1. cmd.trees \in Seq(Seq(SourceFile)) /\ DOMAIN files = DOMAIN cmd.trees
  BY CommandAssumption DEF CutInv, CommandInv, FilesInv
<1>2. IsFiniteSet(DOMAIN files)
  <2>1. DOMAIN files = 1 .. Len(cmd.trees) /\ Len(cmd.trees) \in Nat
    BY <1>1
  <2> QED
    BY <2>1, FS_Interval
<1>3. ASSUME NEW t \in DOMAIN files PROVE LeftIn[t] \in Nat
  <2>1. cmd.trees[t] \in Seq(SourceFile) /\ Len(cmd.trees[t]) \in Nat
    BY <1>1
  <2>2. PICK n \in 0 .. Len(cmd.trees[t]) : files[t] = CutFiles(cmd.trees[t], n, configs)
    BY <1>1 DEF CutInv, FilesInv
  <2>3. Len(files[t]) = n
    BY <2>1, <2>2, CutFilesLen
  <2> QED
    BY <2>1, <2>3 DEF LeftIn
<1> QED
  BY <1>2, <1>3, SumType DEF Left, LeftIn

LEMMA WorkIsNat ==
    ASSUME CutInv, rd.st # "idle"
    PROVE  /\ Len(wk) \in Nat \ {0} /\ DOMAIN wk = 1 .. Len(wk) /\ IsFiniteSet(DOMAIN wk)
           /\ Len(rd.source) - rd.read \in Nat /\ rd.to \in 0 .. Len(wk)
           /\ \A w \in DOMAIN wk : Load(wk)[w] \in Nat
           /\ \A w \in DOMAIN wk : wk[w].st = "run" =>
                wk[w].chan \in Seq(Block) /\ Load(wk)[w] = Len(wk[w].chan) + 1
           /\ Sum(Load(wk), DOMAIN wk) \in Nat /\ Work \in Nat
<1> DEFINE W == Len(wk)
           a == Len(rd.source) - rd.read
           l == Sum(Load(wk), DOMAIN wk)
<1>1. /\ ReaderInv /\ WorkersInv /\ Len(wk) = Len(configs) /\ Len(configs) \in Nat \ {0}
      /\ DOMAIN configs = 1 .. Len(configs)
  BY Fanning
<1>2. W \in Nat \ {0} /\ DOMAIN wk = 1 .. W /\ a \in Nat /\ rd.to \in 0 .. W
  BY <1>1 DEF ReaderInv, WorkersInv
<1>3. IsFiniteSet(DOMAIN wk)
  BY <1>2, FS_Interval
<1>4. ASSUME NEW w \in DOMAIN wk
      PROVE  /\ Load(wk)[w] \in Nat
             /\ wk[w].st = "run" => wk[w].chan \in Seq(Block) /\ Load(wk)[w] = Len(wk[w].chan) + 1
  <2>1. wk[w].st = "run" => wk[w].chan \in Seq(Block)
    BY <1>1 DEF WorkersInv, Worker, Running
  <2> QED
    BY <2>1 DEF Load
<1>5. l \in Nat
  BY <1>3, <1>4, SumType
<1>6. Work \in Nat
  <2> DEFINE x == a * (1 + 2 * W)
             y == IF rd.to = 0 THEN 0 ELSE 2 * (W - rd.to + 1)
             z == IF rd.st = "reading" THEN 1 ELSE 0
  <2>1. x \in Nat /\ y \in Nat /\ z \in Nat
    BY <1>2
  <2>2. Work = x + y + l + z
    BY DEF Work, WorkOf
  <2> HIDE DEF x, y, z, l
  <2> QED
    BY <1>5, <2>1, <2>2
<1> QED
  BY <1>2, <1>3, <1>4, <1>5, <1>6

LEMMA ReadAdvances ==
    ASSUME CutInv, read_block \/ read_fails PROVE rd'.st # "idle" /\ Work' < Work
<1> DEFINE W == Len(wk)
           a == Len(rd.source) - rd.read
           l == Sum(Load(wk), DOMAIN wk)
<1>1. rd.st = "reading" /\ rd.to = 0 /\ wk' = wk
  BY DEF read_block, read_fails
<1>2. W \in Nat \ {0} /\ a \in Nat /\ l \in Nat
  BY <1>1, WorkIsNat
<1>3. ReaderInv
  BY <1>1, Fanning
<1>4. Work = a * (1 + 2 * W) + l + 1
  <2>1. Work = a * (1 + 2 * W) + 0 + l + 1
    BY <1>1 DEF Work, WorkOf
  <2> HIDE DEF W, a, l
  <2>2. a * (1 + 2 * W) \in Nat
    BY <1>2
  <2> QED
    BY <1>2, <2>1, <2>2
<1>5. CASE rd' = [rd EXCEPT !.read = @ + 1, !.to = 1] /\ rd.read < Len(rd.source)
  <2>1. /\ rd'.st = "reading" /\ rd'.to = 1 /\ rd'.source = rd.source /\ rd'.read = rd.read + 1
    BY <1>1, <1>3, <1>5 DEF ReaderInv
  <2>2. Work' = (Len(rd.source) - (rd.read + 1)) * (1 + 2 * W) + 2 * (W - 1 + 1) + l + 1
    BY <1>1, <2>1 DEF Work, WorkOf
  <2>3. Len(rd.source) - (rd.read + 1) = a - 1 /\ a - 1 \in Nat
    BY <1>3, <1>5 DEF ReaderInv
  <2> DEFINE b == a - 1
  <2>4. Work' = b * (1 + 2 * W) + 2 * W + l + 1 /\ b \in Nat /\ a = b + 1
    BY <1>2, <2>2, <2>3
  <2> HIDE DEF W, a, l, b
  <2>5. (b + 1) * (1 + 2 * W) = b * (1 + 2 * W) + 1 + 2 * W /\ b * (1 + 2 * W) \in Nat
    BY <1>2, <2>4
  <2> QED
    BY <1>2, <1>4, <2>1, <2>4, <2>5
<1>6. CASE rd'.st = "joining" /\ rd'.to = 0 /\ rd'.source = rd.source /\ rd'.read = rd.read
  <2>1. Work' = a * (1 + 2 * W) + 0 + l + 0
    BY <1>1, <1>6 DEF Work, WorkOf
  <2> HIDE DEF W, a, l
  <2>2. a * (1 + 2 * W) \in Nat
    BY <1>2
  <2> QED
    BY <1>2, <1>4, <1>6, <2>1, <2>2
<1> QED
  BY <1>1, <1>3, <1>5, <1>6 DEF read_block, read_fails, ReaderInv

\* A step of one chunker that leaves it less to do.
LEMMA ChunkerAdvances ==
    ASSUME CutInv, rd.st # "idle", UNCHANGED rd, NEW w \in DOMAIN wk, NEW k,
           wk' = [wk EXCEPT ![w] = k], wk[w].st = "run",
           k.st # "run" \/ (k.chan \in Seq(Block) /\ Len(k.chan) < Len(wk[w].chan))
    PROVE  rd'.st # "idle" /\ Work' < Work
<1> DEFINE W == Len(wk)
           D == DOMAIN wk
           F == Load(wk)
           H == Load(wk')
           x == (Len(rd.source) - rd.read) * (1 + 2 * W)
           y == IF rd.to = 0 THEN 0 ELSE 2 * (W - rd.to + 1)
           z == IF rd.st = "reading" THEN 1 ELSE 0
<1>1. /\ W \in Nat \ {0} /\ DOMAIN wk = 1 .. W /\ IsFiniteSet(D) /\ Len(rd.source) - rd.read \in Nat
      /\ rd.to \in 0 .. W /\ \A v \in D : F[v] \in Nat
      /\ wk[w].chan \in Seq(Block) /\ F[w] = Len(wk[w].chan) + 1 /\ Sum(F, D) \in Nat
  BY WorkIsNat
<1>2. DOMAIN wk' = D /\ wk'[w] = k /\ \A v \in D \ {w} : wk'[v] = wk[v]
  OBVIOUS
<1>3. Len(wk') = W
  <2>1. DOMAIN wk' = 1 .. W
    BY <1>1, <1>2
  <2> QED
    BY <1>1, <2>1
<1>4. H[w] \in Nat /\ H[w] < F[w] /\ \A v \in D \ {w} : H[v] = F[v]
  <2>1. H[w] = IF k.st = "run" THEN Len(k.chan) + 1 ELSE 0
    BY <1>2 DEF Load
  <2>2. \A v \in D \ {w} : H[v] = F[v]
    BY <1>2 DEF Load
  <2>3. H[w] \in Nat /\ H[w] < F[w]
    BY <1>1, <2>1
  <2> QED
    BY <2>2, <2>3
<1>5. Work = x + y + Sum(F, D) + z /\ Work' = x + y + Sum(H, D) + z
  BY <1>2, <1>3 DEF Work, WorkOf
<1>6. x \in Nat /\ y \in Nat /\ z \in Nat
  BY <1>1
<1>7. w \in D /\ F[w] \in Nat
  BY <1>1
<1> HIDE DEF x, y, z, F, H, D
<1>8. IsFiniteSet(D) /\ \A v \in D : F[v] \in Nat
  BY <1>1
<1>9. Sum(H, D) + F[w] = Sum(F, D) + H[w] /\ Sum(F, D) \in Nat /\ Sum(H, D) \in Nat
  BY <1>4, <1>7, <1>8, SumChange
<1> DEFINE m == Sum(F, D)
           n == Sum(H, D)
           f == F[w]
           h == H[w]
<1>10. /\ m \in Nat /\ n \in Nat /\ f \in Nat /\ h \in Nat /\ n + f = m + h /\ h < f
       /\ Work = x + y + m + z /\ Work' = x + y + n + z
  BY <1>4, <1>5, <1>7, <1>9
<1> HIDE DEF m, n, f, h
<1>11. Work' < Work
  BY <1>6, <1>10
<1> QED
  BY <1>11

LEMMA SendAdvances ==
    ASSUME CutInv, send_block PROVE rd.st # "idle" /\ rd'.st # "idle" /\ Work' < Work
<1> DEFINE W == Len(wk)
           D == DOMAIN wk
           F == Load(wk)
           H == Load(wk')
           to == rd.to
           x == (Len(rd.source) - rd.read) * (1 + 2 * W)
           z == IF rd.st = "reading" THEN 1 ELSE 0
<1>0. rd.to > 0 /\ rd.st # "idle"
  BY DEF send_block, CutInv, FanOutInv, Quiet
<1>1. /\ W \in Nat \ {0} /\ DOMAIN wk = 1 .. W /\ IsFiniteSet(D) /\ Len(rd.source) - rd.read \in Nat
      /\ to \in 1 .. W /\ to \in D /\ \A v \in D : F[v] \in Nat
      /\ wk[to].st = "run" => wk[to].chan \in Seq(Block) /\ F[to] = Len(wk[to].chan) + 1
      /\ Sum(F, D) \in Nat
  BY <1>0, WorkIsNat
<1>2. ReaderInv /\ WorkersInv
  BY <1>0, Fanning
<1>3. /\ rd'.st = rd.st /\ rd'.source = rd.source /\ rd'.read = rd.read
      /\ rd'.to = IF to < W THEN to + 1 ELSE 0
  BY <1>2 DEF send_block, ReaderInv
<1>4. DOMAIN wk' = D /\ Len(wk') = W
  <2>1. DOMAIN wk' = D
    BY DEF send_block
  <2>2. DOMAIN wk' = 1 .. W
    BY <1>1, <2>1
  <2> QED
    BY <1>1, <2>1, <2>2
<1>5. Sum(H, D) \in Nat /\ Sum(H, D) <= Sum(F, D) + 1
  <2>1. CASE wk[to].st # "run"
    <3>1. wk' = wk
      BY <2>1 DEF send_block
    <3> QED
      BY <1>1, <3>1
  <2>2. CASE wk[to].st = "run"
    <3>1. /\ wk' = [wk EXCEPT ![to].chan = Append(@, rd.source[rd.read])]
          /\ DOMAIN wk[to] = {"target", "chan", "buf", "chunks", "st"}
      BY <1>1, <1>2, <2>2 DEF send_block, WorkersInv, Worker
    <3>2. wk'[to].st = "run" /\ wk'[to].chan = Append(wk[to].chan, rd.source[rd.read])
      BY <1>1, <2>2, <3>1
    <3>3. \A v \in D \ {to} : wk'[v] = wk[v]
      BY <3>1
    <3>4. Len(wk'[to].chan) = Len(wk[to].chan) + 1 /\ Len(wk[to].chan) \in Nat
      <4>1. rd.source[rd.read] \in Block
        BY <1>0, <1>2 DEF ReaderInv
      <4> QED
        BY <1>1, <2>2, <3>2, <4>1
    <3>5. H[to] = Len(wk'[to].chan) + 1 /\ \A v \in D \ {to} : H[v] = F[v]
      BY <1>1, <1>4, <3>2, <3>3 DEF Load
    <3>6. H[to] = F[to] + 1 /\ H[to] \in Nat
      BY <1>1, <2>2, <3>4, <3>5
    <3>7. to \in D /\ F[to] \in Nat /\ IsFiniteSet(D) /\ \A v \in D : F[v] \in Nat
      BY <1>1
    <3> HIDE DEF F, H, D, to
    <3>8. Sum(H, D) + F[to] = Sum(F, D) + H[to] /\ Sum(F, D) \in Nat /\ Sum(H, D) \in Nat
      BY <3>5, <3>6, <3>7, SumChange
    <3> DEFINE m == Sum(F, D)
               n == Sum(H, D)
               f == F[to]
    <3>9. m \in Nat /\ n \in Nat /\ f \in Nat /\ n + f = m + (f + 1)
      BY <3>6, <3>7, <3>8
    <3> HIDE DEF m, n, f
    <3>10. n <= m + 1
      BY <3>9
    <3> QED
      BY <3>9, <3>10 DEF m, n
  <2> QED
    BY <2>1, <2>2
<1>6. /\ Work = x + 2 * (W - to + 1) + Sum(F, D) + z
      /\ Work' = x + (IF rd'.to = 0 THEN 0 ELSE 2 * (W - rd'.to + 1)) + Sum(H, D) + z
  BY <1>0, <1>3, <1>4 DEF Work, WorkOf
<1>7. x \in Nat /\ z \in Nat
  BY <1>1
<1>8. (IF rd'.to = 0 THEN 0 ELSE 2 * (W - rd'.to + 1)) = 2 * (W - to)
  BY <1>1, <1>3
<1> DEFINE m == Sum(F, D)
           n == Sum(H, D)
<1>9. /\ Work = x + 2 * (W - to + 1) + m + z /\ Work' = x + 2 * (W - to) + n + z
      /\ m \in Nat /\ n \in Nat /\ n <= m + 1 /\ W \in Nat /\ to \in 1 .. W
  BY <1>1, <1>5, <1>6, <1>8
<1> HIDE DEF x, z, F, H, D, W, to, m, n
<1>10. Work' < Work
  BY <1>7, <1>9
<1> QED
  BY <1>0, <1>3, <1>10

LEMMA ThreadsAdvance ==
    ASSUME CutInv, FanOutStep \/ FanOutFault
    PROVE  rd.st # "idle" /\ rd'.st # "idle" /\ Work' < Work
<1>1. CASE read_block \/ read_fails
  BY <1>1, ReadAdvances DEF read_block, read_fails
<1>2. CASE send_block
  BY <1>2, SendAdvances
<1>3. ASSUME NEW w \in DOMAIN wk, chunk_block(w) \/ chunker_fails(w)
      PROVE  rd.st # "idle" /\ rd'.st # "idle" /\ Work' < Work
  <2>1. wk[w].st = "run" /\ UNCHANGED rd
    BY <1>3 DEF chunk_block, chunker_fails
  <2>2. rd.st # "idle"
    BY DEF CutInv, FanOutInv
  <2>3. /\ DOMAIN wk[w] = {"target", "chan", "buf", "chunks", "st"} /\ wk[w].chan \in Seq(Block)
    <3>1. WorkersInv
      BY <2>2, Fanning
    <3> QED
      BY <2>1, <3>1 DEF WorkersInv, Worker, Running
  <2>4. CASE wk[w].chan # <<>> /\ wk' = [wk EXCEPT ![w] = Fed(@)]
    <3> DEFINE k == Fed(wk[w])
    <3>1. k.chan = Tail(wk[w].chan)
      BY <2>3 DEF Fed
    <3>2. k.chan \in Seq(Block) /\ Len(k.chan) < Len(wk[w].chan)
      BY <2>3, <2>4, <3>1
    <3>3. wk' = [wk EXCEPT ![w] = k]
      BY <2>4
    <3> HIDE DEF k
    <3> QED
      BY <2>1, <2>2, <3>2, <3>3, ChunkerAdvances
  <2>5. CASE wk' = [wk EXCEPT ![w] = AtEnd(@)]
    <3> DEFINE k == AtEnd(wk[w])
    <3>1. k.st # "run"
      BY <2>3 DEF AtEnd
    <3>2. wk' = [wk EXCEPT ![w] = k]
      BY <2>5
    <3> HIDE DEF k
    <3> QED
      BY <2>1, <2>2, <3>1, <3>2, ChunkerAdvances
  <2>6. CASE wk' = [wk EXCEPT ![w] = [@ EXCEPT !.st = "failed", !.chan = <<>>]]
    <3> DEFINE k == [wk[w] EXCEPT !.st = "failed", !.chan = <<>>]
    <3>1. k.st # "run"
      BY <2>3
    <3>2. wk' = [wk EXCEPT ![w] = k]
      BY <2>6
    <3> HIDE DEF k
    <3> QED
      BY <2>1, <2>2, <3>1, <3>2, ChunkerAdvances
  <2> QED
    BY <1>3, <2>4, <2>5, <2>6 DEF chunk_block, chunker_fails
<1> QED
  BY <1>1, <1>2, <1>3 DEF FanOutStep, FanOutFault

\* A file kept is one less to cut.
LEMMA KeptAdvances ==
    ASSUME CutInv, Turn # {}, NEW per_candidate, NEW bytes, Kept1(per_candidate, bytes), UNCHANGED cmd
    PROVE  Left' < Left
<1> DEFINE D == DOMAIN files
           F == LeftIn
           H == LeftIn'
           T == Tree
           file == [ext |-> Next1.ext, path |-> Next1.path, bytes |-> bytes, per_candidate |-> per_candidate]
<1>1. T \in D /\ Len(files[T]) \in Nat /\ Len(files[T]) + 1 \in 1 .. Len(cmd.trees[T])
  BY TreeIsNext DEF CutInv, FilesInv
<1>2. files[T] = [f \in 1 .. Len(files[T]) |-> files[T][f]]
  <2>1. DOMAIN files[T] = 1 .. Len(files[T])
    BY <1>1, FilesAreTyped
  <2>2. files[T] = CutFiles(cmd.trees[T], Len(files[T]), configs)
    BY TreeIsNext
  <2> QED
    BY <2>1, <2>2 DEF CutFiles
<1>3. files' = [files EXCEPT ![T] = Append(@, file)]
  BY DEF Kept1
<1> HIDE DEF T, file
<1>4. Len(files'[T]) = Len(files[T]) + 1 /\ DOMAIN files' = D /\ \A t \in D \ {T} : files'[t] = files[t]
  <2> DEFINE s == files[T]
             n == Len(s)
  <2>1. n \in Nat /\ s = [f \in 1 .. n |-> s[f]]
    BY <1>1, <1>2
  <2>2. Append(s, file) = [f \in 1 .. n + 1 |-> IF f = n + 1 THEN file ELSE s[f]]
    BY <2>1 DEF Append
  <2>3. Len(Append(s, file)) = n + 1
    BY <2>1, <2>2
  <2> QED
    BY <1>1, <1>3, <2>3
<1>5. /\ IsFiniteSet(D) /\ \A t \in D : F[t] \in Nat
  BY LeftIsNat
<1>6. /\ F[T] = Len(cmd.trees[T]) - Len(files[T]) /\ H[T] = Len(cmd.trees[T]) - (Len(files[T]) + 1)
      /\ \A t \in D \ {T} : H[t] = F[t]
  BY <1>1, <1>4 DEF LeftIn
<1>7. H[T] \in Nat /\ H[T] < F[T]
  BY <1>1, <1>6
<1>8. Left = Sum(F, D) /\ Left' = Sum(H, D)
  BY <1>4 DEF Left
<1> HIDE DEF F, H, D
<1>9. Sum(H, D) + F[T] = Sum(F, D) + H[T] /\ Sum(F, D) \in Nat /\ Sum(H, D) \in Nat
  BY <1>1, <1>5, <1>6, <1>7, SumChange
<1> QED
  BY <1>1, <1>5, <1>7, <1>8, <1>9

LEMMA StepsAdvance == ASSUME CutInv, CutInv', Next PROVE Advances
<1>1. pc \in {"sizes", "cutting", "done", "failed"}
  BY DEF CutInv, CommandInv
<1>2. CASE resolve
  BY <1>2 DEF resolve, Stage, Advances
<1>3. CASE print_report
  BY <1>3 DEF print_report, Stage, Advances
<1>4. CASE open_source
  <2>1. pc' = pc /\ rd.st = "idle" /\ rd'.st # "idle" /\ UNCHANGED <<cmd, files>>
    BY <1>4 DEF open_source, Spawned, cutVars
  <2>2. Stage' = Stage /\ Left' = Left
    BY <2>1 DEF Stage, Left, LeftIn
  <2> QED
    BY <2>1, <2>2 DEF Advances
<1>5. CASE join
  <2>1. CASE pc' = "failed"
    BY <1>5, <2>1 DEF join, Stage, Advances
  <2>2. CASE Kept1([w \in DOMAIN wk |-> wk[w].chunks], rd.read * BLOCK) /\ UNCHANGED pc
    <3>1. Turn # {} /\ UNCHANGED cmd
      BY <1>5 DEF join, Joined, CutInv, FanOutInv, cutVars
    <3>2. Left' < Left
      BY <2>2, <3>1, KeptAdvances
    <3>3. Stage' = Stage
      BY <2>2 DEF Stage
    <3> QED
      BY <3>2, <3>3 DEF Advances
  <2> QED
    BY <1>5, <2>1, <2>2 DEF join
<1>6. CASE chunk_with_bytes
  <2>1. CASE pc' = "failed"
    BY <1>6, <2>1 DEF chunk_with_bytes, Stage, Advances
  <2>2. CASE Kept1(<<Cut(Next1.source, configs[1])>>, Len(Next1.source) * BLOCK) /\ UNCHANGED pc
    <3>1. Turn # {} /\ UNCHANGED cmd
      BY <1>6 DEF chunk_with_bytes, cutVars
    <3>2. Left' < Left
      BY <2>2, <3>1, KeptAdvances
    <3>3. Stage' = Stage
      BY <2>2 DEF Stage
    <3> QED
      BY <3>2, <3>3 DEF Advances
  <2> QED
    BY <1>6, <2>1, <2>2 DEF chunk_with_bytes
<1>7. CASE (FanOutStep \/ FanOutFault) /\ UNCHANGED <<cutVars, pc, files>>
  <2>1. UNCHANGED <<cmd, pc, files>>
    BY <1>7 DEF cutVars
  <2>2. Stage' = Stage /\ Left' = Left
    BY <2>1 DEF Stage, Left, LeftIn
  <2>3. rd'.st # "idle" /\ Work' < Work
    BY <1>7, ThreadsAdvance
  <2> QED
    BY <2>2, <2>3 DEF Advances
<1>8. CASE tree_fails
  BY <1>8 DEF tree_fails, Stage, Advances
<1> QED
  BY <1>2, <1>3, <1>4, <1>5, <1>6, <1>7, <1>8 DEF Next, Command, Threads, Faults

LEMMA NobodyIsStuck == CutInv => NotStuck
<1> SUFFICES ASSUME CutInv, rd.st # "idle" PROVE NotStuck
  BY DEF NotStuck
<1>1. /\ DOMAIN wk = 1 .. Len(wk) /\ rd.to \in 0 .. Len(wk) /\ Len(wk) \in Nat
      /\ \A w \in DOMAIN wk : wk[w].st = "run" => wk[w].chan \in Seq(Block)
  BY WorkIsNat
<1>2. rd.st \in {"reading", "joining"}
  BY Fanning DEF ReaderInv
<1>3. CASE rd.to > 0
  <2>1. rd.to \in DOMAIN wk
    BY <1>1, <1>3
  <2>2. CASE Accepts(rd.to)
    BY <1>3, <2>2 DEF NotStuck
  <2>3. CASE ~Accepts(rd.to)
    <3>1. wk[rd.to].st = "run" /\ ~(Len(wk[rd.to].chan) < DEPTH)
      BY <2>3 DEF Accepts
    <3>2. wk[rd.to].chan # <<>>
      BY <1>1, <2>1, <3>1, DepthAssumption
    <3> QED
      BY <2>1, <3>1, <3>2 DEF NotStuck
  <2> QED
    BY <2>2, <2>3
<1>4. CASE rd.to = 0 /\ rd.st = "reading"
  BY <1>4 DEF NotStuck
<1>5. CASE rd.st = "joining"
  BY <1>5 DEF NotStuck, Joined
<1> QED
  BY <1>1, <1>2, <1>3, <1>4, <1>5

\* The command ends, whatever the trees, the candidates, the channel depth and
\* the faults: every step of main thread, reader or chunkers goes down in a
\* well-founded order (files to cut, blocks to hand over and to chunk), and until
\* the end somebody can take one, so a full channel never makes reader and
\* chunkers wait for each other (bench.rs fan_out_chunks).  It is what BenchEnds
\* says short of fairness.
THEOREM CommandRunsOut == Spec => [](Measured /\ NotStuck) /\ [][Advances]_vars
<1>1. CutInv => Measured
  BY LeftIsNat, WorkIsNat DEF Measured, Stage
<1>2. CutInv /\ CutInv' /\ [Next]_vars => [Advances]_vars
  BY StepsAdvance
<1> QED
  BY <1>1, <1>2, NobodyIsStuck, CutInvariance, PTL DEF Spec

=============================================================================
