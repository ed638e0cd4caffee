---------------------------- MODULE NarPushProofs ----------------------------
(***************************************************************************)
(* Proofs about the upload of a build output: a final chunk, a stored      *)
(* object and NarUploaded stand for the whole dump, and the chunks have    *)
(* the offsets the server expects, whatever fails and whenever.            *)
(***************************************************************************)
EXTENDS NarPush, SequencesExt, SequenceTheorems, WellFoundedInduction, TLAPS

\* Induction over the naturals, with the induction predicate as a set.
LEMMA SetInduction ==
  ASSUME NEW T, 0 \in T, \A n \in Nat : n \in T => n + 1 \in T
  PROVE  \A n \in Nat : n \in T
<1> DEFINE R == {ss \in Nat \X Nat : ss[1] < ss[2]}
<1> SUFFICES ASSUME Nat \ T # {} PROVE FALSE
  OBVIOUS
<1>1. OpToRel(<, Nat) = R
  BY Zenon DEF OpToRel
<1>2. IsWellFoundedOn(R, Nat)
  BY <1>1, NatLessThanWellFounded, Zenon
<1> HIDE DEF R
<1>3. PICK x \in Nat \ T : \A y \in Nat \ T : ~ (<<y, x>> \in R)
  BY <1>2, WFMin
<1>4. \A y, z \in Nat : y < z => <<y, z>> \in R
  BY DEF R
<1>5. x # 0 /\ x - 1 \in Nat /\ x - 1 < x
  OBVIOUS
<1>6. x - 1 \in T
  BY <1>3, <1>4, <1>5
<1>7. QED
  BY <1>5, <1>6

-----------------------------------------------------------------------------
(* The inductive invariant *)

Chunk == [offset : Nat, size : Nat, final : BOOLEAN]

\* The types of the variables.
NarTypeOK ==
  /\ presigned \in BOOLEAN /\ total \in Nat /\ ctxDone \in BOOLEAN
  /\ dump \in {"none", "running", "stalled", "exited", "failed"}
  /\ written \in Nat /\ channel \in Nat
  /\ session \in {"none", "open", "closed"} /\ watching \in BOOLEAN
  /\ cpc \in {"start", "copy", "write", "close", "wait", "waiting", "done"}
  /\ enc \in Nat /\ failed \in BOOLEAN
  /\ offer \in Nat /\ pipe \in {"open", "eof", "error"} /\ readerGone \in BOOLEAN
  /\ upc \in {"put", "read", "flush", "final", "close", "report", "returned",
              "error", "failed"}
  /\ have \in Nat /\ pending \in Nat \union {NoChunk} /\ offset \in Nat
  /\ chunks \in Seq(Chunk)
  /\ stored \in Nat \union {NoChunk} /\ uploaded \in Nat \union {NoChunk}

\* The dump is started once, and its exit says that it has written all.
DumpInv ==
  /\ cpc = "start" => dump = "none" /\ written = 0 /\ channel = 0 /\ enc = 0
  /\ written <= total
  /\ dump = "exited" => written = total

\* Where the compression stands tells what it still has to hand on.
CompressInv ==
  /\ offer > 0 <=> cpc \in {"write", "close"}
  /\ cpc # "done" <=> pipe = "open"
  /\ cpc \in {"close", "wait", "waiting"} /\ ~failed => channel = 0 /\ enc = 0 /\ Over
  /\ failed => \/ readerGone /\ cpc \in {"wait", "waiting", "done"}
               \/ cpc = "done" /\ pipe = "error"
  /\ pipe = "eof" => ~failed /\ channel = 0 /\ enc = 0 /\ dump = "exited"

\* What the uploader has taken out of the pipe, as long as it has not failed.
Taken ==
  IF presigned THEN have
  ELSE IF upc \in {"close", "report", "returned"} THEN offset
  ELSE have + Size + offset

\* No unit is lost between the dump and the uploader.
Conserved ==
  ~failed /\ upc \notin {"error", "failed"}
    => written = channel + enc + offer + Taken

\* Where the uploader stands.
UploadInv ==
  /\ upc = "put" => presigned
  /\ upc \in {"read", "flush", "final"} => ~presigned
  /\ readerGone => upc \in {"report", "returned", "failed"}
  /\ upc \in {"final", "close", "report", "returned"} => pipe = "eof"
  /\ upc = "final" => have = 0
  /\ upc = "flush" => have > 0 /\ pending # NoChunk
  /\ ~presigned => have <= ChunkSize
  /\ pending # NoChunk => 0 < pending /\ pending <= ChunkSize
  /\ upc \in {"read", "flush"} /\ pending # NoChunk /\ pending < ChunkSize
       => pipe = "eof" /\ have = 0
  /\ upc = "flush" => have = ChunkSize \/ pipe = "eof"
  /\ upc \in {"read", "flush", "final"} =>
       /\ offset = Len(chunks) * ChunkSize
       /\ pending = NoChunk => Len(chunks) = 0

\* What has been sent: full chunks in order, then the final one.
ChunkInv(k) ==
  /\ chunks[k].offset = (k - 1) * ChunkSize
  /\ chunks[k].size <= ChunkSize
  /\ ~chunks[k].final => chunks[k].size = ChunkSize
  /\ chunks[k].size = 0 => total = 0
  /\ chunks[k].final =>
       /\ k = Len(chunks) /\ offset = total /\ dump = "exited"
       /\ upc \in {"close", "report", "returned", "failed"}

SentInv ==
  /\ \A k \in 1..Len(chunks) : ChunkInv(k)
  /\ presigned => chunks = <<>>
  /\ ~presigned => TotalSize(chunks) = offset /\ stored = NoChunk
  /\ stored # NoChunk => dump = "exited" /\ stored = total
  /\ upc \in {"close", "report", "returned"} =>
       /\ offset = total
       /\ presigned => stored = total
       /\ ~presigned => chunks # <<>> /\ chunks[Len(chunks)].final
  /\ uploaded # NoChunk => upc = "returned" /\ uploaded = offset

NarInv ==
  NarTypeOK /\ DumpInv /\ CompressInv /\ Conserved /\ UploadInv /\ SentInv

\* The numbers among the constants.
LEMMA NarConstants == /\ ChunkSize \in Nat /\ ChunkSize > 0
                      /\ MaxUnits \in Nat /\ NoChunk \notin Nat
BY NarPushAssumption

-----------------------------------------------------------------------------
(* The size of a sequence of chunks *)

\* The recursive function inside TotalSize adds the chunks up, one by one.
LEMMA TotalUnfolds ==
  ASSUME NEW s \in Seq(Chunk)
  PROVE  \E f : /\ TotalSize(s) = f[Len(s)]
                /\ f[0] = 0
                /\ \A k \in 1..Len(s) : f[k] = f[k - 1] + s[k].size
<1> DEFINE Body(g, k) == IF k = 0 THEN 0 ELSE g[k - 1] + s[k].size
           T == {n \in Nat : \E g : g = [k \in 0..n |-> Body(g, k)]}
<1>1. 0 \in T
  <2>1. [k \in 0..0 |-> 0] = [k \in 0..0 |-> Body([j \in 0..0 |-> 0], k)]
    OBVIOUS
  <2>2. QED
    BY <2>1
<1>2. ASSUME NEW n \in Nat, n \in T PROVE n + 1 \in T
  <2>1. PICK g : g = [k \in 0..n |-> Body(g, k)]
    BY <1>2
  <2>2. \A k \in 0..n : g[k] = Body(g, k)
    <3> HIDE DEF Body
    <3>1. QED
      BY <2>1
  <2> DEFINE h == [k \in 0..(n + 1) |-> IF k <= n THEN g[k] ELSE Body(g, n + 1)]
  <2>3. \A k \in 0..(n + 1) : h[k] = Body(h, k)
    <3> SUFFICES ASSUME NEW k \in 0..(n + 1) PROVE h[k] = Body(h, k)
      OBVIOUS
    <3>1. k # 0 => h[k - 1] = g[k - 1]
      OBVIOUS
    <3>2. k <= n => g[k] = Body(g, k)
      <4> HIDE DEF Body
      <4>1. QED
        BY <2>2
    <3>3. h[k] = Body(g, k)
      BY <3>2
    <3> HIDE DEF h
    <3>4. QED
      BY <3>1, <3>3
  <2>4. h = [k \in 0..(n + 1) |-> Body(h, k)]
    <3>1. h = [k \in 0..(n + 1) |-> h[k]]
      OBVIOUS
    <3> HIDE DEF h
    <3>2. QED
      BY <2>3, <3>1
  <2> HIDE DEF h
  <2>5. QED
    <3> HIDE DEF Body
    <3>1. n + 1 \in Nat
      OBVIOUS
    <3>2. QED
      BY <2>4, <3>1, Zenon
<1>3. Len(s) \in T
  <2> HIDE DEF T
  <2>1. QED
    BY <1>1, <1>2, SetInduction
<1>4. PICK f : /\ f = [k \in 0..Len(s) |-> Body(f, k)]
               /\ TotalSize(s) = f[Len(s)]
  BY <1>3 DEF TotalSize
<1>5. \A k \in 0..Len(s) : f[k] = Body(f, k)
  <2> HIDE DEF Body
  <2>1. QED
    BY <1>4
<1>6. f[0] = 0
  BY <1>5
<1>7. ASSUME NEW k \in 1..Len(s) PROVE f[k] = f[k - 1] + s[k].size
  <2>1. k \in 0..Len(s) /\ k # 0
    OBVIOUS
  <2>2. f[k] = Body(f, k)
    BY <1>5, <2>1
  <2>3. QED
    BY <2>1, <2>2, Zenon
<1>8. QED
  BY <1>4, <1>6, <1>7, Zenon

\* No chunk is no unit; a chunk more is its size more.
LEMMA TotalAppend ==
  /\ TotalSize(<<>>) = 0
  /\ \A s \in Seq(Chunk), c \in Chunk : TotalSize(Append(s, c)) = TotalSize(s) + c.size
<1>1. TotalSize(<<>>) = 0
  <2>1. <<>> \in Seq(Chunk) /\ Len(<<>>) = 0
    OBVIOUS
  <2>2. PICK f : TotalSize(<<>>) = f[Len(<<>>)] /\ f[0] = 0
    BY <2>1, TotalUnfolds
  <2>3. QED
    BY <2>1, <2>2
<1>2. ASSUME NEW s \in Seq(Chunk), NEW c \in Chunk
      PROVE  TotalSize(Append(s, c)) = TotalSize(s) + c.size
  <2> DEFINE n == Len(s)
             t == Append(s, c)
  <2>1. /\ t \in Seq(Chunk) /\ n \in Nat /\ Len(t) = n + 1 /\ t[n + 1] = c
        /\ \A k \in 1..n : t[k] = s[k]
    BY AppendProperties
  <2> HIDE DEF n, t
  <2>2. PICK f : /\ TotalSize(s) = f[n] /\ f[0] = 0
                 /\ \A k \in 1..n : f[k] = f[k - 1] + s[k].size
    BY TotalUnfolds DEF n
  <2>3. PICK g : /\ TotalSize(t) = g[Len(t)] /\ g[0] = 0
                 /\ \A k \in 1..Len(t) : g[k] = g[k - 1] + t[k].size
    BY <2>1, TotalUnfolds
  <2> DEFINE T == {k \in Nat : k <= n => f[k] = g[k]}
  <2>4. 0 \in T
    BY <2>2, <2>3
  <2>5. ASSUME NEW k \in Nat, k \in T PROVE k + 1 \in T
    <3> SUFFICES ASSUME k + 1 <= n PROVE f[k + 1] = g[k + 1]
      OBVIOUS
    <3>1. k + 1 \in 1..n /\ k + 1 \in 1..Len(t) /\ (k + 1) - 1 = k
      BY <2>1
    <3>2. f[k] = g[k]
      BY <2>1, <2>5
    <3>3. f[k + 1] = f[k] + s[k + 1].size /\ g[k + 1] = g[k] + t[k + 1].size
      BY <2>2, <2>3, <3>1
    <3>4. QED
      BY <2>1, <3>1, <3>2, <3>3
  <2>6. n \in T
    <3> HIDE DEF T
    <3>1. QED
      BY <2>1, <2>4, <2>5, SetInduction
  <2>7. f[n] = g[n]
    BY <2>1, <2>6
  <2>8. n + 1 \in 1..Len(t) /\ (n + 1) - 1 = n
    BY <2>1
  <2>9. g[n + 1] = g[n] + t[n + 1].size
    BY <2>3, <2>8
  <2>10. QED
    BY <2>1, <2>2, <2>3, <2>7, <2>9 DEF t
<1>3. QED
  BY <1>1, <1>2

-----------------------------------------------------------------------------
(* The steps *)

\* Every step keeps the types.
LEMMA NarTypeStep ==
  NarInv /\ [NarNext]_nvars => NarTypeOK'
<1> SUFFICES ASSUME NarInv, [NarNext]_nvars PROVE NarTypeOK'
  OBVIOUS
<1> USE NarConstants DEF remote, compressor, pipeVars, uploader, server, NarInv
<1>1. CASE Cancel
  BY <1>1 DEF Cancel, NarTypeOK, Chunk, PipeEnd, Size, NextOffset, Units
<1>2. CASE DumpWrites
  BY <1>2 DEF DumpWrites, NarTypeOK, Chunk, PipeEnd, Size, NextOffset, Units
<1>3. CASE DumpExits
  BY <1>3 DEF DumpExits, NarTypeOK, Chunk, PipeEnd, Size, NextOffset, Units
<1>4. CASE DumpBreaks
  BY <1>4 DEF DumpBreaks, NarTypeOK, Chunk, PipeEnd, Size, NextOffset, Units
<1>5. CASE DumpKilled
  BY <1>5 DEF DumpKilled, NarTypeOK, Chunk, PipeEnd, Size, NextOffset, Units
<1>6. CASE CloseOnCancel
  <2>1. watching' \in BOOLEAN
    BY <1>6, Zenon DEF CloseOnCancel, NarTypeOK
  <2>2. QED
    BY <1>6, <2>1 DEF CloseOnCancel, NarTypeOK
<1>7. CASE StreamOutput
  <2>1. watching' \in BOOLEAN /\ failed' \in BOOLEAN
    BY <1>7, Zenon DEF StreamOutput, NarTypeOK
  <2>2. QED
    BY <1>7, <2>1 DEF StreamOutput, NarTypeOK
<1>8. CASE CopyUnit
  BY <1>8 DEF CopyUnit, NarTypeOK, Chunk, PipeEnd, Size, NextOffset, Units
<1>9. CASE CopyEnds
  BY <1>9 DEF CopyEnds, NarTypeOK, Chunk, PipeEnd, Size, NextOffset, Units
<1>10. CASE WriteFails
  BY <1>10 DEF WriteFails, NarTypeOK, Chunk, PipeEnd, Size, NextOffset, Units
<1>11. CASE CallWait
  <2>1. watching' \in BOOLEAN
    BY <1>11, Zenon DEF CallWait, NarTypeOK
  <2>2. QED
    BY <1>11, <2>1 DEF CallWait, NarTypeOK
<1>12. CASE WaitReturns
  BY <1>12 DEF WaitReturns, NarTypeOK, Chunk, PipeEnd, Size, NextOffset, Units
<1>13. CASE TakeUnit
  BY <1>13 DEF TakeUnit, NarTypeOK, Chunk, PipeEnd, Size, NextOffset, Units
<1>14. CASE ReadChunk
  BY <1>14 DEF ReadChunk, NarTypeOK, Chunk, PipeEnd, Size, NextOffset, Units
<1>15. CASE ReadEnds
  BY <1>15 DEF ReadEnds, NarTypeOK, Chunk, PipeEnd, Size, NextOffset, Units
<1>16. CASE SendChunk
  BY <1>16 DEF SendChunk, NarTypeOK, Chunk, PipeEnd, Size, NextOffset, Units
<1>17. CASE SendFails
  BY <1>17 DEF SendFails, NarTypeOK, Chunk, PipeEnd, Size, NextOffset, Units
<1>18. CASE PutOK
  BY <1>18 DEF PutOK, NarTypeOK, Chunk, PipeEnd, Size, NextOffset, Units
<1>19. CASE PutFails
  BY <1>19 DEF PutFails, NarTypeOK, Chunk, PipeEnd, Size, NextOffset, Units
<1>20. CASE ClosePipe
  BY <1>20 DEF ClosePipe, NarTypeOK, Chunk, PipeEnd, Size, NextOffset, Units
<1>21. CASE SendNarUploaded
  BY <1>21 DEF SendNarUploaded, NarTypeOK, Chunk, PipeEnd, Size, NextOffset, Units
<1>22. CASE UNCHANGED nvars
  BY <1>22 DEF nvars, NarTypeOK, Chunk, PipeEnd, Size, NextOffset, Units
<1>23. QED
  BY <1>1, <1>2, <1>3, <1>4, <1>5, <1>6, <1>7, <1>8, <1>9, <1>10, <1>11, <1>12, <1>13, <1>14, <1>15, <1>16, <1>17, <1>18, <1>19, <1>20, <1>21, <1>22
     DEF NarNext, Compress, Push

\* The dump is started once.
LEMMA DumpStep ==
  NarInv /\ [NarNext]_nvars => DumpInv'
<1> SUFFICES ASSUME NarInv, [NarNext]_nvars PROVE DumpInv'
  OBVIOUS
<1> USE NarConstants DEF remote, compressor, pipeVars, uploader, server, NarInv
<1>1. CASE Cancel
  BY <1>1 DEF Cancel, NarTypeOK, DumpInv
<1>2. CASE DumpWrites
  BY <1>2 DEF DumpWrites, NarTypeOK, DumpInv
<1>3. CASE DumpExits
  BY <1>3 DEF DumpExits, NarTypeOK, DumpInv
<1>4. CASE DumpBreaks
  BY <1>4 DEF DumpBreaks, NarTypeOK, DumpInv
<1>5. CASE DumpKilled
  BY <1>5 DEF DumpKilled, NarTypeOK, DumpInv
<1>6. CASE CloseOnCancel
  BY <1>6 DEF CloseOnCancel, NarTypeOK, DumpInv
<1>7. CASE StreamOutput
  BY <1>7 DEF StreamOutput, NarTypeOK, DumpInv
<1>8. CASE CopyUnit
  BY <1>8 DEF CopyUnit, NarTypeOK, DumpInv
<1>9. CASE CopyEnds
  BY <1>9 DEF CopyEnds, NarTypeOK, DumpInv
<1>10. CASE WriteFails
  BY <1>10 DEF WriteFails, NarTypeOK, DumpInv
<1>11. CASE CallWait
  BY <1>11 DEF CallWait, NarTypeOK, DumpInv
<1>12. CASE WaitReturns
  BY <1>12 DEF WaitReturns, NarTypeOK, DumpInv
<1>13. CASE TakeUnit
  BY <1>13 DEF TakeUnit, NarTypeOK, DumpInv
<1>14. CASE ReadChunk
  BY <1>14 DEF ReadChunk, NarTypeOK, DumpInv
<1>15. CASE ReadEnds
  BY <1>15 DEF ReadEnds, NarTypeOK, DumpInv
<1>16. CASE SendChunk
  BY <1>16 DEF SendChunk, NarTypeOK, DumpInv
<1>17. CASE SendFails
  BY <1>17 DEF SendFails, NarTypeOK, DumpInv
<1>18. CASE PutOK
  BY <1>18 DEF PutOK, NarTypeOK, DumpInv
<1>19. CASE PutFails
  BY <1>19 DEF PutFails, NarTypeOK, DumpInv
<1>20. CASE ClosePipe
  BY <1>20 DEF ClosePipe, NarTypeOK, DumpInv
<1>21. CASE SendNarUploaded
  BY <1>21 DEF SendNarUploaded, NarTypeOK, DumpInv
<1>22. CASE UNCHANGED nvars
  BY <1>22 DEF nvars, NarTypeOK, DumpInv
<1>23. QED
  BY <1>1, <1>2, <1>3, <1>4, <1>5, <1>6, <1>7, <1>8, <1>9, <1>10, <1>11, <1>12, <1>13, <1>14, <1>15, <1>16, <1>17, <1>18, <1>19, <1>20, <1>21, <1>22
     DEF NarNext, Compress, Push

\* The compression hands on all it gets, or says that it failed.
LEMMA CompressStep ==
  NarInv /\ [NarNext]_nvars => CompressInv'
<1> SUFFICES ASSUME NarInv, [NarNext]_nvars PROVE CompressInv'
  OBVIOUS
<1> USE NarConstants DEF remote, compressor, pipeVars, uploader, server, NarInv
<1>1. CASE Cancel
  BY <1>1 DEF Cancel, NarTypeOK, DumpInv, CompressInv, UploadInv, Over, PipeEnd
<1>2. CASE DumpWrites
  BY <1>2 DEF DumpWrites, NarTypeOK, DumpInv, CompressInv, UploadInv, Over, PipeEnd
<1>3. CASE DumpExits
  BY <1>3 DEF DumpExits, NarTypeOK, DumpInv, CompressInv, UploadInv, Over, PipeEnd
<1>4. CASE DumpBreaks
  BY <1>4 DEF DumpBreaks, NarTypeOK, DumpInv, CompressInv, UploadInv, Over, PipeEnd
<1>5. CASE DumpKilled
  BY <1>5 DEF DumpKilled, NarTypeOK, DumpInv, CompressInv, UploadInv, Over, PipeEnd
<1>6. CASE CloseOnCancel
  BY <1>6 DEF CloseOnCancel, NarTypeOK, DumpInv, CompressInv, UploadInv, Over, PipeEnd
<1>7. CASE StreamOutput
  BY <1>7 DEF StreamOutput, NarTypeOK, DumpInv, CompressInv, UploadInv, Over, PipeEnd
<1>8. CASE CopyUnit
  BY <1>8 DEF CopyUnit, NarTypeOK, DumpInv, CompressInv, UploadInv, Over, PipeEnd
<1>9. CASE CopyEnds
  BY <1>9 DEF CopyEnds, NarTypeOK, DumpInv, CompressInv, UploadInv, Over, PipeEnd
<1>10. CASE WriteFails
  BY <1>10 DEF WriteFails, NarTypeOK, DumpInv, CompressInv, UploadInv, Over, PipeEnd
<1>11. CASE CallWait
  BY <1>11 DEF CallWait, NarTypeOK, DumpInv, CompressInv, UploadInv, Over, PipeEnd
<1>12. CASE WaitReturns
  BY <1>12 DEF WaitReturns, NarTypeOK, DumpInv, CompressInv, UploadInv, Over, PipeEnd
<1>13. CASE TakeUnit
  BY <1>13 DEF TakeUnit, NarTypeOK, DumpInv, CompressInv, UploadInv, Over, PipeEnd
<1>14. CASE ReadChunk
  BY <1>14 DEF ReadChunk, NarTypeOK, DumpInv, CompressInv, UploadInv, Over, PipeEnd
<1>15. CASE ReadEnds
  BY <1>15 DEF ReadEnds, NarTypeOK, DumpInv, CompressInv, UploadInv, Over, PipeEnd
<1>16. CASE SendChunk
  BY <1>16 DEF SendChunk, NarTypeOK, DumpInv, CompressInv, UploadInv, Over, PipeEnd
<1>17. CASE SendFails
  BY <1>17 DEF SendFails, NarTypeOK, DumpInv, CompressInv, UploadInv, Over, PipeEnd
<1>18. CASE PutOK
  BY <1>18 DEF PutOK, NarTypeOK, DumpInv, CompressInv, UploadInv, Over, PipeEnd
<1>19. CASE PutFails
  BY <1>19 DEF PutFails, NarTypeOK, DumpInv, CompressInv, UploadInv, Over, PipeEnd
<1>20. CASE ClosePipe
  BY <1>20 DEF ClosePipe, NarTypeOK, DumpInv, CompressInv, UploadInv, Over, PipeEnd
<1>21. CASE SendNarUploaded
  BY <1>21 DEF SendNarUploaded, NarTypeOK, DumpInv, CompressInv, UploadInv, Over, PipeEnd
<1>22. CASE UNCHANGED nvars
  BY <1>22 DEF nvars, NarTypeOK, DumpInv, CompressInv, UploadInv, Over, PipeEnd
<1>23. QED
  BY <1>1, <1>2, <1>3, <1>4, <1>5, <1>6, <1>7, <1>8, <1>9, <1>10, <1>11, <1>12, <1>13, <1>14, <1>15, <1>16, <1>17, <1>18, <1>19, <1>20, <1>21, <1>22
     DEF NarNext, Compress, Push

\* No step loses a unit.
LEMMA ConservedStep ==
  NarInv /\ [NarNext]_nvars => Conserved'
<1> SUFFICES ASSUME NarInv, [NarNext]_nvars PROVE Conserved'
  OBVIOUS
<1> USE NarConstants DEF remote, compressor, pipeVars, uploader, server, NarInv
<1>1. CASE Cancel
  BY <1>1 DEF Cancel, NarTypeOK, DumpInv, CompressInv, UploadInv, Conserved, Taken, Size, NextOffset
<1>2. CASE DumpWrites
  BY <1>2 DEF DumpWrites, NarTypeOK, DumpInv, CompressInv, UploadInv, Conserved, Taken, Size, NextOffset
<1>3. CASE DumpExits
  BY <1>3 DEF DumpExits, NarTypeOK, DumpInv, CompressInv, UploadInv, Conserved, Taken, Size, NextOffset
<1>4. CASE DumpBreaks
  BY <1>4 DEF DumpBreaks, NarTypeOK, DumpInv, CompressInv, UploadInv, Conserved, Taken, Size, NextOffset
<1>5. CASE DumpKilled
  BY <1>5 DEF DumpKilled, NarTypeOK, DumpInv, CompressInv, UploadInv, Conserved, Taken, Size, NextOffset
<1>6. CASE CloseOnCancel
  BY <1>6 DEF CloseOnCancel, NarTypeOK, DumpInv, CompressInv, UploadInv, Conserved, Taken, Size, NextOffset
<1>7. CASE StreamOutput
  BY <1>7 DEF StreamOutput, NarTypeOK, DumpInv, CompressInv, UploadInv, Conserved, Taken, Size, NextOffset
<1>8. CASE CopyUnit
  BY <1>8 DEF CopyUnit, NarTypeOK, DumpInv, CompressInv, UploadInv, Conserved, Taken, Size, NextOffset
<1>9. CASE CopyEnds
  BY <1>9 DEF CopyEnds, NarTypeOK, DumpInv, CompressInv, UploadInv, Conserved, Taken, Size, NextOffset
<1>10. CASE WriteFails
  BY <1>10 DEF WriteFails, NarTypeOK, DumpInv, CompressInv, UploadInv, Conserved, Taken, Size, NextOffset
<1>11. CASE CallWait
  BY <1>11 DEF CallWait, NarTypeOK, DumpInv, CompressInv, UploadInv, Conserved, Taken, Size, NextOffset
<1>12. CASE WaitReturns
  BY <1>12 DEF WaitReturns, NarTypeOK, DumpInv, CompressInv, UploadInv, Conserved, Taken, Size, NextOffset
<1>13. CASE TakeUnit
  BY <1>13 DEF TakeUnit, NarTypeOK, DumpInv, CompressInv, UploadInv, Conserved, Taken, Size, NextOffset
<1>14. CASE ReadChunk
  <2>1. /\ UNCHANGED <<written, channel, enc, offer, failed, presigned, offset>>
        /\ upc = "read" /\ upc' \in {"read", "flush"} /\ ~presigned
    BY <1>14 DEF ReadChunk, UploadInv, NarTypeOK
  <2>2. have' + Size' = have + Size
    BY <1>14 DEF ReadChunk, Size, NarTypeOK
  <2>3. Taken' = Taken
    BY <2>1, <2>2 DEF Taken, Size, NarTypeOK
  <2>4. QED
    BY <2>1, <2>3 DEF Conserved
<1>15. CASE ReadEnds
  BY <1>15 DEF ReadEnds, NarTypeOK, DumpInv, CompressInv, UploadInv, Conserved, Taken, Size, NextOffset
<1>16. CASE SendChunk
  <2>1. /\ UNCHANGED <<written, channel, enc, offer, failed, presigned>>
        /\ upc \in {"flush", "final"} /\ ~presigned /\ offset' = offset + Size
    BY <1>16 DEF SendChunk, NextOffset, UploadInv
  <2>2. Size \in Nat /\ have \in Nat /\ offset \in Nat
    BY DEF Size, NarTypeOK
  <2>3. Taken = have + Size + offset
    BY <2>1 DEF Taken
  <2>4. CASE upc = "flush"
    <3>1. pending' = have /\ have' = 0 /\ upc' = "read"
      BY <1>16, <2>4 DEF SendChunk
    <3>2. Size' = have
      BY <2>2, <3>1 DEF Size
    <3>3. Taken' = 0 + have + (offset + Size)
      BY <2>1, <3>1, <3>2 DEF Taken
    <3>4. QED
      BY <2>1, <2>2, <2>3, <2>4, <3>3 DEF Conserved
  <2>5. CASE upc = "final"
    <3>1. upc' = "close" /\ have = 0
      BY <1>16, <2>5 DEF SendChunk, UploadInv
    <3>2. Taken' = offset + Size
      BY <2>1, <3>1 DEF Taken
    <3>3. QED
      BY <2>1, <2>2, <2>3, <2>5, <3>1, <3>2 DEF Conserved
  <2>6. QED
    BY <2>1, <2>4, <2>5
<1>17. CASE SendFails
  BY <1>17 DEF SendFails, NarTypeOK, DumpInv, CompressInv, UploadInv, Conserved, Taken, Size, NextOffset
<1>18. CASE PutOK
  BY <1>18 DEF PutOK, NarTypeOK, DumpInv, CompressInv, UploadInv, Conserved, Taken, Size, NextOffset
<1>19. CASE PutFails
  BY <1>19 DEF PutFails, NarTypeOK, DumpInv, CompressInv, UploadInv, Conserved, Taken, Size, NextOffset
<1>20. CASE ClosePipe
  BY <1>20 DEF ClosePipe, NarTypeOK, DumpInv, CompressInv, UploadInv, Conserved, Taken, Size, NextOffset
<1>21. CASE SendNarUploaded
  BY <1>21 DEF SendNarUploaded, NarTypeOK, DumpInv, CompressInv, UploadInv, Conserved, Taken, Size, NextOffset
<1>22. CASE UNCHANGED nvars
  BY <1>22 DEF nvars, NarTypeOK, DumpInv, CompressInv, UploadInv, Conserved, Taken, Size, NextOffset
<1>23. QED
  BY <1>1, <1>2, <1>3, <1>4, <1>5, <1>6, <1>7, <1>8, <1>9, <1>10, <1>11, <1>12, <1>13, <1>14, <1>15, <1>16, <1>17, <1>18, <1>19, <1>20, <1>21, <1>22
     DEF NarNext, Compress, Push

\* The uploader holds a chunk back until it knows whether it is the last.
LEMMA UploadStep ==
  NarInv /\ [NarNext]_nvars => UploadInv'
<1> SUFFICES ASSUME NarInv, [NarNext]_nvars PROVE UploadInv'
  OBVIOUS
<1> USE NarConstants DEF remote, compressor, pipeVars, uploader, server, NarInv
<1>1. CASE Cancel
  BY <1>1 DEF Cancel, NarTypeOK, CompressInv, UploadInv, Size, NextOffset, PipeEnd, Room
<1>2. CASE DumpWrites
  BY <1>2 DEF DumpWrites, NarTypeOK, CompressInv, UploadInv, Size, NextOffset, PipeEnd, Room
<1>3. CASE DumpExits
  BY <1>3 DEF DumpExits, NarTypeOK, CompressInv, UploadInv, Size, NextOffset, PipeEnd, Room
<1>4. CASE DumpBreaks
  BY <1>4 DEF DumpBreaks, NarTypeOK, CompressInv, UploadInv, Size, NextOffset, PipeEnd, Room
<1>5. CASE DumpKilled
  BY <1>5 DEF DumpKilled, NarTypeOK, CompressInv, UploadInv, Size, NextOffset, PipeEnd, Room
<1>6. CASE CloseOnCancel
  BY <1>6 DEF CloseOnCancel, NarTypeOK, CompressInv, UploadInv, Size, NextOffset, PipeEnd, Room
<1>7. CASE StreamOutput
  BY <1>7 DEF StreamOutput, NarTypeOK, CompressInv, UploadInv, Size, NextOffset, PipeEnd, Room
<1>8. CASE CopyUnit
  BY <1>8 DEF CopyUnit, NarTypeOK, CompressInv, UploadInv, Size, NextOffset, PipeEnd, Room
<1>9. CASE CopyEnds
  BY <1>9 DEF CopyEnds, NarTypeOK, CompressInv, UploadInv, Size, NextOffset, PipeEnd, Room
<1>10. CASE WriteFails
  BY <1>10 DEF WriteFails, NarTypeOK, CompressInv, UploadInv, Size, NextOffset, PipeEnd, Room
<1>11. CASE CallWait
  BY <1>11 DEF CallWait, NarTypeOK, CompressInv, UploadInv, Size, NextOffset, PipeEnd, Room
<1>12. CASE WaitReturns
  BY <1>12 DEF WaitReturns, NarTypeOK, CompressInv, UploadInv, Size, NextOffset, PipeEnd, Room
<1>13. CASE TakeUnit
  BY <1>13 DEF TakeUnit, NarTypeOK, CompressInv, UploadInv, Size, NextOffset, PipeEnd, Room
<1>14. CASE ReadChunk
  BY <1>14 DEF ReadChunk, NarTypeOK, CompressInv, UploadInv, Size, NextOffset, PipeEnd, Room
<1>15. CASE ReadEnds
  BY <1>15 DEF ReadEnds, NarTypeOK, CompressInv, UploadInv, Size, NextOffset, PipeEnd, Room
<1>16. CASE SendChunk
  <2>1. /\ upc \in {"flush", "final"} /\ ~presigned /\ offset' = offset + Size
        /\ UNCHANGED <<presigned, pipe, readerGone>>
    BY <1>16 DEF SendChunk, NextOffset, UploadInv
  <2>2. Len(chunks') = Len(chunks) + 1 /\ Len(chunks) \in Nat
    BY <1>16 DEF SendChunk, NarTypeOK
  <2>3. CASE upc = "flush"
    <3>1. pending' = have /\ have' = 0 /\ upc' = "read" /\ pending = ChunkSize
      BY <1>16, <2>3 DEF SendChunk, UploadInv, NarTypeOK
    <3>2. Size = ChunkSize
      BY <3>1 DEF Size
    <3>3. (Len(chunks) + 1) * ChunkSize = Len(chunks) * ChunkSize + ChunkSize
      BY <2>2
    <3>4. offset' = Len(chunks') * ChunkSize
      BY <2>1, <2>2, <2>3, <3>2, <3>3 DEF UploadInv
    <3>5. QED
      BY <2>1, <2>3, <3>1, <3>4 DEF UploadInv, NarTypeOK
  <2>4. CASE upc = "final"
    <3>1. upc' = "close" /\ UNCHANGED <<pending, have>>
      BY <1>16, <2>4 DEF SendChunk
    <3>2. QED
      BY <2>1, <2>4, <3>1 DEF UploadInv
  <2>5. QED
    BY <2>1, <2>3, <2>4
<1>17. CASE SendFails
  BY <1>17 DEF SendFails, NarTypeOK, CompressInv, UploadInv, Size, NextOffset, PipeEnd, Room
<1>18. CASE PutOK
  BY <1>18 DEF PutOK, NarTypeOK, CompressInv, UploadInv, Size, NextOffset, PipeEnd, Room
<1>19. CASE PutFails
  BY <1>19 DEF PutFails, NarTypeOK, CompressInv, UploadInv, Size, NextOffset, PipeEnd, Room
<1>20. CASE ClosePipe
  BY <1>20 DEF ClosePipe, NarTypeOK, CompressInv, UploadInv, Size, NextOffset, PipeEnd, Room
<1>21. CASE SendNarUploaded
  BY <1>21 DEF SendNarUploaded, NarTypeOK, CompressInv, UploadInv, Size, NextOffset, PipeEnd, Room
<1>22. CASE UNCHANGED nvars
  BY <1>22 DEF nvars, NarTypeOK, CompressInv, UploadInv, Size, NextOffset, PipeEnd, Room
<1>23. QED
  BY <1>1, <1>2, <1>3, <1>4, <1>5, <1>6, <1>7, <1>8, <1>9, <1>10, <1>11, <1>12, <1>13, <1>14, <1>15, <1>16, <1>17, <1>18, <1>19, <1>20, <1>21, <1>22
     DEF NarNext, Compress, Push

\* What is sent is in order and, once it is final, the whole dump.
LEMMA SentStep ==
  NarInv /\ [NarNext]_nvars => SentInv'
<1> SUFFICES ASSUME NarInv, [NarNext]_nvars PROVE SentInv'
  OBVIOUS
<1> USE NarConstants DEF remote, compressor, pipeVars, uploader, server, NarInv
<1>1. CASE Cancel
  BY <1>1 DEF Cancel, NarTypeOK, DumpInv, UploadInv, SentInv, ChunkInv
<1>2. CASE DumpWrites
  BY <1>2 DEF DumpWrites, NarTypeOK, DumpInv, UploadInv, SentInv, ChunkInv
<1>3. CASE DumpExits
  BY <1>3 DEF DumpExits, NarTypeOK, DumpInv, UploadInv, SentInv, ChunkInv
<1>4. CASE DumpBreaks
  BY <1>4 DEF DumpBreaks, NarTypeOK, DumpInv, UploadInv, SentInv, ChunkInv
<1>5. CASE DumpKilled
  BY <1>5 DEF DumpKilled, NarTypeOK, DumpInv, UploadInv, SentInv, ChunkInv
<1>6. CASE CloseOnCancel
  BY <1>6 DEF CloseOnCancel, NarTypeOK, DumpInv, UploadInv, SentInv, ChunkInv
<1>7. CASE StreamOutput
  BY <1>7 DEF StreamOutput, NarTypeOK, DumpInv, UploadInv, SentInv, ChunkInv
<1>8. CASE CopyUnit
  BY <1>8 DEF CopyUnit, NarTypeOK, DumpInv, UploadInv, SentInv, ChunkInv
<1>9. CASE CopyEnds
  BY <1>9 DEF CopyEnds, NarTypeOK, DumpInv, UploadInv, SentInv, ChunkInv
<1>10. CASE WriteFails
  BY <1>10 DEF WriteFails, NarTypeOK, DumpInv, UploadInv, SentInv, ChunkInv
<1>11. CASE CallWait
  BY <1>11 DEF CallWait, NarTypeOK, DumpInv, UploadInv, SentInv, ChunkInv
<1>12. CASE WaitReturns
  BY <1>12 DEF WaitReturns, NarTypeOK, DumpInv, UploadInv, SentInv, ChunkInv
<1>13. CASE TakeUnit
  BY <1>13 DEF TakeUnit, NarTypeOK, DumpInv, UploadInv, SentInv, ChunkInv
<1>14. CASE ReadChunk
  BY <1>14 DEF ReadChunk, NarTypeOK, DumpInv, UploadInv, SentInv, ChunkInv
<1>15. CASE ReadEnds
  BY <1>15 DEF ReadEnds, NarTypeOK, DumpInv, UploadInv, SentInv, ChunkInv
<1>16. CASE SendChunk
  <2> DEFINE c == [offset |-> offset, size |-> Size, final |-> upc = "final"]
  <2> PICK n \in Nat : n = Len(chunks)
    BY DEF NarTypeOK
  <2>1. /\ upc \in {"flush", "final"} /\ ~presigned /\ offset' = offset + Size
        /\ chunks' = Append(chunks, c)
        /\ UNCHANGED <<presigned, total, dump, stored, uploaded>>
    BY <1>16 DEF SendChunk, NextOffset, UploadInv
  <2>a. c.final = (upc = "final")
    BY Zenon
  <2>2. /\ Size \in Nat /\ offset \in Nat /\ n \in Nat
        /\ c.offset = offset /\ c.size = Size /\ (c.final <=> upc = "final")
    BY <2>a DEF Size, NarTypeOK
  <2>3. c \in Chunk
    BY <2>2 DEF Chunk
  <2>4. /\ Len(chunks') = n + 1 /\ chunks'[n + 1] = c
        /\ \A k \in 1..n : chunks'[k] = chunks[k]
    BY <2>1, <2>3, AppendProperties DEF NarTypeOK
  <2>5. TotalSize(chunks') = offset'
    BY <2>1, <2>2, <2>3, TotalAppend DEF NarTypeOK, SentInv
  <2>6. c.offset = ((n + 1) - 1) * ChunkSize
    BY <2>1, <2>2 DEF UploadInv
  <2>7. \A k \in 1..n : ChunkInv(k) /\ ~chunks[k].final
    BY <2>1 DEF SentInv, ChunkInv
  <2> HIDE DEF c
  <2>8. \A k \in 1..n : ChunkInv(k)'
    BY <2>1, <2>4, <2>7 DEF ChunkInv
  <2>9. CASE upc = "flush"
    <3>1. upc' = "read" /\ Size = ChunkSize
      BY <1>16, <2>9 DEF SendChunk, UploadInv, Size, NarTypeOK
    <3>2. ChunkInv(n + 1)'
      BY <2>2, <2>4, <2>6, <2>9, <3>1 DEF ChunkInv
    <3>3. \A k \in 1..Len(chunks') : ChunkInv(k)'
      BY <2>2, <2>4, <2>8, <3>2
    <3>4. QED
      BY <2>1, <2>5, <3>1, <3>3 DEF SentInv
  <2>10. CASE upc = "final"
    <3>1. upc' = "close" /\ pipe = "eof" /\ have = 0
      BY <1>16, <2>10 DEF SendChunk, UploadInv
    <3>2. ~failed /\ channel = 0 /\ enc = 0 /\ offer = 0 /\ dump = "exited"
          /\ written = total
      BY <3>1 DEF CompressInv, DumpInv, NarTypeOK
    <3>3. offset' = total
      BY <2>1, <2>2, <2>10, <3>1, <3>2 DEF Conserved, Taken, NarTypeOK
    <3>4. Size <= ChunkSize
      BY <2>10 DEF UploadInv, Size
    <3>5. Size = 0 => total = 0
      BY <2>1, <2>2, <2>10, <3>3 DEF UploadInv, Size
    <3>6. ChunkInv(n + 1)'
      BY <2>1, <2>2, <2>4, <2>6, <2>10, <3>1, <3>2, <3>3, <3>4, <3>5 DEF ChunkInv
    <3>7. \A k \in 1..Len(chunks') : ChunkInv(k)'
      BY <2>2, <2>4, <2>8, <3>6
    <3>8. chunks' # <<>> /\ chunks'[Len(chunks')].final
      BY <2>2, <2>4, <2>10
    <3>9. QED
      BY <2>1, <2>5, <3>1, <3>2, <3>3, <3>7, <3>8 DEF SentInv
  <2>11. QED
    BY <2>1, <2>9, <2>10
<1>17. CASE SendFails
  BY <1>17 DEF SendFails, NarTypeOK, DumpInv, UploadInv, SentInv, ChunkInv
<1>18. CASE PutOK
  <2>1. /\ upc = "put" /\ pipe = "eof" /\ presigned /\ chunks = <<>>
        /\ stored' = have /\ offset' = have /\ upc' = "close"
        /\ UNCHANGED <<presigned, total, dump, chunks, uploaded>>
    BY <1>18 DEF PutOK, UploadInv, SentInv
  <2>2. ~failed /\ channel = 0 /\ enc = 0 /\ offer = 0 /\ dump = "exited"
        /\ written = total
    BY <2>1 DEF CompressInv, DumpInv, NarTypeOK
  <2>3. have = total
    BY <2>1, <2>2 DEF Conserved, Taken, NarTypeOK
  <2>4. QED
    BY <2>1, <2>2, <2>3 DEF SentInv
<1>19. CASE PutFails
  BY <1>19 DEF PutFails, NarTypeOK, DumpInv, UploadInv, SentInv, ChunkInv
<1>20. CASE ClosePipe
  BY <1>20 DEF ClosePipe, NarTypeOK, DumpInv, UploadInv, SentInv, ChunkInv
<1>21. CASE SendNarUploaded
  BY <1>21 DEF SendNarUploaded, NarTypeOK, DumpInv, UploadInv, SentInv, ChunkInv
<1>22. CASE UNCHANGED nvars
  BY <1>22 DEF nvars, NarTypeOK, DumpInv, UploadInv, SentInv, ChunkInv
<1>23. QED
  BY <1>1, <1>2, <1>3, <1>4, <1>5, <1>6, <1>7, <1>8, <1>9, <1>10, <1>11, <1>12, <1>13, <1>14, <1>15, <1>16, <1>17, <1>18, <1>19, <1>20, <1>21, <1>22
     DEF NarNext, Compress, Push

\* The invariant is inductive.
LEMMA NarAlways == NarSpec => []NarInv
<1>1. NarInit => NarInv
  <2> SUFFICES ASSUME NarInit PROVE NarInv
    OBVIOUS
  <2>1. NarTypeOK
    <3>1. /\ presigned \in BOOLEAN /\ ctxDone \in BOOLEAN /\ watching \in BOOLEAN
          /\ failed \in BOOLEAN /\ readerGone \in BOOLEAN
      BY Zenon DEF NarInit
    <3>2. chunks \in Seq(Chunk)
      BY DEF NarInit
    <3>3. QED
      BY <3>1, <3>2, NarConstants DEF NarInit, NarTypeOK, Units
  <2>2. DumpInv /\ CompressInv /\ Conserved
    BY NarConstants DEF NarInit, DumpInv, CompressInv, Conserved, Taken, Size, Units
  <2>3. UploadInv
    BY NarConstants DEF NarInit, UploadInv
  <2>4. SentInv
    BY NarConstants, TotalAppend DEF NarInit, SentInv
  <2>5. QED
    BY <2>1, <2>2, <2>3, <2>4 DEF NarInv
<1>2. NarInv /\ [NarNext]_nvars => NarInv'
  BY NarTypeStep, DumpStep, CompressStep, ConservedStep, UploadStep, SentStep DEF NarInv
<1>3. QED
  BY <1>1, <1>2, PTL DEF NarSpec

-----------------------------------------------------------------------------
(* The theorems *)

\* A final chunk, a stored object and NarUploaded stand for a dump that exited
\* with success and for every unit of it, for a dump of any size and wherever
\* the dump, the connection, the server or the context fails.
THEOREM FinalIsWhole == NarSpec => []FinalMeansWhole
<1>1. NarInv => FinalMeansWhole
  <2> SUFFICES ASSUME NarInv PROVE FinalMeansWhole
    OBVIOUS
  <2>1. ASSUME NEW k \in 1..Len(chunks), chunks[k].final
        PROVE  dump = "exited" /\ Sent = total
    <3>1. chunks # <<>>
      BY <2>1 DEF NarInv, NarTypeOK
    <3>2. QED
      BY <2>1, <3>1 DEF NarInv, SentInv, ChunkInv, Sent
  <2>2. QED
    BY <2>1 DEF FinalMeansWhole, NarInv, SentInv
<1>2. QED
  BY <1>1, NarAlways, PTL

\* The chunks follow one another without gap or overlap, only the last one is
\* final, and NarUploaded tells the size of the whole stream.
THEOREM ChunksInOrder == NarSpec => []OffsetsExact
<1>1. NarInv => OffsetsExact
  BY DEF NarInv, SentInv, ChunkInv, OffsetsExact
<1>2. QED
  BY <1>1, NarAlways, PTL
=============================================================================
