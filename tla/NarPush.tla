------------------------------- MODULE NarPush -------------------------------
(***************************************************************************)
(* The upload of one build output by gradientproto/narupload.go: the dump  *)
(* runs on the builder behind an SSH session (sshexec.go), a goroutine     *)
(* compresses its output into a pipe, and the uploader reads the pipe and  *)
(* sends it, in chunks over the WebSocket or as the body of one presigned  *)
(* PUT.  A dump that breaks off ends its output like one that is complete; *)
(* only the exit status tells them apart.                                  *)
(*                                                                         *)
(* Data is counted in units; a unit of the dump compresses to one, which   *)
(* the encoder may hold back.  The builder, the server and the object      *)
(* store are external.                                                     *)
(***************************************************************************)
EXTENDS Integers, Sequences

CONSTANTS
  MaxUnits,   \* bounds the size of a dump
  ChunkSize,  \* narPushChunkSize, 4 MiB in the code
  Window,     \* what an SSH channel takes before its reader reads
  NoChunk     \* pending = nil

ASSUME NarPushAssumption ==
  /\ {MaxUnits, ChunkSize, Window} \subseteq Nat \ {0}
  /\ NoChunk \notin Nat

VARIABLES
  presigned,   \* the server granted a URL
  total,       \* the units of the whole NAR
  ctxDone,     \* the context of the job is cancelled
  \* the builder, behind the session
  dump,        \* nix-store --dump
  written,     \* the units it has written
  channel,     \* those that nobody has read yet
  session,     \* the SSH session
  watching,    \* the goroutine that closes it when the context is done
  \* compressNarToPipe
  cpc,         \* where the goroutine stands
  enc,         \* the units the encoder holds back
  failed,      \* copyErr or closeErr, or no encoder
  \* the pipe
  offer,       \* the units of a Write that the reader has not taken
  pipe,        \* what the writer has closed it with
  readerGone,  \* the reader has closed it
  \* the uploader
  upc,         \* where uploadOutput stands
  have,        \* units of the read in progress, or of the body of the PUT
  pending,     \* the chunk held back
  offset,
  \* the server
  chunks,      \* the NarPush messages it has got
  stored,      \* the units of the object it has stored
  uploaded     \* the file_size of NarUploaded, or NoChunk

remote     == <<dump, written, channel, session, watching>>
compressor == <<cpc, enc, failed>>
pipeVars   == <<offer, pipe, readerGone>>
uploader   == <<upc, have, pending, offset>>
server     == <<chunks, stored, uploaded>>
nvars == <<presigned, total, ctxDone, remote, compressor, pipeVars, uploader,
           server>>

-----------------------------------------------------------------------------
(* Initial states *)

Units == 0..MaxUnits

NarInit ==
  /\ presigned \in BOOLEAN /\ total \in Units /\ ctxDone = FALSE
  /\ dump = "none" /\ written = 0 /\ channel = 0
  /\ session = "none" /\ watching = FALSE
  /\ cpc = "start" /\ enc = 0 /\ failed = FALSE
  /\ offer = 0 /\ pipe = "open" /\ readerGone = FALSE
  /\ upc = (IF presigned THEN "put" ELSE "read")
  /\ have = 0 /\ pending = NoChunk /\ offset = 0
  /\ chunks = <<>> /\ stored = NoChunk /\ uploaded = NoChunk

-----------------------------------------------------------------------------
(* The job's context, and the builder *)

Cancel ==
  /\ ~ctxDone
  /\ ctxDone' = TRUE
  /\ UNCHANGED <<presigned, total, remote, compressor, pipeVars, uploader,
                 server>>

\* The dump writes as long as the channel takes it.
DumpWrites ==
  /\ dump = "running" /\ session = "open"
  /\ written < total /\ channel < Window
  /\ written' = written + 1 /\ channel' = channel + 1
  /\ UNCHANGED <<presigned, total, ctxDone, dump, session, watching,
                 compressor, pipeVars, uploader, server>>

\* It exits when it has written everything.
DumpExits ==
  /\ dump = "running" /\ written = total
  /\ dump' = "exited"
  /\ UNCHANGED <<presigned, total, ctxDone, written, channel, session,
                 watching, compressor, pipeVars, uploader, server>>

\* It fails (nix-store, the machine, the connection), or hangs.
DumpBreaks ==
  /\ dump = "running"
  /\ dump' \in {"failed", "stalled"}
  /\ UNCHANGED <<presigned, total, ctxDone, written, channel, session,
                 watching, compressor, pipeVars, uploader, server>>

DumpKilled ==
  /\ dump \in {"running", "stalled"} /\ session = "closed"
  /\ dump' = "failed"
  /\ UNCHANGED <<presigned, total, ctxDone, written, channel, session,
                 watching, compressor, pipeVars, uploader, server>>

Over == dump \in {"exited", "failed"}

\* Mutant: nobody watches the context.
CloseOnCancel_Never == FALSE /\ UNCHANGED nvars

\* StreamOutput's goroutine.
CloseOnCancel ==
  /\ watching /\ ctxDone
  /\ session' = "closed" /\ watching' = FALSE
  /\ UNCHANGED <<presigned, total, ctxDone, dump, written, channel,
                 compressor, pipeVars, uploader, server>>

-----------------------------------------------------------------------------
(* compressNarToPipe *)

\* The session may not start.  When it has started and zstd.NewWriter fails,
\* the goroutine ends without wait().
StreamOutput ==
  /\ cpc = "start"
  /\ \/ /\ session' = "open" /\ dump' = "running" /\ watching' = TRUE
        /\ \/ cpc' = "copy" /\ UNCHANGED <<failed, pipe>>
           \/ cpc' = "done" /\ failed' = TRUE /\ pipe' = "error"
     \/ /\ cpc' = "done" /\ pipe' = "error"
        /\ UNCHANGED <<session, dump, watching, failed>>
  /\ UNCHANGED <<presigned, total, ctxDone, written, channel, enc, offer,
                 readerGone, uploader, server>>

\* io.Copy: a unit goes into the encoder, which writes some of what it has.
CopyUnit ==
  /\ cpc = "copy" /\ channel > 0
  /\ channel' = channel - 1
  /\ \E n \in 0..(enc + 1) :
       /\ offer' = n /\ enc' = enc + 1 - n
       /\ cpc' = IF n = 0 THEN "copy" ELSE "write"
  /\ UNCHANGED <<presigned, total, ctxDone, dump, written, session, watching,
                 failed, pipe, readerGone, uploader, server>>

\* The end of the output, however it came about: enc.Close() writes the rest.
CopyEnds ==
  /\ cpc = "copy" /\ channel = 0 /\ Over
  /\ offer' = enc /\ enc' = 0
  /\ cpc' = IF enc = 0 THEN "wait" ELSE "close"
  /\ UNCHANGED <<presigned, total, ctxDone, remote, failed, pipe, readerGone,
                 uploader, server>>

\* A Write to the pipe of a reader that has gone.
WriteFails ==
  /\ cpc \in {"write", "close"} /\ readerGone
  /\ failed' = TRUE /\ offer' = 0 /\ enc' = 0 /\ cpc' = "wait"
  /\ UNCHANGED <<presigned, total, ctxDone, remote, pipe, readerGone,
                 uploader, server>>

\* wait() first ends the goroutine that watches the context.
CallWait ==
  /\ cpc = "wait"
  /\ watching' = FALSE /\ cpc' = "waiting"
  /\ UNCHANGED <<presigned, total, ctxDone, dump, written, channel, session,
                 enc, failed, pipeVars, uploader, server>>

\* Mutant: the exit status of the dump is not looked at.
PipeEnd_NoStatus == IF failed THEN "error" ELSE "eof"

\* What pw is closed with.
PipeEnd == IF failed \/ dump # "exited" THEN "error" ELSE "eof"

\* A session that was closed may not have got the exit status.
WaitReturns ==
  /\ cpc = "waiting" /\ Over
  /\ \/ pipe' = PipeEnd
     \/ session = "closed" /\ pipe' = "error"
  /\ session' = "closed" /\ cpc' = "done"
  /\ UNCHANGED <<presigned, total, ctxDone, dump, written, channel, watching,
                 enc, failed, offer, readerGone, uploader, server>>

-----------------------------------------------------------------------------
(* uploadOutput, pushOverWebSocket and putPresigned *)

\* io.ReadFull goes on up to the size of the buffer, the PUT up to the end.
Room == presigned \/ have < ChunkSize

\* A Write returns when the reader has taken all of it.
TakeUnit ==
  /\ upc \in {"read", "put"} /\ offer > 0 /\ Room
  /\ offer' = offer - 1 /\ have' = have + 1
  /\ cpc' = IF offer > 1 THEN cpc
            ELSE IF cpc = "write" THEN "copy" ELSE "wait"
  /\ UNCHANGED <<presigned, total, ctxDone, remote, enc, failed, pipe,
                 readerGone, upc, pending, offset, server>>

\* A read ends: with a full buffer, or with what was left.  The chunk held
\* back can go, since another one follows it.
ReadChunk ==
  /\ upc = "read" /\ have > 0
  /\ have = ChunkSize \/ pipe = "eof"
  /\ \/ pending # NoChunk /\ upc' = "flush" /\ UNCHANGED <<pending, have>>
     \/ pending = NoChunk /\ pending' = have /\ have' = 0 /\ UNCHANGED upc
  /\ UNCHANGED <<presigned, total, ctxDone, remote, compressor, pipeVars,
                 offset, server>>

\* The end of the stream with nothing left to read, or an error of it.
ReadEnds ==
  /\ upc = "read"
  /\ \/ have = 0 /\ pipe = "eof" /\ upc' = "final"
     \/ have < ChunkSize /\ pipe = "error" /\ upc' = "error"
  /\ UNCHANGED <<presigned, total, ctxDone, remote, compressor, pipeVars,
                 have, pending, offset, server>>

\* flush: one NarPush message; the context of the job ends the sending.
Size == IF pending = NoChunk THEN 0 ELSE pending

\* Mutant: the final chunk does not count.
NextOffset_NotFinal == IF upc = "final" THEN offset ELSE offset + Size

NextOffset == offset + Size

SendChunk ==
  /\ upc \in {"flush", "final"} /\ ~ctxDone
  /\ chunks' = Append(chunks, [offset |-> offset, size |-> Size,
                               final |-> upc = "final"])
  /\ offset' = NextOffset
  /\ \/ upc = "flush" /\ pending' = have /\ have' = 0 /\ upc' = "read"
     \/ upc = "final" /\ upc' = "close" /\ UNCHANGED <<pending, have>>
  /\ UNCHANGED <<presigned, total, ctxDone, remote, compressor, pipeVars,
                 stored, uploaded>>

\* The connection is lost, or the context done.
SendFails ==
  /\ upc \in {"flush", "final", "report"}
  /\ upc' = IF upc = "report" THEN "failed" ELSE "error"
  /\ UNCHANGED <<presigned, total, ctxDone, remote, compressor, pipeVars,
                 have, pending, offset, server>>

\* The whole body has been sent and the answer is a 2xx.
PutOK ==
  /\ upc = "put" /\ pipe = "eof" /\ ~ctxDone
  /\ stored' = have /\ offset' = have /\ upc' = "close"
  /\ UNCHANGED <<presigned, total, ctxDone, remote, compressor, pipeVars,
                 have, pending, chunks, uploaded>>

\* A read error, another status, a broken connection, a context that is done.
PutFails ==
  /\ upc = "put"
  /\ upc' = "error"
  /\ UNCHANGED <<presigned, total, ctxDone, remote, compressor, pipeVars,
                 have, pending, offset, server>>

\* pr.Close(), which comes before the error is returned.
ClosePipe ==
  /\ upc \in {"close", "error"}
  /\ readerGone' = TRUE
  /\ upc' = IF upc = "close" THEN "report" ELSE "failed"
  /\ UNCHANGED <<presigned, total, ctxDone, remote, compressor, offer, pipe,
                 have, pending, offset, server>>

SendNarUploaded ==
  /\ upc = "report" /\ ~ctxDone
  /\ uploaded' = offset /\ upc' = "returned"
  /\ UNCHANGED <<presigned, total, ctxDone, remote, compressor, pipeVars,
                 have, pending, offset, chunks, stored>>

-----------------------------------------------------------------------------
(* The specification *)

Compress == StreamOutput \/ CopyUnit \/ CopyEnds \/ WriteFails \/ CallWait
              \/ WaitReturns

Push == TakeUnit \/ ReadChunk \/ ReadEnds \/ SendChunk \/ SendFails \/ PutOK
          \/ ClosePipe \/ SendNarUploaded

NarNext ==
  \/ Cancel \/ DumpWrites \/ DumpExits \/ DumpBreaks \/ DumpKilled
  \/ CloseOnCancel \/ Compress \/ Push \/ PutFails

NarSpec == NarInit /\ [][NarNext]_nvars

\* The goroutines run when they can; so does the dump unless it breaks, and a
\* request whose body fails or whose context is done comes back.
NarFairness ==
  /\ WF_nvars(Compress) /\ WF_nvars(Push) /\ WF_nvars(CloseOnCancel)
  /\ WF_nvars(DumpWrites) /\ WF_nvars(DumpExits) /\ WF_nvars(DumpKilled)
  /\ WF_nvars((pipe = "error" \/ ctxDone) /\ PutFails)

FairNarSpec == NarSpec /\ NarFairness

-----------------------------------------------------------------------------
(* Properties *)

\* The units in a sequence of chunks.
TotalSize(s) ==
  LET upTo[k \in 0..Len(s)] == IF k = 0 THEN 0 ELSE upTo[k - 1] + s[k].size
  IN upTo[Len(s)]

Sent == TotalSize(chunks)

\* A final chunk, a stored object and NarUploaded stand for a dump that exited
\* with success and for all of it: never for one that was cut off by a failure
\* or by the context, although its output ends in the same way.
FinalMeansWhole ==
  /\ \A k \in 1..Len(chunks) :
       chunks[k].final =>
         dump = "exited" /\ Sent = total
  /\ stored # NoChunk => dump = "exited" /\ stored = total
  /\ uploaded # NoChunk =>
       IF presigned THEN stored = total
       ELSE chunks # <<>> /\ chunks[Len(chunks)].final

\* The chunks follow one another from offset 0, all but the last are full, the
\* last one alone is final, it is empty only if the stream is, and NarUploaded
\* tells the size of the whole stream, however it was sent.
OffsetsExact ==
  /\ \A k \in 1..Len(chunks) :
       /\ chunks[k].offset = (k - 1) * ChunkSize
       /\ chunks[k].final => k = Len(chunks)
       /\ chunks[k].size <= ChunkSize
       /\ ~chunks[k].final => chunks[k].size = ChunkSize
       /\ chunks[k].size = 0 => total = 0
  /\ uploaded # NoChunk => uploaded = total

Hanging == dump = "stalled" /\ ~ctxDone

\* uploadOutput returns, unless the dump hangs and nobody cancels the job.
\* The goroutine of the compression ends and closes its session, with the same
\* exception and two more: a Write that failed because the uploader had given
\* up (wait() is then called with the output not drained, and the dump may
\* never exit), and an encoder that could not be created (wait() is not called
\* at all).
GoroutinesEnd ==
  \/ <>[]Hanging
  \/ /\ <>(upc \in {"returned", "failed"})
     /\ <>(cpc = "done" /\ session # "open") \/ <>failed

=============================================================================
