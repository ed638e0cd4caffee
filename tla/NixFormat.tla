------------------------------ MODULE NixFormat ------------------------------
(***************************************************************************)
(* The wire format of the Nix daemon protocol as nixproto reads and writes *)
(* it: what a message is made of, for each negotiated version.  A message  *)
(* to write is a sequence of 64-bit words; one to read is a sequence of    *)
(* instructions, since how it goes on depends on the words read before.    *)
(*                                                                         *)
(* A word carries, beside its number, the field its writer means by it and *)
(* the output it is about; the readers see the number only.                *)
(***************************************************************************)
EXTENDS Integers, Sequences, SequencesExt, FiniteSets

-----------------------------------------------------------------------------
(* Words *)

ClientMagic == 1852405859
ServerMagic == 1685612911
StderrNext == 1869376871
StderrRead == 1684108385
StderrWrite == 1684108310
StderrLast == 1634497651
StderrError == 1668838512
StderrStartActivity == 1398035028
StderrStopActivity == 1398034256
StderrResult == 1381190740

maxReadBytesLength == 64 * 1024 * 1024
maxReadStringsCount == 1048576

ProtocolVersionMinor == 38
Version(minor) == 256 + minor

\* The operations of these conversations.
OpSyncWithGC == 13
OpSetOptions == 19
OpQueryPathInfo == 26
OpBuildDerivation == 36
OpAddSignatures == 37

\* Eight characters, read as a number: larger than every bound.
Characters == 2147483647

\* A number n that the writer means as the field f, about the output o; s is
\* the output whose path info a signature was computed from.
Word(f, n, o, s) == [f |-> f, n |-> n, o |-> o, s |-> s]

\* The names of fields are the labels of the reader's and the writer's
\* formats; a string is eight characters long or empty.
WriteUint64(f, n) == <<Word(f, n, 0, 0)>>
WriteBool(f, b) == WriteUint64(f, IF b THEN 1 ELSE 0)
WriteStringOf(f, o, s) == <<Word(f, 8, o, s), Word(f, Characters, o, s)>>
WriteString(f) == WriteStringOf(f, 0, 0)
WriteEmpty(f) == WriteUint64(f, 0)
WriteStrings(f, n) ==
  WriteUint64(f, n) \o FlattenSeq([i \in 1..n |-> WriteString(f)])
\* In the order of a Go map: any.
WriteEach(S, Words(_)) ==
  FlattenSeq([i \in 1..Cardinality(S) |-> Words(SetToSeq(S)[i])])

-----------------------------------------------------------------------------
(* Instructions.  f is the field that is read, n the number required of it,
   x what follows it: instructions, or the words to write. *)

Ins(k, f, n, x) == [k |-> k, f |-> f, n |-> n, x |-> x]

ReadUint64(f) == <<Ins("num", f, 0, <<>>)>>
ReadString(f) == <<Ins("str", f, 0, <<>>)>>
ReadStrings(f) == <<Ins("strs", f, 0, <<>>)>>
\* A word that has to be n.
Require(f, n) == <<Ins("require", f, n, <<>>)>>
\* A flag, followed by x when it is not zero.
Optional(f, x) == <<Ins("opt", f, 0, x)>>
\* A count, followed by that many times x.
Repeated(f, x) == <<Ins("rep", f, 0, x)>>
\* A field of an activity: its type, then a number or a string.
ReadField == <<Ins("field", "fieldType", 0, <<>>)>>
ReadVersion == <<Ins("version", "version", 0, <<>>)>>
ReadOp == <<Ins("op", "op", 0, <<>>)>>
ReadMarker == <<Ins("marker", "marker", 0, <<>>)>>

Write(words) == <<Ins("write", "", 0, words)>>
Flush == <<Ins("flush", "", 0, <<>>)>>
Send(words) == Write(words) \o Flush
\* Tell the client what the builder said (StderrSink), unflushed.
Forward(event) == <<Ins("forward", event, 0, <<>>)>>
FailIns == <<Ins("fail", "", 0, <<>>)>>
Loop(n, x) == <<Ins("loop", "", n, x)>>
\* Go on with the part of the program that l names.
Do(l) == <<Ins("do", l, 0, <<>>)>>

When(b, x) == IF b THEN x ELSE <<>>

-----------------------------------------------------------------------------
(* The formats, for a negotiated minor version m.  The proxy serves some of
   them and uses others as a client; the peers use those of the other side. *)

\* Mutant: the mask is read whatever the flag says.
ReadAffinity_BothWords(m) ==
  When(m >= 14, ReadUint64("affinity") \o ReadUint64("mask")
                  \o ReadUint64("reserve"))

ReadAffinity(m) ==
  When(m >= 14, Optional("affinity", ReadUint64("mask"))
                  \o ReadUint64("reserve"))

HandshakeInfo(m) ==
  When(m >= 33, WriteString("daemonVersion"))
    \o When(m >= 35, WriteUint64("trust", 1))
    \o WriteUint64("marker", StderrLast)

ReadHandshakeInfo(m) ==
  When(m >= 33, ReadString("daemonVersion"))
    \o When(m >= 35, ReadUint64("trust"))
    \o Require("marker", StderrLast)

\* The options before version 2, and the ones added by later versions.
handleSetOptions(m) ==
  ReadUint64("keepFailed") \o ReadUint64("keepGoing")
    \o ReadUint64("tryFallback") \o ReadUint64("verbosity")
    \o ReadUint64("maxBuildJobs") \o ReadUint64("maxSilentTime")
    \o When(m >= 2, ReadUint64("useBuildHook"))
    \o When(m >= 4, ReadUint64("verboseBuild") \o ReadUint64("logType")
                      \o ReadUint64("printBuildTrace"))
    \o When(m >= 6, ReadUint64("buildCores"))
    \o When(m >= 10, ReadUint64("useSubstitutes"))
    \o When(m >= 12, Repeated("overrides", ReadString("key")
                                             \o ReadString("value")))

WriteOptions(m) ==
  WriteBool("keepFailed", FALSE) \o WriteBool("keepGoing", TRUE)
    \o WriteBool("tryFallback", TRUE) \o WriteUint64("verbosity", 3)
    \o WriteUint64("maxBuildJobs", 1) \o WriteUint64("maxSilentTime", 0)
    \o When(m >= 2, WriteBool("useBuildHook", FALSE))
    \o When(m >= 4, WriteUint64("verboseBuild", 0) \o WriteUint64("logType", 0)
                      \o WriteUint64("printBuildTrace", 0))
    \o When(m >= 6, WriteUint64("buildCores", 0))
    \o When(m >= 10, WriteBool("useSubstitutes", TRUE))
    \o When(m >= 12, WriteUint64("overrides", 0))

ReadDerivationOutput ==
  ReadString("outPath") \o ReadString("hashAlgo") \o ReadString("hash")

WriteDerivationOutput(o) ==
  WriteStringOf("outPath", o, 0) \o WriteEmpty("hashAlgo") \o WriteEmpty("hash")

ReadBasicDerivation ==
  Repeated("drvOutputs", ReadString("outName") \o ReadDerivationOutput)
    \o ReadStrings("inputSrcs") \o ReadString("platform")
    \o ReadString("builder") \o ReadStrings("args")
    \o Repeated("drvEnv", ReadString("envKey") \o ReadString("envValue"))

WriteBasicDerivation(S) ==
  LET output(o) == WriteString("outName") \o WriteDerivationOutput(o)
  IN WriteUint64("drvOutputs", Cardinality(S)) \o WriteEach(S, output)
       \o WriteStrings("inputSrcs", 2) \o WriteString("platform")
       \o WriteString("builder") \o WriteStrings("args", 1)
       \o WriteUint64("drvEnv", 1) \o WriteString("envKey")
       \o WriteEmpty("envValue")

ReadBuildArgs ==
  ReadString("drvPath") \o ReadBasicDerivation \o ReadUint64("buildMode")

WriteBuildArgs(S) ==
  WriteUint64("op", OpBuildDerivation) \o WriteString("drvPath")
    \o WriteBasicDerivation(S) \o WriteUint64("buildMode", 0)

ReadBuildResult(m) ==
  ReadUint64("status") \o ReadString("errorMsg")
    \o When(m >= 29, ReadUint64("timesBuilt")
                       \o ReadUint64("isNonDeterministic"))
    \o When(m >= 37, ReadUint64("startTime") \o ReadUint64("stopTime")
                       \o Optional("cpuUserTag", ReadUint64("cpuUser"))
                       \o Optional("cpuSystemTag", ReadUint64("cpuSystem")))
    \o When(m >= 28, Repeated("builtOutputs", ReadString("id")
                                                \o ReadString("json")))

\* The result r: its status, whether it has CPU times, and its realisations,
\* pairs of an output and of what its signature was computed from (0: none).
WriteBuildResult(m, r) ==
  LET outs == {p[1] : p \in r.outs}
      sig(o) == (CHOOSE p \in r.outs : p[1] = o)[2]
      realisation(o) == WriteStringOf("id", o, 0)
                          \o WriteStringOf("json", o, sig(o))
  IN WriteUint64("status", r.status) \o WriteEmpty("errorMsg")
       \o When(m >= 29, WriteUint64("timesBuilt", 1)
                          \o WriteBool("isNonDeterministic", FALSE))
       \o When(m >= 37,
               WriteUint64("startTime", 7) \o WriteUint64("stopTime", 9)
                 \o WriteBool("cpuUserTag", r.cpu)
                 \o When(r.cpu, WriteUint64("cpuUser", 5))
                 \o WriteBool("cpuSystemTag", r.cpu)
                 \o When(r.cpu, WriteUint64("cpuSystem", 5)))
       \o When(m >= 28, WriteUint64("builtOutputs", Cardinality(outs))
                          \o WriteEach(outs, realisation))

(* The stderr stream. *)

\* The fields of an activity, by their types (0: a number, 1: a string).
WriteFields(types) ==
  WriteUint64("fields", Len(types))
    \o FlattenSeq([i \in 1..Len(types) |->
                     WriteUint64("fieldType", types[i])
                       \o IF types[i] = 0 THEN WriteUint64("intVal", 6)
                                          ELSE WriteString("strVal")])

WriteStderr(event, types) ==
  CASE event = "next" ->
         WriteUint64("marker", StderrNext) \o WriteString("log")
    [] event = "start" ->
         WriteUint64("marker", StderrStartActivity) \o WriteUint64("act", 4)
           \o WriteUint64("lvl", 3) \o WriteUint64("type", 105)
           \o WriteString("text") \o WriteFields(types)
           \o WriteUint64("parent", 0)
    [] event = "stop" ->
         WriteUint64("marker", StderrStopActivity) \o WriteUint64("act", 4)
    [] event = "result" ->
         WriteUint64("marker", StderrResult) \o WriteUint64("act", 4)
           \o WriteUint64("type", 105) \o WriteFields(types)

ReadPos == ReadString("file") \o ReadUint64("line") \o ReadUint64("column")

\* The fields of an error.  The code reads on when a read of these fails; it
\* then returns the error that it returns in any case.
ReadError(m) ==
  IF m >= 26
  THEN ReadString("errType") \o ReadUint64("errLevel") \o ReadString("errName")
         \o ReadString("errMsg") \o Optional("havePos", ReadPos)
         \o Repeated("traces", Optional("haveTracePos", ReadPos)
                                 \o ReadString("hint"))
  ELSE ReadString("errMsg") \o ReadUint64("errStatus")

StopWorkWithError(m) ==
  WriteUint64("marker", StderrError)
    \o IF m >= 26
       THEN WriteString("errType") \o WriteUint64("errLevel", 0)
              \o WriteEmpty("errName") \o WriteString("errMsg")
              \o WriteUint64("havePos", 0) \o WriteUint64("traces", 0)
       ELSE WriteString("errMsg") \o WriteUint64("errStatus", 1)

\* What the stream goes on with after the marker n.
readStderrStream(m, n) ==
  CASE n \in {StderrLast, 1} -> <<>>
    [] n = StderrNext -> ReadString("log") \o Forward("next") \o ReadMarker
    [] n = StderrError -> ReadError(m) \o FailIns
    [] n = StderrWrite -> ReadString("sink") \o ReadMarker
    [] n = StderrStartActivity ->
         ReadUint64("act") \o ReadUint64("lvl") \o ReadUint64("type")
           \o ReadString("text") \o Repeated("fields", ReadField)
           \o ReadUint64("parent") \o Forward("start") \o ReadMarker
    [] n = StderrStopActivity ->
         ReadUint64("act") \o Forward("stop") \o ReadMarker
    [] n = StderrResult ->
         ReadUint64("act") \o ReadUint64("type")
           \o Repeated("fields", ReadField) \o Forward("result") \o ReadMarker
    [] OTHER -> FailIns

(* Path infos and signatures, on the store host. *)

ReadPathInfo(m) ==
  When(m >= 17, <<Ins("nonzero", "found", 0, <<>>)>>)
    \o ReadString("deriver") \o ReadString("narHash") \o ReadStrings("refs")
    \o ReadUint64("regTime") \o ReadUint64("narSize")
    \o When(m >= 16, ReadUint64("ultimate") \o ReadStrings("sigs")
                       \o ReadString("ca"))

WritePathInfo(m, i) ==
  When(m >= 17, WriteBool("found", i.found))
    \o When(m < 17 \/ i.found,
            (IF i.deriver THEN WriteString("deriver") ELSE WriteEmpty("deriver"))
              \o WriteStringOf("narHash", IF i.signable THEN i.path ELSE 0, 0)
              \o WriteStrings("refs", 1) \o WriteUint64("regTime", 7)
              \o <<Word("narSize", 9, i.path, 0)>>
              \o When(m >= 16, WriteBool("ultimate", FALSE)
                                 \o WriteStrings("sigs", 0) \o WriteEmpty("ca")))

=============================================================================
