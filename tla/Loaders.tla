------------------------------ MODULE Loaders ------------------------------
(***************************************************************************)
(* Loading and starting a program: fsys_load, the table of loaders, and    *)
(* the PGZ, PGX, ELF and default loaders of src/src/dev/fsys.c; proc_run   *)
(* of src/src/proc.c.                                                      *)
(*                                                                         *)
(* A PGZ or PGX file is a sequence of bytes that is read in chunks, whose  *)
(* ends may fall within any field.  An ELF file is read piece by piece,    *)
(* each header as a whole.  Any read may fail.  Sizes are scaled down: a   *)
(* byte has Base values, an address takes Narrow or Wide bytes instead of  *)
(* three or four.  The extension of a file is the format it claims to      *)
(* have: one that has another format has a wrong signature.                *)
(***************************************************************************)
EXTENDS Integers, Sequences, SequencesExt

CONSTANTS
  Base,            \* values of a byte
  Narrow, Wide,    \* bytes of an address
  Chunk,           \* DEFAULT_CHUNK_SIZE
  MemorySize,
  Programs,        \* what there may be in a file
  Directories,     \* what a search for a name without extension may find
  Destinations,    \* addresses that fsys_load is given, beside none
  Extensions,      \* extensions that programs register loaders for
  MAX_LOADERS

Memory == 0 .. MemorySize - 1
Byte == 0 .. Base - 1

ASSUME LoaderAssumption ==
  /\ Base \in Nat /\ Narrow \in Nat /\ Wide \in Nat /\ Chunk \in Nat
  /\ Base > 1 /\ 1 < Narrow /\ Narrow < Wide /\ 0 < Chunk
  /\ MemorySize \in Nat
  /\ Destinations \subseteq Memory \ {0}
  /\ MAX_LOADERS \in Nat /\ MAX_LOADERS >= 3

VARIABLES
  loaders,    \* g_file_loader: extensions and their loaders
  load,       \* "idle", "reading", "executing", "loaded", or "refused"
  loader,     \* the loader that reads the file
  destination,
  program,    \* what is in the file
  file,       \* what has not been read of it: bytes, or ELF headers
  chunk,      \* bytes that have been read
  locals,     \* variables of the loader
  memory,
  start,      \* the start address, 0 when there is none
  result,     \* what fsys_load returned
  failed      \* history: a read has failed

request == <<program, loader, destination, loaders>>
loading == <<load, request, file, chunk, locals, memory, start, result, failed>>

OK == "OK"
ERR_BAD_BINARY == "ERR_BAD_BINARY"
ERR_READ == "ERR_READ"
ERR_NOT_FOUND == "ERR_NOT_FOUND"
ERR_OUT_OF_HANDLES == "ERR_OUT_OF_HANDLES"
FSYS_ERR_DISK_ERR == "FSYS_ERR_DISK_ERR"

-----------------------------------------------------------------------------
(* Files.  A segment is an address, the bytes that go there, and a number  *)
(* of zeros behind them.  In a PGZ file one without bytes gives the start  *)
(* address; in an ELF file its kind says whether it is loaded.             *)

Stored(m, s) ==
  [a \in Memory |->
     LET offset == a - s.addr
     IN  IF offset \in 0 .. Len(s.data) - 1 THEN s.data[offset + 1]
         ELSE IF offset \in Len(s.data) .. Len(s.data) + s.zeros - 1 THEN 0
         ELSE m[a]]

IsLoaded(s) == s.kind = "load"

(* Memory as a program wants it, in a machine where it was Blank: after    *)
(* each of the segments.                                                   *)
Blank == [a \in Memory |-> Base - 1]
Images(p) ==
  LET image[k \in 0 .. Len(p.segments)] ==
        IF k = 0 THEN Blank
        ELSE IF IsLoaded(p.segments[k]) THEN Stored(image[k - 1], p.segments[k])
        ELSE image[k - 1]
  IN image
Described(p) == Images(p)[Len(p.segments)]

(* Signatures are values of their own. *)
SIGNATURE_Z == Base
SIGNATURE_z == Base + 1
SIGNATURE_PGX == Base + 2
BAD_SIGNATURE == Base + 3

Signature(p) ==
  IF ~p.sound THEN BAD_SIGNATURE
  ELSE IF p.format = "PGX" THEN SIGNATURE_PGX
  ELSE IF p.width = Wide THEN SIGNATURE_z ELSE SIGNATURE_Z

(* The values that so many bytes take. *)
Power[n \in 0 .. Wide] == IF n = 0 THEN 1 ELSE Power[n - 1] * Base

Digits(n, w) == [i \in 1 .. w |-> (n \div Power[i - 1]) % Base]

Encoded(s, w) == Digits(s.addr, w) \o Digits(Len(s.data), w) \o s.data

(* A PGZ file: its signature, with each of the segments behind it. *)
PgzFiles(p) ==
  LET bytes[k \in 0 .. Len(p.segments)] ==
        IF k = 0 THEN <<Signature(p)>>
        ELSE bytes[k - 1] \o Encoded(p.segments[k], p.width)
  IN bytes
PgzFile(p) == PgzFiles(p)[Len(p.segments)]

PgxFile(p) ==
  LET s == p.segments[1]
  IN  <<Signature(p)>> \o Reverse(Digits(s.addr, Wide)) \o s.data

Contents(p) ==
  CASE p.format = "PGZ" -> PgzFile(p)
    [] p.format = "PGX" -> PgxFile(p)
    [] p.format = "ELF" -> p.segments
    [] OTHER -> p.segments[1].data

(* A file for this machine: its segments lie within memory, and what a PGZ *)
(* or PGX file says of them fits its fields.  Of several start segments    *)
(* the last one counts.                                                    *)
InMemory(s) == s.addr + Len(s.data) + s.zeros <= MemorySize
Fits(s, w) == IsLoaded(s) /\ s.zeros = 0 /\ s.addr < Power[w] /\ Len(s.data) < Power[w]
StartSegments(p, k) == {i \in 1 .. k : p.segments[i].data = <<>>}
StartsAt(p, k, e) ==
  \/ StartSegments(p, k) = {} /\ e = 0
  \/ \E i \in StartSegments(p, k) :
       e = p.segments[i].addr /\ \A j \in StartSegments(p, k) : j <= i

Kinds == {"load", "null", "note", "dynamic"}

IsProgram(p) ==
  /\ p.segments \in Seq([addr : Nat, data : Seq(Byte), zeros : Nat, kind : Kinds])
  /\ \A i \in DOMAIN p.segments : IsLoaded(p.segments[i]) => InMemory(p.segments[i])
  /\ p.format = "PGZ" =>
       /\ p.width \in {Narrow, Wide}
       /\ \A i \in DOMAIN p.segments : Fits(p.segments[i], p.width)
       /\ p.sound => StartsAt(p, Len(p.segments), p.entry)
  /\ p.format = "PGX" =>
       /\ Len(p.segments) = 1 /\ Fits(p.segments[1], Wide)
       /\ p.sound => p.entry = p.segments[1].addr
  /\ p.format \notin {"PGZ", "PGX", "ELF"} =>
       /\ Len(p.segments) = 1
       /\ \A d \in Destinations : d + Len(p.segments[1].data) <= MemorySize

ASSUME ProgramAssumption ==
  /\ \A p \in Programs : IsProgram(p)
  /\ \A files \in Directories : files \in Seq(Programs)

NoHeader == [addr |-> 0, data |-> <<>>, zeros |-> 0, kind |-> "null"]
Locals0 == [idx |-> 0, seg |-> 0, width |-> 0, address |-> -1, count |-> -1,
            dest |-> 0, header |-> NoHeader]

(* A program from before a file is looked at. *)
NoProgram == [format |-> "none", width |-> 0, sound |-> FALSE, segments |-> <<>>, entry |-> 0]

BuiltIn == <<"PGZ", "PGX", "ELF">>

LoadInit ==
  /\ loaders = [i \in 1 .. 3 |-> [extension |-> BuiltIn[i], loader |-> BuiltIn[i]]]
  /\ loader = "none"
  /\ destination = 0
  /\ load = "idle"
  /\ program = NoProgram
  /\ file = <<>>
  /\ chunk = <<>>
  /\ locals = Locals0
  /\ memory = Blank
  /\ start = 0
  /\ result = OK
  /\ failed = FALSE

-----------------------------------------------------------------------------
(* The table of loaders. *)

Registered(extension) == {i \in DOMAIN loaders : loaders[i].extension = extension}

(* fsys_load_ext: the loader registered last for the extension, or else    *)
(* the default loader if there is an address to load to.                   *)
LoaderFor(extension, dest) ==
  IF Registered(extension) # {} THEN loaders[Max(Registered(extension))].loader
  ELSE IF dest # 0 THEN "default"
  ELSE "none"

FsysRegisterLoader(extension) ==
  /\ load = "idle"
  /\ IF Len(loaders) < MAX_LOADERS
       THEN /\ loaders' = Append(loaders, [extension |-> extension, loader |-> "user"])
            /\ result' = OK
       ELSE result' = ERR_OUT_OF_HANDLES /\ UNCHANGED loaders
  /\ UNCHANGED <<program, loader, destination, load, file, chunk, locals, memory, start, failed>>

-----------------------------------------------------------------------------
(* fsys_load and proc_run. *)

(* The loader returns r with the start address s.  fsys_load does not look *)
(* at r, and proc_run, which gives no destination, executes what has a     *)
(* start address.                                                          *)
LoaderReturns(r, s) ==
  /\ start' = s
  /\ result' = OK
  /\ load' = CASE destination # 0 -> "loaded"
               [] destination = 0 /\ s # 0 -> "executing"
               [] OTHER -> "refused"

Refused(r) == load' = "refused" /\ start' = 0 /\ result' = r

(* fsys_load_ext for a file: it is opened and its loader called, or it     *)
(* cannot be opened, or there is no loader for it.                         *)
LoadFile(p, dest) ==
  LET l == LoaderFor(p.format, dest)
  IN  /\ program' = p /\ loader' = l /\ destination' = dest
      /\ \/ /\ l # "none"
            /\ load' = "reading"
            /\ file' = Contents(p)
            /\ UNCHANGED <<start, result, failed>>
         \/ /\ l = "none"
            /\ Refused(OK)
            /\ UNCHANGED <<file, failed>>
         \/ /\ l # "none"
            /\ Refused(OK)
            /\ failed' = TRUE
            /\ UNCHANGED file
      /\ locals' = [Locals0 EXCEPT !.address = IF l = "PGX" THEN 0 ELSE -1,
                                   !.dest = IF l = "default" THEN dest ELSE 0]
      /\ UNCHANGED <<loaders, chunk, memory>>

(* A path with an extension. *)
FsysLoad(p, dest) == load = "idle" /\ LoadFile(p, dest)

(* proc_run of such a path. *)
ProcRun(p) == FsysLoad(p, 0)

(* proc_run of a name without extension: the first file in the directory   *)
(* that has one with a loader.  The directory may be unreadable.           *)
ProcRunName(files) ==
  LET known == {i \in DOMAIN files : Registered(files[i].format) # {}}
  IN  /\ load = "idle"
      /\ \/ known # {} /\ LoadFile(files[Min(known)], 0)
         \/ /\ known = {}
            /\ Refused(ERR_NOT_FOUND)
            /\ UNCHANGED <<request, file, chunk, locals, memory, failed>>
         \/ /\ Refused(FSYS_ERR_DISK_ERR)
            /\ failed' = TRUE
            /\ UNCHANGED <<request, file, chunk, locals, memory>>

(* The start address at the end of a loader: in a PGX file the address it  *)
(* has read, whole or not.                                                 *)
FinalStart == IF loader = "PGX" THEN locals.address ELSE start

Reading(with) == load = "reading" /\ loader = with

(* chan_read: a chunk, the end of the file, or an error, which the PGZ     *)
(* loader takes for the end.                                               *)
ReadChunk ==
  /\ Reading("PGZ") \/ Reading("PGX")
  /\ chunk = <<>>
  /\ \/ /\ file # <<>>
        /\ LET n == IF Len(file) < Chunk THEN Len(file) ELSE Chunk
           IN  /\ chunk' = SubSeq(file, 1, n)
               /\ file' = SubSeq(file, n + 1, Len(file))
        /\ UNCHANGED <<load, start, result, failed>>
     \/ /\ file = <<>>
        /\ LoaderReturns(OK, FinalStart)
        /\ UNCHANGED <<file, chunk, failed>>
     \/ /\ failed' = TRUE
        /\ LoaderReturns(IF loader = "PGX" THEN ERR_READ ELSE OK, FinalStart)
        /\ UNCHANGED <<file, chunk>>
  /\ UNCHANGED <<request, locals, memory>>

-----------------------------------------------------------------------------
(* The PGZ loader, byte by byte. *)

PgzSignature(b) ==
  /\ locals.idx = 0
  /\ \/ /\ b \in {SIGNATURE_Z, SIGNATURE_z}
        /\ locals' = [locals EXCEPT !.idx = 1,
                                    !.width = IF b = SIGNATURE_Z THEN Narrow ELSE Wide]
        /\ chunk' = Tail(chunk)
        /\ UNCHANGED <<load, start, result>>
     \/ /\ b \notin {SIGNATURE_Z, SIGNATURE_z}
        /\ LoaderReturns(ERR_BAD_BINARY, start)
        /\ chunk' = <<>>
        /\ UNCHANGED locals
  /\ UNCHANGED memory

(* Mutants of SegmentEnds: forgets the field of the size; one byte late. *)
SegmentEndsEarly(seg, count) == seg >= locals.width + count /\ seg >= 2 * locals.width
SegmentEndsLate(seg, count) == seg > 2 * locals.width + count

(* Whether a segment of count bytes is over after seg of them, fields      *)
(* included.  A count that is not known yet is -1.                         *)
SegmentEnds(seg, count) == seg >= 2 * locals.width + count

(* The end of the loop: on to the next byte, perhaps of the next segment.  *)
NextByte(address, count, dest) ==
  /\ locals' = IF SegmentEnds(locals.seg + 1, count)
                 THEN [locals EXCEPT !.seg = 0, !.address = -1, !.count = -1, !.dest = dest]
                 ELSE [locals EXCEPT !.seg = @ + 1, !.address = address,
                                     !.count = count, !.dest = dest]
  /\ chunk' = Tail(chunk)
  /\ UNCHANGED <<load, result>>

PgzAddress(b) ==
  /\ locals.idx > 0 /\ locals.seg < locals.width
  /\ NextByte(IF locals.seg = 0 THEN b ELSE locals.address + b * Power[locals.seg],
              IF locals.seg = 0 THEN -1 ELSE locals.count,
              locals.dest)
  /\ UNCHANGED <<memory, start>>

PgzSize(b) ==
  /\ locals.idx > 0 /\ locals.seg \in locals.width .. 2 * locals.width - 1
  /\ LET i == locals.seg - locals.width
         count == IF i = 0 THEN b ELSE locals.count + b * Power[i]
     IN  /\ NextByte(locals.address, count, IF i = 0 THEN locals.address ELSE locals.dest)
         /\ start' = IF i = locals.width - 1 /\ count = 0 THEN locals.address ELSE start
  /\ UNCHANGED memory

PgzData(b) ==
  /\ locals.idx > 0 /\ locals.seg >= 2 * locals.width
  /\ memory' = [memory EXCEPT ![locals.dest] = b]
  /\ NextByte(locals.address, locals.count, locals.dest + 1)
  /\ UNCHANGED start

PgzByte ==
  /\ Reading("PGZ") /\ chunk # <<>>
  /\ \/ PgzSignature(Head(chunk))
     \/ PgzAddress(Head(chunk))
     \/ PgzSize(Head(chunk))
     \/ PgzData(Head(chunk))
  /\ UNCHANGED <<request, file, failed>>

-----------------------------------------------------------------------------
(* The PGX loader: signature, address with the high byte first, data. *)

PgxByte ==
  /\ Reading("PGX") /\ chunk # <<>>
  /\ LET b == Head(chunk)
     IN  \/ /\ locals.idx = 0 /\ b = SIGNATURE_PGX
            /\ locals' = [locals EXCEPT !.idx = 1]
            /\ UNCHANGED <<load, start, result, memory>>
         \/ /\ locals.idx = 0 /\ b # SIGNATURE_PGX
            /\ LoaderReturns(ERR_BAD_BINARY, 0)
            /\ UNCHANGED <<locals, memory>>
         \/ /\ locals.idx \in 1 .. Wide
            /\ locals' = [locals EXCEPT !.idx = @ + 1, !.address = @ * Base + b]
            /\ UNCHANGED <<load, start, result, memory>>
         \/ /\ locals.idx > Wide
            /\ LET dest == IF locals.idx = Wide + 1 THEN locals.address ELSE locals.dest
               IN  /\ memory' = [memory EXCEPT ![dest] = b]
                   /\ locals' = [locals EXCEPT !.idx = @ + 1, !.dest = dest + 1]
            /\ UNCHANGED <<load, start, result>>
  /\ chunk' = IF load' = "reading" THEN Tail(chunk) ELSE <<>>
  /\ UNCHANGED <<request, file, failed>>

-----------------------------------------------------------------------------
(* The ELF loader. *)

(* The header: when it cannot be read, what is there instead has no        *)
(* signature.                                                              *)
ElfHeader ==
  /\ Reading("ELF") /\ locals.idx = 0
  /\ failed' \in {failed, TRUE}
  /\ IF program.sound /\ failed' = failed
       THEN locals' = [locals EXCEPT !.idx = 1] /\ UNCHANGED <<load, start, result>>
       ELSE LoaderReturns(ERR_BAD_BINARY, 0) /\ UNCHANGED locals
  /\ UNCHANGED <<request, file, chunk, memory>>

(* One program header, and its segment.  Read errors go unnoticed: the     *)
(* header before is used again (before the first, the locals of the        *)
(* function hold none), the bytes of the segment are not stored.           *)
ElfSegment ==
  /\ Reading("ELF") /\ locals.idx > 0 /\ file # <<>>
  /\ \E header_read, data_read \in BOOLEAN :
       LET header == IF header_read THEN Head(file) ELSE locals.header
       IN  /\ failed' = (failed \/ ~header_read \/ ~data_read)
           /\ data_read \/ header.kind = "load"
           /\ locals' = [locals EXCEPT !.idx = @ + 1, !.header = header]
           /\ \/ /\ header.kind \in {"null", "note"}
                 /\ UNCHANGED <<load, start, result, memory>>
              \/ /\ header.kind = "dynamic"
                 /\ LoaderReturns(ERR_BAD_BINARY, 0)
                 /\ UNCHANGED memory
              \/ /\ header.kind = "load"
                 /\ memory' = LET bytes == [i \in DOMAIN header.data |-> memory[header.addr + i - 1]]
                              IN  Stored(memory, IF data_read THEN header
                                                 ELSE [header EXCEPT !.data = bytes])
                 /\ UNCHANGED <<load, start, result>>
  /\ file' = Tail(file)
  /\ UNCHANGED <<request, chunk>>

ElfEnd ==
  /\ Reading("ELF") /\ locals.idx > 0 /\ file = <<>>
  /\ LoaderReturns(OK, program.entry)
  /\ UNCHANGED <<request, file, chunk, locals, memory, failed>>

-----------------------------------------------------------------------------
(* The default loader reads to where it is told, chunk by chunk, until it  *)
(* gets nothing or an error.                                               *)
DefaultChunk ==
  /\ Reading("default")
  /\ \/ /\ file # <<>>
        /\ LET n == IF Len(file) < Chunk THEN Len(file) ELSE Chunk
           IN  /\ memory' = Stored(memory, [addr |-> locals.dest, data |-> SubSeq(file, 1, n), zeros |-> 0])
               /\ locals' = [locals EXCEPT !.dest = @ + n]
               /\ file' = SubSeq(file, n + 1, Len(file))
        /\ UNCHANGED <<load, start, result, failed>>
     \/ /\ file = <<>>
        /\ LoaderReturns(OK, 0)
        /\ UNCHANGED <<file, locals, memory, failed>>
     \/ /\ failed' = TRUE
        /\ LoaderReturns(ERR_READ, 0)
        /\ UNCHANGED <<file, locals, memory>>
  /\ UNCHANGED <<request, chunk>>

(* A loader that a program has registered. *)
UserLoads ==
  /\ Reading("user")
  /\ \E s \in {0, 1} : LoaderReturns(OK, s)
  /\ UNCHANGED <<request, file, chunk, locals, memory, failed>>

LoaderStep == ReadChunk \/ PgzByte \/ PgxByte \/ ElfHeader \/ ElfSegment \/ ElfEnd
                \/ DefaultChunk \/ UserLoads

-----------------------------------------------------------------------------
(* What a loader can load: its signature is right and it needs no dynamic  *)
(* linking.                                                                *)
Loadable(p) == p.sound /\ \A i \in DOMAIN p.segments : p.segments[i].kind # "dynamic"

(* A program that is executed is in memory as its file describes, entered  *)
(* where the file says, wherever the chunks ended, whichever of several    *)
(* files a search found; and a loadable file that is loaded to an address  *)
(* is there as a whole - provided that no read failed, and that the loader *)
(* is not the program's own.                                               *)
RunsWholePrograms ==
  ~failed /\ loader # "user" =>
    /\ load = "executing" =>
         Loadable(program) /\ memory = Described(program) /\ start = program.entry
    /\ load = "loaded" /\ Loadable(program) =>
         memory = IF loader = "default"
                    THEN Stored(Blank, [addr |-> destination, data |-> Contents(program), zeros |-> 0])
                    ELSE Described(program)
=============================================================================
