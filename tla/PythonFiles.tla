---------------------------- MODULE PythonFiles ----------------------------
(***************************************************************************)
(* The file system that pyarrow uses on the object store of a table, and   *)
(* its file objects: an ObjectOutputStream turns writes of any size into   *)
(* parts of a multipart upload, an ObjectInputFile turns seeks and reads   *)
(* into range requests.  One stream writes an object, one file reads, and  *)
(* other calls list, copy, move and delete.  Byte i of what is written is  *)
(* the number i; a path is a sequence of names.                            *)
(***************************************************************************)
EXTENDS Integers, Sequences, FiniteSets, SequencesExt

CONSTANTS
    MaxBufferSize,  \* option max_buffer_size
    WriteSizes,     \* numbers of bytes of one write
    MaxBytes,       \* bound: bytes written
    Paths,          \* paths of objects
    Out,            \* the path the stream writes to
    Stored,         \* the paths that hold an object at the start
    KnownSizes,     \* argument known_sizes of the file system: path -> size
    Dirs,           \* arguments of the calls on directories
    ReadSizes,      \* arguments of read; NONE reads to the end
    Offsets,        \* arguments of seek
    MaxCalls,       \* bound: calls on the file system and on the input file
    NONE

VARIABLES
    buffer,   \* ObjectOutputStream.buffer
    upload,   \* the multipart upload: its parts, whether it is open, aborted or complete
    written,  \* bytes the caller has passed to write
    errors,   \* whether a call on the stream has raised
    closed,   \* ObjectOutputStream.closed
    input,    \* the ObjectInputFile, or NONE
    got,      \* what the last read returned, and where the file stood before it
    files,    \* the objects of the store: path -> content or NONE
    info,     \* what the last call for file information returned
    calls     \* calls on the file system and on the input file so far

fvars == <<buffer, upload, written, errors, closed, files, input, got, info, calls>>

Bytes(from, n) == [i \in 1..n |-> from + i]

(* open_output_stream and ObjectOutputStream::try_new.                     *)
Init ==
    /\ buffer = << >>
    /\ upload = [parts |-> << >>, status |-> "open"]
    /\ written = 0
    /\ errors = FALSE
    /\ closed = FALSE
    /\ input = NONE
    /\ files = [p \in Paths |-> IF p \in Stored THEN Bytes(0, 2) ELSE NONE]
    /\ got = NONE
    /\ info = NONE
    /\ calls = 0

(* MultipartUpload: a part is stored or refused; nothing is stored once    *)
(* the upload is aborted.                                                  *)
PutPart(u, part) ==
    IF u.status = "open" THEN {[u EXCEPT !.parts = Append(@, part)], [u EXCEPT !.status = "aborted"]}
    ELSE {u}

(* upload_buffer: the buffer is emptied before the part is sent, and a     *)
(* failed part aborts the upload.                                          *)
UploadBuffer(u, b) == PutPart(u, b)

(* One chunk of a write: it is appended when the buffer keeps room, else   *)
(* it fills the buffer, the buffer is sent and the rest starts a new one.  *)
WriteChunk_mutant(s, chunk) ==
    LET remaining == MaxBufferSize - Len(s.buffer)
    IN  IF s.failed THEN {s}
        ELSE IF Len(chunk) <= remaining THEN {[s EXCEPT !.buffer = @ \o chunk]}
        ELSE {[buffer |-> IF u.status = "open" THEN SubSeq(chunk, remaining + 1, Len(chunk)) ELSE << >>,
               upload |-> u, failed |-> u.status # "open"] :
                  u \in UploadBuffer(s.upload, s.buffer \o SubSeq(chunk, 1, remaining))}
WriteChunk(s, chunk) ==
    LET remaining == MaxBufferSize - Len(s.buffer)
    IN  IF s.failed THEN {s}
        ELSE IF Len(chunk) < remaining THEN {[s EXCEPT !.buffer = @ \o chunk]}
        ELSE {[buffer |-> IF u.status = "open" THEN SubSeq(chunk, remaining + 1, Len(chunk)) ELSE << >>,
               upload |-> u, failed |-> u.status # "open"] :
                  u \in UploadBuffer(s.upload, s.buffer \o SubSeq(chunk, 1, remaining))}

(* bytes.chunks(max_buffer_size).                                          *)
Chunks(bytes) ==
    [i \in 1..((Len(bytes) + MaxBufferSize - 1) \div MaxBufferSize) |->
        SubSeq(bytes, (i - 1) * MaxBufferSize + 1,
               IF i * MaxBufferSize < Len(bytes) THEN i * MaxBufferSize ELSE Len(bytes))]

Outcomes(s0, bytes) ==
    FoldLeft(LAMBDA ss, chunk : UNION {WriteChunk(s, chunk) : s \in ss}, {s0}, Chunks(bytes))

Write(n) ==
    /\ ~closed
    /\ written + n <= MaxBytes
    /\ \E s \in Outcomes([buffer |-> buffer, upload |-> upload, failed |-> FALSE], Bytes(written, n)) :
        /\ buffer' = s.buffer
        /\ upload' = s.upload
        /\ errors' = (errors \/ s.failed)
    /\ written' = written + n
    /\ UNCHANGED <<closed, files, input, got, info, calls>>

(* flush sends the buffer as it is, also when it is empty.                 *)
Flush ==
    /\ Len(upload.parts) < MaxBytes
    /\ \E u \in UploadBuffer(upload, buffer) :
        /\ upload' = u
        /\ errors' = (errors \/ u.status # "open")
    /\ buffer' = << >>
    /\ UNCHANGED <<written, closed, files, input, got, info, calls>>

(* close: the last part, then the completion of the upload.                *)
Close_mutant ==
    /\ ~closed
    /\ closed' = TRUE
    /\ buffer' = << >>
    /\ \E fails \in BOOLEAN :
        /\ upload' = IF upload.status = "open" /\ ~fails THEN [upload EXCEPT !.status = "complete"] ELSE upload
        /\ errors' = (errors \/ upload.status # "open" \/ fails)
    /\ files' = IF upload'.status = "complete" THEN [files EXCEPT ![Out] = FlattenSeq(upload'.parts)] ELSE files
    /\ info' = NONE
    /\ UNCHANGED <<written, input, got, calls>>
Close ==
    /\ ~closed
    /\ closed' = TRUE
    /\ buffer' = << >>
    /\ \E u \in IF buffer = << >> THEN {upload} ELSE UploadBuffer(upload, buffer), fails \in BOOLEAN :
        /\ upload' = IF u.status = "open" /\ ~fails THEN [u EXCEPT !.status = "complete"] ELSE u
        /\ errors' = (errors \/ u.status # "open" \/ fails)
    /\ files' = IF upload'.status = "complete" THEN [files EXCEPT ![Out] = FlattenSeq(upload'.parts)] ELSE files
    /\ info' = NONE
    /\ UNCHANGED <<written, input, got, calls>>

-----------------------------------------------------------------------------
(* open_input_file: the size is the known one or comes from a head, which  *)
(* raises when there is no object.                                         *)
OpenInput(p) ==
    /\ calls < MaxCalls
    /\ p \in DOMAIN KnownSizes \/ files[p] # NONE
    /\ input' = [path |-> p, pos |-> 0, length |-> IF p \in DOMAIN KnownSizes THEN KnownSizes[p] ELSE Len(files[p])]
    /\ got' = NONE
    /\ calls' = calls + 1
    /\ UNCHANGED <<buffer, upload, written, errors, closed, files, info>>

CheckPosition(offset) == offset >= 0 /\ offset <= input.length

(* seek checks the offset, not the position it leads to.                   *)
Seek(offset, whence) ==
    /\ input # NONE
    /\ calls < MaxCalls
    /\ CheckPosition(offset)
    /\ input' = [input EXCEPT !.pos = CASE whence = 0 -> offset
                                        [] whence = 1 -> @ + offset
                                        [] whence = 2 -> input.length + offset]
    /\ calls' = calls + 1
    /\ got' = NONE
    /\ UNCHANGED <<buffer, upload, written, errors, closed, files, info>>

(* The range of a read ends at the end of the file; a file that stands     *)
(* past its end moves back to it, as the unsigned difference wraps to a    *)
(* negative count.  A range request raises when the object is gone or ends *)
(* before the range; the position has moved by then.                       *)
ReadEnd_mutant(pos, nbytes) ==
    IF nbytes # NONE /\ nbytes < input.length THEN nbytes ELSE input.length
ReadEnd(pos, nbytes) ==
    IF nbytes # NONE /\ pos + nbytes < input.length THEN pos + nbytes ELSE input.length

Read(nbytes) ==
    /\ input # NONE
    /\ calls < MaxCalls
    /\ LET end == ReadEnd(input.pos, nbytes)
           object == files[input.path]
       IN  /\ input' = [input EXCEPT !.pos = end]
           /\ got' = IF end > input.pos /\ (object = NONE \/ input.pos >= Len(object)) THEN NONE
                     ELSE [from |-> input.pos, asked |-> nbytes,
                           data |-> IF end <= input.pos THEN << >> ELSE SubSeq(object, input.pos + 1, IF end < Len(object) THEN end ELSE Len(object))]
    /\ calls' = calls + 1
    /\ UNCHANGED <<buffer, upload, written, errors, closed, files, info>>

-----------------------------------------------------------------------------
(* DeltaFileSystemHandler.  create_dir does nothing.                       *)

Present == {p \in Paths : files[p] # NONE}
Below(dir, p) == IsStrictPrefix(dir, p)

(* A call that changes the store, after which it holds the given objects.  *)
Stores(f) ==
    /\ calls < MaxCalls
    /\ files' = f
    /\ calls' = calls + 1
    /\ info' = NONE /\ got' = NONE
    /\ UNCHANGED <<buffer, upload, written, errors, closed, input>>

(* copy and rename replace what is at the destination.                     *)
copy_file(src, dest) == src \in Present /\ Stores([files EXCEPT ![dest] = files[src]])

(* Where rename is a copy and a deletion, the deletion may fail.           *)
move_file(src, dest) ==
    /\ src \in Present /\ src # dest
    /\ \E deleted \in BOOLEAN :
          Stores([files EXCEPT ![dest] = files[src], ![src] = IF deleted THEN NONE ELSE @])

delete_file(p) == p \in Present /\ Stores([files EXCEPT ![p] = NONE])

(* The objects are listed and deleted one by one; the first failure ends   *)
(* the call.                                                               *)
delete_dir(dir) ==
    \E gone \in SUBSET {p \in Present : Below(dir, p)} :
        Stores([p \in Paths |-> IF p \in gone THEN NONE ELSE files[p]])

Told(i) ==
    /\ calls < MaxCalls
    /\ info' = i
    /\ calls' = calls + 1
    /\ UNCHANGED <<buffer, upload, written, errors, closed, files, input, got>>

(* list_with_delimiter: the objects right below a directory, and the       *)
(* directories right below it that hold any.                               *)
ListObjects(dir) == {p \in Present : Below(dir, p) /\ Len(p) = Len(dir) + 1}
ListPrefixes(dir) ==
    {SubSeq(p, 1, Len(dir) + 1) : p \in {q \in Present : Below(dir, q) /\ Len(q) > Len(dir) + 1}}

(* get_file_info: what holds something is a directory.                     *)
get_file_info(p) ==
    Told([kind |-> "info", path |-> p,
          type |-> IF ListObjects(p) # {} \/ ListPrefixes(p) # {} THEN "Directory"
                   ELSE IF p \in Present THEN "File" ELSE "NotFound"])

(* walk_tree: the directories found are listed in their turn.              *)
RECURSIVE walk_tree(_, _)
walk_tree(dirs, recursive) ==
    LET objects == UNION {ListObjects(d) : d \in dirs}
        prefixes == UNION {ListPrefixes(d) : d \in dirs}
        more == IF recursive /\ prefixes # {} THEN walk_tree(prefixes, recursive)
                ELSE [objects |-> {}, prefixes |-> {}]
    IN  [objects |-> objects \cup more.objects, prefixes |-> prefixes \cup more.prefixes]

(* get_file_info_selector; an object store answers an empty listing for a  *)
(* directory that is not there.                                            *)
get_file_info_selector(dir, recursive) ==
    LET found == walk_tree({dir}, recursive)
    IN  Told([kind |-> "selector", path |-> dir, recursive |-> recursive,
              files |-> found.objects, dirs |-> found.prefixes])

FileCall ==
    \/ \E src, dest \in Paths : copy_file(src, dest) \/ move_file(src, dest)
    \/ \E p \in Paths : delete_file(p)
    \/ \E dir \in Dirs : delete_dir(dir)
    \/ \E p \in Paths \cup Dirs : get_file_info(p)
    \/ \E dir \in Dirs, recursive \in BOOLEAN : get_file_info_selector(dir, recursive)

Next ==
    \/ \E n \in WriteSizes : Write(n)
    \/ Flush
    \/ Close
    \/ \E p \in Paths : OpenInput(p)
    \/ FileCall
    \/ \E offset \in Offsets, whence \in 0..2 : Seek(offset, whence)
    \/ \E nbytes \in ReadSizes : Read(nbytes)

-----------------------------------------------------------------------------
(* A stream on which no call raised holds, once closed, every byte written *)
(* in the order of the writes, however the writes straddle the buffer.     *)
UploadedExactly ==
    closed /\ ~errors => upload.status = "complete" /\ FlattenSeq(upload.parts) = Bytes(0, written)

(* The buffer never grows past its size ("this will never overflow" in     *)
(* write), so a part is never larger.                                      *)
BufferBounded ==
    /\ Len(buffer) < MaxBufferSize
    /\ \A i \in DOMAIN upload.parts : Len(upload.parts[i]) <= MaxBufferSize

(* While the object has the size the file was opened with, a read from a   *)
(* position inside the file returns the bytes from there, no fewer than    *)
(* asked for unless the file ends, and leaves the file behind              *)
(* the last byte returned, so that reads in a row miss and repeat nothing. *)
ReadsContiguous ==
    /\ got # NONE /\ got.from <= input.length
    /\ files[input.path] # NONE /\ Len(files[input.path]) = input.length
    =>
        /\ got.data = Bytes(got.from, Len(got.data))
        /\ input.pos = got.from + Len(got.data)
        /\ (got.asked = NONE \/ Len(got.data) < got.asked) => input.pos = input.length

(* A recursive listing names every object below the directory and every    *)
(* directory in between, and a path is called a directory exactly when a   *)
(* listing of it finds something, however the objects got there (walk_tree,*)
(* get_file_info).                                                         *)
ListingComplete ==
    info # NONE =>
        LET below == {p \in Present : Below(info.path, p)}
        IN  /\ info.kind = "info" => (info.type = "Directory") = (below # {})
            /\ info.kind = "selector" /\ info.recursive =>
                  /\ info.files = below
                  /\ info.dirs = {d \in UNION {{SubSeq(p, 1, n) : n \in 1..(Len(p) - 1)} : p \in below} : Below(info.path, d)}
=============================================================================
