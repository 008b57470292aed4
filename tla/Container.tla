------------------------------ MODULE Container -------------------------------
(* The .slr container (crates/solarch-core): what may be packed, how the files *)
(* of a directory become a manifest, an index and encrypted chunks, what the   *)
(* verifiers check and what the protected reader answers.                      *)
(*                                                                             *)
(* The bytes of a container follow from what it was made of, and are laid out  *)
(* from that by Bytes: content is a record of the content key, the header, the *)
(* directory the manifest and index were planned from, the directory the       *)
(* chunks were streamed from, and the section storage has damaged since.       *)
(* A hash is the hashed value itself; a sealed section opens under its key,    *)
(* header and place only.  Lengths of sections other than data are units.      *)
EXTENDS Naturals, Sequences, FiniteSets, SequencesExt

CONSTANTS
  Directories,   \* directories by name: each a set of files
  Chunk,         \* CHUNK_SIZE
  Tag,           \* AEAD_TAG_BYTES
  MaxRead,       \* MAX_PROTECTED_READ_BYTES
  KeyId,         \* the signing key id of the authority
  Garbage,       \* bytes that are not what was written
  Refused, None

ASSUME ContainerAssumption ==
  /\ Chunk \in Nat \ {0} /\ Tag \in Nat /\ MaxRead \in Nat \ {0}
  /\ Garbage # KeyId /\ Garbage \notin [count : Nat] /\ Refused \notin Seq(Nat)

\* A path names one file of a directory.
ASSUME DirectoriesAssumption ==
  \A d \in DOMAIN Directories :
    /\ IsFiniteSet(Directories[d])
    /\ \A f \in Directories[d] : f.path \in Seq(Nat) /\ f.bytes \in Seq(Nat)
    /\ \A f, g \in Directories[d] : f.path = g.path => f = g

MinOf(a, b) == IF a < b THEN a ELSE b
MaxOf(a, b) == IF a > b THEN a ELSE b

(***************************************************************************)
(* Files that may be packed.  A path is a sequence of components; a         *)
(* component is a number, its last bit the case of its letters, and 0 is a  *)
(* name no system may be given (.., CON, a trailing dot).                   *)
(***************************************************************************)

NormalizedPath(path) == path # <<>> /\ 0 \notin ToSet(path)

Folded(path) == [i \in DOMAIN path |-> path[i] \div 2]

\* One path is the other, or a folder of it, on a system that folds cases.
Conflict(p, q) == IsPrefix(Folded(p), Folded(q)) \/ IsPrefix(Folded(q), Folded(p))

Before(p, q) ==
  \E i \in DOMAIN q :
    /\ \A j \in 1..(i - 1) : j \in DOMAIN p /\ p[j] = q[j]
    /\ i \in DOMAIN p => p[i] < q[i]

ProtectedType(f) == f.type \in {"pdf", "png", "jpeg", "webp", "docx", "xlsx"}

\* An entry of an office package: its local header agrees with the directory of
\* the package, and its data ends before that directory.
LocalEntryMatches(entry, package) ==
  entry.local = entry.name /\ entry.end <= package.directory

MainPart == [docx |-> "document", xlsx |-> "workbook"]

\* No part twice, the parts every package has, one main part, and no macros.
PackageParts(package, type) ==
  LET names == {package.entries[i].name : i \in DOMAIN package.entries} IN
  /\ \A i \in DOMAIN package.entries : LocalEntryMatches(package.entries[i], package)
  /\ \A i, j \in DOMAIN package.entries :
       package.entries[i].name = package.entries[j].name => i = j
  /\ {"contentTypes", "relationships"} \subseteq names
  /\ names \cap {MainPart[t] : t \in DOMAIN MainPart} = {MainPart[type]}
  /\ "macro" \notin names

\* What the content types say of the main part: its type, and once.
Override(override, type) ==
  override.part = MainPart[type] => override.contentType = type

ContentTypes(package, type) ==
  /\ \A i \in DOMAIN package.overrides : Override(package.overrides[i], type)
  /\ \E i \in DOMAIN package.overrides :
       /\ package.overrides[i].part = MainPart[type]
       /\ \A j \in DOMAIN package.overrides :
            package.overrides[j].part = MainPart[type] => i = j

\* The bytes are of the type the name promises; an empty file is of any.
ProtectedContent(f) ==
  \/ f.bytes = <<>>
  \/ f.type \notin DOMAIN MainPart /\ f.format = f.type
  \/ /\ f.type \in DOMAIN MainPart /\ f.format = "zip"
     /\ PackageParts(f.package, f.type) /\ ContentTypes(f.package, f.type)

Entry(f) == NormalizedPath(f.path) /\ ProtectedType(f) /\ ProtectedContent(f)

Discoverable(d) ==
  /\ Directories[d] # {}
  /\ \A f \in Directories[d] : Entry(f)
  /\ \A f, g \in Directories[d] : f # g => ~Conflict(f.path, g.path)

\* The files of each directory in the order of their paths.
Listings ==
  [d \in DOMAIN Directories |->
     CHOOSE files \in SetToSeqs(Directories[d]) :
       \A i, j \in DOMAIN files : i < j => Before(files[i].path, files[j].path)]

Discover(d) == Listings[d]

(***************************************************************************)
(* Manifest, index and data of a sequence of files                         *)
(***************************************************************************)

\* The chunks of a file: full ones, the last as long as what is left.
Pieces(bytes) ==
  [i \in 1..((Len(bytes) + Chunk - 1) \div Chunk) |->
     SubSeq(bytes, (i - 1) * Chunk + 1, MinOf(i * Chunk, Len(bytes)))]

AllPieces(files) == FlattenSeq([k \in DOMAIN files |-> Pieces(files[k].bytes)])

\* The id of the first chunk of each file.
FirstChunk(files) ==
  LET first[k \in DOMAIN files] ==
        IF k = 1 THEN 0 ELSE first[k - 1] + Len(Pieces(files[k - 1].bytes))
  IN first

Manifest(header, files) ==
  [header |-> header,
   files |-> [k \in DOMAIN files |->
     [path |-> files[k].path, type |-> files[k].type,
      size |-> Len(files[k].bytes), hash |-> files[k].bytes,
      chunks |-> [i \in DOMAIN Pieces(files[k].bytes) |-> FirstChunk(files)[k] + i - 1]]]]

Records(files) ==
  LET pieces == AllPieces(files)
      offset[i \in DOMAIN pieces] ==
        IF i = 1 THEN 1 ELSE offset[i - 1] + Len(pieces[i - 1]) + Tag
  IN [i \in DOMAIN pieces |->
       [offset |-> offset[i], ciphertext |-> Len(pieces[i]) + Tag, plaintext |-> Len(pieces[i])]]

Sealed(key, header, place, plain) ==
  [key |-> key, header |-> header, place |-> place, plain |-> plain]

\* The ciphertext of a chunk, cell by cell.
SealedChunk(key, header, id, plain) ==
  [i \in 1..(Len(plain) + Tag) |->
     [seal |-> Sealed(key, header, <<"chunk", id>>, plain), at |-> i]]

Data(key, header, files) ==
  LET pieces == AllPieces(files) IN
  <<[count |-> Len(pieces)]>> \o
  FlattenSeq([i \in DOMAIN pieces |-> SealedChunk(key, header, i - 1, pieces[i])])

Sections == {"prelude", "header", "manifest", "index", "data", "prefix"}

(***************************************************************************)
(* Layout.  The prelude holds the five section lengths; a file that is not  *)
(* signed yet lacks the last unit of the signature block.                   *)
(***************************************************************************)

Prelude(data) == <<1, 1, 1, Len(data), 2>>

Bytes(c) ==
  LET planned == Discover(c.planned)
      data == Data(c.key, c.header, Discover(c.streamed))
      Of(section, value) == IF c.harm = section THEN Garbage ELSE value
  IN [prelude |-> Of("prelude", Prelude(data)),
      header |-> Of("header", c.header),
      manifest |-> Of("manifest", Sealed(c.key, c.header, <<"manifest", 0>>, Manifest(c.header, planned))),
      index |-> Of("index", Sealed(c.key, c.header, <<"index", 0>>, Records(planned))),
      data |-> IF c.harm = "data" THEN [data EXCEPT ![Len(data)] = Garbage] ELSE data,
      prefix |-> Of("prefix", KeyId)]

DeclaredSize(prelude) == 1 + prelude[1] + prelude[2] + prelude[3] + prelude[4] + prelude[5]

\* What the file system says of the file: a write may not have got to the end.
PhysicalSize(c, signature) ==
  DeclaredSize(Prelude(Data(c.key, c.header, Discover(c.streamed))))
    - (IF signature = None THEN 1 ELSE 0) - (IF c.harm = "cut" THEN 1 ELSE 0)

\* No section is empty, and the last one ends where the container does.
SectionRanges(prelude, size) ==
  /\ prelude # Garbage
  /\ 0 \notin ToSet(prelude)
  /\ DeclaredSize(prelude) = size

OpenLayout(c, signature, isPending) ==
  LET prelude == Bytes(c).prelude IN
  /\ SectionRanges(prelude, DeclaredSize(prelude))
  /\ PhysicalSize(c, signature) = DeclaredSize(prelude) - (IF isPending THEN 1 ELSE 0)

(***************************************************************************)
(* Verification                                                            *)
(***************************************************************************)

\* The key id of the signature block.
SignedBy(bytes, keyId) == bytes.prefix = keyId

\* The signature covers every byte before it.
VerifyFinalized(c, signature) ==
  /\ OpenLayout(c, signature, FALSE)
  /\ SignedBy(Bytes(c), KeyId)
  /\ signature = c

Opens(section, key, header, place) ==
  /\ section # Garbage
  /\ section.key = key /\ section.header = header /\ section.place = place

ValidRecords(records) ==
  \A i \in DOMAIN records :
    /\ records[i].offset = IF i = 1 THEN 1 ELSE records[i - 1].offset + records[i - 1].ciphertext
    /\ records[i].plaintext \in 1..Chunk
    /\ records[i].ciphertext = records[i].plaintext + Tag

DataLength(records) ==
  IF records = <<>> THEN 1 ELSE Last(records).offset + Last(records).ciphertext

\* The chunks of a file have the lengths its size asks for.
LengthsMatch(manifest, records) ==
  \A k \in DOMAIN manifest.files :
    LET file == manifest.files[k] IN
    \A i \in DOMAIN file.chunks :
      /\ file.chunks[i] + 1 \in DOMAIN records
      /\ records[file.chunks[i] + 1].plaintext = MinOf(Chunk, file.size - (i - 1) * Chunk)

ValidManifest(manifest, header, count) ==
  LET files == manifest.files IN
  /\ manifest.header = header
  /\ files # <<>>
  /\ \A k \in DOMAIN files :
       /\ k > 1 => Before(files[k - 1].path, files[k].path)
       /\ \A j \in 1..(k - 1) : ~Conflict(files[j].path, files[k].path)
       /\ Len(files[k].chunks) = (files[k].size + Chunk - 1) \div Chunk
  /\ FlattenSeq([k \in DOMAIN files |-> files[k].chunks]) = [i \in 1..count |-> i - 1]

\* The sections of a container whose index and manifest open under the key.
Readable(bytes, key) ==
  /\ Opens(bytes.index, key, bytes.header, <<"index", 0>>)
  /\ ValidRecords(bytes.index.plain)
  /\ Opens(bytes.manifest, key, bytes.header, <<"manifest", 0>>)
  /\ ValidManifest(bytes.manifest.plain, bytes.header, Len(bytes.index.plain))
  /\ LengthsMatch(bytes.manifest.plain, bytes.index.plain)
  /\ bytes.data[1] = [count |-> Len(bytes.index.plain)]
  /\ Len(bytes.data) = DataLength(bytes.index.plain)

Ciphertext(data, record) == SubSeq(data, record.offset + 1, record.offset + record.ciphertext)

Decrypts(cells, key, header, id, plaintext) ==
  /\ \A i \in DOMAIN cells : cells[i] # Garbage
  /\ Len(cells) = plaintext + Tag
  /\ LET plain == cells[1].seal.plain IN
     Len(plain) = plaintext /\ cells = SealedChunk(key, header, id, plain)

\* Variant: the planned hashes are compared with nothing that was decrypted.
DataMatchesUnread(bytes, key) ==
  \A k \in DOMAIN bytes.manifest.plain.files :
    bytes.manifest.plain.files[k].size = Len(bytes.manifest.plain.files[k].hash)

\* Every chunk decrypts and the chunks of each file hash to what was planned.
DataMatches(bytes, key) ==
  LET records == bytes.index.plain
      Of(id) == Ciphertext(bytes.data, records[id + 1])
  IN \A k \in DOMAIN bytes.manifest.plain.files :
       LET file == bytes.manifest.plain.files[k] IN
       /\ \A i \in DOMAIN file.chunks :
            Decrypts(Of(file.chunks[i]), key, bytes.header, file.chunks[i],
                     records[file.chunks[i] + 1].plaintext)
       /\ FlattenSeq([i \in DOMAIN file.chunks |-> Of(file.chunks[i])[1].seal.plain]) = file.hash

\* The directory still is what the manifest says.
SourceMatches(d, manifest) ==
  /\ Discoverable(d)
  /\ Len(manifest.files) = Len(Discover(d))
  /\ \A k \in DOMAIN manifest.files :
       LET source == Discover(d)[k] IN
       /\ manifest.files[k].path = source.path
       /\ manifest.files[k].type = source.type
       /\ manifest.files[k].size = Len(source.bytes)
       /\ manifest.files[k].hash = source.bytes

\* verify_protected_contents: of the file, the directory and the metadata file.
ProtectedContents(c, d, metadata, key) ==
  LET bytes == Bytes(c) IN
  /\ metadata # None
  /\ bytes.header = metadata
  /\ SignedBy(bytes, KeyId)
  /\ Readable(bytes, key)
  /\ DataMatches(bytes, key)
  /\ SourceMatches(d, bytes.manifest.plain)

(***************************************************************************)
(* The protected reader: manifest and index as they were when it opened the *)
(* container, chunks as they are now.                                       *)
(***************************************************************************)

\* Variant: the last chunk is not cut at the end of the range.
SliceToChunkEnd(plain, n, offset, end) ==
  LET start == n * Chunk IN
  SubSeq(plain, MaxOf(offset, start) - start + 1, Len(plain))

\* What a chunk, the n-th of its file, adds to the bytes from offset to end.
Slice(plain, n, offset, end) ==
  LET start == n * Chunk IN
  SubSeq(plain, MaxOf(offset, start) - start + 1, MinOf(end, start + Len(plain)) - start)

ReadFileRange(held, now, key, k, offset, length) ==
  LET opened == Bytes(held)
      data == Bytes(now).data
      records == opened.index.plain
      file == opened.manifest.plain.files[k]
      end == offset + length
      first == offset \div Chunk
      chunks == [i \in 1..((end - 1) \div Chunk - first + 1) |-> file.chunks[first + i]]
      Of(i) == Ciphertext(data, records[chunks[i] + 1])
      Whole == \A i \in DOMAIN chunks :
        Decrypts(Of(i), key, opened.header, chunks[i], records[chunks[i] + 1].plaintext)
  IN IF length > MaxRead \/ end > file.size THEN Refused
       ELSE IF length = 0 THEN <<>>
       ELSE IF ~Whole THEN Refused
       ELSE FlattenSeq([i \in DOMAIN chunks |->
              Slice(Of(i)[1].seal.plain, first + i - 1, offset, end)])

\* A whole file for a parser: windows as long as a read may be, and the hash.
ReadCompleteFile(held, now, key, k) ==
  LET file == Bytes(held).manifest.plain.files[k]
      windows == [w \in 1..((file.size + MaxRead - 1) \div MaxRead) |->
        ReadFileRange(held, now, key, k, (w - 1) * MaxRead, MinOf(MaxRead, file.size - (w - 1) * MaxRead))]
  IN IF \E w \in DOMAIN windows : windows[w] = Refused THEN Refused
       ELSE IF FlattenSeq(windows) = file.hash THEN file.hash ELSE Refused
=============================================================================
