-------------------------------- MODULE Reader --------------------------------
(* The built archive in the viewer: Builder, and after a build has returned,   *)
(* the file as a user has it.  verify_archive authenticates it (the viewer is  *)
(* locked), ProtectedArchiveReader::open opens it with the content key a       *)
(* licence carries, and ranges of its files can be read.  At any time the user    *)
(* may put another archive of the same authority at the path, or put the first *)
(* one back, and storage may damage what was downloaded.                       *)
EXTENDS Builder

CONSTANT OtherDirectory     \* what the other archive was made of

ASSUME ReaderAssumption == None \notin {"own", "other"}

VARIABLES
  copy,        \* the downloaded file
  here,        \* the file at the path: "own", "other" or None
  verified,    \* VerifiedArchive: file identity and fingerprint, or None
  held         \* the content the reader opened, or None

readerVars == <<copy, here, verified, held>>
vars == <<builderVars, readerVars>>

\* The content key the viewer is given is the one of the build that returned.
Returned == {b \in Builds : parent[b] = "returned"}
Ack == CHOOSE b \in Builds : parent[b] = "returned"

Other ==
  LET c == [key |-> 0, header |-> 0, planned |-> OtherDirectory,
            streamed |-> OtherDirectory, harm |-> "none"]
  IN [content |-> c, signature |-> c]

File(name) == IF name = "own" THEN copy ELSE Other

Authentic(name) == VerifyFinalized(File(name).content, File(name).signature)

TypeOK ==
  /\ BuilderTypeOK
  /\ copy \in Files \cup {None}
  /\ here \in {"own", "other", None}
  /\ here # None => copy # None /\ Returned # {}
  /\ verified # None => verified.file \in {"own", "other"}
  /\ held # None => verified # None

Init ==
  /\ BuilderInit
  /\ copy = None /\ here = None /\ verified = None /\ held = None

Quiet == Returned # {} /\ \A b \in Builds : child[b] \notin Running

\* The buyer downloads what the API serves.
Download ==
  /\ Quiet /\ here = None /\ output # None
  /\ copy' = disk[output] /\ here' = "own"
  /\ UNCHANGED <<builderVars, verified, held>>

\* verify_archive, while nothing is open.
VerifyArchive ==
  /\ here # None /\ verified = None /\ Authentic(here)
  /\ verified' = [file |-> here, fingerprint |-> File(here)]
  /\ UNCHANGED <<builderVars, copy, here, held>>

\* ProtectedArchiveReader::open with the key issued for this fingerprint.
Open ==
  /\ verified # None /\ held = None
  /\ verified.fingerprint = told[Ack]
  /\ here = verified.file /\ Authentic(here) /\ File(here) = verified.fingerprint
  /\ Readable(Bytes(File(here).content), Ack)
  /\ held' = File(here).content
  /\ UNCHANGED <<builderVars, copy, here, verified>>

\* What a read answers.  The handle stays with the file that was opened; the
\* path must still name it.  Reading changes no state.
Answer(bytes) == IF here = verified.file THEN bytes ELSE Refused

ReadRange(k, offset, length) ==
  Answer(ReadFileRange(held, File(verified.file).content, Ack, k, offset, length))

Complete(k) == Answer(ReadCompleteFile(held, File(verified.file).content, Ack, k))

\* The user puts the other file at the path.
Swap ==
  /\ here # None /\ Fault
  /\ here' = IF here = "own" THEN "other" ELSE "own"
  /\ UNCHANGED <<source, pathVars, disk, apiVars, childVars, copy, verified, held>>

DamageCopy ==
  /\ here # None /\ copy.content.harm = "none" /\ Fault
  /\ \E harm \in Harms \cap Sections : copy' = [copy EXCEPT !.content.harm = harm]
  /\ UNCHANGED <<source, pathVars, disk, apiVars, childVars, here, verified, held>>

\* The archive is closed; another may be opened.
CloseArchive ==
  /\ verified # None
  /\ verified' = None /\ held' = None
  /\ UNCHANGED <<builderVars, copy, here>>

\* Bound: the server's part is over once the file has been downloaded.
Next ==
  \/ here = None /\ BuilderNext /\ UNCHANGED readerVars
  \/ Download \/ VerifyArchive \/ Open
  \/ Swap \/ DamageCopy \/ CloseArchive

Spec == Init /\ [][Next]_vars

FairSpec == Spec /\ BuilderFairness

(***************************************************************************)
(* Properties                                                              *)
(***************************************************************************)

\* What the API puts its signature to can be read: for each file of the
\* directory its verifier saw, every range of at most MaxRead bytes, asked of
\* the reader with the build's key, is that range of the file, and so is the
\* whole file.  Storage damage, edits of the directory and failing children do
\* not lead to a signature over anything else.
ReadsBack(b, s) ==
  /\ s.digest.harm = "none"
  /\ LET files == Discover(s.directory) IN
     \A k \in DOMAIN files :
       LET bytes == files[k].bytes IN
       /\ ReadCompleteFile(s.digest, s.digest, b, k) = bytes
       /\ \A offset \in 0..Len(bytes) : \A length \in 0..MinOf(MaxRead, Len(bytes) - offset) :
            ReadFileRange(s.digest, s.digest, b, k, offset, length)
              = SubSeq(bytes, offset + 1, offset + length)

SignsOnlyWhatReadsBack ==
  [][\A b \in Builds : signed'[b] # signed[b] => ReadsBack(b, signed'[b])]_vars

\* A build that failed has left nothing: once no attempt runs and the API never
\* crashed, there is no pending file and no metadata, and no output but the one
\* that was returned.  The child is dead before its files are removed.
NothingLeftBehind ==
  (\A b \in Builds : parent[b] \in {"idle", "returned", "failed"}) =>
    /\ pending = None /\ metadata = None
    /\ output # None => parent[output] = "returned"

\* Once a build has returned its archive, the archive stays where it is: no
\* child an earlier attempt left behind removes or replaces it.
ReturnedStays ==
  [][\A b \in Builds : parent[b] = "returned" => output = b /\ output' = b]_vars

\* A build ends although the child, the verifiers or the pipes between them
\* stop for good: the deadlines kill the child and its end is handled.
EveryBuildEnds ==
  \A b \in Builds : (parent[b] \in Active) ~> (parent[b] \notin Active)

\* What the reader answers is the file that was packed, or a refusal; it
\* refuses what is longer than a read may be or ends after the file, and nothing
\* else while the file is whole and at the path.
AnswersAreTheSource ==
  held # None =>
    LET files == Discover(signed[Ack].directory)
        Allowed(bytes) == IF faults = 0 THEN {bytes} ELSE {bytes, Refused}
    IN \A k \in DOMAIN files :
         LET bytes == files[k].bytes IN
         /\ Complete(k) \in Allowed(bytes)
         /\ \A offset \in 0..Len(bytes) : \A length \in 0..(Len(bytes) - offset + 1) :
              ReadRange(k, offset, length) \in
                IF length > MaxRead \/ offset + length > Len(bytes) THEN {Refused}
                  ELSE Allowed(SubSeq(bytes, offset + 1, offset + length))

(***************************************************************************)
(* What stands behind the two properties on what is read, whatever the     *)
(* container is made of.                                                   *)
(***************************************************************************)

\* The API signs the digest its verifier has checked, of the directory that
\* verifier saw: never a file that changed between the two looks at it.
SignsWhatItVerified ==
  [][\A b \in Builds : signed'[b] # signed[b] =>
       /\ signed'[b].digest = digest[b]
       /\ Verified(signed'[b].digest, signed'[b].directory, b)]_vars

\* What the viewer opens is what was signed, wherever the user moved it.
OpensWhatWasSigned == held # None => held = signed[Ack].digest

\* The container now is the one it was, but for what storage has damaged.
Worn(c, now) ==
  now.key = c.key /\ now.header = c.header /\ now.planned = c.planned /\ now.streamed = c.streamed

\* The handle is of the own copy, and without a fault nothing has happened to it.
HeldInv ==
  held # None =>
    /\ verified.file = "own"
    /\ Worn(held, copy.content)
    /\ faults = 0 => copy.content = held /\ here = "own"

IInv ==
  /\ TypeOK /\ BuilderIInv
  /\ verified # None => here # None
  /\ OpensWhatWasSigned /\ HeldInv
===============================================================================
