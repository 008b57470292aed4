------------------------------- MODULE Builder --------------------------------
(* Building an archive: ArchiveBuilderAdapter.build of the API, the child      *)
(* `solarch create` it talks to over pipes, the child `solarch verify` that    *)
(* checks the pending file before the API signs it, and the disk they share.   *)
(*                                                                             *)
(* The builds are attempts at one archive, one after the other: all of them    *)
(* use the same paths.  An attempt may still have its child running when the   *)
(* next one begins, after a crash of the API.  A file is known by the attempt  *)
(* that created it (its inode); a path holds a file or None.  Any child may    *)
(* stop making progress for good, so that only the deadlines end an attempt.   *)
EXTENDS Container, FiniteSets

CONSTANTS
  MaxBuilds,     \* bound: attempts
  Harms,         \* what storage may damage in a file
  MaxFaults      \* bound: damages, edits, failing and dying processes

Builds == 1..MaxBuilds

\* What is made of a build, what a child plans, what a verifier sees, what the
\* API signs.
Contents ==
  [key : Builds, header : Builds, planned : DOMAIN Directories,
   streamed : DOMAIN Directories, harm : {"none", "cut"} \cup Sections]
Files == [content : Contents, signature : Contents \cup {Garbage, None}]
Plans == [directory : DOMAIN Directories, header : Builds]
Sightings == [directory : DOMAIN Directories, file : Builds, digest : Contents \cup {None}]
Signatures == [digest : Contents, directory : DOMAIN Directories]

ASSUME BuilderAssumption ==
  /\ MaxBuilds \in Nat /\ MaxFaults \in Nat
  /\ Harms \subseteq Sections \cup {"cut", "signature"}
  /\ None \notin Builds /\ None \notin DOMAIN Directories
  /\ None \notin Contents /\ None \notin Files /\ None \notin Plans
  /\ None \notin Sightings /\ None \notin Signatures
  /\ Garbage \notin Contents /\ Garbage \notin Builds

VARIABLES
  source,        \* the staging directory of each build, while it exists
  metadata,      \* <archive>.metadata.json: the build whose header it holds
  pending,       \* <archive>.slr.pending
  output,        \* <archive>.slr
  disk,          \* the file each build created
  parent,        \* the promise of build
  stopped,       \* terminalError is set and the child has been sent SIGKILL
  handler,       \* the stdout handler that verifies and signs
  verifier,      \* the child `solarch verify --pending-build`
  seen,          \* what that verifier saw: the directory, then the digest
  child,         \* the child `solarch create`
  plan,          \* the child: directory and header it planned from
  digest,        \* the child: the signing digest it reported
  signed,        \* what the API signed, and the directory its verifier saw
  told,          \* the fingerprint the child reported
  faults

pathVars == <<metadata, pending, output>>
apiVars == <<parent, stopped, handler, verifier, seen, signed>>
childVars == <<child, plan, digest, told>>
builderVars == <<source, pathVars, disk, apiVars, childVars, faults>>

Running == {"started", "planned", "writing", "written", "framed", "appended", "checked", "linked"}
Active == {"creating", "finishing", "hashing"}

BuilderTypeOK ==
  /\ source \in [Builds -> DOMAIN Directories \cup {None}]
  /\ {metadata, pending, output} \subseteq Builds \cup {None}
  /\ disk \in [Builds -> Files \cup {None}]
  /\ parent \in [Builds -> Active \cup {"idle", "returned", "failed", "gone"}]
  /\ stopped \in [Builds -> BOOLEAN]
  /\ handler \in [Builds -> {"none", "verifying", "done"}]
  /\ verifier \in [Builds -> {"off", "opening", "digesting", "passed", "refused"}]
  /\ child \in [Builds -> Running \cup {"none", "failed", "dead", "completed"}]
  /\ seen \in [Builds -> Sightings \cup {None}]
  /\ plan \in [Builds -> Plans \cup {None}]
  /\ digest \in [Builds -> Contents \cup {None}]
  /\ signed \in [Builds -> Signatures \cup {None}]
  /\ told \in [Builds -> Files \cup {None}]
  /\ \A b \in Builds :
       /\ child[b] \in {"framed", "appended", "checked", "linked", "completed"} => digest[b] # None
       /\ verifier[b] \in {"digesting", "passed"} => seen[b] # None
       /\ child[b] \in {"checked", "linked", "completed"} => told[b] # None
  /\ faults \in 0..MaxFaults

BuilderInit ==
  /\ source = [b \in Builds |-> None]
  /\ metadata = None /\ pending = None /\ output = None
  /\ disk = [b \in Builds |-> None]
  /\ parent = [b \in Builds |-> "idle"]
  /\ stopped = [b \in Builds |-> FALSE]
  /\ handler = [b \in Builds |-> "none"]
  /\ verifier = [b \in Builds |-> "off"]
  /\ seen = [b \in Builds |-> None]
  /\ child = [b \in Builds |-> "none"]
  /\ plan = [b \in Builds |-> None]
  /\ digest = [b \in Builds |-> None]
  /\ signed = [b \in Builds |-> None]
  /\ told = [b \in Builds |-> None]
  /\ faults = 0

Fault == faults < MaxFaults /\ faults' = faults + 1

Unsigned(c) == [content |-> c, signature |-> None]

(***************************************************************************)
(* The child `solarch create`                                              *)
(***************************************************************************)

Steps(b, from, to) == child[b] = from /\ child' = [child EXCEPT ![b] = to]

\* The file whose identity the child keeps: the one it took the digest of.
Identity(b) == digest[b].key

\* What an error of the child removes: until the digest, whatever is at the
\* pending path; then only its own file (PendingBuild::drop).
RemovesPending(b) ==
  \/ child[b] \in {"writing", "written"}
  \/ child[b] \in {"framed", "appended", "checked", "linked"} /\ pending = Identity(b)

RemovesOutput(b) == child[b] = "linked" /\ output = Identity(b)

\* The child takes its error path and exits with a failure.
Fails(b) ==
  /\ child' = [child EXCEPT ![b] = "failed"]
  /\ pending' = IF RemovesPending(b) THEN None ELSE pending
  /\ output' = IF RemovesOutput(b) THEN None ELSE output
  /\ UNCHANGED <<disk, plan, digest, told>>

ChildUnchanged == UNCHANGED <<source, metadata, apiVars, faults>>

CanPack(d) == d # None /\ Discoverable(d)

\* It refuses to replace files, reads the metadata and plans the manifest.
Prepare(b) ==
  /\ child[b] = "started"
  /\ IF output = None /\ pending = None /\ metadata # None /\ CanPack(source[b])
       THEN /\ Steps(b, "started", "planned")
            /\ plan' = [plan EXCEPT ![b] = [directory |-> source[b], header |-> metadata]]
            /\ UNCHANGED <<pending, output, disk, digest, told>>
       ELSE Fails(b)
  /\ ChildUnchanged

Content(b, streamed, harm) ==
  [key |-> b, header |-> plan[b].header, planned |-> plan[b].directory,
   streamed |-> streamed, harm |-> harm]

\* create_new fails where there is a file.
CreatePending(b) ==
  /\ child[b] = "planned"
  /\ IF pending = None
       THEN /\ Steps(b, "planned", "writing")
            /\ pending' = b
            /\ disk' = [disk EXCEPT ![b] = Unsigned(Content(b, plan[b].directory, "cut"))]
            /\ UNCHANGED <<output, plan, digest, told>>
       ELSE Fails(b)
  /\ ChildUnchanged

\* The files must still be what was planned.
Stream(b) ==
  /\ child[b] = "writing"
  /\ IF CanPack(source[b]) /\ Directories[source[b]] = Directories[plan[b].directory]
       THEN /\ Steps(b, "writing", "written")
            /\ disk' = [disk EXCEPT ![b] = Unsigned(Content(b, source[b], "none"))]
            /\ UNCHANGED <<pending, output, plan, digest, told>>
       ELSE Fails(b)
  /\ ChildUnchanged

\* The digest is taken of what the path holds, in one pass over the right size.
TakesDigest ==
  /\ pending # None
  /\ disk[pending].signature = None
  /\ disk[pending].content.harm # "cut"

\* It writes the signing frame to stdout; there must be someone to read it.
ReportDigest(b) ==
  /\ child[b] = "written"
  /\ IF TakesDigest /\ parent[b] # "gone"
       THEN /\ Steps(b, "written", "framed")
            /\ digest' = [digest EXCEPT ![b] = disk[pending].content]
            /\ UNCHANGED <<pending, output, disk, plan, told>>
       ELSE Fails(b)
  /\ ChildUnchanged

\* The signature is of the digest, which the file must still have.
AcceptSignature(b) ==
  /\ child[b] = "framed" /\ signed[b] # None
  /\ IF signed[b].digest = digest[b] /\ TakesDigest
          /\ disk[pending].content = digest[b] /\ pending = Identity(b)
       THEN /\ Steps(b, "framed", "appended")
            /\ disk' = [disk EXCEPT ![pending].signature = signed[b].digest]
            /\ UNCHANGED <<pending, output, plan, digest, told>>
       ELSE Fails(b)
  /\ ChildUnchanged

\* The API is gone and never wrote a signature: the pipe ends.
EndOfInput(b) ==
  /\ child[b] = "framed" /\ signed[b] = None /\ parent[b] = "gone"
  /\ Fails(b)
  /\ ChildUnchanged

FileAt(path) == disk[path]

CheckFinalized(b) ==
  /\ child[b] = "appended"
  /\ IF pending = Identity(b) /\ VerifyFinalized(FileAt(pending).content, FileAt(pending).signature)
       THEN /\ Steps(b, "appended", "checked")
            /\ told' = [told EXCEPT ![b] = FileAt(pending)]
            /\ UNCHANGED <<pending, output, disk, plan, digest>>
       ELSE Fails(b)
  /\ ChildUnchanged

LinkOutput(b) ==
  /\ child[b] = "checked"
  /\ IF pending = Identity(b) /\ output = None
       THEN /\ Steps(b, "checked", "linked")
            /\ output' = pending
            /\ UNCHANGED <<pending, disk, plan, digest, told>>
       ELSE Fails(b)
  /\ ChildUnchanged

\* The pending name goes, whatever file it names by now; if there is none the
\* output is taken back.  Then the completion line goes to stdout.
RemovePending(b) ==
  /\ child[b] = "linked"
  /\ IF pending # None
       THEN /\ Steps(b, "linked", "completed")
            /\ pending' = None
            /\ UNCHANGED <<output, disk, plan, digest, told>>
       ELSE Fails(b)
  /\ ChildUnchanged

\* A read or write of the child fails.
ChildErrs(b) ==
  /\ child[b] \in Running
  /\ Fails(b)
  /\ Fault
  /\ UNCHANGED <<source, metadata, apiVars>>

\* The child dies without its error path: killed by the API, or by the system.
ChildDies(b) ==
  /\ child[b] \in Running
  /\ child' = [child EXCEPT ![b] = "dead"]
  /\ IF stopped[b] THEN UNCHANGED faults ELSE Fault
  /\ UNCHANGED <<source, pathVars, disk, apiVars, plan, digest, told>>

(***************************************************************************)
(* The verifier                                                            *)
(***************************************************************************)

\* It opens the pending file and checks everything in it against the directory.
VerifyPending(b) ==
  /\ verifier[b] = "opening"
  /\ IF /\ pending # None
        /\ source[b] # None
        /\ OpenLayout(FileAt(pending).content, FileAt(pending).signature, TRUE)
        /\ ProtectedContents(FileAt(pending).content, source[b], metadata, b)
       THEN /\ verifier' = [verifier EXCEPT ![b] = "digesting"]
            /\ seen' = [seen EXCEPT ![b] = [directory |-> source[b], file |-> pending, digest |-> None]]
       ELSE /\ verifier' = [verifier EXCEPT ![b] = "refused"]
            /\ UNCHANGED seen
  /\ UNCHANGED <<source, pathVars, disk, parent, stopped, handler, signed, childVars, faults>>

\* Then it hashes the file it has open, which must still be at the path.
VerifyDigest(b) ==
  /\ verifier[b] = "digesting"
  /\ IF pending = seen[b].file
       THEN /\ verifier' = [verifier EXCEPT ![b] = "passed"]
            /\ seen' = [seen EXCEPT ![b].digest = disk[pending].content]
       ELSE /\ verifier' = [verifier EXCEPT ![b] = "refused"]
            /\ UNCHANGED seen
  /\ UNCHANGED <<source, pathVars, disk, parent, stopped, handler, signed, childVars, faults>>

(***************************************************************************)
(* ArchiveBuilderAdapter                                                   *)
(***************************************************************************)

\* build writes the metadata and spawns the child, which gets the content key.
StartBuild(b) ==
  /\ parent[b] = "idle"
  /\ \A a \in 1..(b - 1) : parent[a] \in {"failed", "gone"}
  /\ \E d \in DOMAIN Directories : source' = [source EXCEPT ![b] = d]
  /\ metadata' = b
  /\ parent' = [parent EXCEPT ![b] = "creating"]
  /\ child' = [child EXCEPT ![b] = "started"]
  /\ UNCHANGED <<pending, output, disk, stopped, handler, verifier, seen, signed, plan, digest, told, faults>>

\* requestStop: the first error stays, the child is sent SIGKILL.
RequestStop(b) == stopped' = [stopped EXCEPT ![b] = TRUE]

\* The signing frame arrives: the handler starts the verifier.
ReceiveFrame(b) ==
  /\ parent[b] = "creating" /\ handler[b] = "none" /\ ~stopped[b]
  /\ digest[b] # None
  /\ handler' = [handler EXCEPT ![b] = "verifying"]
  /\ verifier' = [verifier EXCEPT ![b] = "opening"]
  /\ UNCHANGED <<source, pathVars, disk, parent, stopped, seen, signed, childVars, faults>>

\* What the handler compares: the file now, the child's digest, the verifier's.
DigestsAgree(b) ==
  /\ pending # None
  /\ disk[pending].content = digest[b]
  /\ seen[b].digest = digest[b]

\* The verifier is over.
Forget(b) ==
  /\ verifier' = [verifier EXCEPT ![b] = "off"]
  /\ seen' = [seen EXCEPT ![b] = None]

\* The verifier has passed: the handler hashes the file and signs, or stops.
\* It does not ask whether the attempt has been stopped or is over.
Sign(b) ==
  /\ handler[b] = "verifying" /\ verifier[b] = "passed"
  /\ handler' = [handler EXCEPT ![b] = "done"]
  /\ IF DigestsAgree(b)
       THEN /\ signed' = [signed EXCEPT ![b] = [digest |-> digest[b], directory |-> seen[b].directory]]
            /\ UNCHANGED stopped
       ELSE RequestStop(b) /\ UNCHANGED signed
  /\ Forget(b)
  /\ UNCHANGED <<source, pathVars, disk, parent, childVars, faults>>

\* The verifier refuses, dies, or takes longer than it may.
Abort(b) ==
  /\ handler[b] = "verifying" /\ verifier[b] # "passed"
  /\ handler' = [handler EXCEPT ![b] = "done"]
  /\ RequestStop(b)
  /\ Forget(b)
  /\ UNCHANGED <<source, pathVars, disk, parent, signed, childVars, faults>>

\* Variant: the deadline is cleared when the signing frame arrives.
JobTimeoutBeforeFrame(b) ==
  /\ parent[b] = "creating" /\ ~stopped[b] /\ handler[b] = "none"
  /\ RequestStop(b)
  /\ UNCHANGED <<source, pathVars, disk, parent, handler, verifier, seen, signed, childVars, faults>>

\* The overall deadline of the child.
JobTimeout(b) ==
  /\ parent[b] = "creating" /\ ~stopped[b]
  /\ RequestStop(b)
  /\ UNCHANGED <<source, pathVars, disk, parent, handler, verifier, seen, signed, childVars, faults>>

\* The finally of a build that did not complete, and of its caller, which
\* removes the staging directory.
Reject(b) ==
  /\ parent' = [parent EXCEPT ![b] = "failed"]
  /\ output' = None
  /\ metadata' = None
  /\ source' = [source EXCEPT ![b] = None]

\* Variant: a stopped build is over at once, its child still running.
CloseAtOnce(b) ==
  /\ parent[b] = "creating"
  /\ stopped[b] \/ child[b] \in {"failed", "dead", "completed"}
  /\ IF stopped[b] \/ child[b] # "completed" \/ handler[b] = "none"
       THEN Reject(b) /\ pending' = None
       ELSE /\ parent' = [parent EXCEPT ![b] = "finishing"]
            /\ UNCHANGED <<source, pathVars>>
  /\ UNCHANGED <<disk, stopped, handler, verifier, seen, signed, childVars, faults>>

\* The child has ended: cleanupPending and reject, or go on.
Close(b) ==
  /\ parent[b] = "creating" /\ child[b] \in {"failed", "dead", "completed"}
  /\ IF stopped[b] \/ child[b] # "completed" \/ handler[b] = "none"
       THEN Reject(b) /\ pending' = None
       ELSE /\ parent' = [parent EXCEPT ![b] = "finishing"]
            /\ UNCHANGED <<source, pathVars>>
  /\ UNCHANGED <<disk, stopped, handler, verifier, seen, signed, childVars, faults>>

\* The final verifier authenticates what the output path holds.
FinalVerify(b) ==
  /\ parent[b] = "finishing"
  /\ IF output # None /\ VerifyFinalized(FileAt(output).content, FileAt(output).signature)
       THEN parent' = [parent EXCEPT ![b] = "hashing"] /\ UNCHANGED <<source, output, metadata>>
       ELSE Reject(b)
  /\ UNCHANGED <<pending, disk, stopped, handler, verifier, seen, signed, childVars, faults>>

FinalTimeout(b) ==
  /\ parent[b] = "finishing"
  /\ Reject(b)
  /\ UNCHANGED <<pending, disk, stopped, handler, verifier, seen, signed, childVars, faults>>

\* The fingerprint must be the one the child reported.
FinalHash(b) ==
  /\ parent[b] = "hashing"
  /\ IF output # None /\ FileAt(output) = told[b]
       THEN /\ parent' = [parent EXCEPT ![b] = "returned"]
            /\ metadata' = None
            /\ source' = [source EXCEPT ![b] = None]
            /\ UNCHANGED output
       ELSE Reject(b)
  /\ UNCHANGED <<pending, disk, stopped, handler, verifier, seen, signed, childVars, faults>>

(***************************************************************************)
(* Faults                                                                  *)
(***************************************************************************)

\* The API's process ends and is started again; its children run on.
ApiCrash(b) ==
  /\ parent[b] \in Active
  /\ Fault
  /\ parent' = [parent EXCEPT ![b] = "gone"]
  /\ handler' = [handler EXCEPT ![b] = "done"]
  /\ verifier' = [verifier EXCEPT ![b] = "off"]
  /\ UNCHANGED <<source, pathVars, disk, stopped, seen, signed, childVars>>

\* Storage damages a file that was written, without a trace in its metadata.
Damage(b, harm) ==
  /\ b \in {pending, output} /\ disk[b].content.harm = "none"
  /\ Fault
  /\ disk' = IF harm = "signature" THEN [disk EXCEPT ![b].signature = Garbage]
               ELSE [disk EXCEPT ![b].content.harm = harm]
  /\ harm = "signature" => disk[b].signature # None
  /\ UNCHANGED <<source, pathVars, apiVars, childVars>>

\* The staging directory changes while someone will still look at it.
Edit(b) ==
  /\ source[b] # None /\ handler[b] # "done" /\ ~stopped[b]
  /\ Fault
  /\ \E d \in DOMAIN Directories \ {source[b]} : source' = [source EXCEPT ![b] = d]
  /\ UNCHANGED <<pathVars, disk, apiVars, childVars>>

Api(b) ==
  \/ StartBuild(b) \/ ReceiveFrame(b) \/ Sign(b) \/ Abort(b) \/ JobTimeout(b) \/ Close(b)
  \/ FinalVerify(b) \/ FinalTimeout(b) \/ FinalHash(b)

Child(b) ==
  \/ Prepare(b) \/ CreatePending(b) \/ Stream(b) \/ ReportDigest(b) \/ AcceptSignature(b)
  \/ EndOfInput(b) \/ CheckFinalized(b) \/ LinkOutput(b) \/ RemovePending(b)

BuilderNext ==
  \E b \in Builds :
    \/ Api(b) \/ Child(b) \/ VerifyPending(b) \/ VerifyDigest(b)
    \/ ChildErrs(b) \/ ChildDies(b) \/ ApiCrash(b) \/ Edit(b)
    \/ \E harm \in Harms : Damage(b, harm)

\* The timers of the API fire, a process that was sent SIGKILL ends, and the
\* API handles what it is told.  Nothing makes a child go on.
BuilderFairness ==
  \A b \in Builds :
    /\ WF_builderVars(JobTimeout(b)) /\ WF_builderVars(ChildDies(b) /\ stopped[b])
    /\ WF_builderVars(Close(b)) /\ WF_builderVars(FinalTimeout(b)) /\ WF_builderVars(FinalHash(b))
(***************************************************************************)
(* The inductive invariant of the proofs                                   *)
(***************************************************************************)

NoCrash == \A b \in Builds : parent[b] # "gone"

\* An attempt begins when those before it have ended without an archive.
SerialInv ==
  \A a, b \in Builds : a < b /\ parent[b] # "idle" => parent[a] \in {"failed", "gone"}

\* A build goes on after its child's completion only, and fails after its end.
ProcessInv ==
  \A b \in Builds :
    /\ parent[b] = "idle" => child[b] = "none"
    /\ child[b] = "none" => parent[b] = "idle"
    /\ parent[b] \in {"finishing", "hashing", "returned"} => child[b] = "completed"
    /\ parent[b] = "failed" => child[b] \notin Running
    /\ child[b] \in Running \ {"started"} => plan[b] # None

\* The key in a file is that of the attempt that created it, which had got to
\* its end when the file is no longer cut.
FilesInv ==
  /\ \A b \in Builds : disk[b] # None =>
       /\ disk[b].content.key = b
       /\ child[b] \notin {"none", "started", "planned"}
       /\ child[b] = "writing" => disk[b].content.harm = "cut"
       /\ \/ disk[b].signature \in {None, Garbage}
          \/ signed[b] # None /\ disk[b].signature = signed[b].digest
  /\ \A b \in {pending, output} \ {None} : disk[b] # None

\* A digest was taken of a file that was whole in length and that only damage
\* has changed since.
DigestInv ==
  \A b \in Builds : digest[b] # None =>
    /\ child[b] \notin {"none", "started", "planned", "writing", "written"}
    /\ digest[b].harm # "cut"
    /\ disk[digest[b].key] # None
    /\ child[digest[b].key] # "writing"
    /\ disk[digest[b].key].content = digest[b] \/ disk[digest[b].key].content.harm # "none"

\* The checks of the verifier hold of content c and directory d.
Verified(c, d, b) ==
  /\ SectionRanges(Bytes(c).prelude, DeclaredSize(Bytes(c).prelude))
  /\ \E header \in Builds : ProtectedContents(c, d, header, b)

\* The verifier passes the build's own file only, and the API signs what passed.
VerifierInv ==
  \A b \in Builds :
    /\ verifier[b] # "off" => digest[b] # None
    /\ verifier[b] \in {"digesting", "passed"} => seen[b].file = b
    /\ verifier[b] = "digesting" => disk[b] # None
    /\ verifier[b] = "digesting" /\ disk[b].content = digest[b]
         => Verified(digest[b], seen[b].directory, b)
    /\ verifier[b] = "passed" =>
         /\ seen[b].digest # None
         /\ seen[b].digest.key = b
         /\ seen[b].digest = digest[b] => Verified(digest[b], seen[b].directory, b)

SignedInv ==
  \A b \in Builds :
    /\ child[b] \in {"appended", "checked", "linked", "completed"} => signed[b] # None
    /\ signed[b] # None =>
         /\ handler[b] = "done"
         /\ signed[b].digest = digest[b] /\ digest[b] # None /\ digest[b].key = b
         /\ Verified(signed[b].digest, signed[b].directory, b)
    /\ told[b] # None => signed[b] # None /\ told[b].content = signed[b].digest

\* While the API has never crashed, what is at the paths is of the build under
\* way, or is the archive that was returned.
PathsInv ==
  NoCrash =>
    /\ metadata # None => parent[metadata] \in Active
    /\ pending # None => parent[pending] = "creating" /\ child[pending] # "completed"
    /\ output # None => parent[output] \in Active \cup {"returned"}

\* A returned archive is at its path.
OutputInv == \A b \in Builds : parent[b] = "returned" => output = b

BuilderIInv ==
  /\ BuilderTypeOK /\ SerialInv /\ ProcessInv /\ FilesInv /\ DigestInv
  /\ VerifierInv /\ SignedInv /\ PathsInv /\ OutputInv
===============================================================================
