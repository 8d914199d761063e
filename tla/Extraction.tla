----------------------------- MODULE Extraction -----------------------------
(***************************************************************************)
(* scripts/extract_giants.py and scripts/extract_cnpj.py over              *)
(* opl.extraction.webdav and opl.extraction.landing: the files of a month  *)
(* are downloaded from the WebDAV share, resumed where a dead stream left  *)
(* them, and put into the landing Volume.                                  *)
(*                                                                         *)
(* A file is the sequence of the versions its bytes are of: byte k of a    *)
(* file holds byte k of that version, or Misplaced when it holds a byte    *)
(* from elsewhere.  The share may replace a file at any time; the server,  *)
(* the network and the Volume answer as they like; the process may be      *)
(* killed anywhere and the script run again over what it left.             *)
(***************************************************************************)
EXTENDS Naturals, Sequences, FiniteSets

CONSTANTS
  File,         \* the files of a month
  Giants,       \* those landed as zips; of the others the inner file is landed
  Size,         \* Size[v]: the length of a file in its v-th version
  MaxRestarts,  \* _MAX_RESTARTS
  MaxResumes,   \* _MAX_STREAM_RESUMES
  MaxRuns       \* bound: how often a script is run

ASSUME ExtractionAssumption ==
  /\ IsFiniteSet(File) /\ File # {} /\ Giants \subseteq File
  /\ Size \in Seq(Nat \ {0}) /\ Size # <<>>
  /\ MaxRestarts \in Nat /\ MaxResumes \in Nat /\ MaxRuns \in Nat

Version   == DOMAIN Size
Misplaced == 0
Missing   == 0   \* no such file on the share
Unknown   == 0   \* a listing without getcontentlength
Content   == Seq(Version \cup {Misplaced})
Nothing   == <<>>

VARIABLES
  share,     \* share[f]: the version the share serves, Missing before the first
  disk,      \* disk[f]: the file on the extraction host, Nothing if absent
  volume,    \* volume[f]: the object in the landing Volume, Nothing if absent
  runs,      \* runs started so far
  tool,      \* the script: extract_giants or extract_cnpj
  todo,      \* the files of this run not settled yet
  listing,   \* listing[f]: the version the run's directory listing showed
  sized,     \* did the listing give sizes
  file,      \* the file being worked on
  at,        \* where the run is
  resumes, restarts, \* download's counters
  failed,    \* had_error / failed > 0
  rc,        \* what the last run that ended returned; 3 while none has
  put,       \* the files this run sent to the Volume
  littered   \* the files whose failed upload was never cleaned up

vars == <<share, disk, volume, runs, tool, todo, listing, sized, file, at,
          resumes, restarts, failed, rc, put, littered>>
task == <<runs, tool, todo, listing, sized, file>>
ends == <<failed, rc, put, littered>>

ExtractionTypeOK ==
  /\ share \in [File -> Version \cup {Missing}]
  /\ disk \in [File -> Content] /\ volume \in [File -> Content]
  /\ runs \in 0..MaxRuns /\ tool \in {"giants", "cnpj"}
  /\ todo \subseteq File /\ listing \in [File -> Version \cup {Missing}]
  /\ sized \in BOOLEAN /\ file \in File
  /\ at \in {"idle", "next", "get", "downloaded", "verify", "discard"}
  /\ resumes \in 0..MaxResumes /\ restarts \in 0..MaxRestarts
  /\ failed \in BOOLEAN /\ rc \in 0..3
  /\ put \subseteq File /\ littered \subseteq File

ExtractionInit ==
  /\ share = [f \in File |-> Missing]
  /\ disk = [f \in File |-> Nothing] /\ volume = [f \in File |-> Nothing]
  /\ runs = 0 /\ tool = "giants" /\ todo = {} /\ sized = FALSE
  /\ listing = [f \in File |-> Missing] /\ file = (CHOOSE f \in File : TRUE)
  /\ at = "idle" /\ resumes = 0 /\ restarts = 0
  /\ failed = FALSE /\ rc = 3 /\ put = {} /\ littered = {}

-----------------------------------------------------------------------------
(* Files and their bytes.                                                  *)

Whole(v) == [k \in 1..Size[v] |-> v]

\* Bytes from .. to of a version, each in its place.
Bytes(v, from, to) == [k \in 1..(to + 1 - from) |-> v]

Junk(n) == [k \in 1..n |-> Misplaced]

Republish ==
  \E f \in File :
    /\ share[f] + 1 \in Version
    /\ share' = [share EXCEPT ![f] = @ + 1]
    /\ UNCHANGED <<disk, volume, task, at, resumes, restarts, ends>>

-----------------------------------------------------------------------------
(* A run of a script.                                                      *)

Settle(ok) ==
  /\ todo' = todo \ {file}
  /\ at' = "next" /\ resumes' = 0 /\ restarts' = 0
  /\ failed' = (failed \/ ~ok)

Asked(script) == IF script = "giants" THEN Giants ELSE File \ Giants

\* extract_cnpj lists the month once and, asked to, refuses an incomplete one.
Start ==
  /\ at = "idle" /\ runs < MaxRuns
  /\ runs' = runs + 1
  /\ tool' \in {"giants", "cnpj"} /\ sized' \in BOOLEAN
  /\ listing' = share
  /\ \/ at' = "next" /\ todo' = Asked(tool') /\ rc' = 3
     \/ /\ tool' = "cnpj" /\ \E f \in Asked(tool') : share[f] = Missing
        /\ at' = "idle" /\ todo' = {} /\ rc' = 2
  /\ failed' = FALSE /\ put' = {}
  /\ UNCHANGED <<share, disk, volume, file, resumes, restarts, littered>>

\* extract_giants lists again for each part: download_parts.
Relisted == IF tool = "giants" THEN share ELSE listing

PickFile ==
  /\ at = "next"
  /\ \E f \in todo :
       /\ file' = f
       /\ listing' = [listing EXCEPT ![f] = Relisted[f]]
       /\ \/ /\ Relisted[f] # Missing
             /\ at' = "get" /\ UNCHANGED <<todo, failed>>
          \/ /\ Relisted[f] = Missing
             /\ todo' = todo \ {f} /\ failed' = TRUE /\ UNCHANGED at
  /\ UNCHANGED <<share, disk, volume, runs, tool, sized, resumes, restarts, rc, put, littered>>

Done ==
  /\ at = "next" /\ todo = {}
  /\ at' = "idle"
  /\ rc' = IF failed THEN 1 ELSE 0
  /\ UNCHANGED <<share, disk, volume, task, resumes, restarts, failed, put, littered>>

-----------------------------------------------------------------------------
(* WebDavClient.download: one request.                                     *)

Served == share[file]

ExpectedSize == IF sized THEN Size[listing[file]] ELSE Unknown

ResumeFrom == Len(disk[file])

Write(content) == disk' = [disk EXCEPT ![file] = content]

Raises ==
  /\ Settle(FALSE)
  /\ UNCHANGED <<share, volume, runs, tool, listing, sized, file, rc, put, littered>>

StaysInDownload == UNCHANGED <<share, volume, task, ends>>

\* Five attempts answered 5xx or cut off, or a 4xx.
RequestFails ==
  /\ at = "get"
  /\ Raises
  /\ UNCHANGED disk

\* mutant: the restart is not counted
RestartsForever ==
  /\ Write(Nothing) /\ resumes' = 0
  /\ UNCHANGED <<restarts, at>> /\ StaysInDownload

RestartFromScratch ==
  \/ /\ restarts < MaxRestarts
     /\ Write(Nothing) /\ resumes' = 0 /\ restarts' = restarts + 1
     /\ UNCHANGED at /\ StaysInDownload
  \/ /\ restarts >= MaxRestarts
     /\ Raises /\ UNCHANGED disk

\* The final size check, against the listing or else the Content-Length.
Accept(content, contentLength) ==
  LET target == IF ExpectedSize # Unknown THEN ExpectedSize ELSE contentLength
  IN  /\ Write(content)
      /\ IF target # Unknown /\ Len(content) # target
           THEN Raises
           ELSE /\ at' = "downloaded" /\ UNCHANGED <<resumes, restarts>> /\ StaysInDownload

StreamDies(content) ==
  /\ Write(content)
  /\ \/ resumes >= MaxResumes /\ Raises
     \/ /\ resumes < MaxResumes
        /\ resumes' = resumes + 1 /\ UNCHANGED <<restarts, at>> /\ StaysInDownload

\* The body arrives whole, or dies after the bytes up to some point were flushed.
\* A body without a Content-Length may also end early and say nothing.  An empty
\* file is not told from none here.
Stream(from) ==
  LET kept == SubSeq(disk[file], 1, from)
      upTo(n) == kept \o Bytes(Served, from + 1, n)
  IN  \/ Accept(upTo(Size[Served]), Size[Served])
      \/ \E n \in from..Size[Served] :
           \/ StreamDies(upTo(n))
           \/ n > 0 /\ Accept(upTo(n), Unknown)

\* 416: the range starts at or past the end.
RangeUnsatisfiable ==
  /\ at = "get" /\ ResumeFrom > 0 /\ ResumeFrom >= Size[Served]
  /\ IF ExpectedSize # Unknown /\ ResumeFrom = ExpectedSize
       THEN at' = "downloaded" /\ UNCHANGED <<disk, resumes, restarts>> /\ StaysInDownload
       ELSE RestartFromScratch

\* mutant: a 206 is believed without its Content-Range
BelievesAny206 ==
  /\ at = "get" /\ ResumeFrom > 0
  /\ Accept(disk[file] \o Junk(Size[Served]), Unknown)

\* A 206 that does not prove it starts where the request asked.
Unproven206 ==
  /\ at = "get" /\ ResumeFrom > 0
  /\ RestartFromScratch

Proven206 ==
  /\ at = "get" /\ ResumeFrom > 0 /\ ResumeFrom < Size[Served]
  /\ Stream(ResumeFrom)

\* 200: the whole file, whatever range was asked for.
Full200 ==
  /\ at = "get"
  /\ Stream(0)

Get == RequestFails \/ RangeUnsatisfiable \/ Unproven206 \/ Proven206 \/ Full200

-----------------------------------------------------------------------------
(* unzip_single and upload_to_volume.                                      *)

OfOneVersion(content) == \E v \in Version : content = Whole(v)

\* The local file does not open, or the zip has a member whose CRC is not its
\* directory's: not a byte was sent, and the Volume is not touched.
LocalFails ==
  /\ at = "downloaded"
  /\ Settle(FALSE)
  /\ UNCHANGED <<share, disk, volume, runs, tool, listing, sized, file, rc, put, littered>>

Unzips == file \in Giants \/ OfOneVersion(disk[file])

\* What a PUT stores when it is not the file: less of it, the head dropped.
Stored(object) == volume' = [volume EXCEPT ![file] = object]

ShortObject == {Junk(n) : n \in 1..(Len(disk[file]) - 1)}

Put ==
  /\ at = "downloaded" /\ Unzips
  /\ put' = put \cup {file}
  /\ \/ at' = "verify" /\ \E object \in ShortObject \cup {disk[file]} : Stored(object)
     \/ at' = "discard" /\ \E object \in ShortObject \cup {disk[file], volume[file]} : Stored(object)
  /\ UNCHANGED <<share, disk, task, resumes, restarts, failed, rc, littered>>

Verifies == Len(volume[file]) = Len(disk[file])

Verify ==
  /\ at = "verify"
  /\ \/ /\ Verifies
        /\ Settle(TRUE) /\ littered' = littered \ {file}
        /\ UNCHANGED <<share, disk, volume, runs, tool, listing, sized, file, rc, put>>
     \/ \* another length, none reported, or get_metadata raises
        /\ at' = "discard"
        /\ UNCHANGED <<share, disk, volume, task, resumes, restarts, ends>>

\* _discard_remote never raises: deleted, nothing to delete, or still there.
Discard ==
  /\ at = "discard"
  /\ Settle(FALSE)
  /\ \/ Stored(Nothing) /\ littered' = littered \ {file}
     \/ UNCHANGED volume /\ littered' = littered \cup {file}
  /\ UNCHANGED <<share, disk, runs, tool, listing, sized, file, rc, put>>

\* The process is killed: what is on the disk and in the Volume stays.
Killed ==
  /\ at # "idle"
  /\ at' = "idle" /\ resumes' = 0 /\ restarts' = 0
  /\ littered' = IF at \in {"verify", "discard"} THEN littered \cup {file} ELSE littered
  /\ UNCHANGED <<share, disk, volume, task, failed, rc, put>>

Step == PickFile \/ Done \/ Get \/ LocalFails \/ Put \/ Verify \/ Discard

ExtractionNext == Republish \/ Start \/ Step \/ Killed

Spec == ExtractionInit /\ [][ExtractionNext]_vars

\* A started script takes its steps: nothing in it waits for another process,
\* and every request and sleep is bounded by a timeout.
FairSpec == Spec /\ WF_vars(Step)

-----------------------------------------------------------------------------

\* download never builds on bytes it cannot prove: whatever the server answers
\* to a resume, every byte on the disk is the byte of that place.
BytesInPlace == \A f \in File : \A k \in DOMAIN disk[f] : disk[f][k] # Misplaced

InFlight(f) == file = f /\ at \in {"verify", "discard"}

\* No failure leaves a readable half-written object: at rest the Volume holds
\* bytes in place, and for an unzipped file one version of it, unless the
\* cleanup itself failed or the process was killed before it.
NoHalfObjectAtRest ==
  \A f \in File : f \in littered \/ InFlight(f) \/ volume[f] = Nothing \/
    /\ \A k \in DOMAIN volume[f] : volume[f][k] # Misplaced
    /\ f \notin Giants => OfOneVersion(volume[f])

\* The exit code of a run is the state of the Volume: after a 0 each file asked
\* for is there, verified, as downloaded, at the length the listing showed.
ZeroMeansLanded ==
  at = "idle" /\ rc = 0 =>
    \A f \in Asked(tool) :
      /\ volume[f] = disk[f] /\ volume[f] # Nothing /\ f \notin littered
      /\ sized => Len(volume[f]) = Size[listing[f]]

\* A landed object changes only after its run sent something in its place: a
\* run that fails on the local side does not delete what another one landed.
OnlyTheSenderDeletes ==
  [][\A f \in File : volume'[f] # volume[f] => f \in put']_vars

\* Resumes and restarts are finite: no server keeps a run in download for ever.
RunsEnd == at # "idle" ~> at = "idle"
=============================================================================
