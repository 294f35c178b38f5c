------------------------------- MODULE Staging -------------------------------
(***************************************************************************)
(* How a release archive reaches a host: DownloadTask resumes it into      *)
(* <name>.partial and renames it to <name>, LocalExtractTask unpacks it    *)
(* under _extracted/<stem>, and an upload task rsyncs that tree.  The      *)
(* cache directory belongs to the user, not to a cluster: invocations for  *)
(* two clusters hold different mutation locks and may stage one archive at *)
(* the same time, through handles that follow a file when it is renamed.   *)
(*                                                                         *)
(* A byte is <<version, index>>; a version is one publication of the       *)
(* asset under its URL.                                                    *)
(***************************************************************************)
EXTENDS Integers, Sequences

CONSTANTS Procs,          \* invocations, one per cluster
          LenOf,          \* the length of each publication of the asset
          SegmentCounts,  \* path segments of the asset's URL
          RangeSupport,   \* whether the server may, or may not, serve ranges
          OtherLens,      \* lengths of the pages HEAD may be answered with
          MaxAttempts,    \* MAX_DOWNLOAD_ATTEMPTS
          MaxOverlaps,    \* of a URL's segments: bound on starts while another
                          \* invocation is staging
          MaxFaults       \* of the number of such starts: bound on failed requests,
                          \* broken streams, crashes

ASSUME StagingAssumption ==
    /\ LenOf \in Seq(Nat \ {0}) /\ LenOf # <<>>
    /\ SegmentCounts \subseteq Nat
    /\ RangeSupport \subseteq BOOLEAN /\ OtherLens \subseteq Nat \ {0}
    /\ MaxAttempts \in Nat \ {0}
    /\ \A s \in SegmentCounts : MaxOverlaps[s] \in Nat
    /\ \A s \in SegmentCounts : \A o \in 0..MaxOverlaps[s] : MaxFaults[o] \in Nat

Versions == 1..Len(LenOf)
None == 0
Unknown == -1
Hole == <<0, 0>>
Whole(v) == [i \in 1..LenOf[v] |-> <<v, i>>]

VARIABLES
    served,     \* the publication the URL serves
    segments,   \* path segments of the URL
    ranges,     \* the server serves ranges of the asset
    faults,     \* failures so far
    part, save, \* the files <name>.partial and <name>
    tree,       \* the extracted tree, shared like the cache
    pc, run,    \* every invocation's step and locals
    host,       \* what its host holds under the install directory
    overlaps,   \* how often two invocations have been staging at once
    misled      \* history: answers that were not the asset's: HEAD gave
                \* another "length", a body ended "short" without an error, a
                \* 206 had another "range"

stagingVars == <<served, segments, ranges, faults, part, save, tree, pc, run, host, overlaps, misled>>

Absent == [exists |-> FALSE, bytes |-> <<>>]
File(b) == [exists |-> TRUE, bytes |-> b]
Size(f) == Len(f.bytes)
Is(f, v) == f = File(Whole(v))

\* want: the publication expected_digest is of; remoteLen: remote_len, Unknown
\* if HEAD did not say; resume: resume_from; fileLen: file_len, 0 if unknown;
\* sized: the response has a Content-Length; on: the file part_file is open
\* on; v, at: the response body and its next byte; began: the publication
\* served when the invocation started; alone: no other invocation has been
\* staging since then.
Fresh == [want |-> None, remoteLen |-> Unknown, attempt |-> 0, resume |-> 0, fileLen |-> 0,
          sized |-> TRUE, on |-> "none", v |-> None, at |-> 0, began |-> 1, alone |-> TRUE]

Active(p) == pc[p] \notin {"idle", "failed", "done"}

StagingInit ==
    /\ served = 1
    /\ segments \in SegmentCounts
    /\ ranges \in RangeSupport
    /\ faults = 0
    /\ part = Absent /\ save = Absent
    /\ tree = <<>>
    /\ pc = [p \in Procs |-> "idle"]
    /\ run = [p \in Procs |-> Fresh]
    /\ host = [p \in Procs |-> <<>>]
    /\ overlaps = 0
    /\ misled = {}

-----------------------------------------------------------------------------
(* The asset's publisher and the failures of the network and the process.  *)

Republish ==
    /\ served < Len(LenOf)
    /\ served' = served + 1
    /\ UNCHANGED <<segments, ranges, faults, part, save, tree, pc, run, host, overlaps, misled>>

Fault == faults < MaxFaults[overlaps] /\ faults' = faults + 1
NoFault == UNCHANGED faults

Goto(p, l) == pc' = [pc EXCEPT ![p] = l]

\* The invocation dies: its handle closes, the cache stays as it is.
Crash(p) ==
    /\ Active(p)
    /\ Fault
    /\ Goto(p, "failed")
    /\ run' = [run EXCEPT ![p] = Fresh]
    /\ UNCHANGED <<served, segments, ranges, part, save, tree, host, overlaps, misled>>

-----------------------------------------------------------------------------
(* DownloadTask::execute                                                   *)

\* The error returns of the task: the stages behind it are not run.
Fail(p) == Goto(p, "failed") /\ run' = [run EXCEPT ![p] = Fresh]

\* The returns that leave the archive under its name.
Fetched(p, r) == Goto(p, "extract") /\ run' = [r EXCEPT ![p] =
                    [Fresh EXCEPT !.want = run[p].want, !.began = run[p].began, !.alone = run[p].alone]]

\* Another attempt, or the task's error after the last one.
RetryOrFail(p) ==
    IF run[p].attempt < MaxAttempts
    THEN Goto(p, "rehead") /\ run' = [run EXCEPT ![p].on = "none", ![p].v = None, ![p].at = 0]
    ELSE Fail(p)

\* Open handles follow a file to its new name and lose one that is replaced
\* or removed.
Follow(from, to) ==
    [q \in Procs |->
        [run[q] EXCEPT !.on = IF @ = from THEN to ELSE IF @ = to THEN "none" ELSE @]]

\* expected_digest: only a URL of at least eight path segments is looked up,
\* and any failure of the lookup means no digest.
expected_digest(d) ==
    IF segments >= 8
    THEN (d = served /\ NoFault) \/ (d = None /\ Fault)
    ELSE d = None /\ NoFault

Start(p) ==
    /\ pc[p] \in {"idle", "failed"}
    /\ \E d \in Versions \cup {None} :
         /\ expected_digest(d)
         /\ run' = [q \in Procs |->
              IF q = p THEN [Fresh EXCEPT !.want = d, !.began = served,
                                          !.alone = \A o \in Procs \ {p} : ~Active(o)]
              ELSE [run[q] EXCEPT !.alone = @ /\ ~Active(q)]]
    /\ Goto(p, "head")
    /\ IF \E q \in Procs \ {p} : Active(q)
       THEN /\ overlaps < MaxOverlaps[segments] /\ faults <= MaxFaults[overlaps + 1]
            /\ overlaps' = overlaps + 1
       ELSE UNCHANGED overlaps
    /\ UNCHANGED <<served, segments, ranges, part, save, tree, host, misled>>

\* resolve_remote_target: content_length() is the asset's length, 0 where the
\* client measures the empty body of HEAD, or unknown; the status is not looked
\* at, so it may be the length of an error page.
HeadLength(len) ==
    \/ len \in {LenOf[served], 0} /\ NoFault /\ UNCHANGED misled
    \/ len = Unknown /\ Fault /\ UNCHANGED misled
    \/ len \in OtherLens \ {LenOf[served]} /\ Fault /\ misled' = misled \cup {"length"}

\* On a retry a length once known is kept.
Resolve(p) ==
    /\ pc[p] \in {"head", "rehead"}
    /\ \E len \in {LenOf[served], 0, Unknown} \cup OtherLens :
         /\ HeadLength(len)
         /\ run' = [run EXCEPT ![p].remoteLen = IF @ = Unknown THEN len ELSE @,
                               ![p].attempt = @ + 1]
    /\ Goto(p, IF pc[p] = "head" THEN "cached" ELSE "attempt")
    /\ UNCHANGED <<served, segments, ranges, part, save, tree, host, overlaps>>

\* The cached file is good enough to skip the download.
Reusable(r) ==
    /\ save.exists
    /\ IF r.want # None THEN Is(save, r.want)
       ELSE IF r.remoteLen # Unknown THEN Size(save) = r.remoteLen
       ELSE Size(save) > 0

\* A cached file shorter than the remote one becomes the partial file.
Promotes(r) == ~part.exists /\ Size(save) > 0 /\ Size(save) < r.remoteLen

Cached(p) ==
    /\ pc[p] = "cached"
    /\ NoFault
    /\ \/ /\ Reusable(run[p])
          /\ Fetched(p, run)
          /\ UNCHANGED <<part, save>>
       \/ /\ ~Reusable(run[p]) /\ Promotes(run[p])
          /\ part' = save /\ save' = Absent
          /\ run' = Follow("save", "part")
          /\ Goto(p, "attempt")
       \/ /\ ~Reusable(run[p]) /\ ~Promotes(run[p])
          /\ Goto(p, "attempt")
          /\ UNCHANGED <<part, save, run>>
    /\ UNCHANGED <<served, segments, ranges, tree, host, overlaps, misled>>

\* A partial file of the expected length is the download, if its digest
\* agrees; one that is longer, or whose digest disagrees, is removed.
AdoptsByLength(r) == r.remoteLen > 0 /\ Size(part) = r.remoteLen
Adopts(r) == r.remoteLen > 0 /\ Size(part) = r.remoteLen /\ (r.want # None => Is(part, r.want))
DiscardsLonger(r) == r.remoteLen # Unknown /\ Size(part) > r.remoteLen
Discards(r) ==
    \/ r.remoteLen # Unknown /\ Size(part) > r.remoteLen
    \/ r.remoteLen > 0 /\ Size(part) = r.remoteLen /\ ~Adopts(r)

Attempt(p) ==
    /\ pc[p] = "attempt"
    /\ NoFault
    /\ \/ /\ Adopts(run[p])
          /\ save' = part /\ part' = Absent
          /\ Fetched(p, Follow("part", "save"))
       \/ /\ Discards(run[p])
          /\ part' = Absent
          /\ run' = [Follow("part", "none") EXCEPT ![p].resume = 0]
          /\ Goto(p, "get")
          /\ UNCHANGED save
       \/ /\ ~Adopts(run[p]) /\ ~Discards(run[p])
          /\ run' = [run EXCEPT ![p].resume = Size(part)]
          /\ Goto(p, "get")
          /\ UNCHANGED <<part, save>>
    /\ UNCHANGED <<served, segments, ranges, tree, host, overlaps, misled>>

\* No response headers in time is retried, a status that is no success ends
\* the task; a range that starts behind the end is such a status.
GetFails(p) ==
    /\ pc[p] = "get"
    /\ \/ Fault /\ RetryOrFail(p)
       \/ Fault /\ Fail(p)
       \/ ranges /\ run[p].resume >= LenOf[served] /\ NoFault /\ Fail(p)
    /\ UNCHANGED <<served, segments, ranges, part, save, tree, host, overlaps, misled>>

\* A resumed request that is answered with all of the asset instead of 206 is
\* retried with the partial file as it is: what a server without ranges
\* always answers, any other by way of exception.
NotPartial(p) ==
    /\ pc[p] = "get" /\ run[p].resume > 0
    /\ IF ranges THEN Fault ELSE NoFault
    /\ RetryOrFail(p)
    /\ UNCHANGED <<served, segments, ranges, part, save, tree, host, overlaps, misled>>

\* file_len of a 206 and of a 200 response.
OrZero(len) == IF len = Unknown THEN 0 ELSE len
FileLen(r, contentLength) ==
    IF r.resume > 0
    THEN IF r.remoteLen # Unknown THEN r.remoteLen ELSE r.resume + OrZero(contentLength)
    ELSE IF contentLength # Unknown THEN contentLength ELSE OrZero(r.remoteLen)

\* The cache again, once the response tells the length.
DoubleCheck(r, len) ==
    /\ save.exists /\ len > 0
    /\ IF r.want # None THEN Is(save, r.want) ELSE Size(save) = len

\* The first byte the request asks for: the Range header of a resumed one.
RangeStartBefore(r) == IF r.resume > 0 THEN r.resume ELSE 1
RangeStart(r) == r.resume + 1

\* The first byte the response has; a 206 with another Content-Range than the
\* one asked for, or none, is only warned of.
BodyStart(r, at) ==
    \/ at = RangeStart(r) /\ NoFault /\ UNCHANGED misled
    \/ at # RangeStart(r) /\ r.resume > 0 /\ Fault /\ misled' = misled \cup {"range"}

\* A partial file that is resumed is opened for append, any other truncated.
Opened(r) == IF r.resume > 0 /\ part.exists THEN part ELSE File(<<>>)

\* The response, with or without a length; the file is opened before the cache
\* is looked at again.
Get(p) ==
    /\ pc[p] = "get"
    /\ run[p].resume < LenOf[served] /\ (run[p].resume > 0 => ranges)
    /\ \E at \in 1..LenOf[served], sized \in BOOLEAN :
         LET len == FileLen(run[p], IF sized THEN LenOf[served] + 1 - at ELSE Unknown)
         IN  /\ BodyStart(run[p], at)
             /\ IF DoubleCheck(run[p], len) THEN Fetched(p, run)
                ELSE /\ Goto(p, "stream")
                     /\ run' = [run EXCEPT ![p].fileLen = len, ![p].sized = sized, ![p].on = "part",
                                           ![p].v = served, ![p].at = at]
    /\ part' = Opened(run[p])
    /\ UNCHANGED <<served, segments, ranges, save, tree, host, overlaps>>

\* The file after the next byte is written at its end (append) or in place.
Written(f, r) ==
    LET at == IF r.resume > 0 THEN Size(f) + 1 ELSE r.at
    IN  File([i \in 1..(IF at > Size(f) THEN at ELSE Size(f)) |->
                IF i = at THEN <<r.v, r.at>> ELSE IF i <= Size(f) THEN f.bytes[i] ELSE Hole])

Stream(p) ==
    /\ pc[p] = "stream"
    /\ run[p].at <= LenOf[run[p].v]
    /\ NoFault
    /\ part' = IF run[p].on = "part" THEN Written(part, run[p]) ELSE part
    /\ save' = IF run[p].on = "save" THEN Written(save, run[p]) ELSE save
    /\ run' = [run EXCEPT ![p].at = @ + 1]
    /\ UNCHANGED <<served, segments, ranges, tree, pc, host, overlaps, misled>>

\* The stream is over: file_len says whether it is retried or finished.
BodyEnded(p) ==
    IF run[p].fileLen > 0 /\ Size(part) < run[p].fileLen THEN RetryOrFail(p)
    ELSE Goto(p, "finish") /\ run' = [run EXCEPT ![p].on = "none"]

\* A stalled or broken stream is tried again; a failed write to the cache ends
\* the task.  A body without a length may end early like one that is complete.
StreamEnd(p) ==
    /\ pc[p] = "stream"
    /\ \/ Fault /\ RetryOrFail(p) /\ UNCHANGED misled
       \/ Fault /\ Fail(p) /\ UNCHANGED misled
       \/ /\ run[p].at > LenOf[run[p].v]
          /\ NoFault /\ UNCHANGED misled
          /\ BodyEnded(p)
       \/ /\ run[p].at <= LenOf[run[p].v] /\ ~run[p].sized
          /\ Fault /\ misled' = misled \cup {"short"}
          /\ BodyEnded(p)
    /\ UNCHANGED <<served, segments, ranges, part, save, tree, host, overlaps>>

\* Digest, length, rename; a partial file that fails its digest is removed.
DigestOK(r) == r.want # None => Is(part, r.want)
LengthOK(r) == r.fileLen > 0 => Size(part) = r.fileLen

FinishDownload(p) ==
    /\ pc[p] = "finish"
    /\ NoFault
    /\ \/ /\ part.exists /\ DigestOK(run[p]) /\ LengthOK(run[p])
          /\ save' = part /\ part' = Absent
          /\ Fetched(p, Follow("part", "save"))
       \/ /\ ~part.exists \/ (DigestOK(run[p]) /\ ~LengthOK(run[p]))
          /\ Fail(p)
          /\ UNCHANGED <<part, save>>
       \/ /\ part.exists /\ ~DigestOK(run[p])
          /\ part' = Absent
          /\ Goto(p, "failed")
          /\ run' = [Follow("part", "none") EXCEPT ![p] = Fresh]
          /\ UNCHANGED save
    /\ UNCHANGED <<served, segments, ranges, tree, host, overlaps, misled>>

-----------------------------------------------------------------------------
(* LocalExtractTask::execute and UploadTask::execute                       *)

\* The extraction root is removed and made anew before anything is unpacked.
Wipe(p) ==
    /\ pc[p] = "extract"
    /\ NoFault
    /\ IF save.exists THEN Goto(p, "unpack") /\ tree' = <<>> /\ UNCHANGED run
       ELSE Fail(p) /\ UNCHANGED tree
    /\ UNCHANGED <<served, segments, ranges, part, save, host, overlaps, misled>>

\* unpack_archive: decompression may or may not notice a torn archive.
Unpack(p) ==
    /\ pc[p] = "unpack"
    /\ NoFault
    /\ \/ /\ save.exists
          /\ tree' = save.bytes
          /\ Goto(p, "upload")
          /\ UNCHANGED run
       \/ /\ \A v \in Versions : ~Is(save, v)
          /\ Fail(p)
          /\ UNCHANGED tree
    /\ UNCHANGED <<served, segments, ranges, part, save, host, overlaps, misled>>

\* rsync --delete makes the host's directory the tree as it is now.
Upload(p) ==
    /\ pc[p] = "upload"
    /\ \/ NoFault /\ host' = [host EXCEPT ![p] = tree] /\ Goto(p, "done") /\ UNCHANGED run
       \/ Fault /\ Fail(p) /\ UNCHANGED host
    /\ UNCHANGED <<served, segments, ranges, part, save, tree, overlaps, misled>>

-----------------------------------------------------------------------------
Step(p) ==
    \/ Start(p) \/ Resolve(p) \/ Cached(p) \/ Attempt(p) \/ GetFails(p) \/ NotPartial(p) \/ Get(p)
    \/ Stream(p) \/ StreamEnd(p) \/ FinishDownload(p) \/ Wipe(p) \/ Unpack(p) \/ Upload(p)

Finished == \A p \in Procs : pc[p] = "done"
StagingEnded == Finished /\ UNCHANGED stagingVars

StagingNext == Republish \/ StagingEnded \/ \E p \in Procs : Step(p) \/ Crash(p)

\* An operator runs a failed command again; a started one goes on.
StagingSpec == StagingInit /\ [][StagingNext]_stagingVars /\ \A p \in Procs : WF_stagingVars(Step(p))

-----------------------------------------------------------------------------
(* Properties                                                              *)

Bytes == (0..Len(LenOf)) \X Nat
Files == [exists : BOOLEAN, bytes : Seq(Bytes)]
Runs == [want : Versions \cup {None}, remoteLen : Nat \cup {Unknown}, attempt : 0..MaxAttempts,
         resume : Nat, fileLen : Nat, sized : BOOLEAN, on : {"none", "part", "save"},
         v : Versions \cup {None}, at : Nat, began : Versions, alone : BOOLEAN]

StagingTypeOK ==
    /\ served \in Versions /\ segments \in SegmentCounts /\ ranges \in RangeSupport
    /\ faults \in Nat /\ overlaps \in Nat
    /\ misled \subseteq {"length", "short", "range"}
    /\ part \in Files /\ save \in Files /\ tree \in Seq(Bytes)
    /\ pc \in [Procs -> {"idle", "head", "cached", "attempt", "rehead", "get", "stream", "finish",
                         "extract", "unpack", "upload", "failed", "done"}]
    /\ run \in [Procs -> Runs]
    /\ host \in [Procs -> Seq(Bytes)]

\* A deploy whose staging succeeded has put a whole archive on its host, the
\* only one there has been or the one whose digest it holds, after any number
\* of broken streams, resumed and crashed invocations.  Without a digest, which
\* is what a release URL of six path segments gets, this holds while no two
\* runs have overlapped, nothing was republished and the server has told the
\* truth: no length of another page in HEAD, no body without a length that
\* ends early, no 206 with another range.  With one it holds of a run that was
\* alone, whatever the server said and earlier runs left in the cache.
DoneMeansGenuine ==
    \A p \in Procs : pc[p] = "done" /\ run[p].alone =>
        /\ overlaps = 0 /\ served = 1 /\ misled = {} => host[p] = Whole(1)
        /\ run[p].want # None => host[p] = Whole(run[p].want)

\* The name the rest of the program reads, <name> without .partial, is never
\* a torn file while one invocation at a time downloads one publication from
\* a server that tells the truth: no crash, broken stream or failed check lets
\* the rename run early.  A body that ends early without an error is caught
\* only if HEAD or GET gave a length; where neither did, the torn file gets
\* the name, which misled excludes along with another page's length and range.
CacheNeverTorn == overlaps = 0 /\ served = 1 /\ misled = {} /\ save.exists => Is(save, 1)

\* Staging that is retried after its failures ends well once the network
\* does and HEAD says a length: no partial or cached file makes every later
\* invocation fail, unless runs overlap, a body ended early without an error, a
\* 206 had another range or, without a digest, the asset was republished.  A
\* server without ranges never completes a partial file: there it ends well if
\* nothing fails and nothing is republished.
RetriesEndWell ==
    <>(\/ Finished \/ overlaps > 0 \/ misled \cap {"short", "range"} # {}
       \/ segments < 8 /\ served > 1
       \/ ~ranges /\ (faults > 0 \/ served > 1))

\* doc/idempotency.md: commands are safe to retry after partial failures, and
\* a retry converges toward the requested state: an invocation that is repeated
\* stages the one publication there is.
RetryConverges == <>(Finished \/ overlaps > 0 \/ served > 1 \/ misled # {})

\* doc/upgrade.md: an EloqKV tarball on GitHub is validated with the asset's
\* digest, so that one republished under the same tag is refreshed: what an
\* invocation started since then hands to the extraction is the new asset.
RepublishedRefreshed ==
    \A p \in Procs : pc[p] = "extract" /\ run[p].began = served => Is(save, served)
=============================================================================
