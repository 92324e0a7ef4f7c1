----------------------------- MODULE ArtifactFetch -----------------------------
(***************************************************************************)
(* How an installation comes by verified archive bytes: the cache entry    *)
(* named by the digest, the download into a private temporary file, the    *)
(* verification through one open file, the opportunistic copy into the     *)
(* cache and the release after extraction.                                 *)
(*                                                                         *)
(* A fetch runs under the exclusive lock, so there is one at a time. The   *)
(* cache directory also belongs to the user, who may empty or replace its  *)
(* entry between any two steps. Files are known by their identity; a name  *)
(* leads to a file, to a directory or nowhere.                             *)
(***************************************************************************)
EXTENDS Naturals, FiniteSets

CONSTANTS
  File,       \* identities of files
  Missing,    \* what a name leads to when nothing is there
  Directory   \* what a name leads to when a directory is there

ASSUME FileAssumption ==
  /\ Missing \notin File /\ Directory \notin File /\ Missing # Directory

VARIABLES
  name,      \* what the cache entry and the names of this fetch lead to
  bytes,     \* the content of each file
  handle,    \* the VerifiedArtifact: its open file, whether it is disposable
  pc,        \* the step package_cache_fetch_artifact and its caller take next
  result,    \* how the last fetch ended
  consumed,  \* the bytes extraction read
  cause,     \* what went wrong outside the cache
  tidy       \* no removal of a temporary file failed and cup was not killed

vars == <<name, bytes, handle, pc, result, consumed, cause, tidy>>

(***************************************************************************)
(* Files and names.                                                        *)
(***************************************************************************)
\* The cache entry, the artifact and the transfer in staging/, and the
\* sibling that a copy into the cache is written to.
Names == {"cache", "artifact", "download", "copy"}

\* "good" is what the catalog digest stands for, "partial" an unfinished
\* file, "huge" one beyond MAX_PACKAGE_DOWNLOAD_BYTES.
Bytes == {"good", "bad", "empty", "huge", "partial"}

NoHandle == [file |-> Missing, disposable |-> FALSE]

Open(f, d) == [file |-> f, disposable |-> d]

\* The outcomes of verified_artifact_open for a regular file.
Valid(f) == bytes[f] = "good"

\* A name or an open file keeps the identity of a file from being used again;
\* an identity that is only remembered does not.
OpenFile == IF pc = "check" THEN Missing ELSE handle.file
InUse    == {name[n] : n \in Names} \cup {OpenFile}
Fresh(f) == f \in File \ InUse

Leads(n, to)  == [name EXCEPT ![n] = to]
Moved(n, to)  == [name EXCEPT ![to] = name[n], ![n] = Missing]
Written(f, b) == [bytes EXCEPT ![f] = b]
Temporaries   == Names \ {"cache"}

\* system_remove_file and remove_disposable_path: what could not be removed
\* stays behind.
Remove(n) ==
  \/ name' = Leads(n, Missing) /\ UNCHANGED tidy
  \/ name[n] # Missing /\ tidy' = FALSE /\ UNCHANGED name

Go(step) == pc' = step /\ UNCHANGED result
End(r)   == pc' = "idle" /\ result' = r

-------------------------------------------------------------------------------
Init ==
  /\ name = [n \in Names |-> Missing]
  /\ bytes = [f \in File |-> "bad"]
  /\ handle = NoHandle
  /\ pc = "idle" /\ result = "none"
  /\ consumed = "none"
  /\ cause = {}
  /\ tidy = TRUE

\* Temporary names are new in every fetch; what an earlier one left is no
\* longer of interest.
Start ==
  /\ pc = "idle"
  /\ pc' = "inspect" /\ result' = "none"
  /\ name' = [n \in Names |-> IF n = "cache" THEN name[n] ELSE Missing]
  /\ handle' = NoHandle /\ consumed' = "none" /\ cause' = {} /\ tidy' = TRUE
  /\ UNCHANGED bytes

(***************************************************************************)
(* The cache. Nothing that is wrong with it fails the fetch.               *)
(***************************************************************************)
CacheFatal    == End("failed")
CacheUnusable == Go("name")

InspectCache ==
  /\ pc = "inspect"
  /\ \/ CacheUnusable
     \/ name["cache"] = Missing   /\ Go("name")
     \/ name["cache"] = Directory /\ Go("discard path")
     \/ name["cache"] \in File    /\ Go("open")
  /\ UNCHANGED <<name, bytes, handle, consumed, cause, tidy>>

OpenCache ==
  /\ pc = "open"
  /\ \/ CacheUnusable /\ UNCHANGED handle
     \/ /\ name["cache"] \in File
        /\ handle' = Open(name["cache"], FALSE)
        /\ Go("digest")
  /\ UNCHANGED <<name, bytes, consumed, cause, tidy>>

DigestCache ==
  /\ pc = "digest"
  /\ \/ CacheUnusable /\ handle' = NoHandle
     \/ Valid(handle.file) /\ Go("fetched") /\ UNCHANGED handle
     \/ ~Valid(handle.file) /\ Go("discard") /\ UNCHANGED handle
  /\ UNCHANGED <<name, bytes, consumed, cause, tidy>>

\* verified_artifact_discard closes the rejected file and keeps its identity.
CloseRejected ==
  /\ pc = "discard"
  /\ \/ Go("check") /\ UNCHANGED handle
     \/ Go("name") /\ handle' = NoHandle
  /\ UNCHANGED <<name, bytes, consumed, cause, tidy>>

\* remove_file_common: the name is unlinked if it still leads to that identity
\* when it is looked at the last time.
SameIdentity(n) == name[n] = handle.file

CheckRejected ==
  /\ pc = "check"
  /\ \/ SameIdentity("cache") /\ Go("unlink")
     \/ Go("name")
  /\ handle' = NoHandle
  /\ UNCHANGED <<name, bytes, consumed, cause, tidy>>

\* discard_rejected_cache of an entry that was no regular file when it was
\* inspected: whatever regular file has the name now.
DiscardPath ==
  /\ pc = "discard path"
  /\ \/ name["cache"] \in File /\ Go("unlink")
     \/ Go("name")
  /\ UNCHANGED <<name, bytes, handle, consumed, cause, tidy>>

\* unlinkat knows only the name, and fails for a directory.
UnlinkCache ==
  /\ pc = "unlink"
  /\ \/ name["cache"] \in File /\ name' = Leads("cache", Missing)
     \/ UNCHANGED name
  /\ Go("name")
  /\ UNCHANGED <<bytes, handle, consumed, cause, tidy>>

(***************************************************************************)
(* The download.                                                           *)
(***************************************************************************)
\* system_make_unique_temp_path, TLS and libcurl, then the exclusive
\* temporary file beside the artifact's name. The file that reserved that
\* name for a moment may fail to go.
MakeDownload ==
  /\ pc = "name"
  /\ \/ /\ cause' = cause \cup {"filesystem"}
        /\ End("failed")
        /\ UNCHANGED bytes
        /\ \/ UNCHANGED <<name, tidy>>
           \/ \E f \in File : Fresh(f) /\ name' = Leads("artifact", f) /\ tidy' = FALSE
     \/ \E f \in File :
          /\ Fresh(f)
          /\ name' = Leads("download", f)
          /\ bytes' = Written(f, "partial")
          /\ Go("transfer")
          /\ UNCHANGED <<cause, tidy>>
  /\ UNCHANGED <<handle, consumed>>

\* A transfer ends with HTTP 200 and what the server sent, or is classified:
\* interrupt, too large, not written, timeout, TLS or HTTP failure.
Transfer ==
  /\ pc = "transfer"
  /\ \/ \E b \in Bytes \ {"partial"} :
          /\ bytes' = Written(name["download"], b)
          /\ cause' = IF b = "good" THEN cause ELSE cause \cup {"server"}
          /\ Go("save")
          /\ UNCHANGED <<name, tidy>>
     \/ \E why \in {"interrupt", "too large", "filesystem", "network"} :
          /\ cause' = cause \cup {why}
          /\ Remove("download")
          /\ End("failed")
          /\ UNCHANGED bytes
  /\ UNCHANGED <<handle, consumed>>

\* Synchronised, not empty and not interrupted.
SaveDownload ==
  /\ pc = "save"
  /\ \/ /\ bytes[name["download"]] # "empty"
        /\ Go("commit")
        /\ UNCHANGED <<name, cause, tidy>>
     \/ \E why \in {"interrupt", "filesystem"} :
          /\ cause' = cause \cup {why}
          /\ Remove("download")
          /\ End("failed")
     \/ /\ bytes[name["download"]] = "empty"
        /\ Remove("download")
        /\ End("failed")
        /\ UNCHANGED cause
  /\ UNCHANGED <<bytes, handle, consumed>>

\* commit_download. A replacement that is visible but unconfirmed is an
\* error too; then the artifact's name is what has to go.
CommitDownload ==
  /\ pc = "commit"
  /\ \/ /\ name' = Moved("download", "artifact")
        /\ \/ Go("verify") /\ UNCHANGED cause
           \/ Go("unconfirmed") /\ cause' = cause \cup {"filesystem"}
        /\ UNCHANGED tidy
     \/ /\ cause' = cause \cup {"filesystem"}
        /\ Remove("download")
        /\ End("failed")
  /\ UNCHANGED <<bytes, handle, consumed>>

KeepUnconfirmed ==
  /\ pc = "unconfirmed"
  /\ End("failed")
  /\ UNCHANGED <<name, tidy, bytes, handle, consumed, cause>>

RemoveUnconfirmed ==
  /\ pc = "unconfirmed"
  /\ Remove("artifact")
  /\ End("failed")
  /\ UNCHANGED <<bytes, handle, consumed, cause>>

VerifyDownload ==
  /\ pc = "verify"
  /\ \/ /\ Valid(name["artifact"])
        /\ handle' = Open(name["artifact"], TRUE)
        /\ Go("publish")
        /\ UNCHANGED <<name, cause, tidy>>
     \/ /\ \/ ~Valid(name["artifact"]) /\ UNCHANGED cause
           \/ cause' = cause \cup {"filesystem"}
        /\ Remove("artifact")
        /\ End("failed")
        /\ UNCHANGED handle
  /\ UNCHANGED <<bytes, consumed>>

(***************************************************************************)
(* publish_cache_best_effort: layout_ensure_cache and system_copy_file.    *)
(***************************************************************************)
DirectTarget == "cache"
CopyTarget   == "copy"

PublishCache ==
  /\ pc = "publish"
  /\ \/ Go("fetched") /\ UNCHANGED <<name, bytes>>
     \/ \E f \in File :
          /\ Fresh(f)
          /\ name' = Leads(CopyTarget, f)
          /\ bytes' = Written(f, "partial")
          /\ Go("copy")
  /\ UNCHANGED <<handle, consumed, cause, tidy>>

CopyBytes ==
  /\ pc = "copy"
  /\ \/ /\ bytes' = IF name[CopyTarget] \in File
                    THEN Written(name[CopyTarget], bytes[name["artifact"]]) ELSE bytes
        /\ Go("replace")
        /\ UNCHANGED <<name, tidy>>
     \/ /\ Remove(CopyTarget)
        /\ Go("fetched")
        /\ UNCHANGED bytes
  /\ UNCHANGED <<handle, consumed, cause>>

\* A directory in the way makes the rename fail; an unconfirmed rename is
\* only reported.
ReplaceCache ==
  /\ pc = "replace"
  /\ \/ /\ name["cache"] # Directory
        /\ name' = Moved("copy", "cache")
        /\ UNCHANGED tidy
     \/ Remove("copy")
  /\ Go("fetched")
  /\ UNCHANGED <<bytes, handle, consumed, cause>>

(***************************************************************************)
(* extract_install_package: use and release.                               *)
(***************************************************************************)
\* The archive reader is given the open file, never the name again.
SourceByName == IF ~handle.disposable /\ name["cache"] \in File
                THEN name["cache"] ELSE handle.file
Source       == handle.file

ExtractArtifact ==
  /\ pc = "fetched"
  /\ \/ /\ consumed' = bytes[Source]
        /\ \/ Go("release") /\ UNCHANGED cause
           \/ Go("release failed") /\ cause' = cause \cup {"admission"}
     \/ /\ cause' = cause \cup {"interrupt"}
        /\ Go("release failed")
        /\ UNCHANGED consumed
  /\ UNCHANGED <<name, bytes, handle, tidy>>

\* release_install_artifact: a disposable artifact is discarded, and a
\* failure to do so fails the installation.
Release ==
  /\ pc \in {"release", "release failed"}
  /\ IF handle.disposable THEN Remove("artifact") ELSE UNCHANGED <<name, tidy>>
  /\ LET kept == handle.disposable /\ name'["artifact"] # Missing
     IN  /\ cause' = IF kept THEN cause \cup {"filesystem"} ELSE cause
         /\ End(IF pc = "release" /\ ~kept THEN "ok" ELSE "failed")
  /\ handle' = NoHandle
  /\ UNCHANGED <<bytes, consumed>>

Crash ==
  /\ pc # "idle"
  /\ handle' = NoHandle /\ tidy' = FALSE
  /\ End("killed")
  /\ UNCHANGED <<name, bytes, consumed, cause>>

(***************************************************************************)
(* What happens to the cache entry from outside: it is removed or replaced *)
(* at any time, or damaged in place while no fetch holds it open.          *)
(***************************************************************************)
Outside ==
  /\ \/ /\ name' = [name EXCEPT !["cache"] = Missing]
        /\ name["cache"] # Missing
        /\ UNCHANGED bytes
     \/ /\ name["cache"] # Directory
        /\ name' = Leads("cache", Directory)
        /\ UNCHANGED bytes
     \/ \E f \in File, b \in Bytes \ {"partial"} :
          /\ Fresh(f)
          /\ name' = Leads("cache", f)
          /\ bytes' = Written(f, b)
     \/ /\ name["cache"] \in File \ {OpenFile}
        /\ bytes' = Written(name["cache"], "bad")
        /\ UNCHANGED name
  /\ UNCHANGED <<handle, pc, result, consumed, cause, tidy>>

Fetch ==
  \/ Start
  \/ InspectCache \/ OpenCache \/ DigestCache
  \/ CloseRejected \/ CheckRejected \/ DiscardPath \/ UnlinkCache
  \/ MakeDownload \/ Transfer \/ SaveDownload \/ CommitDownload \/ RemoveUnconfirmed
  \/ VerifyDownload
  \/ PublishCache \/ CopyBytes \/ ReplaceCache
  \/ ExtractArtifact \/ Release

Next == Fetch \/ Crash \/ Outside

Spec == Init /\ [][Next]_vars

-------------------------------------------------------------------------------
Steps ==
  {"idle", "inspect", "open", "digest", "discard", "check", "discard path", "unlink", "name",
   "transfer", "save", "commit", "unconfirmed", "verify", "publish", "copy", "replace", "fetched",
   "release", "release failed"}

Causes == {"filesystem", "server", "interrupt", "too large", "network", "admission"}

TypeOK ==
  /\ name \in [Names -> File \cup {Missing, Directory}]
  /\ \A n \in Temporaries : name[n] # Directory
  /\ \A m, n \in Names : m # n /\ name[m] \in File => name[m] # name[n]
  /\ bytes \in [File -> Bytes]
  /\ handle \in [file : File \cup {Missing}, disposable : BOOLEAN]
  /\ pc \in Steps
  /\ result \in {"none", "ok", "failed", "killed"}
  /\ consumed \in Bytes \cup {"none"}
  /\ cause \subseteq Causes
  /\ tidy \in BOOLEAN

\* Extraction reads only bytes with the digest of the catalog, whatever the
\* server sent, an earlier crash left in the cache, or anyone put there
\* after the verification.
ConsumesVerified == consumed \in {"none", "good"}

\* No state of the cache and no failure to use it fails an installation.
CacheNeverFatal == result = "failed" => cause # {}

\* Unless cup was killed or could not remove a file, an ended fetch leaves
\* no temporary file, on none of its error paths.
NothingLeft == pc = "idle" /\ tidy => \A n \in Temporaries : name[n] = Missing

\* The cache entry is never an unfinished copy, also after a crash.
CacheNeverPartial == name["cache"] \in File => bytes[name["cache"]] # "partial"

\* docs/design/SECURITY.md, filesystem identity and mutation: a different object
\* that appears under the same pathname is not accepted. Whatever leaves the
\* cache's name during a discard would then be an entry that was refused.
\* DiscardPath does not compare identities and UnlinkCache only knows the name:
\* a replacement from outside goes too, and TLC refutes it.
DiscardsRejectedOnly ==
  [][pc = "unlink" /\ pc' = "name" /\ name["cache"] \in File /\ name'["cache"] = Missing
       => ~Valid(name["cache"])]_vars

===============================================================================
