--------------------------- MODULE PackageAdmission ---------------------------
(***************************************************************************)
(* From verified archive bytes to an admitted package tree: extraction     *)
(* into a fresh staging directory, validation of info.txt and its          *)
(* commands, and verification of the whole tree against manifest.txt.      *)
(*                                                                         *)
(* The digest says who made the archive, not that it is well formed, so    *)
(* the archive and the manifest are any sequences of entries and lines.    *)
(* Paths are sequences of segments below the package root.                 *)
(***************************************************************************)
EXTENDS Naturals, Sequences, FiniteSets, FiniteSetsExt

CONSTANTS
  Segment,      \* names of path segments
  Lower,        \* a segment folded to lower case
  Path,         \* relative paths of manifest lines
  Entry,        \* the entries archives are made of
  Position,     \* the position of a path in the byte order of the manifest
  Info, Manifest,  \* info.txt and manifest.txt
  Host,         \* kinds of host: how names compare, links, the umask in force
  MaxEntries,   \* MAX_PACKAGE_ARCHIVE_ENTRIES
  MaxBytes,     \* MAX_PACKAGE_EXTRACTED_BYTES
  MaxTable,     \* MAX_PACKAGE_PATH_TABLE_BYTES, in paths
  MaxArchive,   \* bound: entries of an archive, its root not counted
  CommandSets   \* the sets of entry.* paths info.txt may declare

ASSUME PathAssumption ==
  /\ Lower \in [Segment -> Segment]
  /\ ".." \notin Segment
  /\ Path \subseteq Seq(Segment)
  /\ <<>> \notin Path
  /\ {Info, Manifest} \subseteq Path
  /\ CommandSets \subseteq SUBSET Path

ASSUME OrderAssumption ==
  /\ Position \in [Path -> Nat]
  /\ \A p, q \in Path : Position[p] = Position[q] => p = q

\* The target of a link is a sequence of segments and "..", <<>> elsewhere;
\* size is the declared size and bytes what the data blocks really hold.
ASSUME EntryAssumption ==
  \A e \in Entry :
    /\ DOMAIN e = {"path", "type", "exec", "target", "size", "bytes"}
    /\ e.path \in Path /\ e.type \in {"dir", "file", "link"} /\ e.exec \in BOOLEAN
    /\ e.target \in Seq(Segment \cup {".."})
    /\ e.size \in Nat /\ e.bytes \in Nat
    /\ e.type # "file" => e.size = 0
    /\ e.type # "link" => e.target = <<>>

ASSUME LimitAssumption ==
  MaxEntries \in Nat /\ MaxBytes \in Nat /\ MaxTable \in Nat /\ MaxArchive \in Nat

ASSUME HostAssumption ==
  Host \subseteq [folds : BOOLEAN, links : BOOLEAN, umask : {"0755", "0700"}]

VARIABLES
  host,      \* the host cup runs on
  phase,     \* what package_install is doing with the artifact
  result,    \* how it ended
  rootSeen,  \* root_entry_seen: the archive listed its top-level directory
  entries,   \* the entries registered so far: path and type
  table,     \* the folded path table
  declared,  \* declared_total, bytes
  disk,      \* the objects below the staging directory
  commands,  \* the entry.* paths of info.txt
  lines      \* the paths of the manifest lines verified so far

archive == <<rootSeen, entries, table, declared, disk>>
vars    == <<host, phase, result, archive, commands, lines>>

(***************************************************************************)
(* Names.                                                                  *)
(***************************************************************************)
Types == {"dir", "file", "link"}

Fold(p) == [i \in 1..Len(p) |-> Lower[p[i]]]

\* The proper prefixes of a path: its parent directories.
Above(p) == {SubSeq(p, 1, n) : n \in 1..(Len(p) - 1)}

Parent(p) == SubSeq(p, 1, Len(p) - 1)

\* The objects on disk that a path names, links not followed.
Named(p) == {q \in DOMAIN disk : IF host.folds THEN Fold(q) = Fold(p) ELSE q = p}

TheOne(S) == CHOOSE x \in S : TRUE

(***************************************************************************)
(* Resolution of a path by the system (realpath): where it leads, or why   *)
(* it leads nowhere.                                                       *)
(***************************************************************************)
\* A resolution under way: the links it may still follow, the directory it has
\* reached, and the segments to go.
Walks == [links : Nat, at : Seq(Segment), todo : Seq(Segment \cup {".."})]

\* The object the next segment names.
Reached(w) == TheOne(Named(Append(w.at, Head(w.todo))))

\* How the resolution ends here, if it does.
Verdict(w) ==
  IF w.todo = <<>> THEN "at"
  ELSE IF Head(w.todo) = ".." THEN IF w.at = <<>> THEN "outside" ELSE "more"
  ELSE IF Named(Append(w.at, Head(w.todo))) = {} THEN "missing"
  ELSE IF disk[Reached(w)].type = "link" THEN IF w.links = 0 THEN "loop" ELSE "more"
  ELSE IF disk[Reached(w)].type = "file" /\ Tail(w.todo) # <<>> THEN "missing"
  ELSE "more"

\* One segment further, or the target of a link in its place.
Further(w) ==
  IF Head(w.todo) = ".." THEN [w EXCEPT !.at = Parent(@), !.todo = Tail(@)]
  ELSE IF disk[Reached(w)].type = "link"
       THEN [w EXCEPT !.links = @ - 1, !.todo = disk[Reached(w)].target \o Tail(@)]
       ELSE [w EXCEPT !.at = Reached(w), !.todo = Tail(@)]

Walk ==
  LET W[w \in Walks] ==
        IF Verdict(w) = "more" THEN W[Further(w)]
        ELSE [status |-> Verdict(w), path |-> IF Verdict(w) = "at" THEN w.at ELSE <<>>]
  IN  W

RealPath(p) == Walk[[links |-> Cardinality(DOMAIN disk), at |-> <<>>, todo |-> p]]

\* The object of a path as lstat sees it: only the last segment is not
\* followed.
PathObject(p) ==
  LET parent == RealPath(Parent(p))
  IN  IF parent.status = "at" THEN Named(Append(parent.path, p[Len(p)])) ELSE {}

\* system_open_regular_file: no segment is followed.
RegularFile(p) == {q \in Named(p) : disk[q].type = "file"}

\* system_open_regular_file_beneath: the file a path leads to, if it is a
\* regular file inside the package.
FileBeneath(p) ==
  LET r == RealPath(p)
  IN  IF r.status = "at" THEN {q \in Named(r.path) : disk[q].type = "file"} ELSE {}

(***************************************************************************)
(* The folded path table.                                                  *)
(***************************************************************************)
CollidesAlways(k, type)   == k \in DOMAIN table
CollidesExplicit(k, type) == k \in DOMAIN table /\ table[k] # "ancestor"
Collides(k, type) == k \in DOMAIN table /\ ~(table[k] = "ancestor" /\ type = "dir")

BelowNonDirectory(k) ==
  \E a \in Above(k) \cap DOMAIN table : table[a] \in {"file", "link"}

Registered(k, type) ==
  [x \in DOMAIN table \cup Above(k) \cup {k} |->
     IF x = k THEN type ELSE IF x \in DOMAIN table THEN table[x] ELSE "ancestor"]

CanRegister(p, type) ==
  /\ ~Collides(Fold(p), type)
  /\ ~BelowNonDirectory(Fold(p))

\* path_table_register, with the limit path_table_add enforces.
PathTableRegister(p, type) ==
  /\ CanRegister(p, type)
  /\ Cardinality(DOMAIN Registered(Fold(p), type)) <= MaxTable

(***************************************************************************)
(* Checks on one entry.                                                    *)
(***************************************************************************)
\* A target stays lexically inside the package: no prefix climbs more than
\* it has descended.
ValidateSymlinkTarget(p, target) ==
  LET c == Parent(p) \o target
      Ups(n) == {i \in 1..n : c[i] = ".."}
  IN  \A n \in 1..Len(c) : 2 * Cardinality(Ups(n)) <= n

ValidateEntryType(e) == e.type = "link" => host.links

ValidateOneSize(e)   == e.size <= MaxBytes
ValidateEntrySize(e) == e.size <= MaxBytes - declared

\* No block reaches past the declared size. The budget on written bytes
\* checked with it cannot be exceeded once the declared sizes fit.
CopyEntryData(e) == e.bytes <= e.size

\* normalize_entry_metadata, and what the disk writer makes of an entry.
Object(e) ==
  [type   |-> e.type,
   mode   |-> CASE e.type = "dir" -> "0755" [] e.type = "link" -> "-"
                [] OTHER -> IF e.exec THEN "0755" ELSE "0644",
   size   |-> e.size,
   target |-> e.target]

ImplicitDirectory == [type |-> "dir", mode |-> host.umask, size |-> 0, target |-> <<>>]

\* ARCHIVE_EXTRACT_NO_OVERWRITE leaves an existing object alone; missing
\* parents are created with the umask of the process.
WriteHeader(p, object) ==
  LET new == {q \in Above(p) \cup {p} : Named(q) = {}}
  IN  [q \in DOMAIN disk \cup new |->
         IF q \in DOMAIN disk THEN disk[q]
         ELSE IF q = p THEN object ELSE ImplicitDirectory]

EntryCount == Cardinality(entries) + (IF rootSeen THEN 1 ELSE 0)

-------------------------------------------------------------------------------
Init ==
  /\ host \in Host
  /\ phase = "extract" /\ result = "none"
  /\ rootSeen = FALSE
  /\ entries = {}
  /\ table = <<>>
  /\ declared = 0
  /\ disk = <<>>
  /\ commands = {}
  /\ lines = {}

\* The operation fails: the path table is freed with the readers and
\* rollback_install removes the staging directory.
Fail(r) ==
  /\ phase' = "done" /\ result' = r
  /\ rootSeen' = FALSE /\ entries' = {} /\ table' = <<>> /\ declared' = 0 /\ disk' = <<>>
  /\ commands' = {} /\ lines' = {}
  /\ UNCHANGED host

(***************************************************************************)
(* Extraction, one header at a time.                                       *)
(***************************************************************************)
\* The first header shows that the bytes are not of the declared format.
WrongFormat == phase = "extract" /\ EntryCount = 0 /\ Fail("refused")

TooManyEntries == phase = "extract" /\ EntryCount = MaxEntries /\ Fail("refused")

\* A path outside the grammar, another top-level root, a hard link or a
\* special object, a root that is no directory or is listed again.
UnsafeEntry == phase = "extract" /\ EntryCount < MaxEntries /\ Fail("refused")

RootEntry ==
  /\ phase = "extract" /\ EntryCount < MaxEntries
  /\ ~rootSeen
  /\ rootSeen' = TRUE
  /\ UNCHANGED <<host, phase, result, entries, table, declared, disk, commands, lines>>

EntryAccepted(e) ==
  /\ ValidateEntryType(e)
  /\ e.type = "link" => ValidateSymlinkTarget(e.path, e.target)
  /\ ValidateEntrySize(e)
  /\ PathTableRegister(e.path, e.type)
  /\ CopyEntryData(e)

ExtractEntry(e) ==
  /\ phase = "extract" /\ EntryCount < MaxEntries /\ Cardinality(entries) < MaxArchive
  /\ \/ /\ EntryAccepted(e)
        /\ entries' = entries \cup {[path |-> e.path, type |-> e.type]}
        /\ table' = Registered(Fold(e.path), e.type)
        /\ declared' = declared + e.size
        /\ disk' = WriteHeader(e.path, Object(e))
        /\ UNCHANGED <<host, phase, result, rootSeen, commands, lines>>
     \/ /\ ~EntryAccepted(e)
        /\ Fail("refused")

EndOfArchive ==
  /\ phase = "extract"
  /\ \/ entries = {} /\ Fail("refused")
     \/ /\ entries # {}
        /\ phase' = "metadata"
        /\ table' = <<>>
        /\ UNCHANGED <<host, result, rootSeen, entries, declared, disk, commands, lines>>

(***************************************************************************)
(* info.txt: identity and commands.                                        *)
(***************************************************************************)
ValidateCommandFile(p) ==
  \E q \in FileBeneath(p) : disk[q].size > 0 /\ disk[q].mode = "0755"

RegularNonempty(p) == \E q \in RegularFile(p) : disk[q].size > 0

\* package_metadata_load: safe keys and values, none listed twice.
LoadMetadata(wellFormed) ==
  /\ phase = "metadata"
  /\ IF RegularNonempty(Info) /\ wellFormed
     THEN /\ phase' = "identity"
          /\ UNCHANGED <<host, result, archive, commands, lines>>
     ELSE Fail("refused")

\* Identity, source version and revision reason are those of the package
\* that was asked for.
MatchIdentity(matches) ==
  /\ phase = "identity"
  /\ IF matches
     THEN /\ phase' = "commands"
          /\ UNCHANGED <<host, result, archive, commands, lines>>
     ELSE Fail("refused")

ValidateCommands(cmds) ==
  /\ phase = "commands"
  /\ IF cmds # {} /\ \A p \in cmds : ValidateCommandFile(p)
     THEN /\ commands' = cmds
          /\ phase' = "open manifest"
          /\ UNCHANGED <<host, result, archive, lines>>
     ELSE Fail("refused")

(***************************************************************************)
(* manifest.txt, one line at a time.                                       *)
(***************************************************************************)
OpenManifest ==
  /\ phase = "open manifest"
  /\ \/ /\ RegularNonempty(Manifest)
        /\ phase' = "manifest"
        /\ UNCHANGED <<host, result, archive, commands, lines>>
     \/ Fail("refused")   \* missing, empty or not format=2

Sorted(p) == \A q \in lines : Position[q] < Position[p]

\* Under no spelling of its name does the manifest hold the digest of its own
\* bytes.
VerifyFile(p, mode) ==
  /\ mode \in {"0644", "0755"}
  /\ \E q \in RegularFile(p) \ Named(Manifest) : disk[q].mode = mode

\* A windows directory has no mode to compare.
VerifyDirectory(o, mode) ==
  o.type = "dir" /\ mode = "0755" /\ (host.links => o.mode = "0755")

VerifyLink(p, o, mode) ==
  host.links /\ o.type = "link" /\ mode = "-" /\ FileBeneath(p) # {}

VerifyManifestEntry(p, type, mode, digest) ==
  /\ p # Manifest
  /\ \E q \in PathObject(p) :
       \/ type = "file" /\ VerifyFile(p, mode) /\ digest
       \/ type = "dir" /\ VerifyDirectory(disk[q], mode)
       \/ type = "link" /\ VerifyLink(p, disk[q], mode) /\ digest

ManifestLine(p, type, mode, digest) ==
  /\ phase = "manifest"
  /\ IF /\ Cardinality(lines) < MaxEntries
        /\ Sorted(p)
        /\ VerifyManifestEntry(p, type, mode, digest)
     THEN /\ lines' = lines \cup {p}
          /\ UNCHANGED <<host, phase, result, archive, commands>>
     ELSE Fail("refused")

NoKeyCollides   == FALSE
PathKeysCollide == \E p, q \in lines : p # q /\ Fold(p) = Fold(q)

\* The listed name that path_equal takes for the manifest's: without case on
\* windows, exactly on posix.
ManifestObject ==
  {q \in DOMAIN disk : IF host.links THEN q = Manifest ELSE Fold(q) = Fold(Manifest)}

\* Every object below the root except the manifest itself.
CountPackageFiles == Cardinality({q \in DOMAIN disk \ ManifestObject : disk[q].type # "dir"})
CountPackageTree == Cardinality(DOMAIN disk \ ManifestObject)

EndOfManifest ==
  /\ phase = "manifest"
  /\ IF ~PathKeysCollide /\ lines # {} /\ CountPackageTree = Cardinality(lines)
     THEN /\ phase' = "done" /\ result' = "admitted"
          /\ UNCHANGED <<host, archive, commands, lines>>
     ELSE Fail("refused")

\* An interrupt is polled before every header, block and line; reads and
\* writes may fail.
Abandon == phase # "done" /\ \E r \in {"interrupt", "error"} : Fail(r)

Extract ==
  \/ WrongFormat \/ TooManyEntries \/ UnsafeEntry \/ RootEntry \/ EndOfArchive
  \/ \E e \in Entry : ExtractEntry(e)

Validate ==
  \/ \E ok \in BOOLEAN : LoadMetadata(ok) \/ MatchIdentity(ok)
  \/ \E cmds \in CommandSets : ValidateCommands(cmds)
  \/ OpenManifest
  \/ \E p \in Path, type \in Types, mode \in {"0644", "0755", "-"}, digest \in BOOLEAN :
       ManifestLine(p, type, mode, digest)
  \/ EndOfManifest

Next == Extract \/ Validate \/ Abandon

Spec == Init /\ [][Next]_vars

-------------------------------------------------------------------------------
TypeOK ==
  /\ host \in Host
  /\ phase \in {"extract", "metadata", "identity", "commands", "open manifest", "manifest", "done"}
  /\ result \in {"none", "refused", "interrupt", "error", "admitted"}
  /\ rootSeen \in BOOLEAN
  /\ entries \subseteq [path : Path, type : Types]
  /\ declared \in Nat
  /\ EntryCount <= MaxEntries /\ Cardinality(lines) <= MaxEntries
  /\ Cardinality(DOMAIN table) <= MaxTable
  /\ \A k \in DOMAIN table : table[k] \in Types \cup {"ancestor"}
  /\ \A q \in DOMAIN disk : disk[q].type \in Types
  /\ commands \subseteq Path
  /\ lines \subseteq Path

(***************************************************************************)
(* What two entries of one archive must respect, in whatever order they    *)
(* come: they do not name the same folded path, and only a directory has   *)
(* anything below it.                                                      *)
(***************************************************************************)
Compatible(p, type, e) ==
  /\ Fold(p) # Fold(e.path)
  /\ Fold(e.path) \in Above(Fold(p)) => e.type = "dir"
  /\ Fold(p) \in Above(Fold(e.path)) => type = "dir"

\* The incremental table of package_extract.c decides exactly the pairwise
\* rule: it neither misses an alias hidden by an implicit parent nor
\* refuses a directory listed after its contents.
RegisterMatchesReference ==
  phase = "extract" => \A p \in Path, type \in Types :
    CanRegister(p, type) <=> \A e \in entries : Compatible(p, type, e)

\* An accepted entry is on disk with its own type: the no-overwrite mode of
\* the disk writer never drops one in silence, whether or not the host
\* distinguishes case.
EveryEntryOnDisk ==
  \A e \in entries : \E q \in Named(e.path) : disk[q].type = e.type

\* Sparse or not, the extracted files stay within the extraction budget, and
\* path table and line counts within their limits.
BudgetRespected ==
  /\ TypeOK
  /\ MapThenSumSet(LAMBDA q : disk[q].size, DOMAIN disk) <= MaxBytes

\* An admitted tree is exactly the declared one: every object but the
\* manifest has one line that names it, and every line names an object.
Exact ==
  /\ \A q \in DOMAIN disk \ Named(Manifest) :
       Cardinality({p \in lines : q \in Named(p)}) = 1
  /\ \A p \in lines : Named(p) # {}

\* What SECURITY.md says of every package.
AdmittedExactly == result = "admitted" => Exact

\* What the code ensures: the lines and the count determine the tree as long
\* as no link leads to a directory; every Windows package is of this kind.
LinksToFiles == \A q \in DOMAIN disk : disk[q].type = "link" => FileBeneath(q) # {}

AdmittedWithoutDirectoryLinks == result = "admitted" /\ LinksToFiles => Exact

\* No two objects of such a package have the same folded path, also where
\* extraction created their parents implicitly.
AdmittedUnaliased ==
  result = "admitted" /\ LinksToFiles =>
    \A q, r \in DOMAIN disk : Fold(q) = Fold(r) => q = r

===============================================================================
