----------------------- MODULE PackageAdmissionProofs -----------------------
(***************************************************************************)
(* Proofs about PackageAdmission for any set of names, archives, hosts and *)
(* limits. Extraction keeps the path table and the disk in step with the   *)
(* accepted entries; admission then compares the disk with the manifest by *)
(* looking up each line and by counting.                                   *)
(***************************************************************************)
EXTENDS PackageAdmission, FiniteSetTheorems, TLAPS

(***************************************************************************)
(* Names.                                                                  *)
(***************************************************************************)

\* Folding keeps the length of a path and works segment by segment.
LEMMA FoldFacts ==
  ASSUME NEW p \in Seq(Segment)
  PROVE  /\ Fold(p) \in Seq(Segment) /\ Len(Fold(p)) = Len(p)
         /\ \A i \in 1..Len(p) : Fold(p)[i] = Lower[p[i]]
<1>1. Fold(p) = [i \in 1..Len(p) |-> Lower[p[i]]]
  BY DEF Fold
<1>2. \A i \in 1..Len(p) : Lower[p[i]] \in Segment
  BY PathAssumption
<1> QED
  BY <1>1, <1>2

\* Two paths fold alike if they have one length and fold alike everywhere.
LEMMA SameFold ==
  ASSUME NEW p \in Seq(Segment), NEW q \in Seq(Segment), Len(p) = Len(q),
         \A i \in 1..Len(p) : Lower[p[i]] = Lower[q[i]]
  PROVE  Fold(p) = Fold(q)
BY DEF Fold

\* A parent is a shorter path with the same segments.
LEMMA PrefixFacts ==
  ASSUME NEW p \in Seq(Segment), NEW n \in 0..Len(p)
  PROVE  /\ SubSeq(p, 1, n) \in Seq(Segment) /\ Len(SubSeq(p, 1, n)) = n
         /\ \A i \in 1..n : SubSeq(p, 1, n)[i] = p[i]
OBVIOUS

\* A parent is a proper, non-empty prefix.
LEMMA AboveFacts ==
  ASSUME NEW p \in Seq(Segment), NEW a \in Above(p)
  PROVE  /\ a \in Seq(Segment) /\ Len(a) \in 1..(Len(p) - 1) /\ a = SubSeq(p, 1, Len(a))
         /\ a # <<>> /\ a # p
         /\ \A i \in 1..Len(a) : a[i] = p[i]
<1>1. PICK n \in 1..(Len(p) - 1) : a = SubSeq(p, 1, n)
  BY DEF Above
<1>2. n \in 0..Len(p)
  OBVIOUS
<1> QED
  BY <1>1, <1>2, PrefixFacts

\* The parents of a parent, and of a folded path.
LEMMA AboveAbove ==
  ASSUME NEW p \in Seq(Segment), NEW a \in Above(p), NEW b \in Above(a)
  PROVE  b \in Above(p)
<1>1. /\ a \in Seq(Segment) /\ Len(a) \in 1..(Len(p) - 1)
      /\ \A i \in 1..Len(a) : a[i] = p[i]
  BY AboveFacts
<1>2. /\ b \in Seq(Segment) /\ Len(b) \in 1..(Len(a) - 1)
      /\ \A i \in 1..Len(b) : b[i] = a[i]
  BY <1>1, AboveFacts
<1>3. SubSeq(p, 1, Len(b)) = b
  <2>1. /\ SubSeq(p, 1, Len(b)) \in Seq(Segment) /\ Len(SubSeq(p, 1, Len(b))) = Len(b)
        /\ \A i \in 1..Len(b) : SubSeq(p, 1, Len(b))[i] = p[i]
    BY <1>1, <1>2, PrefixFacts
  <2> QED
    BY <1>1, <1>2, <2>1
<1>4. Len(b) \in 1..(Len(p) - 1)
  <2>1. Len(p) \in Nat /\ Len(a) \in Nat /\ Len(b) \in Nat
    BY <1>1, <1>2
  <2> QED
    BY <1>1, <1>2, <2>1
<1> QED
  BY <1>3, <1>4 DEF Above

\* The parents of a folded path are the folded parents.
LEMMA FoldAbove ==
  ASSUME NEW p \in Seq(Segment), NEW a \in Above(p)
  PROVE  Fold(a) \in Above(Fold(p))
<1>1. /\ a \in Seq(Segment) /\ Len(a) \in 1..(Len(p) - 1)
      /\ \A i \in 1..Len(a) : a[i] = p[i]
  BY AboveFacts
<1>2. /\ Fold(a) \in Seq(Segment) /\ Len(Fold(a)) = Len(a)
      /\ \A i \in 1..Len(a) : Fold(a)[i] = Lower[a[i]]
  BY <1>1, FoldFacts
<1>3. /\ Fold(p) \in Seq(Segment) /\ Len(Fold(p)) = Len(p)
      /\ \A i \in 1..Len(p) : Fold(p)[i] = Lower[p[i]]
  BY FoldFacts
<1>4. Fold(a) = SubSeq(Fold(p), 1, Len(a))
  <2>1. /\ SubSeq(Fold(p), 1, Len(a)) \in Seq(Segment) /\ Len(SubSeq(Fold(p), 1, Len(a))) = Len(a)
        /\ \A i \in 1..Len(a) : SubSeq(Fold(p), 1, Len(a))[i] = Fold(p)[i]
    BY <1>1, <1>3, PrefixFacts
  <2> QED
    BY <1>1, <1>2, <1>3, <2>1
<1> QED
  BY <1>1, <1>3, <1>4 DEF Above

\* Along one path, the folded spelling determines the parent.
LEMMA AboveDistinct ==
  ASSUME NEW p \in Seq(Segment), NEW a \in Above(p) \cup {p}, NEW b \in Above(p) \cup {p},
         Fold(a) = Fold(b)
  PROVE  a = b
<1>1. \A x \in Above(p) \cup {p} : x \in Seq(Segment) /\ x = SubSeq(p, 1, Len(x))
  BY AboveFacts
<1>2. Len(a) = Len(b)
  BY <1>1, FoldFacts
<1> QED
  BY <1>1, <1>2

\* What a path names depends on its spelling only as far as the host does.
LEMMA NamedAlike ==
  ASSUME NEW p, NEW q, IF host.folds THEN Fold(p) = Fold(q) ELSE p = q
  PROVE  Named(p) = Named(q)
BY DEF Named

\* Manifest lines and entries have non-empty paths of segments.
LEMMA PathTypes ==
  /\ Path \subseteq Seq(Segment) \ {<<>>}
  /\ \A e \in Entry : e.path \in Path /\ e.type \in Types
BY PathAssumption, EntryAssumption DEF Types

(***************************************************************************)
(* The steps, grouped by what they do to the archive's state.              *)
(***************************************************************************)
Accepted(e) ==
  /\ phase = "extract" /\ EntryCount < MaxEntries
  /\ EntryAccepted(e)
  /\ entries' = entries \cup {[path |-> e.path, type |-> e.type]}
  /\ table' = Registered(Fold(e.path), e.type)
  /\ declared' = declared + e.size
  /\ disk' = WriteHeader(e.path, Object(e))
  /\ UNCHANGED <<host, phase, result, rootSeen, commands, lines>>

ArchiveRead ==
  /\ phase = "extract" /\ phase' = "metadata" /\ table' = <<>>
  /\ UNCHANGED <<host, result, rootSeen, entries, declared, disk, commands, lines>>

Validated ==
  /\ phase \in {"metadata", "identity", "commands", "open manifest"}
  /\ phase' \in {"identity", "commands", "open manifest", "manifest"}
  /\ phase' = "manifest" => RegularNonempty(Manifest)
  /\ commands' = commands \/ commands' \in CommandSets
  /\ UNCHANGED <<host, result, archive, lines>>

LineVerified ==
  /\ phase = "manifest"
  /\ \E p \in Path, type \in Types, mode \in {"0644", "0755", "-"}, digest \in BOOLEAN :
       /\ Cardinality(lines) < MaxEntries
       /\ VerifyManifestEntry(p, type, mode, digest)
       /\ lines' = lines \cup {p}
  /\ UNCHANGED <<host, phase, result, archive, commands>>

Admitted ==
  /\ phase = "manifest"
  /\ ~PathKeysCollide /\ CountPackageTree = Cardinality(lines)
  /\ phase' = "done" /\ result' = "admitted"
  /\ UNCHANGED <<host, archive, commands, lines>>

Refused == \E r \in {"refused", "interrupt", "error"} : Fail(r)

\* Every step is one of these.
LEMMA StepCases ==
  ASSUME [Next]_vars
  PROVE  \/ Refused \/ RootEntry \/ (\E e \in Entry : Accepted(e)) \/ ArchiveRead
         \/ Validated \/ LineVerified \/ Admitted \/ UNCHANGED vars
<1>1. CASE Extract
  <2>1. CASE WrongFormat \/ TooManyEntries \/ UnsafeEntry
    BY <2>1 DEF WrongFormat, TooManyEntries, UnsafeEntry, Refused
  <2>2. CASE RootEntry
    BY <2>2
  <2>3. CASE EndOfArchive
    BY <2>3 DEF EndOfArchive, ArchiveRead, Refused
  <2>4. CASE \E e \in Entry : ExtractEntry(e)
    <3>1. PICK e \in Entry : ExtractEntry(e)
      BY <2>4
    <3>2. Accepted(e) \/ Fail("refused")
      BY <3>1 DEF ExtractEntry, Accepted
    <3> QED
      BY <3>2 DEF Refused
  <2> QED
    BY <1>1, <2>1, <2>2, <2>3, <2>4 DEF Extract
<1>2. CASE Validate
  <2>1. CASE \E ok \in BOOLEAN : LoadMetadata(ok) \/ MatchIdentity(ok)
    BY <2>1 DEF LoadMetadata, MatchIdentity, Validated, Refused
  <2>2. CASE \E cmds \in CommandSets : ValidateCommands(cmds)
    BY <2>2 DEF ValidateCommands, Validated, Refused
  <2>3. CASE OpenManifest
    BY <2>3 DEF OpenManifest, Validated, Refused
  <2>4. CASE \E p \in Path, type \in Types, mode \in {"0644", "0755", "-"}, digest \in BOOLEAN :
               ManifestLine(p, type, mode, digest)
    BY <2>4 DEF ManifestLine, LineVerified, Refused
  <2>5. CASE EndOfManifest
    BY <2>5 DEF EndOfManifest, Admitted, Refused
  <2> QED
    BY <1>2, <2>1, <2>2, <2>3, <2>4, <2>5 DEF Validate
<1>3. CASE Abandon
  BY <1>3 DEF Abandon, Refused
<1> QED
  BY <1>1, <1>2, <1>3 DEF Next

(***************************************************************************)
(* The invariant of extraction.                                            *)
(***************************************************************************)

\* The table holds every accepted entry with its type, and otherwise only the
\* parents they imply.
TableSound ==
  phase = "extract" =>
    /\ \A e \in entries :
         /\ Fold(e.path) \in DOMAIN table /\ table[Fold(e.path)] = e.type
         /\ Above(Fold(e.path)) \subseteq DOMAIN table
    /\ \A k \in DOMAIN table :
         \/ \E e \in entries : k = Fold(e.path)
         \/ table[k] = "ancestor" /\ \E e \in entries : k \in Above(Fold(e.path))

\* Objects have types, sizes and targets.
DiskTyped ==
  /\ IsFiniteSet(DOMAIN disk)
  /\ \A q \in DOMAIN disk :
       /\ q \in Seq(Segment) /\ q # <<>>
       /\ disk[q].type \in Types /\ disk[q].size \in Nat
       /\ disk[q].target \in Seq(Segment \cup {".."})

\* Every object on disk is in the table, under its folded path and with its
\* type; a parent that no entry listed is a directory.
DiskTabled ==
  phase = "extract" =>
    \A q \in DOMAIN disk :
      /\ Fold(q) \in DOMAIN table
      /\ disk[q].type = IF table[Fold(q)] = "ancestor" THEN "dir" ELSE table[Fold(q)]

\* Only directories may differ by case alone, and only where the host lets them.
DiskUnaliased ==
  \A q, r \in DOMAIN disk : q # r /\ Fold(q) = Fold(r) => disk[q].type = "dir" /\ ~host.folds

\* Whatever is above an object is a directory.
DiskClosed ==
  \A q \in DOMAIN disk : \A a \in Above(q) :
    Named(a) # {} /\ \A x \in Named(a) : disk[x].type = "dir"

Types0 ==
  /\ host \in Host
  /\ phase \in {"extract", "metadata", "identity", "commands", "open manifest", "manifest", "done"}
  /\ result \in {"none", "refused", "interrupt", "error", "admitted"}
  /\ result = "admitted" => phase = "done"
  /\ rootSeen \in BOOLEAN
  /\ entries \subseteq [path : Path, type : Types]
  /\ IsFiniteSet(entries) /\ IsFiniteSet(lines)
  /\ declared \in Nat /\ declared <= MaxBytes
  /\ EntryCount <= MaxEntries /\ Cardinality(lines) <= MaxEntries
  /\ Cardinality(DOMAIN table) <= MaxTable
  /\ \A k \in DOMAIN table : table[k] \in Types \cup {"ancestor"}
  /\ commands \subseteq Path
  /\ lines \subseteq Path
  /\ phase \notin {"manifest", "done"} => lines = {}

ExtractionInv ==
  Types0 /\ TableSound /\ DiskTyped /\ DiskTabled /\ DiskUnaliased /\ DiskClosed /\ EveryEntryOnDisk

\* The table decides the pairwise rule.
LEMMA TableDecides ==
  ASSUME Types0, TableSound, phase = "extract", NEW p \in Path, NEW type \in Types
  PROVE  CanRegister(p, type) <=> \A e \in entries : Compatible(p, type, e)
<1> DEFINE k == Fold(p)
<1>0. \A e \in entries : e.type \in Types /\ e.path \in Path
  BY DEF Types0
<1>1. ASSUME CanRegister(p, type), NEW e \in entries
      PROVE  Compatible(p, type, e)
  <2>1. Fold(e.path) \in DOMAIN table /\ table[Fold(e.path)] = e.type
    BY DEF TableSound
  <2>2. k # Fold(e.path)
    BY <1>0, <1>1, <2>1 DEF CanRegister, Collides, Types
  <2>3. Fold(e.path) \in Above(k) => e.type = "dir"
    BY <1>0, <1>1, <2>1 DEF CanRegister, BelowNonDirectory, Types
  <2>4. k \in Above(Fold(e.path)) => type = "dir"
    BY <1>1 DEF CanRegister, Collides, TableSound
  <2> QED
    BY <2>2, <2>3, <2>4 DEF Compatible
<1>2. ASSUME \A e \in entries : Compatible(p, type, e)
      PROVE  CanRegister(p, type)
  <2>1. ~Collides(k, type)
    BY <1>2 DEF Collides, TableSound, Compatible
  <2>2. ~BelowNonDirectory(k)
    BY <1>2 DEF BelowNonDirectory, TableSound, Compatible
  <2> QED
    BY <2>1, <2>2 DEF CanRegister
<1> QED
  BY <1>1, <1>2

\* What the limits say before an entry is accepted.
LEMMA AcceptedFacts ==
  ASSUME ExtractionInv, NEW e \in Entry, Accepted(e)
  PROVE  /\ e.path \in Path /\ e.path \in Seq(Segment) /\ e.path # <<>> /\ e.type \in Types
         /\ phase = "extract" /\ host' = host
         /\ \A f \in entries : f.path \in Path /\ f.path \in Seq(Segment) /\ f.type \in Types
         /\ ~Collides(Fold(e.path), e.type) /\ ~BelowNonDirectory(Fold(e.path))
         /\ DOMAIN table' = DOMAIN table \cup Above(Fold(e.path)) \cup {Fold(e.path)}
         /\ \A k \in DOMAIN table' :
              table'[k] = IF k = Fold(e.path) THEN e.type
                          ELSE IF k \in DOMAIN table THEN table[k] ELSE "ancestor"
<1>1. e.path \in Path /\ e.type \in Types
  BY PathTypes
<1>2. \A f \in entries : f.path \in Path /\ f.type \in Types
  BY DEF ExtractionInv, Types0
<1>3. table' = [x \in DOMAIN table \cup Above(Fold(e.path)) \cup {Fold(e.path)} |->
                  IF x = Fold(e.path) THEN e.type
                  ELSE IF x \in DOMAIN table THEN table[x] ELSE "ancestor"]
  BY DEF Accepted, Registered
<1>4. ~Collides(Fold(e.path), e.type) /\ ~BelowNonDirectory(Fold(e.path))
  BY DEF Accepted, EntryAccepted, PathTableRegister, CanRegister
<1>5. phase = "extract" /\ host' = host
  BY DEF Accepted
<1> QED
  BY <1>1, <1>2, <1>3, <1>4, <1>5, PathTypes

\* The new entry joins the table.
LEMMA AcceptedTable ==
  ASSUME ExtractionInv, NEW e \in Entry, Accepted(e)
  PROVE  TableSound'
<1> DEFINE k == Fold(e.path)
           new == [path |-> e.path, type |-> e.type]
<1>1. /\ ~Collides(k, e.type) /\ e.type # "ancestor" /\ phase = "extract"
      /\ DOMAIN table' = DOMAIN table \cup Above(k) \cup {k}
      /\ \A x \in DOMAIN table' :
           table'[x] = IF x = k THEN e.type ELSE IF x \in DOMAIN table THEN table[x] ELSE "ancestor"
  BY AcceptedFacts DEF Types
<1>2. entries' = entries \cup {new} /\ new.path = e.path /\ new.type = e.type
  BY DEF Accepted
<1>3. \A f \in entries :
        /\ Fold(f.path) \in DOMAIN table /\ table[Fold(f.path)] = f.type
        /\ Above(Fold(f.path)) \subseteq DOMAIN table /\ f.type # "ancestor"
  BY <1>1, AcceptedFacts DEF ExtractionInv, TableSound, Types
<1>4. \A f \in entries : Fold(f.path) # k
  BY <1>1, <1>3 DEF Collides
<1> HIDE DEF k, new
<1>5. \A f \in entries' :
        /\ Fold(f.path) \in DOMAIN table' /\ table'[Fold(f.path)] = f.type
        /\ Above(Fold(f.path)) \subseteq DOMAIN table'
  <2>1. k = Fold(new.path)
    BY <1>2 DEF k
  <2> QED
    BY <1>1, <1>2, <1>3, <1>4, <2>1
<1>6. ASSUME NEW x \in DOMAIN table'
      PROVE  \/ \E f \in entries' : x = Fold(f.path)
             \/ table'[x] = "ancestor" /\ \E f \in entries' : x \in Above(Fold(f.path))
  <2>1. k = Fold(new.path)
    BY <1>2 DEF k
  <2>2. CASE x = k
    BY <1>2, <2>1, <2>2
  <2>3. CASE x # k /\ x \in DOMAIN table
    <3>1. \/ \E f \in entries : x = Fold(f.path)
          \/ table[x] = "ancestor" /\ \E f \in entries : x \in Above(Fold(f.path))
      BY <1>1, <2>3 DEF ExtractionInv, TableSound
    <3> QED
      BY <1>1, <1>2, <2>3, <3>1
  <2>4. CASE x # k /\ x \notin DOMAIN table
    BY <1>1, <1>2, <2>1, <2>4
  <2> QED
    BY <2>2, <2>3, <2>4
<1>7. \A f : Fold(f)' = Fold(f)
  BY DEF Fold
<1> QED
  BY <1>5, <1>6 DEF TableSound, Fold, Above

\* What extraction of an entry makes of the disk.
LEMMA AcceptedDisk ==
  ASSUME ExtractionInv, NEW e \in Entry, Accepted(e)
  PROVE  LET new == {q \in Above(e.path) \cup {e.path} : Named(q) = {}} IN
         /\ DOMAIN disk' = DOMAIN disk \cup new
         /\ \A q \in DOMAIN disk : disk'[q] = disk[q]
         /\ \A q \in new : q \notin DOMAIN disk
         /\ \A q \in new : q # e.path => disk'[q] = ImplicitDirectory
         /\ e.path \in new => disk'[e.path] = Object(e)
<1> DEFINE p == e.path
           new == {q \in Above(p) \cup {p} : Named(q) = {}}
<1>1. disk' = [q \in DOMAIN disk \cup new |->
                 IF q \in DOMAIN disk THEN disk[q]
                 ELSE IF q = p THEN Object(e) ELSE ImplicitDirectory]
  BY DEF Accepted, WriteHeader
<1>2. \A q \in new : q \notin DOMAIN disk
  BY DEF Named
<1> HIDE DEF new
<1>3. QED
  BY <1>1, <1>2 DEF new

\* What the disk writer makes of an entry and of a missing parent.
LEMMA ObjectFacts ==
  /\ ImplicitDirectory.type = "dir" /\ ImplicitDirectory.size = 0
  /\ ImplicitDirectory.target = <<>>
  /\ \A e \in Entry : Object(e).type = e.type /\ Object(e).size = e.size /\ Object(e).target = e.target
BY DEF ImplicitDirectory, Object

\* A path has finitely many parents.
LEMMA AboveFinite ==
  ASSUME NEW p \in Seq(Segment)
  PROVE  IsFiniteSet(Above(p))
<1> DEFINE f == [n \in 1..(Len(p) - 1) |-> SubSeq(p, 1, n)]
<1>1. f \in Surjection(1..(Len(p) - 1), Above(p))
  BY DEF Surjection, Above
<1>2. IsFiniteSet(1..(Len(p) - 1))
  BY FS_Interval
<1> QED
  BY <1>1, <1>2, FS_Surjection

\* Two paths a host takes for the same.
SameName(x, q) == IF host.folds THEN Fold(x) = Fold(q) ELSE x = q

\* A path names the objects the host takes for it.
LEMMA NamedFacts ==
  /\ \A q : Named(q) = {x \in DOMAIN disk : SameName(x, q)}
  /\ \A x, q : SameName(x, q) => Fold(x) = Fold(q)
  /\ \A x : SameName(x, x)
BY DEF Named, SameName

\* The names after an entry was extracted.
LEMMA AcceptedNamed ==
  ASSUME ExtractionInv, NEW e \in Entry, Accepted(e)
  PROVE  LET new == {q \in Above(e.path) \cup {e.path} : Named(q) = {}} IN
         \A q : Named(q)' = Named(q) \cup {x \in new : SameName(x, q)}
<1> DEFINE new == {q \in Above(e.path) \cup {e.path} : Named(q) = {}}
<1>1. DOMAIN disk' = DOMAIN disk \cup new /\ host' = host
  BY AcceptedDisk, AcceptedFacts
<1>2. \A q : Named(q)' = {x \in DOMAIN disk' : SameName(x, q)}
  BY <1>1 DEF Named, SameName
<1> HIDE DEF new
<1>3. QED
  BY <1>1, <1>2, NamedFacts DEF new

\* The disk after an entry was extracted is well typed.
LEMMA AcceptedTyped ==
  ASSUME ExtractionInv, NEW e \in Entry, Accepted(e)
  PROVE  DiskTyped'
<1> DEFINE p == e.path
           new == {q \in Above(p) \cup {p} : Named(q) = {}}
<1>0. p \in Seq(Segment) /\ p # <<>> /\ e.type \in Types /\ e.size \in Nat
      /\ e.target \in Seq(Segment \cup {".."})
  BY AcceptedFacts, EntryAssumption
<1>1. /\ DOMAIN disk' = DOMAIN disk \cup new
      /\ \A q \in DOMAIN disk : disk'[q] = disk[q]
      /\ \A q \in new : q # p => disk'[q] = ImplicitDirectory
      /\ p \in new => disk'[p] = Object(e)
  BY AcceptedDisk
<1>2. new \subseteq Above(p) \cup {p} /\ \A q \in new : q \in Seq(Segment) /\ q # <<>>
  BY <1>0, AboveFacts
<1> HIDE DEF p, new
<1>3. IsFiniteSet(DOMAIN disk')
  <2>1. IsFiniteSet(Above(p) \cup {p})
    BY <1>0, AboveFinite, FS_AddElement
  <2>2. IsFiniteSet(new)
    BY <1>2, <2>1, FS_Subset
  <2>3. IsFiniteSet(DOMAIN disk)
    BY DEF ExtractionInv, DiskTyped
  <2> QED
    BY <1>1, <2>2, <2>3, FS_Union
<1>4. ASSUME NEW q \in DOMAIN disk'
      PROVE  /\ q \in Seq(Segment) /\ q # <<>>
             /\ disk'[q].type \in Types /\ disk'[q].size \in Nat
             /\ disk'[q].target \in Seq(Segment \cup {".."})
  <2>1. CASE q \in DOMAIN disk
    BY <1>1, <2>1 DEF ExtractionInv, DiskTyped
  <2>2. CASE q \in new /\ q # p
    <3>1. <<>> \in Seq(Segment \cup {".."}) /\ "dir" \in Types /\ 0 \in Nat
      BY DEF Types
    <3> QED
      BY <1>1, <1>2, <2>2, <3>1, ObjectFacts
  <2>3. CASE q \in new /\ q = p
    BY <1>0, <1>1, <1>2, <2>3, ObjectFacts
  <2> QED
    BY <1>1, <2>1, <2>2, <2>3
<1> QED
  BY <1>3, <1>4 DEF DiskTyped

\* Whatever already lies at a parent of the new entry is a directory, and at
\* the entry's own path only a directory that a deeper path implied.
LEMMA AcceptedRoom ==
  ASSUME ExtractionInv, NEW e \in Entry, Accepted(e), NEW q \in DOMAIN disk
  PROVE  /\ Fold(q) \in Above(Fold(e.path)) => disk[q].type = "dir"
         /\ Fold(q) = Fold(e.path) => disk[q].type = "dir" /\ e.type = "dir"
<1>1. /\ Fold(q) \in DOMAIN table
      /\ disk[q].type = IF table[Fold(q)] = "ancestor" THEN "dir" ELSE table[Fold(q)]
      /\ table[Fold(q)] \in Types \cup {"ancestor"}
  BY AcceptedFacts DEF ExtractionInv, DiskTabled, Types0
<1>2. ~Collides(Fold(e.path), e.type) /\ ~BelowNonDirectory(Fold(e.path))
  BY AcceptedFacts
<1>3. Fold(q) \in Above(Fold(e.path)) => table[Fold(q)] \notin {"file", "link"}
  BY <1>1, <1>2 DEF BelowNonDirectory
<1>4. Fold(q) = Fold(e.path) => table[Fold(q)] = "ancestor" /\ e.type = "dir"
  BY <1>1, <1>2 DEF Collides
<1> QED
  BY <1>1, <1>3, <1>4 DEF Types

\* The new objects are in the table.
LEMMA AcceptedTabled ==
  ASSUME ExtractionInv, NEW e \in Entry, Accepted(e)
  PROVE  DiskTabled'
<1> DEFINE p == e.path
           k == Fold(p)
           new == {q \in Above(p) \cup {p} : Named(q) = {}}
<1>0. p \in Seq(Segment) /\ e.type \in Types
  BY AcceptedFacts
<1>1. /\ DOMAIN disk' = DOMAIN disk \cup new
      /\ \A q \in DOMAIN disk : disk'[q] = disk[q]
      /\ \A q \in new : q # p => disk'[q] = ImplicitDirectory
      /\ p \in new => disk'[p] = Object(e)
  BY AcceptedDisk
<1>2. /\ DOMAIN table' = DOMAIN table \cup Above(k) \cup {k}
      /\ \A x \in DOMAIN table' :
           table'[x] = IF x = k THEN e.type ELSE IF x \in DOMAIN table THEN table[x] ELSE "ancestor"
  BY AcceptedFacts
<1>3. \A q \in new : q = p \/ (q \in Above(p) /\ Fold(q) \in Above(k) /\ Fold(q) # k)
  BY <1>0, FoldAbove, AboveDistinct, AboveFacts
<1>4. ASSUME NEW q \in DOMAIN disk'
      PROVE  /\ Fold(q) \in DOMAIN table'
             /\ disk'[q].type = IF table'[Fold(q)] = "ancestor" THEN "dir" ELSE table'[Fold(q)]
  <2>1. CASE q \in DOMAIN disk
    <3>1. /\ Fold(q) \in DOMAIN table
          /\ disk[q].type = IF table[Fold(q)] = "ancestor" THEN "dir" ELSE table[Fold(q)]
      BY <2>1, AcceptedFacts DEF ExtractionInv, DiskTabled
    <3>2. Fold(q) = k => disk[q].type = "dir" /\ e.type = "dir"
      BY <2>1, AcceptedRoom
    <3> QED
      BY <1>1, <1>2, <2>1, <3>1, <3>2
  <2>2. CASE q \in new /\ q # p
    <3>1. Fold(q) \in Above(k) /\ Fold(q) # k /\ q \in Above(p)
      BY <1>3, <2>2
    <3>2. disk'[q].type = "dir"
      BY <1>1, <2>2, ObjectFacts
    <3>3. Fold(q) \in DOMAIN table => table[Fold(q)] \in {"dir", "ancestor"}
      BY <3>1, AcceptedFacts DEF BelowNonDirectory, ExtractionInv, Types0, Types
    <3> QED
      BY <1>2, <3>1, <3>2, <3>3
  <2>3. CASE q \in new /\ q = p
    BY <1>0, <1>1, <1>2, <2>3, ObjectFacts DEF Types
  <2> QED
    BY <1>1, <2>1, <2>2, <2>3
<1>5. \A q : Fold(q)' = Fold(q)
  BY DEF Fold
<1> QED
  BY <1>4 DEF DiskTabled, Fold

\* Extraction creates no alias of an object, directories on hosts that
\* distinguish case excepted.
LEMMA AcceptedUnaliased ==
  ASSUME ExtractionInv, NEW e \in Entry, Accepted(e)
  PROVE  DiskUnaliased'
<1> DEFINE p == e.path
           new == {q \in Above(p) \cup {p} : Named(q) = {}}
<1>0. p \in Seq(Segment) /\ e.type \in Types
  BY AcceptedFacts
<1>1. /\ DOMAIN disk' = DOMAIN disk \cup new /\ host' = host
      /\ \A q \in DOMAIN disk : disk'[q] = disk[q]
      /\ \A q \in new : q # p => disk'[q] = ImplicitDirectory
      /\ p \in new => disk'[p] = Object(e)
  BY AcceptedDisk, AcceptedFacts
<1>2. \A q, r \in new : Fold(q) = Fold(r) => q = r
  BY <1>0, AboveDistinct
<1>3. ASSUME NEW q \in DOMAIN disk, NEW r \in new, Fold(q) = Fold(r)
      PROVE  disk'[q].type = "dir" /\ disk'[r].type = "dir" /\ ~host.folds
  <2>1. ~host.folds
    BY <1>3 DEF Named
  <2>2. CASE r = p
    BY <1>1, <1>3, <2>1, <2>2, AcceptedRoom, ObjectFacts
  <2>3. CASE r # p
    <3>1. Fold(r) \in Above(Fold(p))
      BY <1>0, <2>3, FoldAbove
    <3> QED
      BY <1>1, <1>3, <2>1, <2>3, <3>1, AcceptedRoom, ObjectFacts
  <2> QED
    BY <2>2, <2>3
<1>4. ASSUME NEW q \in DOMAIN disk', NEW r \in DOMAIN disk', q # r, Fold(q) = Fold(r)
      PROVE  disk'[q].type = "dir" /\ ~host.folds
  <2>1. CASE q \in DOMAIN disk /\ r \in DOMAIN disk
    BY <1>1, <1>4, <2>1 DEF ExtractionInv, DiskUnaliased
  <2>2. CASE q \in DOMAIN disk /\ r \in new
    BY <1>3, <1>4, <2>2
  <2>3. CASE q \in new /\ r \in DOMAIN disk
    BY <1>3, <1>4, <2>3
  <2>4. CASE q \in new /\ r \in new
    BY <1>2, <1>4, <2>4
  <2> QED
    BY <1>1, <2>1, <2>2, <2>3, <2>4
<1> QED
  BY <1>1, <1>4 DEF DiskUnaliased, Fold

\* Every parent exists, and only directories have anything below them.
LEMMA AcceptedClosed ==
  ASSUME ExtractionInv, NEW e \in Entry, Accepted(e)
  PROVE  DiskClosed'
<1> DEFINE p == e.path
           new == {q \in Above(p) \cup {p} : Named(q) = {}}
<1>0. p \in Seq(Segment) /\ e.type \in Types
  BY AcceptedFacts
<1>1. /\ DOMAIN disk' = DOMAIN disk \cup new
      /\ \A q \in DOMAIN disk : disk'[q] = disk[q]
      /\ \A q \in new : q # p => disk'[q] = ImplicitDirectory
      /\ p \in new => disk'[p] = Object(e)
  BY AcceptedDisk
<1>2. \A q : Named(q)' = Named(q) \cup {x \in new : SameName(x, q)}
  BY AcceptedNamed
<1>3. \A q : Named(q) \subseteq DOMAIN disk
  BY DEF Named
<1>4. ASSUME NEW q \in DOMAIN disk, NEW a \in Above(q)
      PROVE  Named(a)' # {} /\ \A x \in Named(a)' : disk'[x].type = "dir"
  <2>1. Named(a) # {} /\ \A x \in Named(a) : disk[x].type = "dir"
    BY DEF ExtractionInv, DiskClosed
  <2>2. ~SameName(p, a) \/ p \notin new
    BY <2>1, NamedAlike DEF SameName
  <2> QED
    BY <1>1, <1>2, <1>3, <2>1, <2>2, ObjectFacts
<1>5. ASSUME NEW a \in Above(p)
      PROVE  Named(a)' # {} /\ \A x \in Named(a)' : disk'[x].type = "dir"
  <2>1. Named(a)' # {}
    BY <1>2, NamedFacts
  <2>2. ASSUME NEW x \in Named(a) PROVE disk'[x].type = "dir"
    <3>1. x \in DOMAIN disk /\ Fold(x) \in Above(Fold(p))
      BY <1>0, <2>2, NamedFacts, FoldAbove
    <3> QED
      BY <1>1, <3>1, AcceptedRoom
  <2>3. ASSUME NEW x \in new, SameName(x, a) PROVE disk'[x].type = "dir"
    <3>1. x = a /\ a # p
      BY <1>0, <2>3, AboveDistinct, NamedFacts, AboveFacts
    <3> QED
      BY <1>1, <3>1, ObjectFacts
  <2> QED
    BY <1>2, <2>1, <2>2, <2>3
<1>6. ASSUME NEW q \in new, NEW a \in Above(q)
      PROVE  a \in Above(p)
  BY <1>0, AboveAbove
<1>7. \A q \in DOMAIN disk' : \A a \in Above(q) :
        Named(a)' # {} /\ \A x \in Named(a)' : disk'[x].type = "dir"
  BY <1>1, <1>4, <1>5, <1>6
<1> QED
  BY <1>7 DEF DiskClosed, Above, Named, Fold

\* No accepted entry is dropped by the no-overwrite mode.
LEMMA AcceptedOnDisk ==
  ASSUME ExtractionInv, NEW e \in Entry, Accepted(e)
  PROVE  EveryEntryOnDisk'
<1> DEFINE p == e.path
           new == {q \in Above(p) \cup {p} : Named(q) = {}}
<1>1. /\ DOMAIN disk' = DOMAIN disk \cup new
      /\ \A q \in DOMAIN disk : disk'[q] = disk[q]
      /\ p \in new => disk'[p] = Object(e)
  BY AcceptedDisk
<1>2. \A q : Named(q)' = Named(q) \cup {x \in new : SameName(x, q)}
  BY AcceptedNamed
<1>3. \A q : Named(q) \subseteq DOMAIN disk
  BY DEF Named
<1>4. ASSUME NEW f \in entries PROVE \E q \in Named(f.path)' : disk'[q].type = f.type
  <2>1. PICK q \in Named(f.path) : disk[q].type = f.type
    BY DEF ExtractionInv, EveryEntryOnDisk
  <2> QED
    BY <1>1, <1>2, <1>3, <2>1
<1>5. \E q \in Named(p)' : disk'[q].type = e.type
  <2>1. CASE Named(p) = {}
    <3>1. p \in new
      BY <2>1
    <3>2. p \in Named(p)'
      BY <1>2, <3>1, NamedFacts
    <3> QED
      BY <1>1, <3>1, <3>2, ObjectFacts
  <2>2. CASE Named(p) # {}
    <3>1. PICK q \in Named(p) : TRUE
      BY <2>2
    <3>2. q \in DOMAIN disk /\ Fold(q) = Fold(p)
      BY <3>1, NamedFacts
    <3>3. disk[q].type = e.type
      BY <3>2, AcceptedRoom
    <3> QED
      BY <1>1, <1>2, <3>1, <3>2, <3>3
  <2> QED
    BY <2>1, <2>2
<1>6. entries' = entries \cup {[path |-> p, type |-> e.type]}
  BY DEF Accepted
<1>7. \A f \in entries' : \E q \in Named(f.path)' : disk'[q].type = f.type
  BY <1>4, <1>5, <1>6
<1> QED
  BY <1>7 DEF EveryEntryOnDisk, Named, Fold

\* The limits hold after an entry was accepted.
LEMMA AcceptedTypes ==
  ASSUME ExtractionInv, NEW e \in Entry, Accepted(e)
  PROVE  Types0'
<1> DEFINE new == [path |-> e.path, type |-> e.type]
<1>1. /\ phase = "extract" /\ EntryCount < MaxEntries
      /\ entries' = entries \cup {new}
      /\ UNCHANGED <<host, phase, result, rootSeen, commands, lines>>
  BY DEF Accepted
<1>2. new \in [path : Path, type : Types]
  BY AcceptedFacts
<1> HIDE DEF new
<1>3. /\ IsFiniteSet(entries') /\ Cardinality(entries') <= Cardinality(entries) + 1
      /\ Cardinality(entries) \in Nat /\ Cardinality(entries') \in Nat
  <2>1. IsFiniteSet(entries)
    BY DEF ExtractionInv, Types0
  <2>2. Cardinality(entries) \in Nat
    BY <2>1, FS_CardinalityType
  <2> QED
    BY <1>1, <2>1, <2>2, FS_AddElement
<1>4. EntryCount' <= MaxEntries
  BY <1>1, <1>3, LimitAssumption DEF EntryCount
<1>5. declared' \in Nat /\ declared' <= MaxBytes
  BY EntryAssumption, LimitAssumption
     DEF Accepted, EntryAccepted, ValidateEntrySize, ExtractionInv, Types0
<1>6. Cardinality(DOMAIN table') <= MaxTable
  BY DEF Accepted, EntryAccepted, PathTableRegister
<1>7. \A k \in DOMAIN table' : table'[k] \in Types \cup {"ancestor"}
  BY AcceptedFacts DEF ExtractionInv, Types0
<1> QED
  BY <1>1, <1>2, <1>3, <1>4, <1>5, <1>6, <1>7 DEF ExtractionInv, Types0

\* A refused package leaves nothing behind.
LEMMA RefusedInv ==
  ASSUME ExtractionInv, Refused
  PROVE  ExtractionInv'
<1>1. /\ phase' = "done" /\ result' \in {"refused", "interrupt", "error"} /\ host' = host
      /\ rootSeen' = FALSE /\ entries' = {} /\ table' = <<>> /\ declared' = 0 /\ disk' = <<>>
      /\ commands' = {} /\ lines' = {}
  BY DEF Refused, Fail
<1>2. DOMAIN <<>> = {}
  OBVIOUS
<1>3. Types0'
  <2>1. EntryCount' <= MaxEntries /\ Cardinality(lines') <= MaxEntries
        /\ Cardinality(DOMAIN table') <= MaxTable
    BY <1>1, <1>2, FS_EmptySet, LimitAssumption DEF EntryCount
  <2>2. IsFiniteSet(entries') /\ IsFiniteSet(lines') /\ 0 <= MaxBytes
    BY <1>1, FS_EmptySet, LimitAssumption
  <2> QED
    BY <1>1, <1>2, <2>1, <2>2 DEF ExtractionInv, Types0
<1>4. TableSound' /\ DiskTabled'
  BY <1>1 DEF TableSound, DiskTabled
<1>5. DiskTyped' /\ DiskUnaliased' /\ DiskClosed' /\ EveryEntryOnDisk'
  BY <1>1, <1>2, FS_EmptySet DEF DiskTyped, DiskUnaliased, DiskClosed, EveryEntryOnDisk
<1> QED
  BY <1>3, <1>4, <1>5 DEF ExtractionInv

\* After extraction, entries and disk stay as they are.
LEMMA DiskKeptInv ==
  ASSUME ExtractionInv, UNCHANGED <<host, entries, disk>>,
         phase' # "extract" \/ (phase' = phase /\ UNCHANGED table), Types0'
  PROVE  ExtractionInv'
<1>1. TableSound' /\ DiskTabled'
  <2>1. CASE phase' # "extract"
    BY <2>1 DEF TableSound, DiskTabled
  <2>2. CASE phase' = phase /\ UNCHANGED table
    BY <2>2 DEF ExtractionInv, TableSound, DiskTabled, Fold, Above
  <2> QED
    BY <2>1, <2>2
<1>2. DiskTyped' /\ DiskUnaliased'
  BY DEF ExtractionInv, DiskTyped, DiskUnaliased, Fold
<1>3. DiskClosed' /\ EveryEntryOnDisk'
  BY DEF ExtractionInv, DiskClosed, EveryEntryOnDisk, Named, Above, Fold
<1> QED
  BY <1>1, <1>2, <1>3 DEF ExtractionInv

\* Every step keeps the invariant.
LEMMA ExtractionNext == ExtractionInv /\ [Next]_vars => ExtractionInv'
<1> SUFFICES ASSUME ExtractionInv, [Next]_vars PROVE ExtractionInv'
  OBVIOUS
<1>0. Types0
  BY DEF ExtractionInv
<1>1. CASE Refused
  BY <1>1, RefusedInv
<1>2. CASE RootEntry
  <2>1. Types0'
    <3>1. EntryCount' <= MaxEntries
      <4>1. Cardinality(entries) \in Nat
        BY <1>0, FS_CardinalityType DEF Types0
      <4> QED
        BY <1>2, <4>1, LimitAssumption DEF RootEntry, EntryCount
    <3> QED
      BY <1>0, <1>2, <3>1 DEF RootEntry, Types0
  <2> QED
    BY <1>2, <2>1, DiskKeptInv DEF RootEntry
<1>3. CASE \E e \in Entry : Accepted(e)
  BY <1>3, AcceptedTypes, AcceptedTable, AcceptedTyped, AcceptedTabled, AcceptedUnaliased,
     AcceptedClosed, AcceptedOnDisk DEF ExtractionInv
<1>4. CASE ArchiveRead
  <2>1. Types0'
    <3>1. DOMAIN <<>> = {}
      OBVIOUS
    <3> QED
      BY <1>0, <1>4, <3>1, FS_EmptySet, LimitAssumption DEF ArchiveRead, Types0, EntryCount
  <2> QED
    BY <1>4, <2>1, DiskKeptInv DEF ArchiveRead
<1>5. CASE Validated
  <2>1. Types0'
    BY <1>0, <1>5, PathAssumption DEF Validated, Types0, EntryCount, archive
  <2> QED
    BY <1>5, <2>1, DiskKeptInv DEF Validated, archive
<1>6. CASE LineVerified
  <2>1. Types0'
    <3>1. PICK p \in Path : lines' = lines \cup {p} /\ Cardinality(lines) < MaxEntries
      BY <1>6 DEF LineVerified
    <3>2. IsFiniteSet(lines') /\ Cardinality(lines') <= MaxEntries
      <4>1. IsFiniteSet(lines) /\ Cardinality(lines) \in Nat
        BY <1>0, FS_CardinalityType DEF Types0
      <4>2. /\ IsFiniteSet(lines \cup {p})
            /\ Cardinality(lines \cup {p}) = IF p \in lines THEN Cardinality(lines)
                                             ELSE Cardinality(lines) + 1
        BY <4>1, FS_AddElement
      <4> QED
        BY <3>1, <4>1, <4>2, LimitAssumption
    <3> QED
      BY <1>0, <1>6, <3>1, <3>2 DEF LineVerified, Types0, EntryCount, archive
  <2> QED
    BY <1>6, <2>1, DiskKeptInv DEF LineVerified, archive
<1>7. CASE Admitted
  <2>1. Types0'
    BY <1>0, <1>7 DEF Admitted, Types0, EntryCount, archive
  <2> QED
    BY <1>7, <2>1, DiskKeptInv DEF Admitted, archive
<1>8. CASE UNCHANGED vars
  <2>1. Types0'
    BY <1>0, <1>8 DEF vars, Types0, EntryCount, archive
  <2> QED
    BY <1>8, <2>1, DiskKeptInv DEF vars, archive
<1> QED
  BY <1>1, <1>2, <1>3, <1>4, <1>5, <1>6, <1>7, <1>8, StepCases

\* The invariant holds before the first header.
LEMMA ExtractionInit == Init => ExtractionInv
<1> SUFFICES ASSUME Init PROVE ExtractionInv
  OBVIOUS
<1>1. DOMAIN <<>> = {}
  OBVIOUS
<1>2. Types0
  <2>1. EntryCount <= MaxEntries /\ Cardinality(lines) <= MaxEntries
        /\ Cardinality(DOMAIN table) <= MaxTable
    BY <1>1, FS_EmptySet, LimitAssumption DEF Init, EntryCount
  <2>2. IsFiniteSet(entries) /\ IsFiniteSet(lines) /\ 0 <= MaxBytes
    BY FS_EmptySet, LimitAssumption DEF Init
  <2> QED
    BY <1>1, <2>1, <2>2 DEF Init, Types0
<1>3. TableSound /\ DiskTabled
  BY <1>1 DEF Init, TableSound, DiskTabled
<1>4. DiskTyped /\ DiskUnaliased /\ DiskClosed /\ EveryEntryOnDisk
  BY <1>1, FS_EmptySet DEF Init, DiskTyped, DiskUnaliased, DiskClosed, EveryEntryOnDisk
<1> QED
  BY <1>2, <1>3, <1>4 DEF ExtractionInv

\* Entries, table and disk stay in step throughout.
THEOREM Extraction == Spec => []ExtractionInv
BY ExtractionInit, ExtractionNext, PTL DEF Spec

\* Names, counts and sizes are well typed and within their limits.
THEOREM AdmissionTypeCorrect == Spec => []TypeOK
<1>1. ExtractionInv => TypeOK
  BY DEF ExtractionInv, Types0, DiskTyped, TypeOK
<1> QED
  BY <1>1, Extraction, PTL

\* The incremental table decides the pairwise rule on entries: it misses no
\* alias and refuses no directory listed after its contents.
THEOREM TableMatchesReference == Spec => []RegisterMatchesReference
<1>1. ExtractionInv => RegisterMatchesReference
  BY TableDecides DEF ExtractionInv, RegisterMatchesReference
<1> QED
  BY <1>1, Extraction, PTL

\* Every accepted entry is on disk with its own type.
THEOREM NoEntryDropped == Spec => []EveryEntryOnDisk
<1>1. ExtractionInv => EveryEntryOnDisk
  BY DEF ExtractionInv
<1> QED
  BY <1>1, Extraction, PTL

(***************************************************************************)
(* Recursion along a well-founded relation. The library states it with an  *)
(* operator for the recursive definition; here the definition is a         *)
(* function, H, so that the provers can be given it.                       *)
(***************************************************************************)

\* H gives the value of a function at x from its values below x.
Recursive(H, R, X, V) ==
  /\ H \in [X -> [[X -> V] -> V]]
  /\ \A x \in X : \A g, h \in [X -> V] :
       (\A y \in X : <<y, x>> \in R => g[y] = h[y]) => H[x][g] = H[x][h]

\* A function that is defined by recursion along a well-founded relation
\* exists.
LEMMA RecursionExists ==
  ASSUME NEW X, NEW V, NEW v \in V, NEW R, IsWellFoundedOn(R, X), IsTransitivelyClosedOn(R, X),
         NEW H, Recursive(H, R, X, V)
  PROVE  \E f \in [X -> V] : \A x \in X : f[x] = H[x][f]
<1> USE DEF Recursive
<1> DEFINE Below(y, x) == y = x \/ <<y, x>> \in R
           Good(g, x)  == g \in [X -> V] /\ \A y \in X : Below(y, x) => g[y] = H[y][g]
<1>1. \A x, y, z \in X : <<x, y>> \in R /\ <<y, z>> \in R => <<x, z>> \in R
  BY DEF IsTransitivelyClosedOn
<1>2. ASSUME NEW x \in X, NEW z \in X, NEW g, NEW h, Good(g, x), Good(h, z),
             NEW y \in X, Below(y, x), Below(y, z)
      PROVE  g[y] = h[y]
  <2> DEFINE T == {w \in X : Below(w, x) /\ Below(w, z) /\ g[w] # h[w]}
  <2> SUFFICES ASSUME T # {} PROVE FALSE
    BY <1>2
  <2>1. PICK w \in T : \A u \in T : ~(<<u, w>> \in R)
    <3>1. T \subseteq X
      OBVIOUS
    <3> HIDE DEF T
    <3> QED
      BY <3>1, WFMin
  <2>2. \A u \in X : <<u, w>> \in R => g[u] = h[u]
    BY <1>1, <2>1
  <2>3. H[w][g] = H[w][h]
    BY <1>2, <2>1, <2>2
  <2> QED
    BY <1>2, <2>1, <2>3
<1>3. \A x \in X : \E g : Good(g, x)
  <2> DEFINE T == {x \in X : ~\E g : Good(g, x)}
  <2> SUFFICES ASSUME T # {} PROVE FALSE
    OBVIOUS
  <2>1. PICK x \in T : \A u \in T : ~(<<u, x>> \in R)
    <3>1. T \subseteq X
      OBVIOUS
    <3> HIDE DEF T
    <3> QED
      BY <3>1, WFMin
  <2> DEFINE c(y) == CHOOSE g : Good(g, y)
             f0   == [y \in X |-> IF <<y, x>> \in R THEN c(y)[y] ELSE v]
             f1   == [y \in X |-> IF y = x THEN H[x][f0] ELSE f0[y]]
  <2>2. \A y \in X : <<y, x>> \in R => Good(c(y), y)
    BY <2>1
  <2>3. f0 \in [X -> V]
    <3>1. \A y \in X : <<y, x>> \in R => c(y)[y] \in V
      BY <2>2
    <3> HIDE DEF c
    <3> QED
      BY <3>1
  <2>4. f1 \in [X -> V]
    <3>1. H[x][f0] \in V /\ \A y \in X : f0[y] \in V
      <4> HIDE DEF f0
      <4> QED
        BY <2>1, <2>3
    <3> HIDE DEF f0
    <3> QED
      BY <3>1
  <2>5. ASSUME NEW y \in X, <<y, x>> \in R PROVE f0[y] = H[y][f0]
    <3>1. Good(c(y), y)
      BY <2>2, <2>5
    <3>2. ASSUME NEW u \in X, <<u, y>> \in R PROVE f0[u] = c(y)[u]
      <4>1. <<u, x>> \in R
        BY <1>1, <2>1, <2>5, <3>2
      <4>2. Good(c(u), u)
        BY <2>2, <4>1
      <4>3. Below(u, u) /\ Below(u, y)
        BY <3>2
      <4> HIDE DEF c, Good, Below
      <4>4. c(u)[u] = c(y)[u]
        BY <1>2, <3>1, <4>2, <4>3
      <4> QED
        BY <4>1, <4>4
    <3>3. c(y) \in [X -> V] /\ c(y)[y] = H[y][c(y)]
      BY <3>1
    <3>4. f0[y] = c(y)[y]
      BY <2>5
    <3> HIDE DEF c, f0
    <3> QED
      BY <2>3, <3>2, <3>3, <3>4
  <2>6. x \in X /\ ~(<<x, x>> \in R)
    BY <2>1
  <2>7. \A y \in X : <<y, x>> \in R => f1[y] = f0[y]
    BY <2>6
  <2>8. f1[x] = H[x][f0]
    BY <2>6
  <2> HIDE DEF f0, f1
  <2>9. H[x][f0] = H[x][f1]
    BY <2>3, <2>4, <2>6, <2>7
  <2>10. ASSUME NEW y \in X, <<y, x>> \in R PROVE f1[y] = H[y][f1]
    <3>1. \A u \in X : <<u, y>> \in R => f1[u] = f0[u]
      BY <1>1, <2>6, <2>7, <2>10
    <3> QED
      BY <2>3, <2>4, <2>5, <2>7, <2>10, <3>1
  <2>11. Good(f1, x)
    BY <2>4, <2>8, <2>9, <2>10
  <2> QED
    BY <2>1, <2>11
<1> DEFINE c(y) == CHOOSE g : Good(g, y)
           f    == [y \in X |-> c(y)[y]]
<1>4. \A y \in X : Good(c(y), y)
  BY <1>3
<1>5. ASSUME NEW y \in X, NEW u \in X, <<u, y>> \in R PROVE f[u] = c(y)[u]
  <2>1. Good(c(u), u) /\ Good(c(y), y)
    BY <1>4
  <2>2. Below(u, u) /\ Below(u, y)
    BY <1>5
  <2> HIDE DEF Good, c, Below
  <2>3. c(u)[u] = c(y)[u]
    BY <1>2, <2>1, <2>2
  <2> QED
    BY <2>3
<1>6. \A y \in X : c(y) \in [X -> V] /\ c(y)[y] = H[y][c(y)] /\ f[y] = c(y)[y]
  BY <1>4
<1>7. f \in [X -> V]
  <2>1. \A y \in X : c(y)[y] \in V
    BY <1>6
  <2> HIDE DEF c
  <2> QED
    BY <2>1
<1> HIDE DEF c, f
<1>8. \A y \in X : f[y] = H[y][f]
  BY <1>5, <1>6, <1>7
<1> QED
  BY <1>7, <1>8

(***************************************************************************)
(* Sums over finite sets, as MapThenSumSet folds them.                     *)
(***************************************************************************)
IsSum(f, g, D) ==
  f = [s \in SUBSET D |-> IF s = {} THEN 0 ELSE g[TheOne(s)] + f[s \ {TheOne(s)}]]

Summing(f, g, D) ==
  IsFiniteSet(D) /\ g \in [D -> Nat] /\ f \in [SUBSET D -> Nat] /\ IsSum(f, g, D)

\* A choice from a non-empty set is a member.
LEMMA TheOneFacts == \A S : S # {} => TheOne(S) \in S
BY DEF TheOne

\* The strict subsets of a finite set are well founded.
LEMMA SubsetsWellFounded ==
  ASSUME NEW D, IsFiniteSet(D)
  PROVE  /\ IsWellFoundedOn(StrictSubsetOrdering(D), SUBSET D)
         /\ IsTransitivelyClosedOn(StrictSubsetOrdering(D), SUBSET D)
         /\ \A s, t \in SUBSET D : <<s, t>> \in StrictSubsetOrdering(D) <=> s \subseteq t /\ s # t
<1>1. \A s, t \in SUBSET D : <<s, t>> \in StrictSubsetOrdering(D) <=> s \subseteq t /\ s # t
  BY DEF StrictSubsetOrdering
<1>2. IsTransitivelyClosedOn(StrictSubsetOrdering(D), SUBSET D)
  <2>1. \A i, j, k \in SUBSET D : (i \subseteq j /\ i # j) /\ (j \subseteq k /\ j # k) => i \subseteq k /\ i # k
    OBVIOUS
  <2> QED
    BY <1>1, <2>1 DEF IsTransitivelyClosedOn
<1>3. IsWellFoundedOn(StrictSubsetOrdering(D), SUBSET D)
  BY FS_StrictSubsetOrderingWellFounded, FS_FiniteSubsetsOfFinite
<1> QED
  BY <1>1, <1>2, <1>3

\* A non-empty family of subsets of a finite set has a minimal member.
LEMMA MinimalSubset ==
  ASSUME NEW D, IsFiniteSet(D), NEW T, T \subseteq SUBSET D, T # {}
  PROVE  \E s \in T : \A t \in T : t \subseteq s => t = s
<1>1. PICK s \in T : \A t \in T : ~(<<t, s>> \in StrictSubsetOrdering(D))
  <2> DEFINE X == SUBSET D
             R == StrictSubsetOrdering(D)
  <2>1. IsWellFoundedOn(R, X) /\ T \subseteq X
    BY SubsetsWellFounded
  <2> HIDE DEF X, R
  <2>2. \E s \in T : \A t \in T : ~(<<t, s>> \in R)
    BY <2>1, WFMin
  <2> QED
    BY <2>2 DEF R
<1>2. \A a, b \in SUBSET D : <<a, b>> \in StrictSubsetOrdering(D) <=> a \subseteq b /\ a # b
  BY SubsetsWellFounded
<1>3. \A t \in T : t \in SUBSET D
  OBVIOUS
<1> QED
  BY <1>1, <1>2, <1>3

\* Every finite family of numbers has sums.
LEMMA SumExists ==
  ASSUME NEW D, IsFiniteSet(D), NEW g \in [D -> Nat]
  PROVE  \E f \in [SUBSET D -> Nat] : IsSum(f, g, D)
<1> DEFINE X == SUBSET D
           R == StrictSubsetOrdering(D)
           step(s, f) == IF s = {} THEN 0 ELSE g[TheOne(s)] + f[s \ {TheOne(s)}]
           H == [s \in X |-> [f \in [X -> Nat] |-> step(s, f)]]
<1>1. \A s \in X : s # {} => TheOne(s) \in D /\ TheOne(s) \in s /\ s \ {TheOne(s)} \in X
  BY TheOneFacts
<1>2. H \in [X -> [[X -> Nat] -> Nat]]
  <2>1. \A s \in X, f \in [X -> Nat] : step(s, f) \in Nat
    BY <1>1
  <2> HIDE DEF step, X
  <2> QED
    BY <2>1
<1>3. \A s \in X, f \in [X -> Nat] : H[s][f] = step(s, f)
  OBVIOUS
<1>4. ASSUME NEW s \in X, NEW f \in [X -> Nat], NEW h \in [X -> Nat],
             \A t \in X : <<t, s>> \in R => f[t] = h[t]
      PROVE  H[s][f] = H[s][h]
  <2>1. s # {} => <<s \ {TheOne(s)}, s>> \in R
    <3>1. \A a, b \in X : <<a, b>> \in R <=> a \subseteq b /\ a # b
      BY SubsetsWellFounded
    <3>2. s # {} => s \ {TheOne(s)} \in X /\ s \ {TheOne(s)} \subseteq s /\ s \ {TheOne(s)} # s
      BY <1>1
    <3> HIDE DEF X, R
    <3> QED
      BY <3>1, <3>2, <1>4
  <2>2. step(s, f) = step(s, h)
    BY <1>1, <1>4, <2>1
  <2> HIDE DEF H, step
  <2> QED
    BY <1>3, <2>2
<1>5. IsWellFoundedOn(R, X) /\ IsTransitivelyClosedOn(R, X) /\ 0 \in Nat
  BY SubsetsWellFounded
<1> HIDE DEF H, R
<1>6. \A s \in X : \A f, h \in [X -> Nat] :
        (\A t \in X : <<t, s>> \in R => f[t] = h[t]) => H[s][f] = H[s][h]
  BY <1>4
<1>7. PICK f \in [X -> Nat] : \A s \in X : f[s] = H[s][f]
  <2> DEFINE V == Nat
  <2>1. Recursive(H, R, X, V) /\ 0 \in V
    BY <1>2, <1>6 DEF Recursive
  <2> HIDE DEF X, V
  <2>3. \E f \in [X -> V] : \A s \in X : f[s] = H[s][f]
    BY <1>5, <2>1, RecursionExists
  <2> QED
    BY <2>3 DEF V
<1>8. \A s \in X : f[s] = step(s, f)
  BY <1>3, <1>7
<1>9. f = [s \in X |-> step(s, f)]
  <2> HIDE DEF step
  <2> QED
    BY <1>7, <1>8
<1> QED
  BY <1>7, <1>9 DEF IsSum

\* A sum depends only on the terms it adds.
LEMMA SumUnique ==
  ASSUME NEW D, NEW E, IsFiniteSet(D), NEW f, NEW g, NEW h, NEW k,
         IsSum(f, g, D), IsSum(h, k, E), NEW S, S \subseteq D, S \subseteq E,
         \A x \in S : g[x] = k[x]
  PROVE  f[S] = h[S]
<1> DEFINE T == {t \in SUBSET D : t \subseteq S /\ f[t] # h[t]}
<1> SUFFICES ASSUME T # {} PROVE FALSE
  OBVIOUS
<1>1. PICK t \in T : \A u \in T : u \subseteq t => u = t
  <2>1. T \subseteq SUBSET D
    OBVIOUS
  <2> HIDE DEF T
  <2> QED
    BY <2>1, MinimalSubset
<1>2. /\ f[t] = IF t = {} THEN 0 ELSE g[TheOne(t)] + f[t \ {TheOne(t)}]
      /\ h[t] = IF t = {} THEN 0 ELSE k[TheOne(t)] + h[t \ {TheOne(t)}]
  <2>1. t \in SUBSET D /\ t \in SUBSET E
    BY <1>1
  <2> QED
    BY <2>1 DEF IsSum
<1>3. t # {} => g[TheOne(t)] = k[TheOne(t)] /\ f[t \ {TheOne(t)}] = h[t \ {TheOne(t)}]
  BY <1>1, TheOneFacts
<1> QED
  BY <1>1, <1>2, <1>3

\* Any term can be taken out of a sum.
LEMMA SumRemove ==
  ASSUME NEW D, NEW g, NEW f, Summing(f, g, D), NEW S \in SUBSET D, NEW x \in S
  PROVE  f[S] = f[S \ {x}] + g[x]
<1>0. IsFiniteSet(D) /\ g \in [D -> Nat] /\ f \in [SUBSET D -> Nat] /\ IsSum(f, g, D)
  BY DEF Summing
<1> DEFINE T == {t \in SUBSET D : \E y \in t : f[t] # f[t \ {y}] + g[y]}
<1> SUFFICES ASSUME T # {} PROVE FALSE
  OBVIOUS
<1>1. PICK t \in T : \A u \in T : u \subseteq t => u = t
  <2>1. T \subseteq SUBSET D
    OBVIOUS
  <2> HIDE DEF T
  <2> QED
    BY <1>0, <2>1, MinimalSubset
<1>2. PICK y \in t : f[t] # f[t \ {y}] + g[y]
  BY <1>1
<1> DEFINE z == TheOne(t)
<1>3. z \in t /\ t \subseteq D
  BY <1>1, <1>2, TheOneFacts
<1>4. f[t] = g[z] + f[t \ {z}]
  BY <1>0, <1>2, <1>3 DEF IsSum
<1> HIDE DEF z
<1>5. z # y
  <2>1. f[t \ {z}] \in Nat /\ g[z] \in Nat
    BY <1>0, <1>3
  <2>2. f[t \ {z}] + g[z] = g[z] + f[t \ {z}]
    BY <2>1
  <2> QED
    BY <1>2, <1>4, <2>2, Zenon
<1>6. f[t \ {z}] = f[(t \ {z}) \ {y}] + g[y]
  <2>1. t \ {z} \in SUBSET D /\ y \in t \ {z} /\ t \ {z} # t /\ t \ {z} \subseteq t
    BY <1>2, <1>3, <1>5
  <2> QED
    BY <1>1, <2>1
<1>7. f[t \ {y}] = f[(t \ {y}) \ {z}] + g[z]
  <2>1. t \ {y} \in SUBSET D /\ z \in t \ {y} /\ t \ {y} # t /\ t \ {y} \subseteq t
    BY <1>2, <1>3, <1>5
  <2> QED
    BY <1>1, <2>1
<1>8. (t \ {z}) \ {y} = (t \ {y}) \ {z}
  OBVIOUS
<1>9. f[(t \ {y}) \ {z}] \in Nat /\ g[y] \in Nat /\ g[z] \in Nat
  BY <1>0, <1>2, <1>3
<1> DEFINE r == f[(t \ {y}) \ {z}]
<1>10. f[t] = g[z] + (r + g[y]) /\ f[t \ {y}] = r + g[z] /\ f[t] # f[t \ {y}] + g[y]
  BY <1>2, <1>4, <1>6, <1>7, <1>8
<1> HIDE DEF r
<1>11. \A a, b, c \in Nat : b + (a + c) = (a + b) + c
  OBVIOUS
<1>12. r \in Nat
  BY <1>9 DEF r
<1>13. g[z] + (r + g[y]) = (r + g[z]) + g[y]
  BY <1>9, <1>11, <1>12
<1> QED
  BY <1>10, <1>13, Zenon

\* Terms that are zero can be left out.
LEMMA SumZeros ==
  ASSUME NEW D, NEW g, NEW f, Summing(f, g, D),
         NEW S \in SUBSET D, NEW Z \in SUBSET D, S \subseteq Z, \A x \in Z \ S : g[x] = 0
  PROVE  f[Z] = f[S]
<1>0. IsFiniteSet(D) /\ g \in [D -> Nat] /\ f \in [SUBSET D -> Nat] /\ IsSum(f, g, D)
  BY DEF Summing
<1> DEFINE T == {t \in SUBSET D : S \subseteq t /\ t \subseteq Z /\ f[t] # f[S]}
<1> SUFFICES ASSUME T # {} PROVE FALSE
  OBVIOUS
<1>1. PICK t \in T : \A u \in T : u \subseteq t => u = t
  <2>1. T \subseteq SUBSET D
    OBVIOUS
  <2> HIDE DEF T
  <2> QED
    BY <1>0, <2>1, MinimalSubset
<1>2. PICK x \in t \ S : TRUE
  <2>1. S \subseteq t /\ f[t] # f[S]
    BY <1>1
  <2>2. t # S
    BY <2>1, Zenon
  <2> QED
    BY <2>1, <2>2
<1>3. f[t \ {x}] = f[S] /\ g[x] = 0 /\ f[t \ {x}] \in Nat
  BY <1>0, <1>1, <1>2
<1>4. f[t] = f[t \ {x}] + g[x]
  BY <1>1, <1>2, SumRemove
<1> QED
  BY <1>1, <1>3, <1>4

(***************************************************************************)
(* The budget: what lies on disk is never more than what was declared.     *)
(***************************************************************************)
Sizes(d)   == [q \in DOMAIN d |-> d[q].size]
SizeSum(d) == MapThenSumSet(LAMBDA q : d[q].size, DOMAIN d)

\* The fold over the sizes of a disk is their sum.
LEMMA SizeSumIsSum ==
  ASSUME NEW d, IsFiniteSet(DOMAIN d), \A q \in DOMAIN d : d[q].size \in Nat
  PROVE  \E f \in [SUBSET DOMAIN d -> Nat] :
           IsSum(f, Sizes(d), DOMAIN d) /\ SizeSum(d) = f[DOMAIN d]
<1> DEFINE D == DOMAIN d
           body(s, i) == IF s = {} THEN 0
                         ELSE LET x == CHOOSE x \in s : TRUE IN d[x].size + i[s \ {x}]
           iter == CHOOSE i : i = [s \in SUBSET D |-> body(s, i)]
<1>1. Sizes(d) \in [D -> Nat]
  BY DEF Sizes
<1>2. PICK f \in [SUBSET D -> Nat] : IsSum(f, Sizes(d), D)
  BY <1>1, SumExists
<1>3. ASSUME NEW i
      PROVE  i = [s \in SUBSET D |-> body(s, i)] <=> IsSum(i, Sizes(d), D)
  <2>1. ASSUME NEW s \in SUBSET D
        PROVE  body(s, i) = IF s = {} THEN 0 ELSE Sizes(d)[TheOne(s)] + i[s \ {TheOne(s)}]
    <3>1. CASE s = {}
      BY <3>1
    <3>2. CASE s # {}
      <4>1. TheOne(s) \in D /\ Sizes(d)[TheOne(s)] = d[TheOne(s)].size
        BY <3>2, TheOneFacts DEF Sizes
      <4> QED
        BY <3>2, <4>1 DEF TheOne
    <3> QED
      BY <3>1, <3>2
  <2>2. [s \in SUBSET D |-> body(s, i)]
        = [s \in SUBSET D |-> IF s = {} THEN 0 ELSE Sizes(d)[TheOne(s)] + i[s \ {TheOne(s)}]]
    <3> HIDE DEF body, D
    <3> QED
      BY <2>1
  <2> HIDE DEF body
  <2> QED
    BY <2>2 DEF IsSum
<1>4. IsSum(iter, Sizes(d), D)
  <2>1. f = [s \in SUBSET D |-> body(s, f)]
    BY <1>2, <1>3
  <2> HIDE DEF body
  <2>2. iter = [s \in SUBSET D |-> body(s, iter)]
    BY <2>1
  <2> HIDE DEF iter
  <2> QED
    BY <1>3, <2>2
<1>5. SizeSum(d) = iter[D]
  BY DEF SizeSum, MapThenSumSet, MapThenFoldSet
<1> HIDE DEF iter
<1>6. iter[D] = f[D]
  BY <1>2, <1>4, SumUnique
<1> QED
  BY <1>2, <1>5, <1>6

\* New objects add their sizes; only one of them has any.
LEMMA SizeSumGrows ==
  ASSUME NEW d, NEW d2, IsFiniteSet(DOMAIN d), IsFiniteSet(DOMAIN d2),
         \A q \in DOMAIN d : d[q].size \in Nat, \A q \in DOMAIN d2 : d2[q].size \in Nat,
         DOMAIN d \subseteq DOMAIN d2, \A q \in DOMAIN d : d2[q] = d[q],
         NEW p, NEW n \in Nat, \A q \in DOMAIN d2 \ DOMAIN d : d2[q].size = IF q = p THEN n ELSE 0
  PROVE  SizeSum(d) \in Nat /\ SizeSum(d2) \in Nat /\ SizeSum(d2) <= SizeSum(d) + n
<1> DEFINE D  == DOMAIN d
           D2 == DOMAIN d2
           g  == Sizes(d)
           g2 == Sizes(d2)
<1>1. PICK f \in [SUBSET D -> Nat] : IsSum(f, g, D) /\ SizeSum(d) = f[D]
  BY SizeSumIsSum
<1>2. PICK f2 \in [SUBSET D2 -> Nat] : IsSum(f2, g2, D2) /\ SizeSum(d2) = f2[D2]
  BY SizeSumIsSum
<1>3. g2 \in [D2 -> Nat] /\ \A q \in D : g2[q] = g[q]
  BY DEF Sizes
<1>4. \A q \in D2 \ D : g2[q] = IF q = p THEN n ELSE 0
  BY DEF Sizes
<1>5. D \in SUBSET D2 /\ IsFiniteSet(D2) /\ IsFiniteSet(D)
  OBVIOUS
<1> HIDE DEF D, D2, g, g2
<1>6. Summing(f2, g2, D2)
  BY <1>2, <1>3, <1>5 DEF Summing
<1>7. f2[D] = f[D]
  BY <1>1, <1>2, <1>3, <1>5, SumUnique
<1>8. CASE p \in D2 \ D
  <2> DEFINE E == D2 \ {p}
  <2>1. E \in SUBSET D2 /\ D \subseteq E /\ p \in D2 /\ \A q \in E \ D : g2[q] = 0
    BY <1>4, <1>5, <1>8
  <2> HIDE DEF E
  <2>2. f2[E] = f2[D]
    BY <1>5, <1>6, <2>1, SumZeros
  <2>3. f2[D2] = f2[E] + g2[p]
    <3>1. D2 \in SUBSET D2
      OBVIOUS
    <3> QED
      BY <1>6, <2>1, <3>1, SumRemove DEF E
  <2>4. g2[p] = n /\ f[D] \in Nat
    BY <1>4, <1>5, <1>8
  <2> QED
    BY <1>1, <1>2, <1>7, <2>2, <2>3, <2>4
<1>9. CASE p \notin D2 \ D
  <2>1. \A q \in D2 \ D : g2[q] = 0
    BY <1>4, <1>9
  <2>2. f2[D2] = f2[D]
    <3>1. D2 \in SUBSET D2 /\ D \subseteq D2
      BY <1>5
    <3> QED
      BY <1>5, <1>6, <2>1, <3>1, SumZeros
  <2>3. f[D] \in Nat
    OBVIOUS
  <2> QED
    BY <1>1, <1>2, <1>7, <2>2, <2>3
<1> QED
  BY <1>8, <1>9

\* The disk never holds more than the declared sizes add up to.
SizesDeclared == SizeSum(disk) \in Nat /\ SizeSum(disk) <= declared

\* An empty disk holds nothing.
LEMMA EmptySum == SizeSum(<<>>) = 0
<1>1. DOMAIN <<>> = {}
  OBVIOUS
<1>2. IsFiniteSet(DOMAIN <<>>) /\ \A q \in DOMAIN <<>> : <<>>[q].size \in Nat
  BY <1>1, FS_EmptySet
<1>3. PICK f \in [SUBSET DOMAIN <<>> -> Nat] :
        IsSum(f, Sizes(<<>>), DOMAIN <<>>) /\ SizeSum(<<>>) = f[DOMAIN <<>>]
  BY <1>2, SizeSumIsSum
<1>4. f[{}] = 0
  BY <1>3 DEF IsSum
<1> QED
  BY <1>1, <1>3, <1>4

\* Every step keeps the sizes within what was declared.
LEMMA SizesNext == ExtractionInv /\ SizesDeclared /\ [Next]_vars => SizesDeclared'
<1> SUFFICES ASSUME ExtractionInv, SizesDeclared, [Next]_vars PROVE SizesDeclared'
  OBVIOUS
<1>1. CASE Refused
  <2>1. disk' = <<>> /\ declared' = 0
    BY <1>1 DEF Refused, Fail
  <2>2. SizeSum(disk)' = SizeSum(disk')
    BY DEF SizeSum, MapThenSumSet, MapThenFoldSet
  <2> QED
    BY <2>1, <2>2, EmptySum DEF SizesDeclared
<1>2. CASE \E e \in Entry : Accepted(e)
  <2>1. PICK e \in Entry : Accepted(e)
    BY <1>2
  <2>2. e.size \in Nat /\ declared \in Nat /\ declared' = declared + e.size
    BY <2>1, EntryAssumption DEF Accepted, ExtractionInv, Types0
  <2>3. /\ IsFiniteSet(DOMAIN disk) /\ \A q \in DOMAIN disk : disk[q].size \in Nat
        /\ IsFiniteSet(DOMAIN disk') /\ \A q \in DOMAIN disk' : disk'[q].size \in Nat
    <3>1. DiskTyped /\ DiskTyped'
      BY <2>1, AcceptedTyped DEF ExtractionInv
    <3> QED
      BY <3>1 DEF DiskTyped
  <2>4. /\ DOMAIN disk \subseteq DOMAIN disk' /\ \A q \in DOMAIN disk : disk'[q] = disk[q]
        /\ \A q \in DOMAIN disk' \ DOMAIN disk : disk'[q].size = IF q = e.path THEN e.size ELSE 0
    BY <2>1, AcceptedDisk, ObjectFacts
  <2>5. SizeSum(disk') \in Nat /\ SizeSum(disk') <= SizeSum(disk) + e.size
    BY <2>2, <2>3, <2>4, SizeSumGrows
  <2>6. SizeSum(disk)' = SizeSum(disk')
    BY DEF SizeSum, MapThenSumSet, MapThenFoldSet
  <2> QED
    BY <2>2, <2>5, <2>6 DEF SizesDeclared
<1>3. CASE UNCHANGED <<disk, declared>>
  <2>1. SizeSum(disk)' = SizeSum(disk)
    BY <1>3 DEF SizeSum, MapThenSumSet, MapThenFoldSet
  <2> QED
    BY <1>3, <2>1 DEF SizesDeclared
<1> QED
  BY <1>1, <1>2, <1>3, StepCases
     DEF RootEntry, ArchiveRead, Validated, LineVerified, Admitted, archive, vars

\* Sparse or not, the extracted files stay within the extraction budget, and
\* path table and line counts within their limits.
THEOREM BudgetKept == Spec => []BudgetRespected
<1>1. Init => SizesDeclared
  <2> SUFFICES ASSUME Init PROVE SizesDeclared
    OBVIOUS
  <2>1. disk = <<>> /\ declared = 0
    BY DEF Init
  <2> QED
    BY <2>1, EmptySum DEF SizesDeclared
<1>2. ExtractionInv /\ SizesDeclared /\ TypeOK => BudgetRespected
  <2> SUFFICES ASSUME ExtractionInv, SizesDeclared, TypeOK PROVE BudgetRespected
    OBVIOUS
  <2>1. declared \in Nat /\ declared <= MaxBytes /\ SizeSum(disk) \in Nat /\ SizeSum(disk) <= declared
    BY DEF ExtractionInv, Types0, SizesDeclared
  <2>2. SizeSum(disk) <= MaxBytes
    BY <2>1, LimitAssumption
  <2> QED
    BY <2>2 DEF BudgetRespected, SizeSum
<1> QED
  BY <1>1, <1>2, SizesNext, Extraction, AdmissionTypeCorrect, PTL DEF Spec

(***************************************************************************)
(* Resolution of a path always ends: a step uses up a segment or one of    *)
(* the links the resolution may follow.                                    *)
(***************************************************************************)

\* A set of numbers has a least one.
LEMMA Least ==
  ASSUME NEW T, T \subseteq Nat, T # {}
  PROVE  \E n \in T : \A m \in T : n <= m
<1>1. PICK n \in T : \A m \in T : ~(<<m, n>> \in OpToRel(<, Nat))
  BY NatLessThanWellFounded, WFMin
<1>2. \A m \in T : ~(m < n)
  <2>1. \A m \in T : m < n => <<m, n>> \in OpToRel(<, Nat)
    BY DEF OpToRel
  <2> QED
    BY <1>1, <2>1
<1>3. \A m \in T : m \in Nat
  OBVIOUS
<1>4. \A m \in Nat : ~(m < n) => n <= m
  BY <1>3
<1> QED
  BY <1>2, <1>3, <1>4

\* A resolution that has fewer links left, or as many and fewer segments.
Shorter == {ww \in Walks \X Walks :
              \/ ww[1].links < ww[2].links
              \/ ww[1].links = ww[2].links /\ Len(ww[1].todo) < Len(ww[2].todo)}

\* The order in terms of its two numbers.
LEMMA ShorterFacts ==
  ASSUME NEW v \in Walks, NEW w \in Walks
  PROVE  /\ <<v, w>> \in Shorter <=> \/ v.links < w.links
                                     \/ v.links = w.links /\ Len(v.todo) < Len(w.todo)
         /\ v.links \in Nat /\ Len(v.todo) \in Nat
BY DEF Shorter, Walks

\* A non-empty set of resolutions has a shortest member.
LEMMA ShortestWalk ==
  ASSUME NEW T, T \subseteq Walks, T # {}
  PROVE  \E w \in T : \A v \in T : ~(<<v, w>> \in Shorter)
<1>1. \A w \in T : w \in Walks /\ w.links \in Nat /\ Len(w.todo) \in Nat
  BY ShorterFacts
<1> DEFINE Links == {w.links : w \in T}
<1>2. PICK n \in Links : \A m \in Links : n <= m
  <2>1. Links \subseteq Nat /\ Links # {}
    BY <1>1
  <2> HIDE DEF Links
  <2> QED
    BY <2>1, Least
<1> DEFINE Lengths == {Len(w.todo) : w \in {v \in T : v.links = n}}
<1>3. PICK k \in Lengths : \A m \in Lengths : k <= m
  <2>1. Lengths \subseteq Nat /\ Lengths # {}
    BY <1>1
  <2> HIDE DEF Lengths
  <2> QED
    BY <2>1, Least
<1>4. PICK w \in T : w.links = n /\ Len(w.todo) = k
  OBVIOUS
<1>5. ASSUME NEW v \in T PROVE ~(<<v, w>> \in Shorter)
  <2>1. n <= v.links /\ (v.links = n => k <= Len(v.todo))
    BY <1>2, <1>3
  <2>2. v \in Walks /\ w \in Walks /\ v.links \in Nat /\ Len(v.todo) \in Nat /\ n \in Nat /\ k \in Nat
    BY <1>1, <1>4
  <2> HIDE DEF Links, Lengths
  <2> QED
    BY <1>4, <2>1, <2>2, ShorterFacts
<1> QED
  BY <1>5

\* There is no endless sequence of ever shorter resolutions.
LEMMA ShorterWellFounded ==
  IsWellFoundedOn(Shorter, Walks) /\ IsTransitivelyClosedOn(Shorter, Walks)
<1>1. IsWellFoundedOn(Shorter, Walks)
  BY ShortestWalk, MinWF
<1>2. \A u, v, w \in Walks : <<u, v>> \in Shorter /\ <<v, w>> \in Shorter => <<u, w>> \in Shorter
  <2> SUFFICES ASSUME NEW u \in Walks, NEW v \in Walks, NEW w \in Walks,
                      <<u, v>> \in Shorter, <<v, w>> \in Shorter
               PROVE  <<u, w>> \in Shorter
    OBVIOUS
  <2>1. \/ u.links < v.links
        \/ u.links = v.links /\ Len(u.todo) < Len(v.todo)
    BY ShorterFacts
  <2>2. \/ v.links < w.links
        \/ v.links = w.links /\ Len(v.todo) < Len(w.todo)
    BY ShorterFacts
  <2>3. /\ u.links \in Nat /\ v.links \in Nat /\ w.links \in Nat
        /\ Len(u.todo) \in Nat /\ Len(v.todo) \in Nat /\ Len(w.todo) \in Nat
    BY ShorterFacts
  <2>4. \/ u.links < w.links
        \/ u.links = w.links /\ Len(u.todo) < Len(w.todo)
    BY <2>1, <2>2, <2>3
  <2> QED
    BY <2>4, ShorterFacts
<1> QED
  BY <1>1, <1>2 DEF IsTransitivelyClosedOn

\* What a segment on the way names is an object.
LEMMA ReachedFacts ==
  ASSUME DiskTyped, NEW w \in Walks, w.todo # <<>>, Named(Append(w.at, Head(w.todo))) # {}
  PROVE  /\ Reached(w) \in Named(Append(w.at, Head(w.todo))) /\ Reached(w) \in DOMAIN disk
         /\ Reached(w) \in Seq(Segment)
         /\ disk[Reached(w)].target \in Seq(Segment \cup {".."})
<1>1. Reached(w) \in Named(Append(w.at, Head(w.todo)))
  BY TheOneFacts DEF Reached
<1>2. Reached(w) \in DOMAIN disk
  BY <1>1 DEF Named
<1> QED
  BY <1>1, <1>2 DEF DiskTyped

\* Every step of a resolution makes it shorter.
LEMMA FurtherShorter ==
  ASSUME DiskTyped, NEW w \in Walks, Verdict(w) = "more"
  PROVE  Further(w) \in Walks /\ <<Further(w), w>> \in Shorter
<1>1. /\ w.links \in Nat /\ w.at \in Seq(Segment) /\ w.todo \in Seq(Segment \cup {".."})
      /\ w = [links |-> w.links, at |-> w.at, todo |-> w.todo]
  BY DEF Walks
<1>2. w.todo # <<>>
  BY DEF Verdict
<1>3. /\ Tail(w.todo) \in Seq(Segment \cup {".."}) /\ Len(Tail(w.todo)) < Len(w.todo)
  BY <1>1, <1>2
<1>4. CASE Head(w.todo) = ".."
  <2>1. w.at # <<>>
    BY <1>2, <1>4 DEF Verdict
  <2>2. Parent(w.at) \in Seq(Segment)
    BY <1>1, <2>1 DEF Parent
  <2>3. Further(w) = [links |-> w.links, at |-> Parent(w.at), todo |-> Tail(w.todo)]
    BY <1>1, <1>4 DEF Further
  <2>4. Further(w) \in Walks
    BY <1>1, <1>3, <2>2, <2>3 DEF Walks
  <2> QED
    BY <1>3, <2>3, <2>4, ShorterFacts
<1>5. CASE Head(w.todo) # ".."
  <2>1. Named(Append(w.at, Head(w.todo))) # {}
    BY <1>2, <1>5 DEF Verdict
  <2>2. Reached(w) \in Seq(Segment) /\ disk[Reached(w)].target \in Seq(Segment \cup {".."})
    BY <1>2, <2>1, ReachedFacts
  <2>3. CASE disk[Reached(w)].type = "link"
    <3>1. w.links # 0
      BY <1>2, <1>5, <2>1, <2>3 DEF Verdict
    <3>2. Further(w) = [links |-> w.links - 1, at |-> w.at,
                        todo |-> disk[Reached(w)].target \o Tail(w.todo)]
      BY <1>1, <1>5, <2>3 DEF Further
    <3>3. disk[Reached(w)].target \o Tail(w.todo) \in Seq(Segment \cup {".."})
      BY <1>3, <2>2
    <3>4. Further(w) \in Walks
      BY <1>1, <3>1, <3>2, <3>3 DEF Walks
    <3>5. w.links - 1 < w.links /\ Further(w).links = w.links - 1
      BY <1>1, <3>1, <3>2
    <3> QED
      BY <3>4, <3>5, ShorterFacts
  <2>4. CASE disk[Reached(w)].type # "link"
    <3>1. Further(w) = [links |-> w.links, at |-> Reached(w), todo |-> Tail(w.todo)]
      BY <1>1, <1>5, <2>4 DEF Further
    <3>2. Further(w) \in Walks
      BY <1>1, <1>3, <2>2, <3>1 DEF Walks
    <3> QED
      BY <1>3, <3>1, <3>2, ShorterFacts
  <2> QED
    BY <2>3, <2>4
<1> QED
  BY <1>4, <1>5

Verdicts == {"at", "outside", "missing", "loop", "more"}
Ending(w) == [status |-> Verdict(w), path |-> IF Verdict(w) = "at" THEN w.at ELSE <<>>]

\* The end of a resolution is a verdict and a path.
LEMMA EndingFacts ==
  ASSUME NEW w \in Walks
  PROVE  Ending(w) \in [status : Verdicts, path : Seq(Segment)]
<1>1. Verdict(w) \in Verdicts
  BY DEF Verdict, Verdicts
<1>2. w.at \in Seq(Segment) /\ <<>> \in Seq(Segment)
  BY DEF Walks
<1> QED
  BY <1>1, <1>2 DEF Ending

\* So resolution is what its recursive definition says.
LEMMA WalkFacts ==
  ASSUME DiskTyped
  PROVE  \A w \in Walks :
           Walk[w] = IF Verdict(w) = "more" THEN Walk[Further(w)] ELSE Ending(w)
<1> DEFINE V == [status : Verdicts, path : Seq(Segment)]
           step(w, g) == IF Verdict(w) = "more" THEN g[Further(w)] ELSE Ending(w)
           H == [w \in Walks |-> [g \in [Walks -> V] |-> step(w, g)]]
<1>1. \A w \in Walks : Ending(w) \in V
  BY EndingFacts
<1>2. \A w \in Walks : Verdict(w) = "more" => Further(w) \in Walks /\ <<Further(w), w>> \in Shorter
  BY FurtherShorter
<1>3. \E v : v \in V
  <2>1. [status |-> "at", path |-> <<>>] \in V
    BY DEF Verdicts
  <2> QED
    BY <2>1
<1> HIDE DEF V
<1>4. \A w \in Walks, g \in [Walks -> V] : step(w, g) \in V /\ H[w][g] = step(w, g)
  BY <1>1, <1>2
<1>5. ASSUME NEW w \in Walks, NEW g \in [Walks -> V], NEW h \in [Walks -> V],
             \A v \in Walks : <<v, w>> \in Shorter => g[v] = h[v]
      PROVE  H[w][g] = H[w][h]
  <2>1. step(w, g) = step(w, h)
    BY <1>2, <1>5
  <2> QED
    BY <1>4, <2>1
<1>6. Recursive(H, Shorter, Walks, V)
  <2>1. H \in [Walks -> [[Walks -> V] -> V]]
    <3> HIDE DEF step
    <3> QED
      BY <1>4
  <2> HIDE DEF H
  <2> QED
    BY <1>5, <2>1 DEF Recursive
<1> HIDE DEF H
<1>7. PICK f \in [Walks -> V] : \A w \in Walks : f[w] = H[w][f]
  BY <1>3, <1>6, ShorterWellFounded, RecursionExists
<1>8. f = [w \in Walks |-> step(w, f)]
  <2>1. \A w \in Walks : f[w] = step(w, f)
    BY <1>4, <1>7
  <2> HIDE DEF step
  <2> QED
    BY <1>7, <2>1
<1>9. Walk = [w \in Walks |-> step(w, Walk)]
  BY <1>8 DEF Walk, Ending
<1> QED
  BY <1>9

\* Where a resolution leads is a path.
LEMMA WalkPath ==
  ASSUME DiskTyped
  PROVE  \A w \in Walks : Walk[w].path \in Seq(Segment)
<1> DEFINE Bad == {w \in Walks : ~(Walk[w].path \in Seq(Segment))}
<1> SUFFICES ASSUME Bad # {} PROVE FALSE
  OBVIOUS
<1>1. PICK w \in Bad : \A v \in Bad : ~(<<v, w>> \in Shorter)
  <2>1. Bad \subseteq Walks
    OBVIOUS
  <2> HIDE DEF Bad
  <2> QED
    BY <2>1, ShortestWalk
<1>2. w \in Walks
  OBVIOUS
<1>3. Verdict(w) # "more" => Walk[w] = Ending(w) /\ Ending(w).path \in Seq(Segment)
  BY <1>2, WalkFacts, EndingFacts
<1>4. Verdict(w) = "more" => /\ Walk[w] = Walk[Further(w)] /\ Further(w) \in Walks
                            /\ <<Further(w), w>> \in Shorter
  BY <1>2, WalkFacts, FurtherShorter
<1> QED
  BY <1>1, <1>3, <1>4

(***************************************************************************)
(* Where the names of segments lead.                                       *)
(***************************************************************************)

\* The last segment of a path and what is before it.
LEMMA LastSegment ==
  ASSUME NEW x \in Seq(Segment), x # <<>>
  PROVE  /\ Parent(x) \in Seq(Segment) /\ Len(Parent(x)) = Len(x) - 1 /\ Len(x) \in Nat \ {0}
         /\ x[Len(x)] \in Segment /\ x = Append(Parent(x), x[Len(x)])
         /\ Parent(x) # <<>> => Parent(x) \in Above(x)
         /\ \A i \in 1..(Len(x) - 1) : Parent(x)[i] = x[i]
<1>1. Len(x) \in Nat \ {0} /\ x[Len(x)] \in Segment
  OBVIOUS
<1>2. /\ Parent(x) \in Seq(Segment) /\ Len(Parent(x)) = Len(x) - 1
      /\ \A i \in 1..(Len(x) - 1) : Parent(x)[i] = x[i]
  <2>1. Len(x) - 1 \in 0..Len(x)
    BY <1>1
  <2> QED
    BY <2>1, PrefixFacts DEF Parent
<1>3. x = Append(Parent(x), x[Len(x)])
  BY <1>1, <1>2
<1>4. Parent(x) # <<>> => Parent(x) \in Above(x)
  <2>1. Parent(x) # <<>> => Len(x) - 1 \in 1..(Len(x) - 1)
    BY <1>1, <1>2
  <2> QED
    BY <2>1 DEF Above, Parent
<1> QED
  BY <1>1, <1>2, <1>3, <1>4

\* Paths that fold alike have as many segments, which fold alike.
LEMMA SameSegments ==
  ASSUME NEW p \in Seq(Segment), NEW q \in Seq(Segment), Fold(p) = Fold(q)
  PROVE  Len(p) = Len(q) /\ \A i \in 1..Len(p) : Lower[p[i]] = Lower[q[i]]
<1>1. Len(p) = Len(q)
  BY FoldFacts
<1>2. ASSUME NEW i \in 1..Len(p) PROVE Lower[p[i]] = Lower[q[i]]
  <2>1. Fold(p)[i] = Lower[p[i]] /\ Fold(q)[i] = Lower[q[i]]
    BY <1>1, FoldFacts
  <2> QED
    BY <2>1
<1> QED
  BY <1>1, <1>2

\* Names stay the same when they go on with the same segment.
LEMMA AppendName ==
  ASSUME NEW x \in Seq(Segment), NEW b \in Seq(Segment), NEW s \in Segment, SameName(x, b)
  PROVE  SameName(Append(x, s), Append(b, s)) /\ Named(Append(x, s)) = Named(Append(b, s))
<1>1. SameName(Append(x, s), Append(b, s))
  <2>1. CASE x = b
    BY <2>1, NamedFacts
  <2>2. CASE host.folds /\ Fold(x) = Fold(b)
    <3>1. Len(x) = Len(b) /\ \A i \in 1..Len(x) : Lower[x[i]] = Lower[b[i]]
      BY <2>2, SameSegments
    <3>2. \A i \in 1..Len(Append(x, s)) : Lower[Append(x, s)[i]] = Lower[Append(b, s)[i]]
      BY <3>1
    <3>3. Fold(Append(x, s)) = Fold(Append(b, s))
      <4>1. Append(x, s) \in Seq(Segment) /\ Append(b, s) \in Seq(Segment)
            /\ Len(Append(x, s)) = Len(Append(b, s))
        BY <3>1
      <4> QED
        BY <3>2, <4>1, SameFold
    <3> QED
      BY <2>2, <3>3 DEF SameName
  <2> QED
    BY <2>1, <2>2 DEF SameName
<1> QED
  BY <1>1, NamedAlike DEF SameName

\* What has a name below a path has a parent of that name.
LEMMA ParentName ==
  ASSUME NEW x \in Seq(Segment), NEW b \in Seq(Segment), NEW s \in Segment,
         SameName(x, Append(b, s))
  PROVE  x # <<>> /\ Len(x) = Len(b) + 1 /\ SameName(Parent(x), b)
<1>1. Append(b, s) \in Seq(Segment) /\ Len(Append(b, s)) = Len(b) + 1 /\ Parent(Append(b, s)) = b
  BY DEF Parent
<1>2. Fold(x) = Fold(Append(b, s))
  BY NamedFacts
<1>3. Len(x) = Len(b) + 1 /\ \A i \in 1..Len(x) : Lower[x[i]] = Lower[Append(b, s)[i]]
  BY <1>1, <1>2, SameSegments
<1>4. x # <<>>
  BY <1>3
<1>5. SameName(Parent(x), b)
  <2>1. CASE x = Append(b, s)
    BY <1>1, <2>1, NamedFacts
  <2>2. CASE host.folds
    <3>1. Parent(x) \in Seq(Segment) /\ Len(Parent(x)) = Len(b)
          /\ \A i \in 1..Len(b) : Parent(x)[i] = x[i]
      <4>1. /\ Parent(x) \in Seq(Segment) /\ Len(Parent(x)) = Len(x) - 1
            /\ \A i \in 1..(Len(x) - 1) : Parent(x)[i] = x[i]
        BY <1>4, LastSegment
      <4>2. Len(x) - 1 = Len(b)
        BY <1>3
      <4> QED
        BY <4>1, <4>2
    <3>2. \A i \in 1..Len(b) : Lower[Parent(x)[i]] = Lower[b[i]]
      BY <1>3, <3>1
    <3>3. Fold(Parent(x)) = Fold(b)
      BY <3>1, <3>2, SameFold
    <3> QED
      BY <2>2, <3>3 DEF SameName
  <2> QED
    BY <2>1, <2>2 DEF SameName
<1> QED
  BY <1>3, <1>4, <1>5

\* Only a directory has anything below it.
LEMMA NothingBelow ==
  ASSUME DiskTyped, DiskClosed, NEW p \in Seq(Segment), NEW f \in Named(p), disk[f].type # "dir",
         NEW s \in Segment
  PROVE  Named(Append(p, s)) = {}
<1>0. f \in DOMAIN disk /\ f \in Seq(Segment) /\ SameName(f, p)
  BY NamedFacts DEF DiskTyped
<1> SUFFICES ASSUME NEW x \in Named(Append(f, s)) PROVE FALSE
  BY <1>0, AppendName
<1>1. f \in Seq(Segment) /\ f # <<>> /\ x \in DOMAIN disk /\ x \in Seq(Segment)
  BY <1>0 DEF DiskTyped, Named
<1>2. SameName(x, Append(f, s))
  BY NamedFacts
<1>3. x # <<>> /\ Len(x) = Len(f) + 1 /\ SameName(Parent(x), f)
  BY <1>1, <1>2, ParentName
<1>4. Parent(x) # <<>>
  BY <1>1, <1>3, LastSegment
<1>5. Parent(x) \in Above(x)
  BY <1>1, <1>3, <1>4, LastSegment
<1>6. f \in Named(Parent(x))
  BY <1>0, <1>3 DEF Named, SameName
<1> QED
  BY <1>1, <1>5, <1>6 DEF DiskClosed

\* What is not a directory has no other spelling.
LEMMA OneNonDirectory ==
  ASSUME DiskUnaliased, NEW p, NEW r \in Named(p), disk[r].type # "dir"
  PROVE  Named(p) = {r}
<1>1. \A q \in Named(p) : q \in DOMAIN disk /\ Fold(q) = Fold(r)
  BY NamedFacts
<1> QED
  BY <1>1 DEF DiskUnaliased

\* On no host does a path name two objects.
LEMMA OneObject ==
  ASSUME DiskUnaliased, NEW p, NEW q \in Named(p), NEW r \in Named(p)
  PROVE  q = r
<1>1. q \in DOMAIN disk /\ r \in DOMAIN disk /\ Fold(q) = Fold(r) /\ (~host.folds => q = r)
  BY DEF Named
<1> QED
  BY <1>1 DEF DiskUnaliased

\* The resolution of a longer path.
On(w, t) == [links |-> w.links, at |-> w.at, todo |-> w.todo \o t]

\* A resolution that ends at a file does not go on below it.
LEMMA NotBelowFile ==
  ASSUME DiskTyped, DiskClosed,
         NEW w \in Walks, Walk[w].status = "at",
         \E f \in Named(Walk[w].path) : disk[f].type = "file", NEW t \in Seq(Segment), t # <<>>
  PROVE  Walk[On(w, t)].status # "at"
<1> DEFINE on(v) == On(v, t)
           Bad == {v \in Walks : /\ Walk[v].status = "at"
                                 /\ \E f \in Named(Walk[v].path) : disk[f].type = "file"
                                 /\ Walk[on(v)].status = "at"}
<1> SUFFICES ASSUME Bad # {} PROVE FALSE
  OBVIOUS
<1>1. PICK v \in Bad : \A u \in Bad : ~(<<u, v>> \in Shorter)
  <2>1. Bad \subseteq Walks
    OBVIOUS
  <2> HIDE DEF Bad
  <2> QED
    BY <2>1, ShortestWalk
<1>2. /\ v \in Walks /\ v.links \in Nat /\ v.at \in Seq(Segment) /\ v.todo \in Seq(Segment \cup {".."})
      /\ v = [links |-> v.links, at |-> v.at, todo |-> v.todo]
  BY DEF Walks
<1>3. /\ on(v) = [links |-> v.links, at |-> v.at, todo |-> v.todo \o t]
      /\ on(v).links = v.links /\ on(v).at = v.at /\ on(v).todo = v.todo \o t
      /\ on(v) = [links |-> on(v).links, at |-> on(v).at, todo |-> on(v).todo]
  BY DEF On
<1>4. t \in Seq(Segment \cup {".."}) /\ Head(t) \in Segment /\ Head(t) # ".."
  BY PathAssumption
<1>5. on(v) \in Walks
  <2>1. v.todo \o t \in Seq(Segment \cup {".."})
    BY <1>2, <1>4
  <2> QED
    BY <1>2, <1>3, <2>1 DEF Walks
<1> HIDE DEF on
<1>6. CASE v.todo = <<>>
  <2>1. Verdict(v) = "at" /\ Ending(v).path = v.at
    BY <1>6 DEF Verdict, Ending
  <2>2. PICK f \in Named(v.at) : disk[f].type = "file"
    BY <1>1, <1>2, <2>1, WalkFacts
  <2>3. Named(Append(v.at, Head(t))) = {}
    BY <1>2, <1>4, <2>2, NothingBelow
  <2>4. v.todo \o t = t
    BY <1>4, <1>6
  <2>5. Verdict(on(v)) = "missing"
    BY <1>3, <1>4, <2>3, <2>4 DEF Verdict
  <2>6. Walk[on(v)].status = "missing"
    <3>1. Walk[on(v)] = Ending(on(v))
      BY <1>5, <2>5, WalkFacts
    <3> QED
      BY <2>5, <3>1 DEF Ending
  <2> QED
    BY <1>1, <2>6
<1>7. CASE v.todo # <<>>
  <2>1. Verdict(v) = "more"
    <3>1. Verdict(v) # "more" => Walk[v].status = Verdict(v)
      <4>1. Verdict(v) # "more" => Walk[v] = Ending(v)
        BY <1>2, WalkFacts
      <4> QED
        BY <4>1 DEF Ending
    <3>2. Verdict(v) # "at"
      BY <1>7 DEF Verdict
    <3> QED
      BY <1>1, <3>1, <3>2
  <2>2. Walk[v] = Walk[Further(v)] /\ Further(v) \in Walks /\ <<Further(v), v>> \in Shorter
    BY <1>2, <2>1, WalkFacts, FurtherShorter
  <2>3. /\ Head(v.todo \o t) = Head(v.todo) /\ Tail(v.todo \o t) = Tail(v.todo) \o t
        /\ v.todo \o t # <<>> /\ Tail(v.todo) \in Seq(Segment \cup {".."})
        /\ Tail(v.todo) \o t # <<>>
    BY <1>2, <1>4, <1>7
  <2>4. Reached(on(v)) = Reached(v)
    BY <1>2, <1>3, <2>3 DEF Reached
  <2>5. Verdict(on(v)) = "missing" \/ Verdict(on(v)) = "more"
    BY <1>2, <1>3, <1>7, <2>1, <2>3, <2>4 DEF Verdict
  <2>6. Verdict(on(v)) # "missing"
    <3>1. Verdict(on(v)) = "missing" => Walk[on(v)].status = "missing"
      <4>1. Verdict(on(v)) = "missing" => Walk[on(v)] = Ending(on(v))
        BY <1>5, WalkFacts
      <4> QED
        BY <4>1 DEF Ending
    <3> QED
      BY <1>1, <3>1
  <2>7. Walk[on(v)] = Walk[Further(on(v))]
    BY <1>5, <2>5, <2>6, WalkFacts
  <2>8. Further(on(v)) = on(Further(v))
    <3>1. CASE Head(v.todo) = ".."
      <4>1. Further(v) = [links |-> v.links, at |-> Parent(v.at), todo |-> Tail(v.todo)]
        BY <1>2, <3>1 DEF Further
      <4>2. Further(on(v)) = [links |-> v.links, at |-> Parent(v.at), todo |-> Tail(v.todo) \o t]
        BY <1>3, <2>3, <3>1 DEF Further
      <4> QED
        BY <4>1, <4>2 DEF on, On
    <3>2. CASE Head(v.todo) # ".." /\ disk[Reached(v)].type = "link"
      <4> DEFINE target == disk[Reached(v)].target
      <4>1. Further(v) = [links |-> v.links - 1, at |-> v.at, todo |-> target \o Tail(v.todo)]
        BY <1>2, <3>2 DEF Further
      <4>2. Further(on(v)) = [links |-> v.links - 1, at |-> v.at,
                              todo |-> target \o (Tail(v.todo) \o t)]
        BY <1>3, <2>3, <2>4, <3>2 DEF Further
      <4>3. target \in Seq(Segment \cup {".."})
        BY <1>7, <2>1, <3>2, ReachedFacts DEF Verdict
      <4> HIDE DEF target
      <4>4. target \o (Tail(v.todo) \o t) = (target \o Tail(v.todo)) \o t
        <5>1. \A a, b, c \in Seq(Segment \cup {".."}) : a \o (b \o c) = (a \o b) \o c
          OBVIOUS
        <5> QED
          BY <1>4, <2>3, <4>3, <5>1
      <4> QED
        <5>1. Further(v).todo \o t = (target \o Tail(v.todo)) \o t
          BY <4>1
        <5>2. on(Further(v)) = [links |-> v.links - 1, at |-> v.at, todo |-> Further(v).todo \o t]
          BY <4>1 DEF on, On
        <5> QED
          BY <4>2, <4>4, <5>1, <5>2
    <3>3. CASE Head(v.todo) # ".." /\ disk[Reached(v)].type # "link"
      <4>1. Further(v) = [links |-> v.links, at |-> Reached(v), todo |-> Tail(v.todo)]
        BY <1>2, <3>3 DEF Further
      <4>2. Further(on(v)) = [links |-> v.links, at |-> Reached(v), todo |-> Tail(v.todo) \o t]
        BY <1>3, <2>3, <2>4, <3>3 DEF Further
      <4> QED
        BY <4>1, <4>2 DEF on, On
    <3> QED
      BY <3>1, <3>2, <3>3
  <2>9. Further(v) \in Bad
    BY <1>1, <2>2, <2>7, <2>8
  <2> QED
    BY <1>1, <2>2, <2>9
<1> QED
  BY <1>6, <1>7

\* What resolution reaches at a path all of whose parents are directories.
Place(x, c) == IF c = <<>> THEN x = <<>> ELSE x \in Named(c)
Dirs(c) == \A a \in Above(c) \cup {c} :
             a # <<>> => Named(a) # {} /\ \A x \in Named(a) : disk[x].type = "dir"

\* A place is spelled as the path, as far as the host can tell.
LEMMA PlaceFacts ==
  ASSUME DiskTyped, NEW c \in Seq(Segment), NEW x, Place(x, c)
  PROVE  x \in Seq(Segment) /\ SameName(x, c)
BY NamedFacts DEF Place, DiskTyped, SameName

\* Resolution walks down directories.
LEMMA Descend ==
  ASSUME DiskTyped, NEW n \in Nat, NEW c \in Seq(Segment), Dirs(c),
         NEW t \in Seq(Segment \cup {".."})
  PROVE  \E x : /\ Place(x, c)
                /\ Walk[[links |-> n, at |-> <<>>, todo |-> c \o t]]
                   = Walk[[links |-> n, at |-> x, todo |-> t]]
<1> DEFINE Names == Seq(Segment \cup {".."})
           Goal(d, u) == \E x : /\ Place(x, d)
                                /\ Walk[[links |-> n, at |-> <<>>, todo |-> d \o u]]
                                   = Walk[[links |-> n, at |-> x, todo |-> u]]
           Bad == {d \in Seq(Segment) : Dirs(d) /\ \E u \in Names : ~Goal(d, u)}
           Lengths == {Len(d) : d \in Bad}
<1> SUFFICES ASSUME Bad # {} PROVE FALSE
  OBVIOUS
<1>1. PICK m \in Lengths : \A k \in Lengths : m <= k
  <2>1. Lengths \subseteq Nat /\ Lengths # {}
    <3>1. \A d \in Bad : d \in Seq(Segment) /\ Len(d) \in Nat
      OBVIOUS
    <3> HIDE DEF Bad
    <3> QED
      BY <3>1
  <2> HIDE DEF Lengths
  <2> QED
    BY <2>1, Least
<1>2. PICK d \in Bad : Len(d) = m
  OBVIOUS
<1>3. PICK u \in Names : ~Goal(d, u)
  OBVIOUS
<1>4. d \in Seq(Segment) /\ Dirs(d)
  OBVIOUS
<1>5. d # <<>>
  <2> SUFFICES ASSUME d = <<>> PROVE Goal(d, u)
    BY <1>3
  <2>1. d \o u = u
    OBVIOUS
  <2>2. Place(<<>>, d)
    BY DEF Place
  <2> QED
    BY <2>1, <2>2
<1> DEFINE b == Parent(d)
           s == d[Len(d)]
           v == <<s>> \o u
<1>6. /\ b \in Seq(Segment) /\ Len(b) < m /\ s \in Segment /\ d = Append(b, s)
      /\ b # <<>> => b \in Above(d)
  BY <1>2, <1>4, <1>5, LastSegment
<1>7. v \in Names /\ d \o u = b \o v /\ v # <<>> /\ Head(v) = s /\ Tail(v) = u
  <2>1. \A x \in Seq(Segment), y \in Segment, z \in Names : Append(x, y) \o z = x \o (<<y>> \o z)
    OBVIOUS
  <2>2. \A y \in Segment, z \in Names :
          <<y>> \o z \in Names /\ <<y>> \o z # <<>> /\ Head(<<y>> \o z) = y /\ Tail(<<y>> \o z) = z
    OBVIOUS
  <2> HIDE DEF b, s, Names, Goal, Bad
  <2> QED
    BY <1>6, <2>1, <2>2
<1>8. Dirs(b)
  <2>1. \A a \in Above(b) \cup {b} : a # <<>> => a \in Above(d)
    <3>1. Above(b) # {} => b # <<>>
      <4>1. b = <<>> => Above(b) = {}
        BY DEF Above
      <4> QED
        BY <4>1
    <3> HIDE DEF b, s
    <3> QED
      BY <1>4, <1>6, <3>1, AboveAbove
  <2> QED
    BY <1>4, <2>1 DEF Dirs
<1>9. Goal(b, v)
  <2>1. b \notin Bad
    <3>1. b \in Bad => Len(b) \in Lengths
      OBVIOUS
    <3>2. Len(b) \in Nat /\ m \in Nat
      BY <1>2, <1>4, <1>6
    <3> HIDE DEF Lengths, Bad
    <3> QED
      BY <1>1, <1>6, <3>1, <3>2
  <2> HIDE DEF Goal
  <2> QED
    BY <1>6, <1>7, <1>8, <2>1
<1> HIDE DEF Bad, Lengths, b, s, v
<1>10. PICK x : /\ Place(x, b)
                /\ Walk[[links |-> n, at |-> <<>>, todo |-> b \o v]]
                   = Walk[[links |-> n, at |-> x, todo |-> v]]
  BY <1>9
<1> DEFINE w == [links |-> n, at |-> x, todo |-> v]
<1>11. x \in Seq(Segment) /\ SameName(x, b)
  BY <1>6, <1>10, PlaceFacts
<1>12. Named(Append(x, s)) = Named(d)
  BY <1>6, <1>11, AppendName
<1>13. Named(d) # {} /\ \A y \in Named(d) : disk[y].type = "dir"
  BY <1>4, <1>5 DEF Dirs
<1>14. w \in Walks /\ w.links = n /\ w.at = x /\ w.todo = v
  BY <1>7, <1>11 DEF Walks
<1>15. Reached(w) \in Named(d)
  BY <1>7, <1>12, <1>13, <1>14, TheOneFacts DEF Reached
<1>16. Verdict(w) = "more" /\ Further(w) = [links |-> n, at |-> Reached(w), todo |-> u]
  <2>1. s # ".."
    BY <1>6, PathAssumption
  <2>2. Verdict(w) = "more"
    BY <1>7, <1>12, <1>13, <1>14, <1>15, <2>1 DEF Verdict
  <2>3. Further(w) = [w EXCEPT !.at = Reached(w), !.todo = Tail(@)]
    BY <1>7, <1>13, <1>14, <1>15, <2>1 DEF Further
  <2> QED
    BY <1>7, <2>2, <2>3
<1>17. Walk[w] = Walk[[links |-> n, at |-> Reached(w), todo |-> u]]
  BY <1>14, <1>16, WalkFacts
<1>18. Goal(d, u)
  <2>1. Place(Reached(w), d)
    BY <1>5, <1>15 DEF Place
  <2> QED
    BY <1>7, <1>10, <1>17, <2>1
<1> QED
  BY <1>3, <1>18

\* Resolution reaches one place.
LEMMA PlaceUnique ==
  ASSUME DiskUnaliased, NEW c, NEW x, NEW y, Place(x, c), Place(y, c)
  PROVE  x = y
BY OneObject DEF Place

\* The parents of an object are directories.
LEMMA ParentDirs ==
  ASSUME DiskTyped, DiskClosed, NEW r \in DOMAIN disk
  PROVE  Dirs(Parent(r))
<1>1. r \in Seq(Segment) /\ r # <<>>
  BY DEF DiskTyped
<1>2. Parent(r) \in Seq(Segment) /\ (Parent(r) # <<>> => Parent(r) \in Above(r))
  BY <1>1, LastSegment
<1>3. \A a \in Above(Parent(r)) : a \in Above(r)
  <2>1. Parent(r) = <<>> => Above(Parent(r)) = {}
    BY DEF Above
  <2> QED
    BY <1>1, <1>2, <2>1, AboveAbove
<1> QED
  BY <1>2, <1>3 DEF Dirs, DiskClosed

\* At a link, resolution goes on with its target.
LEMMA ThroughLink ==
  ASSUME DiskTyped, NEW w \in Walks, w.todo # <<>>, Head(w.todo) # "..",
         NEW r, Named(Append(w.at, Head(w.todo))) = {r}, disk[r].type = "link",
         Walk[w].status = "at"
  PROVE  /\ w.links - 1 \in Nat
         /\ Walk[w] = Walk[[links |-> w.links - 1, at |-> w.at,
                            todo |-> disk[r].target \o Tail(w.todo)]]
<1>1. Reached(w) = r
  BY TheOneFacts DEF Reached
<1>2. Verdict(w) = IF w.links = 0 THEN "loop" ELSE "more"
  BY <1>1 DEF Verdict
<1>3. w.links # 0
  <2>1. Verdict(w) = "loop" => Walk[w] = Ending(w)
    BY WalkFacts
  <2>2. Verdict(w) = "loop" => Walk[w].status = "loop"
    BY <2>1 DEF Ending
  <2> QED
    BY <1>2, <2>2
<1>4. Walk[w] = Walk[Further(w)]
  BY <1>2, <1>3, WalkFacts
<1>5. /\ w.links \in Nat
      /\ w = [links |-> w.links, at |-> w.at, todo |-> w.todo]
  BY DEF Walks
<1>6. Further(w) = [links |-> w.links - 1, at |-> w.at, todo |-> disk[r].target \o Tail(w.todo)]
  BY <1>1, <1>5 DEF Further
<1> QED
  BY <1>3, <1>4, <1>5, <1>6

\* Where every link leads to a file, nothing is found beyond a link.
LEMMA LinkEnds ==
  ASSUME ExtractionInv, LinksToFiles, NEW b \in Seq(Segment), NEW s \in Segment,
         NEW r \in Named(Append(b, s)), disk[r].type = "link", NEW x, Place(x, b),
         NEW t \in Seq(Segment),
         Walk[[links |-> Cardinality(DOMAIN disk), at |-> x, todo |-> <<s>> \o t]].status = "at"
  PROVE  t = <<>> /\ \E f \in Named(Walk[[links |-> Cardinality(DOMAIN disk), at |-> x,
                                         todo |-> <<s>> \o t]].path) : disk[f].type = "file"
<1> DEFINE N == Cardinality(DOMAIN disk)
           l == r[Len(r)]
           target == disk[r].target
           w1 == [links |-> N, at |-> x, todo |-> <<l>>]
           w2 == [links |-> N, at |-> x, todo |-> <<s>> \o t]
           w0 == [links |-> N - 1, at |-> x, todo |-> target]
<1>0. DiskTyped /\ DiskClosed /\ DiskUnaliased
  BY DEF ExtractionInv
<1>1. /\ N \in Nat /\ r \in DOMAIN disk /\ r \in Seq(Segment) /\ r # <<>>
      /\ target \in Seq(Segment \cup {".."}) /\ SameName(r, Append(b, s))
  <2>1. IsFiniteSet(DOMAIN disk) /\ r \in DOMAIN disk /\ SameName(r, Append(b, s))
    BY <1>0, NamedFacts DEF DiskTyped
  <2>2. N \in Nat
    BY <2>1, FS_CardinalityType
  <2> QED
    BY <1>0, <2>1, <2>2 DEF DiskTyped
<1>2. SameName(Parent(r), b) /\ Len(Parent(r)) = Len(b)
  <2>1. Len(r) = Len(b) + 1 /\ SameName(Parent(r), b)
    BY <1>1, ParentName
  <2> QED
    BY <1>1, <2>1, LastSegment
<1>3. Parent(r) \in Seq(Segment) /\ l \in Segment /\ r = Append(Parent(r), l)
  BY <1>1, LastSegment
<1> HIDE DEF N, l, target
<1>4. Place(x, Parent(r)) /\ x \in Seq(Segment) /\ SameName(x, b)
  <2>1. Named(Parent(r)) = Named(b)
    BY <1>2, NamedAlike DEF SameName
  <2>2. Parent(r) = <<>> <=> b = <<>>
    BY <1>2, <1>3
  <2> QED
    BY <1>0, <2>1, <2>2, PlaceFacts DEF Place
<1>5. Named(Append(x, s)) = {r}
  <2>1. Named(Append(x, s)) = Named(Append(b, s))
    BY <1>4, AppendName
  <2> QED
    BY <1>0, <2>1, OneNonDirectory
<1>6. Named(Append(x, l)) = {r}
  <2>1. SameName(x, Parent(r))
    BY <1>0, <1>3, <1>4, PlaceFacts
  <2>2. Named(Append(x, l)) = Named(r)
    <3> DEFINE z == Parent(r)
    <3>1. z \in Seq(Segment) /\ l \in Segment /\ SameName(x, z) /\ x \in Seq(Segment) /\ r = Append(z, l)
      BY <1>3, <1>4, <2>1
    <3> HIDE DEF z
    <3>2. Named(Append(x, l)) = Named(Append(z, l))
      BY <3>1, AppendName
    <3> QED
      BY <3>1, <3>2
  <2>3. r \in Named(r)
    BY <1>1, NamedFacts
  <2> QED
    BY <1>0, <2>2, <2>3, OneNonDirectory
<1>7. \A y \in Segment : y # ".." /\ y \in Segment \cup {".."}
  BY PathAssumption
<1>8. /\ w1 \in Walks /\ w2 \in Walks /\ Walk[w2].status = "at"
      /\ w1.links = N /\ w1.at = x /\ w1.todo # <<>> /\ Head(w1.todo) = l /\ Tail(w1.todo) = <<>>
      /\ w2.links = N /\ w2.at = x /\ w2.todo # <<>> /\ Head(w2.todo) = s /\ Tail(w2.todo) = t
  <2>1. <<l>> \in Seq(Segment \cup {".."}) /\ Head(<<l>>) = l /\ Tail(<<l>>) = <<>> /\ <<l>> # <<>>
    BY <1>3, <1>7
  <2>2. /\ <<s>> \o t \in Seq(Segment \cup {".."}) /\ Head(<<s>> \o t) = s /\ Tail(<<s>> \o t) = t
        /\ <<s>> \o t # <<>>
    BY <1>7
  <2> QED
    BY <1>1, <1>4, <2>1, <2>2 DEF Walks, N
<1>9. Walk[w1] = RealPath(r)
  <2>1. PICK y : /\ Place(y, Parent(r))
                 /\ Walk[[links |-> N, at |-> <<>>, todo |-> Parent(r) \o <<l>>]]
                    = Walk[[links |-> N, at |-> y, todo |-> <<l>>]]
    <3>1. Dirs(Parent(r))
      BY <1>0, <1>1, ParentDirs
    <3>2. <<l>> \in Seq(Segment \cup {".."})
      BY <1>3, <1>7
    <3> QED
      BY <1>0, <1>1, <1>3, <3>1, <3>2, Descend
  <2>2. y = x
    BY <1>0, <1>4, <2>1, PlaceUnique
  <2>3. Parent(r) \o <<l>> = r
    <3>1. \A u \in Seq(Segment), z \in Segment : Append(u, z) = u \o <<z>>
      OBVIOUS
    <3> QED
      BY <1>3, <3>1
  <2> QED
    BY <2>1, <2>2, <2>3 DEF RealPath, N
<1>10. Walk[w1].status = "at" /\ \E f \in Named(Walk[w1].path) : disk[f].type = "file"
  <2>1. FileBeneath(r) # {}
    BY <1>1 DEF LinksToFiles
  <2> QED
    BY <1>9, <2>1 DEF FileBeneath
<1>11. N - 1 \in Nat /\ Walk[w1] = Walk[[links |-> N - 1, at |-> x, todo |-> target \o <<>>]]
  <2> HIDE DEF w1
  <2> QED
    BY <1>0, <1>3, <1>6, <1>7, <1>8, <1>10, ThroughLink DEF target
<1>12. Walk[w2] = Walk[[links |-> N - 1, at |-> x, todo |-> target \o t]]
  <2> HIDE DEF w2
  <2> QED
    BY <1>0, <1>5, <1>7, <1>8, ThroughLink DEF target
<1>13. target \o <<>> = target
  BY <1>1
<1>14. w0 \in Walks /\ On(w0, t) = [links |-> N - 1, at |-> x, todo |-> target \o t]
  BY <1>1, <1>4, <1>11 DEF Walks, On
<1>15. t = <<>>
  <2>1. t # <<>> => Walk[On(w0, t)].status # "at"
    <3> HIDE DEF w0
    <3>1. Walk[w0] = Walk[w1]
      BY <1>11, <1>13 DEF w0
    <3> HIDE DEF w1
    <3> QED
      BY <1>0, <1>10, <1>14, <3>1, NotBelowFile
  <2> QED
    BY <1>8, <1>12, <1>14, <2>1
<1>16. Walk[w2] = Walk[w1]
  BY <1>11, <1>12, <1>15
<1> QED
  BY <1>10, <1>15, <1>16 DEF N

\* A path is what is before a place in it and what is after.
LEMMA SplitPath ==
  ASSUME NEW c \in Seq(Segment), NEW k \in 0..Len(c)
  PROVE  c = SubSeq(c, 1, k) \o SubSeq(c, k + 1, Len(c))
<1> DEFINE a == SubSeq(c, 1, k)
           b == SubSeq(c, k + 1, Len(c))
<1>1. a \in Seq(Segment) /\ Len(a) = k /\ \A i \in 1..k : a[i] = c[i]
  OBVIOUS
<1>2. /\ b \in Seq(Segment) /\ Len(b) = Len(c) - k
      /\ \A i \in 1..(Len(c) - k) : b[i] = c[k + i]
  OBVIOUS
<1> HIDE DEF a, b
<1>3. a \o b \in Seq(Segment) /\ Len(a \o b) = Len(c)
  BY <1>1, <1>2
<1>4. ASSUME NEW i \in 1..Len(c) PROVE (a \o b)[i] = c[i]
  <2>1. CASE i <= k
    BY <1>1, <1>2, <2>1
  <2>2. CASE i > k
    <3>1. i - k \in 1..(Len(c) - k) /\ k + (i - k) = i
      BY <2>2
    <3>2. (a \o b)[i] = b[i - k]
      BY <1>1, <1>2, <2>2
    <3> QED
      BY <1>2, <3>1, <3>2
  <2>3. i <= k \/ i > k
    OBVIOUS
  <2> QED
    BY <2>1, <2>2, <2>3, Zenon
<1> DEFINE d == a \o b
<1>5. d = c
  <2>1. d \in Seq(Segment) /\ Len(d) = Len(c) /\ \A i \in 1..Len(c) : d[i] = c[i]
    BY <1>3, <1>4
  <2> HIDE DEF d
  <2> QED
    BY <2>1
<1> QED
  BY <1>5 DEF a, b, d

\* The parents that are no directories: where a path leaves the tree of
\* directories, if it does.
LEMMA FirstGap ==
  ASSUME NEW c \in Seq(Segment), ~Dirs(c)
  PROVE  \E b \in Seq(Segment), s \in Segment, t \in Seq(Segment) :
           /\ Dirs(b) /\ c = b \o (<<s>> \o t)
           /\ Named(Append(b, s)) = {} \/ \E x \in Named(Append(b, s)) : disk[x].type # "dir"
<1> DEFINE Good(a) == Named(a) # {} /\ \A x \in Named(a) : disk[x].type = "dir"
           K == {k \in 1..Len(c) : ~Good(SubSeq(c, 1, k))}
<1>1. K # {}
  <2>1. PICK a \in Above(c) \cup {c} : a # <<>> /\ ~Good(a)
    BY DEF Dirs
  <2>2. \E k \in 1..Len(c) : a = SubSeq(c, 1, k)
    <3>1. CASE a \in Above(c)
      BY <3>1 DEF Above
    <3>2. CASE a = c
      <4>1. Len(c) \in 1..Len(c) /\ SubSeq(c, 1, Len(c)) = c
        BY <2>1, <3>2
      <4> QED
        BY <3>2, <4>1
    <3> QED
      BY <2>1, <3>1, <3>2
  <2> HIDE DEF Good
  <2> QED
    BY <2>1, <2>2
<1>2. PICK k \in K : \A m \in K : k <= m
  <2>1. K \subseteq Nat
    OBVIOUS
  <2> HIDE DEF K
  <2> QED
    BY <1>1, <2>1, Least
<1>3. k \in 1..Len(c) /\ ~Good(SubSeq(c, 1, k)) /\ \A m \in 1..(k - 1) : Good(SubSeq(c, 1, m))
  <2>1. k \in 1..Len(c) /\ ~Good(SubSeq(c, 1, k))
    OBVIOUS
  <2>2. ASSUME NEW m \in 1..(k - 1) PROVE Good(SubSeq(c, 1, m))
    <3>1. m \in 1..Len(c) /\ ~(k <= m)
      BY <2>1
    <3>2. m \notin K
      BY <1>2, <3>1
    <3> HIDE DEF Good
    <3> QED
      BY <3>1, <3>2
  <2> QED
    BY <2>1, <2>2
<1> HIDE DEF K
<1> DEFINE b == SubSeq(c, 1, k - 1)
           s == c[k]
           t == SubSeq(c, k + 1, Len(c))
<1>4. /\ b \in Seq(Segment) /\ Len(b) = k - 1 /\ (\A i \in 1..(k - 1) : b[i] = c[i])
      /\ s \in Segment /\ t \in Seq(Segment)
  <2>1. k - 1 \in 0..Len(c)
    BY <1>3
  <2> QED
    BY <1>3, <2>1, PrefixFacts
<1>5. SubSeq(c, 1, k) = Append(b, s)
  <2>1. /\ SubSeq(c, 1, k) \in Seq(Segment) /\ Len(SubSeq(c, 1, k)) = k
        /\ \A i \in 1..k : SubSeq(c, 1, k)[i] = c[i]
    BY <1>3, PrefixFacts
  <2> HIDE DEF b, t
  <2> QED
    BY <1>3, <1>4, <2>1
<1>6. c = b \o (<<s>> \o t)
  <2>1. c = SubSeq(c, 1, k) \o SubSeq(c, k + 1, Len(c))
    <3>1. k \in 0..Len(c)
      BY <1>3
    <3> QED
      BY <3>1, SplitPath
  <2>2. \A u \in Seq(Segment), y \in Segment, z \in Seq(Segment) :
          Append(u, y) \o z = u \o (<<y>> \o z)
    OBVIOUS
  <2>3. c = Append(b, s) \o t
    BY <1>5, <2>1
  <2> HIDE DEF b, s, t
  <2> QED
    BY <1>4, <2>2, <2>3
<1>7. Dirs(b)
  <2>1. ASSUME NEW a \in Above(b) \cup {b}, a # <<>> PROVE Good(a)
    <3>1. a \in Seq(Segment) /\ Len(a) \in 1..(k - 1) /\ \A i \in 1..Len(a) : a[i] = c[i]
      <4>1. CASE a = b
        BY <1>3, <1>4, <2>1, <4>1
      <4>2. CASE a \in Above(b)
        <5> HIDE DEF b
        <5>1. a \in Seq(Segment) /\ Len(a) \in 1..(Len(b) - 1) /\ \A i \in 1..Len(a) : a[i] = b[i]
          BY <1>4, <4>2, AboveFacts
        <5> QED
          BY <1>3, <1>4, <5>1
      <4> QED
        BY <2>1, <4>1, <4>2
    <3>2. SubSeq(c, 1, Len(a)) = a
      <4>1. Len(a) \in 0..Len(c)
        BY <1>3, <3>1
      <4>2. /\ SubSeq(c, 1, Len(a)) \in Seq(Segment) /\ Len(SubSeq(c, 1, Len(a))) = Len(a)
            /\ \A i \in 1..Len(a) : SubSeq(c, 1, Len(a))[i] = c[i]
        BY <4>1, PrefixFacts
      <4> QED
        BY <3>1, <4>2
    <3> HIDE DEF Good
    <3> QED
      BY <1>3, <3>1, <3>2
  <2> QED
    BY <2>1 DEF Dirs
<1> HIDE DEF b, s, t
<1> QED
  BY <1>3, <1>4, <1>5, <1>6, <1>7

\* Where every link leads to a file, lstat finds nothing at a path but the
\* object of that name.
LEMMA PathObjectNamed ==
  ASSUME ExtractionInv, LinksToFiles, NEW p \in Seq(Segment), p # <<>>, NEW q \in PathObject(p)
  PROVE  q \in Named(p)
<1> DEFINE N == Cardinality(DOMAIN disk)
           c == Parent(p)
           l == p[Len(p)]
           x == RealPath(c).path
<1>0. DiskTyped /\ DiskClosed /\ DiskUnaliased
  BY DEF ExtractionInv
<1>1. c \in Seq(Segment) /\ l \in Segment /\ p = Append(c, l)
  BY LastSegment
<1>2. N \in Nat
  <2>1. IsFiniteSet(DOMAIN disk)
    BY <1>0 DEF DiskTyped
  <2> QED
    BY <2>1, FS_CardinalityType
<1>3. RealPath(c).status = "at" /\ q \in Named(Append(x, l))
  BY DEF PathObject
<1>4. RealPath(c) = Walk[[links |-> N, at |-> <<>>, todo |-> c]]
  BY DEF RealPath
<1> HIDE DEF N, c, l
<1>5. CASE Dirs(c)
  <2>1. PICK y : /\ Place(y, c)
                 /\ Walk[[links |-> N, at |-> <<>>, todo |-> c \o <<>>]]
                    = Walk[[links |-> N, at |-> y, todo |-> <<>>]]
    <3>1. <<>> \in Seq(Segment \cup {".."})
      OBVIOUS
    <3> QED
      BY <1>0, <1>1, <1>2, <1>5, <3>1, Descend
  <2>2. y \in Seq(Segment) /\ SameName(y, c)
    BY <1>0, <1>1, <2>1, PlaceFacts
  <2> DEFINE w == [links |-> N, at |-> y, todo |-> <<>>]
  <2>3. w \in Walks /\ w.todo = <<>> /\ w.at = y
    BY <1>2, <2>2 DEF Walks
  <2>4. Walk[w] = Ending(w) /\ Ending(w).path = y
    BY <1>0, <2>3, WalkFacts DEF Verdict, Ending
  <2>5. c \o <<>> = c
    BY <1>1
  <2>6. x = y
    BY <1>4, <2>1, <2>4, <2>5
  <2> QED
    BY <1>1, <1>3, <2>2, <2>6, AppendName
<1>6. CASE ~Dirs(c)
  <2>1. PICK b \in Seq(Segment), s \in Segment, t \in Seq(Segment) :
               /\ Dirs(b) /\ c = b \o (<<s>> \o t)
               /\ Named(Append(b, s)) = {} \/ \E r \in Named(Append(b, s)) : disk[r].type # "dir"
    BY <1>1, <1>6, FirstGap
  <2>2. /\ <<s>> \o t \in Seq(Segment \cup {".."}) /\ <<s>> \o t # <<>>
        /\ Head(<<s>> \o t) = s /\ Tail(<<s>> \o t) = t /\ s # ".."
    BY PathAssumption
  <2>3. PICK y : /\ Place(y, b)
                 /\ Walk[[links |-> N, at |-> <<>>, todo |-> b \o (<<s>> \o t)]]
                    = Walk[[links |-> N, at |-> y, todo |-> <<s>> \o t]]
    BY <1>0, <1>2, <2>1, <2>2, Descend
  <2> DEFINE w == [links |-> N, at |-> y, todo |-> <<s>> \o t]
  <2>4. RealPath(c) = Walk[w]
    BY <1>4, <2>1, <2>3
  <2>5. y \in Seq(Segment) /\ SameName(y, b)
    BY <1>0, <2>3, PlaceFacts
  <2>6. Named(Append(y, s)) = Named(Append(b, s))
    BY <2>5, AppendName
  <2>7. /\ w \in Walks /\ w.links = N /\ w.at = y /\ w.todo # <<>>
        /\ Head(w.todo) = s /\ Tail(w.todo) = t
    BY <1>2, <2>2, <2>5 DEF Walks
  <2> HIDE DEF w, x
  <2>8. Named(Append(b, s)) # {}
    <3> SUFFICES ASSUME Named(Append(b, s)) = {} PROVE FALSE
      OBVIOUS
    <3>1. Verdict(w) = "missing"
      BY <2>2, <2>6, <2>7 DEF Verdict
    <3>2. Walk[w] = Ending(w)
      BY <1>0, <2>7, <3>1, WalkFacts
    <3> QED
      BY <1>3, <2>4, <3>1, <3>2 DEF Ending
  <2>9. PICK r \in Named(Append(b, s)) : disk[r].type # "dir"
    BY <2>1, <2>8
  <2>10. x \in Seq(Segment) => ~\E f \in Named(x) : disk[f].type # "dir"
    BY <1>0, <1>1, <1>3, NothingBelow
  <2>11. x \in Seq(Segment)
    <3>1. \A v \in Walks : Walk[v].path \in Seq(Segment)
      BY <1>0, WalkPath
    <3> QED
      BY <2>4, <2>7, <3>1 DEF x
  <2>12. CASE disk[r].type = "link"
    <3>1. w = [links |-> Cardinality(DOMAIN disk), at |-> y, todo |-> <<s>> \o t]
      BY DEF w, N
    <3>2. Walk[w].status = "at" /\ Walk[w].path = x
      BY <1>3, <2>4 DEF x
    <3>3. \E f \in Named(x) : disk[f].type = "file"
      BY <2>3, <2>9, <2>12, <3>1, <3>2, LinkEnds
    <3> QED
      BY <2>10, <2>11, <3>3
  <2>13. CASE disk[r].type # "link"
    <3>1. disk[r].type = "file"
      BY <1>0, <2>9, <2>13 DEF DiskTyped, Types, Named
    <3>2. Reached(w) = r
      <4>1. Named(Append(b, s)) = {r}
        BY <1>0, <2>9, OneNonDirectory
      <4> QED
        <5>1. Named(Append(w.at, Head(w.todo))) = {r}
          BY <2>6, <2>7, <4>1
        <5>2. TheOne({r}) = r
          BY TheOneFacts
        <5> QED
          BY <5>1, <5>2 DEF Reached
    <3>3. Verdict(w) = IF t # <<>> THEN "missing" ELSE "more"
      BY <2>2, <2>6, <2>7, <2>8, <3>1, <3>2 DEF Verdict
    <3>4. t = <<>>
      <4>1. t # <<>> => Walk[w] = Ending(w) /\ Ending(w).status = "missing"
        BY <1>0, <2>7, <3>3, WalkFacts DEF Ending
      <4> QED
        BY <1>3, <2>4, <4>1
    <3>5. Walk[w] = Walk[Further(w)]
      BY <1>0, <2>7, <3>3, <3>4, WalkFacts
    <3>6. Further(w) = [links |-> N, at |-> r, todo |-> <<>>]
      BY <2>2, <2>7, <3>1, <3>2, <3>4 DEF Further, w
    <3>7. r \in Seq(Segment) /\ r \in DOMAIN disk
      BY <1>0 DEF DiskTyped, Named
    <3>8. Walk[Further(w)] = Ending(Further(w)) /\ Ending(Further(w)).path = r
      <4>1. Further(w) \in Walks /\ Verdict(Further(w)) = "at" /\ Further(w).at = r
        BY <1>2, <3>6, <3>7 DEF Walks, Verdict
      <4> QED
        BY <1>0, <4>1, WalkFacts DEF Ending
    <3>9. x = r
      BY <2>4, <3>5, <3>8 DEF x
    <3>10. r \in Named(r)
      BY <3>7, NamedFacts
    <3> QED
      BY <2>9, <2>10, <2>11, <3>9, <3>10
  <2> QED
    BY <2>12, <2>13
<1> QED
  BY <1>5, <1>6

(***************************************************************************)
(* The invariant of admission.                                             *)
(***************************************************************************)

\* Where links lead to files, every verified line names an object that is not
\* the manifest, and what is admitted passed the last checks.
LinesNamed ==
  /\ LinksToFiles => \A p \in lines : Named(p) \ Named(Manifest) # {}
  /\ phase = "manifest" \/ result = "admitted" => RegularNonempty(Manifest)
  /\ result = "admitted" => ~PathKeysCollide /\ CountPackageTree = Cardinality(lines)

\* The manifest has one spelling and is a file.
LEMMA ManifestFile ==
  ASSUME ExtractionInv, RegularNonempty(Manifest)
  PROVE  \E m \in DOMAIN disk : Named(Manifest) = {m} /\ disk[m].type = "file"
<1>1. PICK m \in Named(Manifest) : disk[m].type = "file"
  BY DEF RegularNonempty, RegularFile
<1>2. Named(Manifest) = {m} /\ m \in DOMAIN disk
  BY <1>1, OneNonDirectory DEF ExtractionInv, Named
<1> QED
  BY <1>1, <1>2

\* A verified line names an object that is not the manifest.
LEMMA LineNamesObject ==
  ASSUME ExtractionInv, LinksToFiles, RegularNonempty(Manifest), NEW p \in Path,
         NEW type, NEW mode, NEW digest, VerifyManifestEntry(p, type, mode, digest)
  PROVE  Named(p) \ Named(Manifest) # {}
<1>1. PICK q \in PathObject(p) :
           \/ VerifyFile(p, mode)
           \/ VerifyDirectory(disk[q], mode)
           \/ VerifyLink(p, disk[q], mode)
  BY DEF VerifyManifestEntry
<1>2. CASE VerifyFile(p, mode)
  BY <1>2 DEF VerifyFile, RegularFile
<1>3. CASE VerifyDirectory(disk[q], mode) \/ VerifyLink(p, disk[q], mode)
  <2>1. q \in Named(p)
    BY PathTypes, PathObjectNamed
  <2>2. disk[q].type # "file"
    BY <1>3 DEF VerifyDirectory, VerifyLink
  <2>3. q \notin Named(Manifest)
    BY <2>2, ManifestFile
  <2> QED
    BY <2>1, <2>3
<1> QED
  BY <1>1, <1>2, <1>3

\* What depends on the disk alone stays the same with it.
LEMMA DiskKept ==
  ASSUME UNCHANGED <<host, disk>>
  PROVE  /\ LinksToFiles' = LinksToFiles /\ \A p : Named(p)' = Named(p)
         /\ RegularNonempty(Manifest)' = RegularNonempty(Manifest)
         /\ CountPackageTree' = CountPackageTree
<1>1. LinksToFiles' = LinksToFiles
  BY DEF LinksToFiles, FileBeneath, RealPath, Walk, Named, Verdict, Further, Reached
<1>2. \A p : Named(p)' = Named(p)
  BY DEF Named
<1>3. RegularNonempty(Manifest)' = RegularNonempty(Manifest)
  BY DEF RegularNonempty, RegularFile, Named
<1>4. CountPackageTree' = CountPackageTree
  BY DEF CountPackageTree, ManifestObject, Fold
<1> QED
  BY <1>1, <1>2, <1>3, <1>4

\* Every step keeps the invariant.
LEMMA LinesNext == ExtractionInv /\ LinesNamed /\ [Next]_vars => LinesNamed'
<1> SUFFICES ASSUME ExtractionInv, LinesNamed, [Next]_vars PROVE LinesNamed'
  OBVIOUS
<1>0. /\ result = "admitted" => phase = "done"
      /\ phase \notin {"manifest", "done"} => lines = {}
  BY DEF ExtractionInv, Types0
<1>1. CASE Refused
  BY <1>1 DEF Refused, Fail, LinesNamed
<1>2. CASE RootEntry \/ (\E e \in Entry : Accepted(e)) \/ ArchiveRead
  <2>1. /\ lines' = {} /\ phase' # "manifest" /\ result' # "admitted"
    BY <1>0, <1>2 DEF RootEntry, Accepted, ArchiveRead
  <2> QED
    BY <2>1 DEF LinesNamed
<1>3. CASE Validated
  <2>1. /\ lines' = {} /\ result' # "admitted" /\ UNCHANGED <<host, disk>>
        /\ phase' = "manifest" => RegularNonempty(Manifest)
    BY <1>0, <1>3 DEF Validated, archive
  <2> QED
    BY <2>1, DiskKept DEF LinesNamed
<1>4. CASE LineVerified
  <2>1. /\ phase = "manifest" /\ UNCHANGED <<host, phase, result, disk>>
        /\ \E p \in Path, type \in Types, mode \in {"0644", "0755", "-"}, digest \in BOOLEAN :
             VerifyManifestEntry(p, type, mode, digest) /\ lines' = lines \cup {p}
    BY <1>4 DEF LineVerified, archive
  <2>2. RegularNonempty(Manifest) /\ result # "admitted"
    BY <1>0, <2>1 DEF LinesNamed
  <2>3. PICK p \in Path, type \in Types, mode \in {"0644", "0755", "-"}, digest \in BOOLEAN :
          VerifyManifestEntry(p, type, mode, digest) /\ lines' = lines \cup {p}
    BY <2>1
  <2>4. LinksToFiles => Named(p) \ Named(Manifest) # {}
    BY <2>2, <2>3, LineNamesObject
  <2> QED
    BY <2>1, <2>2, <2>3, <2>4, DiskKept DEF LinesNamed
<1>5. CASE Admitted
  <2>1. /\ phase = "manifest" /\ UNCHANGED <<host, disk, lines>>
        /\ ~PathKeysCollide /\ CountPackageTree = Cardinality(lines)
    BY <1>5 DEF Admitted, archive
  <2>2. PathKeysCollide' = PathKeysCollide
    BY <2>1 DEF PathKeysCollide, Fold
  <2> QED
    BY <2>1, <2>2, DiskKept DEF LinesNamed
<1>6. CASE UNCHANGED vars
  <2>1. UNCHANGED <<host, disk, lines, phase, result>>
    BY <1>6 DEF vars, archive
  <2>2. PathKeysCollide' = PathKeysCollide
    BY <2>1 DEF PathKeysCollide, Fold
  <2> QED
    BY <2>1, <2>2, DiskKept DEF LinesNamed
<1> QED
  BY <1>1, <1>2, <1>3, <1>4, <1>5, <1>6, StepCases

\* As many lines as objects, each of which names another object: then every
\* object has its line.
LEMMA LinesCoverDisk ==
  ASSUME ExtractionInv, LinesNamed, result = "admitted", LinksToFiles
  PROVE  /\ \A p \in lines : Named(p) # {}
         /\ \A q \in DOMAIN disk \ Named(Manifest) :
              \E p \in lines : \A r \in lines : q \in Named(r) <=> r = p
         /\ \A q, r \in DOMAIN disk : Fold(q) = Fold(r) => q = r
<1>1. PICK m \in DOMAIN disk : Named(Manifest) = {m} /\ disk[m].type = "file"
  BY ManifestFile DEF LinesNamed
<1>2. /\ \A p \in lines : Named(p) \ Named(Manifest) # {}
      /\ \A p, r \in lines : Fold(p) = Fold(r) => p = r
      /\ Cardinality(DOMAIN disk \ ManifestObject) = Cardinality(lines)
  BY DEF LinesNamed, PathKeysCollide, CountPackageTree
<1> DEFINE Objects == DOMAIN disk \ Named(Manifest)
           obj == [p \in lines |-> CHOOSE q : q \in Named(p) \ Named(Manifest)]
<1>3. \A p \in lines : obj[p] \in Named(p) /\ obj[p] \in Objects
  BY <1>2 DEF Named
<1>4. \A p \in lines : \A q \in Named(p) : Fold(q) = Fold(p)
  BY NamedFacts
<1> HIDE DEF obj
<1>5. obj \in Injection(lines, Objects)
  <2>1. obj \in [lines -> Objects]
    <3>1. DOMAIN obj = lines /\ obj = [p \in lines |-> obj[p]]
      BY DEF obj
    <3> HIDE DEF Objects
    <3> QED
      BY <1>3, <3>1
  <2>2. \A p, r \in lines : obj[p] = obj[r] => p = r
    BY <1>2, <1>3, <1>4
  <2> HIDE DEF Objects
  <2> QED
    BY <2>1, <2>2 DEF Injection, IsInjective
<1>6. IsFiniteSet(DOMAIN disk) /\ IsFiniteSet(Objects) /\ IsFiniteSet(lines)
  <2>1. IsFiniteSet(DOMAIN disk) /\ IsFiniteSet(lines)
    BY DEF ExtractionInv, DiskTyped, Types0
  <2> QED
    BY <2>1, FS_Subset
<1>7. ManifestObject \subseteq Named(Manifest)
  <2> SUFFICES ASSUME NEW q \in ManifestObject PROVE q \in Named(Manifest)
    OBVIOUS
  <2>1. q \in DOMAIN disk /\ Fold(q) = Fold(Manifest)
    BY DEF ManifestObject
  <2>2. Fold(m) = Fold(Manifest)
    BY <1>1, NamedFacts
  <2>3. q = m
    BY <1>1, <2>1, <2>2 DEF ExtractionInv, DiskUnaliased
  <2> QED
    BY <1>1, <2>3
<1>8. Cardinality(Objects) <= Cardinality(lines)
  <2>1. Objects \subseteq DOMAIN disk \ ManifestObject /\ IsFiniteSet(DOMAIN disk \ ManifestObject)
    BY <1>6, <1>7, FS_Subset
  <2>2. Cardinality(Objects) <= Cardinality(DOMAIN disk \ ManifestObject)
    BY <2>1, FS_Subset
  <2> QED
    BY <1>2, <2>2
<1> HIDE DEF Objects
<1>9. obj \in Surjection(lines, Objects)
  <2>1. /\ Cardinality(lines) <= Cardinality(Objects)
        /\ Cardinality(lines) = Cardinality(Objects) <=> obj \in Surjection(lines, Objects)
    BY <1>5, <1>6, FS_Injection
  <2>2. Cardinality(lines) \in Nat /\ Cardinality(Objects) \in Nat
    BY <1>6, FS_CardinalityType
  <2> QED
    BY <1>8, <2>1, <2>2
<1>10. \A q \in Objects : \E p \in lines : q = obj[p]
  BY <1>9 DEF Surjection
<1>11. ASSUME NEW q \in Objects
       PROVE  \E p \in lines : \A r \in lines : q \in Named(r) <=> r = p
  <2>1. PICK p \in lines : q = obj[p]
    BY <1>10
  <2>2. q \in Named(p)
    BY <1>3, <2>1
  <2>3. \A r \in lines : q \in Named(r) => r = p
    BY <1>2, <1>4, <2>2
  <2> QED
    BY <2>2, <2>3
<1>12. ASSUME NEW q \in DOMAIN disk, NEW r \in DOMAIN disk, Fold(q) = Fold(r), q # r
       PROVE  FALSE
  <2>1. disk[q].type = "dir" /\ disk[r].type = "dir"
    BY <1>12 DEF ExtractionInv, DiskUnaliased
  <2>2. q \in Objects /\ r \in Objects
    BY <1>1, <2>1 DEF Objects
  <2>3. PICK p \in lines, l \in lines : q = obj[p] /\ r = obj[l]
    BY <1>10, <2>2
  <2>4. Fold(p) = Fold(l)
    BY <1>3, <1>4, <1>12, <2>3
  <2> QED
    BY <1>2, <1>12, <2>3, <2>4
<1>13. \A p \in lines : Named(p) # {}
  BY <1>3
<1> QED
  BY <1>11, <1>12, <1>13 DEF Objects

\* Where links lead to files, an admitted tree is exactly what its manifest
\* declares: one line for each object and an object for each line.
THEOREM AdmissionExact == Spec => []AdmittedWithoutDirectoryLinks
<1>1. Init => LinesNamed
  BY DEF Init, LinesNamed
<1>2. ExtractionInv /\ LinesNamed => AdmittedWithoutDirectoryLinks
  <2> SUFFICES ASSUME ExtractionInv, LinesNamed, result = "admitted", LinksToFiles
               PROVE  Exact
    BY DEF AdmittedWithoutDirectoryLinks
  <2>1. ASSUME NEW q \in DOMAIN disk \ Named(Manifest)
        PROVE  Cardinality({r \in lines : q \in Named(r)}) = 1
    <3>1. PICK p \in lines : \A r \in lines : q \in Named(r) <=> r = p
      BY LinesCoverDisk
    <3>2. {r \in lines : q \in Named(r)} = {p}
      BY <3>1
    <3> QED
      BY <3>2, FS_Singleton
  <2> QED
    BY <2>1, LinesCoverDisk DEF Exact
<1> QED
  BY <1>1, <1>2, LinesNext, Extraction, PTL DEF Spec

\* Where links lead to files, no two objects of an admitted package differ by
\* case alone.
THEOREM AdmissionUnaliased == Spec => []AdmittedUnaliased
<1>1. Init => LinesNamed
  BY DEF Init, LinesNamed
<1>2. ExtractionInv /\ LinesNamed => AdmittedUnaliased
  BY LinesCoverDisk DEF AdmittedUnaliased
<1> QED
  BY <1>1, <1>2, LinesNext, Extraction, PTL DEF Spec

=============================================================================
