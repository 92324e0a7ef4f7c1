------------------------- MODULE ArtifactFetchProofs -------------------------
(***************************************************************************)
(* Proofs about ArtifactFetch for any set of files. The inductive          *)
(* invariant says for each step what the open file and the three temporary *)
(* names hold, and that what went wrong is on record.                      *)
(***************************************************************************)
EXTENDS ArtifactFetch, TLAPS

Accepted == {"publish", "copy", "replace", "fetched", "release", "release failed"}
Held     == Accepted \cup {"digest", "discard", "check"}

\* The open file: verified from the download or the cache, and kept by the
\* name of the artifact if it is disposable. A rejected one is closed before its
\* identity is compared.
HandleInv ==
  /\ pc \in Held => handle.file \in File
  /\ pc \notin Held => handle = NoHandle
  /\ pc \in Accepted => Valid(handle.file)
  /\ pc = "discard" => ~Valid(handle.file)
  /\ pc \in {"publish", "copy", "replace"} => handle.disposable
  /\ pc \in {"digest", "discard", "check"} => ~handle.disposable
  /\ handle.disposable => name["artifact"] = handle.file

\* The files of the steps in between.
NamesInv ==
  /\ pc \in {"transfer", "save", "commit"} => name["download"] \in File
  /\ pc \in {"unconfirmed", "verify"} => name["artifact"] \in File
  /\ pc \in {"copy", "replace"} => name["copy"] \in File
  /\ pc = "replace" => Valid(name["copy"])

\* Whose step it is to remove a temporary name that is there.
TidyInv ==
  tidy =>
    /\ name["download"] # Missing => pc \in {"transfer", "save", "commit"}
    /\ name["artifact"] # Missing =>
         pc \in {"unconfirmed", "verify"} \/ (pc \in Accepted /\ handle.disposable)
    /\ name["copy"] # Missing => pc \in {"copy", "replace"}

\* Bytes that will be refused, and decisions to fail, have a cause.
CauseInv ==
  cause = {} =>
    /\ pc \in {"save", "commit"} => Valid(name["download"])
    /\ pc = "verify" => Valid(name["artifact"])
    /\ pc \notin {"unconfirmed", "release failed"}
    /\ result # "failed"

Inv == /\ TypeOK /\ HandleInv /\ NamesInv /\ TidyInv /\ CauseInv
       /\ ConsumesVerified /\ CacheNeverPartial


LEMMA InitInv == Init => Inv
BY FileAssumption DEF Init, Inv, TypeOK, HandleInv, NamesInv, TidyInv, CauseInv,
   ConsumesVerified, CacheNeverPartial, Names, Temporaries, Bytes, NoHandle, Steps, Causes,
   Held, Accepted

\* A new fetch uses new names.
LEMMA StartInv == Inv /\ Start => Inv'
<1> SUFFICES ASSUME Inv, Start PROVE Inv'
     OBVIOUS
<1>a. /\ TypeOK /\ HandleInv /\ NamesInv /\ TidyInv /\ CauseInv
      /\ ConsumesVerified /\ CacheNeverPartial /\ Start
     BY DEF Inv
<1>t. /\ name \in [Names -> File \cup {Missing, Directory}]
      /\ bytes \in [File -> Bytes]
      /\ handle \in [file : File \cup {Missing}, disposable : BOOLEAN]
      /\ pc \in Steps
     BY <1>a DEF TypeOK
<1>u. \A m, n \in Names : m # n /\ name[m] \in File => name[m] # name[n]
     BY <1>a DEF TypeOK
<1>v. \A n \in Temporaries : name[n] # Directory
     BY <1>a DEF TypeOK
<1>1. TypeOK'
  <2>1. name' \in [Names -> File \cup {Missing, Directory}] /\ bytes' \in [File -> Bytes]
        BY <1>a, <1>t, FileAssumption DEF Start, NamesInv, Names, Bytes
  <2>2. \A n \in Temporaries : name'[n] # Directory
        BY <1>a, <1>t, FileAssumption, <1>v DEF Start, NamesInv, Names, Temporaries
  <2>3. \A m, n \in Names : m # n /\ name'[m] \in File => name'[m] # name'[n]
        BY <1>a, <1>t, FileAssumption, <1>u DEF Start, Names
  <2>4. handle' \in [file : File \cup {Missing}, disposable : BOOLEAN]
        BY <1>a, <1>t, FileAssumption DEF Start, NamesInv, Names, NoHandle
  <2>5. /\ pc' \in Steps /\ result' \in {"none", "ok", "failed", "killed"}
        /\ consumed' \in Bytes \cup {"none"} /\ cause' \subseteq Causes /\ tidy' \in BOOLEAN
        BY <1>a, <1>t, FileAssumption DEF Start, HandleInv, NamesInv, Steps, Held,
           Accepted, TypeOK, Names, Bytes, Causes
  <2> QED BY <2>1, <2>2, <2>3, <2>4, <2>5 DEF TypeOK
<1>2. HandleInv'
     BY <1>a, <1>t, FileAssumption DEF Start, Names, NoHandle, Held, Accepted, HandleInv,
        NamesInv, CauseInv, Valid
<1>3. NamesInv'
     BY <1>a, <1>t, FileAssumption DEF Start, Names, NoHandle, Held, Accepted, HandleInv,
        NamesInv, Valid
<1>4. TidyInv'
     BY <1>a, <1>t, FileAssumption DEF Start, Names, NoHandle, Held, Accepted, HandleInv,
        NamesInv, TidyInv
<1>5. CauseInv'
     BY <1>a, <1>t, FileAssumption DEF Start, Names, NoHandle, Held, Accepted, HandleInv,
        NamesInv, CauseInv, Valid
<1>6. ConsumesVerified'
     BY <1>a, <1>t, FileAssumption DEF Start, Names, NoHandle, Held, Accepted, HandleInv,
        ConsumesVerified, Valid
<1>7. CacheNeverPartial'
     BY <1>a, <1>t, FileAssumption DEF Start, Names, NoHandle, Held, Accepted, HandleInv,
        NamesInv, CacheNeverPartial, Valid
<1> QED BY <1>1, <1>2, <1>3, <1>4, <1>5, <1>6, <1>7 DEF Inv

\* The entry is only looked at.
LEMMA InspectInv == Inv /\ InspectCache => Inv'
<1> SUFFICES ASSUME Inv, InspectCache PROVE Inv'
     OBVIOUS
<1>a. /\ TypeOK /\ HandleInv /\ NamesInv /\ TidyInv /\ CauseInv
      /\ ConsumesVerified /\ CacheNeverPartial /\ InspectCache
     BY DEF Inv
<1>t. /\ name \in [Names -> File \cup {Missing, Directory}]
      /\ bytes \in [File -> Bytes]
      /\ handle \in [file : File \cup {Missing}, disposable : BOOLEAN]
      /\ pc \in Steps
     BY <1>a DEF TypeOK
<1>u. \A m, n \in Names : m # n /\ name[m] \in File => name[m] # name[n]
     BY <1>a DEF TypeOK
<1>v. \A n \in Temporaries : name[n] # Directory
     BY <1>a DEF TypeOK
<1>e. pc = "inspect" /\ name' = name /\ handle' = handle /\ tidy' = tidy
     BY <1>a DEF InspectCache
<1>1. TypeOK'
  <2>1. name' \in [Names -> File \cup {Missing, Directory}] /\ bytes' \in [File -> Bytes]
        BY <1>a, <1>t, FileAssumption DEF InspectCache, CacheUnusable, Go, NamesInv, Names,
           Bytes
  <2>2. \A n \in Temporaries : name'[n] # Directory
        BY <1>a, <1>t, FileAssumption, <1>v DEF InspectCache, CacheUnusable, Go, NamesInv,
           Names, Temporaries
  <2>3. \A m, n \in Names : m # n /\ name'[m] \in File => name'[m] # name'[n]
        BY <1>a, <1>t, FileAssumption, <1>u DEF InspectCache, CacheUnusable, Go, Names
  <2>4. handle' \in [file : File \cup {Missing}, disposable : BOOLEAN]
        BY <1>a, <1>t, FileAssumption DEF InspectCache, CacheUnusable, Go, NamesInv, Names,
           NoHandle
  <2>5. /\ pc' \in Steps /\ result' \in {"none", "ok", "failed", "killed"}
        /\ consumed' \in Bytes \cup {"none"} /\ cause' \subseteq Causes /\ tidy' \in BOOLEAN
        BY <1>a, <1>t, FileAssumption DEF InspectCache, CacheUnusable, Go, HandleInv,
           NamesInv, Steps, Held, Accepted, TypeOK, Names, Bytes, Causes
  <2> QED BY <2>1, <2>2, <2>3, <2>4, <2>5 DEF TypeOK
<1>2. HandleInv'
     BY <1>a, <1>t, FileAssumption DEF InspectCache, CacheUnusable, Go, Names, NoHandle,
        Held, Accepted, HandleInv, NamesInv, CauseInv, Valid
<1>3. NamesInv'
     BY <1>a, <1>t, FileAssumption DEF InspectCache, CacheUnusable, Go, Names, NoHandle,
        Held, Accepted, HandleInv, NamesInv, Valid
<1>4. TidyInv'
     BY <1>a, <1>e DEF TidyInv, Accepted
<1>5. CauseInv'
     BY <1>a, <1>t, FileAssumption DEF InspectCache, CacheUnusable, Go, Names, NoHandle,
        Held, Accepted, HandleInv, NamesInv, CauseInv, Valid
<1>6. ConsumesVerified'
     BY <1>a, <1>t, FileAssumption DEF InspectCache, CacheUnusable, Go, Names, NoHandle,
        Held, Accepted, HandleInv, ConsumesVerified, Valid
<1>7. CacheNeverPartial'
     BY <1>a, <1>t, FileAssumption DEF InspectCache, CacheUnusable, Go, Names, NoHandle,
        Held, Accepted, HandleInv, NamesInv, CacheNeverPartial, Valid
<1> QED BY <1>1, <1>2, <1>3, <1>4, <1>5, <1>6, <1>7 DEF Inv

LEMMA OpenInv == Inv /\ OpenCache => Inv'
<1> SUFFICES ASSUME Inv, OpenCache PROVE Inv'
     OBVIOUS
<1>a. /\ TypeOK /\ HandleInv /\ NamesInv /\ TidyInv /\ CauseInv
      /\ ConsumesVerified /\ CacheNeverPartial /\ OpenCache
     BY DEF Inv
<1>t. /\ name \in [Names -> File \cup {Missing, Directory}]
      /\ bytes \in [File -> Bytes]
      /\ handle \in [file : File \cup {Missing}, disposable : BOOLEAN]
      /\ pc \in Steps
     BY <1>a DEF TypeOK
<1>u. \A m, n \in Names : m # n /\ name[m] \in File => name[m] # name[n]
     BY <1>a DEF TypeOK
<1>v. \A n \in Temporaries : name[n] # Directory
     BY <1>a DEF TypeOK
<1>e. /\ pc = "open" /\ name' = name /\ bytes' = bytes /\ tidy' = tidy /\ handle = NoHandle
      /\ \/ pc' = "name" /\ handle' = NoHandle
         \/ /\ pc' = "digest"
            /\ \E f \in File : handle' = [file |-> f, disposable |-> FALSE]
     BY <1>a DEF OpenCache, CacheUnusable, Go, Open, HandleInv, Held, Accepted
<1>1. TypeOK'
  <2>1. name' \in [Names -> File \cup {Missing, Directory}] /\ bytes' \in [File -> Bytes]
        BY <1>a, <1>t, FileAssumption DEF OpenCache, CacheUnusable, Go, Open, NamesInv,
           Names, Bytes
  <2>2. \A n \in Temporaries : name'[n] # Directory
        BY <1>a, <1>t, FileAssumption, <1>v DEF OpenCache, CacheUnusable, Go, Open,
           NamesInv, Names, Temporaries
  <2>3. \A m, n \in Names : m # n /\ name'[m] \in File => name'[m] # name'[n]
        BY <1>a, <1>t, FileAssumption, <1>u DEF OpenCache, CacheUnusable, Go, Open, Names
  <2>4. handle' \in [file : File \cup {Missing}, disposable : BOOLEAN]
    <3>1. CASE pc' = "name" /\ handle' = NoHandle
          BY <3>1 DEF NoHandle
    <3>2. CASE pc' = "digest" /\ \E f \in File : handle' = [file |-> f, disposable |-> FALSE]
          BY <3>2
    <3> QED BY <1>e, <3>1, <3>2
  <2>5. /\ pc' \in Steps /\ result' \in {"none", "ok", "failed", "killed"}
        /\ consumed' \in Bytes \cup {"none"} /\ cause' \subseteq Causes /\ tidy' \in BOOLEAN
        BY <1>a, <1>t, FileAssumption DEF OpenCache, CacheUnusable, Go, Open, HandleInv,
           NamesInv, Steps, Held, Accepted, TypeOK, Names, Bytes, Causes
  <2> QED BY <2>1, <2>2, <2>3, <2>4, <2>5 DEF TypeOK
<1>2. HandleInv'
  <2>1. CASE pc' = "name" /\ handle' = NoHandle
        BY <1>a, <1>e, FileAssumption, <2>1 DEF HandleInv, Held, Accepted, NoHandle, Valid
  <2>2. CASE pc' = "digest" /\ \E f \in File : handle' = [file |-> f, disposable |-> FALSE]
        BY <1>a, <1>e, FileAssumption, <2>2 DEF HandleInv, Held, Accepted, NoHandle, Valid
  <2> QED BY <1>e, <2>1, <2>2
<1>3. NamesInv'
     BY <1>a, <1>t, FileAssumption DEF OpenCache, CacheUnusable, Go, Open, Names, NoHandle,
        Held, Accepted, HandleInv, NamesInv, Valid
<1>4. TidyInv'
     BY <1>a, <1>e DEF TidyInv, Accepted
<1>5. CauseInv'
     BY <1>a, <1>t, FileAssumption DEF OpenCache, CacheUnusable, Go, Open, Names, NoHandle,
        Held, Accepted, HandleInv, NamesInv, CauseInv, Valid
<1>6. ConsumesVerified'
     BY <1>a, <1>t, FileAssumption DEF OpenCache, CacheUnusable, Go, Open, Names, NoHandle,
        Held, Accepted, HandleInv, ConsumesVerified, Valid
<1>7. CacheNeverPartial'
     BY <1>a, <1>t, FileAssumption DEF OpenCache, CacheUnusable, Go, Open, Names, NoHandle,
        Held, Accepted, HandleInv, NamesInv, CacheNeverPartial, Valid
<1> QED BY <1>1, <1>2, <1>3, <1>4, <1>5, <1>6, <1>7 DEF Inv

LEMMA DigestInv == Inv /\ DigestCache => Inv'
<1> SUFFICES ASSUME Inv, DigestCache PROVE Inv'
     OBVIOUS
<1>a. /\ TypeOK /\ HandleInv /\ NamesInv /\ TidyInv /\ CauseInv
      /\ ConsumesVerified /\ CacheNeverPartial /\ DigestCache
     BY DEF Inv
<1>t. /\ name \in [Names -> File \cup {Missing, Directory}]
      /\ bytes \in [File -> Bytes]
      /\ handle \in [file : File \cup {Missing}, disposable : BOOLEAN]
      /\ pc \in Steps
     BY <1>a DEF TypeOK
<1>u. \A m, n \in Names : m # n /\ name[m] \in File => name[m] # name[n]
     BY <1>a DEF TypeOK
<1>v. \A n \in Temporaries : name[n] # Directory
     BY <1>a DEF TypeOK
<1>e. /\ pc = "digest" /\ name' = name /\ bytes' = bytes /\ tidy' = tidy
      /\ handle.file \in File /\ ~handle.disposable
      /\ \/ pc' = "name" /\ handle' = NoHandle
         \/ pc' = "fetched" /\ handle' = handle /\ Valid(handle.file)
         \/ pc' = "discard" /\ handle' = handle /\ ~Valid(handle.file)
     BY <1>a DEF DigestCache, CacheUnusable, Go, HandleInv, Held, Accepted
<1>1. TypeOK'
  <2>1. name' \in [Names -> File \cup {Missing, Directory}] /\ bytes' \in [File -> Bytes]
        BY <1>a, <1>t, FileAssumption DEF DigestCache, CacheUnusable, Go, NamesInv, Names,
           Bytes
  <2>2. \A n \in Temporaries : name'[n] # Directory
        BY <1>a, <1>t, FileAssumption, <1>v DEF DigestCache, CacheUnusable, Go, NamesInv,
           Names, Temporaries
  <2>3. \A m, n \in Names : m # n /\ name'[m] \in File => name'[m] # name'[n]
        BY <1>a, <1>t, FileAssumption, <1>u DEF DigestCache, CacheUnusable, Go, Names
  <2>4. handle' \in [file : File \cup {Missing}, disposable : BOOLEAN]
    <3>1. CASE pc' = "name" /\ handle' = NoHandle
          BY <1>t, <3>1 DEF NoHandle
    <3>2. CASE handle' = handle
          BY <1>t, <3>2
    <3> QED BY <1>e, <3>1, <3>2
  <2>5. /\ pc' \in Steps /\ result' \in {"none", "ok", "failed", "killed"}
        /\ consumed' \in Bytes \cup {"none"} /\ cause' \subseteq Causes /\ tidy' \in BOOLEAN
        BY <1>a, <1>t, FileAssumption DEF DigestCache, CacheUnusable, Go, HandleInv,
           NamesInv, Steps, Held, Accepted, TypeOK, Names, Bytes, Causes
  <2> QED BY <2>1, <2>2, <2>3, <2>4, <2>5 DEF TypeOK
<1>2. HandleInv'
  <2>1. CASE pc' = "name" /\ handle' = NoHandle
        BY <1>a, <1>e, FileAssumption, <2>1 DEF HandleInv, Held, Accepted, NoHandle, Valid
  <2>2. CASE pc' = "fetched" /\ handle' = handle /\ Valid(handle.file)
        BY <1>a, <1>e, FileAssumption, <2>2 DEF HandleInv, Held, Accepted, NoHandle, Valid
  <2>3. CASE pc' = "discard" /\ handle' = handle /\ ~Valid(handle.file)
        BY <1>a, <1>e, FileAssumption, <2>3 DEF HandleInv, Held, Accepted, NoHandle, Valid
  <2> QED BY <1>e, <2>1, <2>2, <2>3
<1>3. NamesInv'
     BY <1>a, <1>t, FileAssumption DEF DigestCache, CacheUnusable, Go, Names, NoHandle,
        Held, Accepted, HandleInv, NamesInv, Valid
<1>4. TidyInv'
     BY <1>a, <1>e DEF TidyInv, Accepted
<1>5. CauseInv'
     BY <1>a, <1>t, FileAssumption DEF DigestCache, CacheUnusable, Go, Names, NoHandle,
        Held, Accepted, HandleInv, NamesInv, CauseInv, Valid
<1>6. ConsumesVerified'
     BY <1>a, <1>t, FileAssumption DEF DigestCache, CacheUnusable, Go, Names, NoHandle,
        Held, Accepted, HandleInv, ConsumesVerified, Valid
<1>7. CacheNeverPartial'
     BY <1>a, <1>t, FileAssumption DEF DigestCache, CacheUnusable, Go, Names, NoHandle,
        Held, Accepted, HandleInv, NamesInv, CacheNeverPartial, Valid
<1> QED BY <1>1, <1>2, <1>3, <1>4, <1>5, <1>6, <1>7 DEF Inv

LEMMA CloseInv == Inv /\ CloseRejected => Inv'
<1> SUFFICES ASSUME Inv, CloseRejected PROVE Inv'
     OBVIOUS
<1>a. /\ TypeOK /\ HandleInv /\ NamesInv /\ TidyInv /\ CauseInv
      /\ ConsumesVerified /\ CacheNeverPartial /\ CloseRejected
     BY DEF Inv
<1>t. /\ name \in [Names -> File \cup {Missing, Directory}]
      /\ bytes \in [File -> Bytes]
      /\ handle \in [file : File \cup {Missing}, disposable : BOOLEAN]
      /\ pc \in Steps
     BY <1>a DEF TypeOK
<1>u. \A m, n \in Names : m # n /\ name[m] \in File => name[m] # name[n]
     BY <1>a DEF TypeOK
<1>v. \A n \in Temporaries : name[n] # Directory
     BY <1>a DEF TypeOK
<1>e. /\ pc = "discard" /\ name' = name /\ bytes' = bytes /\ tidy' = tidy
      /\ handle.file \in File /\ ~handle.disposable
      /\ \/ pc' = "name" /\ handle' = NoHandle
         \/ pc' = "check" /\ handle' = handle
     BY <1>a DEF CloseRejected, Go, HandleInv, Held, Accepted
<1>1. TypeOK'
  <2>1. name' \in [Names -> File \cup {Missing, Directory}] /\ bytes' \in [File -> Bytes]
        BY <1>a, <1>t, FileAssumption DEF CloseRejected, Go, NamesInv, Names,
           Bytes
  <2>2. \A n \in Temporaries : name'[n] # Directory
        BY <1>a, <1>t, FileAssumption, <1>v DEF CloseRejected, Go, NamesInv,
           Names, Temporaries
  <2>3. \A m, n \in Names : m # n /\ name'[m] \in File => name'[m] # name'[n]
        BY <1>a, <1>t, FileAssumption, <1>u DEF CloseRejected, Go, Names
  <2>4. handle' \in [file : File \cup {Missing}, disposable : BOOLEAN]
    <3>1. CASE pc' = "name" /\ handle' = NoHandle
          BY <1>t, <3>1 DEF NoHandle
    <3>2. CASE handle' = handle
          BY <1>t, <3>2
    <3> QED BY <1>e, <3>1, <3>2
  <2>5. /\ pc' \in Steps /\ result' \in {"none", "ok", "failed", "killed"}
        /\ consumed' \in Bytes \cup {"none"} /\ cause' \subseteq Causes /\ tidy' \in BOOLEAN
        BY <1>a, <1>t, FileAssumption DEF CloseRejected, Go, HandleInv,
           NamesInv, Steps, Held, Accepted, TypeOK, Names, Bytes, Causes
  <2> QED BY <2>1, <2>2, <2>3, <2>4, <2>5 DEF TypeOK
<1>2. HandleInv'
  <2>1. CASE pc' = "name" /\ handle' = NoHandle
        BY <1>a, <1>e, FileAssumption, <2>1 DEF HandleInv, Held, Accepted, NoHandle, Valid
  <2>2. CASE pc' = "check" /\ handle' = handle
        BY <1>a, <1>e, FileAssumption, <2>2 DEF HandleInv, Held, Accepted, NoHandle, Valid
  <2> QED BY <1>e, <2>1, <2>2
<1>3. NamesInv'
     BY <1>a, <1>t, FileAssumption DEF CloseRejected, Go, Names, NoHandle,
        Held, Accepted, HandleInv, NamesInv, Valid
<1>4. TidyInv'
     BY <1>a, <1>e DEF TidyInv, Accepted
<1>5. CauseInv'
     BY <1>a, <1>t, FileAssumption DEF CloseRejected, Go, Names, NoHandle,
        Held, Accepted, HandleInv, NamesInv, CauseInv, Valid
<1>6. ConsumesVerified'
     BY <1>a, <1>t, FileAssumption DEF CloseRejected, Go, Names, NoHandle,
        Held, Accepted, HandleInv, ConsumesVerified, Valid
<1>7. CacheNeverPartial'
     BY <1>a, <1>t, FileAssumption DEF CloseRejected, Go, Names, NoHandle,
        Held, Accepted, HandleInv, NamesInv, CacheNeverPartial, Valid
<1> QED BY <1>1, <1>2, <1>3, <1>4, <1>5, <1>6, <1>7 DEF Inv

LEMMA CheckInv == Inv /\ CheckRejected => Inv'
<1> SUFFICES ASSUME Inv, CheckRejected PROVE Inv'
     OBVIOUS
<1>a. /\ TypeOK /\ HandleInv /\ NamesInv /\ TidyInv /\ CauseInv
      /\ ConsumesVerified /\ CacheNeverPartial /\ CheckRejected
     BY DEF Inv
<1>t. /\ name \in [Names -> File \cup {Missing, Directory}]
      /\ bytes \in [File -> Bytes]
      /\ handle \in [file : File \cup {Missing}, disposable : BOOLEAN]
      /\ pc \in Steps
     BY <1>a DEF TypeOK
<1>u. \A m, n \in Names : m # n /\ name[m] \in File => name[m] # name[n]
     BY <1>a DEF TypeOK
<1>v. \A n \in Temporaries : name[n] # Directory
     BY <1>a DEF TypeOK
<1>e. /\ pc = "check" /\ name' = name /\ handle' = NoHandle /\ tidy' = tidy
      /\ pc' \in {"unlink", "name"}
     BY <1>a DEF CheckRejected, Go
<1>1. TypeOK'
  <2>1. name' \in [Names -> File \cup {Missing, Directory}] /\ bytes' \in [File -> Bytes]
        BY <1>a, <1>t, FileAssumption DEF CheckRejected, SameIdentity, Go, NamesInv, Names,
           Bytes
  <2>2. \A n \in Temporaries : name'[n] # Directory
        BY <1>a, <1>t, FileAssumption, <1>v DEF CheckRejected, SameIdentity, Go, NamesInv,
           Names, Temporaries
  <2>3. \A m, n \in Names : m # n /\ name'[m] \in File => name'[m] # name'[n]
        BY <1>a, <1>t, FileAssumption, <1>u DEF CheckRejected, SameIdentity, Go, Names
  <2>4. handle' \in [file : File \cup {Missing}, disposable : BOOLEAN]
        BY <1>a, <1>t, FileAssumption DEF CheckRejected, SameIdentity, Go, NamesInv, Names,
           NoHandle
  <2>5. /\ pc' \in Steps /\ result' \in {"none", "ok", "failed", "killed"}
        /\ consumed' \in Bytes \cup {"none"} /\ cause' \subseteq Causes /\ tidy' \in BOOLEAN
        BY <1>a, <1>t, FileAssumption DEF CheckRejected, SameIdentity, Go, HandleInv,
           NamesInv, Steps, Held, Accepted, TypeOK, Names, Bytes, Causes
  <2> QED BY <2>1, <2>2, <2>3, <2>4, <2>5 DEF TypeOK
<1>2. HandleInv'
     BY <1>e, FileAssumption DEF HandleInv, Held, Accepted, NoHandle
<1>3. NamesInv'
     BY <1>a, <1>t, FileAssumption DEF CheckRejected, SameIdentity, Go, Names, NoHandle,
        Held, Accepted, HandleInv, NamesInv, Valid
<1>4. TidyInv'
     BY <1>a, <1>e DEF TidyInv, Accepted
<1>5. CauseInv'
     BY <1>a, <1>t, FileAssumption DEF CheckRejected, SameIdentity, Go, Names, NoHandle,
        Held, Accepted, HandleInv, NamesInv, CauseInv, Valid
<1>6. ConsumesVerified'
     BY <1>a, <1>t, FileAssumption DEF CheckRejected, SameIdentity, Go, Names, NoHandle,
        Held, Accepted, HandleInv, ConsumesVerified, Valid
<1>7. CacheNeverPartial'
     BY <1>a, <1>t, FileAssumption DEF CheckRejected, SameIdentity, Go, Names, NoHandle,
        Held, Accepted, HandleInv, NamesInv, CacheNeverPartial, Valid
<1> QED BY <1>1, <1>2, <1>3, <1>4, <1>5, <1>6, <1>7 DEF Inv

LEMMA DiscardPathInv == Inv /\ DiscardPath => Inv'
<1> SUFFICES ASSUME Inv, DiscardPath PROVE Inv'
     OBVIOUS
<1>a. /\ TypeOK /\ HandleInv /\ NamesInv /\ TidyInv /\ CauseInv
      /\ ConsumesVerified /\ CacheNeverPartial /\ DiscardPath
     BY DEF Inv
<1>t. /\ name \in [Names -> File \cup {Missing, Directory}]
      /\ bytes \in [File -> Bytes]
      /\ handle \in [file : File \cup {Missing}, disposable : BOOLEAN]
      /\ pc \in Steps
     BY <1>a DEF TypeOK
<1>u. \A m, n \in Names : m # n /\ name[m] \in File => name[m] # name[n]
     BY <1>a DEF TypeOK
<1>v. \A n \in Temporaries : name[n] # Directory
     BY <1>a DEF TypeOK
<1>e. pc = "discard path" /\ name' = name /\ handle' = handle /\ tidy' = tidy
     BY <1>a DEF DiscardPath
<1>1. TypeOK'
  <2>1. name' \in [Names -> File \cup {Missing, Directory}] /\ bytes' \in [File -> Bytes]
        BY <1>a, <1>t, FileAssumption DEF DiscardPath, Go, NamesInv, Names,
           Bytes
  <2>2. \A n \in Temporaries : name'[n] # Directory
        BY <1>a, <1>t, FileAssumption, <1>v DEF DiscardPath, Go, NamesInv,
           Names, Temporaries
  <2>3. \A m, n \in Names : m # n /\ name'[m] \in File => name'[m] # name'[n]
        BY <1>a, <1>t, FileAssumption, <1>u DEF DiscardPath, Go, Names
  <2>4. handle' \in [file : File \cup {Missing}, disposable : BOOLEAN]
        BY <1>a, <1>t, FileAssumption DEF DiscardPath, Go, NamesInv, Names,
           NoHandle
  <2>5. /\ pc' \in Steps /\ result' \in {"none", "ok", "failed", "killed"}
        /\ consumed' \in Bytes \cup {"none"} /\ cause' \subseteq Causes /\ tidy' \in BOOLEAN
        BY <1>a, <1>t, FileAssumption DEF DiscardPath, Go, HandleInv,
           NamesInv, Steps, Held, Accepted, TypeOK, Names, Bytes, Causes
  <2> QED BY <2>1, <2>2, <2>3, <2>4, <2>5 DEF TypeOK
<1>2. HandleInv'
     BY <1>a, <1>t, FileAssumption DEF DiscardPath, Go, Names, NoHandle,
        Held, Accepted, HandleInv, NamesInv, CauseInv, Valid
<1>3. NamesInv'
     BY <1>a, <1>t, FileAssumption DEF DiscardPath, Go, Names, NoHandle,
        Held, Accepted, HandleInv, NamesInv, Valid
<1>4. TidyInv'
     BY <1>a, <1>e DEF TidyInv, Accepted
<1>5. CauseInv'
     BY <1>a, <1>t, FileAssumption DEF DiscardPath, Go, Names, NoHandle,
        Held, Accepted, HandleInv, NamesInv, CauseInv, Valid
<1>6. ConsumesVerified'
     BY <1>a, <1>t, FileAssumption DEF DiscardPath, Go, Names, NoHandle,
        Held, Accepted, HandleInv, ConsumesVerified, Valid
<1>7. CacheNeverPartial'
     BY <1>a, <1>t, FileAssumption DEF DiscardPath, Go, Names, NoHandle,
        Held, Accepted, HandleInv, NamesInv, CacheNeverPartial, Valid
<1> QED BY <1>1, <1>2, <1>3, <1>4, <1>5, <1>6, <1>7 DEF Inv

LEMMA UnlinkInv == Inv /\ UnlinkCache => Inv'
<1> SUFFICES ASSUME Inv, UnlinkCache PROVE Inv'
     OBVIOUS
<1>a. /\ TypeOK /\ HandleInv /\ NamesInv /\ TidyInv /\ CauseInv
      /\ ConsumesVerified /\ CacheNeverPartial /\ UnlinkCache
     BY DEF Inv
<1>t. /\ name \in [Names -> File \cup {Missing, Directory}]
      /\ bytes \in [File -> Bytes]
      /\ handle \in [file : File \cup {Missing}, disposable : BOOLEAN]
      /\ pc \in Steps
     BY <1>a DEF TypeOK
<1>u. \A m, n \in Names : m # n /\ name[m] \in File => name[m] # name[n]
     BY <1>a DEF TypeOK
<1>v. \A n \in Temporaries : name[n] # Directory
     BY <1>a DEF TypeOK
<1>e. /\ pc = "unlink" /\ pc' = "name" /\ handle' = handle /\ tidy' = tidy
      /\ \A n \in Temporaries : name'[n] = name[n]
     BY <1>a, <1>t DEF UnlinkCache, Go, Leads, Temporaries
<1>1. TypeOK'
  <2>1. name' \in [Names -> File \cup {Missing, Directory}] /\ bytes' \in [File -> Bytes]
        BY <1>a, <1>t, FileAssumption DEF UnlinkCache, Leads, Go, NamesInv, Names, Bytes
  <2>2. \A n \in Temporaries : name'[n] # Directory
        BY <1>a, <1>t, FileAssumption, <1>v DEF UnlinkCache, Leads, Go, NamesInv, Names,
           Temporaries
  <2>3. \A m, n \in Names : m # n /\ name'[m] \in File => name'[m] # name'[n]
        BY <1>a, <1>t, FileAssumption, <1>u DEF UnlinkCache, Leads, Go, Names
  <2>4. handle' \in [file : File \cup {Missing}, disposable : BOOLEAN]
        BY <1>a, <1>t, FileAssumption DEF UnlinkCache, Leads, Go, NamesInv, Names, NoHandle
  <2>5. /\ pc' \in Steps /\ result' \in {"none", "ok", "failed", "killed"}
        /\ consumed' \in Bytes \cup {"none"} /\ cause' \subseteq Causes /\ tidy' \in BOOLEAN
        BY <1>a, <1>t, FileAssumption DEF UnlinkCache, Leads, Go, HandleInv, NamesInv,
           Steps, Held, Accepted, TypeOK, Names, Bytes, Causes
  <2> QED BY <2>1, <2>2, <2>3, <2>4, <2>5 DEF TypeOK
<1>2. HandleInv'
     BY <1>a, <1>t, FileAssumption, <1>u DEF UnlinkCache, Leads, Go, Names, NoHandle, Held,
        Accepted, HandleInv, NamesInv, CauseInv, Valid
<1>3. NamesInv'
     BY <1>a, <1>t, FileAssumption, <1>u DEF UnlinkCache, Leads, Go, Names, NoHandle, Held,
        Accepted, HandleInv, NamesInv, Valid
<1>4. TidyInv'
     BY <1>a, <1>e DEF TidyInv, Accepted, Temporaries, Names
<1>5. CauseInv'
     BY <1>a, <1>t, FileAssumption, <1>u DEF UnlinkCache, Leads, Go, Names, NoHandle, Held,
        Accepted, HandleInv, NamesInv, CauseInv, Valid
<1>6. ConsumesVerified'
     BY <1>a, <1>t, FileAssumption, <1>u DEF UnlinkCache, Leads, Go, Names, NoHandle, Held,
        Accepted, HandleInv, ConsumesVerified, Valid
<1>7. CacheNeverPartial'
     BY <1>a, <1>t, FileAssumption, <1>u DEF UnlinkCache, Leads, Go, Names, NoHandle, Held,
        Accepted, HandleInv, NamesInv, CacheNeverPartial, Valid
<1> QED BY <1>1, <1>2, <1>3, <1>4, <1>5, <1>6, <1>7 DEF Inv

LEMMA MakeInv == Inv /\ MakeDownload => Inv'
<1> SUFFICES ASSUME Inv, MakeDownload PROVE Inv'
     OBVIOUS
<1>a. /\ TypeOK /\ HandleInv /\ NamesInv /\ TidyInv /\ CauseInv
      /\ ConsumesVerified /\ CacheNeverPartial /\ MakeDownload
     BY DEF Inv
<1>t. /\ name \in [Names -> File \cup {Missing, Directory}]
      /\ bytes \in [File -> Bytes]
      /\ handle \in [file : File \cup {Missing}, disposable : BOOLEAN]
      /\ pc \in Steps
     BY <1>a DEF TypeOK
<1>u. \A m, n \in Names : m # n /\ name[m] \in File => name[m] # name[n]
     BY <1>a DEF TypeOK
<1>v. \A n \in Temporaries : name[n] # Directory
     BY <1>a DEF TypeOK
<1>e. /\ handle = NoHandle /\ handle' = NoHandle
      /\ pc' \in {"idle", "transfer"}
     BY <1>a DEF MakeDownload, Go, End, HandleInv, Held, Accepted
<1>1. TypeOK'
  <2>1. name' \in [Names -> File \cup {Missing, Directory}] /\ bytes' \in [File -> Bytes]
        BY <1>a, <1>t, FileAssumption DEF MakeDownload, Leads, Written, Go, End, Fresh,
           InUse, OpenFile, NamesInv, Names, Bytes
  <2>2. \A n \in Temporaries : name'[n] # Directory
        BY <1>a, <1>t, FileAssumption, <1>v DEF MakeDownload, Leads, Written, Go, End,
           Fresh, InUse, OpenFile, NamesInv, Names, Temporaries
  <2>3. \A m, n \in Names : m # n /\ name'[m] \in File => name'[m] # name'[n]
        BY <1>a, <1>t, FileAssumption, <1>u DEF MakeDownload, Leads, Written, Go, End,
           Fresh, InUse, OpenFile, Names
  <2>4. handle' \in [file : File \cup {Missing}, disposable : BOOLEAN]
        BY <1>a, <1>t, FileAssumption DEF MakeDownload, Leads, Written, Go, End, Fresh,
           InUse, OpenFile, NamesInv, Names, NoHandle
  <2>5. /\ pc' \in Steps /\ result' \in {"none", "ok", "failed", "killed"}
        /\ consumed' \in Bytes \cup {"none"} /\ cause' \subseteq Causes /\ tidy' \in BOOLEAN
        BY <1>a, <1>t, FileAssumption DEF MakeDownload, Leads, Written, Go, End, Fresh,
           InUse, OpenFile, HandleInv, NamesInv, Steps, Held, Accepted, TypeOK, Names, Bytes, Causes
  <2> QED BY <2>1, <2>2, <2>3, <2>4, <2>5 DEF TypeOK
<1>2. HandleInv'
     BY <1>a, <1>e DEF HandleInv, Held, Accepted, NoHandle, Valid
<1>3. NamesInv'
     BY <1>a, <1>t, FileAssumption, <1>u DEF MakeDownload, Leads, Written, Go, End, Fresh,
        InUse, OpenFile, Names, NoHandle, Held, Accepted, HandleInv, NamesInv, Valid
<1>4. TidyInv'
     BY <1>a, <1>t, FileAssumption, <1>u DEF MakeDownload, Leads, Written, Go, End, Fresh,
        InUse, OpenFile, Names, NoHandle, Held, Accepted, HandleInv, NamesInv, TidyInv
<1>5. CauseInv'
     BY <1>a, <1>t, FileAssumption, <1>u DEF MakeDownload, Leads, Written, Go, End, Fresh,
        InUse, OpenFile, Names, NoHandle, Held, Accepted, HandleInv, NamesInv, CauseInv, Valid
<1>6. ConsumesVerified'
     BY <1>a, <1>t, FileAssumption, <1>u DEF MakeDownload, Leads, Written, Go, End, Fresh,
        InUse, OpenFile, Names, NoHandle, Held, Accepted, HandleInv, ConsumesVerified, Valid
<1>7. CacheNeverPartial'
     BY <1>a, <1>t, FileAssumption, <1>u DEF MakeDownload, Leads, Written, Go, End, Fresh,
        InUse, OpenFile, Names, NoHandle, Held, Accepted, HandleInv, NamesInv, CacheNeverPartial,
        Valid
<1> QED BY <1>1, <1>2, <1>3, <1>4, <1>5, <1>6, <1>7 DEF Inv

LEMMA TransferInv == Inv /\ Transfer => Inv'
<1> SUFFICES ASSUME Inv, Transfer PROVE Inv'
     OBVIOUS
<1>a. /\ TypeOK /\ HandleInv /\ NamesInv /\ TidyInv /\ CauseInv
      /\ ConsumesVerified /\ CacheNeverPartial /\ Transfer
     BY DEF Inv
<1>t. /\ name \in [Names -> File \cup {Missing, Directory}]
      /\ bytes \in [File -> Bytes]
      /\ handle \in [file : File \cup {Missing}, disposable : BOOLEAN]
      /\ pc \in Steps
     BY <1>a DEF TypeOK
<1>u. \A m, n \in Names : m # n /\ name[m] \in File => name[m] # name[n]
     BY <1>a DEF TypeOK
<1>v. \A n \in Temporaries : name[n] # Directory
     BY <1>a DEF TypeOK
<1>1. TypeOK'
  <2>1. name' \in [Names -> File \cup {Missing, Directory}] /\ bytes' \in [File -> Bytes]
        BY <1>a, <1>t, FileAssumption DEF Transfer, Leads, Written, Go, End, Remove,
           NamesInv, Names, Bytes
  <2>2. \A n \in Temporaries : name'[n] # Directory
        BY <1>a, <1>t, FileAssumption, <1>v DEF Transfer, Leads, Written, Go, End, Remove,
           NamesInv, Names, Temporaries
  <2>3. \A m, n \in Names : m # n /\ name'[m] \in File => name'[m] # name'[n]
        BY <1>a, <1>t, FileAssumption, <1>u DEF Transfer, Leads, Written, Go, End, Remove,
           Names
  <2>4. handle' \in [file : File \cup {Missing}, disposable : BOOLEAN]
        BY <1>a, <1>t, FileAssumption DEF Transfer, Leads, Written, Go, End, Remove,
           NamesInv, Names, NoHandle
  <2>5. /\ pc' \in Steps /\ result' \in {"none", "ok", "failed", "killed"}
        /\ consumed' \in Bytes \cup {"none"} /\ cause' \subseteq Causes /\ tidy' \in BOOLEAN
        BY <1>a, <1>t, FileAssumption DEF Transfer, Leads, Written, Go, End, Remove,
           HandleInv, NamesInv, Steps, Held, Accepted, TypeOK, Names, Bytes, Causes
  <2> QED BY <2>1, <2>2, <2>3, <2>4, <2>5 DEF TypeOK
<1>2. HandleInv'
     BY <1>a, <1>t, FileAssumption DEF Transfer, Leads, Written, Go, End, Remove, Names,
        NoHandle, Held, Accepted, HandleInv, NamesInv, CauseInv, Valid
<1>3. NamesInv'
     BY <1>a, <1>t, FileAssumption DEF Transfer, Leads, Written, Go, End, Remove, Names,
        NoHandle, Held, Accepted, HandleInv, NamesInv, Valid
<1>4. TidyInv'
     BY <1>a, <1>t, FileAssumption DEF Transfer, Leads, Written, Go, End, Remove, Names,
        NoHandle, Held, Accepted, HandleInv, NamesInv, TidyInv
<1>5. CauseInv'
     BY <1>a, <1>t, FileAssumption DEF Transfer, Leads, Written, Go, End, Remove, Names,
        NoHandle, Held, Accepted, HandleInv, NamesInv, CauseInv, Valid
<1>6. ConsumesVerified'
     BY <1>a, <1>t, FileAssumption DEF Transfer, Leads, Written, Go, End, Remove, Names,
        NoHandle, Held, Accepted, HandleInv, ConsumesVerified, Valid
<1>7. CacheNeverPartial'
     BY <1>a, <1>t, FileAssumption DEF Transfer, Leads, Written, Go, End, Remove, Names,
        NoHandle, Held, Accepted, HandleInv, NamesInv, CacheNeverPartial, Valid
<1> QED BY <1>1, <1>2, <1>3, <1>4, <1>5, <1>6, <1>7 DEF Inv

LEMMA SaveInv == Inv /\ SaveDownload => Inv'
<1> SUFFICES ASSUME Inv, SaveDownload PROVE Inv'
     OBVIOUS
<1>a. /\ TypeOK /\ HandleInv /\ NamesInv /\ TidyInv /\ CauseInv
      /\ ConsumesVerified /\ CacheNeverPartial /\ SaveDownload
     BY DEF Inv
<1>t. /\ name \in [Names -> File \cup {Missing, Directory}]
      /\ bytes \in [File -> Bytes]
      /\ handle \in [file : File \cup {Missing}, disposable : BOOLEAN]
      /\ pc \in Steps
     BY <1>a DEF TypeOK
<1>u. \A m, n \in Names : m # n /\ name[m] \in File => name[m] # name[n]
     BY <1>a DEF TypeOK
<1>v. \A n \in Temporaries : name[n] # Directory
     BY <1>a DEF TypeOK
<1>1. TypeOK'
  <2>1. name' \in [Names -> File \cup {Missing, Directory}] /\ bytes' \in [File -> Bytes]
        BY <1>a, <1>t, FileAssumption DEF SaveDownload, Leads, Go, End, Remove, NamesInv,
           Names, Bytes
  <2>2. \A n \in Temporaries : name'[n] # Directory
        BY <1>a, <1>t, FileAssumption, <1>v DEF SaveDownload, Leads, Go, End, Remove,
           NamesInv, Names, Temporaries
  <2>3. \A m, n \in Names : m # n /\ name'[m] \in File => name'[m] # name'[n]
        BY <1>a, <1>t, FileAssumption, <1>u DEF SaveDownload, Leads, Go, End, Remove, Names
  <2>4. handle' \in [file : File \cup {Missing}, disposable : BOOLEAN]
        BY <1>a, <1>t, FileAssumption DEF SaveDownload, Leads, Go, End, Remove, NamesInv,
           Names, NoHandle
  <2>5. /\ pc' \in Steps /\ result' \in {"none", "ok", "failed", "killed"}
        /\ consumed' \in Bytes \cup {"none"} /\ cause' \subseteq Causes /\ tidy' \in BOOLEAN
        BY <1>a, <1>t, FileAssumption DEF SaveDownload, Leads, Go, End, Remove, HandleInv,
           NamesInv, Steps, Held, Accepted, TypeOK, Names, Bytes, Causes
  <2> QED BY <2>1, <2>2, <2>3, <2>4, <2>5 DEF TypeOK
<1>2. HandleInv'
     BY <1>a, <1>t, FileAssumption DEF SaveDownload, Leads, Go, End, Remove, Names,
        NoHandle, Held, Accepted, HandleInv, NamesInv, CauseInv, Valid
<1>3. NamesInv'
     BY <1>a, <1>t, FileAssumption DEF SaveDownload, Leads, Go, End, Remove, Names,
        NoHandle, Held, Accepted, HandleInv, NamesInv, Valid
<1>4. TidyInv'
     BY <1>a, <1>t, FileAssumption DEF SaveDownload, Leads, Go, End, Remove, Names,
        NoHandle, Held, Accepted, HandleInv, NamesInv, TidyInv
<1>5. CauseInv'
     BY <1>a, <1>t, FileAssumption DEF SaveDownload, Leads, Go, End, Remove, Names,
        NoHandle, Held, Accepted, HandleInv, NamesInv, CauseInv, Valid
<1>6. ConsumesVerified'
     BY <1>a, <1>t, FileAssumption DEF SaveDownload, Leads, Go, End, Remove, Names,
        NoHandle, Held, Accepted, HandleInv, ConsumesVerified, Valid
<1>7. CacheNeverPartial'
     BY <1>a, <1>t, FileAssumption DEF SaveDownload, Leads, Go, End, Remove, Names,
        NoHandle, Held, Accepted, HandleInv, NamesInv, CacheNeverPartial, Valid
<1> QED BY <1>1, <1>2, <1>3, <1>4, <1>5, <1>6, <1>7 DEF Inv

LEMMA CommitInv == Inv /\ CommitDownload => Inv'
<1> SUFFICES ASSUME Inv, CommitDownload PROVE Inv'
     OBVIOUS
<1>a. /\ TypeOK /\ HandleInv /\ NamesInv /\ TidyInv /\ CauseInv
      /\ ConsumesVerified /\ CacheNeverPartial /\ CommitDownload
     BY DEF Inv
<1>t. /\ name \in [Names -> File \cup {Missing, Directory}]
      /\ bytes \in [File -> Bytes]
      /\ handle \in [file : File \cup {Missing}, disposable : BOOLEAN]
      /\ pc \in Steps
     BY <1>a DEF TypeOK
<1>u. \A m, n \in Names : m # n /\ name[m] \in File => name[m] # name[n]
     BY <1>a DEF TypeOK
<1>v. \A n \in Temporaries : name[n] # Directory
     BY <1>a DEF TypeOK
<1>e. /\ handle = NoHandle /\ handle' = NoHandle
      /\ pc' \in {"idle", "verify", "unconfirmed"}
     BY <1>a DEF CommitDownload, Go, End, HandleInv, Held, Accepted
<1>1. TypeOK'
  <2>1. name' \in [Names -> File \cup {Missing, Directory}] /\ bytes' \in [File -> Bytes]
        BY <1>a, <1>t, FileAssumption DEF CommitDownload, Leads, Moved, Go, End, Remove,
           NamesInv, Names, Bytes
  <2>2. \A n \in Temporaries : name'[n] # Directory
        BY <1>a, <1>t, FileAssumption, <1>v DEF CommitDownload, Leads, Moved, Go, End,
           Remove, NamesInv, Names, Temporaries
  <2>3. \A m, n \in Names : m # n /\ name'[m] \in File => name'[m] # name'[n]
        BY <1>a, <1>t, FileAssumption, <1>u DEF CommitDownload, Leads, Moved, Go, End,
           Remove, Names
  <2>4. handle' \in [file : File \cup {Missing}, disposable : BOOLEAN]
        BY <1>a, <1>t, FileAssumption DEF CommitDownload, Leads, Moved, Go, End, Remove,
           NamesInv, Names, NoHandle
  <2>5. /\ pc' \in Steps /\ result' \in {"none", "ok", "failed", "killed"}
        /\ consumed' \in Bytes \cup {"none"} /\ cause' \subseteq Causes /\ tidy' \in BOOLEAN
        BY <1>a, <1>t, FileAssumption DEF CommitDownload, Leads, Moved, Go, End, Remove,
           HandleInv, NamesInv, Steps, Held, Accepted, TypeOK, Names, Bytes, Causes
  <2> QED BY <2>1, <2>2, <2>3, <2>4, <2>5 DEF TypeOK
<1>2. HandleInv'
     BY <1>a, <1>e DEF HandleInv, Held, Accepted, NoHandle, Valid
<1>3. NamesInv'
     BY <1>a, <1>t, FileAssumption DEF CommitDownload, Leads, Moved, Go, End, Remove,
        Names, NoHandle, Held, Accepted, HandleInv, NamesInv, Valid
<1>4. TidyInv'
     BY <1>a, <1>t, FileAssumption DEF CommitDownload, Leads, Moved, Go, End, Remove,
        Names, NoHandle, Held, Accepted, HandleInv, NamesInv, TidyInv
<1>5. CauseInv'
     BY <1>a, <1>t, FileAssumption DEF CommitDownload, Leads, Moved, Go, End, Remove,
        Names, NoHandle, Held, Accepted, HandleInv, NamesInv, CauseInv, Valid
<1>6. ConsumesVerified'
     BY <1>a, <1>t, FileAssumption DEF CommitDownload, Leads, Moved, Go, End, Remove,
        Names, NoHandle, Held, Accepted, HandleInv, ConsumesVerified, Valid
<1>7. CacheNeverPartial'
     BY <1>a, <1>t, FileAssumption DEF CommitDownload, Leads, Moved, Go, End, Remove,
        Names, NoHandle, Held, Accepted, HandleInv, NamesInv, CacheNeverPartial, Valid
<1> QED BY <1>1, <1>2, <1>3, <1>4, <1>5, <1>6, <1>7 DEF Inv

LEMMA UnconfirmedInv == Inv /\ RemoveUnconfirmed => Inv'
<1> SUFFICES ASSUME Inv, RemoveUnconfirmed PROVE Inv'
     OBVIOUS
<1>a. /\ TypeOK /\ HandleInv /\ NamesInv /\ TidyInv /\ CauseInv
      /\ ConsumesVerified /\ CacheNeverPartial /\ RemoveUnconfirmed
     BY DEF Inv
<1>t. /\ name \in [Names -> File \cup {Missing, Directory}]
      /\ bytes \in [File -> Bytes]
      /\ handle \in [file : File \cup {Missing}, disposable : BOOLEAN]
      /\ pc \in Steps
     BY <1>a DEF TypeOK
<1>u. \A m, n \in Names : m # n /\ name[m] \in File => name[m] # name[n]
     BY <1>a DEF TypeOK
<1>v. \A n \in Temporaries : name[n] # Directory
     BY <1>a DEF TypeOK
<1>e. /\ pc = "unconfirmed" /\ pc' = "idle"
      /\ (name' = [name EXCEPT !["artifact"] = Missing] /\ tidy' = tidy) \/ tidy' = FALSE
     BY <1>a DEF RemoveUnconfirmed, End, Remove, Leads
<1>1. TypeOK'
  <2>1. name' \in [Names -> File \cup {Missing, Directory}] /\ bytes' \in [File -> Bytes]
        BY <1>a, <1>t, FileAssumption DEF RemoveUnconfirmed, Leads, End, Remove, NamesInv,
           Names, Bytes
  <2>2. \A n \in Temporaries : name'[n] # Directory
        BY <1>a, <1>t, FileAssumption, <1>v DEF RemoveUnconfirmed, Leads, End, Remove,
           NamesInv, Names, Temporaries
  <2>3. \A m, n \in Names : m # n /\ name'[m] \in File => name'[m] # name'[n]
        BY <1>a, <1>t, FileAssumption, <1>u DEF RemoveUnconfirmed, Leads, End, Remove, Names
  <2>4. handle' \in [file : File \cup {Missing}, disposable : BOOLEAN]
        BY <1>a, <1>t, FileAssumption DEF RemoveUnconfirmed, Leads, End, Remove, NamesInv,
           Names, NoHandle
  <2>5. /\ pc' \in Steps /\ result' \in {"none", "ok", "failed", "killed"}
        /\ consumed' \in Bytes \cup {"none"} /\ cause' \subseteq Causes /\ tidy' \in BOOLEAN
        BY <1>a, <1>t, FileAssumption DEF RemoveUnconfirmed, Leads, End, Remove, HandleInv,
           NamesInv, Steps, Held, Accepted, TypeOK, Names, Bytes, Causes
  <2> QED BY <2>1, <2>2, <2>3, <2>4, <2>5 DEF TypeOK
<1>2. HandleInv'
     BY <1>a, <1>t, FileAssumption DEF RemoveUnconfirmed, Leads, End, Remove, Names,
        NoHandle, Held, Accepted, HandleInv, NamesInv, CauseInv, Valid
<1>3. NamesInv'
     BY <1>a, <1>t, FileAssumption DEF RemoveUnconfirmed, Leads, End, Remove, Names,
        NoHandle, Held, Accepted, HandleInv, NamesInv, Valid
<1>4. TidyInv'
     BY <1>a, <1>e, <1>t DEF TidyInv, Accepted, Names
<1>5. CauseInv'
     BY <1>a, <1>t, FileAssumption DEF RemoveUnconfirmed, Leads, End, Remove, Names,
        NoHandle, Held, Accepted, HandleInv, NamesInv, CauseInv, Valid
<1>6. ConsumesVerified'
     BY <1>a, <1>t, FileAssumption DEF RemoveUnconfirmed, Leads, End, Remove, Names,
        NoHandle, Held, Accepted, HandleInv, ConsumesVerified, Valid
<1>7. CacheNeverPartial'
     BY <1>a, <1>t, FileAssumption DEF RemoveUnconfirmed, Leads, End, Remove, Names,
        NoHandle, Held, Accepted, HandleInv, NamesInv, CacheNeverPartial, Valid
<1> QED BY <1>1, <1>2, <1>3, <1>4, <1>5, <1>6, <1>7 DEF Inv

LEMMA VerifyInv == Inv /\ VerifyDownload => Inv'
<1> SUFFICES ASSUME Inv, VerifyDownload PROVE Inv'
     OBVIOUS
<1>a. /\ TypeOK /\ HandleInv /\ NamesInv /\ TidyInv /\ CauseInv
      /\ ConsumesVerified /\ CacheNeverPartial /\ VerifyDownload
     BY DEF Inv
<1>t. /\ name \in [Names -> File \cup {Missing, Directory}]
      /\ bytes \in [File -> Bytes]
      /\ handle \in [file : File \cup {Missing}, disposable : BOOLEAN]
      /\ pc \in Steps
     BY <1>a DEF TypeOK
<1>u. \A m, n \in Names : m # n /\ name[m] \in File => name[m] # name[n]
     BY <1>a DEF TypeOK
<1>v. \A n \in Temporaries : name[n] # Directory
     BY <1>a DEF TypeOK
<1>e. /\ pc = "verify" /\ handle = NoHandle /\ name["artifact"] \in File /\ bytes' = bytes
      /\ \/ /\ pc' = "publish" /\ Valid(name["artifact"]) /\ name' = name /\ tidy' = tidy
            /\ handle' = [file |-> name["artifact"], disposable |-> TRUE]
         \/ /\ pc' = "idle" /\ handle' = NoHandle
            /\ (name' = [name EXCEPT !["artifact"] = Missing] /\ tidy' = tidy) \/ tidy' = FALSE
     BY <1>a DEF VerifyDownload, Open, Go, End, Remove, Leads, HandleInv, NamesInv, Held, Accepted
<1>1. TypeOK'
  <2>1. name' \in [Names -> File \cup {Missing, Directory}] /\ bytes' \in [File -> Bytes]
        BY <1>a, <1>t, FileAssumption DEF VerifyDownload, Open, Leads, Go, End, Remove,
           NamesInv, Names, Bytes
  <2>2. \A n \in Temporaries : name'[n] # Directory
        BY <1>a, <1>t, FileAssumption, <1>v DEF VerifyDownload, Open, Leads, Go, End,
           Remove, NamesInv, Names, Temporaries
  <2>3. \A m, n \in Names : m # n /\ name'[m] \in File => name'[m] # name'[n]
        BY <1>a, <1>t, FileAssumption, <1>u DEF VerifyDownload, Open, Leads, Go, End,
           Remove, Names
  <2>4. handle' \in [file : File \cup {Missing}, disposable : BOOLEAN]
    <3>1. CASE handle' = NoHandle
          BY <1>e, <3>1 DEF NoHandle
    <3>2. CASE handle' = [file |-> name["artifact"], disposable |-> TRUE]
          BY <1>e, <3>2
    <3> QED BY <1>e, <3>1, <3>2
  <2>5. /\ pc' \in Steps /\ result' \in {"none", "ok", "failed", "killed"}
        /\ consumed' \in Bytes \cup {"none"} /\ cause' \subseteq Causes /\ tidy' \in BOOLEAN
        BY <1>a, <1>t, FileAssumption DEF VerifyDownload, Open, Leads, Go, End, Remove,
           HandleInv, NamesInv, Steps, Held, Accepted, TypeOK, Names, Bytes, Causes
  <2> QED BY <2>1, <2>2, <2>3, <2>4, <2>5 DEF TypeOK
<1>2. HandleInv'
  <2>1. CASE /\ pc' = "publish" /\ Valid(name["artifact"]) /\ name' = name /\ tidy' = tidy
             /\ handle' = [file |-> name["artifact"], disposable |-> TRUE]
        BY <1>a, <1>e, FileAssumption, <2>1 DEF HandleInv, Held, Accepted, NoHandle, Valid
  <2>2. CASE /\ pc' = "idle" /\ handle' = NoHandle
             /\ (name' = [name EXCEPT !["artifact"] = Missing] /\ tidy' = tidy) \/ tidy' = FALSE
        BY <1>a, <1>e, FileAssumption, <2>2 DEF HandleInv, Held, Accepted, NoHandle, Valid
  <2> QED BY <1>e, <2>1, <2>2
<1>3. NamesInv'
     BY <1>a, <1>t, FileAssumption DEF VerifyDownload, Open, Leads, Go, End, Remove, Names,
        NoHandle, Held, Accepted, HandleInv, NamesInv, Valid
<1>4. TidyInv'
  <2>1. CASE /\ pc' = "publish" /\ Valid(name["artifact"]) /\ name' = name /\ tidy' = tidy
             /\ handle' = [file |-> name["artifact"], disposable |-> TRUE]
        BY <1>a, <1>e, <1>t, <2>1 DEF TidyInv, Accepted
  <2>2. CASE /\ pc' = "idle" /\ handle' = NoHandle
             /\ (name' = [name EXCEPT !["artifact"] = Missing] /\ tidy' = tidy) \/ tidy' = FALSE
        BY <1>a, <1>e, <1>t, <2>2 DEF TidyInv, Accepted, Names
  <2> QED BY <1>e, <2>1, <2>2
<1>5. CauseInv'
     BY <1>a, <1>t, FileAssumption DEF VerifyDownload, Open, Leads, Go, End, Remove, Names,
        NoHandle, Held, Accepted, HandleInv, NamesInv, CauseInv, Valid
<1>6. ConsumesVerified'
     BY <1>a, <1>t, FileAssumption DEF VerifyDownload, Open, Leads, Go, End, Remove, Names,
        NoHandle, Held, Accepted, HandleInv, ConsumesVerified, Valid
<1>7. CacheNeverPartial'
     BY <1>a, <1>t, FileAssumption DEF VerifyDownload, Open, Leads, Go, End, Remove, Names,
        NoHandle, Held, Accepted, HandleInv, NamesInv, CacheNeverPartial, Valid
<1> QED BY <1>1, <1>2, <1>3, <1>4, <1>5, <1>6, <1>7 DEF Inv

LEMMA PublishInv == Inv /\ PublishCache => Inv'
<1> SUFFICES ASSUME Inv, PublishCache PROVE Inv'
     OBVIOUS
<1>a. /\ TypeOK /\ HandleInv /\ NamesInv /\ TidyInv /\ CauseInv
      /\ ConsumesVerified /\ CacheNeverPartial /\ PublishCache
     BY DEF Inv
<1>t. /\ name \in [Names -> File \cup {Missing, Directory}]
      /\ bytes \in [File -> Bytes]
      /\ handle \in [file : File \cup {Missing}, disposable : BOOLEAN]
      /\ pc \in Steps
     BY <1>a DEF TypeOK
<1>u. \A m, n \in Names : m # n /\ name[m] \in File => name[m] # name[n]
     BY <1>a DEF TypeOK
<1>v. \A n \in Temporaries : name[n] # Directory
     BY <1>a DEF TypeOK
<1>e. /\ pc = "publish" /\ pc' \in {"fetched", "copy"} /\ handle' = handle /\ tidy' = tidy
      /\ handle.disposable
      /\ name'["artifact"] = name["artifact"] /\ name'["download"] = name["download"]
      /\ pc' = "copy" \/ name'["copy"] = name["copy"]
     BY <1>a, <1>t DEF PublishCache, CopyTarget, Go, Leads, HandleInv, Names
<1>1. TypeOK'
  <2>1. name' \in [Names -> File \cup {Missing, Directory}] /\ bytes' \in [File -> Bytes]
        BY <1>a, <1>t, FileAssumption DEF PublishCache, CopyTarget, Leads, Written, Go,
           Fresh, InUse, OpenFile, NamesInv, Names, Bytes
  <2>2. \A n \in Temporaries : name'[n] # Directory
        BY <1>a, <1>t, FileAssumption, <1>v DEF PublishCache, CopyTarget, Leads, Written,
           Go, Fresh, InUse, OpenFile, NamesInv, Names, Temporaries
  <2>3. \A m, n \in Names : m # n /\ name'[m] \in File => name'[m] # name'[n]
        BY <1>a, <1>t, FileAssumption, <1>u DEF PublishCache, CopyTarget, Leads, Written,
           Go, Fresh, InUse, OpenFile, Names
  <2>4. handle' \in [file : File \cup {Missing}, disposable : BOOLEAN]
        BY <1>a, <1>t, FileAssumption DEF PublishCache, CopyTarget, Leads, Written, Go,
           Fresh, InUse, OpenFile, NamesInv, Names, NoHandle
  <2>5. /\ pc' \in Steps /\ result' \in {"none", "ok", "failed", "killed"}
        /\ consumed' \in Bytes \cup {"none"} /\ cause' \subseteq Causes /\ tidy' \in BOOLEAN
        BY <1>a, <1>t, FileAssumption DEF PublishCache, CopyTarget, Leads, Written, Go,
           Fresh, InUse, OpenFile, HandleInv, NamesInv, Steps, Held, Accepted, TypeOK, Names, Bytes,
           Causes
  <2> QED BY <2>1, <2>2, <2>3, <2>4, <2>5 DEF TypeOK
<1>2. HandleInv'
     BY <1>a, <1>t, FileAssumption, <1>u DEF PublishCache, CopyTarget, Leads, Written, Go,
        Fresh, InUse, OpenFile, Names, NoHandle, Held, Accepted, HandleInv, NamesInv, CauseInv, Valid
<1>3. NamesInv'
     BY <1>a, <1>t, FileAssumption, <1>u DEF PublishCache, CopyTarget, Leads, Written, Go,
        Fresh, InUse, OpenFile, Names, NoHandle, Held, Accepted, HandleInv, NamesInv, Valid
<1>4. TidyInv'
  <2>1. CASE pc' = "copy"
        BY <1>a, <1>e, <2>1 DEF TidyInv, Accepted
  <2>2. CASE pc' = "fetched" /\ name'["copy"] = name["copy"]
        BY <1>a, <1>e, <2>2 DEF TidyInv, Accepted
  <2> QED BY <1>e, <2>1, <2>2
<1>5. CauseInv'
     BY <1>a, <1>t, FileAssumption, <1>u DEF PublishCache, CopyTarget, Leads, Written, Go,
        Fresh, InUse, OpenFile, Names, NoHandle, Held, Accepted, HandleInv, NamesInv, CauseInv, Valid
<1>6. ConsumesVerified'
     BY <1>a, <1>t, FileAssumption, <1>u DEF PublishCache, CopyTarget, Leads, Written, Go,
        Fresh, InUse, OpenFile, Names, NoHandle, Held, Accepted, HandleInv, ConsumesVerified, Valid
<1>7. CacheNeverPartial'
     BY <1>a, <1>t, FileAssumption, <1>u DEF PublishCache, CopyTarget, Leads, Written, Go,
        Fresh, InUse, OpenFile, Names, NoHandle, Held, Accepted, HandleInv, NamesInv,
        CacheNeverPartial, Valid
<1> QED BY <1>1, <1>2, <1>3, <1>4, <1>5, <1>6, <1>7 DEF Inv

LEMMA CopyInv == Inv /\ CopyBytes => Inv'
<1> SUFFICES ASSUME Inv, CopyBytes PROVE Inv'
     OBVIOUS
<1>a. /\ TypeOK /\ HandleInv /\ NamesInv /\ TidyInv /\ CauseInv
      /\ ConsumesVerified /\ CacheNeverPartial /\ CopyBytes
     BY DEF Inv
<1>t. /\ name \in [Names -> File \cup {Missing, Directory}]
      /\ bytes \in [File -> Bytes]
      /\ handle \in [file : File \cup {Missing}, disposable : BOOLEAN]
      /\ pc \in Steps
     BY <1>a DEF TypeOK
<1>u. \A m, n \in Names : m # n /\ name[m] \in File => name[m] # name[n]
     BY <1>a DEF TypeOK
<1>v. \A n \in Temporaries : name[n] # Directory
     BY <1>a DEF TypeOK
<1>e. /\ name["copy"] \in File /\ name["artifact"] \in File
     BY <1>a DEF CopyBytes, HandleInv, NamesInv, Held, Accepted
<1>1. TypeOK'
  <2>1. name' \in [Names -> File \cup {Missing, Directory}] /\ bytes' \in [File -> Bytes]
        BY <1>a, <1>e, <1>t, FileAssumption DEF CopyBytes, CopyTarget, Remove, Leads,
           Written, Names, Bytes
  <2>2. \A n \in Temporaries : name'[n] # Directory
        BY <1>a, <1>t, FileAssumption, <1>v DEF CopyBytes, CopyTarget, Leads, Written, Go,
           Remove, NamesInv, Names, Temporaries
  <2>3. \A m, n \in Names : m # n /\ name'[m] \in File => name'[m] # name'[n]
        BY <1>a, <1>t, FileAssumption, <1>u DEF CopyBytes, CopyTarget, Leads, Written, Go,
           Remove, Names
  <2>4. handle' \in [file : File \cup {Missing}, disposable : BOOLEAN]
        BY <1>a, <1>t, FileAssumption DEF CopyBytes, CopyTarget, Leads, Written, Go,
           Remove, NamesInv, Names, NoHandle
  <2>5. /\ pc' \in Steps /\ result' \in {"none", "ok", "failed", "killed"}
        /\ consumed' \in Bytes \cup {"none"} /\ cause' \subseteq Causes /\ tidy' \in BOOLEAN
        BY <1>a, <1>t, FileAssumption DEF CopyBytes, CopyTarget, Leads, Written, Go,
           Remove, HandleInv, NamesInv, Steps, Held, Accepted, TypeOK, Names, Bytes, Causes
  <2> QED BY <2>1, <2>2, <2>3, <2>4, <2>5 DEF TypeOK
<1>2. HandleInv'
     BY <1>a, <1>t, FileAssumption, <1>u DEF CopyBytes, CopyTarget, Leads, Written, Go,
        Remove, Names, NoHandle, Held, Accepted, HandleInv, NamesInv, CauseInv, Valid
<1>3. NamesInv'
     BY <1>a, <1>t, FileAssumption, <1>u DEF CopyBytes, CopyTarget, Leads, Written, Go,
        Remove, Names, NoHandle, Held, Accepted, HandleInv, NamesInv, Valid
<1>4. TidyInv'
     BY <1>a, <1>t, FileAssumption, <1>u DEF CopyBytes, CopyTarget, Leads, Written, Go,
        Remove, Names, NoHandle, Held, Accepted, HandleInv, NamesInv, TidyInv
<1>5. CauseInv'
     BY <1>a, <1>t, FileAssumption, <1>u DEF CopyBytes, CopyTarget, Leads, Written, Go,
        Remove, Names, NoHandle, Held, Accepted, HandleInv, NamesInv, CauseInv, Valid
<1>6. ConsumesVerified'
     BY <1>a, <1>t, FileAssumption, <1>u DEF CopyBytes, CopyTarget, Leads, Written, Go,
        Remove, Names, NoHandle, Held, Accepted, HandleInv, ConsumesVerified, Valid
<1>7. CacheNeverPartial'
     BY <1>a, <1>t, FileAssumption, <1>u DEF CopyBytes, CopyTarget, Leads, Written, Go,
        Remove, Names, NoHandle, Held, Accepted, HandleInv, NamesInv, CacheNeverPartial,
        Valid
<1> QED BY <1>1, <1>2, <1>3, <1>4, <1>5, <1>6, <1>7 DEF Inv

LEMMA ReplaceInv == Inv /\ ReplaceCache => Inv'
<1> SUFFICES ASSUME Inv, ReplaceCache PROVE Inv'
     OBVIOUS
<1>a. /\ TypeOK /\ HandleInv /\ NamesInv /\ TidyInv /\ CauseInv
      /\ ConsumesVerified /\ CacheNeverPartial /\ ReplaceCache
     BY DEF Inv
<1>t. /\ name \in [Names -> File \cup {Missing, Directory}]
      /\ bytes \in [File -> Bytes]
      /\ handle \in [file : File \cup {Missing}, disposable : BOOLEAN]
      /\ pc \in Steps
     BY <1>a DEF TypeOK
<1>u. \A m, n \in Names : m # n /\ name[m] \in File => name[m] # name[n]
     BY <1>a DEF TypeOK
<1>v. \A n \in Temporaries : name[n] # Directory
     BY <1>a DEF TypeOK
<1>1. TypeOK'
  <2>1. name' \in [Names -> File \cup {Missing, Directory}] /\ bytes' \in [File -> Bytes]
        BY <1>a, <1>t, FileAssumption DEF ReplaceCache, Leads, Moved, Go, Remove, NamesInv,
           Names, Bytes
  <2>2. \A n \in Temporaries : name'[n] # Directory
        BY <1>a, <1>t, FileAssumption, <1>v DEF ReplaceCache, Leads, Moved, Go, Remove,
           NamesInv, Names, Temporaries
  <2>3. \A m, n \in Names : m # n /\ name'[m] \in File => name'[m] # name'[n]
        BY <1>a, <1>t, FileAssumption, <1>u DEF ReplaceCache, Leads, Moved, Go, Remove,
           Names
  <2>4. handle' \in [file : File \cup {Missing}, disposable : BOOLEAN]
        BY <1>a, <1>t, FileAssumption DEF ReplaceCache, Leads, Moved, Go, Remove, NamesInv,
           Names, NoHandle
  <2>5. /\ pc' \in Steps /\ result' \in {"none", "ok", "failed", "killed"}
        /\ consumed' \in Bytes \cup {"none"} /\ cause' \subseteq Causes /\ tidy' \in BOOLEAN
        BY <1>a, <1>t, FileAssumption DEF ReplaceCache, Leads, Moved, Go, Remove,
           HandleInv, NamesInv, Steps, Held, Accepted, TypeOK, Names, Bytes, Causes
  <2> QED BY <2>1, <2>2, <2>3, <2>4, <2>5 DEF TypeOK
<1>2. HandleInv'
     BY <1>a, <1>t, FileAssumption DEF ReplaceCache, Leads, Moved, Go, Remove, Names,
        NoHandle, Held, Accepted, HandleInv, NamesInv, CauseInv, Valid
<1>3. NamesInv'
     BY <1>a, <1>t, FileAssumption DEF ReplaceCache, Leads, Moved, Go, Remove, Names,
        NoHandle, Held, Accepted, HandleInv, NamesInv, Valid
<1>4. TidyInv'
     BY <1>a, <1>t, FileAssumption DEF ReplaceCache, Leads, Moved, Go, Remove, Names,
        NoHandle, Held, Accepted, HandleInv, NamesInv, TidyInv
<1>5. CauseInv'
     BY <1>a, <1>t, FileAssumption DEF ReplaceCache, Leads, Moved, Go, Remove, Names,
        NoHandle, Held, Accepted, HandleInv, NamesInv, CauseInv, Valid
<1>6. ConsumesVerified'
     BY <1>a, <1>t, FileAssumption DEF ReplaceCache, Leads, Moved, Go, Remove, Names,
        NoHandle, Held, Accepted, HandleInv, ConsumesVerified, Valid
<1>7. CacheNeverPartial'
     BY <1>a, <1>t, FileAssumption DEF ReplaceCache, Leads, Moved, Go, Remove, Names,
        NoHandle, Held, Accepted, HandleInv, NamesInv, CacheNeverPartial, Valid
<1> QED BY <1>1, <1>2, <1>3, <1>4, <1>5, <1>6, <1>7 DEF Inv

LEMMA ExtractInv == Inv /\ ExtractArtifact => Inv'
<1> SUFFICES ASSUME Inv, ExtractArtifact PROVE Inv'
     OBVIOUS
<1>a. /\ TypeOK /\ HandleInv /\ NamesInv /\ TidyInv /\ CauseInv
      /\ ConsumesVerified /\ CacheNeverPartial /\ ExtractArtifact
     BY DEF Inv
<1>t. /\ name \in [Names -> File \cup {Missing, Directory}]
      /\ bytes \in [File -> Bytes]
      /\ handle \in [file : File \cup {Missing}, disposable : BOOLEAN]
      /\ pc \in Steps
     BY <1>a DEF TypeOK
<1>u. \A m, n \in Names : m # n /\ name[m] \in File => name[m] # name[n]
     BY <1>a DEF TypeOK
<1>v. \A n \in Temporaries : name[n] # Directory
     BY <1>a DEF TypeOK
<1>e. /\ pc = "fetched" /\ pc' \in {"release", "release failed"}
      /\ name' = name /\ handle' = handle /\ tidy' = tidy
     BY <1>a DEF ExtractArtifact, Go
<1>1. TypeOK'
  <2>1. name' \in [Names -> File \cup {Missing, Directory}] /\ bytes' \in [File -> Bytes]
        BY <1>a, <1>t, FileAssumption DEF ExtractArtifact, Source, Go, NamesInv, Names,
           Bytes
  <2>2. \A n \in Temporaries : name'[n] # Directory
        BY <1>a, <1>t, FileAssumption, <1>v DEF ExtractArtifact, Source, Go, NamesInv,
           Names, Temporaries
  <2>3. \A m, n \in Names : m # n /\ name'[m] \in File => name'[m] # name'[n]
        BY <1>a, <1>t, FileAssumption, <1>u DEF ExtractArtifact, Source, Go, Names
  <2>4. handle' \in [file : File \cup {Missing}, disposable : BOOLEAN]
        BY <1>a, <1>t, FileAssumption DEF ExtractArtifact, Source, Go, NamesInv, Names,
           NoHandle
  <2>5. /\ pc' \in Steps /\ result' \in {"none", "ok", "failed", "killed"}
        /\ consumed' \in Bytes \cup {"none"} /\ cause' \subseteq Causes /\ tidy' \in BOOLEAN
        BY <1>a, <1>t, FileAssumption DEF ExtractArtifact, Source, Go, HandleInv, NamesInv,
           Steps, Held, Accepted, TypeOK, Names, Bytes, Causes
  <2> QED BY <2>1, <2>2, <2>3, <2>4, <2>5 DEF TypeOK
<1>2. HandleInv'
     BY <1>a, <1>t, FileAssumption DEF ExtractArtifact, Source, Go, Names, NoHandle, Held,
        Accepted, HandleInv, NamesInv, CauseInv, Valid
<1>3. NamesInv'
     BY <1>a, <1>t, FileAssumption DEF ExtractArtifact, Source, Go, Names, NoHandle, Held,
        Accepted, HandleInv, NamesInv, Valid
<1>4. TidyInv'
     BY <1>a, <1>e DEF TidyInv, Accepted
<1>5. CauseInv'
     BY <1>a, <1>t, FileAssumption DEF ExtractArtifact, Source, Go, Names, NoHandle, Held,
        Accepted, HandleInv, NamesInv, CauseInv, Valid
<1>6. ConsumesVerified'
     BY <1>a, <1>t, FileAssumption DEF ExtractArtifact, Source, Go, Names, NoHandle, Held,
        Accepted, HandleInv, ConsumesVerified, Valid
<1>7. CacheNeverPartial'
     BY <1>a, <1>t, FileAssumption DEF ExtractArtifact, Source, Go, Names, NoHandle, Held,
        Accepted, HandleInv, NamesInv, CacheNeverPartial, Valid
<1> QED BY <1>1, <1>2, <1>3, <1>4, <1>5, <1>6, <1>7 DEF Inv

LEMMA ReleaseInv == Inv /\ Release => Inv'
<1> SUFFICES ASSUME Inv, Release PROVE Inv'
     OBVIOUS
<1>a. /\ TypeOK /\ HandleInv /\ NamesInv /\ TidyInv /\ CauseInv
      /\ ConsumesVerified /\ CacheNeverPartial /\ Release
     BY DEF Inv
<1>t. /\ name \in [Names -> File \cup {Missing, Directory}]
      /\ bytes \in [File -> Bytes]
      /\ handle \in [file : File \cup {Missing}, disposable : BOOLEAN]
      /\ pc \in Steps
     BY <1>a DEF TypeOK
<1>u. \A m, n \in Names : m # n /\ name[m] \in File => name[m] # name[n]
     BY <1>a DEF TypeOK
<1>v. \A n \in Temporaries : name[n] # Directory
     BY <1>a DEF TypeOK
<1>e. pc' = "idle" /\ handle' = NoHandle
     BY <1>a DEF Release, End
<1>1. TypeOK'
  <2>1. name' \in [Names -> File \cup {Missing, Directory}] /\ bytes' \in [File -> Bytes]
        BY <1>a, <1>t, FileAssumption DEF Release, Leads, End, Remove, NamesInv, Names,
           Bytes
  <2>2. \A n \in Temporaries : name'[n] # Directory
        BY <1>a, <1>t, FileAssumption, <1>v DEF Release, Leads, End, Remove, NamesInv,
           Names, Temporaries
  <2>3. \A m, n \in Names : m # n /\ name'[m] \in File => name'[m] # name'[n]
        BY <1>a, <1>t, FileAssumption, <1>u DEF Release, Leads, End, Remove, Names
  <2>4. handle' \in [file : File \cup {Missing}, disposable : BOOLEAN]
        BY <1>a, <1>e DEF NoHandle
  <2>5. /\ pc' \in Steps /\ result' \in {"none", "ok", "failed", "killed"}
        /\ consumed' \in Bytes \cup {"none"} /\ cause' \subseteq Causes /\ tidy' \in BOOLEAN
        BY <1>a, <1>t, FileAssumption DEF Release, Leads, End, Remove, HandleInv, NamesInv,
           Steps, Held, Accepted, TypeOK, Names, Bytes, Causes
  <2> QED BY <2>1, <2>2, <2>3, <2>4, <2>5 DEF TypeOK
<1>2. HandleInv'
     BY <1>a, <1>e DEF HandleInv, Held, Accepted, NoHandle, Valid
<1>3. NamesInv'
     BY <1>a, <1>t, FileAssumption DEF Release, Leads, End, Remove, Names, NoHandle, Held,
        Accepted, HandleInv, NamesInv, Valid
<1>4. TidyInv'
     BY <1>a, <1>t, FileAssumption DEF Release, Leads, End, Remove, Names, NoHandle, Held,
        Accepted, HandleInv, NamesInv, TidyInv
<1>5. CauseInv'
     BY <1>a, <1>t, FileAssumption DEF Release, Leads, End, Remove, Names, NoHandle, Held,
        Accepted, HandleInv, NamesInv, CauseInv, Valid
<1>6. ConsumesVerified'
     BY <1>a, <1>t, FileAssumption DEF Release, Leads, End, Remove, Names, NoHandle, Held,
        Accepted, HandleInv, ConsumesVerified, Valid
<1>7. CacheNeverPartial'
     BY <1>a, <1>t, FileAssumption DEF Release, Leads, End, Remove, Names, NoHandle, Held,
        Accepted, HandleInv, NamesInv, CacheNeverPartial, Valid
<1> QED BY <1>1, <1>2, <1>3, <1>4, <1>5, <1>6, <1>7 DEF Inv

LEMMA CrashInv == Inv /\ Crash => Inv'
<1> SUFFICES ASSUME Inv, Crash PROVE Inv'
     OBVIOUS
<1>a. /\ TypeOK /\ HandleInv /\ NamesInv /\ TidyInv /\ CauseInv
      /\ ConsumesVerified /\ CacheNeverPartial /\ Crash
     BY DEF Inv
<1>t. /\ name \in [Names -> File \cup {Missing, Directory}]
      /\ bytes \in [File -> Bytes]
      /\ handle \in [file : File \cup {Missing}, disposable : BOOLEAN]
      /\ pc \in Steps
     BY <1>a DEF TypeOK
<1>u. \A m, n \in Names : m # n /\ name[m] \in File => name[m] # name[n]
     BY <1>a DEF TypeOK
<1>v. \A n \in Temporaries : name[n] # Directory
     BY <1>a DEF TypeOK
<1>e. pc' = "idle" /\ handle' = NoHandle
     BY <1>a DEF Crash, End
<1>1. TypeOK'
  <2>1. name' \in [Names -> File \cup {Missing, Directory}] /\ bytes' \in [File -> Bytes]
        BY <1>a, <1>t, FileAssumption DEF Crash, End, NamesInv, Names, Bytes
  <2>2. \A n \in Temporaries : name'[n] # Directory
        BY <1>a, <1>t, FileAssumption, <1>v DEF Crash, End, NamesInv, Names, Temporaries
  <2>3. \A m, n \in Names : m # n /\ name'[m] \in File => name'[m] # name'[n]
        BY <1>a, <1>t, FileAssumption, <1>u DEF Crash, End, Names
  <2>4. handle' \in [file : File \cup {Missing}, disposable : BOOLEAN]
        BY <1>a, <1>e DEF NoHandle
  <2>5. /\ pc' \in Steps /\ result' \in {"none", "ok", "failed", "killed"}
        /\ consumed' \in Bytes \cup {"none"} /\ cause' \subseteq Causes /\ tidy' \in BOOLEAN
        BY <1>a, <1>t, FileAssumption DEF Crash, End, HandleInv, NamesInv, Steps, Held,
           Accepted, TypeOK, Names, Bytes, Causes
  <2> QED BY <2>1, <2>2, <2>3, <2>4, <2>5 DEF TypeOK
<1>2. HandleInv'
     BY <1>a, <1>e DEF HandleInv, Held, Accepted, NoHandle, Valid
<1>3. NamesInv'
     BY <1>a, <1>t, FileAssumption DEF Crash, End, Names, NoHandle, Held, Accepted,
        HandleInv, NamesInv, Valid
<1>4. TidyInv'
     BY <1>a, <1>t, FileAssumption DEF Crash, End, Names, NoHandle, Held, Accepted,
        HandleInv, NamesInv, TidyInv
<1>5. CauseInv'
     BY <1>a, <1>t, FileAssumption DEF Crash, End, Names, NoHandle, Held, Accepted,
        HandleInv, NamesInv, CauseInv, Valid
<1>6. ConsumesVerified'
     BY <1>a, <1>t, FileAssumption DEF Crash, End, Names, NoHandle, Held, Accepted,
        HandleInv, ConsumesVerified, Valid
<1>7. CacheNeverPartial'
     BY <1>a, <1>t, FileAssumption DEF Crash, End, Names, NoHandle, Held, Accepted,
        HandleInv, NamesInv, CacheNeverPartial, Valid
<1> QED BY <1>1, <1>2, <1>3, <1>4, <1>5, <1>6, <1>7 DEF Inv

LEMMA OutsideInv == Inv /\ Outside => Inv'
<1> SUFFICES ASSUME Inv, Outside PROVE Inv'
     OBVIOUS
<1>a. /\ TypeOK /\ HandleInv /\ NamesInv /\ TidyInv /\ CauseInv
      /\ ConsumesVerified /\ CacheNeverPartial /\ Outside
     BY DEF Inv
<1>t. /\ name \in [Names -> File \cup {Missing, Directory}]
      /\ bytes \in [File -> Bytes]
      /\ handle \in [file : File \cup {Missing}, disposable : BOOLEAN]
      /\ pc \in Steps
     BY <1>a DEF TypeOK
<1>u. \A m, n \in Names : m # n /\ name[m] \in File => name[m] # name[n]
     BY <1>a DEF TypeOK
<1>v. \A n \in Temporaries : name[n] # Directory
     BY <1>a DEF TypeOK
<1>e. /\ handle' = handle /\ pc' = pc /\ tidy' = tidy /\ cause' = cause /\ result' = result
      /\ name' \in [Names -> File \cup {Missing, Directory}] /\ bytes' \in [File -> Bytes]
     BY <1>a, <1>t, FileAssumption DEF Outside, Leads, Written, Fresh, Bytes, Names
<1>f. \A n \in Temporaries : name'[n] = name[n]
     BY <1>a, <1>t DEF Outside, Leads, Temporaries
<1>g. \A f \in File : bytes'[f] = bytes[f] \/ (f # OpenFile /\ \A n \in Temporaries : f # name[n])
     BY <1>a, <1>t, <1>u DEF Outside, Leads, Written, Fresh, InUse, OpenFile, Temporaries, Names
<1>1. TypeOK'
  <2>1. name' \in [Names -> File \cup {Missing, Directory}] /\ bytes' \in [File -> Bytes]
        BY <1>e
  <2>2. \A n \in Temporaries : name'[n] # Directory
        BY <1>a, <1>t, FileAssumption, <1>v DEF Outside, Leads, Written, Fresh, InUse, OpenFile,
           NamesInv, Names, Temporaries
  <2>3. \A m, n \in Names : m # n /\ name'[m] \in File => name'[m] # name'[n]
        BY <1>a, <1>t, FileAssumption, <1>u DEF Outside, Leads, Written, Fresh, InUse, OpenFile, Names
  <2>4. handle' \in [file : File \cup {Missing}, disposable : BOOLEAN]
        BY <1>a, <1>t, FileAssumption DEF Outside, Leads, Written, Fresh, InUse, OpenFile, NamesInv,
           Names, NoHandle
  <2>5. /\ pc' \in Steps /\ result' \in {"none", "ok", "failed", "killed"}
        /\ consumed' \in Bytes \cup {"none"} /\ cause' \subseteq Causes /\ tidy' \in BOOLEAN
        BY <1>a, <1>t, FileAssumption DEF Outside, Leads, Written, Fresh, InUse, OpenFile, HandleInv,
           NamesInv, Steps, Held, Accepted, TypeOK, Names, Bytes, Causes
  <2> QED BY <2>1, <2>2, <2>3, <2>4, <2>5 DEF TypeOK
<1>2. HandleInv'
     BY <1>a, <1>e, <1>f, <1>g, <1>t DEF HandleInv, Held, Accepted, NoHandle, Valid, OpenFile,
        Temporaries, Names
<1>3. NamesInv'
     BY <1>a, <1>e, <1>f, <1>g, <1>t DEF NamesInv, Valid, Temporaries, Names
<1>4. TidyInv'
     BY <1>a, <1>e, <1>f, <1>g, <1>t DEF TidyInv, Accepted, Temporaries, Names
<1>5. CauseInv'
     BY <1>a, <1>e, <1>f, <1>g, <1>t DEF NamesInv, CauseInv, Valid, Temporaries, Names
<1>6. ConsumesVerified'
     BY <1>a, <1>t, FileAssumption, <1>u DEF Outside, Leads, Written, Fresh, InUse, OpenFile, Names,
        NoHandle, Held, Accepted, HandleInv, ConsumesVerified, Valid
<1>7. CacheNeverPartial'
     BY <1>a, <1>t, FileAssumption, <1>u DEF Outside, Leads, Written, Fresh, InUse, OpenFile, Names,
        NoHandle, Held, Accepted, HandleInv, NamesInv, CacheNeverPartial, Valid
<1> QED BY <1>1, <1>2, <1>3, <1>4, <1>5, <1>6, <1>7 DEF Inv

LEMMA NextInv == Inv /\ [Next]_vars => Inv'
<1> SUFFICES ASSUME Inv, [Next]_vars PROVE Inv'
     OBVIOUS
<1>1. CASE Start           BY <1>1, StartInv
<1>2. CASE InspectCache    BY <1>2, InspectInv
<1>3. CASE OpenCache       BY <1>3, OpenInv
<1>4. CASE DigestCache     BY <1>4, DigestInv
<1>5. CASE CloseRejected   BY <1>5, CloseInv
<1>6. CASE DiscardPath     BY <1>6, DiscardPathInv
<1>7. CASE MakeDownload    BY <1>7, MakeInv
<1>8. CASE Transfer        BY <1>8, TransferInv
<1>9. CASE SaveDownload    BY <1>9, SaveInv
<1>10. CASE CommitDownload    BY <1>10, CommitInv
<1>11. CASE RemoveUnconfirmed BY <1>11, UnconfirmedInv
<1>12. CASE VerifyDownload    BY <1>12, VerifyInv
<1>13. CASE PublishCache      BY <1>13, PublishInv
<1>14. CASE CopyBytes         BY <1>14, CopyInv
<1>15. CASE ReplaceCache      BY <1>15, ReplaceInv
<1>16. CASE ExtractArtifact   BY <1>16, ExtractInv
<1>17. CASE Release           BY <1>17, ReleaseInv
<1>18. CASE Crash             BY <1>18, CrashInv
<1>19. CASE Outside           BY <1>19, OutsideInv
<1>20. CASE CheckRejected     BY <1>20, CheckInv
<1>21. CASE UnlinkCache       BY <1>21, UnlinkInv
<1>22. CASE UNCHANGED vars
  <2>1. TypeOK'     BY <1>22 DEF vars, Inv, TypeOK
  <2>2. HandleInv'  BY <1>22 DEF vars, Inv, HandleInv, Valid
  <2>3. NamesInv'   BY <1>22 DEF vars, Inv, NamesInv, Valid
  <2>4. TidyInv'    BY <1>22 DEF vars, Inv, TidyInv
  <2>5. CauseInv'   BY <1>22 DEF vars, Inv, CauseInv, Valid
  <2>6. ConsumesVerified' /\ CacheNeverPartial'
        BY <1>22 DEF vars, Inv, ConsumesVerified, CacheNeverPartial
  <2> QED BY <2>1, <2>2, <2>3, <2>4, <2>5, <2>6 DEF Inv
<1> QED BY <1>1, <1>2, <1>3, <1>4, <1>5, <1>6, <1>7, <1>8, <1>9, <1>10, <1>11, <1>12,
        <1>13, <1>14, <1>15, <1>16, <1>17, <1>18, <1>19, <1>20, <1>21, <1>22 DEF Next, Fetch

LEMMA AlwaysInv == Spec => []Inv
BY InitInv, NextInv, PTL DEF Spec

\* Names, contents, the open file and the step of the fetch stay well typed, and
\* no file has two names.
THEOREM TypeCorrect == Spec => []TypeOK
BY AlwaysInv, PTL DEF Inv

\* package_archive_open_stream is only ever given bytes with the digest of the
\* catalog, whatever happens to the cache entry before and after its verification.
THEOREM OnlyVerifiedBytes == Spec => []ConsumesVerified
BY AlwaysInv, PTL DEF Inv

\* package_cache_fetch_artifact fails only for a reason that is not the cache.
THEOREM CacheIsOptional == Spec => []CacheNeverFatal
<1>1. Inv => CacheNeverFatal
     BY DEF Inv, CauseInv, CacheNeverFatal
<1> QED BY <1>1, AlwaysInv, PTL

\* Every error path of the fetch and of its caller removes the temporary files.
THEOREM NoResidue == Spec => []NothingLeft
<1>1. Inv => NothingLeft
  <2> SUFFICES ASSUME Inv, pc = "idle", tidy, NEW n \in Temporaries
               PROVE  name[n] = Missing
       BY DEF NothingLeft
  <2>1. TidyInv
       BY DEF Inv
  <2> QED BY <2>1 DEF TidyInv, Temporaries, Names, Accepted
<1> QED BY <1>1, AlwaysInv, PTL

\* A kill at any step of system_copy_file leaves no part of a copy under the name
\* of the cache entry.
THEOREM WholeOrAbsent == Spec => []CacheNeverPartial
BY AlwaysInv, PTL DEF Inv

=============================================================================
