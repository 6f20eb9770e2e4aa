--------------------------- MODULE DocumentsProofs ---------------------------
(***************************************************************************)
(* Files, logo and PDF of a tenant, for any number of keys and requests.   *)
(* FilesAgree is inductive.  It has a part for each request (Local: what   *)
(* it holds and what it may take away) and a part they share.  A request   *)
(* is cut off from the others by its keys: nobody else knows those it has  *)
(* stored and not answered for (KeysApart), so Guarantee(r), what one step *)
(* of r may do to the shared state, leaves the part of every other request *)
(* as it was (OthersKeep).  Each action then needs its guarantee, the part *)
(* of its own request and the shared part.                                 *)
(***************************************************************************)
EXTENDS Documents, TLAPS

\* The steps at which a key has an object and no row yet, those at which the request
\* counts on the file at hand, and all at which that file is one it has stored.
Unrowed == {"row", "logoRow"}
Keeping == Unrowed \cup {"logoRead", "logoLink", "logoReplace", "logoUnrow"}
Storing == Keeping \cup {"dropFile", "unlinkObject", "unlinkRow"}
Deleting == {"unlogoObject", "unlogoClear", "deleteObject", "deleteRow"}

Stored(r) == IF job[r].step \in Storing THEN {job[r].key} ELSE {}

\* The keys a request has stored and not answered for; nobody else knows them.
Own(r) == job[r].keys \cup Stored(r)

\* Every key in use was given out once.
KeysGivenOut ==
  /\ row \cap Keys \subseteq used /\ object \cap Keys \subseteq used
  /\ acked \subseteq used
  /\ logoUrl \in used \cup {NoKey} /\ logo \in used \cup {NoKey}

KeysOfJob(r) ==
  /\ Own(r) \subseteq used /\ Own(r) \cap acked = {}
  /\ job[r].step \in Unrowed => job[r].key \notin row /\ job[r].key \notin job[r].keys
  /\ job[r].step \in Unrowed \cup {"dropFile", "logoRead", "logoLink"} => job[r].key # logoUrl
  /\ job[r].step \in {"unlinkObject", "unlinkRow"} =>
       job[r].key # logoUrl \/ job[r].key \in doubt
  /\ job[r].step \notin {"next", "row", "clean"} => job[r].keys = {}
  /\ logoUrl \notin job[r].keys
  /\ job[r].step \in {"logoLink", "logoReplace", "logoUnrow"} =>
       job[r].old \in used \cup {NoKey}
  /\ job[r].step \in Deleting => job[r].key \in used \cup {PdfKey}
  /\ job[r].step \in {"print", "pdfLink"} => job[r].key = PdfKey

KeysApart == \A r, s \in Requests : r # s => Own(r) \cap Own(s) = {}

\* What a request counts on, and what it takes away.
HoldsFiles(r) ==
  /\ job[r].keys \ asked \subseteq object \cap row
  /\ job[r].step \in Keeping /\ job[r].key \notin asked =>
       /\ job[r].key \in object
       /\ job[r].step \in Unrowed \/ job[r].key \in row

TakesAsked(r) ==
  /\ job[r].step \in {"logoReplace", "logoUnrow"} =>
       job[r].old \in asked /\ job[r].old # NoKey
  /\ job[r].step \in Deleting => job[r].key \in asked
  /\ job[r].step = "logoUnrow" => job[r].old \notin object \ doubt
  /\ job[r].step = "deleteRow" => job[r].key \notin object \cap Keys
  /\ job[r].step = "unlinkRow" => job[r].key \notin object \ doubt

\* ObjectsAreKnown and StoredPdfIsRecorded, with the request that is at it.
RowsOrJobs ==
  \A k \in (object \cap Keys) \ doubt :
    \/ k \in row
    \/ \E r \in Requests : job[r].step \in Unrowed \cup {"dropFile"} /\ job[r].key = k

PdfOrJob ==
  PdfKey \in object \ (asked \cup doubt) =>
    PdfKey \in row \/ \E r \in Requests : job[r].step = "pdfLink"

Renders(r) ==
  /\ job[r].step \in {"print", "pdfLink"} => job[r].edition <= edition
  /\ job[r].step = "pdfLink" /\ job[r].edition = edition /\ ~late => printed = edition

\* The part of each request and the part of what all share.
Local(r) == KeysOfJob(r) /\ HoldsFiles(r) /\ TakesAsked(r) /\ Renders(r)

Shared ==
  /\ KeysGivenOut /\ RowsOrJobs
  /\ AcknowledgedFilesStay /\ LogoIsStored /\ LinkedPdfIsCurrent /\ PdfOrJob

FilesAgree ==
  /\ TypeOK
  /\ KeysApart
  /\ \A r \in Requests : Local(r)
  /\ Shared

-----------------------------------------------------------------------------
(***************************************************************************)
(* What a step of one request may do to the others.                        *)
(***************************************************************************)
Guarantee(r) ==
  /\ \A s \in Requests \ {r} : job'[s] = job[s]
  /\ used \subseteq used' /\ asked \subseteq asked'
  /\ Own(r)' \subseteq Own(r) \cup (Keys \ used)
  /\ object \ object' \subseteq asked \cup Own(r)
  /\ row \ row' \subseteq asked \cup Own(r)
  /\ doubt \cap Keys \subseteq doubt'
  /\ object' \ object \subseteq {PdfKey} \cup (Keys \ used)
  /\ row' \ row \subseteq {PdfKey} \cup Own(r)
  /\ acked' \subseteq acked \cup Own(r)
  /\ logoUrl' \in {logoUrl, NoKey} \cup Own(r)
  /\ edition' = edition /\ (late => late')
  /\ printed' = printed \/ late' \/ printed' = edition

\* The request itself, in the state before its step.
LEMMA LocalOf ==
  ASSUME FilesAgree, NEW r \in Requests
  PROVE  /\ TypeOK /\ job[r] \in Job
         /\ KeysOfJob(r) /\ HoldsFiles(r) /\ TakesAsked(r) /\ Renders(r)
         /\ KeysGivenOut /\ RowsOrJobs /\ AcknowledgedFilesStay /\ LogoIsStored
         /\ LinkedPdfIsCurrent /\ PdfOrJob
  BY DEF FilesAgree, Local, Shared, TypeOK

LEMMA OthersKeep ==
  ASSUME FilesAgree, NEW r \in Requests, Guarantee(r), NEW s \in Requests, s # r
  PROVE  Local(s)'
  <1>1. /\ job'[s] = job[s] /\ Own(s)' = Own(s) /\ Stored(s)' = Stored(s)
        /\ Own(s) \cap Own(r) = {}
    BY DEF Guarantee, Own, Stored, FilesAgree, KeysApart
  <1>2. /\ Own(s) \subseteq used /\ used \subseteq Keys /\ PdfKey \notin Keys /\ NoKey \notin Keys
        /\ Stored(s) \subseteq Own(s) /\ job[s].keys \subseteq Own(s)
        /\ job[s].step \in Storing => job[s].key \in Own(s)
        /\ row \cap Keys \subseteq used
    BY LocalOf, DocumentsAssumption DEF KeysOfJob, Own, Stored, TypeOK, KeysGivenOut
  <1>3. KeysOfJob(s)'
    BY <1>1, <1>2, LocalOf DEF KeysOfJob, Guarantee, Unrowed, Keeping, Storing, KeysGivenOut
  <1>4. HoldsFiles(s)'
    BY <1>1, <1>2, LocalOf DEF HoldsFiles, Guarantee, Unrowed, Keeping, Storing
  <1>5. TakesAsked(s)'
    BY <1>1, <1>2, LocalOf DEF TakesAsked, Guarantee, KeysOfJob, Deleting, Keeping, Storing
  <1>6. Renders(s)'
    BY <1>1, <1>2, LocalOf DEF Renders, Guarantee
  <1> QED BY <1>3, <1>4, <1>5, <1>6 DEF Local

LEMMA StillApart ==
  ASSUME FilesAgree, NEW r \in Requests, Guarantee(r)
  PROVE  KeysApart'
  <1>1. \A s \in Requests \ {r} : Own(s)' = Own(s) /\ Own(s) \cap Own(r) = {} /\ Own(s) \subseteq used
    BY LocalOf DEF Guarantee, Own, Stored, FilesAgree, KeysApart, KeysOfJob
  <1>2. \A s, t \in Requests \ {r} : s # t => Own(s) \cap Own(t) = {}
    BY DEF FilesAgree, KeysApart
  <1>3. Own(r)' \subseteq Own(r) \cup (Keys \ used)
    BY DEF Guarantee
  <1> HIDE DEF Own
  <1> QED BY <1>1, <1>2, <1>3 DEF KeysApart

\* What is known of a request before its step.
Before(r) ==
  /\ used \subseteq Keys /\ PdfKey \notin Keys /\ NoKey \notin Keys \cup {PdfKey}
  /\ KeysOfJob(r) /\ HoldsFiles(r) /\ TakesAsked(r) /\ Renders(r) /\ KeysGivenOut
  /\ job[r] \in Job /\ edition \in Nat /\ job[r].edition \in Nat

\* A step of one request is seen to by its guarantee, its own job and the rest.
LEMMA OneRequest ==
  ASSUME FilesAgree, TypeOK', NEW r \in Requests, Guarantee(r), Local(r)', Shared'
  PROVE  FilesAgree'
  BY OthersKeep, StillApart DEF FilesAgree

\* A request that has ended holds nothing.
LEMMA Ended ==
  ASSUME NEW r \in Requests, job'[r] = NoJob
  PROVE  Local(r)' /\ Own(r)' = {}
  <1>1. Own(r)' = {} /\ Stored(r)' = {}
    BY DEF Own, Stored, Storing, Keeping, Unrowed, NoJob
  <1> QED BY <1>1, DocumentsAssumption
       DEF Local, KeysOfJob, HoldsFiles, TakesAsked, Renders, NoJob, Unrowed, Keeping, Deleting


-----------------------------------------------------------------------------
(***************************************************************************)
(* upload.                                                                 *)
(***************************************************************************)

LEMMA StartUploadAgrees ==
  ASSUME FilesAgree, TypeOK', NEW r \in Requests, StartUpload(r)
  PROVE  FilesAgree'
  <1>1. /\ \A s \in Requests \ {r} : job'[s] = job[s]
        /\ job[r].step = "idle" /\ job'[r].step = "next" /\ job'[r].keys = job[r].keys
        /\ job'[r].key = job[r].key /\ job'[r].old = job[r].old
        /\ job'[r].edition = job[r].edition
        /\ UNCHANGED <<object, printed, row, logo, logoUrl, edition, pdfUrl, late, used,
           acked, asked, doubt>>
    BY LocalOf DEF StartUpload, At, Go, tenantVars, invoiceVars, TypeOK, Job
  <1>2. Before(r)
    BY LocalOf, DocumentsAssumption DEF Before, TypeOK, Job
  <1>3. Guarantee(r)
    BY <1>1, <1>2 DEF Guarantee, KeysOfJob, TakesAsked, Renders, Job, Before, Own, Stored,
       Storing, Unrowed, Keeping, Deleting, NoJob
  <1>4. Local(r)'
    <2>1. KeysOfJob(r)'
      BY <1>1, <1>2, LocalOf DEF KeysOfJob, KeysGivenOut, TypeOK, AllKeys, Before, Own,
         Stored, Storing, Unrowed, Keeping, Deleting, NoJob
    <2>2. HoldsFiles(r)' /\ TakesAsked(r)'
      BY <1>1, <1>2 DEF KeysOfJob, HoldsFiles, TakesAsked, Before, Own, Stored, Storing,
         Unrowed, Keeping, Deleting, NoJob
    <2>3. Renders(r)'
      BY <1>1, <1>2, LocalOf DEF Renders, Before, TypeOK, Job
    <2> QED BY <2>1, <2>2, <2>3 DEF Local
  <1>5. Shared'
    <2>1. KeysGivenOut' /\ RowsOrJobs'
      BY <1>1, <1>2, LocalOf DEF KeysGivenOut, RowsOrJobs, KeysOfJob, TakesAsked, Before,
         Own, Stored, Storing, Unrowed, Keeping, Deleting, NoJob
    <2>2. AcknowledgedFilesStay'
      BY <1>1, <1>2, LocalOf DEF AcknowledgedFilesStay, KeysOfJob, HoldsFiles, TakesAsked,
         Before, Own, Stored, Storing, Unrowed, Keeping, Deleting, NoJob
    <2>3. LogoIsStored'
      BY <1>1, <1>2, LocalOf DEF LogoIsStored, KeysOfJob, HoldsFiles, TakesAsked, Before,
         Own, Stored, Storing, Unrowed, Keeping, Deleting, NoJob
    <2>4. LinkedPdfIsCurrent' /\ PdfOrJob'
      BY <1>1, <1>2, LocalOf DEF LinkedPdfIsCurrent, PdfOrJob, Renders, TakesAsked,
         KeysOfJob, Before, Own, Stored, Storing, Unrowed, Keeping, Deleting, NoJob
    <2> QED BY <2>1, <2>2, <2>3, <2>4 DEF Shared
  <1> QED BY <1>3, <1>4, <1>5, OneRequest

LEMMA PutFileAgrees ==
  ASSUME FilesAgree, TypeOK', NEW r \in Requests, NEW k \in Keys, PutFile(r, k)
  PROVE  FilesAgree'
  <1>1. /\ \A s \in Requests \ {r} : job'[s] = job[s]
        /\ job[r].step = "next" /\ k \notin used /\ object' = object \cup {k}
        /\ used' = used \cup {k} /\ job'[r].step = "row" /\ job'[r].keys = job[r].keys
        /\ job'[r].key = k /\ job'[r].old = job[r].old /\ job'[r].edition = job[r].edition
        /\ UNCHANGED <<printed, row, logo, logoUrl, edition, pdfUrl, late, acked, asked,
           doubt>>
    BY LocalOf DEF PutFile, At, Fresh, tenantVars, invoiceVars, TypeOK, Job
  <1>2. Before(r)
    BY LocalOf, DocumentsAssumption DEF Before, TypeOK, Job
  <1>3. Guarantee(r)
    BY <1>1, <1>2 DEF Guarantee, KeysOfJob, TakesAsked, Renders, Job, Before, Own, Stored,
       Storing, Unrowed, Keeping, Deleting, NoJob
  <1>4. Local(r)'
    <2>1. KeysOfJob(r)'
      BY <1>1, <1>2, LocalOf DEF KeysOfJob, KeysGivenOut, TypeOK, AllKeys, Before, Own,
         Stored, Storing, Unrowed, Keeping, Deleting, NoJob
    <2>2. HoldsFiles(r)' /\ TakesAsked(r)'
      BY <1>1, <1>2 DEF KeysOfJob, HoldsFiles, TakesAsked, Before, Own, Stored, Storing,
         Unrowed, Keeping, Deleting, NoJob
    <2>3. Renders(r)'
      BY <1>1, <1>2, LocalOf DEF Renders, Before, TypeOK, Job
    <2> QED BY <2>1, <2>2, <2>3 DEF Local
  <1>5. Shared'
    <2>1. KeysGivenOut' /\ RowsOrJobs'
      BY <1>1, <1>2, LocalOf DEF KeysGivenOut, RowsOrJobs, KeysOfJob, TakesAsked, Before,
         Own, Stored, Storing, Unrowed, Keeping, Deleting, NoJob
    <2>2. AcknowledgedFilesStay'
      BY <1>1, <1>2, LocalOf DEF AcknowledgedFilesStay, KeysOfJob, HoldsFiles, TakesAsked,
         Before, Own, Stored, Storing, Unrowed, Keeping, Deleting, NoJob
    <2>3. LogoIsStored'
      BY <1>1, <1>2, LocalOf DEF LogoIsStored, KeysOfJob, HoldsFiles, TakesAsked, Before,
         Own, Stored, Storing, Unrowed, Keeping, Deleting, NoJob
    <2>4. LinkedPdfIsCurrent' /\ PdfOrJob'
      BY <1>1, <1>2, LocalOf DEF LinkedPdfIsCurrent, PdfOrJob, Renders, TakesAsked,
         KeysOfJob, Before, Own, Stored, Storing, Unrowed, Keeping, Deleting, NoJob
    <2> QED BY <2>1, <2>2, <2>3, <2>4 DEF Shared
  <1> QED BY <1>3, <1>4, <1>5, OneRequest

LEMMA PutFailsAgrees ==
  ASSUME FilesAgree, TypeOK', NEW r \in Requests, NEW k \in Keys, PutFails(r, k)
  PROVE  FilesAgree'
  <1>1. /\ \A s \in Requests \ {r} : job'[s] = job[s]
        /\ k \notin used /\ job[r].step \in {"idle", "next"} /\ object' = object \cup {k}
        /\ used' = used \cup {k} /\ doubt' = doubt \cup {k}
        /\ \/ job'[r] = NoJob /\ job[r].step = "next"
           \/ /\ job[r].step = "next" /\ job'[r].step = "clean"
              /\ job'[r].keys = job[r].keys /\ job'[r].key = job[r].key
              /\ job'[r].old = job[r].old /\ job'[r].edition = job[r].edition
           \/ job'[r] = job[r] /\ job[r].step = "idle"
        /\ UNCHANGED <<printed, row, logo, logoUrl, edition, pdfUrl, late, acked, asked>>
    BY LocalOf DEF PutFails, At, Fresh, CleanUp, tenantVars, invoiceVars, End, Go, TypeOK,
       Job
  <1>2. Before(r)
    BY LocalOf, DocumentsAssumption DEF Before, TypeOK, Job
  <1>3. Guarantee(r)
    BY <1>1, <1>2, Ended DEF Guarantee, KeysOfJob, TakesAsked, Renders, Job, Before, Own,
       Stored, Storing, Unrowed, Keeping, Deleting, NoJob
  <1>4. Local(r)'
    <2>1. CASE job'[r] = NoJob
      BY <1>1, <2>1, Ended
    <2>2. CASE job'[r] # NoJob
      <3>1. KeysOfJob(r)'
        BY <1>1, <1>2, LocalOf, <2>2 DEF KeysOfJob, KeysGivenOut, TypeOK, AllKeys, Before,
           Own, Stored, Storing, Unrowed, Keeping, Deleting, NoJob
      <3>2. HoldsFiles(r)' /\ TakesAsked(r)'
        BY <1>1, <1>2, <2>2 DEF KeysOfJob, HoldsFiles, TakesAsked, Before, Own, Stored,
           Storing, Unrowed, Keeping, Deleting, NoJob
      <3>3. Renders(r)'
        BY <1>1, <1>2, LocalOf, <2>2 DEF Renders, Before, TypeOK, Job
      <3> QED BY <3>1, <3>2, <3>3 DEF Local
    <2> QED BY <2>1, <2>2
  <1>5. Shared'
    <2>1. KeysGivenOut' /\ RowsOrJobs'
      BY <1>1, <1>2, LocalOf, Ended DEF KeysGivenOut, RowsOrJobs, KeysOfJob, TakesAsked,
         Before, Own, Stored, Storing, Unrowed, Keeping, Deleting, NoJob
    <2>2. AcknowledgedFilesStay'
      BY <1>1, <1>2, LocalOf DEF AcknowledgedFilesStay, KeysOfJob, HoldsFiles, TakesAsked,
         Before, Own, Stored, Storing, Unrowed, Keeping, Deleting, NoJob
    <2>3. LogoIsStored'
      BY <1>1, <1>2, LocalOf DEF LogoIsStored, KeysOfJob, HoldsFiles, TakesAsked, Before,
         Own, Stored, Storing, Unrowed, Keeping, Deleting, NoJob
    <2>4. LinkedPdfIsCurrent' /\ PdfOrJob'
      BY <1>1, <1>2, LocalOf, Ended DEF LinkedPdfIsCurrent, PdfOrJob, Renders, TakesAsked,
         KeysOfJob, Before, Own, Stored, Storing, Unrowed, Keeping, Deleting, NoJob
    <2> QED BY <2>1, <2>2, <2>3, <2>4 DEF Shared
  <1> QED BY <1>3, <1>4, <1>5, OneRequest

LEMMA RefuseFileAgrees ==
  ASSUME FilesAgree, TypeOK', NEW r \in Requests, RefuseFile(r)
  PROVE  FilesAgree'
  <1>1. /\ \A s \in Requests \ {r} : job'[s] = job[s]
        /\ job[r].step = "next"
        /\ \/ job'[r] = NoJob
           \/ /\ job'[r].step = "clean" /\ job'[r].keys = job[r].keys
              /\ job'[r].key = job[r].key /\ job'[r].old = job[r].old /\ job'[r].edition =
                 job[r].edition
        /\ UNCHANGED <<object, printed, row, logo, logoUrl, edition, pdfUrl, late, used,
           acked, asked, doubt>>
    BY LocalOf DEF RefuseFile, At, CleanUp, tenantVars, invoiceVars, End, Go, TypeOK, Job
  <1>2. Before(r)
    BY LocalOf, DocumentsAssumption DEF Before, TypeOK, Job
  <1>3. Guarantee(r)
    BY <1>1, <1>2, Ended DEF Guarantee, KeysOfJob, TakesAsked, Renders, Job, Before, Own,
       Stored, Storing, Unrowed, Keeping, Deleting, NoJob
  <1>4. Local(r)'
    <2>1. CASE job'[r] = NoJob
      BY <1>1, <2>1, Ended
    <2>2. CASE job'[r] # NoJob
      <3>1. KeysOfJob(r)'
        BY <1>1, <1>2, LocalOf, <2>2 DEF KeysOfJob, KeysGivenOut, TypeOK, AllKeys, Before,
           Own, Stored, Storing, Unrowed, Keeping, Deleting, NoJob
      <3>2. HoldsFiles(r)' /\ TakesAsked(r)'
        BY <1>1, <1>2, <2>2 DEF KeysOfJob, HoldsFiles, TakesAsked, Before, Own, Stored,
           Storing, Unrowed, Keeping, Deleting, NoJob
      <3>3. Renders(r)'
        BY <1>1, <1>2, LocalOf, <2>2 DEF Renders, Before, TypeOK, Job
      <3> QED BY <3>1, <3>2, <3>3 DEF Local
    <2> QED BY <2>1, <2>2
  <1>5. Shared'
    <2>1. KeysGivenOut' /\ RowsOrJobs'
      BY <1>1, <1>2, LocalOf, Ended DEF KeysGivenOut, RowsOrJobs, KeysOfJob, TakesAsked,
         Before, Own, Stored, Storing, Unrowed, Keeping, Deleting, NoJob
    <2>2. AcknowledgedFilesStay'
      BY <1>1, <1>2, LocalOf DEF AcknowledgedFilesStay, KeysOfJob, HoldsFiles, TakesAsked,
         Before, Own, Stored, Storing, Unrowed, Keeping, Deleting, NoJob
    <2>3. LogoIsStored'
      BY <1>1, <1>2, LocalOf DEF LogoIsStored, KeysOfJob, HoldsFiles, TakesAsked, Before,
         Own, Stored, Storing, Unrowed, Keeping, Deleting, NoJob
    <2>4. LinkedPdfIsCurrent' /\ PdfOrJob'
      BY <1>1, <1>2, LocalOf, Ended DEF LinkedPdfIsCurrent, PdfOrJob, Renders, TakesAsked,
         KeysOfJob, Before, Own, Stored, Storing, Unrowed, Keeping, Deleting, NoJob
    <2> QED BY <2>1, <2>2, <2>3, <2>4 DEF Shared
  <1> QED BY <1>3, <1>4, <1>5, OneRequest

LEMMA CleanFileAgrees ==
  ASSUME FilesAgree, TypeOK', NEW r \in Requests, CleanFile(r)
  PROVE  FilesAgree'
  <1>1. /\ \A s \in Requests \ {r} : job'[s] = job[s]
        /\ job[r].step = "clean"
        /\ \E k \in job[r].keys :
              /\ object' \in {object, object \ {k}}
              /\ \/ job'[r] = NoJob
                 \/ /\ job'[r].step = "clean" /\ job'[r].keys = job[r].keys \ {k}
                    /\ job'[r].key = job[r].key /\ job'[r].old = job[r].old
                    /\ job'[r].edition = job[r].edition
        /\ UNCHANGED <<printed, row, logo, logoUrl, edition, pdfUrl, late, used, acked,
           asked, doubt>>
    BY LocalOf DEF CleanFile, At, End, tenantVars, invoiceVars, TypeOK, Job
  <1>2. Before(r)
    BY LocalOf, DocumentsAssumption DEF Before, TypeOK, Job
  <1>3. Guarantee(r)
    BY <1>1, <1>2, Ended DEF Guarantee, KeysOfJob, TakesAsked, Renders, Job, Before, Own,
       Stored, Storing, Unrowed, Keeping, Deleting, NoJob
  <1>4. Local(r)'
    <2>1. CASE job'[r] = NoJob
      BY <1>1, <2>1, Ended
    <2>2. CASE job'[r] # NoJob
      <3>1. KeysOfJob(r)'
        BY <1>1, <1>2, LocalOf, <2>2 DEF KeysOfJob, KeysGivenOut, TypeOK, AllKeys, Before,
           Own, Stored, Storing, Unrowed, Keeping, Deleting, NoJob
      <3>2. HoldsFiles(r)' /\ TakesAsked(r)'
        BY <1>1, <1>2, <2>2 DEF KeysOfJob, HoldsFiles, TakesAsked, Before, Own, Stored,
           Storing, Unrowed, Keeping, Deleting, NoJob
      <3>3. Renders(r)'
        BY <1>1, <1>2, LocalOf, <2>2 DEF Renders, Before, TypeOK, Job
      <3> QED BY <3>1, <3>2, <3>3 DEF Local
    <2> QED BY <2>1, <2>2
  <1>5. Shared'
    <2>1. KeysGivenOut' /\ RowsOrJobs'
      BY <1>1, <1>2, LocalOf, Ended DEF KeysGivenOut, RowsOrJobs, KeysOfJob, TakesAsked,
         Before, Own, Stored, Storing, Unrowed, Keeping, Deleting, NoJob
    <2>2. AcknowledgedFilesStay'
      BY <1>1, <1>2, LocalOf DEF AcknowledgedFilesStay, KeysOfJob, HoldsFiles, TakesAsked,
         Before, Own, Stored, Storing, Unrowed, Keeping, Deleting, NoJob
    <2>3. LogoIsStored'
      BY <1>1, <1>2, LocalOf DEF LogoIsStored, KeysOfJob, HoldsFiles, TakesAsked, Before,
         Own, Stored, Storing, Unrowed, Keeping, Deleting, NoJob
    <2>4. LinkedPdfIsCurrent' /\ PdfOrJob'
      BY <1>1, <1>2, LocalOf, Ended DEF LinkedPdfIsCurrent, PdfOrJob, Renders, TakesAsked,
         KeysOfJob, Before, Own, Stored, Storing, Unrowed, Keeping, Deleting, NoJob
    <2> QED BY <2>1, <2>2, <2>3, <2>4 DEF Shared
  <1> QED BY <1>3, <1>4, <1>5, OneRequest

LEMMA InsertRowAgrees ==
  ASSUME FilesAgree, TypeOK', NEW r \in Requests, InsertRow(r)
  PROVE  FilesAgree'
  <1>1. /\ \A s \in Requests \ {r} : job'[s] = job[s]
        /\ job[r].step = "row" /\ job[r].key \notin row /\ row' = row \cup {job[r].key}
        /\ job'[r].step = "next" /\ job'[r].keys = job[r].keys \cup {job[r].key}
        /\ job'[r].key = NoKey /\ job'[r].old = job[r].old
        /\ job'[r].edition = job[r].edition
        /\ UNCHANGED <<object, printed, logo, logoUrl, edition, pdfUrl, late, used, acked,
           asked, doubt>>
    BY LocalOf DEF InsertRow, At, tenantVars, invoiceVars, TypeOK, Job
  <1>2. Before(r)
    BY LocalOf, DocumentsAssumption DEF Before, TypeOK, Job
  <1>3. Guarantee(r)
    BY <1>1, <1>2 DEF Guarantee, KeysOfJob, TakesAsked, Renders, Job, Before, Own, Stored,
       Storing, Unrowed, Keeping, Deleting, NoJob
  <1>4. Local(r)'
    <2>1. KeysOfJob(r)'
      BY <1>1, <1>2, LocalOf DEF KeysOfJob, KeysGivenOut, TypeOK, AllKeys, Before, Own,
         Stored, Storing, Unrowed, Keeping, Deleting, NoJob
    <2>2. HoldsFiles(r)' /\ TakesAsked(r)'
      BY <1>1, <1>2 DEF KeysOfJob, HoldsFiles, TakesAsked, Before, Own, Stored, Storing,
         Unrowed, Keeping, Deleting, NoJob
    <2>3. Renders(r)'
      BY <1>1, <1>2, LocalOf DEF Renders, Before, TypeOK, Job
    <2> QED BY <2>1, <2>2, <2>3 DEF Local
  <1>5. Shared'
    <2>1. KeysGivenOut' /\ RowsOrJobs'
      BY <1>1, <1>2, LocalOf DEF KeysGivenOut, RowsOrJobs, KeysOfJob, TakesAsked, Before,
         Own, Stored, Storing, Unrowed, Keeping, Deleting, NoJob
    <2>2. AcknowledgedFilesStay'
      BY <1>1, <1>2, LocalOf DEF AcknowledgedFilesStay, KeysOfJob, HoldsFiles, TakesAsked,
         Before, Own, Stored, Storing, Unrowed, Keeping, Deleting, NoJob
    <2>3. LogoIsStored'
      BY <1>1, <1>2, LocalOf DEF LogoIsStored, KeysOfJob, HoldsFiles, TakesAsked, Before,
         Own, Stored, Storing, Unrowed, Keeping, Deleting, NoJob
    <2>4. LinkedPdfIsCurrent' /\ PdfOrJob'
      BY <1>1, <1>2, LocalOf DEF LinkedPdfIsCurrent, PdfOrJob, Renders, TakesAsked,
         KeysOfJob, Before, Own, Stored, Storing, Unrowed, Keeping, Deleting, NoJob
    <2> QED BY <2>1, <2>2, <2>3, <2>4 DEF Shared
  <1> QED BY <1>3, <1>4, <1>5, OneRequest

LEMMA RowRefusedAgrees ==
  ASSUME FilesAgree, TypeOK', NEW r \in Requests, RowRefused(r)
  PROVE  FilesAgree'
  <1>1. /\ \A s \in Requests \ {r} : job'[s] = job[s]
        /\ job[r].step \in Unrowed /\ row' \in {row, row \cup {job[r].key}}
        /\ job'[r].step = "dropFile" /\ job'[r].keys = {} /\ job'[r].key = job[r].key
        /\ job'[r].old = job[r].old /\ job'[r].edition = job[r].edition
        /\ UNCHANGED <<object, printed, logo, logoUrl, edition, pdfUrl, late, used, acked,
           asked, doubt>>
    BY LocalOf DEF RowRefused, At, tenantVars, invoiceVars, TypeOK, Job, Unrowed
  <1>2. Before(r)
    BY LocalOf, DocumentsAssumption DEF Before, TypeOK, Job
  <1>3. Guarantee(r)
    BY <1>1, <1>2 DEF Guarantee, KeysOfJob, TakesAsked, Renders, Job, Before, Own, Stored,
       Storing, Unrowed, Keeping, Deleting, NoJob
  <1>4. Local(r)'
    <2>1. KeysOfJob(r)'
      BY <1>1, <1>2, LocalOf DEF KeysOfJob, KeysGivenOut, TypeOK, AllKeys, Before, Own,
         Stored, Storing, Unrowed, Keeping, Deleting, NoJob
    <2>2. HoldsFiles(r)' /\ TakesAsked(r)'
      BY <1>1, <1>2 DEF KeysOfJob, HoldsFiles, TakesAsked, Before, Own, Stored, Storing,
         Unrowed, Keeping, Deleting, NoJob
    <2>3. Renders(r)'
      BY <1>1, <1>2, LocalOf DEF Renders, Before, TypeOK, Job
    <2> QED BY <2>1, <2>2, <2>3 DEF Local
  <1>5. Shared'
    <2>1. KeysGivenOut' /\ RowsOrJobs'
      BY <1>1, <1>2, LocalOf DEF KeysGivenOut, RowsOrJobs, KeysOfJob, TakesAsked, Before,
         Own, Stored, Storing, Unrowed, Keeping, Deleting, NoJob
    <2>2. AcknowledgedFilesStay'
      BY <1>1, <1>2, LocalOf DEF AcknowledgedFilesStay, KeysOfJob, HoldsFiles, TakesAsked,
         Before, Own, Stored, Storing, Unrowed, Keeping, Deleting, NoJob
    <2>3. LogoIsStored'
      BY <1>1, <1>2, LocalOf DEF LogoIsStored, KeysOfJob, HoldsFiles, TakesAsked, Before,
         Own, Stored, Storing, Unrowed, Keeping, Deleting, NoJob
    <2>4. LinkedPdfIsCurrent' /\ PdfOrJob'
      BY <1>1, <1>2, LocalOf DEF LinkedPdfIsCurrent, PdfOrJob, Renders, TakesAsked,
         KeysOfJob, Before, Own, Stored, Storing, Unrowed, Keeping, Deleting, NoJob
    <2> QED BY <2>1, <2>2, <2>3, <2>4 DEF Shared
  <1> QED BY <1>3, <1>4, <1>5, OneRequest

LEMMA DropFileAgrees ==
  ASSUME FilesAgree, TypeOK', NEW r \in Requests, DropFile(r)
  PROVE  FilesAgree'
  <1>1. /\ \A s \in Requests \ {r} : job'[s] = job[s]
        /\ job[r].step = "dropFile"
        /\ \/ object' = object \ {job[r].key} /\ doubt' = doubt
           \/ object' = object /\ doubt' = doubt \cup {job[r].key}
        /\ job'[r] = NoJob
        /\ UNCHANGED <<printed, row, logo, logoUrl, edition, pdfUrl, late, used, acked,
           asked>>
    BY LocalOf DEF DropFile, At, End, TryDelete, tenantVars, invoiceVars, TypeOK, Job
  <1>2. Before(r)
    BY LocalOf, DocumentsAssumption DEF Before, TypeOK, Job
  <1>3. Guarantee(r)
    BY <1>1, <1>2, Ended DEF Guarantee, KeysOfJob, TakesAsked, Renders, Job, Before, Own,
       Stored, Storing, Unrowed, Keeping, Deleting, NoJob
  <1>4. Local(r)'
    BY <1>1, Ended
  <1>5. Shared'
    <2>1. KeysGivenOut' /\ RowsOrJobs'
      BY <1>1, <1>2, LocalOf, Ended DEF KeysGivenOut, RowsOrJobs, KeysOfJob, TakesAsked,
         Before, Own, Stored, Storing, Unrowed, Keeping, Deleting, NoJob
    <2>2. AcknowledgedFilesStay'
      BY <1>1, <1>2, LocalOf DEF AcknowledgedFilesStay, KeysOfJob, HoldsFiles, TakesAsked,
         Before, Own, Stored, Storing, Unrowed, Keeping, Deleting, NoJob
    <2>3. LogoIsStored'
      BY <1>1, <1>2, LocalOf DEF LogoIsStored, KeysOfJob, HoldsFiles, TakesAsked, Before,
         Own, Stored, Storing, Unrowed, Keeping, Deleting, NoJob
    <2>4. LinkedPdfIsCurrent' /\ PdfOrJob'
      BY <1>1, <1>2, LocalOf, Ended DEF LinkedPdfIsCurrent, PdfOrJob, Renders, TakesAsked,
         KeysOfJob, Before, Own, Stored, Storing, Unrowed, Keeping, Deleting, NoJob
    <2> QED BY <2>1, <2>2, <2>3, <2>4 DEF Shared
  <1> QED BY <1>3, <1>4, <1>5, OneRequest

LEMMA FinishUploadAgrees ==
  ASSUME FilesAgree, TypeOK', NEW r \in Requests, FinishUpload(r)
  PROVE  FilesAgree'
  <1>1. /\ \A s \in Requests \ {r} : job'[s] = job[s]
        /\ job[r].step = "next" /\ acked' = acked \cup job[r].keys /\ job'[r] = NoJob
        /\ UNCHANGED <<object, printed, row, logo, logoUrl, edition, pdfUrl, late, used,
           asked, doubt>>
    BY LocalOf DEF FinishUpload, At, End, tenantVars, invoiceVars, TypeOK, Job
  <1>2. Before(r)
    BY LocalOf, DocumentsAssumption DEF Before, TypeOK, Job
  <1>3. Guarantee(r)
    BY <1>1, <1>2, Ended DEF Guarantee, KeysOfJob, TakesAsked, Renders, Job, Before, Own,
       Stored, Storing, Unrowed, Keeping, Deleting, NoJob
  <1>4. Local(r)'
    BY <1>1, Ended
  <1>5. Shared'
    <2>1. KeysGivenOut' /\ RowsOrJobs'
      BY <1>1, <1>2, LocalOf, Ended DEF KeysGivenOut, RowsOrJobs, KeysOfJob, TakesAsked,
         Before, Own, Stored, Storing, Unrowed, Keeping, Deleting, NoJob
    <2>2. AcknowledgedFilesStay'
      BY <1>1, <1>2, LocalOf DEF AcknowledgedFilesStay, KeysOfJob, HoldsFiles, TakesAsked,
         Before, Own, Stored, Storing, Unrowed, Keeping, Deleting, NoJob
    <2>3. LogoIsStored'
      BY <1>1, <1>2, LocalOf DEF LogoIsStored, KeysOfJob, HoldsFiles, TakesAsked, Before,
         Own, Stored, Storing, Unrowed, Keeping, Deleting, NoJob
    <2>4. LinkedPdfIsCurrent' /\ PdfOrJob'
      BY <1>1, <1>2, LocalOf, Ended DEF LinkedPdfIsCurrent, PdfOrJob, Renders, TakesAsked,
         KeysOfJob, Before, Own, Stored, Storing, Unrowed, Keeping, Deleting, NoJob
    <2> QED BY <2>1, <2>2, <2>3, <2>4 DEF Shared
  <1> QED BY <1>3, <1>4, <1>5, OneRequest

-----------------------------------------------------------------------------
(***************************************************************************)
(* uploadLogo.                                                             *)
(***************************************************************************)

LEMMA PutLogoAgrees ==
  ASSUME FilesAgree, TypeOK', NEW r \in Requests, NEW k \in Keys, PutLogo(r, k)
  PROVE  FilesAgree'
  <1>1. /\ \A s \in Requests \ {r} : job'[s] = job[s]
        /\ job[r].step = "idle" /\ k \notin used /\ object' = object \cup {k}
        /\ used' = used \cup {k} /\ job'[r].step = "logoRow" /\ job'[r].keys = job[r].keys
        /\ job'[r].key = k /\ job'[r].old = job[r].old /\ job'[r].edition = job[r].edition
        /\ UNCHANGED <<printed, row, logo, logoUrl, edition, pdfUrl, late, acked, asked,
           doubt>>
    BY LocalOf DEF PutLogo, At, Fresh, tenantVars, invoiceVars, TypeOK, Job
  <1>2. Before(r)
    BY LocalOf, DocumentsAssumption DEF Before, TypeOK, Job
  <1>3. Guarantee(r)
    BY <1>1, <1>2 DEF Guarantee, KeysOfJob, TakesAsked, Renders, Job, Before, Own, Stored,
       Storing, Unrowed, Keeping, Deleting, NoJob
  <1>4. Local(r)'
    <2>1. KeysOfJob(r)'
      BY <1>1, <1>2, LocalOf DEF KeysOfJob, KeysGivenOut, TypeOK, AllKeys, Before, Own,
         Stored, Storing, Unrowed, Keeping, Deleting, NoJob
    <2>2. HoldsFiles(r)' /\ TakesAsked(r)'
      BY <1>1, <1>2 DEF KeysOfJob, HoldsFiles, TakesAsked, Before, Own, Stored, Storing,
         Unrowed, Keeping, Deleting, NoJob
    <2>3. Renders(r)'
      BY <1>1, <1>2, LocalOf DEF Renders, Before, TypeOK, Job
    <2> QED BY <2>1, <2>2, <2>3 DEF Local
  <1>5. Shared'
    <2>1. KeysGivenOut' /\ RowsOrJobs'
      BY <1>1, <1>2, LocalOf DEF KeysGivenOut, RowsOrJobs, KeysOfJob, TakesAsked, Before,
         Own, Stored, Storing, Unrowed, Keeping, Deleting, NoJob
    <2>2. AcknowledgedFilesStay'
      BY <1>1, <1>2, LocalOf DEF AcknowledgedFilesStay, KeysOfJob, HoldsFiles, TakesAsked,
         Before, Own, Stored, Storing, Unrowed, Keeping, Deleting, NoJob
    <2>3. LogoIsStored'
      BY <1>1, <1>2, LocalOf DEF LogoIsStored, KeysOfJob, HoldsFiles, TakesAsked, Before,
         Own, Stored, Storing, Unrowed, Keeping, Deleting, NoJob
    <2>4. LinkedPdfIsCurrent' /\ PdfOrJob'
      BY <1>1, <1>2, LocalOf DEF LinkedPdfIsCurrent, PdfOrJob, Renders, TakesAsked,
         KeysOfJob, Before, Own, Stored, Storing, Unrowed, Keeping, Deleting, NoJob
    <2> QED BY <2>1, <2>2, <2>3, <2>4 DEF Shared
  <1> QED BY <1>3, <1>4, <1>5, OneRequest

LEMMA InsertLogoRowAgrees ==
  ASSUME FilesAgree, TypeOK', NEW r \in Requests, InsertLogoRow(r)
  PROVE  FilesAgree'
  <1>1. /\ \A s \in Requests \ {r} : job'[s] = job[s]
        /\ job[r].step = "logoRow" /\ job[r].key \notin row /\ row' = row \cup {job[r].key}
        /\ job'[r].step = "logoRead" /\ job'[r].keys = job[r].keys
        /\ job'[r].key = job[r].key /\ job'[r].old = job[r].old
        /\ job'[r].edition = job[r].edition
        /\ UNCHANGED <<object, printed, logo, logoUrl, edition, pdfUrl, late, used, acked,
           asked, doubt>>
    BY LocalOf DEF InsertLogoRow, At, Go, tenantVars, invoiceVars, TypeOK, Job
  <1>2. Before(r)
    BY LocalOf, DocumentsAssumption DEF Before, TypeOK, Job
  <1>3. Guarantee(r)
    BY <1>1, <1>2 DEF Guarantee, KeysOfJob, TakesAsked, Renders, Job, Before, Own, Stored,
       Storing, Unrowed, Keeping, Deleting, NoJob
  <1>4. Local(r)'
    <2>1. KeysOfJob(r)'
      BY <1>1, <1>2, LocalOf DEF KeysOfJob, KeysGivenOut, TypeOK, AllKeys, Before, Own,
         Stored, Storing, Unrowed, Keeping, Deleting, NoJob
    <2>2. HoldsFiles(r)' /\ TakesAsked(r)'
      BY <1>1, <1>2 DEF KeysOfJob, HoldsFiles, TakesAsked, Before, Own, Stored, Storing,
         Unrowed, Keeping, Deleting, NoJob
    <2>3. Renders(r)'
      BY <1>1, <1>2, LocalOf DEF Renders, Before, TypeOK, Job
    <2> QED BY <2>1, <2>2, <2>3 DEF Local
  <1>5. Shared'
    <2>1. KeysGivenOut' /\ RowsOrJobs'
      BY <1>1, <1>2, LocalOf DEF KeysGivenOut, RowsOrJobs, KeysOfJob, TakesAsked, Before,
         Own, Stored, Storing, Unrowed, Keeping, Deleting, NoJob
    <2>2. AcknowledgedFilesStay'
      BY <1>1, <1>2, LocalOf DEF AcknowledgedFilesStay, KeysOfJob, HoldsFiles, TakesAsked,
         Before, Own, Stored, Storing, Unrowed, Keeping, Deleting, NoJob
    <2>3. LogoIsStored'
      BY <1>1, <1>2, LocalOf DEF LogoIsStored, KeysOfJob, HoldsFiles, TakesAsked, Before,
         Own, Stored, Storing, Unrowed, Keeping, Deleting, NoJob
    <2>4. LinkedPdfIsCurrent' /\ PdfOrJob'
      BY <1>1, <1>2, LocalOf DEF LinkedPdfIsCurrent, PdfOrJob, Renders, TakesAsked,
         KeysOfJob, Before, Own, Stored, Storing, Unrowed, Keeping, Deleting, NoJob
    <2> QED BY <2>1, <2>2, <2>3, <2>4 DEF Shared
  <1> QED BY <1>3, <1>4, <1>5, OneRequest

LEMMA ReadOldLogoAgrees ==
  ASSUME FilesAgree, TypeOK', NEW r \in Requests, ReadOldLogo(r)
  PROVE  FilesAgree'
  <1>1. /\ \A s \in Requests \ {r} : job'[s] = job[s]
        /\ job[r].step = "logoRead" /\ job'[r].step = "logoLink"
        /\ job'[r].keys = job[r].keys /\ job'[r].key = job[r].key
        /\ job'[r].old \in {logo, NoKey} /\ job'[r].edition = job[r].edition
        /\ UNCHANGED <<object, printed, row, logo, logoUrl, edition, pdfUrl, late, used,
           acked, asked, doubt>>
    BY LocalOf DEF ReadOldLogo, At, tenantVars, invoiceVars, TypeOK, Job
  <1>2. Before(r)
    BY LocalOf, DocumentsAssumption DEF Before, TypeOK, Job
  <1>3. Guarantee(r)
    BY <1>1, <1>2 DEF Guarantee, KeysOfJob, TakesAsked, Renders, Job, Before, Own, Stored,
       Storing, Unrowed, Keeping, Deleting, NoJob
  <1>4. Local(r)'
    <2>1. KeysOfJob(r)'
      BY <1>1, <1>2, LocalOf DEF KeysOfJob, KeysGivenOut, TypeOK, AllKeys, Before, Own,
         Stored, Storing, Unrowed, Keeping, Deleting, NoJob
    <2>2. HoldsFiles(r)' /\ TakesAsked(r)'
      BY <1>1, <1>2 DEF KeysOfJob, HoldsFiles, TakesAsked, Before, Own, Stored, Storing,
         Unrowed, Keeping, Deleting, NoJob
    <2>3. Renders(r)'
      BY <1>1, <1>2, LocalOf DEF Renders, Before, TypeOK, Job
    <2> QED BY <2>1, <2>2, <2>3 DEF Local
  <1>5. Shared'
    <2>1. KeysGivenOut' /\ RowsOrJobs'
      BY <1>1, <1>2, LocalOf DEF KeysGivenOut, RowsOrJobs, KeysOfJob, TakesAsked, Before,
         Own, Stored, Storing, Unrowed, Keeping, Deleting, NoJob
    <2>2. AcknowledgedFilesStay'
      BY <1>1, <1>2, LocalOf DEF AcknowledgedFilesStay, KeysOfJob, HoldsFiles, TakesAsked,
         Before, Own, Stored, Storing, Unrowed, Keeping, Deleting, NoJob
    <2>3. LogoIsStored'
      BY <1>1, <1>2, LocalOf DEF LogoIsStored, KeysOfJob, HoldsFiles, TakesAsked, Before,
         Own, Stored, Storing, Unrowed, Keeping, Deleting, NoJob
    <2>4. LinkedPdfIsCurrent' /\ PdfOrJob'
      BY <1>1, <1>2, LocalOf DEF LinkedPdfIsCurrent, PdfOrJob, Renders, TakesAsked,
         KeysOfJob, Before, Own, Stored, Storing, Unrowed, Keeping, Deleting, NoJob
    <2> QED BY <2>1, <2>2, <2>3, <2>4 DEF Shared
  <1> QED BY <1>3, <1>4, <1>5, OneRequest

LEMMA LinkLogoAgrees ==
  ASSUME FilesAgree, TypeOK', NEW r \in Requests, LinkLogo(r)
  PROVE  FilesAgree'
  <1>1. /\ \A s \in Requests \ {r} : job'[s] = job[s]
        /\ job[r].step = "logoLink" /\ job[r].key \in row
        /\ logo' = job[r].key /\ logoUrl' = job[r].key
        /\ UNCHANGED <<object, printed, row, edition, pdfUrl, late, used, doubt>>
        /\ \/ /\ job'[r] = NoJob /\ job[r].old = NoKey
              /\ acked' = acked \cup {job[r].key} /\ asked' = asked
           \/ /\ job'[r].step = "logoReplace" /\ job'[r].keys = job[r].keys
              /\ job'[r].key = job[r].key /\ job'[r].old = job[r].old /\ job[r].old # NoKey
              /\ job'[r].edition = job[r].edition
              /\ acked' = acked /\ asked' = asked \cup {job[r].old}
    BY LocalOf DEF LinkLogo, At, End, Go, invoiceVars, TypeOK, Job
  <1>2. Before(r)
    BY LocalOf, DocumentsAssumption DEF Before, TypeOK, Job
  <1>3. Guarantee(r)
    BY <1>1, <1>2, Ended DEF Guarantee, KeysOfJob, Before, Own, Stored, Storing, Keeping,
       Unrowed, NoJob
  <1>4. Local(r)'
    <2>1. CASE job'[r] = NoJob
      BY <2>1, Ended
    <2>2. CASE job'[r] # NoJob
      <3>1. KeysOfJob(r)'
        BY <1>1, <1>2, <2>2 DEF KeysOfJob, Before, Own, Stored, Storing, Keeping, Unrowed,
           Deleting
      <3>2. HoldsFiles(r)' /\ TakesAsked(r)' /\ Renders(r)'
        BY <1>1, <1>2, <2>2 DEF HoldsFiles, TakesAsked, Renders, Before, Stored, Storing,
           Keeping, Unrowed, Deleting
      <3> QED BY <3>1, <3>2 DEF Local
    <2> QED BY <2>1, <2>2
  <1>5. Shared'
    <2>1. KeysGivenOut' /\ RowsOrJobs'
      BY <1>1, <1>2, LocalOf, Ended DEF KeysGivenOut, RowsOrJobs, KeysOfJob, Before, Own,
         Stored, Storing, Keeping, Unrowed, NoJob
    <2>2. AcknowledgedFilesStay' /\ LogoIsStored'
      BY <1>1, <1>2, LocalOf DEF AcknowledgedFilesStay, LogoIsStored, KeysOfJob, HoldsFiles,
         Before, Own, Stored, Storing, Keeping, Unrowed
    <2>3. LinkedPdfIsCurrent' /\ PdfOrJob'
      BY <1>1, <1>2, LocalOf, Ended DEF LinkedPdfIsCurrent, PdfOrJob, NoJob
    <2> QED BY <2>1, <2>2, <2>3 DEF Shared
  <1> QED BY <1>3, <1>4, <1>5, OneRequest

LEMMA LinkRefusedAgrees ==
  ASSUME FilesAgree, TypeOK', NEW r \in Requests, LinkRefused(r)
  PROVE  FilesAgree'
  <1>1. /\ \A s \in Requests \ {r} : job'[s] = job[s]
        /\ job[r].step = "logoLink"
        /\ \/ logo' = logo /\ logoUrl' = logoUrl /\ doubt' = doubt
           \/ /\ job[r].key \in row /\ logo' = job[r].key /\ logoUrl' = job[r].key
              /\ doubt' = doubt \cup {job[r].key}
        /\ job'[r].step = "unlinkObject" /\ job'[r].keys = job[r].keys
        /\ job'[r].key = job[r].key /\ job'[r].old = NoKey
        /\ job'[r].edition = job[r].edition
        /\ UNCHANGED <<object, printed, row, edition, pdfUrl, late, used, acked, asked>>
    BY LocalOf DEF LinkRefused, At, tenantVars, invoiceVars, TypeOK, Job
  <1>2. Before(r)
    BY LocalOf, DocumentsAssumption DEF Before, TypeOK, Job
  <1>3. Guarantee(r)
    BY <1>1, <1>2 DEF Guarantee, KeysOfJob, TakesAsked, Renders, Job, Before, Own, Stored,
       Storing, Unrowed, Keeping, Deleting, NoJob
  <1>4. Local(r)'
    <2>1. KeysOfJob(r)'
      BY <1>1, <1>2, LocalOf DEF KeysOfJob, KeysGivenOut, TypeOK, AllKeys, Before, Own,
         Stored, Storing, Unrowed, Keeping, Deleting, NoJob
    <2>2. HoldsFiles(r)' /\ TakesAsked(r)'
      BY <1>1, <1>2 DEF KeysOfJob, HoldsFiles, TakesAsked, Before, Own, Stored, Storing,
         Unrowed, Keeping, Deleting, NoJob
    <2>3. Renders(r)'
      BY <1>1, <1>2, LocalOf DEF Renders, Before, TypeOK, Job
    <2> QED BY <2>1, <2>2, <2>3 DEF Local
  <1>5. Shared'
    <2>1. KeysGivenOut' /\ RowsOrJobs'
      BY <1>1, <1>2, LocalOf DEF KeysGivenOut, RowsOrJobs, KeysOfJob, TakesAsked, Before,
         Own, Stored, Storing, Unrowed, Keeping, Deleting, NoJob
    <2>2. AcknowledgedFilesStay'
      BY <1>1, <1>2, LocalOf DEF AcknowledgedFilesStay, KeysOfJob, HoldsFiles, TakesAsked,
         Before, Own, Stored, Storing, Unrowed, Keeping, Deleting, NoJob
    <2>3. LogoIsStored'
      BY <1>1, <1>2, LocalOf DEF LogoIsStored, KeysOfJob, HoldsFiles, TakesAsked, Before,
         Own, Stored, Storing, Unrowed, Keeping, Deleting, NoJob
    <2>4. LinkedPdfIsCurrent' /\ PdfOrJob'
      BY <1>1, <1>2, LocalOf DEF LinkedPdfIsCurrent, PdfOrJob, Renders, TakesAsked,
         KeysOfJob, Before, Own, Stored, Storing, Unrowed, Keeping, Deleting, NoJob
    <2> QED BY <2>1, <2>2, <2>3, <2>4 DEF Shared
  <1> QED BY <1>3, <1>4, <1>5, OneRequest

LEMMA UnlinkObjectAgrees ==
  ASSUME FilesAgree, TypeOK', NEW r \in Requests, UnlinkObject(r)
  PROVE  FilesAgree'
  <1>1. /\ \A s \in Requests \ {r} : job'[s] = job[s]
        /\ job[r].step = "unlinkObject"
        /\ \/ object' = object \ {job[r].key} /\ doubt' = doubt
           \/ object' = object /\ doubt' = doubt \cup {job[r].key}
        /\ job'[r].step = "unlinkRow" /\ job'[r].keys = job[r].keys
        /\ job'[r].key = job[r].key /\ job'[r].old = job[r].old
        /\ job'[r].edition = job[r].edition
        /\ UNCHANGED <<printed, row, logo, logoUrl, edition, pdfUrl, late, used, acked,
           asked>>
    BY LocalOf DEF UnlinkObject, At, Go, TryDelete, tenantVars, invoiceVars, TypeOK, Job
  <1>2. Before(r)
    BY LocalOf, DocumentsAssumption DEF Before, TypeOK, Job
  <1>3. Guarantee(r)
    BY <1>1, <1>2 DEF Guarantee, KeysOfJob, TakesAsked, Renders, Job, Before, Own, Stored,
       Storing, Unrowed, Keeping, Deleting, NoJob
  <1>4. Local(r)'
    <2>1. KeysOfJob(r)'
      BY <1>1, <1>2, LocalOf DEF KeysOfJob, KeysGivenOut, TypeOK, AllKeys, Before, Own,
         Stored, Storing, Unrowed, Keeping, Deleting, NoJob
    <2>2. HoldsFiles(r)' /\ TakesAsked(r)'
      BY <1>1, <1>2 DEF KeysOfJob, HoldsFiles, TakesAsked, Before, Own, Stored, Storing,
         Unrowed, Keeping, Deleting, NoJob
    <2>3. Renders(r)'
      BY <1>1, <1>2, LocalOf DEF Renders, Before, TypeOK, Job
    <2> QED BY <2>1, <2>2, <2>3 DEF Local
  <1>5. Shared'
    <2>1. KeysGivenOut' /\ RowsOrJobs'
      BY <1>1, <1>2, LocalOf DEF KeysGivenOut, RowsOrJobs, KeysOfJob, TakesAsked, Before,
         Own, Stored, Storing, Unrowed, Keeping, Deleting, NoJob
    <2>2. AcknowledgedFilesStay'
      BY <1>1, <1>2, LocalOf DEF AcknowledgedFilesStay, KeysOfJob, HoldsFiles, TakesAsked,
         Before, Own, Stored, Storing, Unrowed, Keeping, Deleting, NoJob
    <2>3. LogoIsStored'
      BY <1>1, <1>2, LocalOf DEF LogoIsStored, KeysOfJob, HoldsFiles, TakesAsked, Before,
         Own, Stored, Storing, Unrowed, Keeping, Deleting, NoJob
    <2>4. LinkedPdfIsCurrent' /\ PdfOrJob'
      BY <1>1, <1>2, LocalOf DEF LinkedPdfIsCurrent, PdfOrJob, Renders, TakesAsked,
         KeysOfJob, Before, Own, Stored, Storing, Unrowed, Keeping, Deleting, NoJob
    <2> QED BY <2>1, <2>2, <2>3, <2>4 DEF Shared
  <1> QED BY <1>3, <1>4, <1>5, OneRequest

LEMMA UnlinkRowAgrees ==
  ASSUME FilesAgree, TypeOK', NEW r \in Requests, UnlinkRow(r)
  PROVE  FilesAgree'
  <1>1. /\ \A s \in Requests \ {r} : job'[s] = job[s]
        /\ job[r].step = "unlinkRow"
        /\ \/ /\ row' = row \ {job[r].key}
              /\ logo' = (IF logo = job[r].key THEN NoKey ELSE logo)
           \/ row' = row /\ logo' = logo
        /\ job'[r] = NoJob
        /\ UNCHANGED <<object, printed, logoUrl, edition, pdfUrl, late, used, acked,
           asked, doubt>>
    BY LocalOf DEF UnlinkRow, At, End, DeleteRow, invoiceVars, TypeOK, Job
  <1>2. Before(r)
    BY LocalOf, DocumentsAssumption DEF Before, TypeOK, Job
  <1>3. Guarantee(r)
    BY <1>1, <1>2, Ended DEF Guarantee, KeysOfJob, TakesAsked, Renders, Job, Before, Own,
       Stored, Storing, Unrowed, Keeping, Deleting, NoJob
  <1>4. Local(r)'
    BY <1>1, Ended
  <1>5. Shared'
    <2>1. KeysGivenOut' /\ RowsOrJobs'
      BY <1>1, <1>2, LocalOf, Ended DEF KeysGivenOut, RowsOrJobs, KeysOfJob, TakesAsked,
         Before, Own, Stored, Storing, Unrowed, Keeping, Deleting, NoJob
    <2>2. AcknowledgedFilesStay'
      BY <1>1, <1>2, LocalOf DEF AcknowledgedFilesStay, KeysOfJob, HoldsFiles, TakesAsked,
         Before, Own, Stored, Storing, Unrowed, Keeping, Deleting, NoJob
    <2>3. LogoIsStored'
      BY <1>1, <1>2, LocalOf DEF LogoIsStored, KeysOfJob, HoldsFiles, TakesAsked, Before,
         Own, Stored, Storing, Unrowed, Keeping, Deleting, NoJob
    <2>4. LinkedPdfIsCurrent' /\ PdfOrJob'
      BY <1>1, <1>2, LocalOf, Ended DEF LinkedPdfIsCurrent, PdfOrJob, Renders, TakesAsked,
         KeysOfJob, Before, Own, Stored, Storing, Unrowed, Keeping, Deleting, NoJob
    <2> QED BY <2>1, <2>2, <2>3, <2>4 DEF Shared
  <1> QED BY <1>3, <1>4, <1>5, OneRequest

LEMMA ReplaceObjectAgrees ==
  ASSUME FilesAgree, TypeOK', NEW r \in Requests, ReplaceObject(r)
  PROVE  FilesAgree'
  <1>1. /\ \A s \in Requests \ {r} : job'[s] = job[s]
        /\ job[r].step = "logoReplace"
        /\ \/ object' = object \ {job[r].old} /\ doubt' = doubt
           \/ object' = object /\ doubt' = doubt \cup {job[r].old}
        /\ job'[r].step = "logoUnrow" /\ job'[r].keys = job[r].keys
        /\ job'[r].key = job[r].key /\ job'[r].old = job[r].old
        /\ job'[r].edition = job[r].edition
        /\ UNCHANGED <<printed, row, logo, logoUrl, edition, pdfUrl, late, used, acked,
           asked>>
    BY LocalOf DEF ReplaceObject, At, Go, TryDelete, Replaced, tenantVars, invoiceVars,
       TypeOK, Job
  <1>2. Before(r)
    BY LocalOf, DocumentsAssumption DEF Before, TypeOK, Job
  <1>3. Guarantee(r)
    BY <1>1, <1>2 DEF Guarantee, KeysOfJob, TakesAsked, Renders, Job, Before, Own, Stored,
       Storing, Unrowed, Keeping, Deleting, NoJob
  <1>4. Local(r)'
    <2>1. KeysOfJob(r)'
      BY <1>1, <1>2, LocalOf DEF KeysOfJob, KeysGivenOut, TypeOK, AllKeys, Before, Own,
         Stored, Storing, Unrowed, Keeping, Deleting, NoJob
    <2>2. HoldsFiles(r)' /\ TakesAsked(r)'
      BY <1>1, <1>2 DEF KeysOfJob, HoldsFiles, TakesAsked, Before, Own, Stored, Storing,
         Unrowed, Keeping, Deleting, NoJob
    <2>3. Renders(r)'
      BY <1>1, <1>2, LocalOf DEF Renders, Before, TypeOK, Job
    <2> QED BY <2>1, <2>2, <2>3 DEF Local
  <1>5. Shared'
    <2>1. KeysGivenOut' /\ RowsOrJobs'
      BY <1>1, <1>2, LocalOf DEF KeysGivenOut, RowsOrJobs, KeysOfJob, TakesAsked, Before,
         Own, Stored, Storing, Unrowed, Keeping, Deleting, NoJob
    <2>2. AcknowledgedFilesStay'
      BY <1>1, <1>2, LocalOf DEF AcknowledgedFilesStay, KeysOfJob, HoldsFiles, TakesAsked,
         Before, Own, Stored, Storing, Unrowed, Keeping, Deleting, NoJob
    <2>3. LogoIsStored'
      BY <1>1, <1>2, LocalOf DEF LogoIsStored, KeysOfJob, HoldsFiles, TakesAsked, Before,
         Own, Stored, Storing, Unrowed, Keeping, Deleting, NoJob
    <2>4. LinkedPdfIsCurrent' /\ PdfOrJob'
      BY <1>1, <1>2, LocalOf DEF LinkedPdfIsCurrent, PdfOrJob, Renders, TakesAsked,
         KeysOfJob, Before, Own, Stored, Storing, Unrowed, Keeping, Deleting, NoJob
    <2> QED BY <2>1, <2>2, <2>3, <2>4 DEF Shared
  <1> QED BY <1>3, <1>4, <1>5, OneRequest

LEMMA ReplaceRowAgrees ==
  ASSUME FilesAgree, TypeOK', NEW r \in Requests, ReplaceRow(r)
  PROVE  FilesAgree'
  <1>1. /\ \A s \in Requests \ {r} : job'[s] = job[s]
        /\ job[r].step = "logoUnrow"
        /\ \/ /\ row' = row \ {job[r].old}
              /\ logo' = (IF logo = job[r].old THEN NoKey ELSE logo)
           \/ row' = row /\ logo' = logo
        /\ acked' = acked \cup {job[r].key} /\ job'[r] = NoJob
        /\ UNCHANGED <<object, printed, logoUrl, edition, pdfUrl, late, used, asked, doubt>>
    BY LocalOf DEF ReplaceRow, At, End, Replaced, DeleteRow, invoiceVars, TypeOK, Job
  <1>2. Before(r)
    BY LocalOf, DocumentsAssumption DEF Before, TypeOK, Job
  <1>3. Guarantee(r)
    BY <1>1, <1>2, Ended DEF Guarantee, KeysOfJob, TakesAsked, Renders, Job, Before, Own,
       Stored, Storing, Unrowed, Keeping, Deleting, NoJob
  <1>4. Local(r)'
    BY <1>1, Ended
  <1>5. Shared'
    <2>1. KeysGivenOut' /\ RowsOrJobs'
      BY <1>1, <1>2, LocalOf, Ended DEF KeysGivenOut, RowsOrJobs, KeysOfJob, TakesAsked,
         Before, Own, Stored, Storing, Unrowed, Keeping, Deleting, NoJob
    <2>2. AcknowledgedFilesStay'
      BY <1>1, <1>2, LocalOf DEF AcknowledgedFilesStay, KeysOfJob, HoldsFiles, TakesAsked,
         Before, Own, Stored, Storing, Unrowed, Keeping, Deleting, NoJob
    <2>3. LogoIsStored'
      BY <1>1, <1>2, LocalOf DEF LogoIsStored, KeysOfJob, HoldsFiles, TakesAsked, Before,
         Own, Stored, Storing, Unrowed, Keeping, Deleting, NoJob
    <2>4. LinkedPdfIsCurrent' /\ PdfOrJob'
      BY <1>1, <1>2, LocalOf, Ended DEF LinkedPdfIsCurrent, PdfOrJob, Renders, TakesAsked,
         KeysOfJob, Before, Own, Stored, Storing, Unrowed, Keeping, Deleting, NoJob
    <2> QED BY <2>1, <2>2, <2>3, <2>4 DEF Shared
  <1> QED BY <1>3, <1>4, <1>5, OneRequest

-----------------------------------------------------------------------------
(***************************************************************************)
(* deleteLogo.                                                             *)
(***************************************************************************)

LEMMA ReadLogoAgrees ==
  ASSUME FilesAgree, TypeOK', NEW r \in Requests, ReadLogo(r)
  PROVE  FilesAgree'
  <1>1. /\ \A s \in Requests \ {r} : job'[s] = job[s]
        /\ job[r].step = "idle" /\ logo # NoKey /\ asked' = asked \cup {logo}
        /\ job'[r].step = "unlogoObject" /\ job'[r].keys = job[r].keys /\ job'[r].key = logo
        /\ job'[r].old = job[r].old /\ job'[r].edition = job[r].edition
        /\ UNCHANGED <<object, printed, row, logo, logoUrl, edition, pdfUrl, late, used,
           acked, doubt>>
    BY LocalOf DEF ReadLogo, At, tenantVars, invoiceVars, TypeOK, Job
  <1>2. Before(r)
    BY LocalOf, DocumentsAssumption DEF Before, TypeOK, Job
  <1>3. Guarantee(r)
    BY <1>1, <1>2 DEF Guarantee, KeysOfJob, TakesAsked, Renders, Job, Before, Own, Stored,
       Storing, Unrowed, Keeping, Deleting, NoJob
  <1>4. Local(r)'
    <2>1. KeysOfJob(r)'
      BY <1>1, <1>2, LocalOf DEF KeysOfJob, KeysGivenOut, TypeOK, AllKeys, Before, Own,
         Stored, Storing, Unrowed, Keeping, Deleting, NoJob
    <2>2. HoldsFiles(r)' /\ TakesAsked(r)'
      BY <1>1, <1>2 DEF KeysOfJob, HoldsFiles, TakesAsked, Before, Own, Stored, Storing,
         Unrowed, Keeping, Deleting, NoJob
    <2>3. Renders(r)'
      BY <1>1, <1>2, LocalOf DEF Renders, Before, TypeOK, Job
    <2> QED BY <2>1, <2>2, <2>3 DEF Local
  <1>5. Shared'
    <2>1. KeysGivenOut' /\ RowsOrJobs'
      BY <1>1, <1>2, LocalOf DEF KeysGivenOut, RowsOrJobs, KeysOfJob, TakesAsked, Before,
         Own, Stored, Storing, Unrowed, Keeping, Deleting, NoJob
    <2>2. AcknowledgedFilesStay'
      BY <1>1, <1>2, LocalOf DEF AcknowledgedFilesStay, KeysOfJob, HoldsFiles, TakesAsked,
         Before, Own, Stored, Storing, Unrowed, Keeping, Deleting, NoJob
    <2>3. LogoIsStored'
      BY <1>1, <1>2, LocalOf DEF LogoIsStored, KeysOfJob, HoldsFiles, TakesAsked, Before,
         Own, Stored, Storing, Unrowed, Keeping, Deleting, NoJob
    <2>4. LinkedPdfIsCurrent' /\ PdfOrJob'
      BY <1>1, <1>2, LocalOf DEF LinkedPdfIsCurrent, PdfOrJob, Renders, TakesAsked,
         KeysOfJob, Before, Own, Stored, Storing, Unrowed, Keeping, Deleting, NoJob
    <2> QED BY <2>1, <2>2, <2>3, <2>4 DEF Shared
  <1> QED BY <1>3, <1>4, <1>5, OneRequest

LEMMA DeleteLogoObjectAgrees ==
  ASSUME FilesAgree, TypeOK', NEW r \in Requests, DeleteLogoObject(r)
  PROVE  FilesAgree'
  <1>1. /\ \A s \in Requests \ {r} : job'[s] = job[s]
        /\ job[r].step = "unlogoObject" /\ object' = object \ {job[r].key}
        /\ job'[r].step = "unlogoClear" /\ job'[r].keys = job[r].keys
        /\ job'[r].key = job[r].key /\ job'[r].old = job[r].old
        /\ job'[r].edition = job[r].edition
        /\ UNCHANGED <<printed, row, logo, logoUrl, edition, pdfUrl, late, used, acked,
           asked, doubt>>
    BY LocalOf DEF DeleteLogoObject, At, Go, tenantVars, invoiceVars, TypeOK, Job
  <1>2. Before(r)
    BY LocalOf, DocumentsAssumption DEF Before, TypeOK, Job
  <1>3. Guarantee(r)
    BY <1>1, <1>2 DEF Guarantee, KeysOfJob, TakesAsked, Renders, Job, Before, Own, Stored,
       Storing, Unrowed, Keeping, Deleting, NoJob
  <1>4. Local(r)'
    <2>1. KeysOfJob(r)'
      BY <1>1, <1>2, LocalOf DEF KeysOfJob, KeysGivenOut, TypeOK, AllKeys, Before, Own,
         Stored, Storing, Unrowed, Keeping, Deleting, NoJob
    <2>2. HoldsFiles(r)' /\ TakesAsked(r)'
      BY <1>1, <1>2 DEF KeysOfJob, HoldsFiles, TakesAsked, Before, Own, Stored, Storing,
         Unrowed, Keeping, Deleting, NoJob
    <2>3. Renders(r)'
      BY <1>1, <1>2, LocalOf DEF Renders, Before, TypeOK, Job
    <2> QED BY <2>1, <2>2, <2>3 DEF Local
  <1>5. Shared'
    <2>1. KeysGivenOut' /\ RowsOrJobs'
      BY <1>1, <1>2, LocalOf DEF KeysGivenOut, RowsOrJobs, KeysOfJob, TakesAsked, Before,
         Own, Stored, Storing, Unrowed, Keeping, Deleting, NoJob
    <2>2. AcknowledgedFilesStay'
      BY <1>1, <1>2, LocalOf DEF AcknowledgedFilesStay, KeysOfJob, HoldsFiles, TakesAsked,
         Before, Own, Stored, Storing, Unrowed, Keeping, Deleting, NoJob
    <2>3. LogoIsStored'
      BY <1>1, <1>2, LocalOf DEF LogoIsStored, KeysOfJob, HoldsFiles, TakesAsked, Before,
         Own, Stored, Storing, Unrowed, Keeping, Deleting, NoJob
    <2>4. LinkedPdfIsCurrent' /\ PdfOrJob'
      BY <1>1, <1>2, LocalOf DEF LinkedPdfIsCurrent, PdfOrJob, Renders, TakesAsked,
         KeysOfJob, Before, Own, Stored, Storing, Unrowed, Keeping, Deleting, NoJob
    <2> QED BY <2>1, <2>2, <2>3, <2>4 DEF Shared
  <1> QED BY <1>3, <1>4, <1>5, OneRequest

LEMMA ClearLogoAgrees ==
  ASSUME FilesAgree, TypeOK', NEW r \in Requests, ClearLogo(r)
  PROVE  FilesAgree'
  <1>1. /\ \A s \in Requests \ {r} : job'[s] = job[s]
        /\ job[r].step = "unlogoClear"
        /\ \/ logo' = NoKey /\ logoUrl' = NoKey
           \/ logo' = logo /\ logoUrl' = logoUrl
        /\ job'[r] = NoJob
        /\ UNCHANGED <<object, printed, row, edition, pdfUrl, late, used, acked, asked,
           doubt>>
    BY LocalOf DEF ClearLogo, At, End, tenantVars, invoiceVars, TypeOK, Job
  <1>2. Before(r)
    BY LocalOf, DocumentsAssumption DEF Before, TypeOK, Job
  <1>3. Guarantee(r)
    BY <1>1, <1>2, Ended DEF Guarantee, KeysOfJob, TakesAsked, Renders, Job, Before, Own,
       Stored, Storing, Unrowed, Keeping, Deleting, NoJob
  <1>4. Local(r)'
    BY <1>1, Ended
  <1>5. Shared'
    <2>1. KeysGivenOut' /\ RowsOrJobs'
      BY <1>1, <1>2, LocalOf, Ended DEF KeysGivenOut, RowsOrJobs, KeysOfJob, TakesAsked,
         Before, Own, Stored, Storing, Unrowed, Keeping, Deleting, NoJob
    <2>2. AcknowledgedFilesStay'
      BY <1>1, <1>2, LocalOf DEF AcknowledgedFilesStay, KeysOfJob, HoldsFiles, TakesAsked,
         Before, Own, Stored, Storing, Unrowed, Keeping, Deleting, NoJob
    <2>3. LogoIsStored'
      BY <1>1, <1>2, LocalOf DEF LogoIsStored, KeysOfJob, HoldsFiles, TakesAsked, Before,
         Own, Stored, Storing, Unrowed, Keeping, Deleting, NoJob
    <2>4. LinkedPdfIsCurrent' /\ PdfOrJob'
      BY <1>1, <1>2, LocalOf, Ended DEF LinkedPdfIsCurrent, PdfOrJob, Renders, TakesAsked,
         KeysOfJob, Before, Own, Stored, Storing, Unrowed, Keeping, Deleting, NoJob
    <2> QED BY <2>1, <2>2, <2>3, <2>4 DEF Shared
  <1> QED BY <1>3, <1>4, <1>5, OneRequest

-----------------------------------------------------------------------------
(***************************************************************************)
(* deleteFile.                                                             *)
(***************************************************************************)

LEMMA ReadFileAgrees ==
  ASSUME FilesAgree, TypeOK', NEW r \in Requests, NEW k \in AllKeys, ReadFile(r, k)
  PROVE  FilesAgree'
  <1>1. /\ \A s \in Requests \ {r} : job'[s] = job[s]
        /\ job[r].step = "idle" /\ k \in row /\ asked' = asked \cup {k}
        /\ job'[r].step = "deleteObject" /\ job'[r].keys = job[r].keys /\ job'[r].key = k
        /\ job'[r].old = job[r].old /\ job'[r].edition = job[r].edition
        /\ UNCHANGED <<object, printed, row, logo, logoUrl, edition, pdfUrl, late, used,
           acked, doubt>>
    BY LocalOf DEF ReadFile, At, tenantVars, invoiceVars, TypeOK, Job
  <1>2. Before(r)
    BY LocalOf, DocumentsAssumption DEF Before, TypeOK, Job
  <1>3. Guarantee(r)
    BY <1>1, <1>2 DEF Guarantee, KeysOfJob, TakesAsked, Renders, Job, Before, Own, Stored,
       Storing, Unrowed, Keeping, Deleting, NoJob
  <1>4. Local(r)'
    <2>1. KeysOfJob(r)'
      BY <1>1, <1>2, LocalOf DEF KeysOfJob, KeysGivenOut, TypeOK, AllKeys, Before, Own,
         Stored, Storing, Unrowed, Keeping, Deleting, NoJob
    <2>2. HoldsFiles(r)' /\ TakesAsked(r)'
      BY <1>1, <1>2 DEF KeysOfJob, HoldsFiles, TakesAsked, Before, Own, Stored, Storing,
         Unrowed, Keeping, Deleting, NoJob
    <2>3. Renders(r)'
      BY <1>1, <1>2, LocalOf DEF Renders, Before, TypeOK, Job
    <2> QED BY <2>1, <2>2, <2>3 DEF Local
  <1>5. Shared'
    <2>1. KeysGivenOut' /\ RowsOrJobs'
      BY <1>1, <1>2, LocalOf DEF KeysGivenOut, RowsOrJobs, KeysOfJob, TakesAsked, Before,
         Own, Stored, Storing, Unrowed, Keeping, Deleting, NoJob
    <2>2. AcknowledgedFilesStay'
      BY <1>1, <1>2, LocalOf DEF AcknowledgedFilesStay, KeysOfJob, HoldsFiles, TakesAsked,
         Before, Own, Stored, Storing, Unrowed, Keeping, Deleting, NoJob
    <2>3. LogoIsStored'
      BY <1>1, <1>2, LocalOf DEF LogoIsStored, KeysOfJob, HoldsFiles, TakesAsked, Before,
         Own, Stored, Storing, Unrowed, Keeping, Deleting, NoJob
    <2>4. LinkedPdfIsCurrent' /\ PdfOrJob'
      BY <1>1, <1>2, LocalOf DEF LinkedPdfIsCurrent, PdfOrJob, Renders, TakesAsked,
         KeysOfJob, Before, Own, Stored, Storing, Unrowed, Keeping, Deleting, NoJob
    <2> QED BY <2>1, <2>2, <2>3, <2>4 DEF Shared
  <1> QED BY <1>3, <1>4, <1>5, OneRequest

LEMMA DeleteObjectAgrees ==
  ASSUME FilesAgree, TypeOK', NEW r \in Requests, DeleteObject(r)
  PROVE  FilesAgree'
  <1>1. /\ \A s \in Requests \ {r} : job'[s] = job[s]
        /\ job[r].step = "deleteObject" /\ object' = object \ {job[r].key}
        /\ job'[r].step = "deleteRow" /\ job'[r].keys = job[r].keys
        /\ job'[r].key = job[r].key /\ job'[r].old = job[r].old
        /\ job'[r].edition = job[r].edition
        /\ UNCHANGED <<printed, row, logo, logoUrl, edition, pdfUrl, late, used, acked,
           asked, doubt>>
    BY LocalOf DEF DeleteObject, At, Go, tenantVars, invoiceVars, TypeOK, Job
  <1>2. Before(r)
    BY LocalOf, DocumentsAssumption DEF Before, TypeOK, Job
  <1>3. Guarantee(r)
    BY <1>1, <1>2 DEF Guarantee, KeysOfJob, TakesAsked, Renders, Job, Before, Own, Stored,
       Storing, Unrowed, Keeping, Deleting, NoJob
  <1>4. Local(r)'
    <2>1. KeysOfJob(r)'
      BY <1>1, <1>2, LocalOf DEF KeysOfJob, KeysGivenOut, TypeOK, AllKeys, Before, Own,
         Stored, Storing, Unrowed, Keeping, Deleting, NoJob
    <2>2. HoldsFiles(r)' /\ TakesAsked(r)'
      BY <1>1, <1>2 DEF KeysOfJob, HoldsFiles, TakesAsked, Before, Own, Stored, Storing,
         Unrowed, Keeping, Deleting, NoJob
    <2>3. Renders(r)'
      BY <1>1, <1>2, LocalOf DEF Renders, Before, TypeOK, Job
    <2> QED BY <2>1, <2>2, <2>3 DEF Local
  <1>5. Shared'
    <2>1. KeysGivenOut' /\ RowsOrJobs'
      BY <1>1, <1>2, LocalOf DEF KeysGivenOut, RowsOrJobs, KeysOfJob, TakesAsked, Before,
         Own, Stored, Storing, Unrowed, Keeping, Deleting, NoJob
    <2>2. AcknowledgedFilesStay'
      BY <1>1, <1>2, LocalOf DEF AcknowledgedFilesStay, KeysOfJob, HoldsFiles, TakesAsked,
         Before, Own, Stored, Storing, Unrowed, Keeping, Deleting, NoJob
    <2>3. LogoIsStored'
      BY <1>1, <1>2, LocalOf DEF LogoIsStored, KeysOfJob, HoldsFiles, TakesAsked, Before,
         Own, Stored, Storing, Unrowed, Keeping, Deleting, NoJob
    <2>4. LinkedPdfIsCurrent' /\ PdfOrJob'
      BY <1>1, <1>2, LocalOf DEF LinkedPdfIsCurrent, PdfOrJob, Renders, TakesAsked,
         KeysOfJob, Before, Own, Stored, Storing, Unrowed, Keeping, Deleting, NoJob
    <2> QED BY <2>1, <2>2, <2>3, <2>4 DEF Shared
  <1> QED BY <1>3, <1>4, <1>5, OneRequest

LEMMA DeleteFailsAgrees ==
  ASSUME FilesAgree, TypeOK', NEW r \in Requests, DeleteFails(r)
  PROVE  FilesAgree'
  <1>1. /\ \A s \in Requests \ {r} : job'[s] = job[s]
        /\ job[r].step \in {"deleteObject", "unlogoObject"}
        /\ object' \in {object, object \ {job[r].key}} /\ job'[r] = NoJob
        /\ UNCHANGED <<printed, row, logo, logoUrl, edition, pdfUrl, late, used, acked,
           asked, doubt>>
    BY LocalOf DEF DeleteFails, At, End, tenantVars, invoiceVars, TypeOK, Job
  <1>2. Before(r)
    BY LocalOf, DocumentsAssumption DEF Before, TypeOK, Job
  <1>3. Guarantee(r)
    BY <1>1, <1>2, Ended DEF Guarantee, KeysOfJob, TakesAsked, Renders, Job, Before, Own,
       Stored, Storing, Unrowed, Keeping, Deleting, NoJob
  <1>4. Local(r)'
    BY <1>1, Ended
  <1>5. Shared'
    <2>1. KeysGivenOut' /\ RowsOrJobs'
      BY <1>1, <1>2, LocalOf, Ended DEF KeysGivenOut, RowsOrJobs, KeysOfJob, TakesAsked,
         Before, Own, Stored, Storing, Unrowed, Keeping, Deleting, NoJob
    <2>2. AcknowledgedFilesStay'
      BY <1>1, <1>2, LocalOf DEF AcknowledgedFilesStay, KeysOfJob, HoldsFiles, TakesAsked,
         Before, Own, Stored, Storing, Unrowed, Keeping, Deleting, NoJob
    <2>3. LogoIsStored'
      BY <1>1, <1>2, LocalOf DEF LogoIsStored, KeysOfJob, HoldsFiles, TakesAsked, Before,
         Own, Stored, Storing, Unrowed, Keeping, Deleting, NoJob
    <2>4. LinkedPdfIsCurrent' /\ PdfOrJob'
      BY <1>1, <1>2, LocalOf, Ended DEF LinkedPdfIsCurrent, PdfOrJob, Renders, TakesAsked,
         KeysOfJob, Before, Own, Stored, Storing, Unrowed, Keeping, Deleting, NoJob
    <2> QED BY <2>1, <2>2, <2>3, <2>4 DEF Shared
  <1> QED BY <1>3, <1>4, <1>5, OneRequest

LEMMA DeleteFileRowAgrees ==
  ASSUME FilesAgree, TypeOK', NEW r \in Requests, DeleteFileRow(r)
  PROVE  FilesAgree'
  <1>1. /\ \A s \in Requests \ {r} : job'[s] = job[s]
        /\ job[r].step = "deleteRow"
        /\ \/ /\ row' = row \ {job[r].key}
              /\ logo' = (IF logo = job[r].key THEN NoKey ELSE logo)
           \/ row' = row /\ logo' = logo
        /\ job'[r] = NoJob
        /\ UNCHANGED <<object, printed, logoUrl, edition, pdfUrl, late, used, acked,
           asked, doubt>>
    BY LocalOf DEF DeleteFileRow, At, End, DeleteRow, invoiceVars, TypeOK, Job
  <1>2. Before(r)
    BY LocalOf, DocumentsAssumption DEF Before, TypeOK, Job
  <1>3. Guarantee(r)
    BY <1>1, <1>2, Ended DEF Guarantee, KeysOfJob, TakesAsked, Renders, Job, Before, Own,
       Stored, Storing, Unrowed, Keeping, Deleting, NoJob
  <1>4. Local(r)'
    BY <1>1, Ended
  <1>5. Shared'
    <2>1. KeysGivenOut' /\ RowsOrJobs'
      BY <1>1, <1>2, LocalOf, Ended DEF KeysGivenOut, RowsOrJobs, KeysOfJob, TakesAsked,
         Before, Own, Stored, Storing, Unrowed, Keeping, Deleting, NoJob
    <2>2. AcknowledgedFilesStay'
      BY <1>1, <1>2, LocalOf DEF AcknowledgedFilesStay, KeysOfJob, HoldsFiles, TakesAsked,
         Before, Own, Stored, Storing, Unrowed, Keeping, Deleting, NoJob
    <2>3. LogoIsStored'
      BY <1>1, <1>2, LocalOf DEF LogoIsStored, KeysOfJob, HoldsFiles, TakesAsked, Before,
         Own, Stored, Storing, Unrowed, Keeping, Deleting, NoJob
    <2>4. LinkedPdfIsCurrent' /\ PdfOrJob'
      BY <1>1, <1>2, LocalOf, Ended DEF LinkedPdfIsCurrent, PdfOrJob, Renders, TakesAsked,
         KeysOfJob, Before, Own, Stored, Storing, Unrowed, Keeping, Deleting, NoJob
    <2> QED BY <2>1, <2>2, <2>3, <2>4 DEF Shared
  <1> QED BY <1>3, <1>4, <1>5, OneRequest

-----------------------------------------------------------------------------
(***************************************************************************)
(* invoicePDF.                                                             *)
(***************************************************************************)

LEMMA ReadInvoiceAgrees ==
  ASSUME FilesAgree, TypeOK', NEW r \in Requests, ReadInvoice(r)
  PROVE  FilesAgree'
  <1>1. /\ \A s \in Requests \ {r} : job'[s] = job[s]
        /\ job[r].step = "idle" /\ job'[r].step = "print" /\ job'[r].keys = job[r].keys
        /\ job'[r].key = PdfKey /\ job'[r].old = job[r].old /\ job'[r].edition = edition
        /\ UNCHANGED <<object, printed, row, logo, logoUrl, edition, pdfUrl, late, used,
           acked, asked, doubt>>
    BY LocalOf DEF ReadInvoice, At, tenantVars, invoiceVars, TypeOK, Job
  <1>2. Before(r)
    BY LocalOf, DocumentsAssumption DEF Before, TypeOK, Job
  <1>3. Guarantee(r)
    BY <1>1, <1>2 DEF Guarantee, KeysOfJob, TakesAsked, Renders, Job, Before, Own, Stored,
       Storing, Unrowed, Keeping, Deleting, NoJob
  <1>4. Local(r)'
    <2>1. KeysOfJob(r)'
      BY <1>1, <1>2, LocalOf DEF KeysOfJob, KeysGivenOut, TypeOK, AllKeys, Before, Own,
         Stored, Storing, Unrowed, Keeping, Deleting, NoJob
    <2>2. HoldsFiles(r)' /\ TakesAsked(r)'
      BY <1>1, <1>2 DEF KeysOfJob, HoldsFiles, TakesAsked, Before, Own, Stored, Storing,
         Unrowed, Keeping, Deleting, NoJob
    <2>3. Renders(r)'
      BY <1>1, <1>2, LocalOf DEF Renders, Before, TypeOK, Job
    <2> QED BY <2>1, <2>2, <2>3 DEF Local
  <1>5. Shared'
    <2>1. KeysGivenOut' /\ RowsOrJobs'
      BY <1>1, <1>2, LocalOf DEF KeysGivenOut, RowsOrJobs, KeysOfJob, TakesAsked, Before,
         Own, Stored, Storing, Unrowed, Keeping, Deleting, NoJob
    <2>2. AcknowledgedFilesStay'
      BY <1>1, <1>2, LocalOf DEF AcknowledgedFilesStay, KeysOfJob, HoldsFiles, TakesAsked,
         Before, Own, Stored, Storing, Unrowed, Keeping, Deleting, NoJob
    <2>3. LogoIsStored'
      BY <1>1, <1>2, LocalOf DEF LogoIsStored, KeysOfJob, HoldsFiles, TakesAsked, Before,
         Own, Stored, Storing, Unrowed, Keeping, Deleting, NoJob
    <2>4. LinkedPdfIsCurrent' /\ PdfOrJob'
      BY <1>1, <1>2, LocalOf DEF LinkedPdfIsCurrent, PdfOrJob, Renders, TakesAsked,
         KeysOfJob, Before, Own, Stored, Storing, Unrowed, Keeping, Deleting, NoJob
    <2> QED BY <2>1, <2>2, <2>3, <2>4 DEF Shared
  <1> QED BY <1>3, <1>4, <1>5, OneRequest

LEMMA PrintFailsAgrees ==
  ASSUME FilesAgree, TypeOK', NEW r \in Requests, PrintFails(r)
  PROVE  FilesAgree'
  <1>1. /\ \A s \in Requests \ {r} : job'[s] = job[s]
        /\ job[r].step = "print" /\ job'[r] = NoJob
        /\ UNCHANGED <<object, printed, row, logo, logoUrl, edition, pdfUrl, late, used,
           acked, asked, doubt>>
    BY LocalOf DEF PrintFails, At, End, tenantVars, invoiceVars, TypeOK, Job
  <1>2. Before(r)
    BY LocalOf, DocumentsAssumption DEF Before, TypeOK, Job
  <1>3. Guarantee(r)
    BY <1>1, <1>2, Ended DEF Guarantee, KeysOfJob, TakesAsked, Renders, Job, Before, Own,
       Stored, Storing, Unrowed, Keeping, Deleting, NoJob
  <1>4. Local(r)'
    BY <1>1, Ended
  <1>5. Shared'
    <2>1. KeysGivenOut' /\ RowsOrJobs'
      BY <1>1, <1>2, LocalOf, Ended DEF KeysGivenOut, RowsOrJobs, KeysOfJob, TakesAsked,
         Before, Own, Stored, Storing, Unrowed, Keeping, Deleting, NoJob
    <2>2. AcknowledgedFilesStay'
      BY <1>1, <1>2, LocalOf DEF AcknowledgedFilesStay, KeysOfJob, HoldsFiles, TakesAsked,
         Before, Own, Stored, Storing, Unrowed, Keeping, Deleting, NoJob
    <2>3. LogoIsStored'
      BY <1>1, <1>2, LocalOf DEF LogoIsStored, KeysOfJob, HoldsFiles, TakesAsked, Before,
         Own, Stored, Storing, Unrowed, Keeping, Deleting, NoJob
    <2>4. LinkedPdfIsCurrent' /\ PdfOrJob'
      BY <1>1, <1>2, LocalOf, Ended DEF LinkedPdfIsCurrent, PdfOrJob, Renders, TakesAsked,
         KeysOfJob, Before, Own, Stored, Storing, Unrowed, Keeping, Deleting, NoJob
    <2> QED BY <2>1, <2>2, <2>3, <2>4 DEF Shared
  <1> QED BY <1>3, <1>4, <1>5, OneRequest

LEMMA PutPdfAgrees ==
  ASSUME FilesAgree, TypeOK', NEW r \in Requests, PutPdf(r)
  PROVE  FilesAgree'
  <1>1. /\ \A s \in Requests \ {r} : job'[s] = job[s]
        /\ job[r].step = "print" /\ object' = object \cup {PdfKey}
        /\ printed' = job[r].edition
        /\ late' <=> (late \/ job[r].edition < edition)
        /\ job'[r].step = "pdfLink" /\ job'[r].keys = job[r].keys
        /\ job'[r].key = job[r].key /\ job'[r].old = job[r].old
        /\ job'[r].edition = job[r].edition
        /\ UNCHANGED <<row, logo, logoUrl, edition, pdfUrl, used, acked, asked, doubt>>
    BY LocalOf DEF PutPdf, Go, StorePdf, At, tenantVars, TypeOK, Job
  <1>2. Before(r)
    BY LocalOf, DocumentsAssumption DEF Before, TypeOK, Job
  <1>3. Guarantee(r)
    BY <1>1, <1>2 DEF Guarantee, KeysOfJob, TakesAsked, Renders, Job, Before, Own, Stored,
       Storing, Unrowed, Keeping, Deleting, NoJob
  <1>4. Local(r)'
    <2>1. KeysOfJob(r)'
      BY <1>1, <1>2, LocalOf DEF KeysOfJob, KeysGivenOut, TypeOK, AllKeys, Before, Own,
         Stored, Storing, Unrowed, Keeping, Deleting, NoJob
    <2>2. HoldsFiles(r)' /\ TakesAsked(r)'
      BY <1>1, <1>2 DEF KeysOfJob, HoldsFiles, TakesAsked, Before, Own, Stored, Storing,
         Unrowed, Keeping, Deleting, NoJob
    <2>3. Renders(r)'
      BY <1>1, <1>2, LocalOf DEF Renders, Before, TypeOK, Job
    <2> QED BY <2>1, <2>2, <2>3 DEF Local
  <1>5. Shared'
    <2>1. KeysGivenOut' /\ RowsOrJobs'
      BY <1>1, <1>2, LocalOf DEF KeysGivenOut, RowsOrJobs, KeysOfJob, TakesAsked, Before,
         Own, Stored, Storing, Unrowed, Keeping, Deleting, NoJob
    <2>2. AcknowledgedFilesStay'
      BY <1>1, <1>2, LocalOf DEF AcknowledgedFilesStay, KeysOfJob, HoldsFiles, TakesAsked,
         Before, Own, Stored, Storing, Unrowed, Keeping, Deleting, NoJob
    <2>3. LogoIsStored'
      BY <1>1, <1>2, LocalOf DEF LogoIsStored, KeysOfJob, HoldsFiles, TakesAsked, Before,
         Own, Stored, Storing, Unrowed, Keeping, Deleting, NoJob
    <2>4. LinkedPdfIsCurrent' /\ PdfOrJob'
      BY <1>1, <1>2, LocalOf DEF LinkedPdfIsCurrent, PdfOrJob, Renders, TakesAsked,
         KeysOfJob, Before, Own, Stored, Storing, Unrowed, Keeping, Deleting, NoJob
    <2> QED BY <2>1, <2>2, <2>3, <2>4 DEF Shared
  <1> QED BY <1>3, <1>4, <1>5, OneRequest

LEMMA PutPdfFailsAgrees ==
  ASSUME FilesAgree, TypeOK', NEW r \in Requests, PutPdfFails(r)
  PROVE  FilesAgree'
  <1>1. /\ \A s \in Requests \ {r} : job'[s] = job[s]
        /\ job[r].step = "print" /\ object' = object \cup {PdfKey}
        /\ printed' = job[r].edition /\ doubt' = doubt \cup {PdfKey}
        /\ late' <=> (late \/ job[r].edition < edition)
        /\ job'[r] = NoJob
        /\ UNCHANGED <<row, logo, logoUrl, edition, pdfUrl, used, acked, asked>>
    BY LocalOf DEF PutPdfFails, End, StorePdf, At, tenantVars, TypeOK, Job
  <1>2. Before(r)
    BY LocalOf, DocumentsAssumption DEF Before, TypeOK, Job
  <1>3. Guarantee(r)
    BY <1>1, <1>2, Ended DEF Guarantee, KeysOfJob, TakesAsked, Renders, Job, Before, Own,
       Stored, Storing, Unrowed, Keeping, Deleting, NoJob
  <1>4. Local(r)'
    BY <1>1, Ended
  <1>5. Shared'
    <2>1. KeysGivenOut' /\ RowsOrJobs'
      BY <1>1, <1>2, LocalOf, Ended DEF KeysGivenOut, RowsOrJobs, KeysOfJob, TakesAsked,
         Before, Own, Stored, Storing, Unrowed, Keeping, Deleting, NoJob
    <2>2. AcknowledgedFilesStay'
      BY <1>1, <1>2, LocalOf DEF AcknowledgedFilesStay, KeysOfJob, HoldsFiles, TakesAsked,
         Before, Own, Stored, Storing, Unrowed, Keeping, Deleting, NoJob
    <2>3. LogoIsStored'
      BY <1>1, <1>2, LocalOf DEF LogoIsStored, KeysOfJob, HoldsFiles, TakesAsked, Before,
         Own, Stored, Storing, Unrowed, Keeping, Deleting, NoJob
    <2>4. LinkedPdfIsCurrent' /\ PdfOrJob'
      BY <1>1, <1>2, LocalOf, Ended DEF LinkedPdfIsCurrent, PdfOrJob, Renders, TakesAsked,
         KeysOfJob, Before, Own, Stored, Storing, Unrowed, Keeping, Deleting, NoJob
    <2> QED BY <2>1, <2>2, <2>3, <2>4 DEF Shared
  <1> QED BY <1>3, <1>4, <1>5, OneRequest

LEMMA LinkPdfAgrees ==
  ASSUME FilesAgree, TypeOK', NEW r \in Requests, LinkPdf(r)
  PROVE  FilesAgree'
  <1>1. /\ \A s \in Requests \ {r} : job'[s] = job[s]
        /\ job[r].step = "pdfLink" /\ row' = row \cup {PdfKey} /\ pdfUrl' = TRUE
        /\ doubt' = doubt \ {PdfKey}
        /\ late' <=> (late \/ job[r].edition < edition)
        /\ job'[r] = NoJob
        /\ UNCHANGED <<object, printed, logo, logoUrl, edition, used, acked, asked>>
    BY LocalOf DEF LinkPdf, At, End, tenantVars, TypeOK, Job
  <1>2. Before(r)
    BY LocalOf, DocumentsAssumption DEF Before, TypeOK, Job
  <1>3. Guarantee(r)
    BY <1>1, <1>2, Ended DEF Guarantee, KeysOfJob, TakesAsked, Renders, Job, Before, Own,
       Stored, Storing, Unrowed, Keeping, Deleting, NoJob
  <1>4. Local(r)'
    BY <1>1, Ended
  <1>5. Shared'
    <2>1. KeysGivenOut' /\ RowsOrJobs'
      BY <1>1, <1>2, LocalOf, Ended DEF KeysGivenOut, RowsOrJobs, KeysOfJob, TakesAsked,
         Before, Own, Stored, Storing, Unrowed, Keeping, Deleting, NoJob
    <2>2. AcknowledgedFilesStay'
      BY <1>1, <1>2, LocalOf DEF AcknowledgedFilesStay, KeysOfJob, HoldsFiles, TakesAsked,
         Before, Own, Stored, Storing, Unrowed, Keeping, Deleting, NoJob
    <2>3. LogoIsStored'
      BY <1>1, <1>2, LocalOf DEF LogoIsStored, KeysOfJob, HoldsFiles, TakesAsked, Before,
         Own, Stored, Storing, Unrowed, Keeping, Deleting, NoJob
    <2>4. LinkedPdfIsCurrent' /\ PdfOrJob'
      BY <1>1, <1>2, LocalOf, Ended DEF LinkedPdfIsCurrent, PdfOrJob, Renders, TakesAsked,
         KeysOfJob, Before, Own, Stored, Storing, Unrowed, Keeping, Deleting, NoJob
    <2> QED BY <2>1, <2>2, <2>3, <2>4 DEF Shared
  <1> QED BY <1>3, <1>4, <1>5, OneRequest

LEMMA LinkPdfFailsAgrees ==
  ASSUME FilesAgree, TypeOK', NEW r \in Requests, LinkPdfFails(r)
  PROVE  FilesAgree'
  <1>1. /\ \A s \in Requests \ {r} : job'[s] = job[s]
        /\ job[r].step = "pdfLink" /\ doubt' = doubt \cup {PdfKey} /\ job'[r] = NoJob
        /\ UNCHANGED <<object, printed, row, logo, logoUrl, edition, pdfUrl, late, used,
           acked, asked>>
    BY LocalOf DEF LinkPdfFails, At, End, tenantVars, invoiceVars, TypeOK, Job
  <1>2. Before(r)
    BY LocalOf, DocumentsAssumption DEF Before, TypeOK, Job
  <1>3. Guarantee(r)
    BY <1>1, <1>2, Ended DEF Guarantee, KeysOfJob, TakesAsked, Renders, Job, Before, Own,
       Stored, Storing, Unrowed, Keeping, Deleting, NoJob
  <1>4. Local(r)'
    BY <1>1, Ended
  <1>5. Shared'
    <2>1. KeysGivenOut' /\ RowsOrJobs'
      BY <1>1, <1>2, LocalOf, Ended DEF KeysGivenOut, RowsOrJobs, KeysOfJob, TakesAsked,
         Before, Own, Stored, Storing, Unrowed, Keeping, Deleting, NoJob
    <2>2. AcknowledgedFilesStay'
      BY <1>1, <1>2, LocalOf DEF AcknowledgedFilesStay, KeysOfJob, HoldsFiles, TakesAsked,
         Before, Own, Stored, Storing, Unrowed, Keeping, Deleting, NoJob
    <2>3. LogoIsStored'
      BY <1>1, <1>2, LocalOf DEF LogoIsStored, KeysOfJob, HoldsFiles, TakesAsked, Before,
         Own, Stored, Storing, Unrowed, Keeping, Deleting, NoJob
    <2>4. LinkedPdfIsCurrent' /\ PdfOrJob'
      BY <1>1, <1>2, LocalOf, Ended DEF LinkedPdfIsCurrent, PdfOrJob, Renders, TakesAsked,
         KeysOfJob, Before, Own, Stored, Storing, Unrowed, Keeping, Deleting, NoJob
    <2> QED BY <2>1, <2>2, <2>3, <2>4 DEF Shared
  <1> QED BY <1>3, <1>4, <1>5, OneRequest

-----------------------------------------------------------------------------
(***************************************************************************)
(* A client that leaves.                                                   *)
(***************************************************************************)

LEMMA LeaveAgrees ==
  ASSUME FilesAgree, TypeOK', NEW r \in Requests, Leave(r)
  PROVE  FilesAgree'
  <1>1. /\ \A s \in Requests \ {r} : job'[s] = job[s]
        /\ job'[r].step = job[r].step /\ job'[r].keys = job[r].keys
        /\ job'[r].key = job[r].key /\ job'[r].old = job[r].old
        /\ job'[r].edition = job[r].edition
        /\ UNCHANGED <<object, printed, row, logo, logoUrl, edition, pdfUrl, late, used,
           acked, asked, doubt>>
    BY LocalOf DEF Leave, At, tenantVars, invoiceVars, TypeOK, Job
  <1>2. Before(r)
    BY LocalOf, DocumentsAssumption DEF Before, TypeOK, Job
  <1>3. Guarantee(r)
    BY <1>1, <1>2 DEF Guarantee, KeysOfJob, TakesAsked, Renders, Job, Before, Own, Stored,
       Storing, Unrowed, Keeping, Deleting, NoJob
  <1>4. Local(r)'
    <2>1. KeysOfJob(r)'
      BY <1>1, <1>2, LocalOf DEF KeysOfJob, KeysGivenOut, TypeOK, AllKeys, Before, Own,
         Stored, Storing, Unrowed, Keeping, Deleting, NoJob
    <2>2. HoldsFiles(r)' /\ TakesAsked(r)'
      BY <1>1, <1>2 DEF KeysOfJob, HoldsFiles, TakesAsked, Before, Own, Stored, Storing,
         Unrowed, Keeping, Deleting, NoJob
    <2>3. Renders(r)'
      BY <1>1, <1>2, LocalOf DEF Renders, Before, TypeOK, Job
    <2> QED BY <2>1, <2>2, <2>3 DEF Local
  <1>5. Shared'
    <2>1. KeysGivenOut' /\ RowsOrJobs'
      BY <1>1, <1>2, LocalOf DEF KeysGivenOut, RowsOrJobs, KeysOfJob, TakesAsked, Before,
         Own, Stored, Storing, Unrowed, Keeping, Deleting, NoJob
    <2>2. AcknowledgedFilesStay'
      BY <1>1, <1>2, LocalOf DEF AcknowledgedFilesStay, KeysOfJob, HoldsFiles, TakesAsked,
         Before, Own, Stored, Storing, Unrowed, Keeping, Deleting, NoJob
    <2>3. LogoIsStored'
      BY <1>1, <1>2, LocalOf DEF LogoIsStored, KeysOfJob, HoldsFiles, TakesAsked, Before,
         Own, Stored, Storing, Unrowed, Keeping, Deleting, NoJob
    <2>4. LinkedPdfIsCurrent' /\ PdfOrJob'
      BY <1>1, <1>2, LocalOf DEF LinkedPdfIsCurrent, PdfOrJob, Renders, TakesAsked,
         KeysOfJob, Before, Own, Stored, Storing, Unrowed, Keeping, Deleting, NoJob
    <2> QED BY <2>1, <2>2, <2>3, <2>4 DEF Shared
  <1> QED BY <1>3, <1>4, <1>5, OneRequest
-----------------------------------------------------------------------------
(***************************************************************************)
(* saveInvoice, and the end of the process.                                *)
(***************************************************************************)

LEMMA SaveInvoiceAgrees ==
  ASSUME FilesAgree, TypeOK', SaveInvoice
  PROVE  FilesAgree'
  <1>1. /\ edition' = edition + 1 /\ pdfUrl' = FALSE /\ late' = FALSE
        /\ UNCHANGED <<object, printed, row, logo, logoUrl, job, used, acked, asked, doubt>>
    BY DEF SaveInvoice, tenantVars
  <1>2. \A r \in Requests : Own(r)' = Own(r) /\ Stored(r)' = Stored(r)
    BY <1>1 DEF Own, Stored
  <1>3. KeysApart'
    BY <1>2 DEF FilesAgree, KeysApart
  <1>4. ASSUME NEW r \in Requests PROVE Local(r)'
    <2>1. KeysOfJob(r)' /\ HoldsFiles(r)' /\ TakesAsked(r)'
      BY <1>1, <1>2, LocalOf DEF KeysOfJob, HoldsFiles, TakesAsked
    <2>2. job[r].edition \in Nat /\ edition \in Nat
      BY LocalOf DEF TypeOK, Job
    <2>3. Renders(r)'
      BY <1>1, <2>2, LocalOf DEF Renders
    <2> QED BY <2>1, <2>3 DEF Local
  <1>5. Shared'
    BY <1>1 DEF FilesAgree, Shared, KeysGivenOut, RowsOrJobs, AcknowledgedFilesStay,
       LogoIsStored, LinkedPdfIsCurrent, PdfOrJob
  <1> QED BY <1>3, <1>4, <1>5 DEF FilesAgree

LEMMA CrashAgrees ==
  ASSUME FilesAgree, TypeOK', Crash
  PROVE  FilesAgree'
  <1>1. /\ \A r \in Requests : job'[r] = NoJob
        /\ doubt' = doubt \cup Pending
        /\ UNCHANGED <<object, printed, row, logo, logoUrl, edition, pdfUrl, late, used,
                       acked, asked>>
    BY DEF Crash, tenantVars, invoiceVars
  <1>2. \A r \in Requests : Own(r)' = {} /\ Stored(r)' = {}
    BY <1>1 DEF Own, Stored, Storing, Keeping, Unrowed, NoJob
  <1>3. KeysApart'
    BY <1>2 DEF KeysApart
  <1>4. ASSUME NEW r \in Requests PROVE Local(r)'
    BY <1>1, <1>2 DEF Local, KeysOfJob, HoldsFiles, TakesAsked, Renders, NoJob,
       Unrowed, Keeping, Deleting
  <1>5. Shared'
    <2>1. RowsOrJobs'
      BY <1>1 DEF FilesAgree, Shared, RowsOrJobs, Pending, Unrowed
    <2>2. PdfOrJob'
      <3>1. \A r \in Requests : job[r].step = "pdfLink" => PdfKey \in Pending
        BY LocalOf DEF KeysOfJob, Pending
      <3> QED BY <1>1, <3>1 DEF FilesAgree, Shared, PdfOrJob
    <2> QED
      BY <1>1, <2>1, <2>2 DEF FilesAgree, Shared, KeysGivenOut, AcknowledgedFilesStay,
         LogoIsStored, LinkedPdfIsCurrent
  <1> QED BY <1>3, <1>4, <1>5 DEF FilesAgree

-----------------------------------------------------------------------------
(***************************************************************************)
(* Types.                                                                  *)
(***************************************************************************)
LEMMA JobTypes ==
  ASSUME TypeOK, NEW r \in Requests
  PROVE  /\ NoJob \in Job /\ job[r] \in Job
         /\ \A new \in Job : [job EXCEPT ![r] = new] \in [Requests -> Job]
         /\ \A step \in Steps : Go(r, step) => job' \in [Requests -> Job]
         /\ End(r) => job' \in [Requests -> Job]
  <1>1. NoJob \in Job
    BY DocumentsAssumption DEF NoJob, Job, Steps
  <1>2. job[r] \in Job /\ \A new \in Job : [job EXCEPT ![r] = new] \in [Requests -> Job]
    BY DEF TypeOK
  <1>3. ASSUME NEW step \in Steps, Go(r, step) PROVE job' \in [Requests -> Job]
    <2>1. [job[r] EXCEPT !.step = step] \in Job
      BY <1>2 DEF Job
    <2> QED BY <1>2, <1>3, <2>1 DEF Go, TypeOK
  <1> QED BY <1>1, <1>2, <1>3 DEF End


\* The keys a step may write down are keys.
LEMMA KeysInHand ==
  ASSUME FilesAgree, NEW r \in Requests
  PROVE  /\ TypeOK /\ job[r] \in Job /\ job[r].keys \subseteq Keys
         /\ job[r].step \in Storing => job[r].key \in Keys
         /\ job[r].step \in {"logoLink", "logoReplace", "logoUnrow"} =>
              job[r].old \in Keys \cup {NoKey}
         /\ job[r].step \in Deleting => job[r].key \in AllKeys
  BY LocalOf DEF TypeOK, KeysOfJob, Own, Stored, AllKeys

LEMMA UploadTypes ==
  ASSUME FilesAgree, NEW r \in Requests, UploadNext(r)
  PROVE  TypeOK'
  <1>0. /\ TypeOK /\ job[r] \in Job /\ job[r].keys \subseteq Keys
        /\ job[r].step \in Storing => job[r].key \in Keys
    BY KeysInHand
  <1>1. CASE StartUpload(r)
    <2>1. job' \in [Requests -> Job]
      BY <1>0, <1>1, JobTypes DEF StartUpload, Steps
    <2> QED BY <1>0, <1>1, <2>1 DEF StartUpload, TypeOK, tenantVars, invoiceVars
  <1>2. CASE RefuseFile(r) \/ FinishUpload(r)
    <2>1. job' \in [Requests -> Job]
      BY <1>0, <1>2, JobTypes DEF RefuseFile, FinishUpload, CleanUp, Steps
    <2> QED
      BY <1>0, <1>2, <2>1 DEF RefuseFile, FinishUpload, TypeOK, tenantVars, invoiceVars,
         AllKeys
  <1>5. ASSUME NEW k \in Keys, PutFails(r, k) PROVE TypeOK'
    <2>1. job' \in [Requests -> Job]
      BY <1>0, <1>5, JobTypes DEF PutFails, CleanUp, Steps, TypeOK
    <2> QED BY <1>0, <1>5, <2>1 DEF PutFails, TypeOK, tenantVars, invoiceVars, AllKeys
  <1>6. CASE CleanFile(r)
    <2>1. PICK k \in job[r].keys :
            /\ object' \in {object, object \ {k}}
            /\ IF job[r].keys = {k} THEN End(r) ELSE job' = [job EXCEPT ![r].keys = @ \ {k}]
      BY <1>6 DEF CleanFile
    <2>2. [job[r] EXCEPT !.keys = @ \ {k}] \in Job
      BY <1>0 DEF Job
    <2>3. job' \in [Requests -> Job]
      BY <1>0, <2>1, <2>2, JobTypes DEF TypeOK
    <2> QED BY <1>0, <1>6, <2>1, <2>3 DEF CleanFile, TypeOK, tenantVars, invoiceVars
  <1>7. CASE RowRefused(r)
    <2>1. job[r].key \in Keys
      BY <1>0, <1>7 DEF RowRefused, At, Storing, Keeping, Unrowed
    <2>2. [job[r] EXCEPT !.step = "dropFile", !.keys = {}] \in Job
      BY <1>0 DEF Job, Steps
    <2>3. job' \in [Requests -> Job]
      BY <1>0, <1>7, <2>2 DEF RowRefused, TypeOK
    <2> QED BY <1>0, <1>7, <2>1, <2>3 DEF RowRefused, TypeOK, tenantVars, invoiceVars, AllKeys
  <1>8. CASE DropFile(r)
    <2>1. job' \in [Requests -> Job] /\ job[r].key \in Keys
      BY <1>0, <1>8, JobTypes DEF DropFile, At, Storing
    <2> QED
      BY <1>0, <1>8, <2>1 DEF DropFile, TryDelete, TypeOK, tenantVars, invoiceVars, AllKeys
  <1>3. ASSUME NEW k \in Keys, PutFile(r, k) PROVE TypeOK'
    <2>1. [job[r] EXCEPT !.step = "row", !.key = k] \in Job
      BY <1>0 DEF Job, Steps, AllKeys
    <2>2. job' \in [Requests -> Job]
      BY <1>0, <1>3, <2>1 DEF PutFile, TypeOK
    <2> QED BY <1>0, <1>3, <2>2 DEF PutFile, TypeOK, tenantVars, invoiceVars, AllKeys
  <1>4. CASE InsertRow(r)
    <2>1. job[r].key \in Keys
      BY <1>0, <1>4 DEF InsertRow, At, Storing, Keeping, Unrowed
    <2>2. [job[r] EXCEPT !.step = "next", !.key = NoKey, !.keys = @ \cup {job[r].key}] \in Job
      BY <1>0, <2>1 DEF Job, Steps, AllKeys
    <2>3. job' \in [Requests -> Job]
      BY <1>0, <1>4, <2>2 DEF InsertRow, TypeOK
    <2> QED BY <1>0, <1>4, <2>1, <2>3 DEF InsertRow, TypeOK, tenantVars, invoiceVars, AllKeys
  <1> QED BY <1>1, <1>2, <1>3, <1>4, <1>5, <1>6, <1>7, <1>8, UploadNext(r) DEF UploadNext

LEMMA LogoTypes ==
  ASSUME FilesAgree, NEW r \in Requests, LogoNext(r)
  PROVE  TypeOK'
  <1>0. /\ TypeOK /\ job[r] \in Job
        /\ job[r].step \in Storing => job[r].key \in Keys
        /\ job[r].step \in {"logoLink", "logoReplace", "logoUnrow"} =>
             job[r].old \in Keys \cup {NoKey}
        /\ job[r].step \in Deleting => job[r].key \in AllKeys
    BY KeysInHand
  <1>1. ASSUME NEW k \in Keys, PutLogo(r, k) PROVE TypeOK'
    <2>1. [job[r] EXCEPT !.step = "logoRow", !.key = k] \in Job
      BY <1>0 DEF Job, Steps, AllKeys
    <2>2. job' \in [Requests -> Job]
      BY <1>0, <1>1, <2>1 DEF PutLogo, TypeOK
    <2> QED BY <1>0, <1>1, <2>2 DEF PutLogo, TypeOK, tenantVars, invoiceVars, AllKeys
  <1>2. CASE InsertLogoRow(r)
    <2>1. job' \in [Requests -> Job] /\ job[r].key \in Keys
      BY <1>0, <1>2, JobTypes DEF InsertLogoRow, At, Steps, Storing, Keeping, Unrowed
    <2> QED BY <1>0, <1>2, <2>1 DEF InsertLogoRow, TypeOK, tenantVars, invoiceVars, AllKeys
  <1>3. CASE ReadOldLogo(r)
    <2>1. PICK old \in {logo, NoKey} :
            job' = [job EXCEPT ![r].step = "logoLink", ![r].old = old]
      BY <1>3 DEF ReadOldLogo
    <2>2. [job[r] EXCEPT !.step = "logoLink", !.old = old] \in Job
      BY <1>0 DEF Job, Steps, AllKeys, TypeOK
    <2>3. job' \in [Requests -> Job]
      BY <1>0, <2>1, <2>2 DEF TypeOK
    <2> QED BY <1>0, <1>3, <2>3 DEF ReadOldLogo, TypeOK, tenantVars, invoiceVars
  <1>4. CASE LinkLogo(r)
    <2>1. job' \in [Requests -> Job]
      BY <1>0, <1>4, JobTypes DEF LinkLogo, Steps
    <2>2. job[r].key \in Keys /\ job[r].old \in Keys \cup {NoKey}
      BY <1>0, <1>4 DEF LinkLogo, At, Storing, Keeping
    <2> QED BY <1>0, <1>4, <2>1, <2>2 DEF LinkLogo, TypeOK, invoiceVars, AllKeys
  <1>5. CASE LinkRefused(r)
    <2>1. [job[r] EXCEPT !.step = "unlinkObject", !.old = NoKey] \in Job
      BY <1>0 DEF Job, Steps
    <2>2. job' \in [Requests -> Job]
      BY <1>0, <1>5, <2>1 DEF LinkRefused, TypeOK
    <2>3. job[r].key \in Keys
      BY <1>0, <1>5 DEF LinkRefused, At, Storing, Keeping
    <2> QED BY <1>0, <1>5, <2>2, <2>3 DEF LinkRefused, TypeOK, tenantVars, invoiceVars, AllKeys
  <1>6. CASE DeleteLogoObject(r)
    <2>1. job' \in [Requests -> Job]
      BY <1>0, <1>6, JobTypes DEF DeleteLogoObject, Steps
    <2> QED BY <1>0, <1>6, <2>1 DEF DeleteLogoObject, TypeOK, tenantVars, invoiceVars
  <1>10. CASE UnlinkObject(r)
    <2>1. job' \in [Requests -> Job] /\ job[r].key \in Keys
      BY <1>0, <1>10, JobTypes DEF UnlinkObject, At, Storing, Steps
    <2> QED
      BY <1>0, <1>10, <2>1 DEF UnlinkObject, TryDelete, TypeOK, tenantVars, invoiceVars,
         AllKeys
  <1>11. CASE UnlinkRow(r)
    <2>1. job' \in [Requests -> Job]
      BY <1>0, <1>11, JobTypes DEF UnlinkRow
    <2> QED BY <1>0, <1>11, <2>1 DEF UnlinkRow, DeleteRow, TypeOK, invoiceVars
  <1>12. CASE ReplaceObject(r)
    <2>1. job' \in [Requests -> Job]
      BY <1>0, <1>12, JobTypes DEF ReplaceObject, Steps
    <2>2. job[r].old \in AllKeys
      BY <1>0, <1>12, LocalOf DEF ReplaceObject, At, TakesAsked, AllKeys
    <2> QED
      BY <1>0, <1>12, <2>1, <2>2 DEF ReplaceObject, Replaced, TryDelete, TypeOK, tenantVars,
         invoiceVars
  <1>7. CASE ReplaceRow(r)
    <2>1. job' \in [Requests -> Job] /\ job[r].key \in Keys
      BY <1>0, <1>7, JobTypes DEF ReplaceRow, At, Storing, Keeping
    <2> QED BY <1>0, <1>7, <2>1 DEF ReplaceRow, DeleteRow, TypeOK, invoiceVars, AllKeys
  <1>8. CASE ReadLogo(r)
    <2>1. [job[r] EXCEPT !.step = "unlogoObject", !.key = logo] \in Job
      BY <1>0 DEF Job, Steps, AllKeys, TypeOK
    <2>2. job' \in [Requests -> Job]
      BY <1>0, <1>8, <2>1 DEF ReadLogo, TypeOK
    <2> QED BY <1>0, <1>8, <2>2 DEF ReadLogo, TypeOK, tenantVars, invoiceVars, AllKeys
  <1>9. CASE ClearLogo(r)
    <2>1. job' \in [Requests -> Job]
      BY <1>0, <1>9, JobTypes DEF ClearLogo
    <2> QED BY <1>0, <1>9, <2>1 DEF ClearLogo, TypeOK, tenantVars, invoiceVars
  <1> QED
    BY <1>1, <1>2, <1>3, <1>4, <1>5, <1>6, <1>7, <1>8, <1>9, <1>10, <1>11, <1>12,
       LogoNext(r) DEF LogoNext

LEMMA DeleteTypes ==
  ASSUME FilesAgree, NEW r \in Requests, DeleteNext(r)
  PROVE  TypeOK'
  <1>0. TypeOK /\ job[r] \in Job
    BY KeysInHand
  <1>1. ASSUME NEW k \in AllKeys, ReadFile(r, k) PROVE TypeOK'
    <2>1. [job[r] EXCEPT !.step = "deleteObject", !.key = k] \in Job
      BY <1>0 DEF Job, Steps, AllKeys
    <2>2. job' \in [Requests -> Job]
      BY <1>0, <1>1, <2>1 DEF ReadFile, TypeOK
    <2> QED BY <1>0, <1>1, <2>2 DEF ReadFile, TypeOK, tenantVars, invoiceVars, AllKeys
  <1>2. CASE DeleteObject(r)
    <2>1. job' \in [Requests -> Job]
      BY <1>0, <1>2, JobTypes DEF DeleteObject, Steps
    <2> QED BY <1>0, <1>2, <2>1 DEF DeleteObject, TypeOK, tenantVars, invoiceVars
  <1>4. CASE DeleteFails(r)
    <2>1. job' \in [Requests -> Job]
      BY <1>0, <1>4, JobTypes DEF DeleteFails
    <2> QED BY <1>0, <1>4, <2>1 DEF DeleteFails, TypeOK, tenantVars, invoiceVars
  <1>3. CASE DeleteFileRow(r)
    <2>1. job' \in [Requests -> Job]
      BY <1>0, <1>3, JobTypes DEF DeleteFileRow
    <2> QED BY <1>0, <1>3, <2>1 DEF DeleteFileRow, DeleteRow, TypeOK, invoiceVars
  <1> QED BY <1>1, <1>2, <1>3, <1>4, DeleteNext(r) DEF DeleteNext

LEMMA PdfTypes ==
  ASSUME FilesAgree, NEW r \in Requests, PdfNext(r)
  PROVE  TypeOK'
  <1>0. TypeOK /\ job[r] \in Job /\ 0 .. MaxEdition \subseteq Int
    BY KeysInHand
  <1>1. CASE ReadInvoice(r)
    <2>1. edition \in 0 .. MaxEdition
      BY <1>0, DocumentsAssumption DEF TypeOK
    <2>2. [job[r] EXCEPT !.step = "print", !.key = PdfKey, !.edition = edition] \in Job
      BY <1>0, <2>1 DEF Job, Steps, AllKeys
    <2>3. job' \in [Requests -> Job]
      BY <1>0, <1>1, <2>2 DEF ReadInvoice, TypeOK
    <2> QED BY <1>0, <1>1, <2>3 DEF ReadInvoice, TypeOK, tenantVars, invoiceVars
  <1>2. CASE PrintFails(r)
    <2>1. job' \in [Requests -> Job]
      BY <1>0, <1>2, JobTypes DEF PrintFails
    <2> QED BY <1>0, <1>2, <2>1 DEF PrintFails, TypeOK, tenantVars, invoiceVars
  <1>3. CASE PutPdf(r) \/ PutPdfFails(r)
    <2>1. job' \in [Requests -> Job] /\ doubt' \subseteq AllKeys
      BY <1>0, <1>3, JobTypes DEF PutPdf, PutPdfFails, Steps, TypeOK, AllKeys
    <2>2. job[r].edition \in 0 .. MaxEdition
      BY <1>0 DEF Job
    <2> QED
      BY <1>0, <1>3, <2>1, <2>2 DEF PutPdf, PutPdfFails, StorePdf, TypeOK, tenantVars, AllKeys
  <1>4. CASE LinkPdf(r) \/ LinkPdfFails(r)
    <2>1. job' \in [Requests -> Job]
      BY <1>0, <1>4, JobTypes DEF LinkPdf, LinkPdfFails
    <2> QED
      BY <1>0, <1>4, <2>1 DEF LinkPdf, LinkPdfFails, TypeOK, tenantVars, invoiceVars, AllKeys
  <1> QED BY <1>1, <1>2, <1>3, <1>4, PdfNext(r) DEF PdfNext

-----------------------------------------------------------------------------
(***************************************************************************)
(* The invariant, and the properties it implies.                           *)
(***************************************************************************)

\* No file, no job: what the first state has.
LEMMA FirstFilesAgree == Init => FilesAgree
  <1> SUFFICES ASSUME Init PROVE FilesAgree
    OBVIOUS
  <1>1. TypeOK
    <2>1. NoJob \in Job
      BY DocumentsAssumption DEF NoJob, Job, Steps
    <2>2. job \in [Requests -> Job]
      BY <2>1 DEF Init
    <2>3. 0 \in 0 .. MaxEdition /\ 1 \in 1 .. MaxEdition
      BY DocumentsAssumption
    <2> QED BY <2>2, <2>3 DEF Init, TypeOK
  <1>2. \A r \in Requests : job[r] = NoJob /\ Own(r) = {} /\ Stored(r) = {}
    BY DEF Init, Own, Stored, Storing, Keeping, Unrowed, NoJob
  <1>3. KeysApart
    BY <1>2 DEF KeysApart
  <1>4. ASSUME NEW r \in Requests PROVE Local(r)
    BY <1>2 DEF Local, KeysOfJob, HoldsFiles, TakesAsked, Renders, NoJob, Unrowed, Keeping,
       Deleting
  <1>5. Shared
    BY DocumentsAssumption DEF Init, Shared, KeysGivenOut, RowsOrJobs, AcknowledgedFilesStay,
       LogoIsStored, LinkedPdfIsCurrent, PdfOrJob
  <1> QED BY <1>1, <1>3, <1>4, <1>5 DEF FilesAgree

\* One step of a request, one case per action.
LEMMA RequestAgrees ==
  ASSUME FilesAgree, NEW r \in Requests,
         UploadNext(r) \/ LogoNext(r) \/ DeleteNext(r) \/ PdfNext(r) \/ Leave(r)
  PROVE  FilesAgree'
  <1>1. CASE UploadNext(r)
    <2>1. TypeOK'
      BY <1>1, UploadTypes
    <2> QED
      BY <1>1, <2>1, StartUploadAgrees, RefuseFileAgrees, CleanFileAgrees, InsertRowAgrees,
         RowRefusedAgrees, DropFileAgrees, FinishUploadAgrees, PutFileAgrees,
         PutFailsAgrees DEF UploadNext
  <1>2. CASE LogoNext(r)
    <2>1. TypeOK'
      BY <1>2, LogoTypes
    <2> QED
      BY <1>2, <2>1, PutLogoAgrees, InsertLogoRowAgrees, ReadOldLogoAgrees, LinkLogoAgrees,
         LinkRefusedAgrees, UnlinkObjectAgrees, UnlinkRowAgrees,
         ReplaceObjectAgrees, ReplaceRowAgrees, ReadLogoAgrees,
         DeleteLogoObjectAgrees, ClearLogoAgrees DEF LogoNext
  <1>3. CASE DeleteNext(r)
    <2>1. TypeOK'
      BY <1>3, DeleteTypes
    <2> QED
      BY <1>3, <2>1, ReadFileAgrees, DeleteObjectAgrees, DeleteFailsAgrees,
         DeleteFileRowAgrees DEF DeleteNext
  <1>4. CASE PdfNext(r)
    <2>1. TypeOK'
      BY <1>4, PdfTypes
    <2> QED
      BY <1>4, <2>1, ReadInvoiceAgrees, PrintFailsAgrees, PutPdfAgrees, PutPdfFailsAgrees,
         LinkPdfAgrees, LinkPdfFailsAgrees
         DEF PdfNext
  <1>5. CASE Leave(r)
    <2>1. TypeOK
      BY LocalOf
    <2>2. [job[r] EXCEPT !.gone = TRUE] \in Job
      BY <2>1, JobTypes DEF Job
    <2>3. TypeOK'
      BY <1>5, <2>1, <2>2 DEF Leave, TypeOK, tenantVars, invoiceVars
    <2> QED BY <1>5, <2>3, LeaveAgrees
  <1> QED BY <1>1, <1>2, <1>3, <1>4, <1>5

LEMMA StepAgrees == FilesAgree /\ [Next]_vars => FilesAgree'
  <1> SUFFICES ASSUME FilesAgree, [Next]_vars PROVE FilesAgree'
    OBVIOUS
  <1>0. TypeOK
    BY DEF FilesAgree
  <1>1. CASE \E r \in Requests :
               UploadNext(r) \/ LogoNext(r) \/ DeleteNext(r) \/ PdfNext(r) \/ Leave(r)
    BY <1>1, RequestAgrees
  <1>2. CASE SaveInvoice
    <2>1. edition' \in 1 .. MaxEdition
      BY <1>0, <1>2, DocumentsAssumption DEF SaveInvoice, TypeOK
    <2>2. TypeOK'
      BY <1>0, <1>2, <2>1 DEF SaveInvoice, TypeOK, tenantVars
    <2> QED BY <1>2, <2>2, SaveInvoiceAgrees
  <1>3. CASE Crash
    <2>1. NoJob \in Job
      BY DocumentsAssumption DEF NoJob, Job, Steps
    <2>2. \A r \in Requests : job[r].step \in {"row", "logoRow", "dropFile", "pdfLink"} =>
            job[r].key \in AllKeys
      BY KeysInHand, LocalOf DEF KeysOfJob, Storing, Keeping, Unrowed, AllKeys
    <2>3. Pending \subseteq AllKeys
      BY <2>2 DEF Pending
    <2>4. TypeOK'
      BY <1>0, <1>3, <2>1, <2>3 DEF Crash, TypeOK, tenantVars, invoiceVars
    <2> QED BY <1>3, <2>4, CrashAgrees
  <1>4. CASE UNCHANGED vars
    <2>1. /\ TypeOK' /\ KeysApart' /\ Shared'
          /\ \A r \in Requests : Local(r)'
      BY <1>4 DEF FilesAgree, vars, tenantVars, invoiceVars, TypeOK, KeysApart, Own, Stored,
         Shared, KeysGivenOut, RowsOrJobs, AcknowledgedFilesStay, LogoIsStored,
         LinkedPdfIsCurrent, PdfOrJob, Local, KeysOfJob, HoldsFiles,
         TakesAsked, Renders
    <2> QED BY <2>1 DEF FilesAgree
  <1> QED BY <1>1, <1>2, <1>3, <1>4 DEF Next

THEOREM FilesAlwaysAgree == Spec => []FilesAgree
  BY FirstFilesAgree, StepAgrees, PTL DEF Spec

\* A file that was acknowledged is there, object and row, until its deletion or
\* its replacement is asked for.
THEOREM AcknowledgedFilesAlwaysStay == Spec => []AcknowledgedFilesStay
  <1>1. FilesAgree => AcknowledgedFilesStay
    BY DEF FilesAgree, Shared
  <1> QED BY <1>1, FilesAlwaysAgree, PTL

\* An object without a row is one that a request is at, or that a call which reported
\* an error, or a crash, has left behind.
THEOREM ObjectsAreAlwaysKnown == Spec => []ObjectsAreKnown
  <1>1. ASSUME FilesAgree PROVE ObjectsAreKnown
    <2>1. RowsOrJobs
      BY <1>1 DEF FilesAgree, Shared
    <2> QED BY <2>1 DEF RowsOrJobs, ObjectsAreKnown, Pending, Unrowed
  <1> QED BY <1>1, FilesAlwaysAgree, PTL

\* The logo a tenant shows is stored and linked, or its deletion was asked for, or it
\* was linked by an UPDATE that reported an error.
THEOREM LogoIsAlwaysStored == Spec => []LogoIsStored
  <1>1. FilesAgree => LogoIsStored
    BY DEF FilesAgree, Shared
  <1> QED BY <1>1, FilesAlwaysAgree, PTL

\* A linked PDF shows the present lines of the invoice, unless a render of older
\* ones was late.
THEOREM LinkedPdfIsAlwaysCurrent == Spec => []LinkedPdfIsCurrent
  <1>1. FilesAgree => LinkedPdfIsCurrent
    BY DEF FilesAgree, Shared
  <1> QED BY <1>1, FilesAlwaysAgree, PTL

\* A stored PDF has its row, or a request is about to write it, whatever its client
\* does; what is left out are the errors, the crashes and the deletion that doubt and
\* asked tell.
THEOREM StoredPdfIsAlwaysRecorded == Spec => []StoredPdfIsRecorded
  <1>1. ASSUME FilesAgree PROVE StoredPdfIsRecorded
    <2>1. \A r \in Requests : job[r].step = "pdfLink" => PdfKey \in Pending
      BY <1>1, LocalOf DEF KeysOfJob, Pending
    <2>2. PdfOrJob
      BY <1>1 DEF FilesAgree, Shared
    <2> QED BY <2>1, <2>2 DEF PdfOrJob, StoredPdfIsRecorded
  <1> QED BY <1>1, FilesAlwaysAgree, PTL
=============================================================================
