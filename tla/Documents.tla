----------------------------- MODULE Documents -----------------------------
(***************************************************************************)
(* Files of one tenant (internal/server/files.go, storage/r2.go): the      *)
(* objects in R2, the rows of file_objects, the logo of the tenant and the *)
(* PDF of one invoice (invoice_pdf.go).                                    *)
(*                                                                         *)
(* R2 and MySQL share no transaction, so every call to either is a step,   *)
(* cleanup included, and other requests run between two steps.  A call     *)
(* takes effect or not, and apart from that reports success or an error:   *)
(* an error may follow a call that was done.  Of a client that has gone    *)
(* away the context is cancelled: no call in it reports success any more.  *)
(***************************************************************************)
EXTENDS Integers, FiniteSets

CONSTANTS
  Keys,        \* object keys rand.Read may return
  PdfKey,      \* tenants/%d/invoices/%d/invoice.pdf
  NoKey,
  Requests,    \* requests being served
  MaxFiles,    \* 20 files per request
  MaxEdition   \* bound of the model: no more editions of the invoice's lines

ASSUME DocumentsAssumption ==
  /\ PdfKey \notin Keys /\ NoKey \notin Keys \cup {PdfKey}
  /\ MaxFiles \in Nat \ {0} /\ MaxEdition \in Nat \ {0}

VARIABLES
  object,      \* keys of the bucket
  printed,     \* the edition the object at PdfKey shows
  row,         \* object_key of the rows of file_objects
  logo,        \* tenants.logo_file_id, as the key of that row
  logoUrl,     \* tenants.logo_url, as the key it was made from
  edition,     \* edition of the invoice's lines
  pdfUrl,      \* invoices.pdf_url is set
  job,         \* what each request is doing
  used,        \* keys given out so far
  acked,       \* keys a 201 has named
  asked,       \* keys whose deletion or replacement was asked for
  late,        \* since the last edit, a render of older lines was stored
  doubt        \* keys an error or a crash has left in doubt, and nobody looks after

invoiceVars == <<edition, pdfUrl, late>>
tenantVars == <<logo, logoUrl>>
vars == <<object, printed, row, tenantVars, invoiceVars, job, used, acked, asked, doubt>>

AllKeys == Keys \cup {PdfKey}
Steps == {"idle", "next", "row", "clean", "dropFile", "logoRow", "logoRead", "logoLink",
          "unlinkObject", "unlinkRow", "logoReplace", "logoUnrow", "unlogoObject",
          "unlogoClear", "deleteObject", "deleteRow", "print", "pdfLink"}

\* keys: files of this upload that have a row; key: the one at hand; old: the
\* previous logo; edition: of the lines a render has read; gone: its client is.
Job == [step : Steps, keys : SUBSET Keys, key : AllKeys \cup {NoKey},
        old : AllKeys \cup {NoKey}, edition : 0 .. MaxEdition,
        gone : BOOLEAN]

TypeOK ==
  /\ object \in SUBSET AllKeys /\ row \in SUBSET AllKeys
  /\ printed \in 0 .. MaxEdition /\ edition \in 1 .. MaxEdition
  /\ logo \in Keys \cup {NoKey} /\ logoUrl \in Keys \cup {NoKey}
  /\ pdfUrl \in BOOLEAN /\ late \in BOOLEAN
  /\ job \in [Requests -> Job]
  /\ used \in SUBSET Keys
  /\ acked \in SUBSET AllKeys /\ asked \in SUBSET AllKeys
  /\ doubt \in SUBSET AllKeys

NoJob == [step |-> "idle", keys |-> {}, key |-> NoKey, old |-> NoKey, edition |-> 0,
          gone |-> FALSE]

Init ==
  /\ object = {} /\ printed = 0 /\ row = {}
  /\ logo = NoKey /\ logoUrl = NoKey
  /\ edition = 1 /\ pdfUrl = FALSE /\ late = FALSE
  /\ job = [r \in Requests |-> NoJob]
  /\ used = {} /\ acked = {} /\ asked = {} /\ doubt = {}

-----------------------------------------------------------------------------
At(r, step) == job[r].step = step
Go(r, step) == job' = [job EXCEPT ![r].step = step]
End(r) == job' = [job EXCEPT ![r] = NoJob]

\* A call in the context of the request may still report success.
Succeeds(r) == ~job[r].gone

\* Mutant: the key is made from the file's name.
Fresh_ByName(k) == TRUE

\* uploadKey: 16 random bytes.
Fresh(k) == k \notin used

\* A row goes; the foreign key of tenants sets logo_file_id to NULL.
DeleteRow(k) ==
  /\ row' = row \ {k}
  /\ logo' = IF logo = k THEN NoKey ELSE logo

\* A Delete whose error is ignored: done, or the object stays and nobody comes back.
TryDelete(k) ==
  \/ object' = object \ {k} /\ UNCHANGED doubt
  \/ doubt' = doubt \cup {k} /\ UNCHANGED object

-----------------------------------------------------------------------------
(***************************************************************************)
(* upload, of one or of several files.                                     *)
(***************************************************************************)
StartUpload(r) ==
  /\ At(r, "idle")
  /\ Go(r, "next")
  /\ UNCHANGED <<object, printed, row, tenantVars, invoiceVars, used, acked, asked, doubt>>

\* The next file is stored under a new key.
PutFile(r, k) ==
  /\ At(r, "next") /\ Cardinality(job[r].keys) < MaxFiles /\ Fresh(k) /\ Succeeds(r)
  /\ object' = object \cup {k}
  /\ used' = used \cup {k}
  /\ job' = [job EXCEPT ![r].step = "row", ![r].key = k]
  /\ UNCHANGED <<printed, row, tenantVars, invoiceVars, acked, asked, doubt>>

CleanUp(r) == IF job[r].keys = {} THEN End(r) ELSE Go(r, "clean")

\* The next file is stored, and Put or the Close after it reports an error all the
\* same, or so does the Put of uploadLogo: nobody deletes this object.
PutFails(r, k) ==
  /\ \/ At(r, "next") /\ Cardinality(job[r].keys) < MaxFiles /\ CleanUp(r)
     \/ At(r, "idle") /\ UNCHANGED job
  /\ Fresh(k)
  /\ object' = object \cup {k}
  /\ used' = used \cup {k}
  /\ doubt' = doubt \cup {k}
  /\ UNCHANGED <<printed, row, tenantVars, invoiceVars, acked, asked>>

\* The next file has a wrong size or type, cannot be opened, or R2 refuses it.
RefuseFile(r) ==
  /\ At(r, "next") /\ Cardinality(job[r].keys) < MaxFiles
  /\ CleanUp(r)
  /\ UNCHANGED <<object, printed, row, tenantVars, invoiceVars, used, acked, asked, doubt>>

\* cleanup deletes the objects of the files before it, as far as R2 lets it, and the
\* answer is 400, 415 or 502.  Their rows stay.
CleanFile(r) ==
  /\ At(r, "clean")
  /\ \E k \in job[r].keys :
       /\ object' \in {object, object \ {k}}
       /\ IF job[r].keys = {k} THEN End(r) ELSE job' = [job EXCEPT ![r].keys = @ \ {k}]
  /\ UNCHANGED <<printed, row, tenantVars, invoiceVars, used, acked, asked, doubt>>

InsertRow(r) ==
  /\ At(r, "row") /\ job[r].key \notin row /\ Succeeds(r)
  /\ row' = row \cup {job[r].key}
  /\ job' = [job EXCEPT ![r].step = "next", ![r].key = NoKey,
                        ![r].keys = @ \cup {job[r].key}]
  /\ UNCHANGED <<object, printed, tenantVars, invoiceVars, used, acked, asked, doubt>>

\* Mutant: the object of the refused row is left behind.
RowRefused_KeepsObject(r) ==
  /\ At(r, "row") \/ At(r, "logoRow")
  /\ End(r)
  /\ UNCHANGED <<object, printed, row, tenantVars, invoiceVars, used, acked, asked, doubt>>

\* The row is refused (a name of more than 255 characters, a key that is there) or
\* MySQL fails, possibly after it has written the row.
RowRefused(r) ==
  /\ At(r, "row") \/ At(r, "logoRow")
  /\ row' \in {row, row \cup {job[r].key}}
  /\ job' = [job EXCEPT ![r].step = "dropFile", ![r].keys = {}]
  /\ UNCHANGED <<object, printed, tenantVars, invoiceVars, used, acked, asked, doubt>>

\* The object of this file goes; those of the files before it stay.
DropFile(r) ==
  /\ At(r, "dropFile")
  /\ TryDelete(job[r].key)
  /\ End(r)
  /\ UNCHANGED <<printed, row, tenantVars, invoiceVars, used, acked, asked>>

\* 201.
FinishUpload(r) ==
  /\ At(r, "next") /\ job[r].keys # {}
  /\ acked' = acked \cup job[r].keys
  /\ End(r)
  /\ UNCHANGED <<object, printed, row, tenantVars, invoiceVars, used, asked, doubt>>

UploadNext(r) ==
  \/ StartUpload(r) \/ RefuseFile(r) \/ CleanFile(r)
  \/ InsertRow(r) \/ RowRefused(r) \/ DropFile(r) \/ FinishUpload(r)
  \/ \E k \in Keys : PutFile(r, k) \/ PutFails(r, k)

-----------------------------------------------------------------------------
(***************************************************************************)
(* uploadLogo.                                                             *)
(***************************************************************************)
PutLogo(r, k) ==
  /\ At(r, "idle") /\ Fresh(k)
  /\ object' = object \cup {k}
  /\ used' = used \cup {k}
  /\ job' = [job EXCEPT ![r].step = "logoRow", ![r].key = k]
  /\ UNCHANGED <<printed, row, tenantVars, invoiceVars, acked, asked, doubt>>

InsertLogoRow(r) ==
  /\ At(r, "logoRow") /\ job[r].key \notin row /\ Succeeds(r)
  /\ row' = row \cup {job[r].key}
  /\ Go(r, "logoRead")
  /\ UNCHANGED <<object, printed, tenantVars, invoiceVars, used, acked, asked, doubt>>

\* The key of the present logo; an error reads as none.
ReadOldLogo(r) ==
  /\ At(r, "logoRead")
  /\ \E old \in {NoKey} \cup (IF Succeeds(r) THEN {logo} ELSE {}) :
       job' = [job EXCEPT ![r].step = "logoLink", ![r].old = old]
  /\ UNCHANGED <<object, printed, row, tenantVars, invoiceVars, used, acked, asked, doubt>>

\* The foreign key wants the row; there was a previous logo or there was none.
LinkLogo(r) ==
  LET k == job[r].key
  IN  /\ At(r, "logoLink") /\ k \in row /\ Succeeds(r)
      /\ logo' = k /\ logoUrl' = k
      /\ IF job[r].old = NoKey
         THEN End(r) /\ acked' = acked \cup {k} /\ UNCHANGED asked
         ELSE Go(r, "logoReplace") /\ asked' = asked \cup {job[r].old} /\ UNCHANGED acked
      /\ UNCHANGED <<object, printed, row, invoiceVars, used, doubt>>

\* Someone deleted the row, or the UPDATE reports another error, possibly after it
\* was done.
LinkRefused(r) ==
  LET k == job[r].key
  IN  /\ At(r, "logoLink")
      /\ \/ UNCHANGED <<tenantVars, doubt>>
         \/ k \in row /\ logo' = k /\ logoUrl' = k /\ doubt' = doubt \cup {k}
      /\ job' = [job EXCEPT ![r].step = "unlinkObject", ![r].old = NoKey]
      /\ UNCHANGED <<object, printed, row, invoiceVars, used, acked, asked>>

\* The object of this file goes, then its row.
UnlinkObject(r) ==
  /\ At(r, "unlinkObject")
  /\ TryDelete(job[r].key)
  /\ Go(r, "unlinkRow")
  /\ UNCHANGED <<printed, row, tenantVars, invoiceVars, used, acked, asked>>

UnlinkRow(r) ==
  /\ At(r, "unlinkRow")
  /\ DeleteRow(job[r].key) \/ UNCHANGED <<row, logo>>
  /\ End(r)
  /\ UNCHANGED <<object, printed, logoUrl, invoiceVars, used, acked, asked, doubt>>

\* Mutant: the previous logo is read after the new one was linked.
Replaced_ReadLate(r) == logo

Replaced(r) == job[r].old

\* The previous file goes, object and row, as far as R2 and MySQL let it.
ReplaceObject(r) ==
  /\ At(r, "logoReplace")
  /\ TryDelete(Replaced(r))
  /\ Go(r, "logoUnrow")
  /\ UNCHANGED <<printed, row, tenantVars, invoiceVars, used, acked, asked>>

\* 201, whatever became of the previous file.
ReplaceRow(r) ==
  /\ At(r, "logoUnrow")
  /\ DeleteRow(Replaced(r)) \/ UNCHANGED <<row, logo>>
  /\ acked' = acked \cup {job[r].key}
  /\ End(r)
  /\ UNCHANGED <<object, printed, logoUrl, invoiceVars, used, asked, doubt>>

(***************************************************************************)
(* deleteLogo: by the key it has read, then whatever the logo is by then.  *)
(***************************************************************************)
ReadLogo(r) ==
  /\ At(r, "idle") /\ logo # NoKey
  /\ job' = [job EXCEPT ![r].step = "unlogoObject", ![r].key = logo]
  /\ asked' = asked \cup {logo}
  /\ UNCHANGED <<object, printed, row, tenantVars, invoiceVars, used, acked, doubt>>

DeleteLogoObject(r) ==
  /\ At(r, "unlogoObject") /\ Succeeds(r)
  /\ object' = object \ {job[r].key}
  /\ Go(r, "unlogoClear")
  /\ UNCHANGED <<printed, row, tenantVars, invoiceVars, used, acked, asked, doubt>>

\* 204, or 500 after an error.  The row of file_objects stays.
ClearLogo(r) ==
  /\ At(r, "unlogoClear")
  /\ \/ logo' = NoKey /\ logoUrl' = NoKey
     \/ UNCHANGED tenantVars
  /\ End(r)
  /\ UNCHANGED <<object, printed, row, invoiceVars, used, acked, asked, doubt>>

LogoNext(r) ==
  \/ \E k \in Keys : PutLogo(r, k)
  \/ InsertLogoRow(r) \/ ReadOldLogo(r) \/ LinkLogo(r)
  \/ LinkRefused(r) \/ UnlinkObject(r) \/ UnlinkRow(r)
  \/ ReplaceObject(r) \/ ReplaceRow(r)
  \/ ReadLogo(r) \/ DeleteLogoObject(r) \/ ClearLogo(r)

-----------------------------------------------------------------------------
(***************************************************************************)
(* deleteFile, of any row of the tenant: the object first, then the row.   *)
(***************************************************************************)
ReadFile(r, k) ==
  /\ At(r, "idle") /\ k \in row
  /\ job' = [job EXCEPT ![r].step = "deleteObject", ![r].key = k]
  /\ asked' = asked \cup {k}
  /\ UNCHANGED <<object, printed, row, tenantVars, invoiceVars, used, acked, doubt>>

DeleteObject(r) ==
  /\ At(r, "deleteObject") /\ Succeeds(r)
  /\ object' = object \ {job[r].key}
  /\ Go(r, "deleteRow")
  /\ UNCHANGED <<printed, row, tenantVars, invoiceVars, used, acked, asked, doubt>>

\* 502 of deleteFile or deleteLogo: the Delete reports an error, done or not.
DeleteFails(r) ==
  /\ At(r, "deleteObject") \/ At(r, "unlogoObject")
  /\ object' \in {object, object \ {job[r].key}}
  /\ End(r)
  /\ UNCHANGED <<printed, row, tenantVars, invoiceVars, used, acked, asked, doubt>>

\* 204, or 500 after an error.  logo_url and pdf_url keep what they had.
DeleteFileRow(r) ==
  /\ At(r, "deleteRow")
  /\ DeleteRow(job[r].key) \/ UNCHANGED <<row, logo>>
  /\ End(r)
  /\ UNCHANGED <<object, printed, logoUrl, invoiceVars, used, acked, asked, doubt>>

DeleteNext(r) ==
  \/ \E k \in AllKeys : ReadFile(r, k)
  \/ DeleteObject(r) \/ DeleteFails(r) \/ DeleteFileRow(r)

-----------------------------------------------------------------------------
(***************************************************************************)
(* invoicePDF, beside saveInvoice.                                         *)
(***************************************************************************)
\* The read transaction; Chromium prints what it found.
ReadInvoice(r) ==
  /\ At(r, "idle")
  /\ job' = [job EXCEPT ![r].step = "print", ![r].key = PdfKey, ![r].edition = edition]
  /\ UNCHANGED <<object, printed, row, tenantVars, invoiceVars, used, acked, asked, doubt>>

\* The printing fails, or R2 does before it has the object: 502.
PrintFails(r) ==
  /\ At(r, "print")
  /\ End(r)
  /\ UNCHANGED <<object, printed, row, tenantVars, invoiceVars, used, acked, asked, doubt>>

\* The object of an earlier render, if any, is overwritten.
StorePdf(r) ==
  /\ At(r, "print")
  /\ object' = object \cup {PdfKey}
  /\ printed' = job[r].edition
  /\ late' = (late \/ job[r].edition < edition)
  /\ UNCHANGED <<row, tenantVars, edition, pdfUrl, used, acked, asked>>

PutPdf(r) == StorePdf(r) /\ Succeeds(r) /\ Go(r, "pdfLink") /\ UNCHANGED doubt

\* Stored, and Put reports an error all the same: 502.
PutPdfFails(r) == StorePdf(r) /\ End(r) /\ doubt' = doubt \cup {PdfKey}

\* The metadata transaction, in a context of its own, is committed, whatever it
\* reports; the row is there already after an earlier render.
LinkPdf(r) ==
  /\ At(r, "pdfLink")
  /\ row' = row \cup {PdfKey}
  /\ pdfUrl' = TRUE
  /\ late' = (late \/ job[r].edition < edition)
  /\ doubt' = doubt \ {PdfKey}
  /\ End(r)
  /\ UNCHANGED <<object, printed, tenantVars, edition, used, acked, asked>>

\* Mutant: the metadata transaction runs in the context of the request.
LinkPdfFails_InRequest(r) ==
  /\ At(r, "pdfLink") /\ ~Succeeds(r)
  /\ End(r)
  /\ UNCHANGED <<object, printed, row, tenantVars, invoiceVars, used, acked, asked, doubt>>

\* MySQL refuses it, or its ten seconds are over: it is rolled back.
LinkPdfFails(r) ==
  /\ At(r, "pdfLink")
  /\ doubt' = doubt \cup {PdfKey}
  /\ End(r)
  /\ UNCHANGED <<object, printed, row, tenantVars, invoiceVars, used, acked, asked>>

\* Mutant: the edit leaves the link.
SaveInvoice_KeepsPdf ==
  /\ edition < MaxEdition
  /\ edition' = edition + 1
  /\ late' = FALSE
  /\ UNCHANGED <<object, printed, row, tenantVars, pdfUrl, job, used, acked, asked, doubt>>

\* New lines, and the link to the PDF of the old ones goes.
SaveInvoice ==
  /\ edition < MaxEdition
  /\ edition' = edition + 1
  /\ pdfUrl' = FALSE
  /\ late' = FALSE
  /\ UNCHANGED <<object, printed, row, tenantVars, job, used, acked, asked, doubt>>

PdfNext(r) ==
  \/ ReadInvoice(r) \/ PrintFails(r) \/ PutPdf(r) \/ PutPdfFails(r)
  \/ LinkPdf(r) \/ LinkPdfFails(r)

-----------------------------------------------------------------------------
\* The client goes away; the handler runs on with a cancelled context.
Leave(r) ==
  /\ ~At(r, "idle")
  /\ job' = [job EXCEPT ![r].gone = TRUE]
  /\ UNCHANGED <<object, printed, row, tenantVars, invoiceVars, used, acked, asked, doubt>>

\* The files that are stored and of which MySQL has not been told, or has refused to
\* know: whoever works at them is to write the row or to delete the object.
Pending ==
  {job[r].key : r \in {q \in Requests : job[q].step \in {"row", "logoRow", "dropFile", "pdfLink"}}}

Crash ==
  /\ job' = [r \in Requests |-> NoJob]
  /\ doubt' = doubt \cup Pending
  /\ UNCHANGED <<object, printed, row, tenantVars, invoiceVars, used, acked, asked>>

Next ==
  \/ \E r \in Requests : UploadNext(r) \/ LogoNext(r) \/ DeleteNext(r) \/ PdfNext(r) \/ Leave(r)
  \/ SaveInvoice
  \/ Crash

Spec == Init /\ [][Next]_vars

-----------------------------------------------------------------------------
\* A file a 201 has named is there, object and row, until somebody asks for its
\* deletion or for another logo, whatever else fails, is left alone or cleans up.
AcknowledgedFilesStay == acked \ asked \subseteq object \cap row

\* "Upload failures clean up objects" (docs/commerce-api.md:125): an object without a
\* row is one a request is still to see to, or is in doubt: its Put or Close reported
\* an error after it was stored, a Delete of it failed whose error the handler ignores
\* (files.go:69, 79, 85, 194), or the process died while it was pending.  No refusal,
\* no lost race and no answer whose calls all went well leaves any other.
ObjectsAreKnown == (object \cap Keys) \ (Pending \cup doubt) \subseteq row

\* The logo the tenant shows is a stored file with a row, and the one its foreign
\* key names, unless that very file was deleted, or it was linked by an UPDATE that
\* reported an error, after which uploadLogo takes the file away: a replacement takes
\* the previous file and never the new one.
LogoIsStored ==
  logoUrl \in Keys \ (asked \cup doubt) => logoUrl \in object \cap row /\ logo = logoUrl

\* "The stored PDF shows the old lines, so drop it" (invoices.go:319): a linked PDF
\* that is still there shows the present lines, but for renders that had read older
\* lines and were stored or linked after the edit.
LinkedPdfIsCurrent ==
  pdfUrl /\ PdfKey \in object /\ ~late => printed = edition

\* "Finish the metadata transaction even if the download request is cancelled"
\* (invoice_pdf.go:103): a stored PDF has its row, or a request is about to write it,
\* even if the client leaves as soon as it is stored.  What is left out: the deletion
\* of the PDF as a file, a Put that stores it and reports an error, and a metadata
\* transaction that MySQL or its own timeout ends, or a crash, unless a later render
\* was recorded.
StoredPdfIsRecorded ==
  PdfKey \in object \ (asked \cup doubt) => PdfKey \in row \cup Pending
=============================================================================
