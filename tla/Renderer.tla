------------------------------ MODULE Renderer ------------------------------
(***************************************************************************)
(* The headless Chromium of one process (internal/documents/renderer.go)   *)
(* and how the requests for invoice PDFs come by it (documentRenderer and  *)
(* New in internal/server/router.go): an eager start that may fail, and    *)
(* one retry under a sync.Once for whoever asks first.                     *)
(***************************************************************************)
EXTENDS Integers

CONSTANTS PdfRequests   \* POST /invoices/:id/pdf requests being served

VARIABLES
  installed,   \* there is a Chromium that starts
  up,          \* New has returned
  docs,        \* a.docs: "none", or a browser that is "ready" or "dead"
  once,        \* a.docsOnce: "new", "running", "done"
  docsErr,     \* a.docsErr # nil
  browsers,    \* Chromium processes this process has running
  request      \* where each PDF request is

rendererVars == <<installed, up, docs, once, docsErr, browsers, request>>

Steps == {"idle", "asking", "launching", "waiting", "rendering"}

Init ==
  /\ installed \in BOOLEAN
  /\ up = FALSE /\ docs = "none" /\ once = "new" /\ docsErr = FALSE
  /\ browsers = 0
  /\ request = [q \in PdfRequests |-> "idle"]

At(q, step) == request[q] = step
Go(q, step) == request' = [request EXCEPT ![q] = step]

\* Chromium answers, or after renderTimeout it is given up and killed.
NewRenderer(ok) == ok => installed

\* New: the eager start, which may fail.
Boot ==
  /\ ~up /\ up' = TRUE
  /\ \E ok \in BOOLEAN :
       /\ NewRenderer(ok)
       /\ docs' = IF ok THEN "ready" ELSE docs
       /\ browsers' = IF ok THEN browsers + 1 ELSE browsers
  /\ UNCHANGED <<installed, once, docsErr, request>>

Ask(q) ==
  /\ up /\ At(q, "idle")
  /\ Go(q, "asking")
  /\ UNCHANGED <<installed, up, docs, once, docsErr, browsers>>

\* documentRenderer reads a.docs without a lock.
FindRenderer(q) ==
  /\ At(q, "asking") /\ docs # "none"
  /\ Go(q, "rendering")
  /\ UNCHANGED <<installed, up, docs, once, docsErr, browsers>>

\* Mutant: whoever finds no renderer starts one.
First_Anyone == TRUE

\* docsOnce.Do runs its function for the first caller.
First == once = "new"

BecomeFirst(q) ==
  /\ At(q, "asking") /\ docs = "none" /\ First
  /\ once' = "running"
  /\ Go(q, "launching")
  /\ UNCHANGED <<installed, up, docs, docsErr, browsers>>

\* The other callers block until it has returned.
Wait(q) ==
  /\ At(q, "asking") /\ docs = "none" /\ ~First
  /\ Go(q, "waiting")
  /\ UNCHANGED <<installed, up, docs, once, docsErr, browsers>>

\* The function of docsOnce: an error stays for the life of the process (503).
Launch(q) ==
  /\ At(q, "launching")
  /\ \E ok \in BOOLEAN :
       /\ NewRenderer(ok)
       /\ docs' = IF ok THEN "ready" ELSE "none"
       /\ docsErr' = ~ok
       /\ browsers' = IF ok THEN browsers + 1 ELSE browsers
       /\ Go(q, IF ok THEN "rendering" ELSE "idle")
  /\ once' = "done"
  /\ UNCHANGED <<installed, up>>

WaitOver(q) ==
  /\ At(q, "waiting") /\ once = "done"
  /\ Go(q, IF docsErr THEN "idle" ELSE "rendering")
  /\ UNCHANGED <<installed, up, docs, once, docsErr, browsers>>

\* Mutant: RenderPDF without its timeout; a browser that is gone never answers.
Render_Unbounded(q) ==
  /\ At(q, "rendering") /\ docs = "ready"
  /\ Go(q, "idle")
  /\ UNCHANGED <<installed, up, docs, once, docsErr, browsers>>

\* RenderPDF, in a tab of its own: a document or an error within renderTimeout.
Render(q) ==
  /\ At(q, "rendering")
  /\ Go(q, "idle")
  /\ UNCHANGED <<installed, up, docs, once, docsErr, browsers>>

\* a.docs keeps pointing at the browser that is gone: every render fails (502).
BrowserDies ==
  /\ docs = "ready"
  /\ docs' = "dead" /\ browsers' = browsers - 1
  /\ UNCHANGED <<installed, up, once, docsErr, request>>

Install ==
  /\ ~installed /\ installed' = TRUE
  /\ UNCHANGED <<up, docs, once, docsErr, browsers, request>>

\* The operating system ends the browsers with the process.
Restart ==
  /\ up
  /\ up' = FALSE /\ docs' = "none" /\ once' = "new" /\ docsErr' = FALSE
  /\ browsers' = 0
  /\ request' = [q \in PdfRequests |-> "idle"]
  /\ UNCHANGED installed

Serve(q) ==
  FindRenderer(q) \/ BecomeFirst(q) \/ Wait(q) \/ Launch(q) \/ WaitOver(q) \/ Render(q)

Next ==
  \/ Boot \/ BrowserDies \/ Install \/ Restart
  \/ \E q \in PdfRequests : Ask(q) \/ Serve(q)

-----------------------------------------------------------------------------
\* "It never spawns more than one Chromium instance for the process lifetime"
\* (router.go:45), however many requests find none at the same time.
OneChromium == browsers <= 1

\* Every PDF request is answered: nobody waits for ever for a start of Chromium that
\* failed, whoever tried it.
PdfRequestsEnd == \A q \in PdfRequests : ~At(q, "idle") ~> At(q, "idle")
=============================================================================
