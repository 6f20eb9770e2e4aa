------------------------------- MODULE Platform -------------------------------
(***************************************************************************)
(* The parts of the server beside its tables of business: the login        *)
(* limiter, the contact lines, the migrations, the Chromium that prints,   *)
(* and the arithmetic of a line.  They share no state and never wait for   *)
(* one another, so a step of one leaves what is said of the others as it   *)
(* is: a behaviour of the module is a behaviour of one part, and the       *)
(* others rest in an initial state.                                        *)
(***************************************************************************)
EXTENDS Integers, Sequences

CONSTANTS
  Addresses, Limit, Window,                                        \* LoginLimiter
  ContactIds, Creates, MinSort, MaxSort,                           \* Contacts
  Processes, Script, Releases, Taken, NoProcess, MaxStops,         \* Migrations
  PdfRequests,                                                     \* Renderer
  MaxPrice, MaxQuantity, MaxTotal, Word                            \* LineTotals

VARIABLES
  part,                                                            \* the part that runs
  bucket, admitted,
  contact, create,
  schema, stock, movements, recorded, owned, holder, process, stops,
  installed, up, docs, once, docsErr, browsers, request,
  line                                                             \* the line to be priced

limiterVars == <<bucket, admitted>>
contactVars == <<contact, create>>
schemaVars  == <<schema, stock, movements, recorded, owned, holder, process, stops>>
chromiumVars == <<installed, up, docs, once, docsErr, browsers, request>>
vars == <<part, limiterVars, contactVars, schemaVars, chromiumVars, line>>

Limiter  == INSTANCE LoginLimiter
Lines    == INSTANCE Contacts
Schema   == INSTANCE Migrations
Chromium == INSTANCE Renderer
Total    == INSTANCE LineTotals

ASSUME PlatformAssumption ==
  /\ Limit \in Nat \ {0} /\ Window \in Nat \ {0}
  /\ ContactIds \subseteq Nat /\ MinSort \in Int /\ MinSort <= 0 /\ MaxSort \in Nat
  /\ NoProcess \notin Processes /\ Taken \in Nat
  /\ Releases \subseteq 0 .. Len(Script) /\ Schema!ScriptRuns
  /\ MaxPrice \in Nat /\ MaxQuantity \in Nat /\ MaxTotal \in Nat /\ Word \in Nat
  /\ MaxTotal < Word

Parts == {"limiter", "contacts", "migrations", "renderer", "totals"}

InputLines ==
  [price : 0 .. MaxPrice, units : 1 .. MaxQuantity, packs : 1 .. MaxQuantity]

Init ==
  /\ part \in Parts
  /\ Limiter!Init /\ Lines!Init /\ Schema!Init /\ Chromium!Init /\ line \in InputLines
  /\ part # "migrations" => recorded = {} /\ owned
  /\ part # "renderer" => installed
  /\ part # "totals" => line = [price |-> 0, units |-> 1, packs |-> 1]

\* What each part leaves alone.
LimiterOnly  == UNCHANGED <<part, contactVars, schemaVars, chromiumVars, line>>
ContactsOnly == UNCHANGED <<part, limiterVars, schemaVars, chromiumVars, line>>
SchemaOnly   == UNCHANGED <<part, limiterVars, contactVars, chromiumVars, line>>
RendererOnly == UNCHANGED <<part, limiterVars, contactVars, schemaVars, line>>

Tick       == part = "limiter"    /\ Limiter!Tick      /\ LimiterOnly
Proceed(p) == part = "migrations" /\ Schema!Proceed(p) /\ SchemaOnly
Serve(q)   == part = "renderer"   /\ Chromium!Serve(q) /\ RendererOnly

Next ==
  \/ part = "limiter"    /\ Limiter!Next  /\ LimiterOnly
  \/ part = "contacts"   /\ Lines!Next    /\ ContactsOnly
  \/ part = "migrations" /\ Schema!Next   /\ SchemaOnly
  \/ part = "renderer"   /\ Chromium!Next /\ RendererOnly

(***************************************************************************)
(* The clock goes on; MySQL answers each call of a migration; each request *)
(* for a PDF is a goroutine of its own, and Chromium is given up after     *)
(* renderTimeout.  Nobody has to log in, ask for a PDF or start a process. *)
(***************************************************************************)
Fairness ==
  /\ WF_vars(Tick)
  /\ \A p \in Processes : WF_vars(Proceed(p))
  /\ \A q \in PdfRequests : WF_vars(Serve(q))

Spec == Init /\ [][Next]_vars /\ Fairness

-----------------------------------------------------------------------------
\* No 15 minutes let an address through as often as two buckets would (auth.go:43).
TwoBucketsAtMost == Limiter!TwoBucketsAtMost

\* No address uses up, or gets back, the attempts of another (auth.go:43).
BucketsCountTheirOwn == Limiter!BucketsCountTheirOwn

\* An address that is refused is let in again (auth.go:43).
LockoutsEnd == Limiter!LockoutsEnd

\* A new contact line stands behind those its create had seen (user_contacts.go:68).
NewContactsGoLast == Lines!NewContactsGoLast

\* Whoever listens does so on the schema all files give (database.go:53).
ListensOnFullSchema == Schema!ListensOnFullSchema

\* A start fails for one of four reasons only (database.go:53, 111).
FailuresHaveCauses == Schema!FailuresHaveCauses

\* Who starts a process as often as it takes gets one that listens (database.go:53).
ServersComeUp == Schema!ServersComeUp

\* A migration stopped anywhere gives the stock back once (database.go:50).
StockIsGivenBackOnce == Schema!StockIsGivenBackOnce

\* At most one Chromium for the life of a process (router.go:41).
OneChromium == Chromium!OneChromium

\* Every request for a PDF is answered (router.go:41, renderer.go:121).
PdfRequestsEnd == Chromium!PdfRequestsEnd

\* The accepted lines are those whose true total fits, and none wraps (invoices.go:170).
TotalsAreExact == Total!Exact(line.price, line.units, line.packs)
=============================================================================
