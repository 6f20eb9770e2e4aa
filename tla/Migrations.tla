----------------------------- MODULE Migrations -----------------------------
(***************************************************************************)
(* Start of the process (cmd/server/main.go) and the migrations of the     *)
(* schema (internal/database/database.go, Migrate): several processes over *)
(* one database, any of which may be stopped and started again.            *)
(*                                                                         *)
(* MySQL commits every DDL statement and every UPDATE and DELETE of a      *)
(* script by itself, so that each statement is a step.  A process that is  *)
(* killed, or whose 30 seconds are over, loses its connection and with it  *)
(* the lock.  Of the schema only the names of columns, keys and checks are *)
(* kept; of the data, the stock that 012, 013 and 016 take back and the    *)
(* movements they take it back from.                                       *)
(***************************************************************************)
EXTENDS Integers, Sequences

CONSTANTS
  Processes,   \* server processes that are started on the database
  Script,      \* the embedded files: [owners, statements] each
  Releases,    \* numbers of files that earlier releases had, of which one may have run
  Taken,       \* pieces the movements of the purged clients took from stock
  NoProcess,
  MaxStops     \* bound of the model: starts are cut short this often

VARIABLES
  schema,      \* names present
  stock,       \* of the product the purged clients bought
  movements,   \* the stock_movements of those clients are still there
  recorded,    \* schema_migrations: files whose version is there
  owned,       \* every tenant has exactly one trader
  holder,      \* of the lock "musky:migrate"
  process,     \* [at, file, statement] of each process
  stops        \* kills and refused statements so far

database == <<schema, stock, movements, recorded, owned>>
migrationVars == <<database, holder, process, stops>>

Ats == {"down", "failed", "lock", "file", "statement", "record", "listening"}

(***************************************************************************)
(* Statements: [kind, names].                                              *)
(***************************************************************************)
\* CREATE TABLE IF NOT EXISTS, ADD and DROP of one name each in MySQL.
Effect(s, names) ==
  CASE s.kind \in {"create", "add"} -> names \cup s.names
    [] s.kind \in {"drop", "dropCheck"} -> names \ s.names
    [] OTHER -> names

Kinds == {"create", "add", "drop", "dropCheck", "undo", "purge"}

Adds(s, name)  == s.kind \in {"create", "add"} /\ name \in s.names
Drops(s, name) == s.kind \in {"drop", "dropCheck"} /\ name \in s.names

\* What the statements of file f before its k-th say of a name: whether one is
\* about it, and whether the last of those adds it.
Touched(f, k, name) ==
  \E i \in 1 .. k - 1 :
    LET s == Script[f].statements[i] IN Adds(s, name) \/ Drops(s, name)

Given(f, k, name) ==
  \E i \in 1 .. k - 1 :
    /\ Adds(Script[f].statements[i], name)
    /\ \A j \in i + 1 .. k - 1 : ~Drops(Script[f].statements[j], name)

End(f) == Len(Script[f].statements) + 1

Names ==
  UNION {UNION {Script[f].statements[i].names : i \in 1 .. End(f) - 1} : f \in DOMAIN Script}

\* The first n files, each run once and in order: a name is there if the last file
\* about it gives it.
SchemaOf(n) ==
  {name \in Names : \E f \in 1 .. n :
     Given(f, End(f), name) /\ \A g \in f + 1 .. n : ~Touched(g, End(g), name)}

\* What statement k of file f finds in such a run.
SchemaAt(f, k) ==
  {name \in Names : \/ Given(f, k, name)
                    \/ ~Touched(f, k, name) /\ name \in SchemaOf(f - 1)}

\* No file is empty, and in such a run every check that is dropped is there.
ScriptRuns ==
  /\ Script \in Seq([owners : BOOLEAN, statements : Seq([kind : Kinds, names : SUBSET Names])])
  /\ \A f \in DOMAIN Script : Script[f].statements # <<>>
  /\ \A f \in DOMAIN Script : \A k \in 1 .. End(f) - 1 :
       LET s == Script[f].statements[k]
       IN  s.kind = "dropCheck" => s.names \cap SchemaAt(f, k) # {}

\* An empty database, or one an earlier release has used.
Init ==
  /\ \E n \in Releases : recorded = 1 .. n /\ schema = SchemaOf(n) /\ movements = (n > 0)
  /\ stock = 0
  /\ owned \in BOOLEAN
  /\ holder = NoProcess
  /\ process = [p \in Processes |-> [at |-> "down", file |-> 1, statement |-> 1]]
  /\ stops = 0

At(p, at) == process[p].at = at
File(p) == Script[process[p].file]
Statement(p) == File(p).statements[process[p].statement]

\* The errors of MySQL: 1060, 1061, 1826 and 3822 for a name that is there, 1091
\* for a column or key that is not, and 3821 for a check that is not.
Error(s) ==
  CASE s.kind = "add" /\ s.names \subseteq schema -> "duplicate"
    [] s.kind = "drop" /\ s.names \cap schema = {} -> "missing"
    [] s.kind = "dropCheck" /\ s.names \cap schema = {} -> "missing check"
    [] OTHER -> "none"

\* Mutant: a name that is there is not tolerated.
Restartable_NoDuplicates(s) == Error(s) = "missing"

\* isRestartableMigrationError: 3821 is not on its list.
Restartable(s) == Error(s) \in {"duplicate", "missing"}

-----------------------------------------------------------------------------
Enter(p, at) == process' = [process EXCEPT ![p].at = at]

\* Mutant: the lock is released only at the end of the last file.
Fail_KeepsLock(p) ==
  /\ process' = [process EXCEPT ![p] = [at |-> "failed", file |-> 1, statement |-> 1]]
  /\ UNCHANGED holder

\* log.Fatal; the deferred RELEASE_LOCK has run.
Fail(p) ==
  /\ process' = [process EXCEPT ![p] = [at |-> "failed", file |-> 1, statement |-> 1]]
  /\ holder' = IF holder = p THEN NoProcess ELSE holder

Start(p) ==
  /\ At(p, "down") \/ At(p, "failed")
  /\ Enter(p, "lock")
  /\ UNCHANGED <<database, holder, stops>>

\* Mutant: the result of GET_LOCK is not looked at.
Free_Ignored == TRUE

Free == holder = NoProcess

\* GET_LOCK returns 1.
Lock(p) ==
  /\ At(p, "lock") /\ Free
  /\ holder' = p
  /\ Enter(p, "file")
  /\ UNCHANGED <<database, stops>>

\* GET_LOCK returns 0 after 10 seconds.
LockTimeout(p) ==
  /\ At(p, "lock") /\ ~Free
  /\ Fail(p)
  /\ UNCHANGED <<database, stops>>

\* The next file that is not recorded; 002 wants one trader per tenant.
OpenFile(p) ==
  /\ At(p, "file") /\ process[p].file <= Len(Script)
  /\ IF process[p].file \in recorded
     THEN process' = [process EXCEPT ![p].file = @ + 1] /\ UNCHANGED holder
     ELSE IF File(p).owners /\ ~owned
     THEN Fail(p)
     ELSE Enter(p, "statement") /\ UNCHANGED holder
  /\ UNCHANGED <<database, stops>>

\* The last file is done: the lock is released and the server listens.
Listen(p) ==
  /\ At(p, "file") /\ process[p].file > Len(Script)
  /\ holder' = IF holder = p THEN NoProcess ELSE holder
  /\ process' = [process EXCEPT ![p] = [at |-> "listening", file |-> 1, statement |-> 1]]
  /\ UNCHANGED <<database, stops>>

\* The statement succeeds or its error is tolerated.
Execute(p) ==
  LET s == Statement(p)
  IN  /\ At(p, "statement") /\ (Error(s) = "none" \/ Restartable(s))
      /\ schema' = Effect(s, schema)
      /\ stock' = IF s.kind = "undo" /\ movements THEN stock + Taken ELSE stock
      /\ movements' = (movements /\ s.kind # "purge")
      /\ process' = [process EXCEPT
           ![p].at = IF process[p].statement = Len(File(p).statements) THEN "record" ELSE @,
           ![p].statement = @ + 1]
      /\ UNCHANGED <<recorded, owned, holder, stops>>

StatementFails(p) ==
  /\ At(p, "statement") /\ Error(Statement(p)) # "none" /\ ~Restartable(Statement(p))
  /\ Fail(p)
  /\ UNCHANGED <<database, stops>>

\* The data are in the way of a statement that the schema allows (a check, a key or
\* a value out of range), or MySQL cannot carry it out: it is undone as a whole.
Refused(p) ==
  /\ At(p, "statement") /\ Error(Statement(p)) = "none" /\ stops < MaxStops
  /\ Fail(p)
  /\ stops' = stops + 1
  /\ UNCHANGED database

\* INSERT INTO schema_migrations: a version that is there is refused.
Record(p) ==
  /\ At(p, "record")
  /\ IF process[p].file \in recorded THEN Fail(p)
     ELSE /\ process' = [process EXCEPT ![p] =
               [at |-> "file", file |-> process[p].file + 1, statement |-> 1]]
          /\ UNCHANGED holder
  /\ recorded' = recorded \cup {process[p].file}
  /\ UNCHANGED <<schema, stock, movements, owned, stops>>

\* The process is killed, or its context is over while it migrates.
Stop(p) ==
  /\ ~At(p, "down") /\ ~At(p, "failed") /\ stops < MaxStops
  /\ process' = [process EXCEPT ![p] = [at |-> "down", file |-> 1, statement |-> 1]]
  /\ holder' = IF holder = p THEN NoProcess ELSE holder
  /\ stops' = stops + 1
  /\ UNCHANGED database

\* Someone "assigns missing owners or splits shared tenants".
AssignOwners ==
  /\ ~owned
  /\ owned' = TRUE
  /\ UNCHANGED <<schema, stock, movements, recorded, holder, process, stops>>

Proceed(p) ==
  \/ Lock(p) \/ LockTimeout(p) \/ OpenFile(p) \/ Listen(p)
  \/ Execute(p) \/ StatementFails(p) \/ Record(p)

Next ==
  \/ \E p \in Processes : Start(p) \/ Proceed(p) \/ Refused(p) \/ Stop(p)
  \/ AssignOwners

-----------------------------------------------------------------------------
\* "Migration execution is serialized on a dedicated connection before recording a
\* version" (database.go:50): whoever listens does so on the schema that all files
\* give, whatever stopped and started beside it.
ListensOnFullSchema ==
  (\E p \in Processes : At(p, "listening")) =>
    schema = SchemaOf(Len(Script)) /\ recorded = 1 .. Len(Script)

\* A start fails for four reasons only: another process migrates, an owner is
\* missing, MySQL refuses a statement whose names are as the file wants them, or an
\* earlier start was cut short after a DROP CHECK that this one repeats (MySQL's 3821
\* is not on the list of tolerated errors, 1091 is).  What is tolerated hides nothing
\* else: no other leftover of a start that was cut short is in the way.
FailuresHaveCauses ==
  [][\A p \in Processes : ~At(p, "failed") /\ process'[p].at = "failed" =>
       \/ holder \notin {p, NoProcess}
       \/ At(p, "file") /\ ~owned
       \/ At(p, "statement") /\ Error(Statement(p)) = "none"
       \/ At(p, "statement") /\ stops > 0 /\ Error(Statement(p)) = "missing check"]_migrationVars

\* A process that is started as often as it takes comes up: no start hangs, and
\* none leaves the lock behind for the next, unless an owner stays missing or a
\* DROP CHECK is repeated.  Starts are cut short finitely often (MaxStops): data
\* that refuse a statement at every start keep the server down.
ServersComeUp ==
  \A p \in Processes :
    []<>At(p, "lock") =>
      \/ <>At(p, "listening")
      \/ <>[]~owned
      \/ <>(\E q \in Processes :
             At(q, "statement") /\ Error(Statement(q)) = "missing check")

\* "Statements are restartable" (database.go:50): the files may be stopped anywhere
\* and run again, and the stock of the purged clients is given back once.
StockIsGivenBackOnce == stock \in {0, Taken}
=============================================================================
