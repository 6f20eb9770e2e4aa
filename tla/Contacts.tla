------------------------------ MODULE Contacts ------------------------------
(***************************************************************************)
(* The contact lines of one user (internal/server/user_contacts.go): a     *)
(* list ordered by sort_order, then id.  A create reads MAX(sort_order)    *)
(* in its transaction without locking anything and then inserts; an update *)
(* locks its row, a delete is one statement.  Titles, values and the flag  *)
(* for invoices are left out.                                              *)
(***************************************************************************)
EXTENDS Integers, FiniteSets, FiniteSetsExt

CONSTANTS
  ContactIds,  \* ids AUTO_INCREMENT may hand out: 1 .. n
  Creates,     \* POST /contacts requests being served
  MinSort,     \* the smallest INT
  MaxSort      \* the largest INT

VARIABLES
  contact,     \* [row, sort, after] of each id
  create       \* the transaction of each create

contactVars == <<contact, create>>

\* after: the lines this one was put behind, as long as neither is moved or deleted.
Contact == [row : {"unused", "live", "deleted"}, sort : MinSort .. MaxSort,
            after : SUBSET ContactIds]

\* seen: the lines the open transaction has read, those moved or deleted since left out.
Create == [open : BOOLEAN, max : MinSort .. MaxSort, seen : SUBSET ContactIds]

NoContact == [row |-> "unused", sort |-> 0, after |-> {}]
NoCreate == [open |-> FALSE, max |-> 0, seen |-> {}]

Init ==
  /\ contact = [i \in ContactIds |-> NoContact]
  /\ create = [q \in Creates |-> NoCreate]

Live == {i \in ContactIds : contact[i].row = "live"}

\* Mutant: the rows are counted instead.
LastSort_Count == Cardinality(Live)

\* COALESCE(MAX(sort_order), 0).
LastSort == IF Live = {} THEN 0 ELSE Max({contact[i].sort : i \in Live})

\* The first read of the transaction fixes its snapshot.
BeginCreate(q) ==
  /\ ~create[q].open
  /\ create' = [create EXCEPT ![q] = [open |-> TRUE, max |-> LastSort, seen |-> Live]]
  /\ UNCHANGED contact

\* The next id; a sort_order over the INT is refused and the request fails.
InsertContact(q, i) ==
  /\ create[q].open /\ create[q].max < MaxSort
  /\ contact[i].row = "unused" /\ \A j \in ContactIds : j < i => contact[j].row # "unused"
  /\ contact' = [contact EXCEPT ![i] =
        [row |-> "live", sort |-> create[q].max + 1, after |-> create[q].seen]]
  /\ create' = [create EXCEPT ![q] = NoCreate]

RefuseCreate(q) ==
  /\ create[q].open /\ create[q].max = MaxSort
  /\ create' = [create EXCEPT ![q] = NoCreate]
  /\ UNCHANGED contact

\* Contact i becomes c, and nobody's place is compared with its old one any more.
Replace(i, c) ==
  /\ contact' = [j \in ContactIds |-> IF j = i THEN c ELSE [contact[j] EXCEPT !.after = @ \ {i}]]
  /\ create' = [q \in Creates |-> [create[q] EXCEPT !.seen = @ \ {i}]]

\* Any sort_order the client sends.
UpdateContact(i, sort) ==
  contact[i].row = "live" /\ Replace(i, [row |-> "live", sort |-> sort, after |-> {}])

DeleteContact(i) ==
  contact[i].row = "live" /\ Replace(i, [NoContact EXCEPT !.row = "deleted"])

Next ==
  \/ \E q \in Creates : BeginCreate(q) \/ RefuseCreate(q) \/ \E i \in ContactIds : InsertContact(q, i)
  \/ \E i \in ContactIds : DeleteContact(i) \/ \E sort \in MinSort .. MaxSort : UpdateContact(i, sort)

-----------------------------------------------------------------------------
\* ORDER BY sort_order, id.
Before(i, j) ==
  \/ contact[i].sort < contact[j].sort
  \/ contact[i].sort = contact[j].sort /\ i < j

\* A new line goes to the end: whatever was deleted or moved away in between, it
\* stands behind every line that its create had seen and nobody has moved since.
\* Two creates at once may share a sort_order; their ids then decide.
NewContactsGoLast ==
  \A i \in Live : \A j \in contact[i].after : Before(j, i)
=============================================================================
