---------------------------- MODULE LoginLimiter ----------------------------
(***************************************************************************)
(* The login limiter of one process (internal/server/auth.go): a bucket    *)
(* per address in a map that allow reads and writes under a mutex, so that *)
(* one call is one step.  Login goes on only when allow returns true.      *)
(*                                                                         *)
(* Time passes in ticks; a bucket keeps the ticks left until its "until"   *)
(* instead of the instant.  The history of what was admitted is the        *)
(* model's, for the properties.                                            *)
(***************************************************************************)
EXTENDS Integers, Functions

CONSTANTS
  Addresses,   \* client addresses
  Limit,       \* 20 attempts
  Window       \* 15 minutes, in ticks

VARIABLES
  bucket,      \* [count, left] of an address; left < 0 after "until"
  admitted     \* attempts of an address let through, by their age in ticks

limiterVars == <<bucket, admitted>>

Ages == 0 .. Window

\* A bucket that is not in the map reads as the zero value.
NoBucket == [count |-> 0, left |-> -1]

Init ==
  /\ bucket = [a \in Addresses |-> NoBucket]
  /\ admitted = [a \in Addresses |-> [age \in Ages |-> 0]]

\* Mutant: ! now.Before(until).
Expired_OnTime(b) == b.left <= 0

\* now.After(until).
Expired(b) == b.left < 0

\* The buckets after the loop that purges the map.
Purged == [a \in Addresses |-> IF Expired(bucket[a]) THEN NoBucket ELSE bucket[a]]

\* Mutant: every call moves until.
Opened_Renewed(b) == [b EXCEPT !.left = Window]

\* until is set only for a bucket the map does not have.
Opened(b) == IF Expired(b) THEN [count |-> 0, left |-> Window] ELSE b

Admits(a) == Purged[a].count < Limit

Admit(a) ==
  LET b == Opened(Purged[a])
  IN  /\ Admits(a)
      /\ bucket' = [Purged EXCEPT ![a] = [b EXCEPT !.count = @ + 1]]
      /\ admitted' = [admitted EXCEPT ![a][0] = @ + 1]

\* Mutant: a refused attempt moves until.
Refuse_Renews(a) ==
  /\ ~Admits(a)
  /\ bucket' = [Purged EXCEPT ![a].left = Window]
  /\ UNCHANGED admitted

\* 429: the bucket is not stored again.
Refuse(a) ==
  /\ ~Admits(a)
  /\ bucket' = Purged
  /\ UNCHANGED admitted

\* The clock; what is older than Window is forgotten.
Tick ==
  /\ bucket' = [a \in Addresses |->
       [bucket[a] EXCEPT !.left = IF @ < 0 THEN @ ELSE @ - 1]]
  /\ admitted' = [a \in Addresses |->
       [age \in Ages |-> IF age = 0 THEN 0 ELSE admitted[a][age - 1]]]

Next == Tick \/ \E a \in Addresses : Admit(a) \/ Refuse(a)

-----------------------------------------------------------------------------
Recent(a) == SumFunction(admitted[a])

\* "Login is limited to 20 attempts per IP per 15 minutes per API process"
\* (README.md:47): the windows are fixed, not sliding, so what any 15 minutes may
\* hold is the end of one bucket and all of the next, one attempt less than twice
\* the limit, and never more.
TwoBucketsAtMost == \A a \in Addresses : Recent(a) < 2 * Limit

\* Nor does one address use up what another may: a bucket that is in force counts
\* the attempts of its own address since it was opened and nothing else.
BucketsCountTheirOwn ==
  \A a \in Addresses : ~Expired(bucket[a]) =>
    bucket[a].count = SumFunctionOnSet(admitted[a], 0 .. (Window - bucket[a].left))

\* "Retry-After: 900": an address that is refused is let in again, however often it
\* is refused in between.
LockoutsEnd == \A a \in Addresses : ~Admits(a) ~> Admits(a)
=============================================================================
