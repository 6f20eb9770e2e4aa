----------------------------- MODULE PlatformProofs -----------------------------
(***************************************************************************)
(* The platform's parts for every value of their constants: each has an    *)
(* inductive invariant of its own, and as a step of one part leaves what   *)
(* the others have, their conjunction is inductive for the whole.          *)
(***************************************************************************)
EXTENDS Platform, SumProofs

-----------------------------------------------------------------------------
(***************************************************************************)
(* The login limiter.  In force, a bucket counts the attempts of the last  *)
(* Window - left ticks, of which the first is still remembered, and older  *)
(* attempts are fewer than Limit: when it expires, its first is forgotten. *)
(***************************************************************************)
Ages == 0 .. Window
Upto(f, n) == SumFunctionOnSet(f, 0 .. n)

\* What address a has in its bucket and what was admitted of it.
BucketFits(a) ==
  LET b == bucket[a]
      f == admitted[a]
  IN  /\ b.count \in Nat /\ b.left \in -1 .. Window /\ f \in [Ages -> Nat]
      /\ b.left < 0 => f[0] = 0 /\ Upto(f, Window) < Limit
      /\ b.left >= 0 =>
           /\ b.count = Upto(f, Window - b.left) /\ b.count <= Limit
           /\ f[Window - b.left] >= 1
           /\ Upto(f, Window) - b.count < Limit

BucketsFit ==
  /\ bucket \in [Addresses -> [count : Nat, left : -1 .. Window]]
  /\ admitted \in [Addresses -> [Ages -> Nat]]
  /\ \A a \in Addresses : BucketFits(a)

\* A sum of one more age.
LEMMA UptoNext ==
  ASSUME NEW n \in Nat, NEW f, \A k \in 0 .. n + 1 : f[k] \in Int
  PROVE  /\ Upto(f, n + 1) = f[n + 1] + Upto(f, n)
         /\ Upto(f, n) \in Int
  <1>1. IsFiniteSet(0 .. n + 1) /\ IsFiniteSet(0 .. n)
    BY FS_Interval
  <1>2. n + 1 \in 0 .. n + 1 /\ (0 .. n + 1) \ {n + 1} = 0 .. n /\ 0 .. n \subseteq 0 .. n + 1
    OBVIOUS
  <1>3. SumFunctionOnSet(f, 0 .. n + 1) = f[n + 1] + SumFunctionOnSet(f, (0 .. n + 1) \ {n + 1})
    <2> DEFINE S == 0 .. n + 1
               x == n + 1
    <2>1. IsFiniteSet(S) /\ x \in S /\ \A k \in S : f[k] \in Int
      BY <1>1, <1>2
    <2> HIDE DEF S, x
    <2>2. SumFunctionOnSet(f, S) = f[x] + SumFunctionOnSet(f, S \ {x})
      BY <2>1, SumWithout
    <2> QED BY <2>2 DEF S, x
  <1>4. SumFunctionOnSet(f, 0 .. n) \in Int
    BY <1>1, <1>2, SumIsInt
  <1> QED BY <1>2, <1>3, <1>4 DEF Upto

LEMMA UptoZero ==
  ASSUME NEW f, f[0] \in Int
  PROVE  Upto(f, 0) = f[0]
  <1>1. IsFiniteSet({0})
    BY FS_Singleton
  <1>2. 0 .. 0 = {0} /\ {0} \ {0} = {}
    OBVIOUS
  <1>3. SumFunctionOnSet(f, {0}) = f[0] + SumFunctionOnSet(f, {0} \ {0})
    BY <1>1, SumWithout
  <1> QED BY <1>2, <1>3, SumOfNothing DEF Upto

\* Sums of naturals grow with the ages they range over, by the last age at least.
LEMMA UptoGrows ==
  ASSUME NEW w \in Nat, NEW f, \A k \in 0 .. w : f[k] \in Nat
  PROVE  \A n \in 0 .. w : Upto(f, n) \in Nat /\ f[n] <= Upto(f, n)
  <1> DEFINE A == {n \in Nat : n <= w => Upto(f, n) \in Nat /\ f[n] <= Upto(f, n)}
  <1>1. 0 \in A
    BY UptoZero
  <1>2. ASSUME NEW n \in Nat, n \in A PROVE n + 1 \in A
    <2>1. CASE n + 1 <= w
      <3>1. Upto(f, n + 1) = f[n + 1] + Upto(f, n)
        BY <2>1, UptoNext
      <3>2. f[n + 1] \in Nat /\ Upto(f, n) \in Nat
        BY <1>2, <2>1
      <3> QED BY <3>1, <3>2
    <2> QED BY <2>1
  <1> HIDE DEF A
  <1>3. Nat \subseteq A
    BY <1>1, <1>2, NatSets
  <1> QED BY <1>3 DEF A

\* A tick moves every attempt one age on.
LEMMA UptoShifted ==
  ASSUME NEW w \in Nat, NEW f, \A k \in 0 .. w : f[k] \in Nat,
         NEW g, g[0] = 0, \A k \in 1 .. w : g[k] = f[k - 1]
  PROVE  \A n \in 0 .. w - 1 : Upto(g, n + 1) = Upto(f, n)
  <1> DEFINE A == {n \in Nat : n + 1 <= w => Upto(g, n + 1) = Upto(f, n)}
  <1>1. \A k \in 0 .. w : g[k] \in Nat
    <2>1. \A k \in 1 .. w : k - 1 \in 0 .. w
      OBVIOUS
    <2> QED BY <2>1
  <1>2. 0 \in A
    <2>1. CASE 1 <= w
      <3>1. g[1] = f[0] /\ g[0] = 0 /\ f[0] \in Nat
        BY <2>1
      <3>2. Upto(g, 0 + 1) = g[0 + 1] + Upto(g, 0)
        BY <1>1, <2>1, UptoNext
      <3>3. Upto(g, 0) = 0 /\ Upto(f, 0) = f[0]
        BY <3>1, UptoZero
      <3> QED BY <3>1, <3>2, <3>3
    <2> QED BY <2>1
  <1>3. ASSUME NEW n \in Nat, n \in A PROVE n + 1 \in A
    <2>1. CASE n + 2 <= w
      <3>1. g[n + 2] = f[n + 1] /\ f[n + 1] \in Nat
        BY <2>1
      <3>2. Upto(g, (n + 1) + 1) = g[(n + 1) + 1] + Upto(g, n + 1)
        BY <1>1, <2>1, UptoNext
      <3>3. Upto(f, n + 1) = f[n + 1] + Upto(f, n)
        BY <2>1, UptoNext
      <3>4. (n + 1) + 1 = n + 2
        OBVIOUS
      <3> QED BY <1>3, <2>1, <3>1, <3>2, <3>3, <3>4
    <2>2. CASE ~(n + 2 <= w)
      BY <2>2
    <2> QED BY <2>1, <2>2
  <1> HIDE DEF A
  <1>4. Nat \subseteq A
    BY <1>2, <1>3, NatSets
  <1>5. ASSUME NEW n \in 0 .. w - 1 PROVE n \in Nat /\ n + 1 <= w
    OBVIOUS
  <1> QED BY <1>4, <1>5 DEF A

\* One more attempt of age 0.
LEMMA UptoAdmitted ==
  ASSUME NEW w \in Nat, NEW f, \A k \in 0 .. w : f[k] \in Nat,
         NEW g, g[0] = f[0] + 1, \A k \in 1 .. w : g[k] = f[k]
  PROVE  \A n \in 0 .. w : Upto(g, n) = Upto(f, n) + 1
  <1> SUFFICES ASSUME NEW n \in 0 .. w PROVE Upto(g, n) = Upto(f, n) + 1
    OBVIOUS
  <1>1. IsFiniteSet(0 .. n) /\ 0 \in 0 .. n /\ 0 .. n \subseteq 0 .. w
    BY FS_Interval
  <1>2. \A k \in 0 .. n : f[k] \in Int /\ g[k] \in Int
    BY <1>1
  <1>3. \A k \in (0 .. n) \ {0} : g[k] = f[k]
    BY <1>1
  <1>4. SumFunctionOnSet(g, 0 .. n) = SumFunctionOnSet(f, 0 .. n) + g[0] - f[0]
    <2> DEFINE S == 0 .. n
    <2>1. IsFiniteSet(S) /\ 0 \in S /\ \A k \in S : f[k] \in Int
      BY <1>1, <1>2
    <2>2. \A k \in S : g[k] \in Int
      BY <1>2
    <2>3. \A k \in S \ {0} : g[k] = f[k]
      BY <1>3
    <2> HIDE DEF S
    <2>4. SumFunctionOnSet(g, S) = SumFunctionOnSet(f, S) + g[0] - f[0]
      BY <2>1, <2>2, <2>3, SumChangedOnce
    <2> QED BY <2>4 DEF S
  <1>5. SumFunctionOnSet(f, 0 .. n) \in Int
    BY <1>1, <1>2, SumIsInt
  <1>6. f[0] \in Nat
    OBVIOUS
  <1> QED BY <1>4, <1>5, <1>6 DEF Upto

\* The steps of the limiter, one address at a time.
LEMMA AdmittedFits ==
  ASSUME NEW a \in Addresses, BucketFits(a), Limiter!Admits(a),
         NEW b, b = Limiter!Opened(Limiter!Purged[a]),
         bucket'[a] = [b EXCEPT !.count = @ + 1],
         admitted'[a] = [admitted[a] EXCEPT ![0] = @ + 1]
  PROVE  BucketFits(a)'
  <1> DEFINE f == admitted[a]
             g == admitted'[a]
             w == Window
             old == bucket[a]
             new == bucket'[a]
  <1>0. w \in Nat \ {0} /\ Limit \in Nat \ {0}
    BY PlatformAssumption
  <1>1. /\ old.count \in Nat /\ old.left \in -1 .. w /\ f \in [Ages -> Nat]
        /\ old.left < 0 => f[0] = 0 /\ Upto(f, w) < Limit
        /\ old.left >= 0 =>
             /\ old.count = Upto(f, w - old.left) /\ old.count <= Limit
             /\ f[w - old.left] >= 1
             /\ Upto(f, w) - old.count < Limit
    BY DEF BucketFits
  <1>2. /\ g \in [Ages -> Nat] /\ g[0] = f[0] + 1 /\ \A k \in 1 .. w : g[k] = f[k]
        /\ \A k \in 0 .. w : f[k] \in Nat
    BY <1>0, <1>1 DEF Ages
  <1>3. /\ \A n \in 0 .. w : Upto(g, n) = Upto(f, n) + 1
        /\ \A n \in 0 .. w : Upto(f, n) \in Nat
    <2> HIDE DEF f, g, w
    <2>1. w \in Nat
      BY <1>0
    <2>2. \A n \in 0 .. w : Upto(g, n) = Upto(f, n) + 1
      BY <1>2, <2>1, UptoAdmitted
    <2>3. \A n \in 0 .. w : Upto(f, n) \in Nat
      BY <1>2, <2>1, UptoGrows
    <2> QED BY <2>2, <2>3
  <1>4. /\ old.left < 0 => new.count = 1 /\ new.left = w
        /\ old.left >= 0 => new.count = old.count + 1 /\ new.left = old.left /\ old.count < Limit
    BY <1>0, <1>1 DEF Limiter!Opened, Limiter!Purged, Limiter!Expired, Limiter!NoBucket,
       Limiter!Admits
  <1> HIDE DEF f, g, w, old, new
  <1>5. CASE old.left < 0
    <2>1. Upto(g, 0) = 1 /\ Upto(g, w) = Upto(f, w) + 1 /\ w - new.left = 0 /\ g[0] = 1
      BY <1>0, <1>1, <1>2, <1>3, <1>4, <1>5, UptoZero
    <2>2. Upto(g, w) - 1 < Limit /\ 1 <= Limit
      BY <1>0, <1>1, <1>3, <1>5, <2>1
    <2> QED BY <1>0, <1>2, <1>4, <1>5, <2>1, <2>2 DEF BucketFits, g, w, new
  <1>6. CASE old.left >= 0
    <2>1. w - old.left \in 0 .. w /\ w \in 0 .. w
      BY <1>0, <1>1, <1>6
    <2>2. Upto(g, w - old.left) = Upto(f, w - old.left) + 1 /\ Upto(g, w) = Upto(f, w) + 1
      BY <1>3, <2>1
    <2>3. g[w - old.left] >= 1
      BY <1>0, <1>1, <1>2, <1>6, <2>1
    <2>4. Upto(g, w) - (old.count + 1) < Limit /\ old.count + 1 <= Limit
      BY <1>0, <1>1, <1>3, <1>4, <1>6, <2>1, <2>2
    <2> QED BY <1>0, <1>1, <1>2, <1>4, <1>6, <2>2, <2>3, <2>4 DEF BucketFits, g, w, new
  <1> QED BY <1>0, <1>1, <1>5, <1>6

LEMMA TickedFits ==
  ASSUME NEW a \in Addresses, BucketFits(a),
         bucket'[a] = [bucket[a] EXCEPT !.left = IF @ < 0 THEN @ ELSE @ - 1],
         bucket[a] \in [count : Nat, left : -1 .. Window],
         admitted'[a] = [age \in Ages |-> IF age = 0 THEN 0 ELSE admitted[a][age - 1]]
  PROVE  BucketFits(a)'
  <1> DEFINE f == admitted[a]
             g == admitted'[a]
             w == Window
             old == bucket[a]
             new == bucket'[a]
  <1>0. w \in Nat \ {0} /\ Limit \in Nat \ {0}
    BY PlatformAssumption
  <1>1. /\ old.count \in Nat /\ old.left \in -1 .. w /\ f \in [Ages -> Nat]
        /\ old.left < 0 => f[0] = 0 /\ Upto(f, w) < Limit
        /\ old.left >= 0 =>
             /\ old.count = Upto(f, w - old.left) /\ old.count <= Limit
             /\ f[w - old.left] >= 1
             /\ Upto(f, w) - old.count < Limit
    BY DEF BucketFits
  <1>2. /\ g \in [Ages -> Nat] /\ g[0] = 0
        /\ \A k \in 1 .. w : g[k] = f[k - 1]
        /\ \A k \in 0 .. w : f[k] \in Nat
    <2>1. \A k \in Ages : k # 0 => k - 1 \in Ages
      BY <1>0 DEF Ages
    <2>2. g = [age \in Ages |-> IF age = 0 THEN 0 ELSE f[age - 1]]
      OBVIOUS
    <2>3. 0 \in Ages /\ 1 .. w \subseteq Ages \ {0} /\ 0 .. w = Ages
      BY <1>0 DEF Ages
    <2> HIDE DEF f, g, w
    <2> QED BY <1>1, <2>1, <2>2, <2>3
  <1>3. /\ \A n \in 0 .. w - 1 : Upto(g, n + 1) = Upto(f, n)
        /\ \A n \in 0 .. w : Upto(f, n) \in Nat /\ f[n] <= Upto(f, n)
    <2> HIDE DEF f, g, w
    <2> QED BY <1>0, <1>2, UptoShifted, UptoGrows
  <1>4. /\ new.count = old.count
        /\ new.left = IF old.left < 0 THEN old.left ELSE old.left - 1
    OBVIOUS
  <1> HIDE DEF f, g, w, old, new
  \* What was w ticks old is forgotten.
  <1>5. Upto(g, w) = Upto(f, w) - f[w] /\ f[w] \in Nat /\ Upto(f, w) \in Nat
    <2> DEFINE v == w - 1
    <2>1. v \in Nat /\ v + 1 = w /\ v \in 0 .. w - 1 /\ w \in 0 .. w /\ v \in 0 .. w
      BY <1>0
    <2> HIDE DEF v
    <2>2. Upto(f, v + 1) = f[v + 1] + Upto(f, v)
      BY <1>2, <2>1, UptoNext
    <2>3. Upto(g, v + 1) = Upto(f, v) /\ Upto(f, v) \in Nat /\ f[w] \in Nat /\ Upto(f, w) \in Nat
      BY <1>2, <1>3, <2>1
    <2> QED BY <2>1, <2>2, <2>3
  <1>6. CASE old.left < 0
    <2>1. Upto(g, w) < Limit
      BY <1>0, <1>1, <1>5, <1>6
    <2> QED BY <1>0, <1>1, <1>2, <1>4, <1>6, <2>1 DEF BucketFits, g, w, new
  <1>7. CASE old.left = 0
    <2>1. w - old.left = w
      BY <1>0, <1>7
    <2>2. Upto(g, w) < Limit
      BY <1>0, <1>1, <1>5, <1>7, <2>1
    <2> QED BY <1>0, <1>1, <1>2, <1>4, <1>7, <2>2 DEF BucketFits, g, w, new
  <1>8. CASE old.left > 0
    <2> DEFINE n == w - old.left
    <2>1. n \in 0 .. w - 1 /\ n + 1 \in 1 .. w /\ w - new.left = n + 1 /\ (n + 1) - 1 = n
      BY <1>0, <1>1, <1>4, <1>8
    <2> HIDE DEF n
    <2>2. Upto(g, n + 1) = Upto(f, n) /\ g[n + 1] = f[n]
      BY <1>2, <1>3, <2>1
    <2>3. old.count = Upto(f, n) /\ old.count <= Limit /\ f[n] >= 1 /\ Upto(f, w) - old.count < Limit
      BY <1>1, <1>8 DEF n
    <2>4. Upto(g, w) - old.count < Limit
      BY <1>0, <1>1, <1>5, <2>3
    <2>5. new.left >= 0 /\ new.left \in -1 .. w
      BY <1>0, <1>1, <1>4, <1>8
    <2> QED BY <1>0, <1>1, <1>2, <1>4, <2>1, <2>2, <2>3, <2>4, <2>5 DEF BucketFits, g, w, new
  <1> QED BY <1>0, <1>1, <1>6, <1>7, <1>8

\* A purged bucket is one that had expired.
LEMMA PurgedFits ==
  ASSUME NEW a \in Addresses, BucketFits(a), admitted'[a] = admitted[a],
         bucket'[a] = Limiter!Purged[a]
  PROVE  BucketFits(a)'
  <1>1. /\ bucket[a].left >= 0 => bucket'[a] = bucket[a]
        /\ bucket[a].left < 0 => bucket'[a] = [count |-> 0, left |-> -1]
        /\ bucket[a].left \in -1 .. Window
    BY DEF Limiter!Purged, Limiter!Expired, Limiter!NoBucket, BucketFits
  <1>2. Window \in Nat
    BY PlatformAssumption
  <1>3. CASE bucket[a].left >= 0
    BY <1>1, <1>3 DEF BucketFits
  <1>4. CASE bucket[a].left < 0
    BY <1>1, <1>2, <1>4 DEF BucketFits
  <1> QED BY <1>1, <1>2, <1>3, <1>4

LEMMA LimiterStep ==
  ASSUME BucketsFit, Limiter!Next
  PROVE  BucketsFit'
  <1>0. /\ Window \in Nat \ {0}
        /\ bucket \in [Addresses -> [count : Nat, left : -1 .. Window]]
        /\ admitted \in [Addresses -> [Ages -> Nat]]
        /\ \A a \in Addresses : BucketFits(a)
    BY PlatformAssumption DEF BucketsFit
  <1>1. CASE Limiter!Tick
    <2>1. /\ bucket' \in [Addresses -> [count : Nat, left : -1 .. Window]]
          /\ admitted' \in [Addresses -> [Ages -> Nat]]
      <3>1. bucket' \in [Addresses -> [count : Nat, left : -1 .. Window]]
        <4>1. \A b \in [count : Nat, left : -1 .. Window] :
                [b EXCEPT !.left = IF @ < 0 THEN @ ELSE @ - 1] \in [count : Nat, left : -1 .. Window]
          BY <1>0
        <4>2. bucket' = [a \in Addresses |->
                 [bucket[a] EXCEPT !.left = IF @ < 0 THEN @ ELSE @ - 1]]
          BY <1>1 DEF Limiter!Tick
        <4> QED BY <1>0, <4>1, <4>2
      <3>2. \A k \in Ages : k # 0 => k - 1 \in Ages
        BY <1>0 DEF Ages
      <3>3. admitted' = [a \in Addresses |->
               [age \in Ages |-> IF age = 0 THEN 0 ELSE admitted[a][age - 1]]]
        BY <1>1 DEF Limiter!Tick, Limiter!Ages, Ages
      <3>4. \A a \in Addresses : \A age \in Ages :
              (IF age = 0 THEN 0 ELSE admitted[a][age - 1]) \in Nat
        BY <1>0, <3>2
      <3> QED BY <3>1, <3>3, <3>4
    <2>2. ASSUME NEW a \in Addresses PROVE BucketFits(a)'
      BY <1>0, <1>1, TickedFits DEF Limiter!Tick, Limiter!Ages, Ages
    <2> QED BY <2>1, <2>2 DEF BucketsFit
  <1>2. ASSUME NEW a \in Addresses, Limiter!Admit(a) PROVE BucketsFit'
    <2> DEFINE b == Limiter!Opened(Limiter!Purged[a])
    <2>1. /\ b \in [count : Nat, left : -1 .. Window]
          /\ Limiter!Purged \in [Addresses -> [count : Nat, left : -1 .. Window]]
      BY <1>0 DEF Limiter!Opened, Limiter!Purged, Limiter!Expired, Limiter!NoBucket
    <2>2. /\ Limiter!Admits(a)
          /\ bucket' = [Limiter!Purged EXCEPT ![a] = [b EXCEPT !.count = @ + 1]]
          /\ admitted' = [admitted EXCEPT ![a][0] = @ + 1]
      BY <1>2, Zenon DEF Limiter!Admit
    <2> HIDE DEF b
    <2>3. /\ bucket' \in [Addresses -> [count : Nat, left : -1 .. Window]]
          /\ bucket'[a] = [b EXCEPT !.count = @ + 1]
          /\ \A c \in Addresses \ {a} : bucket'[c] = Limiter!Purged[c]
      BY <2>1, <2>2
    <2>4. /\ admitted' \in [Addresses -> [Ages -> Nat]]
          /\ admitted'[a] = [admitted[a] EXCEPT ![0] = @ + 1]
          /\ \A c \in Addresses \ {a} : admitted'[c] = admitted[c]
      <3>1. admitted[a] \in [Ages -> Nat] /\ 0 \in Ages
        BY <1>0 DEF Ages
      <3>2. \A f \in [Ages -> Nat] : [f EXCEPT ![0] = @ + 1] \in [Ages -> Nat]
        BY <3>1
      <3> QED BY <1>0, <2>2, <3>1, <3>2
    <2>5. BucketFits(a)'
      BY <1>0, <2>2, <2>3, <2>4, AdmittedFits DEF b
    <2>6. ASSUME NEW c \in Addresses \ {a} PROVE BucketFits(c)'
      BY <1>0, <2>3, <2>4, PurgedFits
    <2> QED BY <2>3, <2>4, <2>5, <2>6 DEF BucketsFit
  <1>3. ASSUME NEW a \in Addresses, Limiter!Refuse(a) PROVE BucketsFit'
    <2>1. bucket' = Limiter!Purged /\ admitted' = admitted
      BY <1>3 DEF Limiter!Refuse
    <2>2. Limiter!Purged \in [Addresses -> [count : Nat, left : -1 .. Window]]
      BY <1>0 DEF Limiter!Purged, Limiter!Expired, Limiter!NoBucket
    <2>3. ASSUME NEW c \in Addresses PROVE BucketFits(c)'
      BY <1>0, <2>1, PurgedFits
    <2> QED BY <1>0, <2>1, <2>2, <2>3 DEF BucketsFit
  <1> QED BY <1>1, <1>2, <1>3 DEF Limiter!Next

LEMMA LimiterInit == Limiter!Init => BucketsFit
  <1> SUFFICES ASSUME Limiter!Init PROVE BucketsFit
    OBVIOUS
  <1>0. Window \in Nat \ {0} /\ Limit \in Nat \ {0}
    BY PlatformAssumption
  <1>1. /\ bucket = [a \in Addresses |-> [count |-> 0, left |-> -1]]
        /\ admitted = [a \in Addresses |-> [age \in Ages |-> 0]]
    BY DEF Limiter!Init, Limiter!NoBucket, Limiter!Ages, Ages
  <1>2. ASSUME NEW a \in Addresses PROVE BucketFits(a)
    <2> DEFINE f == admitted[a]
    <2>1. f \in [Ages -> Nat] /\ f[0] = 0 /\ \A k \in 0 .. Window : f[k] = 0
      BY <1>0, <1>1 DEF Ages
    <2> HIDE DEF f
    <2>2. Upto(f, Window) = 0
      <3>1. IsFiniteSet(0 .. Window)
        BY <1>0, FS_Interval
      <3> QED BY <2>1, <3>1, SumOfZeros DEF Upto
    <2> QED BY <1>0, <1>1, <2>1, <2>2 DEF BucketFits, f
  <1> QED BY <1>0, <1>1, <1>2 DEF BucketsFit, Ages

\* The sums of the limiter's module are those of SumProofs.
LEMMA SameSum ==
  ASSUME NEW f, NEW S
  PROVE  Limiter!SumFunctionOnSet(f, S) = SumFunctionOnSet(f, S)
  BY Zenon DEF SumFunctionOnSet, FoldFunctionOnSet, MapThenFoldSet,
     Limiter!SumFunctionOnSet, Limiter!FoldFunctionOnSet, Limiter!MapThenFoldSet

\* The two properties of the limiter.
LEMMA LimiterPromises ==
  ASSUME BucketsFit
  PROVE  TwoBucketsAtMost /\ BucketsCountTheirOwn
  <1>0. Window \in Nat \ {0} /\ Limit \in Nat \ {0}
    BY PlatformAssumption
  <1>1. ASSUME NEW a \in Addresses PROVE Limiter!Recent(a) < 2 * Limit
    <2> DEFINE f == admitted[a]
               b == bucket[a]
    <2>1. Limiter!Recent(a) = Upto(f, Window)
      <3>1. f \in [Ages -> Nat]
        BY DEF BucketsFit
      <3>2. DOMAIN f = 0 .. Window
        BY <3>1 DEF Ages
      <3> QED BY <3>2, SameSum DEF Limiter!Recent, Limiter!SumFunction, Upto
    <2>2. /\ b.left \in -1 .. Window /\ b.count \in Nat
          /\ b.left < 0 => Upto(f, Window) < Limit
          /\ b.left >= 0 => b.count <= Limit /\ Upto(f, Window) - b.count < Limit
          /\ \A k \in 0 .. Window : f[k] \in Nat
      BY DEF BucketsFit, BucketFits, Ages
    <2> HIDE DEF f, b
    <2>3. Upto(f, Window) \in Nat
      BY <1>0, <2>2, UptoGrows
    <2> QED BY <1>0, <2>1, <2>2, <2>3
  <1>2. ASSUME NEW a \in Addresses, ~Limiter!Expired(bucket[a])
        PROVE  bucket[a].count
                 = Limiter!SumFunctionOnSet(admitted[a], 0 .. (Window - bucket[a].left))
    <2>1. bucket[a].count = Upto(admitted[a], Window - bucket[a].left)
      BY <1>2 DEF Limiter!Expired, BucketsFit, BucketFits
    <2> QED BY <2>1, SameSum DEF Upto
  <1>3. TwoBucketsAtMost
    BY <1>1 DEF TwoBucketsAtMost, Limiter!TwoBucketsAtMost
  <1>4. BucketsCountTheirOwn
    BY <1>2, Zenon DEF BucketsCountTheirOwn, Limiter!BucketsCountTheirOwn
  <1> QED BY <1>3, <1>4

-----------------------------------------------------------------------------
(***************************************************************************)
(* The contact lines: what an open create has seen is live and stands no   *)
(* further back than the maximum it has read.                              *)
(***************************************************************************)
ContactsOrdered ==
  /\ contact \in [ContactIds -> Lines!Contact]
  /\ create \in [Creates -> Lines!Create]
  /\ \A q \in Creates : create[q].open =>
       \A j \in create[q].seen : j \in Lines!Live /\ contact[j].sort <= create[q].max
  /\ \A i \in ContactIds : \A j \in contact[i].after : j \in Lines!Live
  /\ NewContactsGoLast

\* A set of integers between two bounds has a maximum.
LEMMA MaxOf ==
  ASSUME NEW b \in Int, NEW n \in Nat, NEW S \in SUBSET (b .. b + n), S # {}
  PROVE  Lines!Max(S) \in S /\ \A y \in S : y <= Lines!Max(S)
  <1> DEFINE A == {m \in Nat : \A T \in SUBSET (b .. b + m) :
                     T # {} => \E x \in T : \A y \in T : x >= y}
  <1>1. 0 \in A
    <2>1. ASSUME NEW T \in SUBSET (b .. b + 0), T # {} PROVE \E x \in T : \A y \in T : x >= y
      <3>1. PICK x \in T : TRUE
        BY <2>1
      <3>2. \A y \in T : y = b
        OBVIOUS
      <3>3. \A y \in T : x >= y
        BY <3>1, <3>2
      <3> QED BY <3>1, <3>3
    <2> QED BY <2>1
  <1>2. ASSUME NEW m \in Nat, m \in A PROVE m + 1 \in A
    <2>1. ASSUME NEW T \in SUBSET (b .. b + (m + 1)), T # {}
          PROVE  \E x \in T : \A y \in T : x >= y
      <3>1. CASE b + (m + 1) \in T
        <4>1. \A y \in T : b + (m + 1) >= y
          OBVIOUS
        <4> QED BY <3>1, <4>1
      <3>2. CASE b + (m + 1) \notin T
        <4>1. T \in SUBSET (b .. b + m)
          BY <3>2
        <4> QED BY <1>2, <2>1, <4>1
      <3> QED BY <3>1, <3>2
    <2> QED BY <2>1
  <1> HIDE DEF A
  <1>3. n \in A
    BY <1>1, <1>2, NatSets
  <1>4. \E x \in S : \A y \in S : x >= y
    BY <1>3 DEF A
  <1>5. Lines!Max(S) = CHOOSE x \in S : \A y \in S : x >= y
    BY Zenon DEF Lines!Max
  <1>6. Lines!Max(S) \in S /\ \A y \in S : Lines!Max(S) >= y
    BY <1>4, <1>5
  <1>7. \A y \in S : y \in Int
    OBVIOUS
  <1> QED BY <1>6, <1>7

\* What a create reads bounds the lines it sees.
LEMMA LastSortBounds ==
  ASSUME contact \in [ContactIds -> Lines!Contact]
  PROVE  Lines!LastSort \in MinSort .. MaxSort
         /\ \A i \in Lines!Live : contact[i].sort <= Lines!LastSort
  <1> DEFINE S == {contact[i].sort : i \in Lines!Live}
  <1>1. /\ MinSort \in Int /\ MaxSort \in Nat /\ MinSort <= 0
        /\ S \in SUBSET (MinSort .. MaxSort)
    BY PlatformAssumption DEF Lines!Contact, Lines!Live
  <1>2. \A i \in Lines!Live : contact[i].sort \in S
    OBVIOUS
  <1>3. Lines!LastSort = IF Lines!Live = {} THEN 0 ELSE Lines!Max(S)
    BY DEF Lines!LastSort
  <1> HIDE DEF S
  <1>4. CASE Lines!Live = {}
    BY <1>1, <1>3, <1>4
  <1>5. CASE Lines!Live # {}
    <2>1. S # {}
      BY <1>2, <1>5
    <2>2. MaxSort - MinSort \in Nat /\ S \in SUBSET (MinSort .. MinSort + (MaxSort - MinSort))
      BY <1>1
    <2>3. Lines!Max(S) \in S /\ \A y \in S : y <= Lines!Max(S)
      BY <1>1, <2>1, <2>2, MaxOf
    <2> QED BY <1>1, <1>2, <1>3, <1>5, <2>3
  <1> QED BY <1>4, <1>5

\* A line that is moved or deleted is taken out of what others remember.
LEMMA ReplaceOrdered ==
  ASSUME ContactsOrdered, NEW i \in ContactIds, NEW c \in Lines!Contact, c.after = {},
         Lines!Replace(i, c)
  PROVE  ContactsOrdered'
  <1>1. /\ contact' = [j \in ContactIds |->
              IF j = i THEN c ELSE [contact[j] EXCEPT !.after = @ \ {i}]]
        /\ create' = [q \in Creates |-> [create[q] EXCEPT !.seen = @ \ {i}]]
    BY DEF Lines!Replace
  <1>2. /\ contact \in [ContactIds -> Lines!Contact]
        /\ create \in [Creates -> Lines!Create]
        /\ \A q \in Creates : create[q].open =>
             \A j \in create[q].seen : j \in Lines!Live /\ contact[j].sort <= create[q].max
        /\ \A k \in ContactIds : \A j \in contact[k].after : j \in Lines!Live
        /\ \A k \in Lines!Live : \A j \in contact[k].after : Lines!Before(j, k)
    BY DEF ContactsOrdered, NewContactsGoLast, Lines!NewContactsGoLast
  <1>3. \A j \in ContactIds \ {i} : /\ contact'[j].row = contact[j].row
                                    /\ contact'[j].sort = contact[j].sort
                                    /\ contact'[j].after = contact[j].after \ {i}
    BY <1>1, <1>2 DEF Lines!Contact
  <1>4. contact'[i] = c
    BY <1>1
  <1>5. \A q \in Creates : /\ create'[q].open = create[q].open
                           /\ create'[q].max = create[q].max
                           /\ create'[q].seen = create[q].seen \ {i}
    BY <1>1, <1>2 DEF Lines!Create
  <1>6. contact' \in [ContactIds -> Lines!Contact] /\ create' \in [Creates -> Lines!Create]
    <2>1. \A d \in Lines!Contact : [d EXCEPT !.after = @ \ {i}] \in Lines!Contact
      BY DEF Lines!Contact
    <2>2. \A d \in Lines!Create : [d EXCEPT !.seen = @ \ {i}] \in Lines!Create
      BY DEF Lines!Create
    <2> QED BY <1>1, <1>2, <2>1, <2>2
  <1>7. \A j \in ContactIds \ {i} : j \in Lines!Live => j \in (Lines!Live)'
    BY <1>3 DEF Lines!Live
  <1>8. \A q \in Creates : create'[q].open =>
          \A j \in create'[q].seen : j \in (Lines!Live)' /\ contact'[j].sort <= create'[q].max
    BY <1>2, <1>3, <1>5, <1>7 DEF Lines!Live
  <1>9. \A k \in ContactIds : \A j \in contact'[k].after : j \in (Lines!Live)'
    BY <1>2, <1>3, <1>4, <1>7 DEF Lines!Live
  <1>10. \A k \in (Lines!Live)' : \A j \in contact'[k].after : Lines!Before(j, k)'
    BY <1>2, <1>3, <1>4 DEF Lines!Live, Lines!Before
  <1> QED
    BY <1>6, <1>8, <1>9, <1>10 DEF ContactsOrdered, NewContactsGoLast, Lines!NewContactsGoLast

LEMMA ContactsStep ==
  ASSUME ContactsOrdered, Lines!Next
  PROVE  ContactsOrdered'
  <1>0. /\ MaxSort \in Nat /\ MinSort \in Int /\ MinSort <= 0 /\ ContactIds \subseteq Nat
        /\ contact \in [ContactIds -> Lines!Contact]
        /\ create \in [Creates -> Lines!Create]
        /\ \A q \in Creates : create[q].open =>
             \A j \in create[q].seen : j \in Lines!Live /\ contact[j].sort <= create[q].max
        /\ \A k \in ContactIds : \A j \in contact[k].after : j \in Lines!Live
        /\ \A k \in Lines!Live : \A j \in contact[k].after : Lines!Before(j, k)
    BY PlatformAssumption DEF ContactsOrdered, NewContactsGoLast, Lines!NewContactsGoLast
  <1>1. ASSUME NEW q \in Creates, Lines!BeginCreate(q) PROVE ContactsOrdered'
    <2>1. /\ contact' = contact
          /\ create' = [create EXCEPT ![q] =
               [open |-> TRUE, max |-> Lines!LastSort, seen |-> Lines!Live]]
      BY <1>1 DEF Lines!BeginCreate
    <2>2. Lines!LastSort \in MinSort .. MaxSort
          /\ \A i \in Lines!Live : contact[i].sort <= Lines!LastSort
      BY <1>0, LastSortBounds
    <2>3. Lines!Live \subseteq ContactIds /\ (Lines!Live)' = Lines!Live
      BY <2>1 DEF Lines!Live
    <2>4. [open |-> TRUE, max |-> Lines!LastSort, seen |-> Lines!Live] \in Lines!Create
      BY <2>2, <2>3 DEF Lines!Create
    <2> QED
      BY <1>0, <2>1, <2>2, <2>3, <2>4 DEF ContactsOrdered, NewContactsGoLast,
         Lines!NewContactsGoLast, Lines!Before
  <1>2. ASSUME NEW q \in Creates, Lines!RefuseCreate(q) PROVE ContactsOrdered'
    <2>1. contact' = contact /\ create' = [create EXCEPT ![q] = Lines!NoCreate]
      BY <1>2 DEF Lines!RefuseCreate
    <2>2. Lines!NoCreate \in Lines!Create /\ ~Lines!NoCreate.open
      BY <1>0 DEF Lines!NoCreate, Lines!Create
    <2> QED
      BY <1>0, <2>1, <2>2 DEF ContactsOrdered, NewContactsGoLast, Lines!NewContactsGoLast,
         Lines!Before, Lines!Live
  <1>3. ASSUME NEW q \in Creates, NEW i \in ContactIds, Lines!InsertContact(q, i)
        PROVE  ContactsOrdered'
    <2> DEFINE c == [row |-> "live", sort |-> create[q].max + 1, after |-> create[q].seen]
    <2>1. /\ create[q].open /\ create[q].max < MaxSort /\ contact[i].row = "unused"
          /\ contact' = [contact EXCEPT ![i] = c]
          /\ create' = [create EXCEPT ![q] = Lines!NoCreate]
      BY <1>3 DEF Lines!InsertContact
    <2>2. Lines!NoCreate \in Lines!Create /\ ~Lines!NoCreate.open
      BY <1>0 DEF Lines!NoCreate, Lines!Create
    <2>3. create[q].max \in MinSort .. MaxSort /\ create[q].seen \in SUBSET ContactIds
      BY <1>0 DEF Lines!Create
    <2>4. c \in Lines!Contact
      BY <1>0, <2>1, <2>3 DEF Lines!Contact
    <2>5. /\ i \notin Lines!Live /\ (Lines!Live)' = Lines!Live \cup {i}
          /\ contact'[i] = c /\ \A j \in ContactIds \ {i} : contact'[j] = contact[j]
          /\ Lines!Live \subseteq ContactIds
      BY <1>0, <2>1 DEF Lines!Live
    <2>6. \A p \in Creates \ {q} : create'[p] = create[p]
      BY <1>0, <2>1
    <2>7. contact' \in [ContactIds -> Lines!Contact] /\ create' \in [Creates -> Lines!Create]
      BY <1>0, <2>1, <2>2, <2>4
    <2>8. \A p \in Creates : create'[p].open =>
            \A j \in create'[p].seen : j \in (Lines!Live)' /\ contact'[j].sort <= create'[p].max
      <3>1. create'[q] = Lines!NoCreate
        BY <1>0, <2>1
      <3> QED BY <1>0, <2>2, <2>5, <2>6, <3>1
    <2>9. \A k \in ContactIds : \A j \in contact'[k].after : j \in (Lines!Live)'
      BY <1>0, <2>1, <2>5
    <2>10. ASSUME NEW k \in (Lines!Live)', NEW j \in contact'[k].after
           PROVE  Lines!Before(j, k)'
      <3>1. CASE k # i
        <4>1. k \in Lines!Live /\ contact'[k] = contact[k] /\ j \in Lines!Live /\ j # i
          BY <1>0, <2>5, <3>1
        <4> QED BY <1>0, <2>5, <4>1 DEF Lines!Before
      <3>2. CASE k = i
        <4>1. j \in create[q].seen /\ contact'[k].sort = create[q].max + 1
          BY <2>5, <3>2
        <4>2. j \in Lines!Live /\ contact[j].sort <= create[q].max /\ contact'[j] = contact[j]
          BY <1>0, <2>1, <2>5, <4>1
        <4>3. contact[j].sort \in Int
          BY <1>0, <2>5, <4>2 DEF Lines!Contact
        <4> QED BY <2>3, <4>1, <4>2, <4>3 DEF Lines!Before
      <3> QED BY <3>1, <3>2
    <2> QED
      BY <2>7, <2>8, <2>9, <2>10 DEF ContactsOrdered, NewContactsGoLast, Lines!NewContactsGoLast
  <1>4. ASSUME NEW i \in ContactIds, Lines!DeleteContact(i) PROVE ContactsOrdered'
    <2>1. [Lines!NoContact EXCEPT !.row = "deleted"] \in Lines!Contact
          /\ [Lines!NoContact EXCEPT !.row = "deleted"].after = {}
      BY <1>0 DEF Lines!NoContact, Lines!Contact
    <2> QED BY <1>4, <2>1, ReplaceOrdered DEF Lines!DeleteContact
  <1>5. ASSUME NEW i \in ContactIds, NEW sort \in MinSort .. MaxSort, Lines!UpdateContact(i, sort)
        PROVE  ContactsOrdered'
    <2>1. [row |-> "live", sort |-> sort, after |-> {}] \in Lines!Contact
          /\ [row |-> "live", sort |-> sort, after |-> {}].after = {}
      BY DEF Lines!Contact
    <2> QED BY <1>5, <2>1, ReplaceOrdered DEF Lines!UpdateContact
  <1> QED BY <1>1, <1>2, <1>3, <1>4, <1>5, Lines!Next DEF Lines!Next

LEMMA ContactsInit == Lines!Init => ContactsOrdered
  <1> SUFFICES ASSUME Lines!Init PROVE ContactsOrdered
    OBVIOUS
  <1>1. Lines!NoContact \in Lines!Contact /\ Lines!NoCreate \in Lines!Create
        /\ ~Lines!NoCreate.open /\ Lines!NoContact.after = {}
    BY PlatformAssumption DEF Lines!NoContact, Lines!NoCreate, Lines!Contact, Lines!Create
  <1> QED
    BY <1>1 DEF Lines!Init, ContactsOrdered, NewContactsGoLast, Lines!NewContactsGoLast, Lines!Live

-----------------------------------------------------------------------------
(***************************************************************************)
(* The Chromium of a process: its request launches it under docsOnce while *)
(* there is none, and nobody else can.                                     *)
(***************************************************************************)
Launching(q) == request[q] = "launching"

ChromiumFits ==
  /\ request \in [PdfRequests -> Chromium!Steps]
  /\ docs \in {"none", "ready", "dead"} /\ once \in {"new", "running", "done"}
  /\ browsers = IF docs = "ready" THEN 1 ELSE 0
  /\ ~up => docs = "none" /\ \A q \in PdfRequests : request[q] = "idle"
  /\ \A q \in PdfRequests : Launching(q) => docs = "none" /\ once = "running"
  /\ \A q, r \in PdfRequests : Launching(q) /\ Launching(r) => q = r

LEMMA ChromiumInit == Chromium!Init => ChromiumFits
  BY DEF Chromium!Init, ChromiumFits, Chromium!Steps, Launching

LEMMA ChromiumStep ==
  ASSUME ChromiumFits, Chromium!Next
  PROVE  ChromiumFits'
  <1>1. CASE Chromium!Boot
    BY <1>1 DEF Chromium!Boot, ChromiumFits, Launching
  <1>2. CASE Chromium!BrowserDies \/ Chromium!Install
    BY <1>2 DEF Chromium!BrowserDies, Chromium!Install, ChromiumFits, Launching
  <1>3. CASE Chromium!Restart
    BY <1>3 DEF Chromium!Restart, ChromiumFits, Chromium!Steps, Launching
  <1>4. ASSUME NEW q \in PdfRequests, Chromium!Ask(q) \/ Chromium!Serve(q) PROVE ChromiumFits'
    <2>1. CASE \/ Chromium!Ask(q) \/ Chromium!FindRenderer(q) \/ Chromium!Wait(q)
               \/ Chromium!WaitOver(q) \/ Chromium!Render(q)
      BY <2>1 DEF Chromium!Ask, Chromium!FindRenderer, Chromium!Wait, Chromium!WaitOver,
         Chromium!Render, Chromium!Go, Chromium!At, ChromiumFits, Chromium!Steps, Launching
    <2>2. CASE Chromium!BecomeFirst(q)
      BY <2>2 DEF Chromium!BecomeFirst, Chromium!First, Chromium!Go, Chromium!At,
         ChromiumFits, Chromium!Steps, Launching
    <2>3. CASE Chromium!Launch(q)
      BY <2>3 DEF Chromium!Launch, Chromium!Go, Chromium!At, ChromiumFits, Chromium!Steps,
         Launching
    <2> QED BY <1>4, <2>1, <2>2, <2>3 DEF Chromium!Serve
  <1> QED BY <1>1, <1>2, <1>3, <1>4, Chromium!Next DEF Chromium!Next

LEMMA ChromiumPromises == ChromiumFits => OneChromium
  BY DEF ChromiumFits, OneChromium, Chromium!OneChromium

-----------------------------------------------------------------------------
(***************************************************************************)
(* lineTotal is exact for every value of its limits, as long as the        *)
(* largest total fits in the machine's word.                               *)
(***************************************************************************)

\* A division bounds a factor exactly as the product would.
LEMMA DivBound ==
  ASSUME NEW t \in Nat, NEW a \in Nat, NEW b \in Nat, b > 0
  PROVE  a <= t \div b <=> a * b <= t
  <1> DEFINE q == t \div b  r == t % b
  <1>1. q \in Nat /\ r \in 0 .. b - 1 /\ t = b * q + r
    OBVIOUS
  <1> HIDE DEF q, r
  <1>2. CASE a <= q
    <2>1. a * b <= q * b  BY <1>1, <1>2
    <2> QED BY <2>1, <1>1, <1>2 DEF q
  <1>3. CASE a > q
    <2>1. a >= q + 1 BY <1>1, <1>3
    <2>2. a * b >= (q + 1) * b  BY <1>1, <2>1
    <2>3. (q + 1) * b = b * q + b BY <1>1
    <2> QED BY <2>2, <2>3, <1>1, <1>3 DEF q
  <1> QED BY <1>1, <1>2, <1>3

\* What is below the word is what the machine holds.
LEMMA NoWrap ==
  ASSUME NEW x \in Nat, x < Word
  PROVE  Total!Wrap(x) = x
  <1> DEFINE y == x + Word  w == 2 * Word
  <1>1. y \in Nat /\ w \in Nat /\ 0 <= y /\ y < w /\ w > 0
    BY PlatformAssumption
  <1> HIDE DEF y, w
  <1>2. y % w = y
    BY <1>1
  <1>3. Total!Wrap(x) = (y % w) - Word
    BY DEF Total!Wrap, y, w
  <1>4. y = x + Word /\ Word \in Nat
    BY PlatformAssumption DEF y
  <1> QED BY <1>2, <1>3, <1>4

\* A product of naturals is no less than one of its factors times what is not 0.
LEMMA FactorBound ==
  ASSUME NEW a \in Nat, NEW b \in Nat, b >= 1
  PROVE  a * b \in Nat /\ a <= a * b
  <1>1. a * 1 <= a * b
    OBVIOUS
  <1> QED BY <1>1

\* For every in-range line of whatever limits, lineTotal (invoices.go:170) accepts
\* exactly the totals that fit and returns them without a wrap on the way.
THEOREM LineTotalIsExact ==
  ASSUME NEW price, NEW units, NEW packs
  PROVE  Total!Exact(price, units, packs)
  <1> SUFFICES ASSUME Total!InRange(price, units, packs)
               PROVE  Total!Exact(price, units, packs)
    BY DEF Total!Exact
  <1>0. MaxTotal \in Nat /\ Word \in Nat /\ MaxTotal < Word
    BY PlatformAssumption
  <1>1. /\ price \in Nat /\ units \in Nat /\ packs \in Nat
        /\ units >= 1 /\ packs >= 1
    BY DEF Total!InRange
  <1> DEFINE pieces == units * packs
             total == price * pieces
             ok == Total!Fits(price, units, packs)
             fits == pieces <= MaxTotal /\ total <= MaxTotal
  <1>2. pieces \in Nat /\ pieces >= 1 /\ total \in Nat
    <2>1. pieces \in Nat /\ units <= pieces
      BY <1>1, FactorBound
    <2> HIDE DEF pieces
    <2> QED BY <1>1, <2>1
  <1>3. price * units * packs = total
    BY <1>1
  <1>4. units <= MaxTotal \div packs <=> pieces <= MaxTotal
    BY <1>0, <1>1, DivBound
  <1>5. ASSUME pieces <= MaxTotal
        PROVE  ok <=> total <= MaxTotal
    <2>1. Total!Wrap(pieces) = pieces
      <3> HIDE DEF pieces
      <3> QED BY <1>0, <1>2, <1>5, NoWrap
    <2>2. price <= MaxTotal \div pieces <=> total <= MaxTotal
      <3> HIDE DEF pieces
      <3> QED BY <1>0, <1>1, <1>2, DivBound
    <2>3. ~(price > 0) => total <= MaxTotal
      <3> HIDE DEF pieces
      <3> QED BY <1>0, <1>1, <1>2
    <2>4. ok <=> (price > 0 => price <= MaxTotal \div pieces)
      BY <1>4, <1>5, <2>1 DEF Total!Fits
    <2> HIDE DEF ok, total, pieces
    <2> QED BY <2>2, <2>3, <2>4
  <1>6. ok <=> fits
    <2>1. ok => pieces <= MaxTotal
      BY <1>4 DEF Total!Fits
    <2> HIDE DEF ok, pieces, total
    <2> QED BY <1>5, <2>1 DEF fits
  <1>7. ASSUME fits
        PROVE  Total!Wrap(Total!Wrap(price * units) * packs) = total
    <2>1. price * units \in Nat /\ price * units <= price * units * packs
      <3> DEFINE cost == price * units
      <3>1. cost \in Nat
        BY <1>1
      <3> HIDE DEF cost
      <3> QED BY <3>1, <1>1, FactorBound DEF cost
    <2>2. price * units < Word
      BY <1>0, <2>1, <1>2, <1>3, <1>7
    <2>3. Total!Wrap(price * units) = price * units
      <3> DEFINE cost == price * units
      <3> HIDE DEF cost
      <3>1. cost \in Nat /\ cost < Word
        BY <2>1, <2>2 DEF cost
      <3> QED BY <3>1, NoWrap DEF cost
    <2>4. Total!Wrap(total) = total
      <3> HIDE DEF total
      <3> QED BY <1>0, <1>2, <1>7, NoWrap DEF total
    <2> QED BY <2>3, <2>4, <1>3
  <1>8. Total!LineTotal(price, units, packs) =
          IF fits THEN [ok |-> TRUE, total |-> Total!Wrap(Total!Wrap(price * units) * packs)]
          ELSE [ok |-> FALSE, total |-> 0]
    BY <1>6 DEF Total!LineTotal
  <1> HIDE DEF pieces, total, ok
  <1>9. fits <=> units * packs <= MaxTotal /\ price * units * packs <= MaxTotal
    BY <1>3 DEF pieces, fits
  <1> HIDE DEF fits
  <1> QED BY <1>3, <1>7, <1>8, <1>9 DEF Total!Exact

-----------------------------------------------------------------------------
(***************************************************************************)
(* The migrations.  While the first m files are recorded, only names that  *)
(* file m + 1 is about may differ from what those files give, and those    *)
(* its statements have passed are as these left them: a file that is run   *)
(* again from its start ends as it would have ended the first time.  While *)
(* nobody was stopped, nothing differs at all.                             *)
(***************************************************************************)
Stmt == [kind : Schema!Kinds, names : SUBSET Schema!Names]

LEMMA ScriptFacts ==
  /\ Len(Script) \in Nat /\ DOMAIN Script = 1 .. Len(Script)
  /\ \A f \in 1 .. Len(Script) :
       /\ Schema!End(f) \in Nat /\ Schema!End(f) >= 2
       /\ Schema!End(f) = Len(Script[f].statements) + 1
       /\ \A k \in 1 .. Schema!End(f) - 1 : Script[f].statements[k] \in Stmt
  <1> DEFINE File == [owners : BOOLEAN, statements : Seq(Stmt)]
  <1>1. Script \in Seq(File) /\ \A f \in DOMAIN Script : Script[f].statements # <<>>
    BY PlatformAssumption DEF Schema!ScriptRuns, Stmt
  <1>2. Len(Script) \in Nat /\ DOMAIN Script = 1 .. Len(Script)
    BY <1>1
  <1>3. ASSUME NEW f \in 1 .. Len(Script)
        PROVE  /\ Schema!End(f) \in Nat /\ Schema!End(f) >= 2
               /\ Schema!End(f) = Len(Script[f].statements) + 1
               /\ \A k \in 1 .. Schema!End(f) - 1 : Script[f].statements[k] \in Stmt
    <2>1. Script[f] \in File
      <3> HIDE DEF File
      <3> QED BY <1>1, <1>2
    <2> DEFINE s == Script[f].statements
    <2>2. s \in Seq(Stmt) /\ s # <<>>
      BY <1>1, <1>2, <2>1
    <2>3. Schema!End(f) = Len(s) + 1
      BY DEF Schema!End
    <2> HIDE DEF s, File
    <2>4. Len(s) \in Nat /\ Len(s) # 0 /\ \A k \in 1 .. Len(s) : s[k] \in Stmt
      BY <2>2
    <2> QED BY <2>3, <2>4 DEF s
  <1> QED BY <1>2, <1>3

\* What a statement leaves of a name, and so do those before the next one.
LEMMA OneMoreStatement ==
  ASSUME NEW f \in 1 .. Len(Script), NEW k \in 1 .. Schema!End(f) - 1, NEW name,
         NEW s, s = Script[f].statements[k]
  PROVE  /\ Schema!Adds(s, name) => Schema!Touched(f, k + 1, name) /\ Schema!Given(f, k + 1, name)
         /\ Schema!Drops(s, name) => Schema!Touched(f, k + 1, name) /\ ~Schema!Given(f, k + 1, name)
         /\ ~Schema!Adds(s, name) /\ ~Schema!Drops(s, name) =>
              /\ Schema!Touched(f, k + 1, name) <=> Schema!Touched(f, k, name)
              /\ Schema!Given(f, k + 1, name) <=> Schema!Given(f, k, name)
  <1> DEFINE ss == Script[f].statements
  <1>1. k \in Nat /\ k >= 1 /\ (k + 1) - 1 = k
    BY ScriptFacts
  <1>2. Schema!Touched(f, k + 1, name) <=>
          \E i \in 1 .. k : Schema!Adds(ss[i], name) \/ Schema!Drops(ss[i], name)
    BY <1>1 DEF Schema!Touched
  <1>3. Schema!Touched(f, k, name) <=>
          \E i \in 1 .. k - 1 : Schema!Adds(ss[i], name) \/ Schema!Drops(ss[i], name)
    BY DEF Schema!Touched
  <1>4. Schema!Given(f, k + 1, name) <=>
          \E i \in 1 .. k : Schema!Adds(ss[i], name)
                            /\ \A j \in i + 1 .. k : ~Schema!Drops(ss[j], name)
    BY <1>1 DEF Schema!Given
  <1>5. Schema!Given(f, k, name) <=>
          \E i \in 1 .. k - 1 : Schema!Adds(ss[i], name)
                                /\ \A j \in i + 1 .. k - 1 : ~Schema!Drops(ss[j], name)
    BY DEF Schema!Given
  <1>6. Schema!Drops(s, name) => ~Schema!Adds(s, name)
    BY DEF Schema!Drops, Schema!Adds
  <1>7. s = ss[k]
    OBVIOUS
  <1> HIDE DEF ss
  <1>8. \A i \in 1 .. k : i = k \/ i \in 1 .. k - 1
    BY <1>1
  <1>9. \A i \in 1 .. k - 1 : i \in 1 .. k /\ k \in i + 1 .. k
                              /\ \A j \in i + 1 .. k - 1 : j \in i + 1 .. k
    BY <1>1
  <1>10. k \in 1 .. k /\ k + 1 .. k = {}
    BY <1>1
  <1>11. \A i \in 1 .. k - 1 : \A j \in i + 1 .. k : j = k \/ j \in i + 1 .. k - 1
    BY <1>1
  <1>12. Schema!Adds(s, name) => Schema!Touched(f, k + 1, name) /\ Schema!Given(f, k + 1, name)
    BY <1>2, <1>4, <1>7, <1>10
  <1>13. Schema!Drops(s, name) => Schema!Touched(f, k + 1, name) /\ ~Schema!Given(f, k + 1, name)
    BY <1>2, <1>4, <1>6, <1>7, <1>8, <1>9, <1>10
  <1>14. ASSUME ~Schema!Adds(s, name), ~Schema!Drops(s, name)
         PROVE  /\ Schema!Touched(f, k + 1, name) <=> Schema!Touched(f, k, name)
                /\ Schema!Given(f, k + 1, name) <=> Schema!Given(f, k, name)
    <2>1. Schema!Touched(f, k + 1, name) <=> Schema!Touched(f, k, name)
      BY <1>2, <1>3, <1>7, <1>8, <1>9, <1>14
    <2>2. Schema!Given(f, k + 1, name) => Schema!Given(f, k, name)
      BY <1>4, <1>5, <1>7, <1>8, <1>9, <1>14
    <2>3. Schema!Given(f, k, name) => Schema!Given(f, k + 1, name)
      BY <1>4, <1>5, <1>7, <1>9, <1>11, <1>14
    <2> QED BY <2>1, <2>2, <2>3
  <1> QED BY <1>12, <1>13, <1>14

\* Before its first statement a file has said nothing.
LEMMA NoStatementYet ==
  ASSUME NEW f, NEW name
  PROVE  ~Schema!Touched(f, 1, name) /\ ~Schema!Given(f, 1, name)
  <1>1. 1 .. 1 - 1 = {}
    OBVIOUS
  <1> QED BY <1>1 DEF Schema!Touched, Schema!Given

\* What is given was touched.
LEMMA GivenIsTouched ==
  ASSUME NEW f, NEW k, NEW name, Schema!Given(f, k, name)
  PROVE  Schema!Touched(f, k, name)
  BY DEF Schema!Given, Schema!Touched

\* One more file: what it says comes first, then what the files before it gave.
LEMMA OneMoreFile ==
  ASSUME NEW m \in Nat
  PROVE  Schema!SchemaOf(m + 1) = Schema!SchemaAt(m + 1, Schema!End(m + 1))
  <1> SUFFICES ASSUME NEW name \in Schema!Names
               PROVE  name \in Schema!SchemaOf(m + 1)
                        <=> name \in Schema!SchemaAt(m + 1, Schema!End(m + 1))
    BY DEF Schema!SchemaOf, Schema!SchemaAt
  <1> DEFINE G(f) == Schema!Given(f, Schema!End(f), name)
             T(f) == Schema!Touched(f, Schema!End(f), name)
  <1>1. name \in Schema!SchemaOf(m + 1)
          <=> \E f \in 1 .. m + 1 : G(f) /\ \A g \in f + 1 .. m + 1 : ~T(g)
    BY DEF Schema!SchemaOf
  <1>2. name \in Schema!SchemaOf(m) <=> \E f \in 1 .. m : G(f) /\ \A g \in f + 1 .. m : ~T(g)
    BY DEF Schema!SchemaOf
  <1>3. name \in Schema!SchemaAt(m + 1, Schema!End(m + 1))
          <=> G(m + 1) \/ (~T(m + 1) /\ name \in Schema!SchemaOf(m))
    <2>1. (m + 1) - 1 = m
      OBVIOUS
    <2> QED BY <2>1 DEF Schema!SchemaAt
  <1> HIDE DEF G, T
  <1>4. G(m + 1) => name \in Schema!SchemaOf(m + 1)
    <2>1. m + 1 \in 1 .. m + 1 /\ (m + 1) + 1 .. m + 1 = {}
      OBVIOUS
    <2> QED BY <1>1, <2>1
  <1>5. ASSUME ~T(m + 1), name \in Schema!SchemaOf(m) PROVE name \in Schema!SchemaOf(m + 1)
    <2>1. PICK f \in 1 .. m : G(f) /\ \A g \in f + 1 .. m : ~T(g)
      BY <1>2, <1>5
    <2>2. f \in 1 .. m + 1 /\ \A g \in f + 1 .. m + 1 : g = m + 1 \/ g \in f + 1 .. m
      OBVIOUS
    <2> QED BY <1>1, <1>5, <2>1, <2>2
  <1>6. ASSUME name \in Schema!SchemaOf(m + 1), ~G(m + 1)
        PROVE  ~T(m + 1) /\ name \in Schema!SchemaOf(m)
    <2>1. PICK f \in 1 .. m + 1 : G(f) /\ \A g \in f + 1 .. m + 1 : ~T(g)
      BY <1>1, <1>6
    <2>2. f \in 1 .. m
      BY <1>6, <2>1
    <2>3. m + 1 \in f + 1 .. m + 1 /\ \A g \in f + 1 .. m : g \in f + 1 .. m + 1
      BY <2>2
    <2> QED BY <1>2, <2>1, <2>2, <2>3
  <1> QED BY <1>3, <1>4, <1>5, <1>6

\* Where each process stands while the first m files are recorded.
ProcessesFit(m) ==
  /\ process \in [Processes -> [at : Schema!Ats, file : Nat, statement : Nat]]
  /\ \A p \in Processes :
       /\ process[p].at \in {"file", "statement", "record"} <=> holder = p
       /\ process[p].at \in {"down", "failed", "lock"} => process[p].file = 1
       /\ process[p].at \notin {"statement", "record"} => process[p].statement = 1
       /\ process[p].at = "file" => process[p].file \in 1 .. m + 1
       /\ process[p].at = "statement" =>
            /\ process[p].file = m + 1 /\ m < Len(Script)
            /\ process[p].statement \in 1 .. Schema!End(m + 1) - 1
       /\ process[p].at = "record" =>
            /\ process[p].file = m + 1 /\ m < Len(Script)
            /\ process[p].statement = Schema!End(m + 1)
       /\ process[p].at = "listening" => m = Len(Script)

\* The schema, of which statements before the k-th of file m + 1 have just run.
SchemaFits(m, k) ==
  /\ schema \subseteq Schema!Names
  /\ m = Len(Script) => schema = Schema!SchemaOf(m)
  /\ m < Len(Script) =>
       \A name \in Schema!Names :
         /\ Schema!Touched(m + 1, k, name) =>
              (name \in schema <=> Schema!Given(m + 1, k, name))
         /\ ~Schema!Touched(m + 1, Schema!End(m + 1), name) =>
              (name \in schema <=> name \in Schema!SchemaOf(m))
  /\ stops = 0 => schema = Schema!SchemaAt(m + 1, k)

\* Without a process in the middle of a file nothing has just run.
Passed ==
  IF \E p \in Processes : process[p].at \in {"statement", "record"}
  THEN process[holder].statement ELSE 1

FitsAfter(m) ==
  /\ recorded = 1 .. m
  /\ ProcessesFit(m)
  /\ SchemaFits(m, Passed)
  /\ stops \in Nat

MigrationsFit == \E m \in 0 .. Len(Script) : FitsAfter(m)

LEMMA SchemaAtStart ==
  ASSUME NEW m \in Nat
  PROVE  Schema!SchemaAt(m + 1, 1) = Schema!SchemaOf(m)
  <1>1. (m + 1) - 1 = m /\ Schema!SchemaOf(m) \subseteq Schema!Names
    BY DEF Schema!SchemaOf
  <1> QED BY <1>1, NoStatementYet DEF Schema!SchemaAt

\* In the middle of a file is only who holds the lock.
LEMMA PassedIs ==
  ASSUME NEW m, ProcessesFit(m)
  PROVE  /\ \A p \in Processes :
              process[p].at \in {"statement", "record"} => Passed = process[p].statement /\ holder = p
         /\ (\A p \in Processes : process[p].at \notin {"statement", "record"}) => Passed = 1
         /\ holder \notin Processes => Passed = 1
         /\ \A p \in Processes :
              process[p].at = "file" => Passed = 1
  BY DEF ProcessesFit, Passed

\* A step that leaves the database alone and loses no place in a file, or whose
\* process was stopped there.
LEMMA SameDatabase ==
  ASSUME NEW m \in 0 .. Len(Script), FitsAfter(m), UNCHANGED <<schema, recorded>>,
         stops' \in Nat, ProcessesFit(m)',
         \/ Passed' = Passed /\ stops' = stops
         \/ Passed' = 1 /\ stops' # 0
  PROVE  FitsAfter(m)'
  <1>1. CASE Passed' = Passed /\ stops' = stops
    BY <1>1 DEF FitsAfter, SchemaFits
  <1>2. CASE Passed' = 1 /\ stops' # 0
    <2>1. \A name : ~Schema!Touched(m + 1, 1, name)
      BY NoStatementYet
    <2> QED BY <1>2, <2>1 DEF FitsAfter, SchemaFits
  <1> QED BY <1>1, <1>2

LEMMA ExecuteFits ==
  ASSUME NEW m \in 0 .. Len(Script), FitsAfter(m), NEW p \in Processes, Schema!Execute(p)
  PROVE  FitsAfter(m)'
  <1> DEFINE f == m + 1
             k == process[p].statement
             s == Script[f].statements[k]
  <1>1. /\ process[p].at = "statement" /\ process[p].file = f /\ m < Len(Script) /\ holder = p
        /\ f \in 1 .. Len(Script) /\ k \in 1 .. Schema!End(f) - 1 /\ Passed = k
        /\ process \in [Processes -> [at : Schema!Ats, file : Nat, statement : Nat]]
        /\ m \in Nat
    BY ScriptFacts, PassedIs DEF Schema!Execute, Schema!At, FitsAfter, ProcessesFit
  <1>2. s \in Stmt /\ Schema!End(f) = Len(Script[f].statements) + 1 /\ Schema!End(f) \in Nat
    BY <1>1, ScriptFacts
  <1>3. /\ schema' = Schema!Effect(s, schema)
        /\ process' = [process EXCEPT
             ![p].at = IF k = Len(Script[f].statements) THEN "record" ELSE @,
             ![p].statement = @ + 1]
        /\ recorded' = recorded /\ holder' = holder /\ stops' = stops
    BY <1>1 DEF Schema!Execute, Schema!Statement, Schema!File
  <1> HIDE DEF f, k, s
  <1>4. /\ process'[p].file = f /\ process'[p].statement = k + 1
        /\ process'[p].at = IF k + 1 = Schema!End(f) THEN "record" ELSE "statement"
        /\ \A q \in Processes \ {p} : process'[q] = process[q]
        /\ process' \in [Processes -> [at : Schema!Ats, file : Nat, statement : Nat]]
    <2>1. k \in Nat /\ k + 1 \in Nat /\ (k = Len(Script[f].statements) <=> k + 1 = Schema!End(f))
      BY <1>1, <1>2
    <2> QED BY <1>1, <1>3, <2>1 DEF Schema!Ats, k
  <1>5. ProcessesFit(m)'
    <2>1. \A q \in Processes \ {p} : holder # q
      BY <1>1
    <2>2. k + 1 \in 1 .. Schema!End(f)
      BY <1>1, <1>2
    <2>3. k + 1 # Schema!End(f) => k + 1 \in 1 .. Schema!End(f) - 1
      BY <1>2, <2>2
    <2>4. ProcessesFit(m)
      BY DEF FitsAfter
    <2> QED BY <1>1, <1>3, <1>4, <2>1, <2>3, <2>4 DEF ProcessesFit, f
  <1>6. Passed' = k + 1
    BY <1>1, <1>3, <1>4 DEF Passed
  <1>7. /\ \A name : name \in schema' <=>
             Schema!Adds(s, name) \/ (name \in schema /\ ~Schema!Drops(s, name))
        /\ schema' \subseteq Schema!Names
    <2>1. s.names \subseteq Schema!Names /\ schema \subseteq Schema!Names
      BY <1>2 DEF Stmt, FitsAfter, SchemaFits
    <2> QED BY <1>3, <2>1 DEF Schema!Effect, Schema!Adds, Schema!Drops
  <1>8. \A name :
          /\ Schema!Adds(s, name) => Schema!Touched(f, k + 1, name) /\ Schema!Given(f, k + 1, name)
          /\ Schema!Drops(s, name) => Schema!Touched(f, k + 1, name) /\ ~Schema!Given(f, k + 1, name)
          /\ ~Schema!Adds(s, name) /\ ~Schema!Drops(s, name) =>
               /\ Schema!Touched(f, k + 1, name) <=> Schema!Touched(f, k, name)
               /\ Schema!Given(f, k + 1, name) <=> Schema!Given(f, k, name)
    BY <1>1, OneMoreStatement DEF s
  <1>9. \A name : Schema!Adds(s, name) \/ Schema!Drops(s, name) => Schema!Touched(f, Schema!End(f), name)
    <2>1. k \in 1 .. Schema!End(f) - 1
      BY <1>1
    <2> QED BY <2>1 DEF Schema!Touched, s
  <1>10. /\ \A name \in Schema!Names :
              /\ Schema!Touched(f, k, name) => (name \in schema <=> Schema!Given(f, k, name))
              /\ ~Schema!Touched(f, Schema!End(f), name) =>
                   (name \in schema <=> name \in Schema!SchemaOf(m))
         /\ stops = 0 => schema = Schema!SchemaAt(f, k)
    BY <1>1 DEF FitsAfter, SchemaFits, f
  <1>11. \A name \in Schema!Names :
           /\ Schema!Touched(f, k + 1, name) => (name \in schema' <=> Schema!Given(f, k + 1, name))
           /\ ~Schema!Touched(f, Schema!End(f), name) =>
                (name \in schema' <=> name \in Schema!SchemaOf(m))
    BY <1>7, <1>8, <1>9, <1>10
  <1>12. ASSUME stops = 0 PROVE schema' = Schema!SchemaAt(f, k + 1)
    <2>1. \A name \in Schema!Names : name \in schema <=>
            Schema!Given(f, k, name) \/ (~Schema!Touched(f, k, name) /\ name \in Schema!SchemaOf(f - 1))
      BY <1>10, <1>12 DEF Schema!SchemaAt
    <2>2. \A name \in Schema!Names : name \in Schema!SchemaAt(f, k + 1) <=>
            Schema!Given(f, k + 1, name)
            \/ (~Schema!Touched(f, k + 1, name) /\ name \in Schema!SchemaOf(f - 1))
      BY DEF Schema!SchemaAt
    <2>3. Schema!SchemaAt(f, k + 1) \subseteq Schema!Names
      BY DEF Schema!SchemaAt
    <2>4. \A name \in Schema!Names : Schema!Adds(s, name) => ~Schema!Drops(s, name)
      BY DEF Schema!Adds, Schema!Drops
    <2>5. \A name \in Schema!Names : name \in schema' <=> name \in Schema!SchemaAt(f, k + 1)
      BY <1>7, <1>8, <2>1, <2>2, <2>4
    <2> QED BY <1>7, <2>3, <2>5
  <1>13. SchemaFits(m, Passed)'
    BY <1>1, <1>3, <1>6, <1>7, <1>11, <1>12 DEF SchemaFits, f
  <1> QED BY <1>3, <1>5, <1>13 DEF FitsAfter

\* The last statement was passed, and the file is recorded.
LEMMA RecordFits ==
  ASSUME NEW m \in 0 .. Len(Script), FitsAfter(m), NEW p \in Processes, Schema!Record(p)
  PROVE  m + 1 \in 0 .. Len(Script) /\ FitsAfter(m + 1)'
  <1>1. /\ process[p].at = "record" /\ process[p].file = m + 1 /\ m < Len(Script) /\ holder = p
        /\ recorded = 1 .. m /\ Passed = Schema!End(m + 1)
        /\ process \in [Processes -> [at : Schema!Ats, file : Nat, statement : Nat]]
        /\ m \in Nat /\ m + 1 \in 0 .. Len(Script)
    <2>1. process[p].at = "record"
      BY DEF Schema!Record, Schema!At
    <2>2. /\ process[p].file = m + 1 /\ m < Len(Script) /\ recorded = 1 .. m
          /\ process[p].statement = Schema!End(m + 1) /\ ProcessesFit(m)
          /\ process \in [Processes -> [at : Schema!Ats, file : Nat, statement : Nat]]
      BY <2>1 DEF FitsAfter, ProcessesFit
    <2>3. holder = p /\ Passed = Schema!End(m + 1)
      BY <2>1, <2>2, PassedIs
    <2> QED BY <2>1, <2>2, <2>3, ScriptFacts
  <1>2. m + 1 \notin recorded /\ recorded \cup {m + 1} = 1 .. m + 1
    BY <1>1
  <1>3. /\ process' = [process EXCEPT ![p] =
               [at |-> "file", file |-> m + 2, statement |-> 1]]
        /\ recorded' = 1 .. m + 1
        /\ schema' = schema /\ holder' = holder /\ stops' = stops
    <2>1. (m + 1) + 1 = m + 2
      BY <1>1
    <2> QED BY <1>1, <1>2, <2>1 DEF Schema!Record
  <1>4. /\ process'[p] = [at |-> "file", file |-> m + 2, statement |-> 1]
        /\ \A q \in Processes \ {p} : process'[q] = process[q] /\ holder # q
        /\ process' \in [Processes -> [at : Schema!Ats, file : Nat, statement : Nat]]
    BY <1>1, <1>3 DEF Schema!Ats
  <1>5. ProcessesFit(m + 1)'
    <2>1. ProcessesFit(m)
      BY DEF FitsAfter
    <2>2. m + 2 \in 1 .. (m + 1) + 1
      BY <1>1
    <2>3. \A q \in Processes \ {p} : process[q].at \in {"down", "failed", "lock", "listening"}
      BY <1>1, <1>4, <2>1 DEF ProcessesFit, Schema!Ats
    <2>4. \A q \in Processes \ {p} : process[q].at # "listening"
      BY <1>1, <2>1 DEF ProcessesFit
    <2>5. process'[p].at = "file" /\ process'[p].file = m + 2 /\ process'[p].statement = 1
      BY <1>4
    <2> QED BY <1>1, <1>3, <1>4, <2>1, <2>2, <2>3, <2>4, <2>5 DEF ProcessesFit
  <1>6. Passed' = 1
    BY <1>4, <1>5, PassedIs DEF Passed, ProcessesFit
  <1>7. schema = Schema!SchemaOf(m + 1)
    <2>1. \A name \in Schema!Names :
            name \in schema <=> name \in Schema!SchemaAt(m + 1, Schema!End(m + 1))
      <3>1. (m + 1) - 1 = m
        BY <1>1
      <3> QED BY <1>1, <3>1, GivenIsTouched DEF FitsAfter, SchemaFits, Schema!SchemaAt
    <2>2. schema \subseteq Schema!Names /\ Schema!SchemaOf(m + 1) \subseteq Schema!Names
      BY DEF FitsAfter, SchemaFits, Schema!SchemaOf
    <2> QED BY <1>1, <2>1, <2>2, OneMoreFile
  <1>8. SchemaFits(m + 1, Passed)'
    <2>1. Schema!SchemaAt((m + 1) + 1, 1) = Schema!SchemaOf(m + 1)
      BY <1>1, SchemaAtStart
    <2>2. schema \subseteq Schema!Names
      BY DEF FitsAfter, SchemaFits
    <2> QED BY <1>3, <1>6, <1>7, <2>1, <2>2, NoStatementYet DEF SchemaFits
  <1> QED BY <1>1, <1>3, <1>5, <1>8 DEF FitsAfter

\* While nobody was stopped, every check that is dropped is there.
LEMMA ChecksAreThere ==
  ASSUME NEW m \in 0 .. Len(Script), FitsAfter(m), NEW p \in Processes,
         Schema!StatementFails(p)
  PROVE  Schema!Error(Schema!Statement(p)) = "missing check" /\ stops # 0
  <1> DEFINE s == Schema!Statement(p)
  <1>1. Schema!Error(s) = "missing check"
    BY DEF Schema!StatementFails, Schema!Restartable, Schema!Error
  <1>2. s.kind = "dropCheck" /\ s.names \cap schema = {}
    BY <1>1 DEF Schema!Error
  <1>3. process[p].at = "statement"
    BY DEF Schema!StatementFails, Schema!At
  <1>4. /\ process[p].file = m + 1 /\ m < Len(Script) /\ Passed = process[p].statement
        /\ process[p].statement \in 1 .. Schema!End(m + 1) - 1
    <2>1. ProcessesFit(m)
      BY DEF FitsAfter
    <2> QED BY <1>3, <2>1, PassedIs DEF ProcessesFit
  <1>5. stops = 0 => schema = Schema!SchemaAt(m + 1, process[p].statement)
    BY <1>4 DEF FitsAfter, SchemaFits
  <1>6. s = Script[m + 1].statements[process[p].statement]
    BY <1>4 DEF Schema!Statement, Schema!File
  <1>7. m + 1 \in DOMAIN Script
    BY <1>4, ScriptFacts
  <1> HIDE DEF s
  <1>8. s.kind = "dropCheck" => s.names \cap Schema!SchemaAt(m + 1, process[p].statement) # {}
    BY <1>4, <1>6, <1>7, PlatformAssumption DEF Schema!ScriptRuns
  <1> QED BY <1>1, <1>2, <1>5, <1>8 DEF s

\* A process that leaves for a place outside the files, or comes to one.
LEMMA OutsideFits ==
  ASSUME NEW m \in 0 .. Len(Script), FitsAfter(m), NEW p \in Processes,
         NEW at \in {"down", "failed", "lock", "listening"},
         process' = [process EXCEPT ![p] = [at |-> at, file |-> 1, statement |-> 1]],
         at = "listening" => m = Len(Script),
         holder' = IF holder = p THEN NoProcess ELSE holder
  PROVE  ProcessesFit(m)' /\ Passed' \in {Passed, 1}
         /\ (process[p].at \notin {"statement", "record"} => Passed' = Passed)
  <1>1. /\ process'[p] = [at |-> at, file |-> 1, statement |-> 1]
        /\ \A q \in Processes \ {p} : process'[q] = process[q]
        /\ process' \in [Processes -> [at : Schema!Ats, file : Nat, statement : Nat]]
    BY DEF FitsAfter, ProcessesFit, Schema!Ats
  <1>2. ProcessesFit(m)
    BY DEF FitsAfter
  <1>3. \A q \in Processes \ {p} : holder' = q <=> holder = q
    BY PlatformAssumption
  <1>4. holder' # p
    BY PlatformAssumption
  <1>5. ProcessesFit(m)'
    BY <1>1, <1>2, <1>3, <1>4 DEF ProcessesFit
  <1>6. CASE \E q \in Processes \ {p} : process[q].at \in {"statement", "record"}
    <2>1. PICK q \in Processes \ {p} : process[q].at \in {"statement", "record"}
      BY <1>6
    <2>2. Passed = process[q].statement /\ holder = q
      BY <1>2, <2>1, PassedIs
    <2>3. Passed' = process'[q].statement
      BY <1>1, <1>3, <2>1, <2>2 DEF Passed
    <2> QED BY <1>1, <1>5, <2>1, <2>2, <2>3
  <1>7. CASE \A q \in Processes \ {p} : process[q].at \notin {"statement", "record"}
    <2>1. \A q \in Processes : process'[q].at \notin {"statement", "record"}
      BY <1>1, <1>7
    <2>2. Passed' = 1
      BY <2>1 DEF Passed
    <2>3. process[p].at \notin {"statement", "record"} => Passed = 1
      BY <1>7 DEF Passed
    <2> QED BY <1>5, <2>2, <2>3
  <1> QED BY <1>6, <1>7

\* One field of a place, written as the whole.
LEMMA Replaced ==
  ASSUME process \in [Processes -> [at : Schema!Ats, file : Nat, statement : Nat]],
         NEW p \in Processes, NEW x
  PROVE  /\ [process EXCEPT ![p].at = x] = [process EXCEPT ![p] =
               [at |-> x, file |-> process[p].file, statement |-> process[p].statement]]
         /\ [process EXCEPT ![p].file = @ + 1] = [process EXCEPT ![p] =
               [at |-> process[p].at, file |-> process[p].file + 1,
                statement |-> process[p].statement]]
  <1>1. process[p] \in [at : Schema!Ats, file : Nat, statement : Nat]
    OBVIOUS
  <1>2. [process[p] EXCEPT !.at = x] =
          [at |-> x, file |-> process[p].file, statement |-> process[p].statement]
    BY <1>1
  <1>3. [process[p] EXCEPT !.file = @ + 1] =
          [at |-> process[p].at, file |-> process[p].file + 1,
           statement |-> process[p].statement]
    BY <1>1
  <1> QED BY <1>2, <1>3

LEMMA MigrationsStep ==
  ASSUME MigrationsFit, Schema!Next
  PROVE  MigrationsFit'
  <1>0. PICK m \in 0 .. Len(Script) : FitsAfter(m)
    BY DEF MigrationsFit
  <1>1. /\ ProcessesFit(m) /\ recorded = 1 .. m /\ stops \in Nat /\ m \in Nat
        /\ process \in [Processes -> [at : Schema!Ats, file : Nat, statement : Nat]]
        /\ Len(Script) \in Nat /\ NoProcess \notin Processes
    <2>1. m \in Nat /\ Len(Script) \in Nat
      BY ScriptFacts
    <2> QED BY <1>0, <2>1, PlatformAssumption DEF FitsAfter, ProcessesFit
  <1> SUFFICES \E n \in 0 .. Len(Script) : FitsAfter(n)'
    BY DEF MigrationsFit
  <1>2. ASSUME NEW p \in Processes, Schema!Start(p) PROVE FitsAfter(m)'
    <2>1. /\ process[p].at \in {"down", "failed"} /\ holder' = holder /\ holder # p
          /\ process' = [process EXCEPT ![p].at = "lock"]
          /\ process[p].file = 1 /\ process[p].statement = 1
          /\ UNCHANGED <<schema, recorded, stops>>
      BY <1>1, <1>2 DEF Schema!Start, Schema!At, Schema!Enter, Schema!database, ProcessesFit
    <2>2. process' = [process EXCEPT ![p] = [at |-> "lock", file |-> 1, statement |-> 1]]
      <3>1. [process EXCEPT ![p].at = "lock"] = [process EXCEPT ![p] =
               [at |-> "lock", file |-> process[p].file, statement |-> process[p].statement]]
        BY <1>1, <1>2, Replaced
      <3> QED BY <2>1, <3>1, Zenon
    <2>3. ProcessesFit(m)' /\ Passed' = Passed
      BY <1>0, <2>1, <2>2, OutsideFits
    <2> QED BY <1>0, <1>1, <2>1, <2>3, SameDatabase
  <1>3. ASSUME NEW p \in Processes, Schema!Lock(p) PROVE FitsAfter(m)'
    <2>1. /\ process[p].at = "lock" /\ holder = NoProcess /\ holder' = p
          /\ process' = [process EXCEPT ![p].at = "file"]
          /\ UNCHANGED <<schema, recorded, stops>>
      BY <1>3 DEF Schema!Lock, Schema!At, Schema!Free, Schema!Enter, Schema!database
    <2>2. /\ process'[p].at = "file" /\ process'[p].file = 1 /\ process'[p].statement = 1
          /\ \A q \in Processes \ {p} : process'[q] = process[q] /\ holder # q /\ holder' # q
          /\ process' \in [Processes -> [at : Schema!Ats, file : Nat, statement : Nat]]
      BY <1>1, <2>1 DEF ProcessesFit, Schema!Ats
    <2>3. ProcessesFit(m)'
      BY <1>1, <2>1, <2>2 DEF ProcessesFit
    <2>4. Passed = 1
      BY <1>1, <2>1, PassedIs
    <2>5. \A q \in Processes : process'[q].at \notin {"statement", "record"}
      BY <1>1, <2>1, <2>2 DEF ProcessesFit
    <2>6. Passed' = 1
      BY <2>5 DEF Passed
    <2> QED BY <1>0, <1>1, <2>1, <2>3, <2>4, <2>6, SameDatabase
  <1>4. ASSUME NEW p \in Processes, Schema!LockTimeout(p) PROVE FitsAfter(m)'
    <2>1. /\ process[p].at = "lock" /\ Schema!Fail(p) /\ UNCHANGED <<schema, recorded, stops>>
      BY <1>4 DEF Schema!LockTimeout, Schema!At, Schema!database
    <2>2. ProcessesFit(m)' /\ Passed' = Passed
      BY <1>0, <2>1, OutsideFits DEF Schema!Fail
    <2> QED BY <1>0, <1>1, <2>1, <2>2, SameDatabase
  <1>5. ASSUME NEW p \in Processes, Schema!OpenFile(p) PROVE FitsAfter(m)'
    <2> DEFINE f == process[p].file
    <2>1. /\ process[p].at = "file" /\ f <= Len(Script) /\ holder = p /\ f \in 1 .. m + 1
          /\ process[p].statement = 1 /\ Passed = 1
          /\ UNCHANGED <<schema, recorded, stops>>
      BY <1>1, <1>5, PassedIs DEF Schema!OpenFile, Schema!At, Schema!database, ProcessesFit
    <2>2. ASSUME NEW at \in {"file", "statement"}, NEW file \in 1 .. m + 1, holder' = holder,
                 process' = [process EXCEPT ![p] = [at |-> at, file |-> file, statement |-> 1]],
                 at = "statement" => file = m + 1 /\ m < Len(Script)
          PROVE  FitsAfter(m)'
      <3>1. /\ process'[p] = [at |-> at, file |-> file, statement |-> 1]
            /\ \A q \in Processes \ {p} : process'[q] = process[q] /\ holder # q
            /\ process' \in [Processes -> [at : Schema!Ats, file : Nat, statement : Nat]]
        BY <1>1, <2>1, <2>2 DEF Schema!Ats
      <3>2. m < Len(Script) => 1 \in 1 .. Schema!End(m + 1) - 1
        BY <1>1, ScriptFacts
      <3>3. ProcessesFit(m)'
        BY <1>1, <2>1, <2>2, <3>1, <3>2 DEF ProcessesFit
      <3>4. Passed' = 1
        BY <2>1, <2>2, <3>1 DEF Passed
      <3> QED BY <1>0, <1>1, <2>1, <3>3, <3>4, SameDatabase
    <2>3. CASE f \in recorded
      <3>1. process' = [process EXCEPT ![p].file = @ + 1] /\ holder' = holder
        BY <1>5, <2>3 DEF Schema!OpenFile
      <3>2. process' = [process EXCEPT ![p] = [at |-> "file", file |-> f + 1, statement |-> 1]]
        BY <1>1, <2>1, <3>1, Replaced
      <3>3. f + 1 \in 1 .. m + 1
        BY <1>1, <2>3
      <3> QED BY <2>2, <3>1, <3>2, <3>3
    <2>4. CASE f \notin recorded /\ Schema!Fail(p)
      <3>1. ProcessesFit(m)' /\ Passed' = Passed
        BY <1>0, <2>1, <2>4, OutsideFits DEF Schema!Fail
      <3> QED BY <1>0, <1>1, <2>1, <3>1, SameDatabase
    <2>5. CASE f \notin recorded /\ Schema!Enter(p, "statement") /\ holder' = holder
      <3>1. process' = [process EXCEPT ![p] = [at |-> "statement", file |-> f, statement |-> 1]]
        BY <1>1, <2>1, <2>5, Replaced DEF Schema!Enter
      <3>2. f = m + 1 /\ m < Len(Script)
        BY <1>1, <2>1, <2>5
      <3> QED BY <2>1, <2>2, <2>5, <3>1, <3>2
    <2> QED BY <1>5, <2>3, <2>4, <2>5 DEF Schema!OpenFile
  <1>6. ASSUME NEW p \in Processes, Schema!Listen(p) PROVE FitsAfter(m)'
    <2>1. /\ process[p].at = "file" /\ process[p].file > Len(Script)
          /\ process[p].file \in 1 .. m + 1
          /\ holder' = IF holder = p THEN NoProcess ELSE holder
          /\ process' = [process EXCEPT ![p] = [at |-> "listening", file |-> 1, statement |-> 1]]
          /\ UNCHANGED <<schema, recorded, stops>>
      BY <1>1, <1>6 DEF Schema!Listen, Schema!At, Schema!database, ProcessesFit
    <2>2. m = Len(Script)
      BY <1>1, <2>1
    <2>3. ProcessesFit(m)' /\ Passed' = Passed
      BY <1>0, <2>1, <2>2, OutsideFits
    <2> QED BY <1>0, <1>1, <2>1, <2>3, SameDatabase
  <1>7. ASSUME NEW p \in Processes, Schema!StatementFails(p) PROVE FitsAfter(m)'
    <2>1. Schema!Fail(p) /\ UNCHANGED <<schema, recorded, stops>>
      BY <1>7 DEF Schema!StatementFails, Schema!database
    <2>2. stops # 0
      BY <1>0, <1>7, ChecksAreThere
    <2>3. ProcessesFit(m)' /\ Passed' \in {Passed, 1}
      BY <1>0, <2>1, OutsideFits DEF Schema!Fail
    <2> QED BY <1>0, <1>1, <2>1, <2>2, <2>3, SameDatabase
  <1>8. ASSUME NEW p \in Processes, Schema!Stop(p) PROVE FitsAfter(m)'
    <2>1. /\ process' = [process EXCEPT ![p] = [at |-> "down", file |-> 1, statement |-> 1]]
          /\ holder' = IF holder = p THEN NoProcess ELSE holder
          /\ stops' = stops + 1 /\ UNCHANGED <<schema, recorded>>
      BY <1>8 DEF Schema!Stop, Schema!database
    <2>2. ProcessesFit(m)' /\ Passed' \in {Passed, 1}
          /\ (process[p].at \notin {"statement", "record"} => Passed' = Passed)
      BY <1>0, <2>1, OutsideFits
    <2>3. stops' \in Nat /\ stops' # 0
      BY <1>1, <2>1
    <2>4. CASE Passed' = 1
      BY <1>0, <2>1, <2>2, <2>3, <2>4, SameDatabase
    <2>5. CASE Passed' = Passed
      BY <1>0, <2>1, <2>2, <2>3, <2>5 DEF FitsAfter, SchemaFits
    <2> QED BY <2>2, <2>4, <2>5
  <1>10. ASSUME NEW p \in Processes, Schema!Refused(p) PROVE FitsAfter(m)'
    <2>1. Schema!Fail(p) /\ stops' = stops + 1 /\ UNCHANGED <<schema, recorded>>
      BY <1>10 DEF Schema!Refused, Schema!database
    <2>2. ProcessesFit(m)' /\ Passed' \in {Passed, 1}
      BY <1>0, <2>1, OutsideFits DEF Schema!Fail
    <2>3. stops' \in Nat /\ stops' # 0
      BY <1>1, <2>1
    <2>4. CASE Passed' = 1
      BY <1>0, <2>1, <2>2, <2>3, <2>4, SameDatabase
    <2>5. CASE Passed' = Passed
      BY <1>0, <2>1, <2>2, <2>3, <2>5 DEF FitsAfter, SchemaFits
    <2> QED BY <2>2, <2>4, <2>5
  <1>9. CASE Schema!AssignOwners
    <2>1. UNCHANGED <<schema, recorded, holder, process, stops>>
      BY <1>9 DEF Schema!AssignOwners
    <2>2. ProcessesFit(m)' /\ Passed' = Passed
      BY <1>1, <2>1 DEF ProcessesFit, Passed
    <2> QED BY <1>0, <1>1, <2>1, <2>2, SameDatabase
  <1> QED
    BY <1>0, <1>2, <1>3, <1>4, <1>5, <1>6, <1>7, <1>8, <1>9, <1>10, ExecuteFits, RecordFits,
       Schema!Next DEF Schema!Next, Schema!Proceed

LEMMA MigrationsInit == Schema!Init => MigrationsFit
  <1> SUFFICES ASSUME Schema!Init PROVE MigrationsFit
    OBVIOUS
  <1>1. PICK n \in Releases : recorded = 1 .. n /\ schema = Schema!SchemaOf(n)
    BY DEF Schema!Init
  <1>2. n \in 0 .. Len(Script) /\ n \in Nat
    BY <1>1, PlatformAssumption, ScriptFacts
  <1>3. \A p \in Processes : process[p] = [at |-> "down", file |-> 1, statement |-> 1]
    BY DEF Schema!Init
  <1>4. Passed = 1
    BY <1>3 DEF Passed
  <1>5. ProcessesFit(n)
    BY <1>3, PlatformAssumption DEF ProcessesFit, Schema!Init, Schema!Ats
  <1>6. SchemaFits(n, 1)
    <2>1. schema \subseteq Schema!Names
      BY <1>1 DEF Schema!SchemaOf
    <2> QED BY <1>1, <1>2, <2>1, NoStatementYet, SchemaAtStart DEF SchemaFits
  <1> QED BY <1>1, <1>2, <1>4, <1>5, <1>6 DEF MigrationsFit, FitsAfter, Schema!Init

\* Who listens has seen the last file recorded.
LEMMA ListenersPromise == MigrationsFit => ListensOnFullSchema
  <1> SUFFICES ASSUME MigrationsFit, NEW p \in Processes, process[p].at = "listening"
               PROVE  schema = Schema!SchemaOf(Len(Script)) /\ recorded = 1 .. Len(Script)
    BY DEF ListensOnFullSchema, Schema!ListensOnFullSchema, Schema!At
  <1>1. PICK m \in 0 .. Len(Script) : FitsAfter(m)
    BY DEF MigrationsFit
  <1>2. m = Len(Script)
    BY <1>1 DEF FitsAfter, ProcessesFit
  <1> QED BY <1>1, <1>2 DEF FitsAfter, SchemaFits

-----------------------------------------------------------------------------
(***************************************************************************)
(* The whole: a step of one part is UNCHANGED for the invariants of the    *)
(* others.                                                                 *)
(***************************************************************************)
PlatformFits ==
  /\ BucketsFit
  /\ ContactsOrdered
  /\ MigrationsFit
  /\ ChromiumFits
  /\ line \in InputLines

LEMMA LimiterRests == BucketsFit /\ UNCHANGED limiterVars => BucketsFit'
  BY Zenon DEF BucketsFit, BucketFits, Upto, limiterVars

LEMMA ContactsRest == ContactsOrdered /\ UNCHANGED contactVars => ContactsOrdered'
  BY DEF ContactsOrdered, contactVars, Lines!Live, NewContactsGoLast,
     Lines!NewContactsGoLast, Lines!Before

LEMMA MigrationsRest == MigrationsFit /\ UNCHANGED schemaVars => MigrationsFit'
  <1> SUFFICES ASSUME MigrationsFit, UNCHANGED schemaVars PROVE MigrationsFit'
    OBVIOUS
  <1>1. PICK m \in 0 .. Len(Script) : FitsAfter(m)
    BY DEF MigrationsFit
  <1>2. UNCHANGED <<schema, recorded, holder, process, stops>>
    BY DEF schemaVars
  <1>3. ProcessesFit(m)' /\ Passed' = Passed
    BY <1>1, <1>2 DEF FitsAfter, ProcessesFit, Passed
  <1>4. FitsAfter(m)'
    BY <1>1, <1>2, <1>3, SameDatabase DEF FitsAfter
  <1> QED BY <1>1, <1>4 DEF MigrationsFit

LEMMA ChromiumRests == ChromiumFits /\ UNCHANGED chromiumVars => ChromiumFits'
  BY DEF ChromiumFits, Launching, chromiumVars

LEMMA PlatformInit == Init => PlatformFits
  BY LimiterInit, ContactsInit, MigrationsInit, ChromiumInit DEF Init, PlatformFits

LEMMA PlatformStep ==
  ASSUME PlatformFits, [Next]_vars
  PROVE  PlatformFits'
  <1>0. /\ BucketsFit /\ ContactsOrdered /\ MigrationsFit /\ ChromiumFits
        /\ line \in InputLines
    BY DEF PlatformFits
  <1>1. CASE Limiter!Next /\ LimiterOnly
    <2>1. BucketsFit'
      BY <1>0, <1>1, LimiterStep
    <2>2. UNCHANGED <<contactVars, schemaVars, chromiumVars, line>>
      BY <1>1 DEF LimiterOnly
    <2> QED
      BY <1>0, <2>1, <2>2, ContactsRest, MigrationsRest, ChromiumRests, Zenon
         DEF PlatformFits, InputLines
  <1>2. CASE Lines!Next /\ ContactsOnly
    <2>1. ContactsOrdered'
      BY <1>0, <1>2, ContactsStep
    <2>2. UNCHANGED <<limiterVars, schemaVars, chromiumVars, line>>
      BY <1>2 DEF ContactsOnly
    <2> QED
      BY <1>0, <2>1, <2>2, LimiterRests, MigrationsRest, ChromiumRests, Zenon
         DEF PlatformFits, InputLines
  <1>3. CASE Schema!Next /\ SchemaOnly
    <2>1. MigrationsFit'
      BY <1>0, <1>3, MigrationsStep
    <2>2. UNCHANGED <<limiterVars, contactVars, chromiumVars, line>>
      BY <1>3 DEF SchemaOnly
    <2> QED
      BY <1>0, <2>1, <2>2, LimiterRests, ContactsRest, ChromiumRests, Zenon
         DEF PlatformFits, InputLines
  <1>4. CASE Chromium!Next /\ RendererOnly
    <2>1. ChromiumFits'
      BY <1>0, <1>4, ChromiumStep
    <2>2. UNCHANGED <<limiterVars, contactVars, schemaVars, line>>
      BY <1>4 DEF RendererOnly
    <2> QED
      BY <1>0, <2>1, <2>2, LimiterRests, ContactsRest, MigrationsRest, Zenon
         DEF PlatformFits, InputLines
  <1>5. CASE UNCHANGED vars
    <2>1. UNCHANGED <<limiterVars, contactVars, schemaVars, chromiumVars, line>>
      BY <1>5 DEF vars
    <2> QED
      BY <1>0, <2>1, LimiterRests, ContactsRest, MigrationsRest, ChromiumRests, Zenon
         DEF PlatformFits, InputLines
  <1> QED BY <1>1, <1>2, <1>3, <1>4, <1>5 DEF Next

LEMMA PlatformAlwaysFits == Spec => []PlatformFits
  <1> QED BY PlatformInit, PlatformStep, PTL DEF Spec

\* No address is let in as often as two buckets would, whatever the limit and the window
\* (auth.go:43, rateLimiter.allow).
THEOREM LoginsStayLimited == Spec => []TwoBucketsAtMost
  <1>1. PlatformFits => TwoBucketsAtMost
    BY LimiterPromises DEF PlatformFits
  <1> QED BY <1>1, PlatformAlwaysFits, PTL

\* The bucket of an address counts its own attempts, all that its window saw and no
\* others (auth.go:43).
THEOREM BucketsAlwaysCountTheirOwn == Spec => []BucketsCountTheirOwn
  <1>1. PlatformFits => BucketsCountTheirOwn
    BY LimiterPromises DEF PlatformFits
  <1> QED BY <1>1, PlatformAlwaysFits, PTL

\* A created line stands behind those its create had seen, whatever is created, moved,
\* edited and deleted between its two queries (user_contacts.go:68).
THEOREM NewContactsAlwaysGoLast == Spec => []NewContactsGoLast
  <1>1. PlatformFits => NewContactsGoLast
    BY DEF PlatformFits, ContactsOrdered
  <1> QED BY <1>1, PlatformAlwaysFits, PTL

\* Any number of processes, stopped anywhere: who listens has the whole schema
\* (database.go:53, Migrate).
THEOREM ListenersHaveFullSchema == Spec => []ListensOnFullSchema
  <1>1. PlatformFits => ListensOnFullSchema
    BY ListenersPromise DEF PlatformFits
  <1> QED BY <1>1, PlatformAlwaysFits, PTL

\* Any number of requests at once launch one Chromium (router.go:41, lazyDocs).
THEOREM OneChromiumForAll == Spec => []OneChromium
  <1>1. PlatformFits => OneChromium
    BY ChromiumPromises DEF PlatformFits
  <1> QED BY <1>1, PlatformAlwaysFits, PTL

\* Every line the server is asked to price is accepted exactly when its true total
\* fits, and none wraps around (invoices.go:170, lineTotal).
THEOREM TotalsAlwaysExact == Spec => []TotalsAreExact
  <1>1. PlatformFits => TotalsAreExact
    BY LineTotalIsExact DEF PlatformFits, InputLines, TotalsAreExact
  <1> QED BY <1>1, PlatformAlwaysFits, PTL

LEMMA FailureHasCause ==
  ASSUME MigrationsFit, Schema!Next,
         NEW p \in Processes, ~Schema!At(p, "failed"), process'[p].at = "failed"
  PROVE  \/ holder \notin {p, NoProcess}
         \/ Schema!At(p, "file") /\ ~owned
         \/ Schema!At(p, "statement") /\ Schema!Error(Schema!Statement(p)) = "none"
         \/ /\ Schema!At(p, "statement") /\ stops > 0
            /\ Schema!Error(Schema!Statement(p)) = "missing check"
  <1>0. PICK m \in 0 .. Len(Script) : FitsAfter(m)
    BY DEF MigrationsFit
  <1>1. /\ ProcessesFit(m) /\ recorded = 1 .. m /\ stops \in Nat /\ m \in Nat
        /\ process \in [Processes -> [at : Schema!Ats, file : Nat, statement : Nat]]
        /\ NoProcess \notin Processes
    <2>1. m \in Nat
      BY ScriptFacts
    <2> QED BY <1>0, <2>1, PlatformAssumption DEF FitsAfter, ProcessesFit
  <1>2. process[p].at # "failed"
    BY DEF Schema!At
  \* Another process's step leaves p's place alone, and most of p's own go elsewhere.
  <1>3. ASSUME NEW q \in Processes, NEW at, NEW f, NEW k,
               process' = [process EXCEPT ![q] = [at |-> at, file |-> f, statement |-> k]]
        PROVE  q = p /\ at = "failed"
    BY <1>1, <1>2, <1>3
  <1>4. ASSUME NEW q \in Processes, NEW at, Schema!Enter(q, at) PROVE at = "failed"
    BY <1>1, <1>2, <1>4 DEF Schema!Enter
  <1>5. ASSUME NEW q \in Processes, Schema!LockTimeout(q) PROVE holder \notin {p, NoProcess}
    <2>1. q = p /\ Schema!At(p, "lock") /\ holder # NoProcess
      BY <1>3, <1>5 DEF Schema!LockTimeout, Schema!Fail, Schema!Free
    <2> QED BY <1>1, <2>1 DEF ProcessesFit, Schema!At
  <1>6. ASSUME NEW q \in Processes, Schema!OpenFile(q) PROVE Schema!At(p, "file") /\ ~owned
    <2>1. CASE process[q].file \in recorded
      <3>1. process' = [process EXCEPT ![q].file = @ + 1]
        BY <1>6, <2>1 DEF Schema!OpenFile
      <3> QED BY <1>1, <1>2, <3>1
    <2>2. CASE process[q].file \notin recorded /\ Schema!File(q).owners /\ ~owned
      <3>1. q = p
        BY <1>3, <1>6, <2>2 DEF Schema!OpenFile, Schema!Fail
      <3> QED BY <1>6, <2>2, <3>1 DEF Schema!OpenFile
    <2>3. CASE process[q].file \notin recorded /\ ~(Schema!File(q).owners /\ ~owned)
      BY <1>4, <1>6, <2>3 DEF Schema!OpenFile
    <2> QED BY <2>1, <2>2, <2>3
  <1>7. ASSUME NEW q \in Processes, Schema!StatementFails(q)
        PROVE  /\ Schema!At(p, "statement") /\ stops > 0
               /\ Schema!Error(Schema!Statement(p)) = "missing check"
    <2>1. q = p /\ Schema!At(q, "statement")
      BY <1>3, <1>7 DEF Schema!StatementFails, Schema!Fail
    <2>2. Schema!Error(Schema!Statement(q)) = "missing check" /\ stops # 0
      BY <1>0, <1>7, ChecksAreThere
    <2>3. stops > 0
      <3>1. stops \in Nat
        BY <1>1
      <3>2. stops # 0
        BY <2>2
      <3> QED BY <3>1, <3>2
    <2> QED
      BY <2>1, <2>2, <2>3 DEF Schema!At, Schema!Error, Schema!Statement, Schema!File
  <1>8. ASSUME NEW q \in Processes, Schema!Execute(q) PROVE FALSE
    <2> DEFINE a == IF process[q].statement = Len(Schema!File(q).statements)
                    THEN "record" ELSE process[q].at
    <2>1. /\ process[q].at = "statement"
          /\ process' = [process EXCEPT ![q].at = a, ![q].statement = @ + 1]
      BY <1>8, Zenon DEF Schema!Execute, Schema!At
    <2>2. a # "failed"
      BY <2>1
    <2> HIDE DEF a
    <2> QED BY <1>1, <1>2, <2>1, <2>2
  <1>9. ASSUME NEW q \in Processes, Schema!Record(q) PROVE FALSE
    <2>1. process[q].file = m + 1
      BY <1>1, <1>9 DEF Schema!Record, Schema!At, ProcessesFit
    <2>2. process[q].file \notin recorded
      BY <1>1, <2>1
    <2>3. process' = [process EXCEPT ![q] =
            [at |-> "file", file |-> process[q].file + 1, statement |-> 1]]
      BY <1>9, <2>2 DEF Schema!Record
    <2> QED BY <1>1, <1>2, <2>3
  <1>10. ASSUME NEW q \in Processes,
               Schema!Start(q) \/ Schema!Lock(q) \/ Schema!Listen(q) \/ Schema!Stop(q)
         PROVE FALSE
    <2>1. CASE Schema!Start(q) \/ Schema!Lock(q)
      BY <1>4, <2>1 DEF Schema!Start, Schema!Lock
    <2>2. CASE Schema!Listen(q) \/ Schema!Stop(q)
      BY <1>3, <2>2 DEF Schema!Listen, Schema!Stop
    <2> QED BY <1>10, <2>1, <2>2
  <1>11. CASE Schema!AssignOwners
    BY <1>2, <1>11 DEF Schema!AssignOwners
  <1>12. ASSUME NEW q \in Processes, Schema!Refused(q)
         PROVE  Schema!At(p, "statement") /\ Schema!Error(Schema!Statement(p)) = "none"
    <2>1. q = p
      BY <1>3, <1>12 DEF Schema!Refused, Schema!Fail
    <2> QED
      BY <1>12, <2>1, Zenon DEF Schema!Refused
  <1> QED
    BY <1>5, <1>6, <1>7, <1>8, <1>9, <1>10, <1>11, <1>12 DEF Schema!Next, Schema!Proceed

\* A start fails because another process migrates, an owner is missing, MySQL refuses
\* a statement that fits the schema or an earlier start was cut short after a DROP
\* CHECK, and for no fifth reason (database.go:53, 98, 111).
THEOREM StartsFailForCause == Spec => FailuresHaveCauses
  <1>1. ASSUME PlatformFits, [Next]_vars
        PROVE  [\A p \in Processes : ~Schema!At(p, "failed") /\ process'[p].at = "failed" =>
                  \/ holder \notin {p, NoProcess}
                  \/ Schema!At(p, "file") /\ ~owned
                  \/ Schema!At(p, "statement") /\ Schema!Error(Schema!Statement(p)) = "none"
                  \/ Schema!At(p, "statement") /\ stops > 0 /\ Schema!Error(Schema!Statement(p)) = "missing check"]_(Schema!migrationVars)
    <2>1. CASE UNCHANGED schemaVars
      BY <2>1 DEF schemaVars, Schema!migrationVars, Schema!database
    <2>2. CASE Schema!Next
      BY <1>1, <2>2, FailureHasCause DEF PlatformFits
    <2>3. Schema!Next \/ UNCHANGED schemaVars
      BY <1>1 DEF Next, vars, LimiterOnly, ContactsOnly, RendererOnly
    <2> QED BY <2>1, <2>2, <2>3
  <1> QED
    BY <1>1, PlatformAlwaysFits, PTL DEF Spec, FailuresHaveCauses, Schema!FailuresHaveCauses

=============================================================================
