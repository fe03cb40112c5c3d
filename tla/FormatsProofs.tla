--------------------------- MODULE FormatsProofs ---------------------------
(***************************************************************************)
(* Theorems about Formats, for all values of the inputs and all limits.    *)
(* The value under consideration is one of the inputs; the rest is about   *)
(* the operators.                                                          *)
(***************************************************************************)
EXTENDS Formats, FiniteSums, SequenceTheorems

TypeInv == value = Unset \/ \E inputs \in Inputs : value \in inputs

\* The value under consideration is always an input (Arrive, Answer).
THEOREM TypeCorrect == Spec => []TypeInv
<1>1. Init => TypeInv
  BY DEF Init, TypeInv
<1>2. TypeInv /\ [Next]_value => TypeInv'
  BY DEF TypeInv, Next, Arrive, Answer
<1> QED
  BY <1>1, <1>2, PTL DEF Spec

LEMMA Sorted ==
  ASSUME TypeInv
  PROVE  /\ Is("cache") => value \in Caches
         /\ Is("rules") => value \in SpelledRules
         /\ Is("reconcile") => value \in Reconciles
         /\ Is("consumers") => value \in Consumers
         /\ Is("deployment") => value \in Deployments
         /\ Is("alertmanagers") => value \in Alertmanagers
BY ValuesAssumption DEF TypeInv, Inputs, Is

-----------------------------------------------------------------------------
(***************************************************************************)
(* The Alertmanager URLs: both parsers give the URLs that the units which  *)
(* are there advertise.                                                    *)
(***************************************************************************)
Advertising(units) == {u \in DOMAIN units : units[u] # Gone /\ units[u].schema # "none"}

LEMMA WrittenIsRead ==
  ASSUME NEW unit, unit # Gone,
         unit.schema \in {"none", "v0", "v0-default", "v1"},
         unit.schema # "none" => Absent \notin {unit.url, unit.url.address, unit.url.scheme},
         unit.schema \in {"v0", "v0-default"} =>
           unit.url = [scheme |-> unit.url.scheme, address |-> unit.url.address, rest |-> Absent],
         unit.schema = "v0-default" => unit.url.scheme = "http"
  PROVE  LET data == Written(unit) IN
         /\ unit.schema = "none" => data.url = Absent /\ data.public_address = Absent
         /\ unit.schema = "v1" => data.url # Absent /\ data.url = unit.url
         /\ unit.schema \in {"v0", "v0-default"} =>
              data.url = Absent /\ data.public_address # Absent /\ AddressV0(data) = unit.url
<1>1. CASE unit.schema = "none"
  BY <1>1 DEF Written, NoData
<1>2. CASE unit.schema = "v1"
  BY <1>2 DEF Written, Provided
<1>3. CASE unit.schema \in {"v0", "v0-default"}
  <2> DEFINE data == Written(unit)
             scheme == IF unit.schema = "v0" THEN unit.url.scheme ELSE Absent
  <2>1. data = [url |-> Absent, public_address |-> unit.url.address, scheme |-> scheme]
    BY <1>3 DEF Written, NoData
  <2>2. unit.url.scheme = IF scheme = Absent THEN "http" ELSE scheme
    BY <1>3
  <2> HIDE DEF data, scheme
  <2>3. AddressV0(data) = unit.url
    BY <1>3, <2>1, <2>2 DEF AddressV0
  <2> QED
    BY <1>3, <2>1, <2>3 DEF data
<1> QED
  BY <1>1, <1>2, <1>3

\* Each remaining unit's URL comes out of the schema that its library writes,
\* also when the charm has to parse for itself (get_cluster_info,
\* _alertmanager_urls_skipping_gone_units).
THEOREM AdvertisedAreUsedAlways == Spec => []AdvertisedAreUsed
<1>1. TypeInv => AdvertisedAreUsed
  <2> SUFFICES ASSUME TypeInv, Is("alertmanagers") PROVE AdvertisedAreUsed
    BY DEF AdvertisedAreUsed
  <2> DEFINE units == value.units
             data == [u \in DOMAIN units |-> Written(units[u])]
             There == {u \in DOMAIN units : units[u] # Gone}
  <2>1. ASSUME NEW u \in There
        PROVE  LET d == Written(units[u]) IN
               /\ d # Gone /\ units[u].schema \in {"none", "v0", "v0-default", "v1"}
               /\ units[u].schema = "none" => d.url = Absent /\ d.public_address = Absent
               /\ units[u].schema = "v1" => d.url # Absent /\ d.url = units[u].url
               /\ units[u].schema \in {"v0", "v0-default"} =>
                    d.url = Absent /\ d.public_address # Absent /\ AddressV0(d) = units[u].url
    <3> DEFINE unit == units[u]
    <3>1. /\ unit # Gone /\ unit.schema \in {"none", "v0", "v0-default", "v1"}
          /\ unit.schema # "none" => Absent \notin {unit.url, unit.url.address, unit.url.scheme}
          /\ unit.schema \in {"v0", "v0-default"} =>
               unit.url = [scheme |-> unit.url.scheme, address |-> unit.url.address, rest |-> Absent]
          /\ unit.schema = "v0-default" => unit.url.scheme = "http"
      BY Sorted, AlertmanagersAssumption
    <3>2. Written(unit) # Gone
      BY <3>1, Sorted, MissingAssumption
    <3> HIDE DEF unit
    <3> QED
      BY <3>1, <3>2, WrittenIsRead DEF unit
  <2>2. \A u \in DOMAIN units : data[u] = Gone <=> u \notin There
    BY <2>1 DEF Written
  <2> DEFINE urls == {units[u].url : u \in Advertising(units)}
  <2>3. Advertising(units) \subseteq There
    BY DEF Advertising
  <2>4. SkippingGone(data) = urls
    <3>1. {u \in DOMAIN data : data[u] # Gone} = There
      BY <2>2
    <3> DEFINE current == {u \in There : data[u].url # Absent}
               old == {u \in There \ current : data[u].public_address # Absent}
    <3>2. \A u \in There : data[u] = Written(units[u])
      OBVIOUS
    <3>3. current = {u \in There : units[u].schema = "v1"}
      BY <2>1, <3>2
    <3>4. old = {u \in There : units[u].schema \in {"v0", "v0-default"}}
      BY <2>1, <3>2, <3>3
    <3>5. SkippingGone(data) = {data[u].url : u \in current} \cup {AddressV0(data[u]) : u \in old}
      BY <3>1 DEF SkippingGone
    <3>6. Advertising(units) = current \cup old
      BY <2>1, <3>3, <3>4 DEF Advertising
    <3>7. (\A u \in current : data[u].url = units[u].url)
            /\ \A u \in old : AddressV0(data[u]) = units[u].url
      BY <2>1, <3>2, <3>3, <3>4
    <3> HIDE DEF current, old, data
    <3> QED
      BY <3>5, <3>6, <3>7
  <2>5. ClusterInfo(data) # Gone => ClusterInfo(data) = urls
    <3> SUFFICES ASSUME ClusterInfo(data) # Gone PROVE ClusterInfo(data) = urls
      OBVIOUS
    <3>1. There = DOMAIN units
      BY <2>2 DEF ClusterInfo
    <3>2. ClusterInfo(data) = UNION {UnitUrl(data[u]) : u \in There}
      BY <3>1 DEF ClusterInfo
    <3>3. \A u \in There : \A x :
            x \in UnitUrl(data[u]) <=> u \in Advertising(units) /\ x = units[u].url
      <4> SUFFICES ASSUME NEW u \in There, NEW x
                   PROVE  x \in UnitUrl(data[u]) <=> u \in Advertising(units) /\ x = units[u].url
        OBVIOUS
      <4>1. UnitUrl(data[u]) = IF u \in Advertising(units) THEN {units[u].url} ELSE {}
        BY <2>1 DEF UnitUrl, Advertising
      <4> QED
        BY <4>1
    <3>4. \A x : x \in ClusterInfo(data) <=> \E u \in There : x \in UnitUrl(data[u])
      BY <3>2
    <3>5. \A x : x \in urls <=> \E u \in Advertising(units) : x = units[u].url
      OBVIOUS
    <3> HIDE DEF data, There, urls
    <3>6. \A x : x \in ClusterInfo(data) <=> x \in urls
      BY <2>3, <3>3, <3>4, <3>5
    <3>7. \E S : ClusterInfo(data) = UNION S
      BY <3>2
    <3> QED
      BY <3>6, <3>7 DEF urls
  <2> QED
    BY <2>4, <2>5 DEF AdvertisedAreUsed, AlertmanagerUrls, Advertising
<1> QED
  BY <1>1, TypeCorrect, PTL

-----------------------------------------------------------------------------
(***************************************************************************)
(* Requests.                                                               *)
(***************************************************************************)
LEMMA AttemptBounded ==
  ASSUME NEW try, try.work \in Nat, try.fault \in {Unset} \cup Nat
  PROVE  Attempt(try) \in Nat /\ Attempt(try) <= 1 + Batch /\ ~Trips(try)
<1> DEFINE N == {try.work, Batch} \cup (IF try.fault = Unset THEN {} ELSE {try.fault})
<1>1. N \in SUBSET Nat /\ Batch \in N
  BY FieldsAssumption
<1>2. Min(N) \in Nat /\ Min(N) <= Batch
  <2> HIDE DEF N
  <2> QED
    BY <1>1, MinIsLeast
<1>3. Attempt(try) = 1 + Min(N)
  BY DEF Attempt
<1> HIDE DEF N
<1> QED
  BY <1>2, <1>3, FieldsAssumption DEF Trips, Granted

\* No batch is cut off by the budget of requests, and a reconciliation stays
\* within MAX_RECONCILE_API_OPERATIONS whatever fails (request_timeout,
\* replace_namespace, reconcile).
THEOREM RequestsAreBounded == Spec => []RequestsBounded
<1>1. TypeInv => RequestsBounded
  <2> SUFFICES ASSUME TypeInv, Is("reconcile")
               PROVE  /\ \A i \in DOMAIN value.tries : ~Trips(value.tries[i])
                      /\ ReconcileRequests(value.tries, value.persists)
                           <= 2 * (2 + 2 * Batch)
    BY DEF RequestsBounded
  <2> DEFINE At(i) == Attempt(value.tries[i])
  <2>1. DOMAIN value.tries = 1..4
    BY Sorted, ValuesAssumption
  <2>2. \A i \in 1..4 : At(i) \in Nat /\ At(i) <= 1 + Batch /\ ~Trips(value.tries[i])
    <3>1. \A i \in 1..4 : /\ value.tries[i].work \in Nat
                          /\ value.tries[i].fault \in {Unset} \cup Nat
      BY Sorted, FieldsAssumption
    <3> QED
      BY <3>1, AttemptBounded
  <2> HIDE DEF At
  <2>3. /\ ReplaceRequests(value.tries[1], value.tries[2]) \in {At(1), At(1) + At(2)}
        /\ ReplaceRequests(value.tries[3], value.tries[4]) \in {At(3), At(3) + At(4)}
    BY <2>2 DEF ReplaceRequests, At
  <2>4. /\ ReconcileRequests(value.tries, value.persists) \in Nat
        /\ ReconcileRequests(value.tries, value.persists)
             <= At(1) + At(2) + At(3) + At(4)
    BY <2>2, <2>3 DEF ReconcileRequests
  <2>5. At(1) + At(2) + At(3) + At(4) <= 2 * (2 + 2 * Batch)
    BY <2>2, FieldsAssumption
  <2>6. ReconcileRequests(value.tries, value.persists) <= 2 * (2 + 2 * Batch)
    BY <2>2, <2>4, <2>5, FieldsAssumption
  <2> QED
    BY <2>1, <2>2, <2>6
<1> QED
  BY <1>1, TypeCorrect, PTL

-----------------------------------------------------------------------------
(***************************************************************************)
(* The cache.                                                              *)
(***************************************************************************)
\* A snapshot that came in as a payload is accepted again from the cache, in
\* whichever form its groups now fit (_validate_cached_snapshot).
LEMMA AcceptedAgain ==
  ASSUME NEW snapshot, NEW form, NEW ratio,
         Parse(Text(snapshot, form, ratio)) # Rejected
  PROVE  Recoded(snapshot, ratio) # Rejected
BY DEF Recoded, Parse, Text, Bounded

\* What the leader caches its successor reads (_encode_cache, _decode_cache).
THEOREM CachesRoundTrip == Spec => []CacheRoundTrips
<1>1. ASSUME NEW snapshots, NEW form, NEW ratio,
             \A r \in DOMAIN snapshots :
               Parse(Text(snapshots[r], form, ratio)) # Rejected,
             Encode(snapshots, ratio) # Rejected
      PROVE  Decode(Encode(snapshots, ratio), ratio) = snapshots
  <2> DEFINE document == CacheDocument(snapshots, 2, Unset)
             text == [Text(document, "xz", ratio) EXCEPT !.bytes = 1 + @]
  <2>1. /\ Encode(snapshots, ratio) = text
        /\ Merge(snapshots) # Rejected
        /\ Bounded(document, MaxCacheNodes)
        /\ document.size <= MaxCache
        /\ text.bytes < MaxValue
    BY <1>1 DEF Encode
  <2>2. text.document = document
    BY DEF Text
  <2>3. document.snapshots = snapshots /\ document.version = 2 /\ document.accepted = Unset
    BY DEF CacheDocument
  <2>4. \A r \in DOMAIN snapshots : Recoded(snapshots[r], ratio) # Rejected
    BY <1>1, AcceptedAgain
  <2> HIDE DEF document, text
  <2> QED
    BY <2>1, <2>2, <2>3, <2>4 DEF Decode
<1>2. CacheRoundTrips
  BY <1>1 DEF CacheRoundTrips
<1> QED
  BY <1>2, PTL

-----------------------------------------------------------------------------
(***************************************************************************)
(* Durations.                                                              *)
(***************************************************************************)
Amount(d, unit) == FoldLeft(LAMBDA n, t : IF t[2] = unit THEN n + t[1] ELSE n, 0, d)

SumsAmount(f, d, unit) ==
  f = [s \in SUBSET DOMAIN d |->
         IF s = {} THEN 0
         ELSE IF d[Max(s)][2] = unit THEN f[s \ {Max(s)}] + d[Max(s)][1]
              ELSE f[s \ {Max(s)}]]

SumsValue(f, d) ==
  f = [s \in SUBSET DOMAIN d |->
         IF s = {} THEN 0
         ELSE f[s \ {Max(s)}] + d[Max(s)][1] * Seconds[d[Max(s)][2]]]

LEMMA Token ==
  ASSUME NEW d \in Durations
  PROVE  /\ Len(d) \in Nat /\ DOMAIN d = 1..Len(d)
         /\ \A i \in 1..Len(d) : d[i][1] \in Nat /\ d[i][2] \in {"s", "m", "h", "d", "w", "y"}
BY DEF Durations, Seconds

LEMMA AmountFolds ==
  ASSUME NEW d \in Durations, NEW unit
  PROVE  \E f : SumsAmount(f, d, unit) /\ Amount(d, unit) = f[DOMAIN d]
<1> DEFINE S == 1..Len(d)
           X == Nat
           zero == 0
           step == [p \in X \X S |-> IF d[p[2]][2] = unit THEN p[1] + d[p[2]][1] ELSE p[1]]
<1>1. zero \in X /\ step \in [X \X S -> X]
  BY Token
<1>2. \A n \in X, i \in S :
        step[<<n, i>>] = IF d[i][2] = unit THEN n + d[i][1] ELSE n
  OBVIOUS
<1>3. \E f \in [SUBSET S -> X] : FoldsUp(f, LastOf(Len(d)), step, zero, SUBSET S)
  <2> HIDE DEF S, X, zero, step
  <2> QED
    BY <1>1, Token, LastChooses, FoldExists DEF S
<1>4. PICK f \in [SUBSET S -> X] : FoldsUp(f, LastOf(Len(d)), step, zero, SUBSET S)
  BY <1>3
<1> HIDE DEF step
<1>5. \A s \in SUBSET S : s # {} =>
        step[<<f[s \ {LastOf(Len(d))[s]}], LastOf(Len(d))[s]>>] =
          IF d[Max(s)][2] = unit THEN f[s \ {Max(s)}] + d[Max(s)][1] ELSE f[s \ {Max(s)}]
  <2>1. ASSUME NEW s \in SUBSET S, s # {}
        PROVE  /\ LastOf(Len(d))[s] = Max(s)
               /\ Max(s) \in S /\ f[s \ {Max(s)}] \in X
    BY <2>1, Token, LastChooses
  <2> HIDE DEF X, S
  <2>2. ASSUME NEW s \in SUBSET S, s # {}
        PROVE  step[<<f[s \ {Max(s)}], Max(s)>>] =
                 IF d[Max(s)][2] = unit THEN f[s \ {Max(s)}] + d[Max(s)][1]
                 ELSE f[s \ {Max(s)}]
    BY <1>2, <2>1, <2>2
  <2> QED
    BY <2>1, <2>2
<1>6. SumsAmount(f, d, unit)
  BY <1>4, <1>5, Token DEF FoldsUp, SumsAmount
<1>7. Amount(d, unit) = (CHOOSE g : SumsAmount(g, d, unit))[DOMAIN d]
  BY DEF Amount, FoldLeft, MapThenFoldSet, SumsAmount
<1> QED
  BY <1>6, <1>7

LEMMA ValueFolds ==
  ASSUME NEW d \in Durations
  PROVE  \E f : SumsValue(f, d) /\ DurationValue(d) = f[DOMAIN d]
<1> DEFINE S == 1..Len(d)
           X == Nat
           zero == 0
           step == [p \in X \X S |-> p[1] + d[p[2]][1] * Seconds[d[p[2]][2]]]
<1>1. zero \in X /\ step \in [X \X S -> X]
  BY Token DEF Seconds
<1>2. \A n \in X, i \in S : step[<<n, i>>] = n + d[i][1] * Seconds[d[i][2]]
  OBVIOUS
<1>3. \E f \in [SUBSET S -> X] : FoldsUp(f, LastOf(Len(d)), step, zero, SUBSET S)
  <2> HIDE DEF S, X, zero, step
  <2> QED
    BY <1>1, Token, LastChooses, FoldExists DEF S
<1>4. PICK f \in [SUBSET S -> X] : FoldsUp(f, LastOf(Len(d)), step, zero, SUBSET S)
  BY <1>3
<1> HIDE DEF step
<1>5. \A s \in SUBSET S : s # {} =>
        step[<<f[s \ {LastOf(Len(d))[s]}], LastOf(Len(d))[s]>>] =
          f[s \ {Max(s)}] + d[Max(s)][1] * Seconds[d[Max(s)][2]]
  <2>1. ASSUME NEW s \in SUBSET S, s # {}
        PROVE  /\ LastOf(Len(d))[s] = Max(s)
               /\ Max(s) \in S /\ f[s \ {Max(s)}] \in X
    BY <2>1, Token, LastChooses
  <2> HIDE DEF X, S
  <2> QED
    BY <1>2, <2>1
<1>6. SumsValue(f, d)
  BY <1>4, <1>5, Token DEF FoldsUp, SumsValue
<1>7. DurationValue(d) = (CHOOSE g : SumsValue(g, d))[DOMAIN d]
  BY DEF DurationValue, FoldLeft, MapThenFoldSet, SumsValue
<1> QED
  BY <1>6, <1>7

\* The length of a duration in seconds, by what it says in each unit.
InSeconds(a) ==
  31536000 * a["y"] + 604800 * a["w"] + 86400 * a["d"] + 3600 * a["h"] + 60 * a["m"] + a["s"]

Units == {"s", "m", "h", "d", "w", "y"}

LEMMA OneMore ==
  ASSUME NEW a \in [Units -> Nat], NEW b \in [Units -> Nat], NEW k \in Nat, NEW unit \in Units,
         \A u \in Units : b[u] = IF unit = u THEN a[u] + k ELSE a[u]
  PROVE  InSeconds(b) = InSeconds(a) + k * Seconds[unit]
BY SMT DEF InSeconds, Units, Seconds

LEMMA ValueOfAmounts ==
  ASSUME NEW d \in Durations
  PROVE  /\ \A u \in Units : Amount(d, u) \in Nat
         /\ DurationValue(d) = InSeconds([u \in Units |-> Amount(d, u)])
<1> DEFINE S == 1..Len(d)
           Sums(f) == \A u \in Units : SumsAmount(f[u], d, u) /\ Amount(d, u) = f[u][S]
<1>1. PICK v : SumsValue(v, d) /\ DurationValue(d) = v[S]
  BY ValueFolds, Token
<1>2. \E f : Sums(f)
  <2> DEFINE f == [u \in Units |-> CHOOSE g : SumsAmount(g, d, u) /\ Amount(d, u) = g[S]]
  <2>1. ASSUME NEW u \in Units PROVE SumsAmount(f[u], d, u) /\ Amount(d, u) = f[u][S]
    BY AmountFolds, Token
  <2> HIDE DEF f
  <2> QED
    BY <2>1
<1>3. PICK f : Sums(f)
  BY <1>2
<1> DEFINE At(s) == [u \in Units |-> f[u][s]]
           Good(s) == At(s) \in [Units -> Nat] /\ v[s] = InSeconds(At(s))
           C == {s \in SUBSET S : ~Good(s)}
<1> HIDE DEF Good
<1>4. ASSUME NEW s \in C, \A t \in C : Cardinality(s) <= Cardinality(t) PROVE FALSE
  <2>1. s \in SUBSET S /\ IsFiniteSet(S) /\ ~Good(s)
    BY LastChooses, Token
  <2>2. CASE s = {}
    <3>1. v[s] = 0 /\ \A u \in Units : f[u][s] = 0
      BY <1>1, <1>3, <2>1, <2>2, Token DEF SumsValue, SumsAmount
    <3>2. At(s) = [u \in Units |-> 0]
      BY <3>1
    <3> HIDE DEF At
    <3>3. InSeconds([u \in Units |-> 0]) = 0
      BY SMT DEF InSeconds, Units
    <3> QED
      BY <2>1, <3>1, <3>2, <3>3 DEF Good
  <2>3. CASE s # {}
    <3> DEFINE x == Max(s)
               t == s \ {Max(s)}
               k == d[Max(s)][1]
               unit == d[Max(s)][2]
    <3>1. x \in s
      BY <2>1, <2>3, Token, MaxIsElement
    <3>2. x \in S /\ t \in SUBSET S /\ k \in Nat /\ unit \in Units
      BY <2>1, <3>1, Token DEF Units
    <3>3. v[s] = v[t] + k * Seconds[unit]
      BY <1>1, <2>1, <2>3, Token DEF SumsValue
    <3>4. \A u \in Units : f[u][s] = IF unit = u THEN f[u][t] + k ELSE f[u][t]
      BY <1>3, <2>1, <2>3, Token DEF SumsAmount
    <3>5. Cardinality(t) = Cardinality(s) - 1 /\ Cardinality(s) \in Nat
      <4> HIDE DEF S, x
      <4> QED
        BY <2>1, <3>1, ElementAway DEF x
    <3> HIDE DEF x, t, k, unit
    <3>6. Good(t)
      BY <1>4, <3>2, <3>5
    <3>7. At(t) \in [Units -> Nat] /\ v[t] = InSeconds(At(t))
      BY <3>6 DEF Good
    <3>8. /\ At(s) \in [Units -> Nat]
          /\ \A u \in Units : At(s)[u] = IF unit = u THEN At(t)[u] + k ELSE At(t)[u]
      BY <3>2, <3>4, <3>7
    <3> HIDE DEF At
    <3>9. v[s] = InSeconds(At(s))
      BY <3>2, <3>3, <3>7, <3>8, OneMore
    <3> QED
      BY <2>1, <3>8, <3>9 DEF Good
  <2> QED
    BY <2>2, <2>3
<1>5. \A s \in C : IsFiniteSet(s)
  BY LastChooses, Token, FS_Subset
<1>6. C = {}
  <2> HIDE DEF C
  <2> QED
    BY <1>4, <1>5, SmallestSet
<1>7. Good(S)
  BY <1>6
<1>8. At(S) = [u \in Units |-> Amount(d, u)]
  BY <1>3
<1> QED
  BY <1>1, <1>7, <1>8 DEF Good

LEMMA Division ==
  ASSUME NEW n \in Nat, NEW k \in Nat \ {0}
  PROVE  /\ n \div k \in Nat /\ n % k \in 0..(k - 1)
         /\ n = k * (n \div k) + (n % k)
BY SMT

LEMMA Carried ==
  ASSUME NEW y \in Nat, NEW w \in Nat, NEW d \in Nat, NEW h \in Nat, NEW m \in Nat,
         NEW sixtieths \in Nat, NEW s \in Nat, NEW minutes \in Nat, NEW r \in Nat,
         NEW hours \in Nat, NEW q \in Nat,
         60 * minutes + r = m + sixtieths,
         24 * q + hours = h + minutes
  PROVE  31536000 * y + 604800 * w + 86400 * d + 3600 * h + 60 * m + (60 * sixtieths + s) =
           86400 * (365 * y + 7 * w + d + q) + 3600 * hours + 60 * r + s
BY SMT

Readings == Nat \X (0..23) \X (0..59) \X (0..59)

Length(m) == 86400 * m[1] + 3600 * m[2] + 60 * m[3] + m[4]

LEMMA ReadingsUnique ==
  ASSUME NEW m \in Readings, NEW n \in Readings
  PROVE  m = n <=> Length(m) = Length(n)
<1>1. /\ m[1] \in Nat /\ m[2] \in 0..23 /\ m[3] \in 0..59 /\ m[4] \in 0..59
      /\ n[1] \in Nat /\ n[2] \in 0..23 /\ n[3] \in 0..59 /\ n[4] \in 0..59
  BY DEF Readings
<1>2. m = n <=> m[1] = n[1] /\ m[2] = n[2] /\ m[3] = n[3] /\ m[4] = n[4]
  BY DEF Readings
<1>3. ASSUME Length(m) = Length(n)
      PROVE  m[1] = n[1] /\ m[2] = n[2] /\ m[3] = n[3] /\ m[4] = n[4]
  <2> DEFINE a == m[1]
             b == m[2]
             c == m[3]
             e == m[4]
             f == n[1]
             g == n[2]
             h == n[3]
             i == n[4]
  <2>1. /\ a \in Nat /\ b \in 0..23 /\ c \in 0..59 /\ e \in 0..59
        /\ f \in Nat /\ g \in 0..23 /\ h \in 0..59 /\ i \in 0..59
    BY <1>1
  <2>2. 86400 * a + 3600 * b + 60 * c + e = 86400 * f + 3600 * g + 60 * h + i
    BY <1>3, SMT DEF Length
  <2> HIDE DEF a, b, c, e, f, g, h, i
  <2>3. a = f /\ b = g /\ c = h /\ e = i
    BY <2>1, <2>2, SMT
  <2> QED
    BY <2>3 DEF a, b, c, e, f, g, h, i
<1> QED
  BY <1>2, <1>3

\* Carrying from unit to unit: the digits are in range and say the length.
LEMMA MeaningIsValue ==
  ASSUME NEW d \in Durations
  PROVE  Meaning(d) \in Readings /\ DurationValue(d) = Length(Meaning(d))
<1> DEFINE years == Amount(d, "y")
           weeks == Amount(d, "w")
           singles == Amount(d, "d")
           h == Amount(d, "h")
           m == Amount(d, "m")
           s == Amount(d, "s")
           minutes == m + (s \div 60)
           hours == h + (minutes \div 60)
           days == 365 * years + 7 * weeks + singles + (hours \div 24)
<1>1. Meaning(d) = <<days, hours % 24, minutes % 60, s % 60>>
  BY DEF Meaning, Amount
<1>2. /\ years \in Nat /\ weeks \in Nat /\ singles \in Nat /\ h \in Nat /\ m \in Nat /\ s \in Nat
      /\ DurationValue(d) = 31536000 * years + 604800 * weeks + 86400 * singles
           + 3600 * h + 60 * m + s
  BY ValueOfAmounts, SMT DEF InSeconds, Units
<1> HIDE DEF years, weeks, singles, h, m, s
<1>3. s \div 60 \in Nat /\ s % 60 \in 0..59 /\ s = 60 * (s \div 60) + (s % 60)
  BY <1>2, Division
<1>4. minutes \in Nat
  BY <1>2, <1>3
<1>5. minutes = m + (s \div 60)
  OBVIOUS
<1>6. hours = h + (minutes \div 60)
  OBVIOUS
<1>7. days = 365 * years + 7 * weeks + singles + (hours \div 24)
  OBVIOUS
<1> HIDE DEF minutes, hours, days
<1>8. /\ minutes \div 60 \in Nat /\ minutes % 60 \in 0..59
      /\ minutes = 60 * (minutes \div 60) + (minutes % 60)
  BY <1>4, Division
<1>9. hours \in Nat
  BY <1>2, <1>6, <1>8
<1>10. /\ hours \div 24 \in Nat /\ hours % 24 \in 0..23
       /\ hours = 24 * (hours \div 24) + (hours % 24)
  BY <1>9, Division
<1>11. days \in Nat
  BY <1>2, <1>7, <1>10
<1>12. DurationValue(d) =
         86400 * days + 3600 * (hours % 24) + 60 * (minutes % 60) + (s % 60)
  <2> DEFINE a == s \div 60
             b == s % 60
             c == minutes \div 60
             e == minutes % 60
             f == hours \div 24
             g == hours % 24
  <2>1. a \in Nat /\ b \in Nat /\ c \in Nat /\ e \in Nat /\ f \in Nat /\ g \in Nat
    BY <1>2, <1>3, <1>4, <1>8, <1>9, <1>10
  <2>2. s = 60 * a + b /\ 60 * c + e = m + a /\ 24 * f + g = h + c
    BY <1>3, <1>5, <1>6, <1>8, <1>10
  <2>3. days = 365 * years + 7 * weeks + singles + f
    BY <1>7
  <2> HIDE DEF a, b, c, e, f, g
  <2>4. 31536000 * years + 604800 * weeks + 86400 * singles + 3600 * h + 60 * m + (60 * a + b) =
          86400 * (365 * years + 7 * weeks + singles + f) + 3600 * g + 60 * e + b
    BY <1>2, <2>1, <2>2, Carried, SMT
  <2>5. DurationValue(d) = 86400 * days + 3600 * g + 60 * e + b
    BY <1>2, <2>2, <2>3, <2>4, SMT
  <2> QED
    BY <2>5, SMT DEF b, e, g
<1>13. Meaning(d) \in Readings
  BY <1>1, <1>3, <1>8, <1>10, <1>11 DEF Readings
<1>14. /\ Meaning(d)[1] = days /\ Meaning(d)[2] = hours % 24
       /\ Meaning(d)[3] = minutes % 60 /\ Meaning(d)[4] = s % 60
  BY <1>1
<1> QED
  BY <1>12, <1>13, <1>14, SMT DEF Length

\* Two durations mean the same when they are equally long.
LEMMA SameMeaning ==
  ASSUME NEW d \in Durations, NEW e \in Durations
  PROVE  Meaning(d) = Meaning(e) <=> DurationValue(d) = DurationValue(e)
BY MeaningIsValue, ReadingsUnique

LEMMA NoMeaning ==
  ASSUME NEW d \in Durations
  PROVE  Meaning(d) = <<0, 0, 0, 0>> <=> DurationValue(d) = 0
<1>1. <<0, 0, 0, 0>> \in Readings /\ Length(<<0, 0, 0, 0>>) = 0
  BY SMT DEF Readings, Length
<1> QED
  BY <1>1, MeaningIsValue, ReadingsUnique

\* The ruler's copy of a group is rewritten exactly when it means something
\* else (_canonical, _normalize_durations).
THEOREM RewritesAreDifferences == Spec => []RewritesOnlyDifferences
<1>1. TypeInv => RewritesOnlyDifferences
  <2> SUFFICES ASSUME TypeInv, Is("rules")
               PROVE  Canonical(value.live) = Canonical(value.offered)
                 <=> /\ IF Nothing(value.live.wait) \/ Nothing(value.offered.wait)
                        THEN Nothing(value.live.wait) /\ Nothing(value.offered.wait)
                        ELSE Meaning(value.live.wait) = Meaning(value.offered.wait)
                     /\ (value.live.labels = "texts") = (value.offered.labels = "texts")
    BY DEF RewritesOnlyDifferences
  <2> DEFINE d == value.live.wait
             e == value.offered.wait
             sameWait == IF Nothing(d) \/ Nothing(e) THEN Nothing(d) /\ Nothing(e)
                         ELSE Meaning(d) = Meaning(e)
             sameLabels == (value.live.labels = "texts") <=> (value.offered.labels = "texts")
  <2>1. value \in SpelledRules
    BY Sorted
  <2>2. d \in {Unset} \cup Durations /\ e \in {Unset} \cup Durations
    BY <2>1, FieldsAssumption
  <2>3. \A w \in {d, e} \ {Unset} : Unset # <<DurationValue(w)>>
    BY <2>1, MissingAssumption
  <2> HIDE DEF d, e
  <2>4. \A w \in {d, e} : Nothing(w) <=> Normalized(w) = Unset
    BY <2>2, <2>3, NoMeaning DEF Nothing, Normalized
  <2>5. \A w \in {d, e} : ~Nothing(w) => w # Unset /\ Normalized(w) = <<DurationValue(w)>>
    BY <2>2, NoMeaning DEF Nothing, Normalized
  <2>6. sameWait <=> Normalized(d) = Normalized(e)
    BY <2>2, <2>4, <2>5, SameMeaning
  <2>7. Canonical(value.live) = Canonical(value.offered)
          <=> Normalized(d) = Normalized(e) /\ sameLabels
    BY DEF Canonical, d, e
  <2> QED
    BY <2>6, <2>7 DEF d, e
<1> QED
  BY <1>1, TypeCorrect, PTL

-----------------------------------------------------------------------------
(***************************************************************************)
(* The configuration.                                                      *)
(***************************************************************************)
Migrations == Seq([date : {None} \cup STRING, version : STRING])

Periods(settings) ==
  Seq([from : {"2020-10-24", None} \cup STRING, object_store : {Store(settings)},
       schema : {"v13"} \cup STRING])

BuildsPeriods(f, settings) ==
  f = [s \in SUBSET DOMAIN settings.migrations |->
         IF s = {} THEN Initially(settings)
         ELSE IF settings.migrations[Max(s)].date = None THEN f[s \ {Max(s)}]
              ELSE Append(f[s \ {Max(s)}],
                          Period(settings, settings.migrations[Max(s)].date,
                                 settings.migrations[Max(s)].version))]

\* Every period of the schema names the store of the configuration, whichever
\* migrations there are (_schema_config).
LEMMA SchemaOfOneStore ==
  ASSUME NEW settings, settings.migrations \in Migrations
  PROVE  SchemaConfig(settings) \in Periods(settings)
<1> DEFINE ms == settings.migrations
           S == 1..Len(ms)
           X == Periods(settings)
           base == Initially(settings)
           step == [p \in X \X S |->
                      IF ms[p[2]].date = None THEN p[1]
                      ELSE Append(p[1], Period(settings, ms[p[2]].date, ms[p[2]].version))]
<1>1. /\ Len(ms) \in Nat /\ DOMAIN ms = S
      /\ \A i \in S : ms[i].date \in {None} \cup STRING /\ ms[i].version \in STRING
  <2> DEFINE M == [date : {None} \cup STRING, version : STRING]
  <2>1. ms \in Seq(M)
    BY DEF Migrations
  <2> HIDE DEF ms, M
  <2>2. Len(ms) \in Nat /\ DOMAIN ms = S /\ \A i \in S : ms[i] \in M
    BY <2>1
  <2>3. \A m \in M : m.date \in {None} \cup STRING /\ m.version \in STRING
    BY DEF M
  <2> QED
    BY <2>2, <2>3
<1>2. base \in X
  BY DEF Initially, Period, Periods
<1>3. ASSUME NEW p \in X, NEW i \in S
      PROVE  Append(p, Period(settings, ms[i].date, ms[i].version)) \in X
  BY <1>1 DEF Period, Periods
<1>4. step \in [X \X S -> X]
  BY <1>3
<1>5. \A p \in X, i \in S :
        step[<<p, i>>] = IF ms[i].date = None THEN p
                         ELSE Append(p, Period(settings, ms[i].date, ms[i].version))
  OBVIOUS
<1>6. \E f \in [SUBSET S -> X] : FoldsUp(f, LastOf(Len(ms)), step, base, SUBSET S)
  <2> HIDE DEF S, X, base, step, ms
  <2> QED
    BY <1>1, <1>2, <1>4, LastChooses, FoldExists DEF S
<1>7. PICK f \in [SUBSET S -> X] : FoldsUp(f, LastOf(Len(ms)), step, base, SUBSET S)
  BY <1>6
<1> HIDE DEF step
<1>8. BuildsPeriods(f, settings)
  <2>1. ASSUME NEW s \in SUBSET S, s # {}
        PROVE  /\ LastOf(Len(ms))[s] = Max(s)
               /\ Max(s) \in S /\ f[s \ {Max(s)}] \in X
    BY <1>1, <2>1, LastChooses
  <2>2. ASSUME NEW s \in SUBSET S, s # {}
        PROVE  step[<<f[s \ {LastOf(Len(ms))[s]}], LastOf(Len(ms))[s]>>] =
                 IF ms[Max(s)].date = None THEN f[s \ {Max(s)}]
                 ELSE Append(f[s \ {Max(s)}],
                             Period(settings, ms[Max(s)].date, ms[Max(s)].version))
    <3> DEFINE x == Max(s)
               rest == f[s \ {Max(s)}]
    <3>1. x \in S /\ rest \in X /\ LastOf(Len(ms))[s] = x
      BY <2>1, <2>2
    <3> HIDE DEF S, X, ms, x, rest
    <3>2. step[<<rest, x>>] =
            IF ms[x].date = None THEN rest
            ELSE Append(rest, Period(settings, ms[x].date, ms[x].version))
      BY <1>5, <3>1
    <3> QED
      BY <3>1, <3>2 DEF x, rest
  <2> QED
    BY <1>1, <1>7, <2>2 DEF FoldsUp, BuildsPeriods
<1>9. SchemaConfig(settings) = (CHOOSE g : BuildsPeriods(g, settings))[DOMAIN ms]
  BY DEF SchemaConfig, FoldLeft, MapThenFoldSet, BuildsPeriods
<1>10. PICK g : BuildsPeriods(g, settings) /\ SchemaConfig(settings) = g[S]
  BY <1>1, <1>8, <1>9
<1> DEFINE C == {s \in SUBSET S : g[s] \notin X}
<1>11. ASSUME NEW s \in C, \A t \in C : Cardinality(s) <= Cardinality(t) PROVE FALSE
  <2>1. s \in SUBSET S /\ IsFiniteSet(S) /\ g[s] \notin X
    BY <1>1, LastChooses
  <2>2. CASE s = {}
    BY <1>1, <1>2, <1>10, <2>1, <2>2 DEF BuildsPeriods
  <2>3. CASE s # {}
    <3> DEFINE x == Max(s)
               t == s \ {Max(s)}
    <3>1. x \in s /\ x \in S /\ t \in SUBSET S
      BY <1>1, <2>1, <2>3, MaxIsElement
    <3>2. Cardinality(t) = Cardinality(s) - 1 /\ Cardinality(s) \in Nat
      <4> HIDE DEF S, x
      <4> QED
        BY <2>1, <3>1, ElementAway DEF x
    <3>3. g[s] = IF ms[x].date = None THEN g[t]
                 ELSE Append(g[t], Period(settings, ms[x].date, ms[x].version))
      BY <1>1, <1>10, <2>1, <2>3 DEF BuildsPeriods
    <3> HIDE DEF x, t, X
    <3>4. g[t] \in X
      BY <1>11, <3>1, <3>2
    <3> QED
      BY <1>3, <2>1, <3>1, <3>3, <3>4
  <2> QED
    BY <2>2, <2>3
<1>12. \A s \in C : IsFiniteSet(s)
  BY <1>1, LastChooses, FS_Subset
<1>13. C = {}
  <2> HIDE DEF C
  <2> QED
    BY <1>11, <1>12, SmallestSet
<1> QED
  BY <1>10, <1>13

\* The settings that _render_config_text builds from.
Given == [value.settings EXCEPT !.s3 = IF Storage.s3 = Absent THEN None ELSE Storage.s3]

LEMMA RenderedFrom ==
  ASSUME TypeInv, Configurable
  PROVE  /\ value \in Deployments
         /\ Rendered.common = Common(Given) /\ Rendered.schema_config = SchemaConfig(Given)
         /\ Rendered.storage_config = StorageConfig(Given)
         /\ Rendered.compactor = Compactor(Given)
         /\ Rendered.ruler_storage = RulerStorage(Given)
         /\ Rendered.auth_enabled = FALSE /\ Rendered.server = Server(Given)
         /\ Rendered.ruler = Ruler(Given)
         /\ Given.migrations \in Migrations
         /\ Given.s3 = IF Storage.s3 = Absent THEN None ELSE Storage.s3
         /\ Given.data_dir = value.settings.data_dir
<1>1. value \in Deployments
  BY Sorted DEF Configurable
<1>2. "s3" \in DOMAIN value.settings /\ value.settings.migrations \in Migrations
  BY <1>1, FieldsAssumption DEF Migrations
<1>3. Rendered = Build(Given) /\ Rendered # None
  BY DEF Configurable, Rendered, Given
<1>4. /\ Rendered.common = Common(Given) /\ Rendered.schema_config = SchemaConfig(Given)
      /\ Rendered.storage_config = StorageConfig(Given)
      /\ Rendered.compactor = Compactor(Given)
      /\ Rendered.ruler_storage = RulerStorage(Given)
      /\ Rendered.auth_enabled = FALSE /\ Rendered.server = Server(Given)
      /\ Rendered.ruler = Ruler(Given)
  BY <1>3 DEF Build
<1>5. /\ Given.migrations = value.settings.migrations
      /\ Given.s3 = IF Storage.s3 = Absent THEN None ELSE Storage.s3
      /\ Given.data_dir = value.settings.data_dir
  BY <1>2 DEF Given
<1> QED
  BY <1>1, <1>2, <1>4, <1>5

\* A configuration is rendered either without a relation, for one unit, or
\* with the client of a well-formed one (_storage_backend_state).
LEMMA StorageOf ==
  ASSUME TypeInv, Configurable
  PROVE  \/ value.relation = Absent /\ ~(value.planned > 1) /\ Given.s3 = None
         \/ /\ value.relation # Absent
            /\ Endpoint(value.relation.endpoint) # Absent
            /\ Given.s3 = [endpoint |-> Endpoint(value.relation.endpoint),
                           insecure |-> Insecure(value.relation.endpoint)]
            /\ Given.s3 # None /\ Storage.s3 # Absent
<1>1. value \in Deployments /\ Given.s3 = IF Storage.s3 = Absent THEN None ELSE Storage.s3
  BY RenderedFrom
<1>2. Storage.status = "ready" /\ Storage = Backend(value.relation, value.planned)
  BY DEF Configurable, Storage
<1>3. CASE value.relation = Absent
  BY <1>1, <1>2, <1>3 DEF Backend
<1>4. CASE value.relation # Absent
  <2>1. [endpoint |-> Endpoint(value.relation.endpoint),
         insecure |-> Insecure(value.relation.endpoint)] \notin {Absent, None}
    BY <1>1, <1>4, MissingAssumption
  <2> QED
    BY <1>1, <1>2, <1>4, <2>1 DEF Backend
<1> QED
  BY <1>3, <1>4

\* Every section of a configuration that the charm renders names one store and
\* one client for it (ConfigBuilder.build, _override_has_ruler_contract).
THEOREM StorageAgreesAlways == Spec => []StorageAgrees
<1>1. TypeInv => StorageAgrees
  <2> SUFFICES ASSUME TypeInv, Configurable PROVE StorageAgrees
    BY DEF StorageAgrees
  <2> DEFINE store == Store(Given)
  <2>1. Rendered.storage_config.store = store /\ Rendered.ruler_storage.backend = store
    BY RenderedFrom DEF StorageConfig, RulerStorage
  <2>2. \A i \in DOMAIN Rendered.schema_config : Rendered.schema_config[i].object_store = store
    <3>1. Rendered.schema_config \in Periods(Given)
      BY RenderedFrom, SchemaOfOneStore
    <3> DEFINE P == [from : {"2020-10-24", None} \cup STRING, object_store : {store},
                     schema : {"v13"} \cup STRING]
               schema == Rendered.schema_config
    <3>2. schema \in Seq(P)
      BY <3>1 DEF Periods
    <3>3. \A p \in P : p.object_store = store
      OBVIOUS
    <3> HIDE DEF P, schema
    <3>4. \A i \in DOMAIN schema : schema[i] \in P
      BY <3>2
    <3> QED
      BY <3>3, <3>4 DEF schema
  <2>3. Rendered.compactor.delete_request_store \in {None, store}
    BY RenderedFrom DEF Compactor
  <2>4. store = "s3" <=> Given.s3 # None
    BY DEF Store
  <2>5. IF store = "s3"
        THEN /\ Rendered.common.storage = None
             /\ Rendered.ruler_storage.client = Rendered.storage_config.client
        ELSE /\ Rendered.common.storage.chunks = Rendered.storage_config.client
             /\ Rendered.common.storage.rules = Rendered.ruler_storage.client
    BY <2>4, RenderedFrom DEF Common, RulerStorage, StorageConfig
  <2>6. value.planned > 1 => store = "s3"
    BY <2>4, StorageOf
  <2>7. HasRulerContract(Rendered)
    <3>1. Dir(Given, "ruler-tmp") # None
      BY RenderedFrom, MissingAssumption DEF Dir
    <3>2. store # None
      BY MissingAssumption DEF Store
    <3>3. Rendered.server.http_listen_port = 3100
      BY RenderedFrom DEF Server
    <3>4. /\ Rendered.ruler.enable_api = TRUE
          /\ Rendered.ruler.rule_path = Dir(Given, "ruler-tmp")
      BY RenderedFrom DEF Ruler
    <3>5. Rendered.auth_enabled = FALSE
      BY RenderedFrom
    <3> QED
      BY <2>1, <3>1, <3>2, <3>3, <3>4, <3>5 DEF HasRulerContract
  <2> QED
    BY <2>1, <2>2, <2>3, <2>5, <2>6, <2>7 DEF StorageAgrees
<1> QED
  BY <1>1, TypeCorrect, PTL

(***************************************************************************)
(* The texts of endpoints.                                                 *)
(***************************************************************************)

\* What rstrip leaves and what it takes away.
LEMMA StrippedIs ==
  ASSUME NEW text \in Seq(Tokens)
  PROVE  LET t == Stripped(text) IN
         /\ t \in Seq(Tokens) /\ Len(t) \in 0..Len(text)
         /\ \A i \in 1..Len(t) : t[i] = text[i]
         /\ \A i \in 1..Len(text) : i > Len(t) => text[i] = "/"
<1> DEFINE s == {0} \cup {i \in DOMAIN text : text[i] # "/"}
           m == Max(s)
           t == SubSeq(text, 1, m)
<1>1. Len(text) \in Nat /\ DOMAIN text = 1..Len(text)
  OBVIOUS
<1>2. s \in SUBSET (0..Len(text)) /\ s # {}
  BY <1>1
<1>3. m \in s /\ \A j \in s : m >= j
  <2> HIDE DEF s
  <2> QED
    BY <1>1, <1>2, MaxIsLargest
<1>4. m \in 0..Len(text)
  BY <1>2, <1>3
<1>5. \A i \in 1..Len(text) : i > m => text[i] = "/"
  <2> SUFFICES ASSUME NEW i \in 1..Len(text), i > m, text[i] # "/" PROVE FALSE
    OBVIOUS
  <2>1. i \in s
    BY <1>1
  <2> HIDE DEF s
  <2> QED
    BY <1>3, <1>4, <2>1
<1>6. /\ t \in Seq(Tokens) /\ Len(t) = m
      /\ \A i \in 1..m : t[i] = text[i]
  <2> HIDE DEF m
  <2>1. \A i \in 1..m : text[i] \in Tokens
    BY <1>1, <1>4
  <2> QED
    BY <1>4, <2>1, SubSeqProperties
<1>7. Stripped(text) = t
  BY DEF Stripped
<1> HIDE DEF t, m
<1> QED
  BY <1>4, <1>5, <1>6, <1>7

\* What is accepted, and the port that comes of it.
LEMMA Accepted ==
  ASSUME NEW text \in Seq(Tokens), Endpoint(text) # Absent, Url(text) \in Seq(Tokens)
  PROVE  LET url == Url(text) IN
         /\ Len(url) \in 5..7 /\ url[1] \in {"http", "https"}
         /\ url[2] = ":" /\ url[3] = "/" /\ url[4] = "/" /\ url[5] \notin Delimiters
         /\ Len(url) >= 6 => url[6] = ":"
         /\ Len(url) = 7 => url[7] \in DOMAIN Number
         /\ Endpoint(text).port =
              IF Len(url) = 7 /\ Number[url[7]] # 0 THEN Number[url[7]] ELSE DefaultPort(url[1])
<1> DEFINE url == Url(text)
           at == SubSeq(url, 5, Len(url))
<1>1. /\ Begins(url, "http") \/ Begins(url, "https")
      /\ Plain(at)
      /\ Endpoint(text).port = IF Len(at) = 3 /\ Number[at[3]] # 0 THEN Number[at[3]]
                               ELSE DefaultPort(url[1])
  BY DEF Endpoint
<1> HIDE DEF url
<1>2. url \in Seq(Tokens) /\ Len(url) \in Nat /\ Len(url) >= 4
  <2>1. url \in Seq(Tokens)
    BY DEF url
  <2> QED
    BY <1>1, <2>1 DEF Begins
<1>3. /\ Len(at) = Len(url) - 4
      /\ \A i \in 1..(Len(url) - 4) : at[i] = url[i + 4]
  <2>1. \A i \in 5..Len(url) : url[i] \in Tokens
    BY <1>2
  <2>2. /\ Len(at) = IF 5 <= Len(url) THEN Len(url) - 5 + 1 ELSE 0
        /\ \A i \in 1..(Len(url) - 5 + 1) : at[i] = url[5 + i - 1]
    <3> HIDE DEF at
    <3> QED
      BY <1>2, <2>1, SubSeqProperties DEF at
  <2> DEFINE n == Len(url)
             k == Len(at)
  <2>3. /\ n \in Nat /\ n >= 4 /\ k = IF 5 <= n THEN n - 5 + 1 ELSE 0
        /\ \A i \in 1..(n - 5 + 1) : at[i] = url[5 + i - 1]
    BY <1>2, <2>2
  <2> HIDE DEF at, n, k
  <2>4. k = n - 4
    BY <2>3
  <2>5. ASSUME NEW i \in 1..(n - 4) PROVE at[i] = url[i + 4]
    <3>1. 5 + i - 1 = i + 4 /\ i \in 1..(n - 5 + 1)
      BY <2>3
    <3> QED
      BY <2>3, <3>1
  <2> QED
    BY <2>4, <2>5 DEF n, k
<1> HIDE DEF at
<1>4. Len(url) \in 5..7
  BY <1>1, <1>2, <1>3 DEF Plain
<1>5. /\ at[1] = url[5] /\ Len(url) >= 6 => at[2] = url[6]
      /\ Len(url) = 7 => at[3] = url[7]
  <2>1. 1 \in 1..(Len(url) - 4) /\ (Len(url) >= 6 => 2 \in 1..(Len(url) - 4))
        /\ (Len(url) = 7 => 3 \in 1..(Len(url) - 4))
    <3> DEFINE n == Len(url)
    <3>1. n \in 5..7
      BY <1>4
    <3> HIDE DEF n
    <3>2. /\ 1 \in 1..(n - 4) /\ (n >= 6 => 2 \in 1..(n - 4))
          /\ (n = 7 => 3 \in 1..(n - 4))
      BY <3>1
    <3> QED
      BY <3>2 DEF n
  <2>2. 1 + 4 = 5 /\ 2 + 4 = 6 /\ 3 + 4 = 7
    OBVIOUS
  <2> QED
    BY <1>3, <2>1, <2>2
<1>6. Len(at) = 3 <=> Len(url) = 7
  BY <1>3, <1>4
<1>7. /\ url[1] \in {"http", "https"} /\ url[2] = ":" /\ url[3] = "/" /\ url[4] = "/"
  BY <1>1 DEF Begins
<1>8. /\ url[5] \notin Delimiters /\ (Len(url) >= 6 => url[6] = ":")
      /\ (Len(url) = 7 => url[7] \in DOMAIN Number)
  BY <1>1, <1>3, <1>4, <1>5 DEF Plain
<1>9. Endpoint(text).port =
        IF Len(url) = 7 /\ Number[url[7]] # 0 THEN Number[url[7]] ELSE DefaultPort(url[1])
  BY <1>1, <1>5, <1>6
<1> QED
  BY <1>4, <1>7, <1>8, <1>9 DEF url

\* There is one colon at most that a port can follow.
LEMMA OnePort ==
  ASSUME NEW text \in Seq(Tokens), NEW c \in Nat,
         \A k \in 2..Len(text) :
           text[k - 1] = ":" /\ text[k] \in DOMAIN Number => k = c
  PROVE  PortsGiven(text) =
           IF c \in 2..Len(text) /\ text[c - 1] = ":" /\ text[c] \in DOMAIN Number
           THEN {Number[text[c]]} \ {0} ELSE {}
<1> DEFINE K == {k \in 2..Len(text) : text[k - 1] = ":" /\ text[k] \in DOMAIN Number}
           is == c \in 2..Len(text) /\ text[c - 1] = ":" /\ text[c] \in DOMAIN Number
<1>1. K = IF is THEN {c} ELSE {}
  OBVIOUS
<1>2. PortsGiven(text) = {Number[text[k]] : k \in K} \ {0}
  BY DEF PortsGiven
<1> HIDE DEF K
<1> QED
  BY <1>1, <1>2

\* The two readings of an accepted text against what it says.
LEMMA ReadingsAgree ==
  ASSUME NEW text \in Seq(Tokens), Endpoint(text) # Absent
  PROVE  LET port == Endpoint(text).port IN
         IF OnlyScheme(text)
         THEN port = 80 /\ (Insecure(text) <=> Begins(text, "http"))
         ELSE /\ ~Insecure(text) <=> Begins(text, "https")
              /\ IF PortsGiven(text) = {} THEN port = IF Insecure(text) THEN 80 ELSE 443
                 ELSE PortsGiven(text) = {port}
<1> DEFINE t == Stripped(text)
           url == Url(text)
           port == Endpoint(text).port
           n == Len(t)
           m == Len(text)
<1>1. /\ t \in Seq(Tokens) /\ n \in 0..m /\ m \in Nat
      /\ \A i \in 1..n : t[i] = text[i]
      /\ \A i \in 1..m : i > n => text[i] = "/"
  <2>1. m \in Nat
    OBVIOUS
  <2> QED
    BY <2>1, StrippedIs
<1>2. ":" \notin DOMAIN Number /\ "/" \notin DOMAIN Number
  BY EndpointsAssumption DEF Delimiters
<1>3. CASE Marked(t)
  <2>1. url = t
    BY <1>3 DEF Url
  <2>2. /\ n \in 5..7 /\ t[1] \in {"http", "https"}
        /\ t[2] = ":" /\ t[3] = "/" /\ t[4] = "/" /\ t[5] \notin Delimiters
        /\ n >= 6 => t[6] = ":"
        /\ n = 7 => t[7] \in DOMAIN Number
        /\ port = IF n = 7 /\ Number[t[7]] # 0 THEN Number[t[7]] ELSE DefaultPort(t[1])
    <3>1. url \in Seq(Tokens)
      BY <1>1, <2>1
    <3> QED
      BY <2>1, <3>1, Accepted
  <2> HIDE DEF t, n, port, m
  <2>3. /\ text[1] = t[1] /\ text[2] = ":" /\ text[3] = "/" /\ text[4] = "/" /\ text[5] = t[5]
        /\ n >= 6 => text[6] = ":"
        /\ n = 7 => text[7] = t[7]
    BY <1>1, <2>2
  <2>4. m \in Nat /\ m >= 5 /\ n <= m
    BY <1>1, <2>2
  <2>5. Marked(text) /\ ~OnlyScheme(text)
    BY <1>3, <2>3, <2>4 DEF Marked, OnlyScheme, t, m
  <2>6. \A scheme : Begins(text, scheme) <=> t[1] = scheme
    BY <2>3, <2>4 DEF Begins, m
  <2>7. Insecure(text) <=> t[1] = "http"
    BY <2>5, <2>6 DEF Insecure
  <2>8. ASSUME NEW k \in 2..m, text[k - 1] = ":", text[k] \in DOMAIN Number PROVE k = 7
    <3>1. CASE k > n
      BY <1>1, <1>2, <2>8, <3>1
    <3>2. CASE k <= n
      <4>1. k \in {2, 3, 4, 5, 6, 7}
        BY <1>1, <2>2, <3>2
      <4> QED
        BY <1>2, <2>2, <2>3, <2>8, <4>1 DEF Delimiters
    <3> QED
      BY <1>1, <3>1, <3>2
  <2>9. PortsGiven(text) =
          IF 7 \in 2..m /\ text[7 - 1] = ":" /\ text[7] \in DOMAIN Number
          THEN {Number[text[7]]} \ {0} ELSE {}
    BY <2>8, OnePort DEF m
  <2>10. PortsGiven(text) = IF n = 7 THEN {Number[t[7]]} \ {0} ELSE {}
    <3>1. CASE n = 7
      BY <1>1, <2>2, <2>3, <2>4, <2>9, <3>1
    <3>2. CASE n # 7
      <4>1. 7 \in 2..m => text[7] = "/"
        BY <1>1, <2>2, <3>2
      <4> QED
        BY <1>2, <2>9, <3>2, <4>1
    <3> QED
      BY <3>1, <3>2
  <2> QED
    BY <2>2, <2>5, <2>6, <2>7, <2>10 DEF DefaultPort, port
<1>4. CASE ~Marked(t)
  <2> DEFINE prefix == <<"http", ":", "/", "/">>
  <2>1. url = prefix \o t
    BY <1>4 DEF Url
  <2>2. /\ prefix \in Seq(Tokens) /\ Len(prefix) = 4
        /\ prefix[1] = "http"
    <3>1. "http" \in Tokens /\ ":" \in Tokens /\ "/" \in Tokens
      BY DEF Tokens, Delimiters
    <3> QED
      BY <3>1
  <2>3. /\ url \in Seq(Tokens) /\ Len(url) = 4 + n /\ url[1] = "http"
        /\ \A i \in 1..n : url[i + 4] = t[i]
    <3> HIDE DEF prefix, t, url
    <3>1. /\ prefix \o t \in Seq(Tokens) /\ Len(prefix \o t) = Len(prefix) + Len(t)
          /\ \A i \in 1..(Len(prefix) + Len(t)) :
               (prefix \o t)[i] = IF i <= Len(prefix) THEN prefix[i] ELSE t[i - Len(prefix)]
      BY <1>1, <2>2, ConcatProperties
    <3>2. /\ url \in Seq(Tokens) /\ Len(url) = 4 + n
          /\ \A i \in 1..(4 + n) : url[i] = IF i <= 4 THEN prefix[i] ELSE t[i - 4]
      BY <2>1, <2>2, <3>1
    <3> HIDE DEF n
    <3>3. url[1] = "http"
      BY <1>1, <2>2, <3>2
    <3>4. ASSUME NEW i \in 1..n PROVE url[i + 4] = t[i]
      <4>1. i + 4 \in 1..(4 + n) /\ ~(i + 4 <= 4) /\ (i + 4) - 4 = i
        BY <1>1
      <4> QED
        BY <3>2, <4>1
    <3> QED
      BY <3>2, <3>3, <3>4
  <2>4. /\ Len(url) \in 5..7 /\ url[5] \notin Delimiters
        /\ Len(url) >= 6 => url[6] = ":"
        /\ Len(url) = 7 => url[7] \in DOMAIN Number
        /\ port = IF Len(url) = 7 /\ Number[url[7]] # 0 THEN Number[url[7]] ELSE DefaultPort(url[1])
    BY <2>3, Accepted
  <2> HIDE DEF t, n, m, port, url, prefix
  <2>5. /\ n \in 1..3 /\ t[1] \notin Delimiters /\ (n >= 2 => t[2] = ":")
        /\ (n = 3 => t[3] \in DOMAIN Number)
        /\ port = IF n = 3 /\ Number[t[3]] # 0 THEN Number[t[3]] ELSE 80
    <3>1. n \in 1..3 /\ (Len(url) >= 6 <=> n >= 2) /\ (Len(url) = 7 <=> n = 3)
      BY <1>1, <2>3, <2>4
    <3>2. 1 + 4 = 5 /\ 2 + 4 = 6 /\ 3 + 4 = 7
      OBVIOUS
    <3>3. url[5] = t[1] /\ (n >= 2 => url[6] = t[2]) /\ (n = 3 => url[7] = t[3])
      BY <2>3, <3>1, <3>2
    <3> QED
      BY <2>3, <2>4, <3>1, <3>3 DEF DefaultPort
  <2>6. CASE Marked(text)
    <3>1. OnlyScheme(text) /\ (Insecure(text) <=> Begins(text, "http"))
      BY <1>4, <2>6 DEF OnlyScheme, Insecure, t
    <3>2. PICK i \in 1..m : i + 2 <= m /\ text[i] = ":" /\ text[i + 1] = "/" /\ text[i + 2] = "/"
      BY <2>6 DEF Marked, m
    <3>3. i <= n
      BY <1>1, <3>2
    <3>4. n # 3
      <4> SUFFICES ASSUME n = 3 PROVE FALSE
        OBVIOUS
      <4>1. i \in {1, 2, 3} /\ t[i] = ":"
        BY <1>1, <3>2, <3>3
      <4>2. i = 2
        BY <1>2, <2>5, <4>1 DEF Delimiters
      <4>3. text[3] = t[3] /\ text[3] = "/"
        BY <1>1, <3>2, <4>2
      <4> QED
        BY <1>2, <2>5, <4>3
    <3> QED
      BY <2>5, <3>1, <3>4 DEF port
  <2>7. CASE ~Marked(text)
    <3>1. Insecure(text) /\ ~OnlyScheme(text)
      BY <2>7 DEF Insecure, OnlyScheme
    <3>2. ~Begins(text, "https")
      <4> SUFFICES ASSUME Begins(text, "https") PROVE FALSE
        OBVIOUS
      <4>1. m >= 4 /\ text[2] = ":" /\ text[3] = "/" /\ text[4] = "/"
        BY DEF Begins, m
      <4>2. 2 \in 1..m /\ 2 + 2 <= m /\ 2 + 1 = 3 /\ 2 + 2 = 4
        BY <1>1, <4>1
      <4> QED
        BY <2>7, <4>1, <4>2 DEF Marked, m
    <3>3. ASSUME NEW k \in 2..m, text[k - 1] = ":", text[k] \in DOMAIN Number PROVE k = 3
      <4>1. CASE k > n
        BY <1>1, <1>2, <3>3, <4>1
      <4>2. CASE k <= n
        <5>1. k \in {2, 3} /\ text[1] = t[1]
          BY <1>1, <2>5, <4>2
        <5> QED
          BY <2>5, <3>3, <5>1 DEF Delimiters
      <4> QED
        BY <1>1, <4>1, <4>2
    <3>4. PortsGiven(text) =
            IF 3 \in 2..m /\ text[3 - 1] = ":" /\ text[3] \in DOMAIN Number
            THEN {Number[text[3]]} \ {0} ELSE {}
      BY <3>3, OnePort DEF m
    <3>5. PortsGiven(text) = IF n = 3 THEN {Number[t[3]]} \ {0} ELSE {}
      <4>1. CASE n = 3
        <5>1. 3 \in 2..m /\ text[2] = ":" /\ text[3] = t[3] /\ 3 - 1 = 2
          BY <1>1, <2>5, <4>1
        <5> QED
          BY <2>5, <3>4, <4>1, <5>1
      <4>2. CASE n # 3
        <5>1. 3 \in 2..m => text[3] = "/"
          BY <1>1, <2>5, <4>2
        <5> QED
          BY <1>2, <3>4, <4>2, <5>1
      <4> QED
        BY <4>1, <4>2
    <3> QED
      BY <2>5, <3>1, <3>2, <3>5 DEF port
  <2> QED
    BY <2>6, <2>7
<1> QED
  BY <1>3, <1>4

\* Loki speaks TLS to the S3 server exactly when the relation's endpoint begins
\* with https://, and on its port; a mere scheme is a host on port 80
\* (_normalize_s3_endpoint, _s3_is_insecure).
THEOREM S3SchemeAgreesAlways == Spec => []S3SchemeAgrees
<1>1. TypeInv => S3SchemeAgrees
  <2> SUFFICES ASSUME TypeInv, Configurable, Storage.s3 # Absent PROVE S3SchemeAgrees
    BY DEF S3SchemeAgrees
  <2> DEFINE text == value.relation.endpoint
             client == Rendered.storage_config.client
  <2>1. /\ Endpoint(text) # Absent /\ client.endpoint = Endpoint(text)
        /\ client.insecure = Insecure(text)
        /\ value.relation # Absent
    <3>1. Given.s3 # None
      BY StorageOf, RenderedFrom DEF Storage, Backend
    <3>2. client = Given.s3
      BY <3>1, RenderedFrom DEF StorageConfig
    <3> QED
      BY <3>1, <3>2, StorageOf
  <2>2. text \in Seq(Tokens)
    BY <2>1, RenderedFrom, EndpointsAssumption
  <2> HIDE DEF text, client
  <2>3. LET port == client.endpoint.port IN
        IF OnlyScheme(text)
        THEN port = 80 /\ (client.insecure <=> Begins(text, "http"))
        ELSE /\ ~client.insecure <=> Begins(text, "https")
             /\ IF PortsGiven(text) = {} THEN port = IF client.insecure THEN 80 ELSE 443
                ELSE PortsGiven(text) = {port}
    <3>1. client.insecure \in BOOLEAN
      BY <2>1 DEF Insecure
    <3> QED
      BY <2>1, <2>2, ReadingsAgree
  <2> QED
    BY <2>3 DEF S3SchemeAgrees, text, client
<1> QED
  BY <1>1, TypeCorrect, PTL

-----------------------------------------------------------------------------
(***************************************************************************)
(* The rules that charms send.  What an application publishes is a         *)
(* sequence of valid groups whose names begin with the topology it uses.   *)
(***************************************************************************)
Sendable(topology) ==
  {g \in SomeGroup : /\ ValidGroup(g)
                     /\ \A j \in DOMAIN g.rules : g.rules[j].labels # "null"
                     /\ \A i \in 1..Len(topology) :
                          i \in DOMAIN g.name /\ g.name[i] = topology[i]}

LEMMA OneElement ==
  ASSUME NEW S, NEW x \in S
  PROVE  <<x>> \in Seq(S) /\ Len(<<x>>) = 1
OBVIOUS

\* What stands at the beginning of a sequence stays there.
LEMMA Lengthened ==
  ASSUME NEW S, NEW s \in Seq(S), NEW t \in Seq(S), NEW n \in Nat, n <= Len(s)
  PROVE  /\ s \o t \in Seq(S) /\ n <= Len(s \o t)
         /\ \A i \in 1..n : (s \o t)[i] = s[i]
<1>1. Len(s) \in Nat /\ Len(t) \in Nat
  BY LenProperties
<1>2. s \o t \in Seq(S) /\ Len(s \o t) = Len(s) + Len(t)
  BY ConcatProperties
<1>3. ASSUME NEW i \in 1..n PROVE (s \o t)[i] = s[i]
  <2>1. i \in 1..(Len(s) + Len(t)) /\ i <= Len(s)
    BY <1>1
  <2> QED
    BY <2>1, ConcatProperties
<1> QED
  BY <1>1, <1>2, <1>3

LEMMA NamedAfter ==
  ASSUME NEW topology \in Seq(Texts), NEW dir \in Seq(Texts), NEW name \in Seq(Texts)
  PROVE  LET full == GroupName(topology, dir, name)
         IN  /\ full \in Seq(Texts)
             /\ \A i \in 1..Len(topology) : i \in DOMAIN full /\ full[i] = topology[i]
<1> DEFINE n == Len(topology)
           under == topology \o dir
           named == under \o name
           full == named \o <<"alerts">>
<1>1. n \in Nat
  BY LenProperties
<1>2. ASSUME NEW s \in Seq(Texts), n <= Len(s), NEW t \in Seq(Texts)
      PROVE  /\ s \o t \in Seq(Texts) /\ n <= Len(s \o t)
             /\ \A i \in 1..n : (s \o t)[i] = s[i]
  <2> HIDE DEF n
  <2> QED
    BY <1>1, <1>2, Lengthened
<1>3. /\ under \in Seq(Texts) /\ n <= Len(under)
      /\ \A i \in 1..n : under[i] = topology[i]
  BY <1>1, <1>2
<1> HIDE DEF under, n
<1>4. /\ named \in Seq(Texts) /\ n <= Len(named)
      /\ \A i \in 1..n : named[i] = topology[i]
  BY <1>2, <1>3
<1> HIDE DEF named
<1>5. /\ full \in Seq(Texts) /\ n <= Len(full)
      /\ \A i \in 1..n : full[i] = topology[i]
  <2>1. "alerts" \in Texts
    BY DEF Texts
  <2>2. <<"alerts">> \in Seq(Texts)
    BY <2>1, OneElement
  <2> QED
    BY <1>2, <1>4, <2>2
<1>6. GroupName(topology, dir, name) = full
  BY DEF GroupName, full, named, under
<1> HIDE DEF full
<1>7. Len(full) \in Nat /\ DOMAIN full = 1..Len(full)
  BY <1>5, LenProperties
<1>8. \A i \in 1..n : i \in DOMAIN full
  BY <1>1, <1>5, <1>7
<1> QED
  BY <1>5, <1>6, <1>8 DEF n

LEMMA AnnotatedRule ==
  ASSUME NEW rule \in Rules, ValidRule(rule), rule.labels # "null", NEW topology
  PROVE  /\ Annotable(rule, topology) /\ Annotated(rule) \in Rules
         /\ ValidRule(Annotated(rule)) /\ Annotated(rule).labels # "null"
BY DEF Annotable, Annotated, ValidRule, Rules, Fields

LEMMA FileSends ==
  ASSUME NEW topology \in Seq(Texts), NEW file, RuleFile(file),
         \A j \in DOMAIN Read(file) :
           /\ ValidName(GroupName(topology, file.dir, Read(file)[j].name))
           /\ \A k \in DOMAIN Read(file)[j].rules :
                ValidRule(Read(file)[j].rules[k]) /\ Read(file)[j].rules[k].labels # "null"
  PROVE  FromFile(file, topology) \in Seq(Sendable(topology))
<1> DEFINE groups == Read(file)
           Rewritten(i) == [name |-> GroupName(topology, file.dir, groups[i].name),
                            rules |-> [j \in DOMAIN groups[i].rules |-> Annotated(groups[i].rules[j])]]
<1>1. groups \in Seq(SomeGroup)
  <2>1. CASE file.form = "official"
    BY <2>1 DEF Read, RuleFile
  <2>2. CASE file.form = "single"
    <3> DEFINE group == [name |-> file.stem, rules |-> <<file.rule>>]
    <3>1. file.stem \in Seq(Texts) /\ <<file.rule>> \in Seq(Rules)
      BY <2>2 DEF RuleFile
    <3>2. group \in SomeGroup
      BY <3>1 DEF SomeGroup
    <3>3. groups = <<group>>
      BY <2>2 DEF Read
    <3> HIDE DEF group
    <3> QED
      BY <3>2, <3>3
  <2>3. CASE file.form \notin {"official", "single"}
    BY <2>3 DEF Read
  <2> QED
    BY <2>1, <2>2, <2>3
<1>2. ASSUME NEW i \in DOMAIN groups, NEW j \in DOMAIN groups[i].rules
      PROVE  /\ groups[i].rules[j] \in Rules /\ ValidRule(groups[i].rules[j])
             /\ groups[i].rules[j].labels # "null"
  <2>1. groups[i].rules \in Seq(Rules)
    <3> HIDE DEF groups
    <3>1. groups[i] \in SomeGroup
      BY <1>1, ElementOfSeq
    <3> QED
      BY <3>1 DEF SomeGroup
  <2>2. groups[i].rules[j] \in Rules
    <3> DEFINE rules == groups[i].rules
    <3> HIDE DEF rules
    <3>1. rules \in Seq(Rules) /\ j \in DOMAIN rules
      BY <2>1 DEF rules
    <3>2. rules[j] \in Rules
      BY <3>1
    <3> QED
      BY <3>2 DEF rules
  <2> QED
    BY <2>2
<1>3. ASSUME NEW i \in DOMAIN groups PROVE Rewritten(i) \in Sendable(topology)
  <2>1. groups[i].name \in Seq(Texts) /\ groups[i].rules \in Seq(Rules) /\ file.dir \in Seq(Texts)
    <3>1. file.dir \in Seq(Texts)
      BY DEF RuleFile
    <3> HIDE DEF groups
    <3>2. groups[i] \in SomeGroup
      BY <1>1, ElementOfSeq
    <3> QED
      BY <3>1, <3>2 DEF SomeGroup
  <2>2. ASSUME NEW j \in DOMAIN groups[i].rules
        PROVE  /\ Annotated(groups[i].rules[j]) \in Rules
               /\ ValidRule(Annotated(groups[i].rules[j]))
               /\ Annotated(groups[i].rules[j]).labels # "null"
    BY <1>2, AnnotatedRule
  <2> DEFINE rules == [j \in DOMAIN groups[i].rules |-> Annotated(groups[i].rules[j])]
             name == GroupName(topology, file.dir, groups[i].name)
  <2>3. rules \in Seq(Rules)
    <3> DEFINE old == groups[i].rules
    <3>1. old \in Seq(Rules) /\ \A j \in DOMAIN old : Annotated(old[j]) \in Rules
      BY <2>1, <2>2
    <3> HIDE DEF old
    <3>2. [j \in DOMAIN old |-> Annotated(old[j])] \in Seq(Rules)
      BY <3>1
    <3> QED
      BY <3>2 DEF old
  <2>4. /\ name \in Seq(Texts)
        /\ \A k \in 1..Len(topology) : k \in DOMAIN name /\ name[k] = topology[k]
    BY <2>1, NamedAfter
  <2>5. \A j \in DOMAIN rules : ValidRule(rules[j]) /\ rules[j].labels # "null"
    BY <2>2
  <2>6. ValidName(name)
    OBVIOUS
  <2> HIDE DEF rules, name, groups
  <2>7. [name |-> name, rules |-> rules] \in Sendable(topology)
    BY <2>3, <2>4, <2>5, <2>6 DEF Sendable, SomeGroup, ValidGroup
  <2> QED
    BY <2>7 DEF rules, name
<1>4. \A i \in DOMAIN groups : \A j \in DOMAIN groups[i].rules :
        Annotable(groups[i].rules[j], topology)
  BY <1>2, AnnotatedRule
<1>5. FromFile(file, topology) = [i \in DOMAIN groups |-> Rewritten(i)]
  BY <1>4 DEF FromFile
<1> HIDE DEF groups, Rewritten
<1> QED
  BY <1>1, <1>3, <1>5

ExtendsBy(f, files, topology, recursive) ==
  f = [s \in SUBSET DOMAIN files |->
         IF s = {} THEN <<>>
         ELSE Extended(f[s \ {Max(s)}], files[Max(s)], topology, recursive)]

\* A loop over the files that stays among sequences of such groups.
LEMMA DirSends ==
  ASSUME NEW topology \in Seq(Texts), NEW recursive, NEW files,
         Len(files) \in Nat, DOMAIN files = 1..Len(files),
         \A i \in DOMAIN files : Picked(files[i], recursive) =>
           FromFile(files[i], topology) \in Seq(Sendable(topology))
  PROVE  FromDir(files, topology, recursive) \in Seq(Sendable(topology))
<1> DEFINE S == 1..Len(files)
           X == Seq(Sendable(topology))
           none == <<>>
           step == [p \in X \X S |-> Extended(p[1], files[p[2]], topology, recursive)]
<1>1. \A groups \in X, i \in S : Extended(groups, files[i], topology, recursive) \in X
  <2>1. Raised \notin X
    BY MissingAssumption DEF Sendable
  <2>2. \A i \in S : Picked(files[i], recursive) => FromFile(files[i], topology) \in X
    OBVIOUS
  <2> HIDE DEF S
  <2> QED
    BY <2>1, <2>2 DEF Extended
<1>2. none \in X /\ step \in [X \X S -> X]
  <2>1. none \in X
    BY EmptySeq
  <2> HIDE DEF X, S
  <2> QED
    BY <1>1, <2>1
<1>3. \A groups \in X, i \in S : step[<<groups, i>>] = Extended(groups, files[i], topology, recursive)
  OBVIOUS
<1>4. \E f \in [SUBSET S -> X] : FoldsUp(f, LastOf(Len(files)), step, none, SUBSET S)
  <2> HIDE DEF S, X, none, step
  <2> QED
    BY <1>2, LastChooses, FoldExists DEF S
<1>5. PICK f \in [SUBSET S -> X] : FoldsUp(f, LastOf(Len(files)), step, none, SUBSET S)
  BY <1>4
<1> HIDE DEF step
<1>6. \A s \in SUBSET S : s # {} =>
        step[<<f[s \ {LastOf(Len(files))[s]}], LastOf(Len(files))[s]>>] =
          Extended(f[s \ {Max(s)}], files[Max(s)], topology, recursive)
  <2>1. ASSUME NEW s \in SUBSET S, s # {}
        PROVE  /\ LastOf(Len(files))[s] = Max(s)
               /\ Max(s) \in S /\ f[s \ {Max(s)}] \in X
    BY <2>1, LastChooses
  <2> HIDE DEF X, S
  <2> QED
    BY <1>3, <2>1
<1>7. ExtendsBy(f, files, topology, recursive)
  BY <1>5, <1>6 DEF FoldsUp, ExtendsBy
<1>8. FromDir(files, topology, recursive) = (CHOOSE g : ExtendsBy(g, files, topology, recursive))[DOMAIN files]
  BY DEF FromDir, FoldLeft, MapThenFoldSet, ExtendsBy
<1>9. PICK g : ExtendsBy(g, files, topology, recursive) /\ FromDir(files, topology, recursive) = g[S]
  BY <1>7, <1>8
<1> DEFINE C == {s \in SUBSET S : g[s] \notin X}
<1>10. ASSUME NEW s \in C, \A t \in C : Cardinality(s) <= Cardinality(t) PROVE FALSE
  <2>1. s \in SUBSET S /\ IsFiniteSet(S) /\ g[s] \notin X
    BY LastChooses
  <2>2. CASE s = {}
    BY <1>2, <1>9, <2>1, <2>2 DEF ExtendsBy
  <2>3. CASE s # {}
    <3> DEFINE x == Max(s)
               t == s \ {Max(s)}
    <3>1. x \in s /\ x \in S /\ t \in SUBSET S
      BY <2>1, <2>3, MaxIsElement
    <3>2. Cardinality(t) = Cardinality(s) - 1 /\ Cardinality(s) \in Nat
      <4> HIDE DEF S, x
      <4> QED
        BY <2>1, <3>1, ElementAway DEF x
    <3>3. g[s] = Extended(g[t], files[x], topology, recursive)
      BY <1>9, <2>1, <2>3 DEF ExtendsBy
    <3> HIDE DEF x, t, X
    <3>4. g[t] \in X
      BY <1>10, <3>1, <3>2
    <3> QED
      BY <1>1, <2>1, <3>1, <3>3, <3>4
  <2> QED
    BY <2>2, <2>3
<1>11. \A s \in C : IsFiniteSet(s)
  BY LastChooses, FS_Subset
<1>12. C = {}
  <2> HIDE DEF C
  <2> QED
    BY <1>10, <1>11, SmallestSet
<1> QED
  BY <1>9, <1>12

\* Extra labels change nothing but the labels.
LEMMA InjectedGroups ==
  ASSUME NEW topology \in Seq(Texts), NEW groups \in Seq(Sendable(topology)),
         NEW extra \in {"absent", "texts"}
  PROVE  Injected(groups, extra) \in Seq(Sendable(topology))
<1> DEFINE X == Sendable(topology)
           Changed(i) == [name |-> groups[i].name,
                          rules |-> [j \in DOMAIN groups[i].rules |->
                                       Relabelled(groups[i].rules[j], extra)]]
<1>1. groups # Raised
  <2>1. X \subseteq SomeGroup
    BY DEF Sendable
  <2>2. groups \in Seq(SomeGroup)
    <3> HIDE DEF X
    <3> QED
      BY <2>1, SeqMonotonic DEF X
  <2> QED
    BY <2>2, MissingAssumption
<1>2. CASE extra = "absent"
  BY <1>2 DEF Injected
<1>3. CASE extra = "texts"
  <2>1. ASSUME NEW i \in DOMAIN groups
        PROVE  /\ groups[i] \in SomeGroup /\ ValidGroup(groups[i])
               /\ \A j \in DOMAIN groups[i].rules : groups[i].rules[j].labels # "null"
               /\ \A k \in 1..Len(topology) :
                    k \in DOMAIN groups[i].name /\ groups[i].name[k] = topology[k]
    <3>1. groups[i] \in X
      BY ElementOfSeq
    <3> QED
      BY <3>1 DEF Sendable
  <2>2. ASSUME NEW i \in DOMAIN groups, NEW j \in DOMAIN groups[i].rules
        PROVE  LET rule == groups[i].rules[j] IN
               /\ rule.labels \notin {"null", "scalar"}
               /\ Relabelled(rule, extra) \in Rules /\ ValidRule(Relabelled(rule, extra))
               /\ Relabelled(rule, extra).labels # "null"
    <3> DEFINE rules == groups[i].rules
               rule == rules[j]
    <3>1. rules \in Seq(Rules) /\ ValidRule(rule) /\ rule.labels # "null"
      BY <2>1 DEF SomeGroup, ValidGroup
    <3> HIDE DEF rules
    <3>2. rule \in Rules
      BY <3>1, ElementOfSeq DEF rules
    <3> HIDE DEF rule
    <3>3. /\ rule.labels \notin {"null", "scalar"}
          /\ Relabelled(rule, extra) \in Rules /\ ValidRule(Relabelled(rule, extra))
          /\ Relabelled(rule, extra).labels # "null"
      BY <1>3, <3>1, <3>2 DEF Relabelled, ValidRule, Rules, Fields
    <3> QED
      BY <3>3 DEF rule, rules
  <2>3. ASSUME NEW i \in DOMAIN groups PROVE Changed(i) \in X
    <3> DEFINE old == groups[i].rules
               rules == [j \in DOMAIN old |-> Relabelled(old[j], extra)]
    <3>1. old \in Seq(Rules) /\ groups[i].name \in Seq(Texts) /\ ValidName(groups[i].name)
      BY <2>1 DEF SomeGroup, ValidGroup
    <3>2. \A j \in DOMAIN old : Relabelled(old[j], extra) \in Rules
      BY <2>2
    <3>3. rules \in Seq(Rules)
      <4> HIDE DEF old
      <4> QED
        BY <3>1, <3>2
    <3>4. \A j \in DOMAIN rules : ValidRule(rules[j]) /\ rules[j].labels # "null"
      BY <2>2
    <3>5. \A k \in 1..Len(topology) :
            k \in DOMAIN groups[i].name /\ groups[i].name[k] = topology[k]
      BY <2>1
    <3> DEFINE name == groups[i].name
    <3> HIDE DEF rules, name
    <3>6. [name |-> name, rules |-> rules] \in X
      BY <3>1, <3>3, <3>4, <3>5 DEF Sendable, SomeGroup, ValidGroup, name
    <3> QED
      BY <3>6 DEF rules, name
  <2>4. Injected(groups, extra) = [i \in DOMAIN groups |-> Changed(i)]
    BY <1>1, <1>3, <2>2 DEF Injected
  <2> HIDE DEF Changed, X
  <2>5. groups \in Seq(X)
    BY DEF X
  <2>6. [i \in DOMAIN groups |-> Changed(i)] \in Seq(X)
    BY <2>3, <2>5
  <2> QED
    BY <2>4, <2>6 DEF X
<1> QED
  BY <1>2, <1>3

LEMMA SentGroups ==
  ASSUME NEW app, app.topology \in Seq(Texts), app.forward \in BOOLEAN,
         app.extra \in {"absent", "texts", "other"},
         Len(app.files) \in Nat, DOMAIN app.files = 1..Len(app.files),
         \A i \in DOMAIN app.files : RuleFile(app.files[i]),
         WellFormed(app)
  PROVE  Sent(app) \in Seq(Sendable(TopologyUsed(app))) /\ Sent(app) # Raised
<1> DEFINE topology == TopologyUsed(app)
           files == IF app.forward THEN app.files ELSE <<>>
           groups == FromDir(files, topology, app.recursive)
<1>1. topology \in Seq(Texts)
  BY DEF TopologyUsed, NoTopology
<1>2. Len(files) \in Nat /\ DOMAIN files = 1..Len(files)
  OBVIOUS
<1>3. ASSUME NEW i \in DOMAIN files, Picked(files[i], app.recursive)
      PROVE  FromFile(files[i], topology) \in Seq(Sendable(topology))
  <2> DEFINE file == app.files[i]
  <2>1. app.forward /\ i \in DOMAIN app.files /\ file = files[i]
    OBVIOUS
  <2>2. /\ RuleFile(file)
        /\ \A j \in DOMAIN Read(file) :
             /\ ValidName(GroupName(topology, file.dir, Read(file)[j].name))
             /\ \A k \in DOMAIN Read(file)[j].rules :
                  ValidRule(Read(file)[j].rules[k]) /\ Read(file)[j].rules[k].labels # "null"
    BY <1>3, <2>1 DEF WellFormed
  <2> HIDE DEF file, topology
  <2>3. FromFile(file, topology) \in Seq(Sendable(topology))
    BY <1>1, <2>2, FileSends
  <2> QED
    BY <2>1, <2>3
<1> HIDE DEF files, topology
<1>4. groups \in Seq(Sendable(topology))
  BY <1>1, <1>2, <1>3, DirSends
<1>5. app.extra \in {"absent", "texts"}
  BY DEF WellFormed
<1>6. Sent(app) = Injected(groups, app.extra)
  BY DEF Sent, files, topology
<1> HIDE DEF groups
<1>7. Sent(app) \in Seq(Sendable(topology))
  BY <1>1, <1>4, <1>5, <1>6, InjectedGroups
<1>8. Sendable(topology) \subseteq SomeGroup
  BY DEF Sendable
<1>9. Sent(app) \in Seq(SomeGroup)
  BY <1>7, <1>8, SeqMonotonic
<1> QED
  BY <1>7, <1>9, MissingAssumption DEF topology

\* Rules that are sent are parsed to themselves (parse_rule_groups).
LEMMA SentIsParsed ==
  ASSUME NEW topology, NEW sent \in Seq(Sendable(topology)),
         Document(sent).size < MaxValue, Bounded(Document(sent), MaxNodes)
  PROVE  Parse(Text(Document(sent), "json", 1)) = sent
<1>1. \A i \in DOMAIN sent : ValidGroup(sent[i])
  BY DEF Sendable
<1> DEFINE document == Document(sent)
           text == Text(Document(sent), "json", 1)
<1>2. document.groups = sent
  BY DEF Document
<1>3. text.form = "json" /\ text.document = document /\ text.bytes = document.size
  BY DEF Text
<1> HIDE DEF document, text
<1> QED
  BY <1>1, <1>2, <1>3 DEF Parse, document, text

\* The names of two applications differ in their topologies.
LEMMA NamesApart ==
  ASSUME NEW t \in Seq(Texts), Len(t) = 3, NEW u \in Seq(Texts), Len(u) = 3,
         NEW sent \in Seq(Sendable(t)), NEW other \in Seq(Sendable(u)),
         NEW i \in DOMAIN sent, NEW j \in DOMAIN other, sent[i].name = other[j].name
  PROVE  t = u
<1>1. sent[i] \in Sendable(t) /\ other[j] \in Sendable(u)
  BY ElementOfSeq
<1>2. \A k \in 1..3 : t[k] = u[k]
  BY <1>1 DEF Sendable
<1> QED
  BY <1>2, SeqEqual

\* Rules in well-formed files are published and accepted, and what keeps them
\* from being merged is one of the two collisions of Collide and nothing else
\* (AlertRules, parse_rule_groups, merge_rule_groups).
THEOREM SentRulesAreMerged == Spec => []SentRulesMerge
<1>1. TypeInv => SentRulesMerge
  <2> SUFFICES ASSUME TypeInv, Is("consumers"),
                      \A r \in DOMAIN value.apps : WellFormed(value.apps[r])
               PROVE  /\ \A r \in DOMAIN value.apps : Sent(value.apps[r]) # Raised
                      /\ WithinLimits(Documents(value.apps)) =>
                           /\ \A r \in DOMAIN value.apps :
                                LET sent == Sent(value.apps[r])
                                IN  Parse(Text(Document(sent), "json", 1)) = sent
                           /\ Merge(Documents(value.apps)) =
                                IF Collide(value.apps) THEN Rejected
                                ELSE Everything(Documents(value.apps))
    BY DEF SentRulesMerge
  <2> DEFINE apps == value.apps
             documents == Documents(apps)
             at == Positions(documents)
  <2>1. ASSUME NEW r \in DOMAIN apps
        PROVE  /\ apps[r].topology \in Seq(Texts) /\ Len(apps[r].topology) = 3
               /\ apps[r].skip \in BOOLEAN
               /\ \A s \in DOMAIN apps : apps[s].topology = apps[r].topology => s = r
               /\ Sent(apps[r]) \in Seq(Sendable(TopologyUsed(apps[r])))
               /\ Sent(apps[r]) # Raised
    <3>1. value \in Consumers
      BY Sorted
    <3> HIDE DEF apps
    <3>2. /\ apps[r].topology \in Seq(Texts) /\ Len(apps[r].topology) = 3
          /\ apps[r].skip \in BOOLEAN /\ apps[r].forward \in BOOLEAN
          /\ apps[r].extra \in {"absent", "texts", "other"}
          /\ \A s \in DOMAIN apps : apps[s].topology = apps[r].topology => s = r
          /\ Len(apps[r].files) \in Nat /\ DOMAIN apps[r].files = 1..Len(apps[r].files)
          /\ \A i \in DOMAIN apps[r].files : RuleFile(apps[r].files[i])
          /\ WellFormed(apps[r])
      BY <3>1, ConsumersAssumption DEF apps
    <3> QED
      BY <3>2, SentGroups
  <2>2. /\ DOMAIN documents = DOMAIN apps
        /\ \A r \in DOMAIN apps : documents[r] = Document(Sent(apps[r]))
        /\ \A r \in DOMAIN apps : documents[r].groups = Sent(apps[r])
    BY DEF Documents, Document
  <2>3. at = UNION {{<<r, i>> : i \in DOMAIN Sent(apps[r])} : r \in DOMAIN apps}
    BY <2>2 DEF Positions
  <2> HIDE DEF apps, documents
  <2>4. ASSUME WithinLimits(documents), NEW r \in DOMAIN apps
        PROVE  Parse(Text(Document(Sent(apps[r])), "json", 1)) = Sent(apps[r])
    <3>1. Document(Sent(apps[r])).size < MaxValue /\ Bounded(Document(Sent(apps[r])), MaxNodes)
      BY <2>2, <2>4 DEF WithinLimits
    <3>2. Sent(apps[r]) \in Seq(Sendable(TopologyUsed(apps[r])))
      BY <2>1
    <3> QED
      BY <3>1, <3>2, SentIsParsed
  <2>5. ASSUME Collide(apps) PROVE Merge(documents) = Rejected
    <3>1. PICK r \in DOMAIN apps, s \in DOMAIN apps :
            \E i \in DOMAIN Sent(apps[r]), j \in DOMAIN Sent(apps[s]) :
              Sent(apps[r])[i].name = Sent(apps[s])[j].name /\ ~(r = s /\ i = j)
      <4>1. CASE \E r \in DOMAIN apps : ~NamesUnique(Sent(apps[r]))
        BY <4>1 DEF NamesUnique
      <4>2. CASE \E r \in DOMAIN apps : \E s \in DOMAIN apps \ {r} :
                   apps[r].skip /\ NamesMeet(Sent(apps[r]), Sent(apps[s]))
        BY <4>2 DEF NamesMeet
      <4> QED
        BY <2>5, <4>1, <4>2 DEF Collide
    <3>2. PICK i \in DOMAIN Sent(apps[r]), j \in DOMAIN Sent(apps[s]) :
            Sent(apps[r])[i].name = Sent(apps[s])[j].name /\ ~(r = s /\ i = j)
      BY <3>1
    <3> DEFINE p == <<r, i>>
               q == <<s, j>>
    <3>3. p \in at /\ q \in at /\ p # q
      BY <2>3, <3>2
    <3>4. GroupAt(documents, p).name = GroupAt(documents, q).name
      BY <2>2, <3>2 DEF GroupAt
    <3> HIDE DEF p, q
    <3> QED
      BY <3>3, <3>4 DEF Merge
  <2>6. ASSUME WithinLimits(documents), ~Collide(apps)
        PROVE  Merge(documents) = Everything(documents)
    <3>1. ASSUME NEW p \in at, NEW q \in at, GroupAt(documents, p).name = GroupAt(documents, q).name
          PROVE  p = q
      <4>1. PICK r \in DOMAIN apps : \E i \in DOMAIN Sent(apps[r]) : p = <<r, i>>
        BY <2>3
      <4>2. PICK s \in DOMAIN apps : \E j \in DOMAIN Sent(apps[s]) : q = <<s, j>>
        BY <2>3
      <4>3. PICK i \in DOMAIN Sent(apps[r]) : p = <<r, i>>
        BY <4>1
      <4>4. PICK j \in DOMAIN Sent(apps[s]) : q = <<s, j>>
        BY <4>2
      <4>5. Sent(apps[r])[i].name = Sent(apps[s])[j].name
        BY <2>2, <3>1, <4>3, <4>4 DEF GroupAt
      <4>6. r = s
        <5> SUFFICES ASSUME r # s PROVE FALSE
          OBVIOUS
        <5>1. /\ NamesMeet(Sent(apps[r]), Sent(apps[s]))
              /\ NamesMeet(Sent(apps[s]), Sent(apps[r]))
          BY <4>5 DEF NamesMeet
        <5>2. ~apps[r].skip /\ ~apps[s].skip
          BY <2>6, <5>1 DEF Collide
        <5>3. TopologyUsed(apps[r]) = apps[r].topology /\ TopologyUsed(apps[s]) = apps[s].topology
          BY <5>2 DEF TopologyUsed
        <5>4. /\ apps[r].topology \in Seq(Texts) /\ Len(apps[r].topology) = 3
              /\ apps[s].topology \in Seq(Texts) /\ Len(apps[s].topology) = 3
              /\ Sent(apps[r]) \in Seq(Sendable(apps[r].topology))
              /\ Sent(apps[s]) \in Seq(Sendable(apps[s].topology))
          BY <2>1, <5>3
        <5>5. apps[r].topology = apps[s].topology
          BY <4>5, <5>4, NamesApart
        <5> QED
          BY <2>1, <5>5
      <4>7. i = j
        BY <2>6, <4>5, <4>6 DEF NamesUnique, Collide
      <4> QED
        BY <4>3, <4>4, <4>6, <4>7
    <3>2. /\ Cardinality(at) <= MaxGroups
          /\ MapThenSumSet(LAMBDA p : Len(GroupAt(documents, p).rules), at) <= MaxRules
      BY <2>6 DEF WithinLimits
    <3> QED
      BY <3>1, <3>2 DEF Merge, Everything
  <2> QED
    BY <2>1, <2>4, <2>5, <2>6 DEF apps, documents
<1> QED
  BY <1>1, TypeCorrect, PTL
=============================================================================
