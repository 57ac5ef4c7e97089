---------------------------- MODULE ReviewsProofs ----------------------------
(***************************************************************************)
(* Theorems about Reviews, as MCServices runs it, for any bookings, calls  *)
(* and page size: the reader of the pages misses no review, and a review   *)
(* that nobody met leaves the turf with the right average.                 *)
(*                                                                         *)
(* Reviews are put in front, so a review only moves to later pages: what   *)
(* the reader is owed and has not got lies behind what it has skipped.     *)
(***************************************************************************)
EXTENDS MCServices, Sequences, FiniteSetTheorems, TLAPS

\* The reviews are a list without repetition.
Listed ==
    /\ reviews \in Seq(Bookings)
    /\ \A i, j \in 1..Len(reviews) : reviews[i] = reviews[j] => i = j

\* A call works for a booking, and its average is over reviews that exist; one
\* that has met nobody is the only one, and its average is over all reviews.
RateOK(c) ==
    /\ c.at # "idle" => c.booking \in Bookings
    /\ c.average \subseteq V!ToSet(reviews)
    /\ c.alone /\ c.at = "write" => c.average = V!ToSet(reviews)
CallsOK ==
    /\ reviewCall \in [Requests -> V!Calls]
    /\ \A r \in Requests : RateOK(reviewCall[r])
    /\ \A q, r \in Requests :
         ~V!At(q, "idle") /\ ~V!At(r, "idle") /\ reviewCall[r].alone => q = r

\* What the reader is owed it has got, or will find on the pages that it asks
\* for next; the pages that it has got were full.
Behind(b, n) == \E i \in 1..Len(reviews) : i > n /\ reviews[i] = b
ReaderOK ==
    /\ reader \in [page : Nat, got : SUBSET Bookings, owed : SUBSET Bookings]
    /\ reader.page # 0 => V!Skip(reader.page) <= Len(reviews)
    /\ \A b \in reader.owed \ reader.got :
         reader.page # 0 /\ Behind(b, V!Skip(reader.page))

RatedOK == rated \in SUBSET V!ToSet(reviews)

\* The inductive invariant.
ReviewInv == Listed /\ RatedOK /\ CallsOK /\ ReaderOK

-----------------------------------------------------------------------------
(* Lists and pages                                                         *)

LEMMA ReviewCardinality == \A S : V!Cardinality(S) = Cardinality(S)
BY DEF V!Cardinality, Cardinality

LEMMA NextSkip ==
    ASSUME NEW p \in Nat \ {0}
    PROVE  V!Skip(p) \in Nat /\ V!Skip(p + 1) = V!Skip(p) + Limit /\ V!Skip(1) = 0
           /\ p - 1 <= V!Skip(p)
<1>1. Limit \in Nat \ {0}
  BY ConstantsOK
<1>2. p - 1 \in Nat
  OBVIOUS
<1>3. V!Skip(p) \in Nat
  BY <1>1, <1>2 DEF V!Skip
<1>4. V!Skip(p + 1) = V!Skip(p) + Limit
  <2>1. V!Skip(p + 1) = p * Limit
    BY DEF V!Skip
  <2>2. (p - 1) * Limit = p * Limit - Limit
    BY <1>1
  <2>3. QED
    BY <1>1, <2>1, <2>2 DEF V!Skip
<1>5. p - 1 <= (p - 1) * Limit
  <2> DEFINE a == p - 1
  <2>1. a * (Limit - 1) \in Nat
    BY <1>1, <1>2
  <2>2. a * (Limit - 1) = a * Limit - a
    BY <1>1, <1>2
  <2>3. a \in Nat /\ a * Limit \in Nat
    BY <1>1, <1>2
  <2> HIDE DEF a
  <2>4. a <= a * Limit
    BY <2>1, <2>2, <2>3
  <2>5. QED
    BY <2>4 DEF a
<1>6. V!Skip(1) = 0
  BY <1>1 DEF V!Skip
<1>7. QED
  BY <1>3, <1>4, <1>5, <1>6 DEF V!Skip

\* The entries of a list without repetition are as many as its places.
LEMMA ListedCount ==
    ASSUME Listed
    PROVE  /\ V!ToSet(reviews) = {reviews[i] : i \in 1..Len(reviews)}
           /\ V!ToSet(reviews) \subseteq Bookings
           /\ Len(reviews) = Cardinality(V!ToSet(reviews))
           /\ Len(reviews) <= Cardinality(Bookings)
<1> DEFINE I == 1..Len(reviews)
           f == [i \in I |-> reviews[i]]
<1>1. Len(reviews) \in Nat /\ DOMAIN reviews = I /\ \A i \in I : reviews[i] \in Bookings
  BY DEF Listed
<1>2. V!ToSet(reviews) = {reviews[i] : i \in I}
  BY <1>1 DEF V!ToSet
<1>3. IsFiniteSet(I) /\ Cardinality(I) = Len(reviews)
  BY <1>1, FS_Interval
<1>4. f \in Surjection(I, V!ToSet(reviews)) /\ f \in Injection(I, V!ToSet(reviews))
  BY <1>2 DEF Surjection, Injection, IsInjective, Listed
<1>5. Cardinality(V!ToSet(reviews)) = Len(reviews)
  BY <1>3, <1>4, FS_Surjection
<1>6. V!ToSet(reviews) \in SUBSET Bookings
  BY <1>1, <1>2
<1>7. Cardinality(V!ToSet(reviews)) <= Cardinality(Bookings)
  BY <1>6, FS_Subset, ConstantsOK
<1>8. QED
  BY <1>2, <1>5, <1>6, <1>7

\* A page is short exactly when the list ends on it.
LEMMA PageShort ==
    ASSUME Listed, NEW p \in Nat \ {0}
    PROVE  /\ V!Page(p) = {reviews[i] : i \in (V!Skip(p) + 1)..(V!Skip(p) + Limit)
                                              \cap 1..Len(reviews)}
           /\ V!Page(p) \in SUBSET Bookings
           /\ Cardinality(V!Page(p)) < Limit <=> Len(reviews) < V!Skip(p) + Limit
<1> DEFINE s == V!Skip(p)
           n == Len(reviews)
           I == (s + 1)..(s + Limit)
           J == I \cap 1..n
           f == [i \in J |-> reviews[i]]
<1>1. /\ s \in Nat /\ n \in Nat /\ Limit \in Nat /\ Limit > 0 /\ DOMAIN reviews = 1..n
      /\ \A i \in 1..n : reviews[i] \in Bookings
  <2>1. s \in Nat /\ Limit \in Nat /\ Limit > 0
    BY NextSkip, ConstantsOK
  <2>2. n \in Nat /\ DOMAIN reviews = 1..n /\ \A i \in 1..n : reviews[i] \in Bookings
    BY DEF Listed
  <2>3. QED
    BY <2>1, <2>2
<1>2. V!Page(p) = {reviews[i] : i \in J}
  BY <1>1 DEF V!Page
<1>3. V!Page(p) \in SUBSET Bookings
  BY <1>1, <1>2
<1> HIDE DEF s, n
<1>4. IsFiniteSet(I) /\ Cardinality(I) = Limit
  BY <1>1, FS_Interval
<1>5. IsFiniteSet(J) /\ J \in SUBSET I
  BY <1>4, FS_Subset
<1>6. f \in Surjection(J, V!Page(p)) /\ f \in Injection(J, V!Page(p))
  BY <1>2 DEF Surjection, Injection, IsInjective, Listed, n
<1>7. Cardinality(V!Page(p)) = Cardinality(J)
  BY <1>5, <1>6, FS_Surjection
<1>8. Cardinality(J) < Limit <=> n < s + Limit
  <2>1. ASSUME n < s + Limit PROVE Cardinality(J) < Limit
    <3> DEFINE K == (s + 1)..(s + Limit - 1)
    <3>1. J \in SUBSET K
      BY <1>1, <2>1
    <3>2. s + 1 \in Int /\ s + Limit - 1 \in Int
      BY <1>1
    <3>3. IsFiniteSet(K) /\ Cardinality(K) = IF s + 1 > s + Limit - 1 THEN 0
                                             ELSE (s + Limit - 1) - (s + 1) + 1
      BY <3>2, FS_Interval
    <3>4. Cardinality(K) = Limit - 1
      BY <1>1, <3>3
    <3>5. Cardinality(J) <= Cardinality(K) /\ Cardinality(J) \in Nat
      BY <1>5, <3>1, <3>3, FS_Subset, FS_CardinalityType
    <3>6. QED
      BY <1>1, <3>4, <3>5
  <2>2. ASSUME ~(n < s + Limit) PROVE ~(Cardinality(J) < Limit)
    <3>1. J = I
      BY <1>1, <2>2
    <3>2. Cardinality(J) = Limit
      BY <1>4, <3>1
    <3>3. QED
      <4> HIDE DEF J
      <4>1. QED
        BY <1>1, <3>2
  <2>3. QED
    BY <2>1, <2>2
<1>9. QED
  BY <1>2, <1>3, <1>7, <1>8 DEF s, n

\* A review is put in front of the others.
LEMMA FrontFact ==
    ASSUME Listed, NEW b \in Bookings \ V!ToSet(reviews), reviews' = <<b>> \o reviews
    PROVE  /\ Listed' /\ Len(reviews') = Len(reviews) + 1
           /\ \A i \in 1..Len(reviews) : reviews'[i + 1] = reviews[i]
           /\ V!ToSet(reviews) \subseteq V!ToSet(reviews')
<1>1. /\ reviews \in Seq(Bookings) /\ Len(reviews) \in Nat
      /\ \A i \in 1..Len(reviews) : reviews[i] # b
  BY ListedCount DEF Listed
<1>2. /\ reviews' \in Seq(Bookings) /\ Len(reviews') = Len(reviews) + 1
      /\ reviews'[1] = b
      /\ \A i \in 2..(Len(reviews) + 1) : reviews'[i] = reviews[i - 1]
  BY <1>1
<1>3. \A i, j \in 1..Len(reviews') : reviews'[i] = reviews'[j] => i = j
  <2> SUFFICES ASSUME NEW i \in 1..Len(reviews'), NEW j \in 1..Len(reviews'),
                      reviews'[i] = reviews'[j]
               PROVE i = j
    OBVIOUS
  <2>1. CASE i = 1 \/ j = 1
    <3>1. \A k \in 2..(Len(reviews) + 1) : reviews'[k] # b
      BY <1>1, <1>2
    <3>2. QED
      BY <1>1, <1>2, <2>1, <3>1
  <2>2. CASE i # 1 /\ j # 1
    <3>1. i - 1 \in 1..Len(reviews) /\ j - 1 \in 1..Len(reviews)
      BY <1>1, <1>2, <2>2
    <3>2. reviews[i - 1] = reviews[j - 1]
      BY <1>1, <1>2, <2>2
    <3>3. i - 1 = j - 1
      BY <3>1, <3>2 DEF Listed
    <3>4. QED
      BY <3>3
  <2>3. QED
    BY <2>1, <2>2
<1>4. Listed'
  BY <1>2, <1>3 DEF Listed
<1>5. \A i \in 1..Len(reviews) : reviews'[i + 1] = reviews[i] /\ i + 1 \in 1..Len(reviews')
  BY <1>1, <1>2
<1>6. V!ToSet(reviews) \subseteq V!ToSet(reviews')
  <2>1. V!ToSet(reviews) = {reviews[i] : i \in 1..Len(reviews)}
    BY ListedCount
  <2>2. \A i \in 1..Len(reviews') : reviews'[i] \in V!ToSet(reviews')
    BY <1>2 DEF V!ToSet
  <2>3. QED
    BY <1>5, <2>1, <2>2
<1>7. QED
  BY <1>2, <1>4, <1>5, <1>6

-----------------------------------------------------------------------------
(* Calls of createReview                                                   *)

LEMMA ReviewInit == V!Init => ReviewInv
<1> SUFFICES ASSUME V!Init PROVE ReviewInv
  OBVIOUS
<1>1. reviews = <<>> /\ rated = {} /\ reader = V!Resting
  BY DEF V!Init
<1>2. Listed /\ RatedOK
  BY <1>1 DEF Listed, RatedOK
<1>3. V!Idle \in V!Calls /\ V!Idle.at = "idle" /\ V!Idle.average = {}
  BY DEF V!Idle, V!Calls, V!Steps
<1>4. CallsOK
  BY <1>3 DEF V!Init, CallsOK, RateOK, V!At
<1>5. ReaderOK
  BY <1>1 DEF V!Resting, ReaderOK
<1>6. QED
  BY <1>2, <1>4, <1>5 DEF ReviewInv

\* A call moves on, alone only if it was, and no review is written.
LEMMA ReviewMoves ==
    ASSUME CallsOK, UNCHANGED reviews, NEW r \in Requests, NEW c \in V!Calls, RateOK(c),
           reviewCall' = [reviewCall EXCEPT ![r] = c],
           \/ c.at = "idle"
           \/ ~V!At(r, "idle") /\ (c.alone => reviewCall[r].alone)
    PROVE  CallsOK'
<1>1. reviewCall' \in [Requests -> V!Calls]
  BY DEF CallsOK
<1>2. \A q \in Requests : reviewCall'[q] = IF q = r THEN c ELSE reviewCall[q]
  BY DEF CallsOK
<1>3. \A q \in Requests : RateOK(reviewCall[q])'
  BY <1>2 DEF CallsOK, RateOK
<1>4. ASSUME NEW q \in Requests, ~V!At(q, "idle")'
      PROVE  ~V!At(q, "idle") /\ (reviewCall'[q].alone => reviewCall[q].alone)
  BY <1>2, <1>4 DEF V!At
<1>5. QED
  BY <1>1, <1>3, <1>4 DEF CallsOK

LEMMA ReviewEnds ==
    ASSUME CallsOK, UNCHANGED reviews, NEW r \in Requests, V!Done(r)
    PROVE  CallsOK'
<1>1. V!Idle \in V!Calls /\ V!Idle.at = "idle" /\ V!Idle.average = {}
  BY DEF V!Idle, V!Calls, V!Steps
<1>2. RateOK(V!Idle)
  BY <1>1 DEF RateOK
<1>3. QED
  BY <1>1, <1>2, ReviewMoves DEF V!Done

\* Reviews that stay keep the reader and the average as they are.
LEMMA ReviewsStay ==
    ASSUME ReviewInv, UNCHANGED <<reviews, reader>>
    PROVE  Listed' /\ ReaderOK' /\ (UNCHANGED rated => RatedOK')
<1>1. Listed' /\ (UNCHANGED rated => RatedOK')
  BY DEF ReviewInv, Listed, RatedOK
<1>2. ReaderOK'
  BY DEF ReviewInv, ReaderOK, Behind
<1>3. QED
  BY <1>1, <1>2

LEMMA FindKeeps ==
    ASSUME ReviewInv, NEW r \in Requests, NEW b \in Bookings, V!ReviewFind(r, b)
    PROVE  ReviewInv'
<1> DEFINE new(q) ==
             IF q = r
             THEN [V!Idle EXCEPT !.at = "check", !.booking = b,
                                 !.alone = \A p \in Requests : V!At(p, "idle")]
             ELSE [reviewCall[q] EXCEPT !.alone = FALSE]
<1>1. /\ reviewCall' = [q \in Requests |-> new(q)]
      /\ UNCHANGED <<reviews, rated, reader>>
  BY DEF V!ReviewFind
<1>2. \A q \in Requests : new(q) \in V!Calls /\ RateOK(new(q))
  <2>1. ASSUME NEW q \in Requests, q = r PROVE new(q) \in V!Calls /\ RateOK(new(q))
    BY <2>1 DEF V!Idle, V!Calls, V!Steps, RateOK
  <2>2. ASSUME NEW q \in Requests, q # r PROVE new(q) \in V!Calls /\ RateOK(new(q))
    <3>1. reviewCall[q] \in V!Calls /\ RateOK(reviewCall[q])
      BY DEF ReviewInv, CallsOK
    <3>2. QED
      BY <2>2, <3>1 DEF V!Calls, RateOK
  <2>3. QED
    BY <2>1, <2>2
<1>3. \A q, p \in Requests :
        /\ reviewCall'[p].alone => p = r /\ \A t \in Requests : V!At(t, "idle")
        /\ q # r => reviewCall'[q].at = reviewCall[q].at
  <2>1. \A p \in Requests : reviewCall'[p] = new(p)
    BY <1>1
  <2>2. reviewCall'[r].alone => \A t \in Requests : V!At(t, "idle")
    BY <2>1 DEF V!Idle
  <2>3. \A p \in Requests :
          p # r => reviewCall'[p].alone = FALSE /\ reviewCall'[p].at = reviewCall[p].at
    BY <2>1 DEF ReviewInv, CallsOK, V!Calls
  <2>4. QED
    BY <2>2, <2>3
<1>4. CallsOK'
  <2>1. reviewCall' \in [Requests -> V!Calls]
    BY <1>1, <1>2
  <2>2. \A q \in Requests : RateOK(reviewCall[q])'
    <3> HIDE DEF new
    <3>1. \A q \in Requests : reviewCall'[q] = new(q)
      BY <1>1
    <3>2. QED
      BY <1>1, <1>2, <3>1 DEF RateOK
  <2>3. QED
    BY <1>3, <2>1, <2>2 DEF CallsOK, V!At
<1>5. QED
  BY <1>1, <1>4, ReviewsStay DEF ReviewInv

LEMMA InsertKeeps ==
    ASSUME ReviewInv, NEW r \in Requests, V!ReviewInsert(r)
    PROVE  ReviewInv'
<1> DEFINE b == reviewCall[r].booking
<1>1. CASE b \in V!ToSet(reviews)
  <2>1. V!Done(r) /\ UNCHANGED <<reviews, rated, reader>>
    BY <1>1 DEF V!ReviewInsert
  <2>2. QED
    BY <2>1, ReviewEnds, ReviewsStay DEF ReviewInv
<1>2. CASE b \notin V!ToSet(reviews)
  <2>1. /\ V!At(r, "insert") /\ reviews' = <<b>> \o reviews
        /\ reviewCall' = [reviewCall EXCEPT ![r].at = "average"]
        /\ UNCHANGED <<rated, reader>>
    BY <1>2 DEF V!ReviewInsert, V!Goto
  <2>2. b \in Bookings \ V!ToSet(reviews)
    BY <1>2, <2>1 DEF ReviewInv, CallsOK, RateOK, V!At
  <2>3. /\ Listed' /\ Len(reviews') = Len(reviews) + 1
        /\ \A i \in 1..Len(reviews) : reviews'[i + 1] = reviews[i]
        /\ V!ToSet(reviews) \subseteq V!ToSet(reviews')
    BY <2>1, <2>2, FrontFact DEF ReviewInv
  <2>4. RatedOK'
    BY <2>1, <2>3 DEF ReviewInv, RatedOK, V!ToSet
  <2>5. CallsOK'
    <3>1. reviewCall' \in [Requests -> V!Calls]
      BY <2>1 DEF ReviewInv, CallsOK, V!Calls, V!Steps
    <3>2. \A q \in Requests :
            /\ reviewCall'[q].at = IF q = r THEN "average" ELSE reviewCall[q].at
            /\ reviewCall'[q].booking = reviewCall[q].booking
            /\ reviewCall'[q].average = reviewCall[q].average
            /\ reviewCall'[q].alone = reviewCall[q].alone
      BY <2>1 DEF ReviewInv, CallsOK, V!Calls
    <3>3. ASSUME NEW q \in Requests PROVE RateOK(reviewCall[q])'
      <4>1. reviewCall'[q].at # "idle" => reviewCall'[q].booking \in Bookings
        BY <2>1, <3>2 DEF ReviewInv, CallsOK, RateOK, V!At
      <4>2. reviewCall'[q].average \subseteq V!ToSet(reviews')
        BY <2>3, <3>2 DEF ReviewInv, CallsOK, RateOK
      <4>3. ~(reviewCall'[q].alone /\ reviewCall'[q].at = "write")
        BY <2>1, <3>2 DEF ReviewInv, CallsOK, V!At
      <4>4. QED
        BY <4>1, <4>2, <4>3 DEF RateOK, V!ToSet
    <3>4. \A q \in Requests : V!At(q, "idle")' <=> V!At(q, "idle")
      BY <2>1, <3>2 DEF V!At
    <3>5. QED
      BY <3>1, <3>2, <3>3, <3>4 DEF ReviewInv, CallsOK
  <2>6. ReaderOK'
    <3>1. Len(reviews) \in Nat
      BY DEF ReviewInv, Listed
    <3>2. reader.page # 0 => V!Skip(reader.page) <= Len(reviews')
      <4>1. reader.page # 0 => V!Skip(reader.page) \in Nat
        BY NextSkip DEF ReviewInv, ReaderOK
      <4>2. QED
        BY <2>3, <3>1, <4>1 DEF ReviewInv, ReaderOK
    <3>3. ASSUME NEW e \in reader.owed \ reader.got
          PROVE  reader.page # 0 /\ Behind(e, V!Skip(reader.page))'
      <4>1. reader.page \in Nat /\ reader.page # 0 /\ Behind(e, V!Skip(reader.page))
        BY DEF ReviewInv, ReaderOK
      <4>2. PICK i \in 1..Len(reviews) : i > V!Skip(reader.page) /\ reviews[i] = e
        BY <4>1 DEF Behind
      <4>3. V!Skip(reader.page) \in Nat
        BY <4>1, NextSkip
      <4>4. i + 1 \in 1..Len(reviews') /\ i + 1 > V!Skip(reader.page) /\ reviews'[i + 1] = e
        BY <2>3, <3>1, <4>2, <4>3
      <4>5. QED
        BY <2>1, <4>1, <4>4 DEF Behind, V!Skip
    <3>4. QED
      BY <2>1, <3>2, <3>3 DEF ReviewInv, ReaderOK, V!Skip
  <2>7. QED
    BY <2>3, <2>4, <2>5, <2>6 DEF ReviewInv
<1>3. QED
  BY <1>1, <1>2

\* Reading an average, and writing it, keep it over reviews that exist.
LEMMA AverageKeeps ==
    ASSUME ReviewInv, NEW r \in Requests, V!RatingAverage(r)
    PROVE  ReviewInv'
<1>1. /\ V!At(r, "average") /\ UNCHANGED <<reviews, rated, reader>>
      /\ reviewCall' = [reviewCall EXCEPT ![r].at = "write", ![r].average = V!ToSet(reviews)]
  BY DEF V!RatingAverage
<1> DEFINE c == [reviewCall[r] EXCEPT !.at = "write", !.average = V!ToSet(reviews)]
<1>2. /\ c \in V!Calls /\ c.at = "write" /\ c.average = V!ToSet(reviews)
      /\ c.booking = reviewCall[r].booking /\ c.alone = reviewCall[r].alone
  <2>1. V!ToSet(reviews) \subseteq Bookings
    BY ListedCount DEF ReviewInv
  <2>2. QED
    BY <2>1 DEF ReviewInv, CallsOK, V!Calls, V!Steps
<1>3. RateOK(c)
  BY <1>1, <1>2 DEF ReviewInv, CallsOK, RateOK, V!At
<1>4. reviewCall' = [reviewCall EXCEPT ![r] = c]
  BY <1>1 DEF ReviewInv, CallsOK
<1>5. CallsOK'
  <2> HIDE DEF c
  <2>1. QED
    BY <1>1, <1>2, <1>3, <1>4, ReviewMoves DEF ReviewInv, V!At
<1>6. QED
  BY <1>1, <1>5, ReviewsStay DEF ReviewInv

LEMMA WriteKeeps ==
    ASSUME ReviewInv, NEW r \in Requests, V!RatingWrite(r)
    PROVE  ReviewInv' /\ (reviewCall[r].alone => rated' = V!ToSet(reviews))
<1>1. V!At(r, "write") /\ rated' = reviewCall[r].average /\ V!Done(r)
      /\ UNCHANGED <<reviews, reader>>
  BY DEF V!RatingWrite
<1>2. RateOK(reviewCall[r])
  BY DEF ReviewInv, CallsOK
<1>3. RatedOK' /\ (reviewCall[r].alone => rated' = V!ToSet(reviews))
  BY <1>1, <1>2 DEF RateOK, RatedOK, V!At, V!ToSet
<1>4. QED
  BY <1>1, <1>3, ReviewEnds, ReviewsStay DEF ReviewInv

LEMMA CheckKeeps ==
    ASSUME ReviewInv, NEW r \in Requests, V!ReviewCheck(r) \/ V!Stops(r)
    PROVE  ReviewInv'
<1>1. UNCHANGED <<reviews, rated, reader>>
  BY DEF V!ReviewCheck, V!Stops
<1>2. CASE V!Done(r)
  BY <1>1, <1>2, ReviewEnds, ReviewsStay DEF ReviewInv
<1>3. CASE V!At(r, "check") /\ V!Goto(r, "insert")
  <2> DEFINE c == [reviewCall[r] EXCEPT !.at = "insert"]
  <2>1. /\ c \in V!Calls /\ c.at = "insert" /\ c.average = reviewCall[r].average
        /\ c.booking = reviewCall[r].booking /\ c.alone = reviewCall[r].alone
    BY DEF ReviewInv, CallsOK, V!Calls, V!Steps
  <2>2. RateOK(c)
    BY <1>3, <2>1 DEF ReviewInv, CallsOK, RateOK, V!At
  <2>3. reviewCall' = [reviewCall EXCEPT ![r] = c]
    BY <1>3 DEF ReviewInv, CallsOK, V!Goto
  <2>4. CallsOK'
    <3> HIDE DEF c
    <3>1. QED
      BY <1>1, <1>3, <2>1, <2>2, <2>3, ReviewMoves DEF ReviewInv, V!At
  <2>5. QED
    BY <1>1, <2>4, ReviewsStay DEF ReviewInv
<1>4. QED
  BY <1>2, <1>3 DEF V!ReviewCheck, V!Stops

-----------------------------------------------------------------------------
(* The reader                                                              *)

LEMMA ReadKeeps ==
    ASSUME ReviewInv, V!ReadPage
    PROVE  ReviewInv'
<1> DEFINE begins == reader.page = 0
           p == IF begins THEN 1 ELSE reader.page
           had == IF begins THEN {} ELSE reader.got
           due == IF begins THEN V!ToSet(reviews) ELSE reader.owed
           short == Cardinality(V!Page(p)) < Limit
           s == V!Skip(p)
           n == Len(reviews)
<1>1. /\ reader' = [page |-> IF short THEN 0 ELSE p + 1, got |-> had \cup V!Page(p),
                    owed |-> due]
      /\ UNCHANGED <<reviews, rated, reviewCall>>
  BY ReviewCardinality DEF V!ReadPage
<1>2. p \in Nat \ {0} /\ had \in SUBSET Bookings /\ due \in SUBSET Bookings
  BY ListedCount DEF ReviewInv, ReaderOK
<1>3. /\ V!Page(p) = {reviews[i] : i \in (s + 1)..(s + Limit) \cap 1..n}
      /\ V!Page(p) \in SUBSET Bookings
      /\ short <=> n < s + Limit
  BY <1>2, PageShort DEF ReviewInv
<1>4. s \in Nat /\ V!Skip(p + 1) = s + Limit /\ n \in Nat /\ Limit \in Nat
  <2>1. s \in Nat /\ V!Skip(p + 1) = s + Limit
    BY <1>2, NextSkip
  <2>2. QED
    BY <2>1, ConstantsOK DEF ReviewInv, Listed
<1>5. ASSUME NEW b \in due \ had PROVE \E i \in 1..n : i > s /\ reviews[i] = b
  <2>1. CASE begins
    <3>1. s = 0
      BY <2>1, NextSkip
    <3>2. PICK i \in 1..n : reviews[i] = b
      BY <1>5, <2>1, ListedCount DEF ReviewInv
    <3>3. QED
      BY <3>1, <3>2
  <2>2. CASE ~begins
    BY <1>5, <2>2 DEF ReviewInv, ReaderOK, Behind
  <2>3. QED
    BY <2>1, <2>2
<1>6. ASSUME NEW b \in due \ (had \cup V!Page(p))
      PROVE  ~short /\ \E i \in 1..n : i > s + Limit /\ reviews[i] = b
  <2>1. PICK i \in 1..n : i > s /\ reviews[i] = b
    BY <1>5, <1>6
  <2>2. i \notin (s + 1)..(s + Limit)
    BY <1>3, <1>6, <2>1
  <2>3. i > s + Limit
    BY <1>4, <2>1, <2>2
  <2>4. QED
    BY <1>3, <1>4, <2>1, <2>3
<1>7. ReaderOK'
  <2>1. reader' \in [page : Nat, got : SUBSET Bookings, owed : SUBSET Bookings]
    BY <1>1, <1>2, <1>3
  <2>2. reader'.page # 0 => ~short /\ reader'.page = p + 1 /\ V!Skip(reader'.page) = s + Limit
    BY <1>1, <1>4
  <2>3. reader'.page # 0 => V!Skip(reader'.page) <= Len(reviews')
    BY <1>1, <1>3, <1>4, <2>2
  <2>4. ASSUME NEW b \in reader'.owed \ reader'.got
        PROVE  reader'.page # 0 /\ Behind(b, V!Skip(reader.page))'
    <3>1. ~short /\ \E i \in 1..n : i > s + Limit /\ reviews[i] = b
      BY <1>1, <1>6, <2>4
    <3>2. reader'.page # 0
      BY <1>1, <1>2, <3>1
    <3>3. QED
      BY <1>1, <2>2, <3>1, <3>2 DEF Behind, V!Skip
  <2>5. QED
    BY <2>1, <2>3, <2>4 DEF ReaderOK, V!Skip
<1>8. Listed' /\ RatedOK' /\ CallsOK'
  BY <1>1 DEF ReviewInv, Listed, RatedOK, CallsOK, RateOK, V!ToSet, V!At
<1>9. QED
  BY <1>7, <1>8 DEF ReviewInv

-----------------------------------------------------------------------------
LEMMA ReviewStep == ReviewInv /\ [V!Next]_reviewVars => ReviewInv'
<1> SUFFICES ASSUME ReviewInv, [V!Next]_reviewVars PROVE ReviewInv'
  OBVIOUS
<1>1. ASSUME NEW r \in Requests, NEW b \in Bookings, V!ReviewFind(r, b) PROVE ReviewInv'
  BY <1>1, FindKeeps
<1>2. ASSUME NEW r \in Requests,
             \/ V!ReviewCheck(r) \/ V!ReviewInsert(r) \/ V!RatingAverage(r)
             \/ V!RatingWrite(r) \/ V!Stops(r)
      PROVE  ReviewInv'
  BY <1>2, CheckKeeps, InsertKeeps, AverageKeeps, WriteKeeps
<1>3. CASE V!ReadPage
  BY <1>3, ReadKeeps
<1>4. CASE UNCHANGED reviewVars
  BY <1>4 DEF reviewVars, ReviewInv, Listed, RatedOK, CallsOK, RateOK, ReaderOK, Behind,
              V!ToSet, V!At, V!Skip
<1>5. QED
  BY <1>1, <1>2, <1>3, <1>4 DEF V!Next

\* What the run checks of the reviews follows from the invariant.
LEMMA ReviewTypes == ReviewInv => V!TypeOK /\ V!WalkComplete
<1> SUFFICES ASSUME ReviewInv PROVE V!TypeOK /\ V!WalkComplete
  OBVIOUS
<1>1. /\ V!ToSet(reviews) \subseteq Bookings
      /\ Len(reviews) = V!Cardinality(V!ToSet(reviews))
      /\ Len(reviews) <= V!Cardinality(Bookings)
  BY ListedCount, ReviewCardinality DEF ReviewInv
<1>2. rated \in SUBSET V!ToSet(reviews) /\ reviewCall \in [Requests -> V!Calls]
  BY DEF ReviewInv, RatedOK, CallsOK
<1>3. reader.page \in 0..(V!Cardinality(Bookings) + 1)
  <2>1. V!Cardinality(Bookings) \in Nat /\ Len(reviews) \in Nat
    BY ConstantsOK, FS_CardinalityType, ReviewCardinality DEF ReviewInv, Listed
  <2>2. reader.page \in Nat
    BY DEF ReviewInv, ReaderOK
  <2>3. CASE reader.page # 0
    <3>1. V!Skip(reader.page) \in Nat /\ reader.page - 1 <= V!Skip(reader.page)
      BY <2>2, <2>3, NextSkip
    <3>2. V!Skip(reader.page) <= Len(reviews)
      BY <2>3 DEF ReviewInv, ReaderOK
    <3>3. QED
      BY <1>1, <2>1, <2>2, <3>1, <3>2
  <2>4. QED
    BY <2>1, <2>2, <2>3
<1>4. V!TypeOK
  BY <1>1, <1>2, <1>3 DEF ReviewInv, ReaderOK, V!TypeOK
<1>5. V!WalkComplete
  BY DEF ReviewInv, ReaderOK, V!WalkComplete
<1>6. QED
  BY <1>4, <1>5
=============================================================================
