----------------------------- MODULE CouponProofs -----------------------------
(***************************************************************************)
(* Coupon, as MCServices runs it: its inductive invariant, and what counts *)
(* a use, for any users, bookings, calls and limits.                       *)
(***************************************************************************)
EXTENDS MCServices, FiniteSetTheorems, TLAPS

\* A create about to count its use has a discounted booking of its own that is
\* not counted yet.
ApplyFresh ==
    \A r \in Requests : U!At(r, "apply") =>
        /\ couponCall[r].booking \in Bookings
        /\ couponCall[r].user \in Users
        /\ usage[couponCall[r].booking] = Nobody
        /\ discounted[couponCall[r].booking] # Nobody
        /\ \A q \in Requests :
             U!At(q, "apply") /\ couponCall[q].booking = couponCall[r].booking => q = r

\* Calls other than the administrator's work for a user.
InsertUser == \A r \in Requests : U!At(r, "insert") => couponCall[r].user \in Users

\* Only a booking made with the coupon uses it.
UsageBooked == \A b \in Bookings : usage[b] # Nobody => discounted[b] # Nobody

\* TypeOK without the bound of the counter, which follows from CountMatches.
CouponRows == [exists : BOOLEAN, active : BOOLEAN, inTime : BOOLEAN,
               limit : UsageLimits, userLimit : UserLimits, used : Nat]
CouponTyped ==
    /\ coupon \in CouponRows
    /\ discounted \in [Bookings -> Users \cup {Nobody}]
    /\ usage \in [Bookings -> Users \cup {Nobody}]
    /\ couponCall \in [Requests -> U!Calls]

CouponInv ==
    /\ CouponTyped /\ ApplyFresh /\ InsertUser /\ UsageBooked
    /\ U!CountMatches /\ U!UsedCouponStays

-----------------------------------------------------------------------------
LEMMA SameCount == \A S : U!Cardinality(S) = Cardinality(S)
BY DEF U!Cardinality, Cardinality

\* The counter of a coupon fits the bookings there are.
LEMMA CounterFits ==
    ASSUME CouponTyped, U!CountMatches
    PROVE  coupon.used \in 0..Cardinality(Bookings)
<1>1. IsFiniteSet(Bookings) /\ U!Used \in SUBSET Bookings
  BY ConstantsOK DEF U!Used
<1>2. Cardinality(U!Used) <= Cardinality(Bookings)
  BY <1>1, FS_Subset
<1>3. Cardinality(Bookings) \in Nat
  BY <1>1, FS_CardinalityType
<1>4. QED
  BY <1>2, <1>3, SameCount DEF CouponTyped, CouponRows, U!CountMatches

LEMMA CouponTypes == CouponTyped /\ U!CountMatches => U!TypeOK
<1> SUFFICES ASSUME CouponTyped, U!CountMatches PROVE U!TypeOK
  OBVIOUS
<1>1. coupon.used \in 0..Cardinality(Bookings)
  BY CounterFits
<1>2. QED
  BY <1>1, SameCount DEF CouponTyped, CouponRows, U!TypeOK

\* Counting one more use: the set of used bookings and those of its user grow
\* by the booking of the call.
LEMMA ApplyCounts ==
    ASSUME CouponInv, NEW r \in Requests, U!Apply(r)
    PROVE  /\ usage' = [usage EXCEPT ![couponCall[r].booking] = couponCall[r].user]
           /\ couponCall[r].booking \in Bookings /\ couponCall[r].user \in Users
           /\ usage[couponCall[r].booking] = Nobody
           /\ Cardinality(U!Used') = Cardinality(U!Used) + 1
           /\ Cardinality({c \in Bookings : usage'[c] = couponCall[r].user})
                = U!UsesOf(couponCall[r].user) + 1
<1> DEFINE b == couponCall[r].booking
           u == couponCall[r].user
           Mine == {c \in Bookings : usage[c] = u}
<1>1. b \in Bookings /\ u \in Users /\ usage[b] = Nobody /\ u # Nobody
  BY ConstantsOK DEF CouponInv, ApplyFresh, U!Apply
<1>2. usage' = [usage EXCEPT ![b] = u]
  BY DEF U!Apply
<1>3. \A c \in Bookings : usage'[c] = IF c = b THEN u ELSE usage[c]
  BY <1>1, <1>2 DEF CouponInv, CouponTyped
<1>4. U!Used' = U!Used \cup {b} /\ b \notin U!Used
  BY <1>1, <1>3 DEF U!Used
<1>5. {c \in Bookings : usage'[c] = u} = Mine \cup {b} /\ b \notin Mine
  BY <1>1, <1>3
<1>6. IsFiniteSet(U!Used) /\ IsFiniteSet(Mine)
  <2>1. U!Used \in SUBSET Bookings /\ Mine \in SUBSET Bookings
    BY DEF U!Used
  <2>2. QED
    BY <2>1, FS_Subset, ConstantsOK
<1>7. Cardinality(U!Used') = Cardinality(U!Used) + 1
  BY <1>4, <1>6, FS_AddElement
<1>8. Cardinality(Mine \cup {b}) = Cardinality(Mine) + 1
  BY <1>5, <1>6, FS_AddElement
<1>9. QED
  BY <1>1, <1>2, <1>5, <1>7, <1>8, SameCount DEF U!UsesOf

-----------------------------------------------------------------------------
LEMMA CouponInit == U!Init => CouponInv
<1> SUFFICES ASSUME U!Init PROVE CouponInv
  OBVIOUS
<1>1. CouponTyped
  <2>1. coupon \in CouponRows
    <3>1. PICK l \in UsageLimits, ul \in UserLimits :
            coupon = [exists |-> TRUE, active |-> TRUE, inTime |-> TRUE,
                      limit |-> l, userLimit |-> ul, used |-> 0]
      <4>1. coupon.limit \in UsageLimits /\ coupon.userLimit \in UserLimits
        BY DEF U!Init, U!New
      <4>2. QED
        BY <4>1 DEF U!Init, U!New
    <3>2. QED
      BY <3>1 DEF CouponRows
  <2>2. U!Idle \in U!Calls
    BY DEF U!Idle, U!Calls, U!Steps
  <2>3. QED
    BY <2>1, <2>2 DEF U!Init, CouponTyped
<1>2. \A r \in Requests : couponCall[r].at = "idle"
  BY DEF U!Init, U!Idle
<1>3. ApplyFresh /\ InsertUser
  BY <1>2 DEF ApplyFresh, InsertUser, U!At
<1>4. U!Used = {} /\ coupon.used = 0
  BY DEF U!Init, U!New, U!Used
<1>5. U!CountMatches
  BY <1>4, FS_EmptySet, SameCount DEF U!CountMatches
<1>6. QED
  BY <1>1, <1>3, <1>4, <1>5 DEF CouponInv, UsageBooked, U!UsedCouponStays, U!Init

\* A call that ends disturbs nothing of the others.
LEMMA CallEnds ==
    ASSUME CouponInv, NEW r \in Requests, U!Done(r), discounted' = discounted,
           \A q \in Requests \ {r} :
             U!At(q, "apply") => usage'[couponCall[q].booking] = Nobody
    PROVE  couponCall' \in [Requests -> U!Calls] /\ ApplyFresh' /\ InsertUser'
<1>1. U!Idle \in U!Calls /\ U!Idle.at = "idle"
  BY DEF U!Idle, U!Calls, U!Steps
<1>2. /\ couponCall' \in [Requests -> U!Calls]
      /\ couponCall'[r].at = "idle"
      /\ \A q \in Requests \ {r} : couponCall'[q] = couponCall[q]
  BY <1>1 DEF U!Done, CouponInv, CouponTyped
<1>3. ApplyFresh'
  BY <1>2 DEF CouponInv, ApplyFresh, U!At
<1>4. InsertUser'
  BY <1>2 DEF CouponInv, InsertUser, U!At
<1>5. QED
  BY <1>2, <1>3, <1>4

\* What the rest of the invariant says when no booking and no usage changes.
LEMMA RowsStay ==
    ASSUME CouponInv, discounted' = discounted, usage' = usage, coupon'.used = coupon.used,
           coupon' \in CouponRows, coupon.exists => coupon'.exists \/ U!Used = {}
    PROVE  UsageBooked' /\ U!CountMatches' /\ U!UsedCouponStays'
<1>1. U!Used' = U!Used
  BY DEF U!Used
<1>2. QED
  BY <1>1 DEF CouponInv, UsageBooked, U!CountMatches, U!UsedCouponStays

LEMMA CouponStep == CouponInv /\ [U!Next]_couponVars => CouponInv'
<1> SUFFICES ASSUME CouponInv, [U!Next]_couponVars PROVE CouponInv'
  OBVIOUS
<1> USE DEF U!tables
<1>0. coupon \in CouponRows
  BY DEF CouponInv, CouponTyped
<1>1. ASSUME NEW r \in Requests, NEW u \in Users, U!Validate(r, u) PROVE CouponInv'
  <2> DEFINE c == [U!Idle EXCEPT !.at = "insert", !.user = u]
  <2>1. c \in U!Calls /\ c.at = "insert" /\ c.user = u
    BY DEF U!Idle, U!Calls, U!Steps
  <2>2. /\ couponCall' \in [Requests -> U!Calls]
        /\ couponCall'[r].at = "insert" /\ couponCall'[r].user = u
        /\ \A q \in Requests \ {r} : couponCall'[q] = couponCall[q]
    BY <1>1, <2>1 DEF U!Validate, CouponInv, CouponTyped, U!Calls, U!Steps
  <2>3. UNCHANGED <<coupon, discounted, usage>>
    BY <1>1 DEF U!Validate
  <2>4. ApplyFresh' /\ InsertUser'
    BY <2>2, <2>3 DEF CouponInv, ApplyFresh, InsertUser, U!At
  <2>5. UsageBooked' /\ U!CountMatches' /\ U!UsedCouponStays'
    BY <2>3, <1>0, RowsStay
  <2>6. QED
    BY <2>2, <2>3, <2>4, <2>5 DEF CouponInv, CouponTyped
<1>2. ASSUME NEW r \in Requests, U!InsertBooking(r) PROVE CouponInv'
  <2>1. couponCall[r].user \in Users /\ U!At(r, "insert") /\ couponCall[r] \in U!Calls
    BY <1>2 DEF U!InsertBooking, CouponInv, InsertUser, CouponTyped
  <2>2. PICK b \in Bookings :
          /\ discounted[b] = Nobody
          /\ discounted' = [discounted EXCEPT ![b] = couponCall[r].user]
          /\ couponCall' = [couponCall EXCEPT ![r].at = "apply", ![r].booking = b]
    BY <1>2 DEF U!InsertBooking
  <2>3. couponCall' =
          [couponCall EXCEPT ![r] = [couponCall[r] EXCEPT !.at = "apply", !.booking = b]]
    BY <2>2
  <2>4. /\ [couponCall[r] EXCEPT !.at = "apply", !.booking = b] \in U!Calls
        /\ [couponCall[r] EXCEPT !.at = "apply", !.booking = b].at = "apply"
        /\ [couponCall[r] EXCEPT !.at = "apply", !.booking = b].booking = b
        /\ [couponCall[r] EXCEPT !.at = "apply", !.booking = b].user = couponCall[r].user
    BY <2>1 DEF U!Calls, U!Steps
  <2>5. /\ couponCall' \in [Requests -> U!Calls]
        /\ couponCall'[r].at = "apply" /\ couponCall'[r].booking = b
        /\ couponCall'[r].user = couponCall[r].user
        /\ \A q \in Requests \ {r} : couponCall'[q] = couponCall[q]
    BY <2>3, <2>4 DEF CouponInv, CouponTyped
  <2>6. /\ discounted' \in [Bookings -> Users \cup {Nobody}]
        /\ discounted'[b] # Nobody
        /\ \A c \in Bookings \ {b} : discounted'[c] = discounted[c]
    BY <2>1, <2>2, ConstantsOK DEF CouponInv, CouponTyped
  <2>7. UNCHANGED <<coupon, usage>>
    BY <1>2 DEF U!InsertBooking
  <2>8. /\ usage[b] = Nobody
        /\ \A q \in Requests : U!At(q, "apply") => couponCall[q].booking # b
    BY <2>2 DEF CouponInv, UsageBooked, ApplyFresh
  <2>9. ApplyFresh'
    <3> SUFFICES ASSUME NEW p \in Requests, U!At(p, "apply")'
                 PROVE  /\ couponCall'[p].booking \in Bookings
                        /\ couponCall'[p].user \in Users
                        /\ usage'[couponCall'[p].booking] = Nobody
                        /\ discounted'[couponCall'[p].booking] # Nobody
                        /\ \A q \in Requests :
                             U!At(q, "apply")' /\ couponCall'[q].booking = couponCall'[p].booking
                               => q = p
      BY DEF ApplyFresh
    <3>1. CASE p = r
      BY <3>1, <2>1, <2>5, <2>6, <2>7, <2>8 DEF U!At
    <3>2. CASE p # r
      <4>1. U!At(p, "apply") /\ couponCall'[p] = couponCall[p]
        BY <3>2, <2>5 DEF U!At
      <4>2. couponCall[p].booking # b
        BY <4>1, <2>8
      <4>3. QED
        BY <3>2, <4>1, <4>2, <2>5, <2>6, <2>7, <2>8 DEF U!At, CouponInv, ApplyFresh
    <3>3. QED
      BY <3>1, <3>2
  <2>10. InsertUser'
    BY <2>5 DEF U!At, CouponInv, InsertUser
  <2>11. UsageBooked'
    BY <2>6, <2>7 DEF CouponInv, UsageBooked
  <2>12. U!CountMatches' /\ U!UsedCouponStays'
    BY <2>7 DEF CouponInv, U!CountMatches, U!UsedCouponStays, U!Used
  <2>13. QED
    BY <2>5, <2>6, <2>7, <2>9, <2>10, <2>11, <2>12 DEF CouponInv, CouponTyped
<1>3. ASSUME NEW r \in Requests, U!Apply(r) PROVE CouponInv'
  <2> DEFINE b == couponCall[r].booking
             u == couponCall[r].user
  <2>1. /\ usage' = [usage EXCEPT ![b] = u]
        /\ b \in Bookings /\ u \in Users /\ usage[b] = Nobody
        /\ Cardinality(U!Used') = Cardinality(U!Used) + 1
    BY <1>3, ApplyCounts
  <2>2. /\ coupon' = [coupon EXCEPT !.used = coupon.used + 1]
        /\ coupon.exists /\ discounted' = discounted /\ U!Done(r) /\ U!At(r, "apply")
    BY <1>3 DEF U!Apply, U!CountedUp
  <2>3. /\ coupon' \in CouponRows /\ coupon'.used = coupon.used + 1
        /\ coupon'.exists = coupon.exists
    <3>1. coupon.used + 1 \in Nat
      BY <1>0 DEF CouponRows
    <3>2. ASSUME NEW n \in Nat, coupon' = [coupon EXCEPT !.used = n]
          PROVE  coupon' \in CouponRows /\ coupon'.used = n /\ coupon'.exists = coupon.exists
      BY <3>2, <1>0 DEF CouponRows
    <3>3. QED
      BY <2>2, <3>1, <3>2
  <2>4. \A q \in Requests \ {r} : U!At(q, "apply") => usage'[couponCall[q].booking] = Nobody
    BY <2>1, <2>2 DEF CouponInv, ApplyFresh, CouponTyped
  <2>5. couponCall' \in [Requests -> U!Calls] /\ ApplyFresh' /\ InsertUser'
    BY <2>2, <2>4, CallEnds
  <2>6. UsageBooked'
    BY <2>1, <2>2 DEF CouponInv, UsageBooked, ApplyFresh, CouponTyped
  <2>7. U!CountMatches' /\ U!UsedCouponStays'
    BY <2>1, <2>2, <2>3, SameCount DEF CouponInv, U!CountMatches, U!UsedCouponStays
  <2>8. usage' \in [Bookings -> Users \cup {Nobody}]
    BY <2>1 DEF CouponInv, CouponTyped
  <2>9. QED
    BY <2>2, <2>3, <2>5, <2>6, <2>7, <2>8 DEF CouponInv, CouponTyped
<1>4. ASSUME NEW r \in Requests, U!Done(r), UNCHANGED <<discounted, usage>>,
             coupon' \in CouponRows, coupon'.used = coupon.used,
             coupon.exists => coupon'.exists \/ U!Used = {}
      PROVE CouponInv'
  <2>1. \A q \in Requests \ {r} : U!At(q, "apply") => usage'[couponCall[q].booking] = Nobody
    BY <1>4 DEF CouponInv, ApplyFresh
  <2>2. couponCall' \in [Requests -> U!Calls] /\ ApplyFresh' /\ InsertUser'
    BY <1>4, <2>1, CallEnds
  <2>3. UsageBooked' /\ U!CountMatches' /\ U!UsedCouponStays'
    BY <1>4, RowsStay
  <2>4. QED
    BY <1>4, <2>2, <2>3 DEF CouponInv, CouponTyped
<1>5. ASSUME NEW r \in Requests, U!InsertFails(r) \/ U!ApplyRefused(r) \/ U!Stops(r)
      PROVE CouponInv'
  BY <1>5, <1>4, <1>0 DEF U!InsertFails, U!ApplyRefused, U!Stops
<1>6. ASSUME NEW r \in Requests, U!ToggleWrite(r) PROVE CouponInv'
  <2>1. /\ coupon' \in CouponRows /\ coupon'.used = coupon.used
        /\ coupon'.exists = coupon.exists
    <3>1. couponCall[r].sawActive \in BOOLEAN
      BY DEF CouponInv, CouponTyped, U!Calls
    <3>2. QED
      BY <1>6, <3>1, <1>0 DEF U!ToggleWrite, CouponRows
  <2>2. U!Done(r) /\ UNCHANGED <<discounted, usage>>
    BY <1>6 DEF U!ToggleWrite
  <2>3. QED
    BY <2>1, <2>2, <1>4
<1>7. ASSUME NEW r \in Requests, U!DeleteWrite(r) PROVE CouponInv'
  <2>1. /\ coupon' \in CouponRows /\ coupon'.used = coupon.used
        /\ coupon.exists => coupon'.exists \/ U!Used = {}
    BY <1>7, <1>0 DEF U!DeleteWrite, U!Deletable, CouponRows
  <2>2. U!Done(r) /\ UNCHANGED <<discounted, usage>>
    BY <1>7 DEF U!DeleteWrite
  <2>3. QED
    BY <2>1, <2>2, <1>4
<1>8. ASSUME NEW r \in Requests, NEW c \in U!Calls, c.at \in {"toggle", "delete"},
             couponCall' = [couponCall EXCEPT ![r] = c], UNCHANGED <<coupon, discounted, usage>>
      PROVE CouponInv'
  <2>1. /\ couponCall' \in [Requests -> U!Calls]
        /\ couponCall'[r].at \notin {"insert", "apply"}
        /\ \A q \in Requests \ {r} : couponCall'[q] = couponCall[q]
    BY <1>8 DEF CouponInv, CouponTyped
  <2>2. ApplyFresh' /\ InsertUser'
    BY <2>1, <1>8 DEF CouponInv, ApplyFresh, InsertUser, U!At
  <2>3. UsageBooked' /\ U!CountMatches' /\ U!UsedCouponStays'
    BY <1>8, <1>0, RowsStay
  <2>4. QED
    BY <1>8, <2>1, <2>2, <2>3 DEF CouponInv, CouponTyped
<1>9. ASSUME NEW r \in Requests, U!ToggleRead(r) PROVE CouponInv'
  <2> DEFINE c == [U!Idle EXCEPT !.at = "toggle", !.sawActive = coupon.active]
  <2>1. c \in U!Calls /\ c.at = "toggle"
    BY <1>0 DEF U!Idle, U!Calls, U!Steps, CouponRows
  <2>2. couponCall' = [couponCall EXCEPT ![r] = c] /\ UNCHANGED <<coupon, discounted, usage>>
    BY <1>9 DEF U!ToggleRead
  <2>3. QED
    BY <2>1, <2>2, <1>8
<1>10. ASSUME NEW r \in Requests, U!DeleteRead(r) PROVE CouponInv'
  <2> DEFINE c == [U!Idle EXCEPT !.at = "delete"]
  <2>1. c \in U!Calls /\ c.at = "delete"
    BY DEF U!Idle, U!Calls, U!Steps
  <2>2. couponCall' = [couponCall EXCEPT ![r] = c] /\ UNCHANGED <<coupon, discounted, usage>>
    BY <1>10 DEF U!DeleteRead
  <2>3. QED
    BY <2>1, <2>2, <1>8
<1>11. ASSUME UNCHANGED <<discounted, usage, couponCall>>, coupon' \in CouponRows,
              coupon'.used = coupon.used, coupon'.exists = coupon.exists
       PROVE CouponInv'
  <2>1. UsageBooked' /\ U!CountMatches' /\ U!UsedCouponStays'
    BY <1>11, RowsStay
  <2>2. ApplyFresh' /\ InsertUser'
    BY <1>11 DEF CouponInv, ApplyFresh, InsertUser, U!At
  <2>3. QED
    BY <1>11, <2>1, <2>2 DEF CouponInv, CouponTyped
<1>12. CASE U!Update
  <2>1. PICK l \in UsageLimits, ul \in UserLimits, t, a \in BOOLEAN :
          coupon' = [coupon EXCEPT !.limit = l, !.userLimit = ul, !.inTime = t, !.active = a]
    BY <1>12 DEF U!Update
  <2>2. /\ coupon' \in CouponRows /\ coupon'.used = coupon.used
        /\ coupon'.exists = coupon.exists
    BY <2>1, <1>0 DEF CouponRows
  <2>3. QED
    BY <2>2, <1>11, <1>12 DEF U!Update
<1>13. CASE U!Expires
  <2>1. /\ coupon' \in CouponRows /\ coupon'.used = coupon.used
        /\ coupon'.exists = coupon.exists
    BY <1>13, <1>0 DEF U!Expires, CouponRows
  <2>2. QED
    BY <2>1, <1>11, <1>13 DEF U!Expires
<1>14. CASE UNCHANGED couponVars
  BY <1>14, <1>11, <1>0 DEF couponVars
<1>15. QED
  BY <1>1, <1>2, <1>3, <1>5, <1>6, <1>7, <1>9, <1>10, <1>12, <1>13, <1>14 DEF U!Next

-----------------------------------------------------------------------------
\* A use that is counted keeps within both limits.
Within ==
    \A b \in Bookings : usage[b] = Nobody /\ usage'[b] # Nobody =>
      /\ coupon.limit = 0 \/ U!Cardinality(U!Used') <= coupon.limit
      /\ U!Cardinality({c \in Bookings : usage'[c] = usage'[b]}) <= coupon.userLimit

LEMMA StepWithin == CouponInv /\ [U!Next]_couponVars => [Within]_couponVars
<1> SUFFICES ASSUME CouponInv, U!Next, NEW b \in Bookings,
                    usage[b] = Nobody, usage'[b] # Nobody
             PROVE  /\ coupon.limit = 0 \/ Cardinality(U!Used') <= coupon.limit
                    /\ Cardinality({c \in Bookings : usage'[c] = usage'[b]})
                         <= coupon.userLimit
  BY SameCount DEF Within
<1>1. PICK r \in Requests : U!Apply(r)
  BY DEF U!Next, U!Validate, U!InsertBooking, U!InsertFails, U!ApplyRefused, U!ToggleRead,
         U!ToggleWrite, U!DeleteRead, U!DeleteWrite, U!Stops, U!Update, U!Expires, U!tables
<1>2. /\ usage' = [usage EXCEPT ![couponCall[r].booking] = couponCall[r].user]
      /\ couponCall[r].booking \in Bookings
      /\ Cardinality(U!Used') = Cardinality(U!Used) + 1
      /\ Cardinality({c \in Bookings : usage'[c] = couponCall[r].user})
           = U!UsesOf(couponCall[r].user) + 1
  BY <1>1, ApplyCounts
<1>3. usage'[b] = couponCall[r].user
  BY <1>2 DEF CouponInv, CouponTyped
<1>4. U!LimitsLeft(couponCall[r].user)
  BY <1>1 DEF U!Apply
<1>5. coupon.limit \in Nat /\ coupon.userLimit \in Nat /\ coupon.used = Cardinality(U!Used)
  BY ConstantsOK, SameCount DEF CouponInv, CouponTyped, CouponRows, U!CountMatches
<1>6. Cardinality(U!Used) \in Nat /\ U!UsesOf(couponCall[r].user) \in Nat
  <2>1. /\ U!Used \in SUBSET Bookings
        /\ {c \in Bookings : usage[c] = couponCall[r].user} \in SUBSET Bookings
    BY DEF U!Used
  <2>2. IsFiniteSet(U!Used) /\ IsFiniteSet({c \in Bookings : usage[c] = couponCall[r].user})
    BY <2>1, FS_Subset, ConstantsOK
  <2>3. QED
    BY <2>2, FS_CardinalityType, SameCount DEF U!UsesOf
<1>7. coupon.limit = 0 \/ Cardinality(U!Used') <= coupon.limit
  BY <1>2, <1>4, <1>5, <1>6 DEF U!LimitsLeft
<1>8. U!UsesOf(couponCall[r].user) + 1 <= coupon.userLimit
  BY <1>4, <1>5, <1>6 DEF U!LimitsLeft
<1>9. QED
  BY <1>2, <1>3, <1>7, <1>8
=============================================================================
