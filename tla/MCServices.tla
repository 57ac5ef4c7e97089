------------------------------ MODULE MCServices ------------------------------
(***************************************************************************)
(* Small instances of the services that keep to rows of their own:         *)
(* Accounts, Sessions, Admin, Reviews, Coupon, Reports and Discounts.  No  *)
(* two of them write the same column, so a behaviour exercises one, chosen *)
(* in Init: the states add up instead of multiplying.                      *)
(***************************************************************************)
EXTENDS Sessions

CONSTANTS
    Threshold, MaxFailed, Users, Bookings, NoBooking, Limit,
    UsageLimits, UserLimits, CouponEvents, Nobody,
    TicksPerDay, From, To, Prices, Percentages, Fixed, Caps

\* An account takes a failure before it is locked and the counts reach the
\* threshold, a page has an entry, no price or coupon is negative, a user may use a
\* coupon at least once (its total limit of 0 stands for none), and the clock runs
\* after the first year of the calendar, to which the reports look back.
ASSUME ConstantsOK ==
    /\ Threshold \in Nat \ {0} /\ MaxFailed \in Nat /\ Threshold <= MaxFailed
    /\ IsFiniteSet(Bookings) /\ NoBooking \notin Bookings /\ Limit \in Nat \ {0}
    /\ UsageLimits \subseteq Nat /\ UserLimits \subseteq Nat \ {0} /\ Nobody \notin Users
    /\ TicksPerDay \in Nat \ {0}
    /\ From \in Nat /\ To \in Nat /\ 365 <= From /\ From <= To
    /\ Prices \subseteq Nat /\ Percentages \subseteq Nat
    /\ Fixed \subseteq Nat /\ Caps \subseteq Nat

VARIABLES
    service, \* the service that this behaviour exercises
    row, accountCall, guesses,
    role, verified, logged, adminCall, alone,
    reviews, rated, reviewCall, reader,
    coupon, discounted, usage, couponCall,
    now,
    order, quote, booked

accountVars == <<row, accountCall, guesses>>
adminVars == <<role, verified, logged, adminCall, alone>>
reviewVars == <<reviews, rated, reviewCall, reader>>
couponVars == <<coupon, discounted, usage, couponCall>>
discountVars == <<order, quote, booked>>

A == INSTANCE Accounts WITH call <- accountCall
D == INSTANCE Admin WITH call <- adminCall
V == INSTANCE Reviews WITH call <- reviewCall
U == INSTANCE Coupon WITH call <- couponCall, Limits <- UsageLimits, Events <- CouponEvents
P == INSTANCE Reports
C == INSTANCE Discounts

\* The services that are left alone have one initial state.
ServicesInit ==
    /\ service \in {"accounts", "sessions", "admin", "reviews", "coupons", "reports",
                   "discounts"}
    /\ A!Init /\ Init /\ D!Init /\ V!Init /\ U!Init /\ P!Init /\ C!Init
    /\ service # "admin" => \A u \in Users : role[u] = "ADMIN"
    /\ service # "coupons" => coupon = CHOOSE c \in U!New : TRUE
    /\ service # "discounts" => order = CHOOSE o \in C!Orders : TRUE

rowVars == <<accountVars, vars, adminVars, reviewVars>>
otherVars == <<couponVars, now, discountVars>>

ServicesNext ==
    /\ UNCHANGED service
    /\ \/ /\ service = "accounts" /\ A!Next
          /\ UNCHANGED <<vars, adminVars, reviewVars, otherVars>>
       \/ /\ service = "sessions" /\ Next
          /\ UNCHANGED <<accountVars, adminVars, reviewVars, otherVars>>
       \/ /\ service = "admin" /\ D!Next
          /\ UNCHANGED <<accountVars, vars, reviewVars, otherVars>>
       \/ /\ service = "reviews" /\ V!Next
          /\ UNCHANGED <<accountVars, vars, adminVars, otherVars>>
       \/ service = "coupons" /\ U!Next /\ UNCHANGED <<rowVars, now, discountVars>>
       \/ service = "reports" /\ P!Tick /\ UNCHANGED <<rowVars, couponVars, discountVars>>
       \/ service = "discounts" /\ C!Next /\ UNCHANGED <<rowVars, couponVars, now>>

ServicesSpec == ServicesInit /\ [][ServicesNext]_<<service, rowVars, otherVars>>

-----------------------------------------------------------------------------
(* The properties of the services, under the names they have there.        *)
(* NoFork and EndedStaysEnded come with Sessions.                          *)

TypesOK ==
    A!TypeOK /\ TypeOK /\ D!TypeOK /\ V!TypeOK /\ U!TypeOK /\ P!TypeOK /\ C!TypeOK
GuessingLocks == A!GuessingLocks
LastAdminGoesInARace == D!LastAdminGoesInARace
AuditTells == D!AuditTells
NextReviewRepairs == V!NextReviewRepairs
WalkComplete == V!WalkComplete
CountMatches == U!CountMatches
UsedCouponStays == U!UsedCouponStays
WithinLimits == U!WithinLimits
EveryRowInOneBucket == service = "reports" => P!EveryRowInOneBucket
DashboardAgrees == service = "reports" => P!DashboardAgrees
ChargeAndDiscountAddUp == C!ChargeAndDiscountAddUp
=============================================================================
