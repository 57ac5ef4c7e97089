------------------------------- MODULE Discounts -------------------------------
(***************************************************************************)
(* What a booking with a coupon costs: the arithmetic of                   *)
(* CouponService.validateAndCalculate, what the columns make of it, and    *)
(* what Stripe is asked for.  Coupon has the limits and the counting.      *)
(*                                                                         *)
(* Money is counted in parts of a cent, PartsPerCent to one; percentages   *)
(* have two decimals, so that all results are whole numbers of parts.  The *)
(* code calculates in binary fractions: half a cent may be rounded either  *)
(* way.                                                                    *)
(***************************************************************************)
EXTENDS Integers

CONSTANTS
    Prices,       \* turfs.pricePerHour, in cents
    Percentages,  \* discountValue of a percentage coupon, in hundredths of one
    Fixed,        \* discountValue of a fixed coupon, in cents
    Caps          \* maxDiscountAmount, in cents (0: none)

PartsPerCent == 10000

VARIABLES
    order, \* the price and the coupon
    quote, \* what validateAndCalculate returns, in parts
    booked \* bookings.totalAmount, coupon_usages.discount and the amount of the
           \* intent, in cents; -1 while there is none

vars == <<order, quote, booked>>

Orders ==
    [price : Prices, type : {"PERCENTAGE"}, value : Percentages, cap : Caps]
      \cup [price : Prices, type : {"FIXED"}, value : Fixed, cap : Caps]
Unquoted == [discount |-> -1, final |-> -1]
Unbooked == [total |-> -1, discount |-> -1, charged |-> -1]

TypeOK ==
    /\ order \in Orders
    /\ quote.discount \in Int /\ quote.final \in Int
    /\ booked.total \in Int /\ booked.discount \in Int /\ booked.charged \in Int

Init == order \in Orders /\ quote = Unquoted /\ booked = Unbooked

-----------------------------------------------------------------------------
Smaller(a, b) == IF a < b THEN a ELSE b

Percentage(o) ==
    LET share == o.price * o.value
    IN IF o.cap > 0 THEN Smaller(share, o.cap * PartsPerCent) ELSE share

\* Mutant: a fixed discount may exceed the price.
FixedWhole(o) == o.value * PartsPerCent

FixedAmount(o) == Smaller(o.value, o.price) * PartsPerCent

\* The cents that a number of parts may become.
Rounded(parts) ==
    LET cents == parts \div PartsPerCent
        rest == parts % PartsPerCent
    IN (IF 2 * rest <= PartsPerCent THEN {cents} ELSE {})
         \cup (IF 2 * rest >= PartsPerCent THEN {cents + 1} ELSE {})

\* The discount is rounded, the amount to pay is not.
Quote ==
    /\ quote = Unquoted
    /\ LET discount == IF order.type = "PERCENTAGE" THEN Percentage(order) ELSE FixedAmount(order)
           final == order.price * PartsPerCent - discount
       IN \E cents \in Rounded(discount) :
            quote' = [discount |-> cents * PartsPerCent, final |-> IF final < 0 THEN 0 ELSE final]
    /\ UNCHANGED <<order, booked>>

\* The column has two decimals.
InsertBooking ==
    /\ quote # Unquoted /\ booked.total = -1
    /\ \E cents \in Rounded(quote.final) : booked' = [booked EXCEPT !.total = cents]
    /\ UNCHANGED <<order, quote>>

ApplyCoupon ==
    /\ booked.total # -1 /\ booked.discount = -1
    /\ \E cents \in Rounded(quote.discount) : booked' = [booked EXCEPT !.discount = cents]
    /\ UNCHANGED <<order, quote>>

\* createPaymentIntent: the column, in cents.
CreateIntent ==
    /\ booked.total # -1 /\ booked.charged = -1
    /\ booked' = [booked EXCEPT !.charged = booked.total]
    /\ UNCHANGED <<order, quote>>

Next == Quote \/ InsertBooking \/ ApplyCoupon \/ CreateIntent

Spec == Init /\ [][Next]_vars

-----------------------------------------------------------------------------
(* Properties                                                              *)

\* What the customer is charged and the discount that is recorded make up the
\* price, to a cent (the two are rounded apart, coupon.service.ts:75-84), and
\* the discount exceeds no cap.  Only a coupon of more than a hundred percent,
\* which create-coupon.dto.ts:43-45 admits, has a discount on record that exceeds
\* the price; nothing is charged then.
ChargeAndDiscountAddUp ==
    LET o == order
        percentage == o.type = "PERCENTAGE"
    IN booked.charged # -1 /\ booked.discount # -1 =>
         /\ 0 <= booked.charged /\ 0 <= booked.discount
         /\ booked.discount <= o.price =>
              booked.charged + booked.discount - o.price \in {-1, 0, 1}
         /\ booked.discount > o.price =>
              booked.charged = 0 /\ percentage /\ o.value > 100 * 100
         /\ percentage /\ o.cap > 0 => booked.discount <= o.cap
=============================================================================
