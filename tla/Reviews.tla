------------------------------- MODULE Reviews -------------------------------
(***************************************************************************)
(* Reviews of one turf as review.service.ts keeps them: a review per       *)
(* completed booking, the average that is written to the turf after each,  *)
(* and a client that reads the reviews page by page while others write.    *)
(* The average is abstracted to the set of reviews it is taken over.       *)
(***************************************************************************)
EXTENDS Naturals, FiniteSets, SequencesExt

CONSTANTS
    Bookings,  \* the completed bookings of the turf
    Requests,
    Limit,     \* the page size the reader asks for
    NoBooking

VARIABLES
    reviews, \* the reviews, by booking, newest first (ORDER BY "createdAt" DESC)
    rated,   \* the reviews that turfs.rating is the average of
    call,    \* the calls of createReview in progress
    reader   \* the page the reader asks for next (0: it is not reading), the
             \* reviews it has got, and those it should have got (history)

vars == <<reviews, rated, call, reader>>

Steps == {"idle", "check", "insert", "average", "write"}
\* alone: no other call was in progress at any time (history)
Calls == [at : Steps, booking : Bookings \cup {NoBooking}, average : SUBSET Bookings,
          alone : BOOLEAN]
Idle == [at |-> "idle", booking |-> NoBooking, average |-> {}, alone |-> FALSE]
Resting == [page |-> 0, got |-> {}, owed |-> {}]

TypeOK ==
    /\ ToSet(reviews) \subseteq Bookings /\ Len(reviews) = Cardinality(ToSet(reviews))
    /\ rated \in SUBSET ToSet(reviews)
    /\ call \in [Requests -> Calls]
    /\ reader \in [page : 0..(Cardinality(Bookings) + 1), got : SUBSET Bookings,
                   owed : SUBSET Bookings]

Init ==
    /\ reviews = <<>> /\ rated = {}
    /\ call = [r \in Requests |-> Idle]
    /\ reader = Resting

-----------------------------------------------------------------------------
At(r, step) == call[r].at = step
Goto(r, step) == call' = [call EXCEPT ![r].at = step]
Done(r) == call' = [call EXCEPT ![r] = Idle]

\* The booking is the caller's and COMPLETED.
ReviewFind(r, b) ==
    /\ At(r, "idle")
    /\ call' = [q \in Requests |->
                  IF q = r
                  THEN [Idle EXCEPT !.at = "check", !.booking = b,
                                    !.alone = \A p \in Requests : At(p, "idle")]
                  ELSE [call[q] EXCEPT !.alone = FALSE]]
    /\ UNCHANGED <<reviews, rated, reader>>

ReviewCheck(r) ==
    /\ At(r, "check")
    /\ IF call[r].booking \in ToSet(reviews) THEN Done(r) ELSE Goto(r, "insert")
    /\ UNCHANGED <<reviews, rated, reader>>

\* Mutant: bookingId is not unique.
InsertAgain(r) ==
    /\ At(r, "insert")
    /\ reviews' = <<call[r].booking>> \o reviews
    /\ Goto(r, "average")
    /\ UNCHANGED <<rated, reader>>

\* The INSERT, or P2002 when another call was faster.
ReviewInsert(r) ==
    /\ At(r, "insert")
    /\ IF call[r].booking \in ToSet(reviews)
       THEN Done(r) /\ UNCHANGED reviews
       ELSE /\ reviews' = <<call[r].booking>> \o reviews
            /\ Goto(r, "average")
    /\ UNCHANGED <<rated, reader>>

\* Mutant: the new rating is worked out from the old one and the new review.
AverageAdds(r) ==
    /\ At(r, "average")
    /\ call' = [call EXCEPT ![r].at = "write", ![r].average = rated \cup {call[r].booking}]
    /\ UNCHANGED <<reviews, rated, reader>>

\* updateTurfRating: aggregate, then update.
RatingAverage(r) ==
    /\ At(r, "average")
    /\ call' = [call EXCEPT ![r].at = "write", ![r].average = ToSet(reviews)]
    /\ UNCHANGED <<reviews, rated, reader>>

RatingWrite(r) ==
    /\ At(r, "write")
    /\ rated' = call[r].average
    /\ Done(r)
    /\ UNCHANGED <<reviews, reader>>

\* The process dies, or a statement throws.
Stops(r) ==
    /\ ~At(r, "idle")
    /\ Done(r)
    /\ UNCHANGED <<reviews, rated, reader>>

-----------------------------------------------------------------------------
(* getTurfReviews                                                          *)

\* Mutant: pages are counted from zero.
SkipFromZero(page) == page * Limit

Skip(page) == (page - 1) * Limit

\* findMany with skip and take
Page(page) == {reviews[i] : i \in (Skip(page) + 1)..(Skip(page) + Limit) \cap DOMAIN reviews}

\* The reader asks for page after page until one is short.
ReadPage ==
    /\ LET first == reader.page = 0
           page == IF first THEN 1 ELSE reader.page
       IN reader' =
            [page |-> IF Cardinality(Page(page)) < Limit THEN 0 ELSE page + 1,
             got |-> (IF first THEN {} ELSE reader.got) \cup Page(page),
             owed |-> IF first THEN ToSet(reviews) ELSE reader.owed]
    /\ UNCHANGED <<reviews, rated, call>>

Next ==
    \/ \E r \in Requests :
         \/ \E b \in Bookings : ReviewFind(r, b)
         \/ ReviewCheck(r) \/ ReviewInsert(r) \/ RatingAverage(r) \/ RatingWrite(r)
         \/ Stops(r)
    \/ ReadPage

Spec == Init /\ [][Next]_vars

-----------------------------------------------------------------------------
(* Properties                                                              *)

\* A call that no other call met leaves the turf with the average over all its
\* reviews, even when earlier calls that met or stopped left a wrong one: the
\* average is read and written without a transaction (review.service.ts:124-138).
NextReviewRepairs ==
    [][\A r \in Requests : RatingWrite(r) /\ call[r].alone => rated' = ToSet(reviews)]_vars

\* A client that reads page after page until one is short gets every review
\* that was there when it began, although reviews are inserted in front of the
\* pages meanwhile (review.service.ts:74-122).
WalkComplete == reader.page = 0 => reader.owed \subseteq reader.got
=============================================================================
