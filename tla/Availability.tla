----------------------------- MODULE Availability -----------------------------
(***************************************************************************)
(* The slots of one turf and the pages that Redis caches about it:         *)
(* generation of slots (slot.service.ts), the cache-aside reads and the    *)
(* writes of turf.service.ts over redis-lock.service.ts, and what bookings *)
(* do to both.                                                             *)
(*                                                                         *)
(* The opening hours may run past midnight: hour DayHours + h of a date is *)
(* hour h of the next date.  Whether a booking succeeds is left to Booking *)
(* (a booking here is a committed one, and a freed slot may be booked      *)
(* again).  The dates are those that cleanupOldSlots leaves alone.         *)
(***************************************************************************)
EXTENDS Naturals, FiniteSets

CONSTANTS
    Dates,     \* the dates that are generated and asked for
    DayHours,  \* the hours of a day
    Rows,      \* what the row of the turf may say
    Wanted,    \* the slots that customers book
    Requests,
    Events,    \* the entry points and faults that an instance exercises
    Info,      \* the key turf:<id>; the lists of turfs are read and deleted like it
    NoPage     \* a key that is not in the cache

Hours == 0..(DayHours - 1)
SlotIds == (Dates \cup {d + 1 : d \in Dates}) \X Hours
Keys == Dates \cup {Info}

ASSUME ConstantsOK ==
    /\ Dates \subseteq Nat /\ IsFiniteSet(Dates) /\ Dates # {}
    /\ DayHours \in Nat \ {0}
    /\ \A row \in Rows : row.open \in Hours /\ row.close \in Hours
    /\ Info \notin Dates
    /\ Wanted \subseteq SlotIds

VARIABLES
    turf,   \* the row of the turf: open, close, and the rest of its columns
    table,  \* the slots table: "none", "free" or "booked" for every slot
    held,   \* the slots of the live bookings
    cache,  \* the page under each key
    call    \* what each call in progress is about to do, and what it has read

vars == <<turf, table, held, cache, call>>

Steps == {"idle", "read_turf", "read_slots", "generate", "read_again", "fill",
          "drop_dates", "drop_info"}
Pages == [turf : Rows, slots : SUBSET (Hours \X {"free", "booked"})]
Calls == [at : Steps, key : Keys, page : Pages, days : SUBSET Dates]

AnyRow == CHOOSE row \in Rows : TRUE
Idle == [at |-> "idle", key |-> Info, page |-> [turf |-> AnyRow, slots |-> {}], days |-> {}]

TypeOK ==
    /\ turf \in Rows
    /\ table \in [SlotIds -> {"none", "free", "booked"}]
    /\ held \in SUBSET SlotIds
    /\ \A k \in Keys : cache[k] # NoPage => cache[k] \in Pages
    /\ call \in [Requests -> Calls]

Init ==
    /\ turf \in Rows
    /\ table = [s \in SlotIds |-> "none"]
    /\ held = {}
    /\ cache = [k \in Keys |-> NoPage]
    /\ call = [r \in Requests |-> Idle]

-----------------------------------------------------------------------------
At(r, step) == call[r].at = step
Starts(r, event) == event \in Events /\ At(r, "idle")
Goto(r, step) == call' = [call EXCEPT ![r].at = step]
Done(r) == call' = [call EXCEPT ![r] = Idle]

\* The hour after the last one; a closing hour that is not after the opening
\* hour belongs to the next day.
EndHour(row) == IF row.close <= row.open THEN row.close + DayHours ELSE row.close

\* The slots that generateTurfSlots makes for a date.
SlotsFor(row, d) ==
    {<<d + (h \div DayHours), h % DayHours>> : h \in row.open..(EndHour(row) - 1)}

\* Mutant: an upsert that sets isBooked to false.
Overwritten(S) == [s \in SlotIds |-> IF s \in S THEN "free" ELSE table[s]]

\* createMany with skipDuplicates over the unique (turfId, date, startTime).
Inserted(S) ==
    [s \in SlotIds |-> IF s \in S /\ table[s] = "none" THEN "free" ELSE table[s]]

\* Mutant: the closing hour is not carried over midnight.
ExpectedSameDay(row) == row.close - row.open

\* expectedSlotsCount of getAvailableSlots.
Expected(row) == EndHour(row) - row.open

\* Mutant: an hour that was not generated is shown as well.
SlotsOnAll(d) == {<<h, table[<<d, h>>]>> : h \in Hours}

\* The rows of a date, those that the date before carried over included.
SlotsOn(d) == {<<h, table[<<d, h>>]>> : h \in {h \in Hours : table[<<d, h>>] # "none"}}

Current(k) == [turf |-> turf, slots |-> IF k = Info THEN {} ELSE SlotsOn(k)]

-----------------------------------------------------------------------------
(* Generation: at boot, every night, when a turf is created, by hand       *)

\* The turf is read, then each date is generated from what was read.  One date
\* is the daily job; generateForTurf does not ask whether the turf is active.
GenerationReads(r, D) ==
    /\ Starts(r, "job")
    /\ call' = [call EXCEPT ![r] = [Idle EXCEPT !.at = "generate", !.page.turf = turf, !.days = D]]
    /\ UNCHANGED <<turf, table, held, cache>>

\* generateTurfSlots for one date: of the loop of a generation, or of a reader,
\* who reads the slots again.
Generate(r) ==
    /\ At(r, "generate")
    /\ \E d \in call[r].days :
         /\ table' = Inserted(SlotsFor(call[r].page.turf, d))
         /\ IF call[r].key # Info THEN Goto(r, "read_again")
            ELSE IF call[r].days = {d} THEN Done(r)
            ELSE call' = [call EXCEPT ![r].days = @ \ {d}]
    /\ UNCHANGED <<turf, held, cache>>

-----------------------------------------------------------------------------
(* Reads: findOne and findAll (Info), getAvailableSlots (a date)           *)

\* GET misses, or fails and returns null; a hit returns the page.
Lookup(r, k) ==
    /\ Starts(r, "read")
    /\ cache[k] = NoPage \/ "stop" \in Events
    /\ call' = [call EXCEPT ![r] = [Idle EXCEPT !.at = "read_turf", !.key = k]]
    /\ UNCHANGED <<turf, table, held, cache>>

ReadTurf(r) ==
    /\ At(r, "read_turf")
    /\ call' = [call EXCEPT ![r].page.turf = turf,
                            ![r].at = IF call[r].key = Info THEN "fill" ELSE "read_slots"]
    /\ UNCHANGED <<turf, table, held, cache>>

\* Fewer slots than the opening hours need: generate, then read again.
ReadSlots(r) ==
    /\ At(r, "read_slots")
    /\ LET d == call[r].key
           few == Cardinality(SlotsOn(d)) < Expected(call[r].page.turf)
       IN call' = [call EXCEPT ![r].page.slots = SlotsOn(d),
                               ![r].at = IF few THEN "generate" ELSE "fill",
                               ![r].days = IF few THEN {d} ELSE {}]
    /\ UNCHANGED <<turf, table, held, cache>>

ReadAgain(r) ==
    /\ At(r, "read_again")
    /\ call' = [call EXCEPT ![r].page.slots = SlotsOn(call[r].key), ![r].at = "fill",
                            ![r].days = {}]
    /\ UNCHANGED <<turf, table, held, cache>>

\* SETEX, whatever happened since the reads; an error is swallowed.
Fill(r) ==
    /\ At(r, "fill")
    /\ cache' = [cache EXCEPT ![call[r].key] = call[r].page]
    /\ Done(r)
    /\ UNCHANGED <<turf, table, held>>

-----------------------------------------------------------------------------
(* Writes                                                                  *)

\* A booking commits, then its call deletes the pages of all dates.
Book(r, s) ==
    /\ Starts(r, "book")
    /\ table[s] = "free"
    /\ table' = [table EXCEPT ![s] = "booked"]
    /\ held' = held \cup {s}
    /\ Goto(r, "drop_dates")
    /\ UNCHANGED <<turf, cache>>

\* cancel and the sweep free the slot and delete the pages.
Release(r, s) ==
    /\ Starts(r, "release")
    /\ s \in held
    /\ table' = [table EXCEPT ![s] = "free"]
    /\ held' = held \ {s}
    /\ Goto(r, "drop_dates")
    /\ UNCHANGED <<turf, cache>>

\* refund frees the slot and deletes no page.
Refund(s) ==
    /\ "refund" \in Events
    /\ s \in held
    /\ table' = [table EXCEPT ![s] = "free"]
    /\ held' = held \ {s}
    /\ UNCHANGED <<turf, cache, call>>

DropDates(r) ==
    /\ At(r, "drop_dates")
    /\ cache' = [k \in Keys |-> IF k = Info THEN cache[k] ELSE NoPage]
    /\ Done(r)
    /\ UNCHANGED <<turf, table, held>>

\* The rows an update may write: every column, or all but the opening hours.
Writable ==
    IF "hours" \in Events THEN Rows
    ELSE {row \in Rows : row.open = turf.open /\ row.close = turf.close}

\* update and remove: the pages of the slots, which hold the turf too, stay.
WriteTurf(r) ==
    /\ Starts(r, "update")
    /\ \E row \in Writable : row # turf /\ turf' = row
    /\ Goto(r, "drop_info")
    /\ UNCHANGED <<table, held, cache>>

\* A review sets the rating, an upload the images; both delete no page.
WriteColumn ==
    /\ "column" \in Events
    /\ \E row \in Rows :
         row # turf /\ row.open = turf.open /\ row.close = turf.close /\ turf' = row
    /\ UNCHANGED <<table, held, cache, call>>

DropInfo(r) ==
    /\ At(r, "drop_info")
    /\ cache' = [cache EXCEPT ![Info] = NoPage]
    /\ Done(r)
    /\ UNCHANGED <<turf, table, held>>

-----------------------------------------------------------------------------
\* Mutant: the pages are set without an expiry.
NeverExpires(k) == FALSE /\ UNCHANGED vars

\* A page expires (sixty or three hundred seconds), or Redis evicts it.
Expires(k) ==
    /\ cache[k] # NoPage
    /\ cache' = [cache EXCEPT ![k] = NoPage]
    /\ UNCHANGED <<turf, table, held, call>>

\* The process dies or a statement throws; a deletion whose error is swallowed
\* ends its call in the same way.
Stops(r) ==
    /\ "stop" \in Events
    /\ ~At(r, "idle")
    /\ Done(r)
    /\ UNCHANGED <<turf, table, held, cache>>

-----------------------------------------------------------------------------
Step(r) ==
    \/ Generate(r) \/ ReadTurf(r) \/ ReadSlots(r) \/ ReadAgain(r) \/ Fill(r)
    \/ DropDates(r) \/ DropInfo(r)

Next ==
    \/ \E r \in Requests :
         \/ Step(r) \/ Stops(r) \/ WriteTurf(r)
         \/ \E k \in Keys : Lookup(r, k)
         \/ \E s \in Wanted : Book(r, s) \/ Release(r, s)
         \/ \E D \in {Dates} \cup {{d} : d \in Dates} : GenerationReads(r, D)
    \/ \E k \in Keys : Expires(k)
    \/ \E s \in Wanted : Refund(s)
    \/ WriteColumn

Spec == Init /\ [][Next]_vars

\* Calls in progress go on, and pages expire.
Fairness ==
    /\ \A r \in Requests : WF_vars(Step(r))
    /\ \A k \in Keys : WF_vars(Expires(k))

FairSpec == Spec /\ Fairness

-----------------------------------------------------------------------------
(* Properties                                                              *)

\* No generation, however many run at once and from whatever row they read,
\* frees a slot that a booking holds (createMany with skipDuplicates).
HeldStaysBooked == \A s \in held : table[s] = "booked"

\* A page that getAvailableSlots is about to cache and return offers every hour
\* of its date at which the turf opens, also when the hours run past midnight and
\* the date before has put slots there.  It holds while the hours stay the same:
\* the code compares counts of slots, not hours.
AnswerComplete ==
    \A r \in Requests : At(r, "fill") /\ call[r].key # Info =>
        \A h \in Hours :
            <<call[r].key, h>> \in SlotsFor(call[r].page.turf, call[r].key) =>
                \E x \in {"free", "booked"} : <<h, x>> \in call[r].page.slots

\* Once bookings and updates stop, every page in the cache is and stays current,
\* although slow readers fill in what they read before, refunds delete nothing
\* and calls die before they delete.
WritesStop == <>[][UNCHANGED <<turf, held>>]_vars

PagesConverge ==
    WritesStop => <>[](\A k \in Keys : cache[k] \in {NoPage, Current(k)})
=============================================================================
