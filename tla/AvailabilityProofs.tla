-------------------------- MODULE AvailabilityProofs --------------------------
(***************************************************************************)
(* Theorems about Availability, for any dates, hours, rows and calls: a    *)
(* generation never frees a booked slot, and, while the opening hours stay *)
(* the same, an answer offers every open hour of its date.                 *)
(*                                                                         *)
(* getAvailableSlots counts the slots of a date and compares the number    *)
(* with the number of opening hours.  That says which hours are there      *)
(* because a date has rows at opening hours only, carried over midnight or *)
(* not, and there are no more opening hours than the number expected.      *)
(***************************************************************************)
EXTENDS Availability, FiniteSetTheorems, TLAPS

\* The hours of the clock at which a turf is open.
OpenHours(row) == {h % DayHours : h \in row.open..(EndHour(row) - 1)}
SameHours(row, now) == row.open = now.open /\ row.close = now.close

\* The tables and the cache.
DataOK ==
    /\ turf \in Rows
    /\ table \in [SlotIds -> {"none", "free", "booked"}]
    /\ held \in SUBSET SlotIds
    /\ cache = [k \in Keys |-> cache[k]]
    /\ \A k \in Keys : cache[k] # NoPage => cache[k] \in Pages
    /\ HeldStaysBooked

\* A date has rows at opening hours only.
OpenOnly == \A s \in SlotIds : table[s] # "none" => s[2] \in OpenHours(turf)

\* The open hours of a date have rows in a table; a page shows the open hours of
\* its date.
Filled(row, d, rows) ==
    \A h \in Hours : <<d, h>> \in SlotsFor(row, d) => rows[<<d, h>>] # "none"
Shown(page, d) ==
    \A h \in Hours : <<d, h>> \in SlotsFor(page.turf, d) =>
        \E x \in {"free", "booked"} : <<h, x>> \in page.slots

\* Only the reader of a date reads slots.
Reader(c) == c.at \in {"read_slots", "read_again"} => c.key \in Dates

\* What a call knows of the turf and the table while the hours stay the same.
Knows(c, now, rows) ==
    /\ c.at \in {"generate", "read_slots", "read_again", "fill"} => SameHours(c.page.turf, now)
    /\ c.at = "generate" /\ c.key # Info => c.days = {c.key}
    /\ c.at = "read_again" => Filled(c.page.turf, c.key, rows)
    /\ c.at = "fill" /\ c.key # Info => Shown(c.page, c.key)

SameAlways == "hours" \notin Events

\* The inductive invariant.
CallsOK ==
    /\ call \in [Requests -> Calls]
    /\ \A r \in Requests : Reader(call[r]) /\ (SameAlways => Knows(call[r], turf, table))
AInv == DataOK /\ CallsOK /\ (SameAlways => OpenOnly)

-----------------------------------------------------------------------------
(* Hours                                                                   *)

\* There are at most as many opening hours as getAvailableSlots expects.
LEMMA OpenHoursBound ==
    ASSUME NEW row \in Rows
    PROVE  /\ IsFiniteSet(OpenHours(row))
           /\ Cardinality(OpenHours(row)) <= Expected(row)
<1> DEFINE I == row.open..(EndHour(row) - 1)
           f == [h \in I |-> h % DayHours]
<1>1. /\ row.open \in Nat /\ row.close \in Nat /\ DayHours \in Nat
      /\ row.open < DayHours
  BY ConstantsOK DEF Hours
<1>2. EndHour(row) \in Nat /\ row.open < EndHour(row)
  BY <1>1 DEF EndHour
<1>3. IsFiniteSet(I) /\ Cardinality(I) = Expected(row)
  <2>1. row.open \in Int /\ EndHour(row) - 1 \in Int /\ ~(row.open > EndHour(row) - 1)
    BY <1>1, <1>2
  <2>2. IsFiniteSet(I) /\ Cardinality(I) = (EndHour(row) - 1) - row.open + 1
    BY <2>1, FS_Interval
  <2>3. QED
    BY <1>1, <1>2, <2>2 DEF Expected
<1>4. f \in Surjection(I, OpenHours(row))
  BY DEF Surjection, OpenHours
<1>5. QED
  BY <1>3, <1>4, FS_Surjection

\* A slot that is generated is at an opening hour, whichever date it is carried to.
LEMMA GeneratedIsOpen ==
    ASSUME NEW row \in Rows, NEW d \in Dates, NEW s \in SlotsFor(row, d)
    PROVE  s[2] \in OpenHours(row)
BY DEF SlotsFor, OpenHours

LEMMA SameOpenHours ==
    ASSUME NEW row, SameHours(row, turf)
    PROVE  OpenHours(row) = OpenHours(turf) /\ Expected(row) = Expected(turf)
BY DEF SameHours, OpenHours, EndHour, Expected

\* Not too few rows on a date: then every open hour has its row.
LEMMA NotFewIsFilled ==
    ASSUME DataOK, OpenOnly, NEW d \in Dates, NEW row \in Rows, SameHours(row, turf),
           ~(Cardinality(SlotsOn(d)) < Expected(row))
    PROVE  Filled(row, d, table)
<1> DEFINE H == {h \in Hours : table[<<d, h>>] # "none"}
           f == [h \in H |-> <<h, table[<<d, h>>]>>]
<1>1. \A h \in Hours : <<d, h>> \in SlotIds
  BY DEF SlotIds
<1>2. H \subseteq OpenHours(row)
  <2> SUFFICES ASSUME NEW h \in H PROVE h \in OpenHours(row)
    OBVIOUS
  <2>1. <<d, h>> \in SlotIds /\ <<d, h>>[2] = h
    BY <1>1
  <2>2. QED
    BY <2>1, SameOpenHours DEF OpenOnly
<1>3. IsFiniteSet(OpenHours(row)) /\ Cardinality(OpenHours(row)) <= Expected(row)
  BY OpenHoursBound
<1>4. /\ IsFiniteSet(H) /\ Cardinality(H) <= Cardinality(OpenHours(row))
      /\ Cardinality(OpenHours(row)) = Cardinality(H) => OpenHours(row) = H
  BY <1>2, <1>3, FS_Subset
<1>5. f \in Surjection(H, SlotsOn(d))
  BY DEF Surjection, SlotsOn
<1>6. IsFiniteSet(SlotsOn(d)) /\ Cardinality(SlotsOn(d)) <= Cardinality(H)
  BY <1>4, <1>5, FS_Surjection
<1>7. /\ Cardinality(SlotsOn(d)) \in Nat /\ Cardinality(H) \in Nat
      /\ Cardinality(OpenHours(row)) \in Nat
  BY <1>3, <1>4, <1>6, FS_CardinalityType
<1>8. Expected(row) \in Int
  BY ConstantsOK DEF Expected, EndHour, Hours
<1>9. OpenHours(row) = H
  BY <1>3, <1>4, <1>6, <1>7, <1>8
<1>10. \A h \in Hours : <<d, h>> \in SlotsFor(row, d) => h \in OpenHours(row)
  BY GeneratedIsOpen
<1>11. QED
  BY <1>9, <1>10 DEF Filled

\* What is read from a date that is filled shows every open hour.
LEMMA FilledIsShown ==
    ASSUME DataOK, NEW d \in Dates, NEW row, Filled(row, d, table)
    PROVE  Shown([turf |-> row, slots |-> SlotsOn(d)], d)
<1> SUFFICES ASSUME NEW h \in Hours, <<d, h>> \in SlotsFor(row, d)
             PROVE \E x \in {"free", "booked"} : <<h, x>> \in SlotsOn(d)
  BY DEF Shown
<1>1. <<d, h>> \in SlotIds
  BY DEF SlotIds
<1>2. table[<<d, h>>] \in {"free", "booked"}
  BY <1>1 DEF DataOK, Filled
<1>3. <<h, table[<<d, h>>]>> \in SlotsOn(d)
  BY <1>2 DEF SlotsOn
<1>4. QED
  BY <1>2, <1>3

LEMMA SlotsOnType ==
    ASSUME DataOK, NEW d \in Dates
    PROVE  SlotsOn(d) \in SUBSET (Hours \X {"free", "booked"})
<1>1. \A h \in Hours : table[<<d, h>>] # "none" => table[<<d, h>>] \in {"free", "booked"}
  BY DEF DataOK, SlotIds
<1>2. SUFFICES ASSUME NEW x \in SlotsOn(d) PROVE x \in Hours \X {"free", "booked"}
  OBVIOUS
<1>3. PICK h \in Hours : table[<<d, h>>] # "none" /\ x = <<h, table[<<d, h>>]>>
  BY DEF SlotsOn
<1>4. QED
  BY <1>1, <1>3

-----------------------------------------------------------------------------
(* How the data and the calls may change                                   *)

\* What every step does to the data, seen by the calls in progress: no row
\* disappears, and the hours stay the same where they do so always.
Steady ==
    /\ SameAlways => SameHours(turf, turf')
    /\ \A s \in SlotIds : table[s] # "none" => table'[s] # "none"

\* A call that does not move still knows what it knew.
LEMMA KnowsOn ==
    ASSUME NEW c \in Calls, Steady, Reader(c), SameAlways, Knows(c, turf, table)
    PROVE  Knows(c, turf', table')
<1>1. c.at = "read_again" => \A h \in Hours : <<c.key, h>> \in SlotIds
  BY DEF Reader, SlotIds
<1>2. QED
  BY <1>1 DEF Knows, Steady, SameHours, Filled

\* A step that moves at most one call, to one that knows what it needs.
LEMMA CallMoves ==
    ASSUME AInv, DataOK', Steady, SameAlways => OpenOnly',
           NEW r \in Requests, NEW c \in Calls, call' = [call EXCEPT ![r] = c],
           Reader(c), SameAlways => Knows(c, turf', table')
    PROVE  AInv'
<1>1. call' \in [Requests -> Calls]
  BY DEF AInv, CallsOK
<1>2. \A q \in Requests : call'[q] = IF q = r THEN c ELSE call[q]
  BY DEF AInv, CallsOK
<1>3. \A q \in Requests : /\ Reader(call'[q])
                          /\ SameAlways => Knows(call'[q], turf', table')
  BY <1>2, KnowsOn DEF AInv, CallsOK
<1>4. QED
  BY <1>1, <1>3 DEF AInv, CallsOK, SameAlways, Reader, Knows, SameHours, Filled, Shown

\* The same for a step that moves none.
LEMMA NoCallMoves ==
    ASSUME AInv, DataOK', Steady, SameAlways => OpenOnly', UNCHANGED call
    PROVE  AInv'
<1>1. \A q \in Requests : SameAlways => Knows(call[q], turf', table')
  BY KnowsOn DEF AInv, CallsOK
<1>2. QED
  BY <1>1 DEF AInv, CallsOK, SameAlways, Reader, Knows, SameHours, Filled, Shown

\* A step that writes nothing but the cache keeps the data.
LEMMA DataStays ==
    ASSUME AInv, UNCHANGED <<turf, table, held>>,
           cache' = [k \in Keys |-> cache'[k]],
           \A k \in Keys : cache'[k] # NoPage => cache'[k] \in Pages
    PROVE  DataOK' /\ Steady /\ (SameAlways => OpenOnly')
<1>1. DataOK'
  BY DEF AInv, DataOK, HeldStaysBooked
<1>2. Steady
  BY DEF Steady, SameHours
<1>3. SameAlways => OpenOnly'
  BY DEF AInv, OpenOnly, OpenHours, EndHour
<1>4. QED
  BY <1>1, <1>2, <1>3

LEMMA NothingWritten ==
    ASSUME AInv, UNCHANGED <<turf, table, held, cache>>
    PROVE  DataOK' /\ Steady /\ (SameAlways => OpenOnly')
BY DataStays DEF AInv, DataOK

\* Idle is a call, with nothing read.
LEMMA IdleFact ==
    ASSUME AInv
    PROVE  Idle \in Calls /\ Idle.at = "idle" /\ Idle.key = Info
<1>1. AnyRow \in Rows
  BY DEF AnyRow, AInv, DataOK
<1>2. QED
  BY <1>1 DEF Idle, Calls, Steps, Pages, Keys

\* A call that ends.
LEMMA DoneKeeps ==
    ASSUME AInv, DataOK', Steady, SameAlways => OpenOnly', NEW r \in Requests, Done(r)
    PROVE  AInv'
<1>1. Reader(Idle) /\ Knows(Idle, turf', table')
  BY IdleFact DEF Reader, Knows
<1>2. QED
  BY <1>1, IdleFact, CallMoves DEF Done

\* A call that goes on to delete pages has nothing left to know.
LEMMA DropKeeps ==
    ASSUME AInv, DataOK', Steady, SameAlways => OpenOnly', NEW r \in Requests,
           NEW step \in {"drop_dates", "drop_info"}, Goto(r, step)
    PROVE  AInv'
<1> DEFINE c == [call[r] EXCEPT !.at = step]
<1>1. c \in Calls /\ c.at = step
  BY DEF AInv, CallsOK, Calls, Steps
<1>2. Reader(c) /\ Knows(c, turf', table')
  BY <1>1 DEF Reader, Knows
<1>3. QED
  BY <1>1, <1>2, CallMoves DEF Goto

-----------------------------------------------------------------------------
(* One lemma per action                                                    *)

LEMMA GenerationReadsKeeps ==
    ASSUME AInv, NEW r \in Requests, NEW D \in SUBSET Dates, GenerationReads(r, D)
    PROVE  AInv'
<1> DEFINE c == [Idle EXCEPT !.at = "generate", !.page.turf = turf, !.days = D]
<1>1. c \in Calls /\ c.at = "generate" /\ c.key = Info /\ c.page.turf = turf
  BY IdleFact DEF AInv, DataOK, Calls, Steps, Pages
<1>2. call' = [call EXCEPT ![r] = c] /\ UNCHANGED <<turf, table, held, cache>>
  BY DEF GenerationReads
<1>3. Reader(c) /\ Knows(c, turf', table')
  BY <1>1, <1>2 DEF Reader, Knows, SameHours
<1>4. QED
  BY <1>1, <1>2, <1>3, NothingWritten, CallMoves

LEMMA LookupKeeps ==
    ASSUME AInv, NEW r \in Requests, NEW k \in Keys, Lookup(r, k)
    PROVE  AInv'
<1> DEFINE c == [Idle EXCEPT !.at = "read_turf", !.key = k]
<1>1. c \in Calls /\ c.at = "read_turf"
  BY IdleFact DEF Calls, Steps
<1>2. Reader(c) /\ Knows(c, turf', table')
  BY <1>1 DEF Reader, Knows
<1>3. QED
  BY <1>1, <1>2, NothingWritten, CallMoves DEF Lookup

\* The row is current when it is read; a date is read by its own reader.
LEMMA ReadTurfKeeps ==
    ASSUME AInv, NEW r \in Requests, ReadTurf(r)
    PROVE  AInv'
<1> DEFINE next == IF call[r].key = Info THEN "fill" ELSE "read_slots"
           c == [call[r] EXCEPT !.page.turf = turf, !.at = next]
<1>1. call[r] \in Calls /\ next \in Steps /\ turf \in Rows
  BY DEF AInv, CallsOK, DataOK, Steps
<1>2. c \in Calls /\ c.at = next /\ c.key = call[r].key /\ c.page.turf = turf
  <2> HIDE DEF next
  <2>1. QED
    BY <1>1 DEF Calls, Pages
<1>3. call' = [call EXCEPT ![r] = c] /\ UNCHANGED <<turf, table, held, cache>>
  BY DEF ReadTurf
<1>4. c.key \in Keys
  BY <1>2 DEF Calls
<1>5. Reader(c) /\ Knows(c, turf', table')
  <2> HIDE DEF c
  <2>1. QED
    BY <1>2, <1>3, <1>4 DEF Reader, Knows, SameHours, Keys
<1>6. QED
  BY <1>2, <1>3, <1>5, NothingWritten, CallMoves

\* Enough slots are all slots; too few are for the reader's own generation.
LEMMA ReadSlotsKeeps ==
    ASSUME AInv, NEW r \in Requests, ReadSlots(r)
    PROVE  AInv'
<1> DEFINE d == call[r].key
           row == call[r].page.turf
           few == Cardinality(SlotsOn(d)) < Expected(row)
           at == IF few THEN "generate" ELSE "fill"
           days == IF few THEN {d} ELSE {}
           c == [call[r] EXCEPT !.page.slots = SlotsOn(d), !.at = at, !.days = days]
<1>1. call[r] \in Calls /\ call[r].at = "read_slots" /\ d \in Dates /\ row \in Rows
  BY DEF AInv, CallsOK, Calls, Pages, ReadSlots, At, Reader
<1>2. SlotsOn(d) \in SUBSET (Hours \X {"free", "booked"})
  BY <1>1, SlotsOnType DEF AInv
<1>3. at \in Steps /\ days \in SUBSET Dates
  BY <1>1 DEF Steps
<1>4. /\ c \in Calls /\ c.at = at /\ c.key = d /\ c.days = days
      /\ c.page = [turf |-> row, slots |-> SlotsOn(d)]
  <2> HIDE DEF at, days
  <2>1. QED
    BY <1>1, <1>2, <1>3 DEF Calls, Pages
<1>5. call' = [call EXCEPT ![r] = c] /\ UNCHANGED <<turf, table, held, cache>>
  BY DEF ReadSlots
<1>6. SameAlways => Knows(c, turf', table')
  <2> SUFFICES ASSUME SameAlways PROVE Knows(c, turf', table')
    OBVIOUS
  <2>1. SameHours(row, turf)
    BY <1>1 DEF AInv, CallsOK, Knows
  <2>2. ~few => Shown(c.page, d)
    BY <1>1, <1>4, <2>1, NotFewIsFilled, FilledIsShown DEF AInv
  <2> HIDE DEF c, few
  <2>3. QED
    BY <1>4, <1>5, <2>1, <2>2 DEF Knows
<1>7. Reader(c)
  <2> HIDE DEF c
  <2>1. QED
    BY <1>1, <1>4 DEF Reader
<1>8. QED
  BY <1>4, <1>5, <1>6, <1>7, NothingWritten, CallMoves

LEMMA ReadAgainKeeps ==
    ASSUME AInv, NEW r \in Requests, ReadAgain(r)
    PROVE  AInv'
<1> DEFINE d == call[r].key
           row == call[r].page.turf
           c == [call[r] EXCEPT !.page.slots = SlotsOn(d), !.at = "fill", !.days = {}]
<1>1. call[r] \in Calls /\ call[r].at = "read_again" /\ d \in Dates /\ row \in Rows
  BY DEF AInv, CallsOK, Calls, Pages, ReadAgain, At, Reader
<1>2. SlotsOn(d) \in SUBSET (Hours \X {"free", "booked"})
  BY <1>1, SlotsOnType DEF AInv
<1>3. "fill" \in Steps /\ {} \in SUBSET Dates
  BY DEF Steps
<1>4. /\ c \in Calls /\ c.at = "fill" /\ c.key = d
      /\ c.page = [turf |-> row, slots |-> SlotsOn(d)]
  BY <1>1, <1>2, <1>3 DEF Calls, Pages
<1>5. call' = [call EXCEPT ![r] = c] /\ UNCHANGED <<turf, table, held, cache>>
  BY DEF ReadAgain
<1>6. SameAlways => Knows(c, turf', table')
  <2> SUFFICES ASSUME SameAlways PROVE Knows(c, turf', table')
    OBVIOUS
  <2>1. SameHours(row, turf) /\ Filled(row, d, table)
    BY <1>1 DEF AInv, CallsOK, Knows
  <2>2. Shown(c.page, d)
    BY <1>1, <1>4, <2>1, FilledIsShown DEF AInv
  <2> HIDE DEF c
  <2>3. QED
    BY <1>4, <1>5, <2>1, <2>2 DEF Knows
<1>7. Reader(c)
  BY <1>4 DEF Reader
<1>8. QED
  BY <1>4, <1>5, <1>6, <1>7, NothingWritten, CallMoves

LEMMA FillKeeps ==
    ASSUME AInv, NEW r \in Requests, Fill(r)
    PROVE  AInv'
<1>1. call[r].page \in Pages
  BY DEF AInv, CallsOK, Calls
<1>2. /\ cache' = [k \in Keys |-> cache'[k]]
      /\ \A k \in Keys : cache'[k] # NoPage => cache'[k] \in Pages
  BY <1>1 DEF Fill, AInv, DataOK
<1>3. QED
  BY <1>2, DataStays, DoneKeeps DEF Fill

\* A generation inserts what is missing at opening hours, and writes no row that
\* is there.
LEMMA GenerateKeeps ==
    ASSUME AInv, NEW r \in Requests, Generate(r)
    PROVE  AInv'
<1> DEFINE row == call[r].page.turf
           key == call[r].key
<1>1. PICK d \in call[r].days :
        /\ table' = Inserted(SlotsFor(row, d))
        /\ IF key # Info THEN Goto(r, "read_again")
           ELSE IF call[r].days = {d} THEN Done(r)
           ELSE call' = [call EXCEPT ![r].days = @ \ {d}]
  BY DEF Generate
<1>2. /\ call[r] \in Calls /\ call[r].at = "generate" /\ row \in Rows /\ d \in Dates
      /\ UNCHANGED <<turf, held, cache>>
  BY DEF Generate, At, AInv, CallsOK, Calls, Pages
<1>3. \A s \in SlotIds :
        table'[s] = IF s \in SlotsFor(row, d) /\ table[s] = "none" THEN "free" ELSE table[s]
  BY <1>1 DEF Inserted
<1>4. SameAlways => SameHours(row, turf)
  BY <1>2 DEF AInv, CallsOK, Knows
<1>5. DataOK'
  <2>1. table' \in [SlotIds -> {"none", "free", "booked"}]
    BY <1>1 DEF Inserted, AInv, DataOK
  <2>2. HeldStaysBooked'
    BY <1>2, <1>3 DEF AInv, DataOK, HeldStaysBooked
  <2>3. QED
    BY <1>2, <2>1, <2>2 DEF AInv, DataOK
<1>6. Steady
  BY <1>2, <1>3 DEF Steady, SameHours
<1>7. SameAlways => OpenOnly'
  <2> SUFFICES ASSUME SameAlways, NEW s \in SlotIds, table'[s] # "none"
               PROVE s[2] \in OpenHours(turf)
    BY <1>2 DEF OpenOnly, OpenHours, EndHour
  <2>1. CASE s \in SlotsFor(row, d)
    BY <1>2, <1>4, <2>1, GeneratedIsOpen, SameOpenHours
  <2>2. CASE s \notin SlotsFor(row, d)
    BY <1>3, <2>2 DEF AInv, OpenOnly
  <2>3. QED
    BY <2>1, <2>2
<1>8. CASE key # Info
  <2> DEFINE c == [call[r] EXCEPT !.at = "read_again"]
  <2>1. key \in Dates
    BY <1>2, <1>8 DEF Calls, Keys
  <2>2. c \in Calls /\ c.at = "read_again" /\ c.key = key /\ c.page = call[r].page
    BY <1>2 DEF Calls, Steps
  <2>3. SameAlways => Knows(c, turf', table')
    <3> SUFFICES ASSUME SameAlways PROVE Knows(c, turf', table')
      OBVIOUS
    <3>1. SameHours(row, turf) /\ d = key
      BY <1>1, <1>2, <1>8 DEF AInv, CallsOK, Knows
    <3>2. \A h \in Hours : <<key, h>> \in SlotIds
      BY <2>1 DEF SlotIds
    <3>3. Filled(row, key, table')
      BY <1>3, <3>1, <3>2 DEF Filled
    <3> HIDE DEF c
    <3>4. QED
      BY <1>2, <2>2, <3>1, <3>3 DEF Knows
  <2>4. Reader(c)
    BY <2>1, <2>2 DEF Reader
  <2>5. QED
    BY <1>1, <1>5, <1>6, <1>7, <1>8, <2>2, <2>3, <2>4, CallMoves DEF Goto
<1>9. CASE key = Info /\ call[r].days = {d}
  BY <1>1, <1>5, <1>6, <1>7, <1>9, DoneKeeps
<1>10. CASE key = Info /\ call[r].days # {d}
  <2> DEFINE c == [call[r] EXCEPT !.days = @ \ {d}]
  <2>1. c \in Calls /\ c.at = "generate" /\ c.key = Info /\ c.page = call[r].page
    BY <1>2, <1>10 DEF Calls
  <2>2. SameAlways => Knows(c, turf', table')
    BY <1>2, <1>4, <2>1 DEF Knows
  <2>3. Reader(c)
    BY <2>1 DEF Reader
  <2>4. QED
    BY <1>1, <1>5, <1>6, <1>7, <1>10, <2>1, <2>2, <2>3, CallMoves
<1>11. QED
  BY <1>8, <1>9, <1>10

\* A slot that has a row is booked or freed, and held accordingly.
LEMMA SlotWritten ==
    ASSUME AInv, NEW s \in SlotIds, table[s] # "none",
           NEW to \in {"free", "booked"},
           table' = [table EXCEPT ![s] = to],
           held' = IF to = "booked" THEN held \cup {s} ELSE held \ {s},
           UNCHANGED <<turf, cache>>
    PROVE  DataOK' /\ Steady /\ (SameAlways => OpenOnly')
<1>1. \A x \in SlotIds : table'[x] = IF x = s THEN to ELSE table[x]
  BY DEF AInv, DataOK
<1>2. DataOK'
  <2>1. table' \in [SlotIds -> {"none", "free", "booked"}] /\ held' \in SUBSET SlotIds
    BY DEF AInv, DataOK
  <2>2. HeldStaysBooked'
    BY <1>1 DEF AInv, DataOK, HeldStaysBooked
  <2>3. QED
    BY <2>1, <2>2 DEF AInv, DataOK
<1>3. Steady
  BY <1>1 DEF Steady, SameHours
<1>4. SameAlways => OpenOnly'
  BY <1>1 DEF AInv, OpenOnly, OpenHours, EndHour
<1>5. QED
  BY <1>2, <1>3, <1>4

LEMMA BookKeeps ==
    ASSUME AInv, NEW r \in Requests, NEW s \in Wanted, Book(r, s)
    PROVE  AInv'
<1>1. s \in SlotIds /\ table[s] = "free"
  BY ConstantsOK DEF Book
<1>2. QED
  BY <1>1, SlotWritten, DropKeeps DEF Book

\* A held slot is booked, so it has a row to free.
LEMMA HeldHasRow ==
    ASSUME AInv, NEW s \in held
    PROVE  s \in SlotIds /\ table[s] # "none"
BY DEF AInv, DataOK, HeldStaysBooked

LEMMA ReleaseKeeps ==
    ASSUME AInv, NEW r \in Requests, NEW s \in Wanted, Release(r, s)
    PROVE  AInv'
<1>1. s \in SlotIds /\ table[s] # "none"
  BY HeldHasRow DEF Release
<1>2. QED
  BY <1>1, SlotWritten, DropKeeps DEF Release

LEMMA RefundKeeps ==
    ASSUME AInv, NEW s \in Wanted, Refund(s)
    PROVE  AInv'
<1>1. s \in SlotIds /\ table[s] # "none"
  BY HeldHasRow DEF Refund
<1>2. QED
  BY <1>1, SlotWritten, NoCallMoves DEF Refund

\* Another row for the turf: the hours stay, where they always do.
LEMMA RowWritten ==
    ASSUME AInv, NEW row \in Rows, turf' = row, SameAlways => SameHours(turf, row),
           UNCHANGED <<table, held, cache>>
    PROVE  DataOK' /\ Steady /\ (SameAlways => OpenOnly')
<1>1. DataOK'
  BY DEF AInv, DataOK, HeldStaysBooked
<1>2. Steady
  BY DEF Steady
<1>3. SameAlways => OpenOnly'
  <2> SUFFICES ASSUME SameAlways PROVE OpenOnly'
    OBVIOUS
  <2>1. SameHours(row, turf)
    BY DEF SameHours
  <2>2. OpenHours(turf') = OpenHours(turf)
    BY <2>1, SameOpenHours
  <2>3. QED
    BY <2>2 DEF AInv, OpenOnly
<1>4. QED
  BY <1>1, <1>2, <1>3

LEMMA WriteTurfKeeps ==
    ASSUME AInv, NEW r \in Requests, WriteTurf(r)
    PROVE  AInv'
<1>1. PICK row \in Rows : turf' = row /\ (SameAlways => SameHours(turf, row))
  BY DEF WriteTurf, Writable, SameAlways, SameHours
<1>2. QED
  BY <1>1, RowWritten, DropKeeps DEF WriteTurf

LEMMA WriteColumnKeeps ==
    ASSUME AInv, WriteColumn
    PROVE  AInv'
<1>1. PICK row \in Rows : turf' = row /\ SameHours(turf, row)
  BY DEF WriteColumn, SameHours
<1>2. QED
  BY <1>1, RowWritten, NoCallMoves DEF WriteColumn

\* Deleting pages.
LEMMA DropDatesKeeps ==
    ASSUME AInv, NEW r \in Requests, DropDates(r)
    PROVE  AInv'
<1>1. /\ cache' = [k \in Keys |-> cache'[k]]
      /\ \A k \in Keys : cache'[k] # NoPage => cache'[k] \in Pages
  BY DEF DropDates, AInv, DataOK
<1>2. QED
  BY <1>1, DataStays, DoneKeeps DEF DropDates

LEMMA DropInfoKeeps ==
    ASSUME AInv, NEW r \in Requests, DropInfo(r)
    PROVE  AInv'
<1>1. /\ cache' = [k \in Keys |-> cache'[k]]
      /\ \A k \in Keys : cache'[k] # NoPage => cache'[k] \in Pages
  BY DEF DropInfo, AInv, DataOK
<1>2. QED
  BY <1>1, DataStays, DoneKeeps DEF DropInfo

LEMMA ExpiresKeeps ==
    ASSUME AInv, NEW k \in Keys, Expires(k)
    PROVE  AInv'
<1>1. /\ cache' = [q \in Keys |-> cache'[q]]
      /\ \A q \in Keys : cache'[q] # NoPage => cache'[q] \in Pages
  BY DEF Expires, AInv, DataOK
<1>2. QED
  BY <1>1, DataStays, NoCallMoves DEF Expires

-----------------------------------------------------------------------------
(* The invariant                                                           *)

LEMMA AInitInv == Init => AInv
<1> SUFFICES ASSUME Init PROVE AInv
  OBVIOUS
<1>1. DataOK
  BY DEF Init, DataOK, HeldStaysBooked
<1>2. Idle \in Calls /\ Idle.at = "idle"
  <2>1. AnyRow \in Rows
    BY DEF AnyRow, Init
  <2>2. QED
    BY <2>1 DEF Idle, Calls, Steps, Pages, Keys
<1>3. CallsOK
  BY <1>2 DEF Init, CallsOK, Reader, Knows
<1>4. OpenOnly
  BY DEF Init, OpenOnly
<1>5. QED
  BY <1>1, <1>3, <1>4 DEF AInv

LEMMA AStepKeeps == AInv /\ [Next]_vars => AInv'
<1> SUFFICES ASSUME AInv, [Next]_vars PROVE AInv'
  OBVIOUS
<1>1. ASSUME NEW r \in Requests, Step(r) PROVE AInv'
  BY <1>1, GenerateKeeps, ReadTurfKeeps, ReadSlotsKeeps, ReadAgainKeeps, FillKeeps,
     DropDatesKeeps, DropInfoKeeps DEF Step
<1>2. ASSUME NEW r \in Requests, Stops(r) PROVE AInv'
  BY <1>2, NothingWritten, DoneKeeps DEF Stops
<1>3. ASSUME NEW r \in Requests, WriteTurf(r) PROVE AInv'
  BY <1>3, WriteTurfKeeps
<1>4. ASSUME NEW r \in Requests, NEW k \in Keys, Lookup(r, k) PROVE AInv'
  BY <1>4, LookupKeeps
<1>5. ASSUME NEW r \in Requests, NEW s \in Wanted, Book(r, s) \/ Release(r, s) PROVE AInv'
  BY <1>5, BookKeeps, ReleaseKeeps
<1>6. ASSUME NEW r \in Requests, NEW D \in {Dates} \cup {{d} : d \in Dates},
             GenerationReads(r, D)
      PROVE AInv'
  <2>1. D \in SUBSET Dates
    OBVIOUS
  <2>2. QED
    BY <1>6, <2>1, GenerationReadsKeeps
<1>7. ASSUME NEW k \in Keys, Expires(k) PROVE AInv'
  BY <1>7, ExpiresKeeps
<1>8. ASSUME NEW s \in Wanted, Refund(s) PROVE AInv'
  BY <1>8, RefundKeeps
<1>9. CASE WriteColumn
  BY <1>9, WriteColumnKeeps
<1>10. CASE UNCHANGED vars
  <2>1. UNCHANGED <<turf, table, held, cache, call>>
    BY <1>10 DEF vars
  <2>2. QED
    BY <2>1, NothingWritten, NoCallMoves
<1>11. QED
  BY <1>1, <1>2, <1>3, <1>4, <1>5, <1>6, <1>7, <1>8, <1>9, <1>10 DEF Next

\* Every reachable state satisfies the invariant.
THEOREM AInvHolds == Spec => []AInv
<1>1. QED
  BY AInitInv, AStepKeeps, PTL DEF Spec

-----------------------------------------------------------------------------
(* What it is for                                                          *)

\* Every variable keeps its type.
THEOREM ATypeCorrect == Spec => []TypeOK
<1>1. AInv => TypeOK
  BY DEF AInv, DataOK, CallsOK, TypeOK
<1>2. QED
  BY <1>1, AInvHolds, PTL

\* No generation, by whatever row and however many at once, frees a slot that a
\* booking holds (createMany with skipDuplicates).
THEOREM HeldStaysBookedHolds == Spec => []HeldStaysBooked
<1>1. AInv => HeldStaysBooked
  BY DEF AInv, DataOK
<1>2. QED
  BY <1>1, AInvHolds, PTL

\* While the opening hours stay the same, the answer that getAvailableSlots is
\* about to cache and return offers every open hour of its date, for any hours,
\* past midnight or not, and any generations that run at the same time.
THEOREM AnswerCompleteHolds == "hours" \notin Events => (Spec => []AnswerComplete)
<1> SUFFICES ASSUME "hours" \notin Events PROVE Spec => []AnswerComplete
  OBVIOUS
<1>1. AInv => AnswerComplete
  <2> SUFFICES ASSUME AInv, NEW r \in Requests, At(r, "fill"), call[r].key # Info
               PROVE \A h \in Hours :
                       <<call[r].key, h>> \in SlotsFor(call[r].page.turf, call[r].key) =>
                         \E x \in {"free", "booked"} : <<h, x>> \in call[r].page.slots
    BY DEF AnswerComplete
  <2>1. Knows(call[r], turf, table)
    BY DEF AInv, CallsOK, SameAlways
  <2>2. QED
    BY <2>1 DEF Knows, Shown, At
<1>2. QED
  BY <1>1, AInvHolds, PTL
=============================================================================
