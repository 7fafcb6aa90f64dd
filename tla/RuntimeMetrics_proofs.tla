------------------------ MODULE RuntimeMetrics_proofs ------------------------
(***************************************************************************)
(* Theorems about RuntimeMetrics, for any number of events, any lengths of *)
(* hour, day and life, and any interleaving of the processes that roll up, *)
(* re-roll, prune, age out and delete.  A watermark may go backwards and a *)
(* sweep may hold an old one, so what the proofs keep is a fact about all  *)
(* the marks anybody holds (Marks): whatever lies behind one of them is    *)
(* counted, or somebody owes it (Behind), or it came late (Foreseen).      *)
(***************************************************************************)
EXTENDS RuntimeMetrics, WellFoundedInduction, NaturalsInduction, TLAPS

USE TimeAssumption, EventsAssumption

(***************************************************************************)
(* Hours and days.                                                         *)
(***************************************************************************)
LEMMA Quotients ==
  ASSUME NEW a \in Nat, NEW n \in Nat \ {0}
  PROVE  a \div n \in Nat /\ (a \div n) * n <= a /\ a < ((a \div n) + 1) * n
<1>1. a = ((a \div n) * n) + (a % n) /\ a % n \in 0..n-1 /\ a \div n \in Nat
  OBVIOUS
<1>2. ((a \div n) + 1) * n = ((a \div n) * n) + n
  BY <1>1
<1>3. QED
  BY <1>1, <1>2

LEMMA Products ==
  ASSUME NEW p \in Nat, NEW q \in Nat, NEW n \in Nat \ {0}, p * n < q * n
  PROVE  p < q
<1>1. SUFFICES ASSUME q <= p
               PROVE  FALSE
  OBVIOUS
<1>2. PICK k \in Nat : p = q + k
  BY <1>1
<1>3. p * n = (q * n) + (k * n) /\ k * n \in Nat /\ q * n \in Nat
  BY <1>2
<1>4. QED
  BY <1>3

LEMMA QuotientsGrow ==
  ASSUME NEW a \in Nat, NEW b \in Nat, a <= b, NEW n \in Nat \ {0}
  PROVE  a \div n <= b \div n
<1> DEFINE p == a \div n
           q == b \div n
<1>1. p \in Nat /\ q \in Nat /\ p * n <= a /\ b < (q + 1) * n
  BY Quotients
<1>2. p * n \in Nat /\ (q + 1) * n \in Nat
  BY <1>1
<1> HIDE DEF p, q
<1>3. p < q + 1
  BY <1>1, <1>2, Products
<1>4. QED
  BY <1>1, <1>3 DEF p, q

LEMMA HourFacts ==
  ASSUME NEW t \in Times
  PROVE  HourOf(t) \in Hours /\ HourOf(t) \in Nat /\ HourOf(t) * HourLen <= t
<1>1. t \in Nat /\ t <= MaxTime
  BY DEF Times
<1>2. QED
  BY <1>1, Quotients, QuotientsGrow DEF HourOf, Hours

\* What lies before the hour of a mark lies in an hour before it.
LEMMA BeforeMark ==
  ASSUME NEW t \in Times, NEW w \in Nat, t < w * HourLen
  PROVE  HourOf(t) < w
<1>1. HourOf(t) \in Nat /\ HourOf(t) * HourLen <= t
  BY HourFacts
<1>2. HourOf(t) * HourLen \in Nat /\ w * HourLen \in Nat /\ t \in Nat
  BY <1>1 DEF Times
<1>3. HourOf(t) * HourLen < w * HourLen
  BY <1>1, <1>2
<1>4. QED
  BY <1>1, <1>3, Products

LEMMA HoursGrow ==
  ASSUME NEW s \in Times, NEW t \in Times, s <= t
  PROVE  HourOf(s) <= HourOf(t)
BY QuotientsGrow DEF HourOf, Times

\* A day starts no later than its hours.
LEMMA DayFacts ==
  ASSUME NEW h \in Nat
  PROVE  DayOf(h) \in Nat /\ DayStart(DayOf(h)) <= h * HourLen /\ DayStart(DayOf(h)) \in Int
<1> DEFINE q == DayOf(h)
<1>1. q \in Nat /\ q * DayLen <= h /\ q * DayLen \in Nat
  BY Quotients DEF DayOf
<1> HIDE DEF q
<1>2. PICK k \in Nat : h = (q * DayLen) + k
  BY <1>1
<1>3. h * HourLen = ((q * DayLen) * HourLen) + (k * HourLen)
  BY <1>1, <1>2
<1>4. k * HourLen \in Nat /\ (q * DayLen) * HourLen \in Nat
  BY <1>1, <1>2
<1>5. QED
  BY <1>1, <1>3, <1>4 DEF DayStart, q

LEMMA DaysGrow ==
  ASSUME NEW g \in Nat, NEW h \in Nat, g <= h
  PROVE  DayOf(g) <= DayOf(h)
BY QuotientsGrow DEF DayOf

\* Hours, if there are any, have a first and a last one.
LEMMA Ends ==
  ASSUME NEW S \in SUBSET Hours, S # {}
  PROVE  /\ \E h \in S : \A x \in S : h <= x
         /\ \E h \in S : \A x \in S : x <= h
<1> DEFINE less == {p \in Nat \X Nat : p[1] < p[2]}
           top == MaxTime \div HourLen
           T == {n \in Nat : \E h \in S : n = top - h}
<1>1. top \in Nat /\ \A h \in S : h \in Nat /\ h <= top
  BY Quotients DEF Hours
<1>2. less = OpToRel(<, Nat)
  BY DEF OpToRel
<1>3. IsWellFoundedOn(less, Nat)
  BY <1>2, NatLessThanWellFounded
<1>4. \A a, b \in Nat : <<a, b>> \in less <=> a < b
  OBVIOUS
<1>5. S \subseteq Nat /\ T \subseteq Nat /\ T # {}
  <2>1. PICK h \in S : TRUE
    OBVIOUS
  <2>2. top - h \in T
    BY <1>1, <2>1
  <2>3. QED
    BY <1>1, <2>2
<1> HIDE DEF less, top
<1>6. \E h \in S : \A x \in S : h <= x
  <2>1. PICK h \in S : \A y \in S : ~(<<y, h>> \in less)
    BY <1>3, <1>5, WFMin
  <2>2. ASSUME NEW x \in S
        PROVE  h <= x
    <3>1. <<x, h>> \notin less /\ x \in Nat /\ h \in Nat
      BY <1>5, <2>1
    <3>2. ~(x < h)
      BY <1>4, <3>1
    <3>3. QED
      BY <3>1, <3>2
  <2>3. QED
    BY <2>2
<1>7. \E h \in S : \A x \in S : x <= h
  <2> HIDE DEF T
  <2>1. PICK m \in T : \A y \in T : ~(<<y, m>> \in less)
    BY <1>3, <1>5, WFMin
  <2>2. ASSUME NEW y \in T
        PROVE  m <= y
    <3>1. <<y, m>> \notin less /\ y \in Nat /\ m \in Nat
      BY <1>5, <2>1
    <3>2. ~(y < m)
      BY <1>4, <3>1
    <3>3. QED
      BY <3>1, <3>2
  <2> USE DEF T
  <2>3. PICK h \in S : m = top - h
    BY <2>1
  <2>4. ASSUME NEW x \in S
        PROVE  x <= h
    <3>1. top - x \in T
      BY <1>1
    <3>2. m <= top - x
      BY <2>2, <3>1
    <3>3. QED
      BY <1>1, <2>3, <3>2
  <2>5. QED
    BY <2>3, <2>4
<1>8. QED
  BY <1>6, <1>7

(***************************************************************************)
(* The invariant.                                                          *)
(***************************************************************************)
\* The marks in force: the watermark, and what an actor has read of it.
Marks == {wm} \cup {op[p].wm : p \in Actors}

\* Somebody is still to re-roll the event's hour: the gateway those of its own batch, the
\* launcher those of its own run.
Owing(e) == IF e \in ran THEN op["run"].pc \in {"idle", "reroll"} ELSE at[e] \in Span(batch)

In(e) == e \in hour[EventHour(e)]

Behind ==
  \A w \in Marks : \A e \in Rows :
    EventHour(e) < w => In(e) \/ PastLife(e) \/ e \in unrolled \/ Owing(e)

Foreseen ==
  \A w \in Marks : \A e \in Rows :
    EventHour(e) < w => In(e) \/ PastLife(e) \/ e \in unrolled \/ e \in late

\* A clock that was read is not ahead, and a row has the time of an event.
Dated ==
  /\ \A p \in Actors : op[p].now <= now
  /\ \A e \in Rows : at[e] \in Times

Uncounted(e) ==
  /\ \A h \in Hours : e \notin hour[h] \cup hourBy[h]
  /\ \A d \in Days : e \notin day[d] \cup dayBy[d]

\* What is left of a deletion.  Nothing is erased before the first, and what was to be erased
\* has no row; once the buckets are gone they stay clean.
Deletion ==
  /\ erasing.tables \in {<<>>, <<"buckets", "sessions">>, <<"sessions">>, <<"events", "buckets">>,
                         <<"buckets">>}
  /\ erasing.tables = <<>> => erasing = Nothing
  /\ erasing.tables \in {<<"events", "buckets">>, <<"buckets">>} => session = "deleted"
  /\ erasing # Nothing => \A e \in erasing.asked : row[e] \in {"erased", "dropped"}
  /\ session = "live" /\ erasing = Nothing => \A e \in Events : row[e] # "erased"
  /\ erasing.tables \in {<<>>, <<"sessions">>} => \A e \in Events : row[e] = "erased" => Uncounted(e)

IInv ==
  /\ TypeOK /\ Dated /\ Behind /\ Foreseen /\ DaysAddUp /\ AttributedCounted /\ Deletion

BucketTypes ==
  /\ hour \in [Hours -> SUBSET Events] /\ hourBy \in [Hours -> SUBSET Events]
  /\ day \in [Days -> SUBSET Events] /\ dayBy \in [Days -> SUBSET Events]

LEMMA RowHour ==
  ASSUME Dated, NEW e \in Rows
  PROVE  at[e] \in Times /\ EventHour(e) \in Hours /\ EventHour(e) \in Nat
BY HourFacts DEF Dated, EventHour

(***************************************************************************)
(* What a recomputation does to the buckets.                               *)
(***************************************************************************)
\* Hours in its range hold exactly the rows of theirs, the others keep what they had.
LEMMA RecomputedHours ==
  ASSUME NEW from, NEW to, Recompute(from, to), NEW h \in Hours
  PROVE  /\ from <= h /\ h < to =>
              /\ hour'[h] = {e \in Rows : EventHour(e) = h}
              /\ hourBy'[h] = {e \in Rows \cap known : EventHour(e) = h}
         /\ ~(from <= h /\ h < to) => hour'[h] = hour[h] /\ hourBy'[h] = hourBy[h]
BY DEF Recompute

LEMMA RecomputedTypes ==
  ASSUME BucketTypes, NEW from, NEW to, Recompute(from, to)
  PROVE  BucketTypes'
<1>1. Rows \subseteq Events
  BY DEF Rows
<1>2. hour' \in [Hours -> SUBSET Events] /\ hourBy' \in [Hours -> SUBSET Events]
  BY <1>1 DEF Recompute, BucketTypes
<1>3. ASSUME NEW f \in [Hours -> SUBSET Events], NEW d \in Days
      PROVE  DaySums(f, from)[d] \subseteq Events
  BY <1>3 DEF DaySums
<1>4. day' \in [Days -> SUBSET Events] /\ dayBy' \in [Days -> SUBSET Events]
  BY <1>2, <1>3 DEF Recompute, BucketTypes
<1>5. QED
  BY <1>2, <1>4 DEF BucketTypes

\* A row that is counted stays counted, and one in the range is.
LEMMA RecomputedRows ==
  ASSUME Dated, NEW from \in Nat, NEW to \in Int, Recompute(from, to), NEW e \in Rows
  PROVE  LET h == EventHour(e)
         IN /\ e \in hour[h] \/ (from <= h /\ h < to) => e \in hour'[h]
            /\ e \in hourBy[h] \/ (e \in known /\ from <= h /\ h < to) =>
                 (e \in hourBy'[h] \/ e \notin known)
<1>1. EventHour(e) \in Hours
  BY RowHour
<1>2. QED
  BY <1>1, RecomputedHours

\* Nothing but rows comes into a bucket.
LEMMA RecomputedClean ==
  ASSUME BucketTypes, NEW from \in Nat, NEW to \in Int, Recompute(from, to),
         NEW e \in Events \ Rows, Uncounted(e)
  PROVE  Uncounted(e)'
<1>1. ASSUME NEW h \in Hours
      PROVE  e \notin hour'[h] /\ e \notin hourBy'[h]
  BY RecomputedHours DEF Uncounted
<1>2. ASSUME NEW d \in Days
      PROVE  e \notin DaySums(hour', from)[d] /\ e \notin DaySums(hourBy', from)[d]
  BY <1>1 DEF DaySums
<1>3. ASSUME NEW d \in Days
      PROVE  /\ day'[d] \in {day[d], DaySums(hour', from)[d]}
             /\ dayBy'[d] \in {dayBy[d], DaySums(hourBy', from)[d]}
  BY DEF Recompute
<1>4. ASSUME NEW d \in Days
      PROVE  e \notin day'[d] /\ e \notin dayBy'[d]
  BY <1>2, <1>3 DEF Uncounted
<1>5. QED
  BY <1>1, <1>4 DEF Uncounted

\* The days recomputed are sums; of the days before the range no hour changed.
LEMMA RecomputedDays ==
  ASSUME DaysAddUp, NEW from \in Nat, NEW to \in Int, Recompute(from, to), now' = now
  PROVE  DaysAddUp'
<1> DEFINE old(d) == DayStart(d) < now - BucketLife /\ day[d] = {} /\ dayBy[d] = {}
           of(d) == {h \in Hours : DayOf(h) = d}
           sum(f, d) == UNION {f[h] : h \in of(d)}
<1>1. \A d \in Days, f \in {hour, hour', hourBy, hourBy'} : DaySums(f, 0)[d] = sum(f, d) /\ DaySums(f, from)[d] = sum(f, d)
  BY DEF DaySums
<1>2. ASSUME NEW d \in Days
      PROVE  \/ day'[d] = sum(hour', d) /\ dayBy'[d] = sum(hourBy', d)
             \/ DayStart(d) < now - BucketLife /\ day'[d] = {} /\ dayBy'[d] = {}
  <2>1. CASE d >= DayOf(from)
    BY <1>1, <2>1 DEF Recompute
  <2>2. CASE ~(d >= DayOf(from))
    <3>1. day'[d] = day[d] /\ dayBy'[d] = dayBy[d]
      BY <2>2 DEF Recompute
    <3>2. ASSUME NEW h \in of(d)
          PROVE  hour'[h] = hour[h] /\ hourBy'[h] = hourBy[h]
      <4>1. h \in Nat /\ h \in Hours /\ DayOf(h) = d
        BY DEF Hours
      <4>2. ~(from <= h)
        BY <2>2, <4>1, DaysGrow, DayFacts
      <4>3. QED
        BY <4>1, <4>2, RecomputedHours
    <3>3. sum(hour', d) = sum(hour, d) /\ sum(hourBy', d) = sum(hourBy, d)
      BY <3>2
    <3>4. (day[d] = sum(hour, d) /\ dayBy[d] = sum(hourBy, d)) \/ old(d)
      BY <1>1 DEF DaysAddUp
    <3>5. QED
      BY <3>1, <3>3, <3>4
  <2>3. QED
    BY <2>1, <2>2
<1>3. QED
  <2> HIDE DEF sum
  <2>1. QED
    BY <1>1, <1>2 DEF DaysAddUp, DaySums

\* A re-roll recomputes at least the hours of its span.
LEMMA Rerolled ==
  ASSUME NEW T \in SUBSET Times, T # {}, Reroll(T)
  PROVE  \E from \in Nat, to \in Int :
           Recompute(from, to) /\ \A t \in Span(T) : from <= HourOf(t) /\ HourOf(t) < to
<1> DEFINE hs == {HourOf(t) : t \in T}
           first == CHOOSE h \in hs : \A x \in hs : h <= x
           last == CHOOSE h \in hs : \A x \in hs : x <= h
<1>1. hs \in SUBSET Hours /\ hs # {}
  BY HourFacts
<1>2. (\E h \in hs : \A x \in hs : h <= x) /\ (\E h \in hs : \A x \in hs : x <= h)
  <2> HIDE DEF hs
  <2>1. QED
    BY <1>1, Ends
<1>3. first \in hs /\ last \in hs /\ \A x \in hs : first <= x /\ x <= last
  <2> HIDE DEF hs
  <2>1. QED
    BY <1>2
<1>4. Recompute(first, last + 1)
  BY DEF Reroll
<1>5. hs \subseteq Nat
  BY HourFacts
<1>6. ASSUME NEW t \in Span(T)
      PROVE  first <= HourOf(t) /\ HourOf(t) < last + 1
  <2>1. PICK a \in T, b \in T : a <= t /\ t <= b
    BY DEF Span
  <2>2. t \in Times /\ a \in Times /\ b \in Times
    BY DEF Span
  <2>3. HourOf(a) <= HourOf(t) /\ HourOf(t) <= HourOf(b) /\ HourOf(t) \in Nat
    BY <2>1, <2>2, HoursGrow, HourFacts
  <2>4. HourOf(a) \in hs /\ HourOf(b) \in hs
    OBVIOUS
  <2> HIDE DEF hs, first, last
  <2>5. first <= HourOf(a) /\ HourOf(b) <= last
    BY <1>3, <2>4
  <2>6. first \in Nat /\ last \in Nat /\ HourOf(a) \in Nat /\ HourOf(b) \in Nat
    BY <1>3, <1>5, <2>4
  <2>7. QED
    BY <2>3, <2>5, <2>6
<1>7. first \in Nat /\ last + 1 \in Int
  <2> HIDE DEF hs, first, last
  <2>1. QED
    BY <1>3, <1>5
<1>8. QED
  BY <1>4, <1>6, <1>7

(***************************************************************************)
(* What any step does to the buckets and the rows.                         *)
(***************************************************************************)
\* No row loses its place in a bucket but to the age of the bucket or to a deletion, which
\* leaves it unrolled.
BucketsKeep ==
  \A e \in Rows :
    /\ In(e) => e \in hour'[EventHour(e)] \/ PastLife(e) \/ e \in unrolled'
    /\ e \in hourBy[EventHour(e)] =>
         e \in hourBy'[EventHour(e)] \/ e \notin known \/ PastLife(e) \/ e \in unrolled'

\* No event without a row comes into one.
BucketsClean == \A e \in Events \ Rows : Uncounted(e) => Uncounted(e)'

BucketStep == BucketTypes' /\ BucketsKeep /\ BucketsClean /\ DaysAddUp'

LEMMA SameBuckets ==
  ASSUME IInv, UNCHANGED buckets, now <= now', now' \in Times
  PROVE  BucketStep
<1> USE DEF buckets
<1>1. BucketTypes' /\ BucketsKeep /\ BucketsClean
  BY DEF IInv, TypeOK, BucketTypes, BucketsKeep, BucketsClean, In, Uncounted
<1>2. DaysAddUp'
  <2>1. ASSUME NEW d \in Days
        PROVE  DayStart(d) < now - BucketLife => DayStart(d) < now' - BucketLife
    <3>1. now \in Int /\ now' \in Int /\ DayStart(d) \in Int
      BY Quotients DEF IInv, TypeOK, Times, DayStart, Days
    <3>2. QED
      BY <3>1
  <2>2. DaySums(hour, 0)' = DaySums(hour, 0) /\ DaySums(hourBy, 0)' = DaySums(hourBy, 0)
    BY DEF DaySums
  <2>3. QED
    BY <2>1, <2>2 DEF IInv, DaysAddUp, DayStart
<1>3. QED
  BY <1>1, <1>2 DEF BucketStep

LEMMA NewBuckets ==
  ASSUME IInv, NEW from \in Nat, NEW to \in Int, Recompute(from, to), now' = now
  PROVE  BucketStep
<1>1. BucketTypes /\ Dated /\ DaysAddUp
  BY DEF IInv, TypeOK, BucketTypes
<1>2. BucketTypes' /\ DaysAddUp'
  BY <1>1, RecomputedTypes, RecomputedDays
<1>3. BucketsKeep
  BY <1>1, RecomputedRows DEF BucketsKeep, In
<1>4. BucketsClean
  BY <1>1, RecomputedClean DEF BucketsClean
<1>5. QED
  BY <1>2, <1>3, <1>4 DEF BucketStep

LEMMA RerolledBuckets ==
  ASSUME IInv, NEW T \in SUBSET Times, Reroll(T), now' = now
  PROVE  BucketStep
<1>1. CASE T = {}
  <2>1. now \in Times /\ now \in Int
    BY DEF IInv, TypeOK, Times
  <2>2. QED
    BY <1>1, <2>1, SameBuckets DEF Reroll
<1>2. CASE T # {}
  BY <1>2, Rerolled, NewBuckets
<1>3. QED
  BY <1>1, <1>2

\* A day is aged out no later than the first of its hours.
LEMMA AgedBuckets ==
  ASSUME IInv, NEW p \in Actors, AgeBuckets(p)
  PROVE  BucketStep
<1> DEFINE cut == op[p].now - BucketLife
<1>1. now' = now /\ unrolled' = unrolled /\ known' = known /\ at' = at /\ row' = row
  BY DEF AgeBuckets
<1>2. now \in Int /\ op[p].now \in Int /\ op[p].now <= now /\ cut \in Int /\ cut <= now - BucketLife
  BY DEF IInv, TypeOK, Dated, Times
<1>3. ASSUME NEW h \in Hours
      PROVE  /\ h \in Nat /\ h * HourLen \in Int
             /\ h * HourLen < cut => hour'[h] = {} /\ hourBy'[h] = {}
             /\ ~(h * HourLen < cut) => hour'[h] = hour[h] /\ hourBy'[h] = hourBy[h]
  <2>1. h \in Nat
    BY DEF Hours
  <2>2. QED
    BY <2>1 DEF AgeBuckets, Aged
<1>4. ASSUME NEW d \in Days
      PROVE  /\ DayStart(d) \in Int
             /\ DayStart(d) < cut => day'[d] = {} /\ dayBy'[d] = {}
             /\ ~(DayStart(d) < cut) => day'[d] = day[d] /\ dayBy'[d] = dayBy[d]
  <2>1. d \in Nat
    BY DEF Days
  <2>2. DayStart(d) \in Int
    BY <2>1 DEF DayStart
  <2>3. QED
    BY <2>2 DEF AgeBuckets, Aged
<1> HIDE DEF cut
<1>5. BucketTypes'
  <2>1. BucketTypes
    BY DEF IInv, TypeOK, BucketTypes
  <2>2. /\ hour' = [h \in Hours |-> hour'[h]] /\ hourBy' = [h \in Hours |-> hourBy'[h]]
        /\ day' = [d \in Days |-> day'[d]] /\ dayBy' = [d \in Days |-> dayBy'[d]]
    BY DEF AgeBuckets
  <2>3. \A h \in Hours : hour'[h] \in SUBSET Events /\ hourBy'[h] \in SUBSET Events
    BY <1>3, <2>1 DEF BucketTypes
  <2>4. \A d \in Days : day'[d] \in SUBSET Events /\ dayBy'[d] \in SUBSET Events
    BY <1>4, <2>1 DEF BucketTypes
  <2>5. QED
    BY <2>2, <2>3, <2>4 DEF BucketTypes
<1>6. BucketsKeep
  <2>1. ASSUME NEW e \in Rows, ~PastLife(e)
        PROVE  hour'[EventHour(e)] = hour[EventHour(e)] /\ hourBy'[EventHour(e)] = hourBy[EventHour(e)]
    <3>1. EventHour(e) \in Hours
      BY RowHour DEF IInv
    <3>2. ~(EventHour(e) * HourLen < cut)
      BY <1>2, <1>3, <2>1, <3>1 DEF PastLife
    <3>3. QED
      BY <1>3, <3>1, <3>2
  <2>2. QED
    BY <2>1 DEF BucketsKeep, In
<1>7. BucketsClean
  BY <1>3, <1>4 DEF BucketsClean, Uncounted
<1>8. DaysAddUp'
  <2>1. ASSUME NEW d \in Days, ~(DayStart(d) < cut)
        PROVE  DaySums(hour', 0)[d] = DaySums(hour, 0)[d] /\ DaySums(hourBy', 0)[d] = DaySums(hourBy, 0)[d]
    <3>1. ASSUME NEW h \in Hours, DayOf(h) = d
          PROVE  hour'[h] = hour[h] /\ hourBy'[h] = hourBy[h]
      <4>1. h \in Nat /\ h * HourLen \in Int /\ DayStart(d) <= h * HourLen
        BY <1>3, <3>1, DayFacts
      <4>2. ~(h * HourLen < cut)
        BY <1>2, <1>4, <2>1, <4>1
      <4>3. QED
        BY <1>3, <4>2
    <3>2. QED
      BY <3>1 DEF DaySums
  <2>2. ASSUME NEW d \in Days, DayStart(d) < cut
        PROVE  DayStart(d) < now - BucketLife
    BY <1>2, <1>4, <2>2
  <2>3. QED
    BY <1>1, <1>4, <2>1, <2>2 DEF IInv, DaysAddUp
<1>9. QED
  BY <1>5, <1>6, <1>7, <1>8 DEF BucketStep

\* Cleared buckets add up, and every row is unrolled.
LEMMA ClearedBuckets ==
  ASSUME IInv, now' = now, unrolled' = unrolled \cup Rows,
         hour' = [h \in Hours |-> {}], hourBy' = hour', day' = [d \in Days |-> {}], dayBy' = day'
  PROVE  BucketStep /\ \A e : Uncounted(e)'
<1>1. BucketTypes' /\ \A e : Uncounted(e)'
  BY DEF BucketTypes, Uncounted
<1>2. BucketsKeep /\ BucketsClean
  BY <1>1 DEF BucketsKeep, BucketsClean
<1>3. \A d \in Days : DaySums(hour', 0)[d] = {} /\ DaySums(hourBy', 0)[d] = {}
  BY DEF DaySums
<1>4. DaysAddUp'
  BY <1>3 DEF DaysAddUp
<1>5. QED
  BY <1>1, <1>2, <1>4 DEF BucketStep

LEMMA EraseSteps ==
  ASSUME IInv, NEW tables, NEW asked, EraseTable(tables, asked)
  PROVE  /\ BucketStep
         /\ Head(tables) = "buckets" => \A e : Uncounted(e)'
<1>1. now' = now /\ now \in Times /\ now \in Int
  BY DEF EraseTable, IInv, TypeOK, Times
<1>2. CASE Head(tables) = "buckets"
  <2>1. /\ hour' = [h \in Hours |-> {}] /\ hourBy' = hour'
        /\ day' = [d \in Days |-> {}] /\ dayBy' = day' /\ unrolled' = unrolled \cup Rows
    BY <1>2 DEF EraseTable
  <2>2. QED
    BY <1>1, <2>1, ClearedBuckets
<1>3. CASE Head(tables) # "buckets"
  BY <1>1, <1>3, SameBuckets DEF EraseTable
<1>4. QED
  BY <1>2, <1>3

\* Every time the code reads a hour from, the mark it starts at is not negative.
LEMMA RollStep ==
  ASSUME IInv, NEW p \in Actors, RollUp(p)
  PROVE  \E from \in Nat, to \in Int :
           /\ Recompute(from, to) /\ to = HourOf(op[p].now) /\ to \in Hours /\ wm' = to
           /\ \A h \in Nat : h < from => h < op[p].wm
<1>1. op[p].now \in Times /\ op[p].wm \in Hours \cup {Never}
  BY DEF IInv, TypeOK
<1>2. HourOf(op[p].now) \in Hours /\ HourOf(op[p].now) \in Int
  BY <1>1, HourFacts DEF Hours
<1>3. CASE op[p].wm = Never
  BY <1>2, <1>3 DEF RollUp
<1>4. CASE op[p].wm # Never
  <2>1. op[p].wm \in Nat
    BY <1>1, <1>4 DEF Hours
  <2>2. QED
    BY <1>2, <1>4, <2>1 DEF RollUp
<1>5. QED
  BY <1>3, <1>4

LEMMA RunTimes ==
  ASSUME IInv
  PROVE  /\ batch \in SUBSET Times
         /\ {at[e] : e \in Rows \cap ran} \in SUBSET Times
BY DEF IInv, TypeOK, Dated

LEMMA BucketNext ==
  ASSUME IInv, Next
  PROVE  BucketStep
<1>1. now \in Times /\ now \in Int /\ MaxTime \in Int
  BY DEF IInv, TypeOK, Times
<1>2. CASE Tick
  BY <1>1, <1>2, SameBuckets DEF Tick, Times
<1>3. ASSUME NEW e \in Events, PersistExchange(e) \/ WriteEvent(e)
      PROVE  BucketStep
  BY <1>1, <1>3, SameBuckets DEF PersistExchange, WriteEvent
<1>4. ASSUME NEW p \in Actors, Maintain(p)
      PROVE  BucketStep
  <2>1. CASE RollRead(p) \/ RollFails(p) \/ SweepRead(p) \/ Prune(p)
    BY <1>1, <2>1, SameBuckets DEF RollRead, RollFails, SweepRead, Prune
  <2>2. CASE RollUp(p)
    <3>1. now' = now
      BY <2>2 DEF RollUp
    <3>2. QED
      BY <2>2, <3>1, RollStep, NewBuckets
  <2>3. CASE AgeBuckets(p)
    BY <2>3, AgedBuckets
  <2>4. QED
    BY <1>4, <2>1, <2>2, <2>3 DEF Maintain
<1>5. CASE RerollFails \/ GatewayDies \/ Attribute \/ FinalizeUnrolled
  BY <1>1, <1>5, SameBuckets DEF RerollFails, GatewayDies, Attribute, FinalizeUnrolled
<1>6. CASE RerollBatch
  BY <1>6, RerolledBuckets, RunTimes DEF RerollBatch
<1>7. CASE Finalize
  BY <1>7, RerolledBuckets, RunTimes DEF Finalize, RerollSession
<1>8. CASE EraseBegins \/ EraseNext
  BY <1>8, EraseSteps DEF EraseBegins, EraseNext
<1>9. QED
  BY <1>2, <1>3, <1>4, <1>5, <1>6, <1>7, <1>8 DEF Next

\* Of rows and records: a row comes from nowhere but a recording, keeps its time, and what
\* was late or unrolled stays so.
RowStep ==
  /\ now <= now' /\ now' \in Times /\ ran' = ran
  /\ unrolled \subseteq unrolled' /\ unrolled' \subseteq Events
  /\ late \subseteq late' /\ late' \subseteq Events
  /\ known \subseteq known' /\ known' \subseteq Events
  /\ row' \in [Events -> {"none", "present", "pruned", "erased", "dropped"}]
  /\ at' \in [Events -> Times \cup {Never}]
  /\ \A e \in Rows : at'[e] = at[e]
  /\ \A e \in Rows' \ Rows : at'[e] \in Times /\ row[e] = "none"

LEMMA RecordedFacts ==
  ASSUME IInv, NEW e \in Events, NEW lag, Recorded(e, lag)
  PROVE  /\ row[e] = "none" /\ Rows' = Rows \cup {e} /\ at'[e] \in Times
         /\ row' \in [Events -> {"none", "present", "pruned", "erased", "dropped"}]
         /\ at' \in [Events -> Times \cup {Never}]
         /\ \A f \in Events : f # e => at'[f] = at[f] /\ row'[f] = row[f]
         /\ late \subseteq late' /\ late' \subseteq Events
         /\ \A w \in Marks : EventHour(e)' < w => e \in late'
<1>1. PICK t \in Times : at' = [at EXCEPT ![e] = t]
  BY DEF Recorded
<1>2. row[e] = "none" /\ row' = [row EXCEPT ![e] = "present"]
  BY DEF Recorded
<1>3. row \in [Events -> {"none", "present", "pruned", "erased", "dropped"}]
      /\ at \in [Events -> Times \cup {Never}] /\ late \subseteq Events
  BY DEF IInv, TypeOK
<1>4. Rows' = Rows \cup {e} /\ at'[e] = t
  BY <1>1, <1>2, <1>3 DEF Rows
<1>5. EventHour(e)' = HourOf(at'[e])
  BY DEF EventHour, HourOf
<1>6. \A w \in Marks : EventHour(e)' < w => e \in late'
  BY <1>5 DEF Marks, Recorded
<1>7. QED
  BY <1>1, <1>2, <1>3, <1>4, <1>6 DEF Recorded

LEMMA RowNext ==
  ASSUME IInv, Next
  PROVE  RowStep
<1> DEFINE States == {"none", "present", "pruned", "erased", "dropped"}
<1>1. /\ now \in Times /\ now <= now /\ row \in [Events -> States]
      /\ at \in [Events -> Times \cup {Never}]
      /\ unrolled \subseteq Events /\ late \subseteq Events /\ known \subseteq Events
      /\ Rows \subseteq Events
  BY DEF IInv, TypeOK, Times, Rows
<1>2. CASE Tick
  <2>1. now' \in Times /\ now <= now'
    BY <1>1, <1>2 DEF Tick, Times
  <2>2. QED
    BY <1>1, <1>2, <2>1 DEF Tick, RowStep, Rows
<1>3. ASSUME NEW e \in Events, PersistExchange(e) \/ WriteEvent(e)
      PROVE  RowStep
  <2>1. PICK lag : Recorded(e, lag)
    BY <1>3 DEF PersistExchange, WriteEvent
  <2>2. UNCHANGED <<now, ran, unrolled>> /\ known \subseteq known' /\ known' \subseteq Events
    BY <1>1, <1>3 DEF PersistExchange, WriteEvent
  <2>3. \A f \in Rows : f # e /\ f \in Events
    BY <2>1, RecordedFacts DEF Rows
  <2>4. QED
    BY <1>1, <2>1, <2>2, <2>3, RecordedFacts DEF RowStep
<1>4. ASSUME NEW p \in Actors, Maintain(p)
      PROVE  RowStep
  <2>1. UNCHANGED <<ran, now, at, known, unrolled, late>>
    BY <1>4 DEF Maintain, RollRead, RollUp, RollFails, SweepRead, Prune, AgeBuckets
  <2>2. row' \in [Events -> States] /\ Rows' \subseteq Rows
    <3>1. CASE Prune(p)
      BY <1>1, <3>1 DEF Prune, Rows
    <3>2. CASE ~Prune(p)
      BY <1>1, <1>4, <3>2 DEF Maintain, RollRead, RollUp, RollFails, SweepRead, AgeBuckets, Rows
    <3>3. QED
      BY <3>1, <3>2
  <2>3. QED
    BY <1>1, <2>1, <2>2 DEF RowStep
<1>5. CASE RerollBatch \/ RerollFails \/ GatewayDies
  <2>1. UNCHANGED <<ran, now, at, row, known, late>> /\ unrolled' \in {unrolled, unrolled \cup Lost}
    BY <1>5 DEF RerollBatch, RerollFails, GatewayDies
  <2>2. Lost \subseteq Events
    BY DEF Lost
  <2>3. QED
    BY <1>1, <2>1, <2>2 DEF RowStep, Rows
<1>6. CASE Attribute \/ Finalize \/ FinalizeUnrolled
  BY <1>1, <1>6 DEF Attribute, Finalize, FinalizeUnrolled, RowStep, Rows
<1>7. ASSUME NEW tables, NEW asked, EraseTable(tables, asked)
      PROVE  RowStep
  <2>1. UNCHANGED <<ran, now, at, known, late>> /\ unrolled' \in {unrolled, unrolled \cup Rows}
    BY <1>7 DEF EraseTable
  <2>2. row' \in [Events -> States] /\ Rows' \subseteq Rows
    BY <1>1, <1>7 DEF EraseTable, Rows
  <2>3. QED
    BY <1>1, <2>1, <2>2 DEF RowStep
<1>8. QED
  BY <1>2, <1>3, <1>4, <1>5, <1>6, <1>7 DEF Next, EraseBegins, EraseNext

(***************************************************************************)
(* What lies behind a mark.                                                *)
(***************************************************************************)
\* A row that was accounted for at the start of a step is at its end: it is counted still,
\* its bucket is past its life, or it is unrolled.
LEMMA StaysCounted ==
  ASSUME IInv, BucketStep, RowStep, NEW e \in Rows
  PROVE  /\ EventHour(e)' = EventHour(e) /\ EventHour(e) \in Nat
         /\ PastLife(e) => PastLife(e)'
         /\ In(e) => In(e)' \/ PastLife(e)' \/ e \in unrolled'
<1>1. EventHour(e) \in Nat
  BY RowHour DEF IInv
<1>2. at'[e] = at[e] /\ e \in Events
  BY DEF RowStep, Rows
<1>3. EventHour(e)' = EventHour(e)
  BY <1>2 DEF EventHour, HourOf
<1>4. PastLife(e) => PastLife(e)'
  <2>1. EventHour(e) * HourLen \in Int /\ now \in Int /\ now' \in Int /\ now <= now'
    BY <1>1 DEF IInv, TypeOK, Times, RowStep
  <2>2. QED
    BY <1>3, <2>1 DEF PastLife
<1>5. QED
  BY <1>1, <1>3, <1>4 DEF BucketStep, BucketsKeep, In

LEMMA MarksKept ==
  ASSUME IInv, BucketStep, RowStep, Rows' \subseteq Rows,
         \A w \in Marks' : w \in Marks \cup {Never},
         \A e \in Rows' : Owing(e) => Owing(e)' \/ In(e)' \/ e \in unrolled'
  PROVE  Behind' /\ Foreseen'
<1>1. SUFFICES ASSUME NEW w \in Marks', NEW e \in Rows', EventHour(e)' < w
               PROVE  /\ In(e)' \/ PastLife(e)' \/ e \in unrolled' \/ Owing(e)'
                      /\ In(e)' \/ PastLife(e)' \/ e \in unrolled' \/ e \in late'
  BY DEF Behind, Foreseen
<1>2. e \in Rows
  OBVIOUS
<1>3. EventHour(e) \in Nat /\ EventHour(e) < w
  BY <1>1, <1>2, StaysCounted
<1>4. w \in Marks
  BY <1>3 DEF Never
<1>5. /\ In(e) \/ PastLife(e) \/ e \in unrolled \/ Owing(e)
      /\ In(e) \/ PastLife(e) \/ e \in unrolled \/ e \in late
  BY <1>2, <1>3, <1>4 DEF IInv, Behind, Foreseen
<1>6. unrolled \subseteq unrolled' /\ late \subseteq late'
  BY DEF RowStep
<1>7. QED
  BY <1>2, <1>5, <1>6, StaysCounted

\* An event recorded now is owed by whoever recorded it, and late if a mark is ahead of it.
LEMMA MarksRecord ==
  ASSUME IInv, BucketStep, RowStep, NEW e \in Events, PersistExchange(e) \/ WriteEvent(e)
  PROVE  Behind' /\ Foreseen'
<1>1. PICK lag : Recorded(e, lag)
  BY DEF PersistExchange, WriteEvent
<1>2. /\ Rows' = Rows \cup {e} /\ e \notin Rows
      /\ \A f \in Events : f # e => at'[f] = at[f]
      /\ \A w \in Marks : EventHour(e)' < w => e \in late'
  BY <1>1, RecordedFacts DEF Rows
<1>3. wm' = wm /\ op' = op /\ ran' = ran /\ Marks' = Marks /\ batch \subseteq batch'
  BY DEF PersistExchange, WriteEvent, Marks
<1>4. Owing(e)'
  <2>1. CASE PersistExchange(e)
    <3>1. at'[e] \in batch' /\ at'[e] \in Times /\ e \notin ran
      BY <1>1, <2>1, RecordedFacts DEF PersistExchange
    <3>2. at'[e] <= at'[e]
      BY <3>1 DEF Times
    <3>3. QED
      BY <1>3, <3>1, <3>2 DEF Owing, Span
  <2>2. CASE WriteEvent(e)
    BY <1>3, <2>2 DEF WriteEvent, At, Owing
  <2>3. QED
    BY <2>1, <2>2
<1>5. ASSUME NEW f \in Rows, Owing(f)
      PROVE  Owing(f)'
  <2>1. at'[f] = at[f]
    BY DEF RowStep
  <2>2. QED
    BY <1>3, <1>5, <2>1 DEF Owing, Span
<1>6. SUFFICES ASSUME NEW w \in Marks, NEW f \in Rows, EventHour(f)' < w
               PROVE  /\ In(f)' \/ PastLife(f)' \/ f \in unrolled' \/ Owing(f)'
                      /\ In(f)' \/ PastLife(f)' \/ f \in unrolled' \/ f \in late'
  BY <1>2, <1>3, <1>4 DEF Behind, Foreseen
<1>7. /\ In(f) \/ PastLife(f) \/ f \in unrolled \/ Owing(f)
      /\ In(f) \/ PastLife(f) \/ f \in unrolled \/ f \in late
  BY <1>6, StaysCounted DEF IInv, Behind, Foreseen
<1>8. unrolled \subseteq unrolled' /\ late \subseteq late'
  BY DEF RowStep
<1>9. QED
  BY <1>5, <1>7, <1>8, StaysCounted

\* The steps of an actor never move it back to where it owes something.
LEMMA MarksMaintain ==
  ASSUME IInv, BucketStep, RowStep, NEW p \in Actors, Maintain(p)
  PROVE  Behind' /\ Foreseen'
<1>1. op \in [Actors -> [pc : Places, now : Times, wm : Hours \cup {Never}]] /\ "run" \in Actors
  BY DEF IInv, TypeOK, Actors
<1>2. UNCHANGED <<ran, at, batch>>
  BY DEF Maintain, RollRead, RollUp, RollFails, SweepRead, Prune, AgeBuckets
<1>3. Rows' \subseteq Rows
  <2>1. CASE Prune(p)
    BY <2>1 DEF Prune, Rows
  <2>2. CASE ~Prune(p)
    BY <2>2 DEF Maintain, RollRead, RollUp, RollFails, SweepRead, AgeBuckets, Rows
  <2>3. QED
    BY <2>1, <2>2
<1>4. op["run"].pc \in {"idle", "reroll"} => op'["run"].pc = op["run"].pc
  <2>1. CASE p = "run"
    BY <2>1 DEF Maintain, RollRead, RollUp, RollFails, SweepRead, Prune, AgeBuckets, At
  <2>2. CASE p # "run"
    BY <1>1, <2>2 DEF Maintain, RollRead, RollUp, RollFails, SweepRead, Prune, AgeBuckets, Goto
  <2>3. QED
    BY <2>1, <2>2
<1>5. \A e : Owing(e) => Owing(e)'
  BY <1>2, <1>4 DEF Owing, Span
<1>6. CASE ~RollUp(p)
  <2>1. wm' = wm
    BY <1>6 DEF Maintain, RollRead, RollFails, SweepRead, Prune, AgeBuckets
  <2>2. ASSUME NEW q \in Actors
        PROVE  op'[q].wm \in {op[q].wm, wm, Never}
    BY <1>1, <1>6 DEF Maintain, RollRead, RollFails, SweepRead, Prune, AgeBuckets, Goto
  <2>3. \A w \in Marks' : w \in Marks \cup {Never}
    BY <2>1, <2>2 DEF Marks
  <2>4. QED
    BY <1>3, <1>5, <2>3, MarksKept
<1>7. CASE RollUp(p)
  <2>1. PICK from \in Nat, to \in Int :
          /\ Recompute(from, to) /\ to \in Hours /\ wm' = to
          /\ \A h \in Nat : h < from => h < op[p].wm
    BY <1>7, RollStep
  <2>2. ASSUME NEW q \in Actors
        PROVE  op'[q].wm \in {op[q].wm, Never}
    BY <1>1, <1>7 DEF RollUp, Goto
  <2>3. \A w \in Marks' : w \in Marks \cup {Never, to}
    BY <2>1, <2>2 DEF Marks
  <2>4. SUFFICES ASSUME NEW w \in Marks', NEW e \in Rows, EventHour(e)' < w
                 PROVE  /\ In(e)' \/ PastLife(e)' \/ e \in unrolled' \/ Owing(e)'
                        /\ In(e)' \/ PastLife(e)' \/ e \in unrolled' \/ e \in late'
    BY <1>3 DEF Behind, Foreseen
  <2>5. EventHour(e) \in Nat /\ EventHour(e)' = EventHour(e) /\ EventHour(e) < w /\ w # Never
    BY <2>4, StaysCounted DEF Never
  <2>6. CASE \E v \in Marks : EventHour(e) < v
    <3>1. /\ In(e) \/ PastLife(e) \/ e \in unrolled \/ Owing(e)
          /\ In(e) \/ PastLife(e) \/ e \in unrolled \/ e \in late
      BY <2>6 DEF IInv, Behind, Foreseen
    <3>2. unrolled \subseteq unrolled' /\ late \subseteq late'
      BY DEF RowStep
    <3>3. QED
      BY <1>5, <3>1, <3>2, StaysCounted
  <2>7. CASE ~\E v \in Marks : EventHour(e) < v
    <3>1. EventHour(e) < to /\ ~(EventHour(e) < from)
      BY <2>1, <2>3, <2>5, <2>7 DEF Marks
    <3>2. e \in hour'[EventHour(e)]
      BY <2>1, <2>5, <3>1, RecomputedRows DEF IInv
    <3>3. In(e)'
      BY <2>5, <3>2 DEF In
    <3>4. QED
      BY <3>3
  <2>8. QED
    BY <2>6, <2>7
<1>8. QED
  BY <1>6, <1>7

\* Whoever takes what is owed off its list has re-rolled it, or says it will not be.
LEMMA MarksReroll ==
  ASSUME IInv, BucketStep, RowStep, Next,
         RerollBatch \/ RerollFails \/ GatewayDies \/ Attribute \/ Finalize \/ FinalizeUnrolled
  PROVE  Behind' /\ Foreseen'
<1>1. op \in [Actors -> [pc : Places, now : Times, wm : Hours \cup {Never}]] /\ "run" \in Actors
  BY DEF IInv, TypeOK, Actors
<1>2. UNCHANGED <<wm, ran, at, row>> /\ Rows' = Rows
  BY DEF RerollBatch, RerollFails, GatewayDies, Attribute, Finalize, FinalizeUnrolled, Rows
<1>3. ASSUME NEW q \in Actors
      PROVE  op'[q].wm \in {op[q].wm, Never}
  BY <1>1 DEF RerollBatch, RerollFails, GatewayDies, Attribute, Finalize, FinalizeUnrolled, Goto
<1>4. \A w \in Marks' : w \in Marks \cup {Never}
  BY <1>2, <1>3 DEF Marks
<1>5. ASSUME RerollBatch \/ RerollFails \/ GatewayDies
      PROVE  op'["run"] = op["run"] /\ batch' = {}
  BY <1>1, <1>5 DEF RerollBatch, RerollFails, GatewayDies, Goto
<1>6. ASSUME NEW e \in Rows, Owing(e)
      PROVE  Owing(e)' \/ In(e)' \/ e \in unrolled'
  <2>1. at[e] \in Times /\ EventHour(e)' = EventHour(e) /\ e \in Events /\ row[e] = "present"
    BY RowHour, StaysCounted DEF IInv, Rows
  <2>2. CASE e \in ran /\ (RerollBatch \/ RerollFails \/ GatewayDies)
    BY <1>2, <1>5, <1>6, <2>2 DEF Owing
  <2>3. CASE e \notin ran /\ RerollBatch
    <3>1. at[e] \in Span(batch) /\ batch # {} /\ Reroll(batch)
      BY <1>6, <2>3 DEF Owing, RerollBatch, Span
    <3>2. PICK from \in Nat, to \in Int :
            Recompute(from, to) /\ \A t \in Span(batch) : from <= HourOf(t) /\ HourOf(t) < to
      BY <3>1, Rerolled, RunTimes
    <3>3. e \in hour'[EventHour(e)]
      BY <3>1, <3>2, RecomputedRows DEF IInv, EventHour
    <3>4. QED
      BY <2>1, <3>3 DEF In
  <2>4. CASE e \notin ran /\ (RerollFails \/ GatewayDies)
    <3>1. e \in Lost
      BY <1>6, <2>1, <2>4 DEF Owing, Lost
    <3>2. QED
      BY <2>4, <3>1 DEF RerollFails, GatewayDies
  <2>5. CASE e \notin ran /\ (Attribute \/ Finalize \/ FinalizeUnrolled)
    BY <1>2, <1>6, <2>5 DEF Owing, Attribute, Finalize, FinalizeUnrolled
  <2>6. CASE e \in ran /\ Attribute
    BY <1>1, <1>2, <2>6 DEF Owing, Attribute, Goto
  <2>7. CASE e \in ran /\ Finalize
    <3> DEFINE T == {at[x] : x \in Rows \cap ran}
    <3>1. at[e] \in T /\ T \in SUBSET Times /\ Reroll(T)
      BY <2>7, RunTimes DEF Finalize, RerollSession
    <3>2. at[e] \in Span(T)
      <4>1. at[e] <= at[e]
        BY <2>1 DEF Times
      <4>2. QED
        BY <2>1, <3>1, <4>1 DEF Span
    <3> HIDE DEF T
    <3>3. PICK from \in Nat, to \in Int :
            Recompute(from, to) /\ \A t \in Span(T) : from <= HourOf(t) /\ HourOf(t) < to
      BY <3>1, Rerolled
    <3>4. e \in hour'[EventHour(e)]
      BY <3>2, <3>3, RecomputedRows DEF IInv, EventHour
    <3>5. QED
      BY <2>1, <3>4 DEF In
  <2>8. CASE e \in ran /\ FinalizeUnrolled
    BY <2>8 DEF FinalizeUnrolled
  <2>9. QED
    BY <2>2, <2>3, <2>4, <2>5, <2>6, <2>7, <2>8
<1>7. QED
  BY <1>2, <1>4, <1>6, MarksKept

LEMMA MarksOther ==
  ASSUME IInv, BucketStep, RowStep, Tick \/ EraseBegins \/ EraseNext
  PROVE  Behind' /\ Foreseen'
<1>1. UNCHANGED <<wm, op, ran, at, batch>>
  BY DEF Tick, EraseBegins, EraseNext, EraseTable
<1>2. Rows' \subseteq Rows
  BY DEF Tick, EraseBegins, EraseNext, EraseTable, Rows
<1>3. Marks' = Marks /\ \A e : Owing(e)' = Owing(e)
  BY <1>1 DEF Marks, Owing, Span
<1>4. QED
  BY <1>2, <1>3, MarksKept

LEMMA MarksNext ==
  ASSUME IInv, BucketStep, RowStep, Next
  PROVE  Behind' /\ Foreseen'
BY MarksRecord, MarksMaintain, MarksReroll, MarksOther DEF Next

(***************************************************************************)
(* The run's credentials.                                                  *)
(***************************************************************************)
LEMMA AttributedNext ==
  ASSUME IInv, BucketStep, RowStep, Next
  PROVE  AttributedCounted'
<1> DEFINE open == {"idle", "reroll"}
<1>1. op \in [Actors -> [pc : Places, now : Times, wm : Hours \cup {Never}]] /\ "run" \in Actors
  BY DEF IInv, TypeOK, Actors
<1>2. SUFFICES ASSUME op'["run"].pc \notin open, NEW e \in Rows', e \in ran', e \in known'
               PROVE  e \in hourBy'[EventHour(e)'] \/ PastLife(e)' \/ e \in unrolled'
  BY DEF AttributedCounted
<1>3. CASE op["run"].pc \in open
  <2>1. Finalize \/ FinalizeUnrolled
    <3>1. CASE Tick \/ EraseBegins \/ EraseNext \/ \E f \in Events : PersistExchange(f) \/ WriteEvent(f)
      BY <1>2, <1>3, <3>1 DEF Tick, EraseBegins, EraseNext, EraseTable, PersistExchange, WriteEvent
    <3>2. CASE RerollBatch \/ RerollFails \/ GatewayDies \/ Attribute
      BY <1>1, <1>2, <1>3, <3>2 DEF RerollBatch, RerollFails, GatewayDies, Attribute, Goto
    <3>3. ASSUME NEW p \in Actors, Maintain(p)
          PROVE  FALSE
      <4>1. CASE p = "run"
        BY <1>3, <3>3, <4>1 DEF Maintain, RollRead, RollUp, RollFails, SweepRead, Prune, AgeBuckets, At
      <4>2. CASE p # "run"
        BY <1>1, <1>2, <1>3, <3>3, <4>2 DEF Maintain, RollRead, RollUp, RollFails, SweepRead, Prune,
           AgeBuckets, Goto
      <4>3. QED
        BY <4>1, <4>2
    <3>4. QED
      BY <3>1, <3>2, <3>3 DEF Next
  <2>2. Rows' = Rows /\ ran' = ran /\ known' = known
    BY <2>1 DEF Finalize, FinalizeUnrolled, Rows
  <2>3. CASE FinalizeUnrolled
    BY <1>2, <2>2, <2>3 DEF FinalizeUnrolled
  <2>4. CASE Finalize
    <3> DEFINE T == {at[x] : x \in Rows \cap ran}
    <3>1. at[e] \in T /\ T \in SUBSET Times /\ Reroll(T) /\ at[e] \in Times
      BY <1>2, <2>2, <2>4, RunTimes DEF Finalize, RerollSession
    <3>2. at[e] \in Span(T)
      <4>1. at[e] <= at[e]
        BY <3>1 DEF Times
      <4>2. QED
        BY <3>1, <4>1 DEF Span
    <3> HIDE DEF T
    <3>3. PICK from \in Nat, to \in Int :
            Recompute(from, to) /\ \A t \in Span(T) : from <= HourOf(t) /\ HourOf(t) < to
      BY <3>1, Rerolled
    <3>4. e \in hourBy'[EventHour(e)]
      BY <1>2, <2>2, <3>2, <3>3, RecomputedRows DEF IInv, EventHour
    <3>5. QED
      BY <1>2, <2>2, <3>4, StaysCounted
  <2>5. QED
    BY <2>1, <2>3, <2>4
<1>4. CASE op["run"].pc \notin open
  <2>1. e \in Rows /\ e \in ran /\ e \in known
    <3>1. CASE \E f \in Events : PersistExchange(f) \/ WriteEvent(f)
      <4>1. PICK f \in Events : PersistExchange(f)
        BY <1>4, <3>1 DEF WriteEvent, At
      <4>2. PICK lag : Recorded(f, lag)
        BY <4>1 DEF PersistExchange
      <4>3. f \notin ran /\ ran' = ran /\ known' \subseteq known \cup {f}
        BY <4>1 DEF PersistExchange
      <4>4. QED
        BY <1>2, <4>2, <4>3, RecordedFacts
    <3>2. CASE Tick \/ EraseBegins \/ EraseNext
      BY <1>2, <3>2 DEF Tick, EraseBegins, EraseNext, EraseTable, Rows
    <3>3. CASE RerollBatch \/ RerollFails \/ GatewayDies \/ Finalize \/ FinalizeUnrolled
      BY <1>2, <3>3 DEF RerollBatch, RerollFails, GatewayDies, Finalize, FinalizeUnrolled, Rows
    <3>4. CASE Attribute
      BY <1>4, <3>4 DEF Attribute, At
    <3>5. ASSUME NEW p \in Actors, Maintain(p)
          PROVE  e \in Rows /\ e \in ran /\ e \in known
      <4>1. CASE Prune(p)
        BY <1>2, <4>1 DEF Prune, Rows
      <4>2. CASE ~Prune(p)
        BY <1>2, <3>5, <4>2 DEF Maintain, RollRead, RollUp, RollFails, SweepRead, AgeBuckets, Rows
      <4>3. QED
        BY <4>1, <4>2
    <3>6. QED
      BY <3>1, <3>2, <3>3, <3>4, <3>5 DEF Next
  <2>2. op["run"].pc \in {"read", "roll", "sweep", "prune", "age", "finished"}
    BY <1>1, <1>4 DEF Places
  <2>3. e \in hourBy[EventHour(e)] \/ PastLife(e) \/ e \in unrolled
    BY <2>1, <2>2 DEF IInv, AttributedCounted
  <2>4. unrolled \subseteq unrolled'
    BY DEF RowStep
  <2>5. QED
    BY <2>1, <2>3, <2>4, StaysCounted DEF BucketStep, BucketsKeep
<1>5. QED
  BY <1>3, <1>4

(***************************************************************************)
(* Types, clocks and deletions.                                            *)
(***************************************************************************)
OpTypes == op \in [Actors -> [pc : Places, now : Times, wm : Hours \cup {Never}]]

LEMMA ActorNext ==
  ASSUME IInv, Next
  PROVE  /\ OpTypes' /\ wm' \in Hours \cup {Never} /\ batch' \subseteq Times
         /\ session' \in {"live", "deleted"}
         /\ \A p \in Actors : op'[p].now <= now'
<1>1. /\ OpTypes /\ wm \in Hours \cup {Never} /\ batch \subseteq Times /\ now \in Times
      /\ session \in {"live", "deleted"} /\ 0 \in Times /\ MaxTime \in Nat
      /\ \A p \in Actors : op[p].now <= now /\ op[p].now \in Times
  BY DEF IInv, TypeOK, OpTypes, Dated, Times
<1>2. now <= now' /\ now' \in Times /\ now' \in Int /\ now \in Int /\ 0 <= now'
  BY <1>1, RowNext DEF RowStep, Times
<1>3. CASE Tick
  <2>1. \A p \in Actors : op[p].now <= now'
    BY <1>1, <1>2 DEF Times
  <2>2. QED
    BY <1>1, <1>3, <2>1 DEF Tick, OpTypes
<1>4. ASSUME NEW e \in Events, PersistExchange(e) \/ WriteEvent(e)
      PROVE  OpTypes' /\ wm' \in Hours \cup {Never} /\ batch' \subseteq Times
             /\ session' \in {"live", "deleted"} /\ \A p \in Actors : op'[p].now <= now'
  <2>1. at'[e] \in Times
    BY <1>4, RecordedFacts DEF PersistExchange, WriteEvent
  <2>2. QED
    BY <1>1, <1>4, <2>1 DEF PersistExchange, WriteEvent, OpTypes
<1>5. ASSUME NEW p \in Actors, Maintain(p)
      PROVE  OpTypes' /\ wm' \in Hours \cup {Never} /\ batch' \subseteq Times
             /\ session' \in {"live", "deleted"} /\ \A q \in Actors : op'[q].now <= now'
  <2>1. batch' = batch /\ session' = session /\ now' = now
    BY <1>5 DEF Maintain, RollRead, RollUp, RollFails, SweepRead, Prune, AgeBuckets
  <2>2. wm' \in Hours \cup {Never}
    <3>1. CASE RollUp(p)
      BY <3>1, RollStep
    <3>2. CASE ~RollUp(p)
      BY <1>1, <1>5, <3>2 DEF Maintain, RollRead, RollFails, SweepRead, Prune, AgeBuckets
    <3>3. QED
      BY <3>1, <3>2
  <2>3. \E r \in [pc : Places, now : Times, wm : Hours \cup {Never}] :
          op' = [op EXCEPT ![p] = r] /\ r.now <= now
    <3>1. CASE RollRead(p) \/ RollUp(p) \/ RollFails(p) \/ AgeBuckets(p)
      <4>1. \/ \E pc \in Places : op' = [op EXCEPT ![p] = [pc |-> pc, now |-> 0, wm |-> Never]]
            \/ op' = [op EXCEPT ![p] = [pc |-> "roll", now |-> now, wm |-> wm]]
        BY <3>1 DEF RollRead, RollUp, RollFails, AgeBuckets, Goto, AfterRoll, Places
      <4>2. "roll" \in Places /\ 0 <= now /\ now <= now
        BY <1>1 DEF Places, Times
      <4>3. QED
        BY <1>1, <4>1, <4>2
    <3>2. CASE SweepRead(p)
      <4> DEFINE r == [op[p] EXCEPT !.now = now, !.wm = wm, !.pc = "prune"]
      <4>1. op[p] \in [pc : Places, now : Times, wm : Hours \cup {Never}] /\ "prune" \in Places
        BY <1>1 DEF OpTypes, Places
      <4>2. r \in [pc : Places, now : Times, wm : Hours \cup {Never}]
        BY <1>1, <4>1
      <4>3. op' = [op EXCEPT ![p] = r]
        BY <1>1, <3>2 DEF SweepRead, OpTypes
      <4>4. r.now <= now
        BY <1>2, <4>1
      <4> HIDE DEF r
      <4>5. QED
        BY <4>2, <4>3, <4>4
    <3>3. CASE Prune(p)
      <4> DEFINE r == [op[p] EXCEPT !.pc = "age"]
      <4>1. op' = [op EXCEPT ![p] = r]
        BY <1>1, <3>3 DEF Prune, OpTypes
      <4>2. r \in [pc : Places, now : Times, wm : Hours \cup {Never}] /\ r.now <= now
        BY <1>1 DEF OpTypes, Places
      <4>3. QED
        BY <4>1, <4>2
    <3>4. QED
      BY <1>5, <3>1, <3>2, <3>3 DEF Maintain
  <2>4. OpTypes' /\ \A q \in Actors : op'[q].now <= now'
    BY <1>1, <2>1, <2>3 DEF OpTypes
  <2>5. QED
    BY <1>1, <2>1, <2>2, <2>4
<1>6. CASE RerollBatch \/ RerollFails \/ GatewayDies \/ Attribute \/ Finalize \/ FinalizeUnrolled
  <2>1. wm' = wm /\ session' = session /\ batch' \in {batch, {}} /\ now' = now
    BY <1>6 DEF RerollBatch, RerollFails, GatewayDies, Attribute, Finalize, FinalizeUnrolled
  <2>2. \E q \in {"gateway", "run"}, pc \in Places :
          op' = [op EXCEPT ![q] = [pc |-> pc, now |-> 0, wm |-> Never]]
    BY <1>6 DEF RerollBatch, RerollFails, GatewayDies, Attribute, Finalize, FinalizeUnrolled, Goto,
       Places
  <2>3. PICK q \in {"gateway", "run"}, pc \in Places :
          op' = [op EXCEPT ![q] = [pc |-> pc, now |-> 0, wm |-> Never]]
    BY <2>2
  <2> DEFINE r == [pc |-> pc, now |-> 0, wm |-> Never]
  <2>4. r \in [pc : Places, now : Times, wm : Hours \cup {Never}] /\ r.now = 0
    BY <1>1
  <2>5. op' = [op EXCEPT ![q] = r]
    BY <2>3
  <2> HIDE DEF r
  <2>6. OpTypes'
    BY <1>1, <2>4, <2>5 DEF OpTypes
  <2>7. ASSUME NEW p \in Actors
        PROVE  op'[p].now <= now'
    <3>1. op'[p] = op[p] \/ op'[p] = r
      BY <1>1, <2>5 DEF OpTypes
    <3>2. QED
      BY <1>1, <1>2, <2>1, <2>4, <3>1
  <2>8. QED
    BY <1>1, <2>1, <2>6, <2>7
<1>7. CASE EraseBegins \/ EraseNext
  BY <1>1, <1>7 DEF EraseBegins, EraseNext, EraseTable, OpTypes
<1>8. QED
  BY <1>3, <1>4, <1>5, <1>6, <1>7 DEF Next

\* The tables of a deletion, from the first on.
LEMMA Tables ==
  /\ Len(<<"events", "buckets", "sessions">>) = 3 /\ Head(<<"events", "buckets", "sessions">>) = "events"
  /\ Tail(<<"events", "buckets", "sessions">>) = <<"buckets", "sessions">>
  /\ Len(<<"sessions", "events", "buckets">>) = 3 /\ Head(<<"sessions", "events", "buckets">>) = "sessions"
  /\ Tail(<<"sessions", "events", "buckets">>) = <<"events", "buckets">>
  /\ Len(<<"buckets", "sessions">>) = 2 /\ Head(<<"buckets", "sessions">>) = "buckets"
  /\ Tail(<<"buckets", "sessions">>) = <<"sessions">>
  /\ Len(<<"events", "buckets">>) = 2 /\ Head(<<"events", "buckets">>) = "events"
  /\ Tail(<<"events", "buckets">>) = <<"buckets">>
  /\ Len(<<"sessions">>) = 1 /\ Head(<<"sessions">>) = "sessions"
  /\ Len(<<"buckets">>) = 1 /\ Head(<<"buckets">>) = "buckets"
OBVIOUS

\* One statement of a deletion: whatever it erases is still in the buckets only if these are
\* yet to be deleted.
LEMMA EraseDeletion ==
  ASSUME IInv, NEW tables, NEW asked \in SUBSET Events, EraseTable(tables, asked),
         \/ /\ erasing = Nothing /\ session = "live" /\ tables \in TablesInOrder
            /\ asked = {e \in Events : row[e] # "none"}
         \/ erasing # Nothing /\ tables = erasing.tables /\ asked = erasing.asked
  PROVE  /\ Deletion'
         /\ erasing' \in [tables : Seq({"events", "buckets", "sessions"}), asked : SUBSET Events]
<1> DEFINE rest == Tail(tables)
           Rest == {<<"buckets", "sessions">>, <<"sessions">>, <<"events", "buckets">>, <<"buckets">>}
<1>1. erasing.tables \in Rest \cup {<<>>} /\ (erasing.tables = <<>> => erasing = Nothing)
  BY DEF IInv, Deletion
<1>2. \/ tables \in TablesInOrder
      \/ tables \in Rest
  BY <1>1
<1>3. /\ tables = <<"events", "buckets", "sessions">> =>
              erasing' = [tables |-> <<"buckets", "sessions">>, asked |-> asked]
      /\ tables = <<"sessions", "events", "buckets">> =>
              erasing' = [tables |-> <<"events", "buckets">>, asked |-> asked]
      /\ tables = <<"buckets", "sessions">> => erasing' = [tables |-> <<"sessions">>, asked |-> asked]
      /\ tables = <<"events", "buckets">> => erasing' = [tables |-> <<"buckets">>, asked |-> asked]
      /\ tables \in {<<"sessions">>, <<"buckets">>} => erasing' = Nothing
  <2>1. erasing' = IF Len(tables) = 1 THEN Nothing ELSE [tables |-> Tail(tables), asked |-> asked]
    BY DEF EraseTable
  <2>2. tables = <<"events", "buckets", "sessions">> =>
          erasing' = [tables |-> <<"buckets", "sessions">>, asked |-> asked]
    BY <2>1, Tables
  <2>3. tables = <<"sessions", "events", "buckets">> =>
          erasing' = [tables |-> <<"events", "buckets">>, asked |-> asked]
    BY <2>1, Tables
  <2>4. tables = <<"buckets", "sessions">> => erasing' = [tables |-> <<"sessions">>, asked |-> asked]
    BY <2>1, Tables
  <2>5. tables = <<"events", "buckets">> => erasing' = [tables |-> <<"buckets">>, asked |-> asked]
    BY <2>1, Tables
  <2>6. tables \in {<<"sessions">>, <<"buckets">>} => erasing' = Nothing
    BY <2>1, Tables
  <2>7. QED
    BY <2>2, <2>3, <2>4, <2>5, <2>6
<1>4. Nothing.tables = <<>> /\ Nothing.asked = {}
  BY DEF Nothing
<1>5. \A t \in Rest : t # <<>>
  OBVIOUS
<1>6. erasing'.tables \in Rest \cup {<<>>} /\ (erasing'.tables = <<>> => erasing' = Nothing)
      /\ erasing'.asked \in {asked, {}}
  <2>1. CASE tables \in {<<"sessions">>, <<"buckets">>}
    BY <1>3, <1>4, <2>1
  <2>2. CASE tables \notin {<<"sessions">>, <<"buckets">>}
    <3>1. PICK t \in Rest : erasing' = [tables |-> t, asked |-> asked]
      BY <1>2, <1>3, <2>2 DEF TablesInOrder
    <3>2. QED
      BY <1>5, <3>1
  <2>3. QED
    BY <2>1, <2>2
<1>7. row \in [Events -> {"none", "present", "pruned", "erased", "dropped"}]
  BY DEF IInv, TypeOK
<1>8. Head(tables) = "buckets" => row' = row
  BY DEF EraseTable
<1>9. Head(tables) # "buckets" =>
        \A e \in Events : /\ e \in asked /\ row[e] # "none" => row'[e] \in {"erased", "dropped"}
                          /\ row[e] \in {"erased", "dropped"} => row'[e] = row[e]
                          /\ row'[e] = "erased" => row[e] = "erased" \/ e \in asked
  BY <1>7 DEF EraseTable
<1>10. erasing # Nothing => \A e \in erasing.asked : row[e] \in {"erased", "dropped"}
  BY DEF IInv, Deletion
<1>11. tables \in TablesInOrder => Head(tables) # "buckets"
  BY Tables DEF TablesInOrder
<1>12. erasing' # Nothing => \A e \in erasing'.asked : row'[e] \in {"erased", "dropped"}
  <2>1. SUFFICES ASSUME NEW e \in asked
                 PROVE  row'[e] \in {"erased", "dropped"}
    BY <1>6
  <2>2. CASE Head(tables) # "buckets"
    BY <1>9, <1>10, <2>2
  <2>3. CASE Head(tables) = "buckets"
    BY <1>8, <1>10, <1>11, <2>3
  <2>4. QED
    BY <2>2, <2>3
<1>13. \/ Head(tables) = "sessions" /\ session' = "deleted"
       \/ Head(tables) # "sessions" /\ session' = session
  BY DEF EraseTable
<1>14. erasing' = Nothing => session' = "deleted"
  <2>1. SUFFICES ASSUME erasing' = Nothing
                 PROVE  session' = "deleted"
    OBVIOUS
  <2>2. tables \in {<<"sessions">>, <<"buckets">>}
    <3>1. ASSUME tables \notin {<<"sessions">>, <<"buckets">>}
          PROVE  \E t \in Rest : erasing' = [tables |-> t, asked |-> asked]
      BY <1>2, <1>3, <3>1 DEF TablesInOrder
    <3>2. QED
      BY <1>4, <1>5, <2>1, <3>1
  <2>3. CASE tables = <<"sessions">>
    BY <1>13, <2>3, Tables
  <2>4. CASE tables = <<"buckets">>
    <3>1. session = "deleted"
      BY <1>11, <2>4, Tables DEF IInv, Deletion
    <3>2. QED
      BY <1>13, <2>4, <3>1, Tables
  <2>5. QED
    BY <2>2, <2>3, <2>4
<1>15. erasing'.tables \in {<<"events", "buckets">>, <<"buckets">>} => session' = "deleted"
  <2>1. SUFFICES ASSUME erasing'.tables \in {<<"events", "buckets">>, <<"buckets">>}
                 PROVE  session' = "deleted"
    OBVIOUS
  <2>2. erasing'.tables # <<"buckets", "sessions">> /\ erasing'.tables # <<"sessions">> /\ erasing'.tables # <<>>
    <3>1. \A t \in {<<"events", "buckets">>, <<"buckets">>} :
            t # <<"buckets", "sessions">> /\ t # <<"sessions">> /\ t # <<>>
      OBVIOUS
    <3>2. QED
      BY <2>1, <3>1
  <2>3. tables \in {<<"sessions", "events", "buckets">>, <<"events", "buckets">>}
    BY <1>2, <1>3, <1>4, <2>2 DEF TablesInOrder
  <2>4. CASE tables = <<"sessions", "events", "buckets">>
    BY <1>13, <2>4, Tables
  <2>5. CASE tables = <<"events", "buckets">>
    <3>1. tables \notin TablesInOrder
      BY <2>5 DEF TablesInOrder
    <3>2. session = "deleted"
      BY <2>5, <3>1 DEF IInv, Deletion
    <3>3. QED
      BY <1>13, <3>2
  <2>6. QED
    BY <2>3, <2>4, <2>5
<1>16. erasing'.tables \in {<<>>, <<"sessions">>} =>
         \A e \in Events : row'[e] = "erased" => Uncounted(e)'
  <2>1. SUFFICES ASSUME erasing'.tables \in {<<>>, <<"sessions">>}, NEW e \in Events, row'[e] = "erased",
                        Head(tables) # "buckets"
                 PROVE  Uncounted(e)'
    BY EraseSteps
  <2>2. tables = <<"sessions">>
    BY <1>2, <1>3, <2>1, Tables DEF TablesInOrder
  <2>3. erasing # Nothing /\ erasing.tables = <<"sessions">> /\ asked = erasing.asked
    BY <2>2, Tables DEF TablesInOrder
  <2>4. row[e] = "erased"
    BY <1>9, <1>10, <2>1, <2>3
  <2>5. Uncounted(e) /\ e \notin Rows
    BY <2>3, <2>4 DEF IInv, Deletion, Rows
  <2>6. QED
    BY <2>5, EraseSteps DEF BucketStep, BucketsClean
<1>17. erasing' \in [tables : Seq({"events", "buckets", "sessions"}), asked : SUBSET Events]
  <2>1. erasing'.tables \in Seq({"events", "buckets", "sessions"}) /\ erasing'.asked \in SUBSET Events
    <3>1. /\ <<>> \in Seq({"events", "buckets", "sessions"})
          /\ <<"buckets", "sessions">> \in Seq({"events", "buckets", "sessions"})
          /\ <<"sessions">> \in Seq({"events", "buckets", "sessions"})
          /\ <<"events", "buckets">> \in Seq({"events", "buckets", "sessions"})
          /\ <<"buckets">> \in Seq({"events", "buckets", "sessions"})
      OBVIOUS
    <3>2. QED
      BY <1>6, <3>1
  <2>2. erasing' = [tables |-> erasing'.tables, asked |-> erasing'.asked]
    BY <1>2, <1>3 DEF TablesInOrder, Nothing
  <2>3. QED
    BY <2>1, <2>2
<1>18. QED
  BY <1>6, <1>12, <1>14, <1>15, <1>16, <1>17 DEF Deletion

LEMMA DeletionNext ==
  ASSUME IInv, BucketStep, RowStep, Next
  PROVE  /\ Deletion'
         /\ erasing' \in [tables : Seq({"events", "buckets", "sessions"}), asked : SUBSET Events]
<1>1. CASE EraseBegins
  BY <1>1, EraseDeletion DEF EraseBegins
<1>2. CASE EraseNext
  <2>1. erasing.asked \in SUBSET Events
    BY DEF IInv, TypeOK
  <2>2. QED
    BY <1>2, <2>1, EraseDeletion DEF EraseNext
<1>3. CASE ~EraseBegins /\ ~EraseNext
  <2>1. erasing' = erasing /\ session' = session
    <3>1. ASSUME NEW p \in Actors, Maintain(p)
          PROVE  erasing' = erasing /\ session' = session
      BY <3>1 DEF Maintain, RollRead, RollUp, RollFails, SweepRead, Prune, AgeBuckets
    <3>2. QED
      BY <1>3, <3>1 DEF Next, Tick, PersistExchange, WriteEvent, RerollBatch, RerollFails, GatewayDies,
         Attribute, Finalize, FinalizeUnrolled
  <2>2. ASSUME NEW e \in Events
        PROVE  /\ row'[e] = "erased" <=> row[e] = "erased"
               /\ row[e] = "dropped" => row'[e] = "dropped"
    <3>1. ASSUME NEW f \in Events, PersistExchange(f) \/ WriteEvent(f)
          PROVE  row'[e] = row[e] \/ (row[e] = "none" /\ row'[e] = "present")
      <4>1. PICK lag : Recorded(f, lag)
        BY <3>1 DEF PersistExchange, WriteEvent
      <4>2. row \in [Events -> {"none", "present", "pruned", "erased", "dropped"}]
        BY DEF IInv, TypeOK
      <4>3. QED
        BY <4>1, <4>2 DEF Recorded
    <3>2. ASSUME NEW p \in Actors, Prune(p)
          PROVE  row'[e] = row[e] \/ (row[e] = "present" /\ row'[e] = "pruned")
      BY <3>2 DEF Prune, Rows
    <3>3. ASSUME NEW p \in Actors, Maintain(p), ~Prune(p)
          PROVE  row' = row
      BY <3>3 DEF Maintain, RollRead, RollUp, RollFails, SweepRead, AgeBuckets
    <3>4. CASE Tick \/ RerollBatch \/ RerollFails \/ GatewayDies \/ Attribute \/ Finalize \/ FinalizeUnrolled
      BY <3>4 DEF Tick, RerollBatch, RerollFails, GatewayDies, Attribute, Finalize, FinalizeUnrolled
    <3>5. QED
      BY <1>3, <3>1, <3>2, <3>3, <3>4 DEF Next
  <2>3. /\ erasing.asked \in SUBSET Events
        /\ erasing \in [tables : Seq({"events", "buckets", "sessions"}), asked : SUBSET Events]
    BY DEF IInv, TypeOK
  <2>4. ASSUME NEW e \in Events, Uncounted(e), row[e] = "erased"
        PROVE  Uncounted(e)'
    BY <2>4 DEF BucketStep, BucketsClean, Rows
  <2>5. QED
    BY <2>1, <2>2, <2>3, <2>4 DEF IInv, Deletion
<1>4. QED
  BY <1>1, <1>2, <1>3

LEMMA NextIInv == IInv /\ [Next]_vars => IInv'
<1> SUFFICES ASSUME IInv, [Next]_vars
             PROVE  IInv'
  OBVIOUS
<1>1. CASE Next
  <2>1. BucketStep /\ RowStep
    BY <1>1, BucketNext, RowNext
  <2>2. Behind' /\ Foreseen' /\ AttributedCounted' /\ DaysAddUp' /\ Deletion'
    BY <1>1, <2>1, MarksNext, AttributedNext, DeletionNext DEF BucketStep
  <2>3. Dated'
    <3>1. ASSUME NEW e \in Rows'
          PROVE  at'[e] \in Times
      BY <2>1 DEF RowStep, IInv, Dated
    <3>2. QED
      BY <1>1, <3>1, ActorNext DEF Dated
  <2>4. TypeOK'
    <3>1. erasing' \in [tables : Seq({"events", "buckets", "sessions"}), asked : SUBSET Events]
      BY <1>1, <2>1, DeletionNext
    <3>2. QED
      BY <1>1, <2>1, <3>1, ActorNext DEF TypeOK, RowStep, BucketStep, BucketTypes, OpTypes, IInv
  <2>5. QED
    BY <2>2, <2>3, <2>4 DEF IInv
<1>2. CASE UNCHANGED vars
  <2>1. now <= now /\ now \in Times
    BY DEF IInv, TypeOK, Times
  <2>2. BucketStep /\ RowStep /\ Rows' = Rows
    <3>1. UNCHANGED buckets /\ now <= now' /\ now' \in Times
      BY <1>2, <2>1 DEF vars
    <3>2. BucketStep
      BY <3>1, SameBuckets
    <3>3. Rows' = Rows /\ RowStep
      BY <1>2, <2>1 DEF vars, RowStep, Rows, IInv, TypeOK
    <3>4. QED
      BY <3>2, <3>3
  <2>3. Marks' = Marks /\ \A e : Owing(e) => Owing(e)'
    BY <1>2 DEF vars, Marks, Owing, Span
  <2>4. Behind' /\ Foreseen'
    BY <2>2, <2>3, MarksKept
  <2>5. TypeOK' /\ Dated'
    BY <1>2 DEF vars, buckets, IInv, TypeOK, Dated, Rows
  <2>6. AttributedCounted'
    BY <1>2 DEF vars, buckets, IInv, AttributedCounted, Rows, PastLife, EventHour, HourOf
  <2>7. Deletion'
    BY <1>2 DEF vars, buckets, IInv, Deletion, Uncounted
  <2>8. QED
    BY <2>2, <2>4, <2>5, <2>6, <2>7 DEF IInv, BucketStep
<1>3. QED
  BY <1>1, <1>2

LEMMA InitIInv == Init => IInv
<1> SUFFICES ASSUME Init
             PROVE  IInv
  OBVIOUS
<1>1. MaxTime \in Nat /\ 0 \in Times /\ Rows = {}
  BY DEF Init, Times, Rows
<1>2. TypeOK
  <2>1. erasing \in [tables : Seq({"events", "buckets", "sessions"}), asked : SUBSET Events]
    <3>1. <<>> \in Seq({"events", "buckets", "sessions"})
      OBVIOUS
    <3>2. QED
      BY <3>1 DEF Init, Nothing
  <2>2. op \in [Actors -> [pc : Places, now : Times, wm : Hours \cup {Never}]]
    BY <1>1 DEF Init, Places
  <2>3. QED
    BY <1>1, <2>1, <2>2 DEF Init, TypeOK
<1>3. Dated /\ Behind /\ Foreseen
  BY <1>1 DEF Init, Dated, Behind, Foreseen, Times
<1>4. DaysAddUp
  <2>1. \A d \in Days : DaySums(hour, 0)[d] = {} /\ DaySums(hourBy, 0)[d] = {}
    BY DEF Init, DaySums
  <2>2. QED
    BY <2>1 DEF Init, DaysAddUp
<1>5. AttributedCounted
  BY <1>1 DEF AttributedCounted
<1>6. Deletion
  <2>1. erasing.tables = <<>> /\ erasing = Nothing
    BY DEF Init, Nothing
  <2>2. <<>> \notin {<<"events", "buckets">>, <<"buckets">>}
    OBVIOUS
  <2>3. QED
    BY <2>1, <2>2 DEF Init, Deletion
<1>7. QED
  BY <1>2, <1>3, <1>4, <1>5, <1>6 DEF IInv

THEOREM Invariance == Spec => []IInv
BY InitIInv, NextIInv, PTL DEF Spec

(***************************************************************************)
(* The theorems.                                                           *)
(***************************************************************************)
\* Every column stays in its range, whatever statements are interleaved: no watermark, hour
\* or day leaves the time there was.
THEOREM TypeCorrect == Spec => []TypeOK
<1>1. IInv => TypeOK
  BY DEF IInv
<1>2. QED
  BY <1>1, Invariance, PTL

\* An event behind the watermark is in its hour's bucket or owed to it, although roll-ups
\* with older readings move the watermark back and sweeps hold stale ones.
THEOREM WatermarkSound == Spec => []BehindWatermarkCounted
<1>1. IInv => BehindWatermarkCounted
  BY DEF IInv, Behind, Marks, In, Owing, Owed, BehindWatermarkCounted
<1>2. QED
  BY <1>1, Invariance, PTL

\* The sum of a day's hours is its bucket, in both granularities and at all times.
THEOREM DaysCorrect == Spec => []DaysAddUp
<1>1. IInv => DaysAddUp
  BY DEF IInv
<1>2. QED
  BY <1>1, Invariance, PTL

\* A finalized run's events are in the buckets of their credentials, whatever was rolled up
\* before they had one.
THEOREM AttributionCounted == Spec => []AttributedCounted
<1>1. IInv => AttributedCounted
  BY DEF IInv
<1>2. QED
  BY <1>1, Invariance, PTL

\* After a deletion returned no bucket counts what it deleted, whatever was recomputed
\* between its statements.
THEOREM ErasureComplete == Spec => []ErasedStaysErased
<1>1. IInv => ErasedStaysErased
  <2>1. erasing = Nothing => erasing.tables = <<>>
    BY DEF Nothing
  <2>2. QED
    BY <2>1 DEF IInv, Deletion, Uncounted, ErasedStaysErased
<1>2. QED
  BY <1>1, Invariance, PTL

\* Retention deletes no event that is in no bucket, unless it came late, nobody is left to
\* roll it up, or its bucket is past its own life: the watermark a sweep holds may be stale,
\* what lies behind it is counted nevertheless.
THEOREM PruningSound == Spec => PruneOnlyCounted
<1>1. ASSUME IInv, Next, NEW e \in Events, row[e] = "present", row'[e] = "pruned"
      PROVE  e \in hour[EventHour(e)] \/ e \in late \/ e \in unrolled \/ PastLife(e)
  <2>1. row \in [Events -> {"none", "present", "pruned", "erased", "dropped"}]
    BY <1>1 DEF IInv, TypeOK
  <2>2. PICK p \in Actors : Prune(p)
    <3>1. ASSUME NEW f \in Events, PersistExchange(f) \/ WriteEvent(f)
          PROVE  FALSE
      BY <1>1, <2>1, <3>1 DEF PersistExchange, WriteEvent, Recorded
    <3>2. CASE Tick \/ RerollBatch \/ RerollFails \/ GatewayDies \/ Attribute \/ Finalize \/ FinalizeUnrolled
      BY <1>1, <3>2 DEF Tick, RerollBatch, RerollFails, GatewayDies, Attribute, Finalize, FinalizeUnrolled
    <3>3. ASSUME NEW tables, NEW asked, EraseTable(tables, asked)
          PROVE  FALSE
      BY <1>1, <3>3 DEF EraseTable
    <3>4. ASSUME NEW p \in Actors, Maintain(p), ~Prune(p)
          PROVE  FALSE
      BY <1>1, <3>4 DEF Maintain, RollRead, RollUp, RollFails, SweepRead, AgeBuckets
    <3>5. QED
      BY <1>1, <3>1, <3>2, <3>3, <3>4 DEF Next, EraseBegins, EraseNext
  <2>3. e \in Rows /\ Prunable(p, e)
    BY <1>1, <2>2 DEF Prune, Rows
  <2>4. op[p].wm \in Hours \cup {Never} /\ op[p].wm # Never /\ at[e] \in Times
    BY <1>1, <2>3 DEF IInv, TypeOK, Dated, Prunable
  <2>5. EventHour(e) < op[p].wm
    BY <2>3, <2>4, BeforeMark DEF Prunable, EventHour, Hours
  <2>6. op[p].wm \in Marks
    BY DEF Marks
  <2>7. QED
    BY <1>1, <2>3, <2>5, <2>6 DEF IInv, Foreseen, In
<1>2. IInv /\ [Next]_vars =>
        [\A e \in Events : row[e] = "present" /\ row'[e] = "pruned" =>
           e \in hour[EventHour(e)] \/ e \in late \/ e \in unrolled \/ PastLife(e)]_vars
  BY <1>1
<1>3. QED
  BY <1>2, Invariance, PTL DEF Spec, PruneOnlyCounted
=============================================================================
