--------------------------- MODULE BacktestProofs ---------------------------
(***************************************************************************)
(* Theorems of Backtest for every calendar, every set of windows, horizons *)
(* and prices, and any number of recommendations and bars.                 *)
(***************************************************************************)
EXTENDS Backtest, Lemmas, FiniteSetTheorems

\* Dates are pairs of integers, in the lexicographic order.
LEMMA DateParts ==
    ASSUME BacktestConstantsOK, NEW d \in Dates
    PROVE  d = <<d[1], d[2]>> /\ d[1] \in Int /\ d[2] \in Int
<1>1. PICK m \in 1 .. LastMonth : d \in {m} \X (1 .. MonthLength(m))
  BY DEF Dates
<1> QED
  BY <1>1 DEF BacktestConstantsOK

\* A recommendation has a date of the calendar and a positive horizon.
LEMMA RecParts ==
    ASSUME BacktestConstantsOK, NEW r \in Rec
    PROVE  r.date \in Dates /\ r.horizon \in Nat \ {0}
BY DEF Rec, BacktestConstantsOK

\* A recommendation that some run has judged is older than that run.
LEMMA MatureIsOlder ==
    ASSUME BacktestConstantsOK, NEW r \in Rec, NEW d \in Dates, NotAfter(Exit(r), d)
    PROVE  r.date[1] < d[1] /\ r.date[1] + r.horizon <= d[1]
<1>1. r.date[1] \in Int /\ d[1] \in Int /\ r.horizon \in Nat \ {0}
  BY DateParts, RecParts
<1>2. Exit(r)[1] = r.date[1] + r.horizon
  BY DEF Exit, AddMonths
<1> QED
  BY <1>1, <1>2 DEF NotAfter

-----------------------------------------------------------------------------
(* The published rows                                                      *)

\* What a published row says it found is still in the table, and lies before
\* today, the only day whose row a later run of the engine can replace.
PublishedInv ==
    /\ today \in Dates
    /\ recs \subseteq Rec
    /\ published # <<>> =>
          /\ published.asOf \in Dates
          /\ NotAfter(published.asOf, today)
          /\ \A w \in Windows, g \in Segments :
                /\ published.rows[<<w, g>>].size > 0 =>
                      \E r \in recs : /\ r.segment = g /\ r.call \notin Excluded
                                      /\ NotAfter(AddMonths(published.asOf, -w), r.date)
                                      /\ NotAfter(Exit(r), published.asOf)
                /\ published.rows[<<w, g>>].accuracy # <<>> =>
                      \E d \in {r.date : r \in recs} :
                          NotAfter(AddMonths(d, MinHistory), published.asOf)

\* Nothing is published initially.
LEMMA PublishedInit ==
    ASSUME BacktestConstantsOK
    PROVE  BacktestInit => PublishedInv
<1>1. MonthLength(1) \in Nat \ {0}
  <2>1. Len(MonthLengths) \in Nat \ {0}
    BY DEF BacktestConstantsOK
  <2>2. ((1 - 1) % Len(MonthLengths)) + 1 = 1
    BY <2>1
  <2>3. MonthLengths[1] \in Nat \ {0}
    BY <2>1 DEF BacktestConstantsOK
  <2> QED
    BY <2>2, <2>3 DEF MonthLength
<1>2. 1 \in 1 .. LastMonth /\ 1 \in 1 .. MonthLength(1)
  BY <1>1 DEF BacktestConstantsOK
<1>3. <<1, 1>> \in Dates
  BY <1>2 DEF Dates
<1> QED
  BY <1>3 DEF BacktestInit, PublishedInv

\* A row with a sample has a mature recommendation of its window and segment
\* behind it, one with an accuracy a recommendation old enough for the gate.
LEMMA SummaryWitness ==
    ASSUME NEW asOf, NEW w, NEW g
    PROVE  /\ Summary(asOf, w, g).size > 0 =>
                 \E r \in recs : /\ r.segment = g /\ r.call \notin Excluded
                                 /\ NotAfter(AddMonths(asOf, -w), r.date)
                                 /\ NotAfter(Exit(r), asOf)
           /\ Summary(asOf, w, g).accuracy # <<>> =>
                 \E d \in {r.date : r \in recs} : NotAfter(AddMonths(d, MinHistory), asOf)
<1>1. Summary(asOf, w, g).size = Cardinality(Sample(asOf, w, g))
  BY DEF Summary
<1>2. Sample(asOf, w, g) = {} => ~(Summary(asOf, w, g).size > 0)
  BY <1>1, FS_EmptySet
<1>3. \A r \in Sample(asOf, w, g) :
         /\ r \in recs /\ r.segment = g /\ r.call \notin Excluded
         /\ NotAfter(AddMonths(asOf, -w), r.date) /\ NotAfter(Exit(r), asOf)
  <2>1. ASSUME NEW r, Fate(r, asOf) \in Evaluated
        PROVE  r.call \notin Excluded /\ NotAfter(Exit(r), asOf)
    BY <2>1 DEF Fate, Evaluated
  <2> QED
    BY <2>1 DEF Sample
<1>4. Summary(asOf, w, g).accuracy # <<>> => ~HistoryInsufficient(asOf)
  BY DEF Summary
<1> QED
  BY <1>2, <1>3, <1>4 DEF HistoryInsufficient

\* Whatever steps: time moves on, and only today's row is replaced, by
\* another row of today.
LEMMA PublishedKept ==
    ASSUME BacktestConstantsOK, PublishedInv,
           today' \in Dates, NotAfter(today, today'), UNCHANGED published,
           recs' \subseteq Rec,
           \A r \in recs : r \in recs' \/ r.date = today,
           {r.date : r \in recs} \subseteq {r.date : r \in recs'}
    PROVE  PublishedInv'
<1> SUFFICES ASSUME published # <<>>
             PROVE  PublishedInv'
  BY DEF PublishedInv
<1>1. published.asOf \in Dates /\ today \in Dates /\ NotAfter(published.asOf, today)
  BY DEF PublishedInv
<1>2. NotAfter(published.asOf, today')
  BY <1>1, DateParts DEF NotAfter
<1>3. \A r \in recs : NotAfter(Exit(r), published.asOf) => r \in recs'
  <2> SUFFICES ASSUME NEW r \in recs, NotAfter(Exit(r), published.asOf), r.date = today
               PROVE  FALSE
    OBVIOUS
  <2>1. r.date[1] < published.asOf[1]
    BY <1>1, MatureIsOlder DEF PublishedInv
  <2> QED
    BY <1>1, <2>1, DateParts DEF NotAfter
<1> QED
  BY <1>1, <1>2, <1>3 DEF PublishedInv

\* Every step preserves what is published, and no day comes back.
LEMMA PublishedStep ==
    ASSUME BacktestConstantsOK, PublishedInv, [BacktestNext]_backtestVars
    PROVE  PublishedInv' /\ NotAfter(today, today')
<1>0. today \in Dates /\ NotAfter(today, today)
  BY DateParts DEF PublishedInv, NotAfter
<1>1. CASE Tick
  <2>1. today' \in Dates /\ NotAfter(today, today')
    BY <1>1 DEF Tick
  <2> QED
    BY <1>1, <2>1, PublishedKept DEF Tick, PublishedInv
<1>2. ASSUME NEW s, NEW d, NEW price, BarLands(s, d, price)
      PROVE  UNCHANGED <<today, recs, published>>
  BY <1>2 DEF BarLands
<1>3. CASE UNCHANGED <<today, recs, published>>
  BY <1>0, <1>3, PublishedKept DEF PublishedInv
<1>4. ASSUME NEW rec \in Rec, Recommend(rec)
      PROVE  PublishedInv' /\ NotAfter(today, today')
  <2>1. rec.date = today /\ recs' = {r \in recs : r.date # today} \union {rec}
    BY <1>4 DEF Recommend
  <2>2. recs' \subseteq Rec /\ \A r \in recs : r \in recs' \/ r.date = today
    BY <2>1 DEF PublishedInv
  <2>3. {r.date : r \in recs} \subseteq {r.date : r \in recs'}
    BY <2>1, <2>2
  <2> QED
    BY <1>0, <1>4, <2>2, <2>3, PublishedKept DEF Recommend
<1>5. CASE Run
  <2>1. /\ published' = [asOf |-> today,
                         rows |-> [ws \in Windows \X Segments |-> Summary(today, ws[1], ws[2])]]
        /\ today' = today /\ recs' = recs
    BY <1>5 DEF Run
  <2>2. ASSUME NEW w \in Windows, NEW g \in Segments
        PROVE  published'.rows[<<w, g>>] = Summary(today, w, g)
    BY <2>1
  <2> QED
    BY <1>0, <2>1, <2>2, SummaryWitness DEF PublishedInv
<1> QED
  BY <1>1, <1>2, <1>3, <1>4, <1>5 DEF BacktestNext, backtestVars

\* There are finitely many recommendations, so every sample has a size.
BacktestInv == BacktestTypeOK /\ IsFiniteSet(recs)

\* A summary has a size and at most one accuracy.
LEMMA SummaryType ==
    ASSUME IsFiniteSet(recs), NEW asOf, NEW w, NEW g
    PROVE  Summary(asOf, w, g) \in [size : Nat, accuracy : Seq(Nat)]
<1> DEFINE right == {r \in Sample(asOf, w, g) : Fate(r, asOf) = "correct"}
<1>1. Sample(asOf, w, g) \subseteq recs /\ right \subseteq recs
  BY DEF Sample
<1>2. Cardinality(Sample(asOf, w, g)) \in Nat /\ Cardinality(right) \in Nat
  <2> HIDE DEF right
  <2> QED
    BY <1>1, FS_Subset, FS_CardinalityType
<1>3. Summary(asOf, w, g) =
          [size |-> Cardinality(Sample(asOf, w, g)),
           accuracy |-> IF HistoryInsufficient(asOf) \/ Sample(asOf, w, g) = {} THEN <<>>
                        ELSE <<Cardinality(right)>>]
  BY DEF Summary
<1> HIDE DEF right
<1>4. <<>> \in Seq(Nat) /\ <<Cardinality(right)>> \in Seq(Nat)
  BY <1>2
<1> QED
  BY <1>2, <1>3, <1>4

\* Every step preserves the types and the finite table.
LEMMA BacktestStep ==
    ASSUME BacktestConstantsOK, BacktestInv, [BacktestNext]_backtestVars
    PROVE  BacktestInv'
<1> USE DEF BacktestInv, BacktestTypeOK
<1>1. CASE Tick
  BY <1>1 DEF Tick
<1>2. ASSUME NEW s \in Symbols, NEW d \in Dates, NEW price \in Prices[s],
             BarLands(s, d, price)
      PROVE  BacktestInv'
  <2>1. price \in StockPrices \union BenchmarkPrices
    BY DEF Prices, Symbols
  <2>2. /\ close' = [close EXCEPT ![s][d] = price]
        /\ UNCHANGED <<today, recs, published>>
    BY <1>2 DEF BarLands
  <2> QED
    BY <2>1, <2>2
<1>3. ASSUME NEW rec \in Rec, Recommend(rec)
      PROVE  BacktestInv'
  <2>1. PICK past \in SUBSET recs : recs' = past \union {rec}
    BY <1>3 DEF Recommend
  <2>2. IsFiniteSet(past)
    BY FS_Subset
  <2>3. IsFiniteSet(recs')
    BY <2>1, <2>2, FS_AddElement
  <2> QED
    BY <1>3, <2>1, <2>3 DEF Recommend
<1>4. CASE Run
  <2> DEFINE rows == [ws \in Windows \X Segments |-> Summary(today, ws[1], ws[2])]
  <2>1. published' = [asOf |-> today, rows |-> rows] /\ UNCHANGED <<today, close, recs>>
    BY <1>4 DEF Run
  <2>2. \A ws \in Windows \X Segments :
           Summary(today, ws[1], ws[2]) \in [size : Nat, accuracy : Seq(Nat)]
    BY SummaryType
  <2>3. rows \in [Windows \X Segments -> [size : Nat, accuracy : Seq(Nat)]]
    BY <2>2
  <2> HIDE DEF rows
  <2> QED
    BY <2>1, <2>3
<1>5. CASE UNCHANGED backtestVars
  BY <1>5 DEF backtestVars
<1> QED
  BY <1>1, <1>2, <1>3, <1>4, <1>5 DEF BacktestNext

\* Every variable keeps its type, and a published row is always a count with
\* at most one accuracy.
THEOREM BacktestTypeCorrect ==
    ASSUME BacktestConstantsOK
    PROVE  BacktestSpec => []BacktestTypeOK
<1>1. BacktestInit => BacktestInv
  <2>1. BacktestInit => today \in Dates
    BY PublishedInit DEF PublishedInv
  <2>2. BacktestInit => IsFiniteSet(recs)
    BY FS_EmptySet DEF BacktestInit
  <2> QED
    BY <2>1, <2>2 DEF BacktestInit, BacktestInv, BacktestTypeOK
<1>2. BacktestInv /\ [BacktestNext]_backtestVars => BacktestInv'
  BY BacktestStep
<1>3. BacktestInv => BacktestTypeOK
  BY DEF BacktestInv
<1> QED
  BY <1>1, <1>2, <1>3, PTL DEF BacktestSpec

\* A window shorter than every horizon in use is always empty, and one as
\* long as the horizon reaches back to the same day of the month only; the
\* witness is a recommendation of the row's own window and segment.
THEOREM NarrowWindows ==
    ASSUME BacktestConstantsOK
    PROVE  BacktestSpec => []NarrowWindowIsEmpty
<1>1. ASSUME PublishedInv
      PROVE  NarrowWindowIsEmpty
  <2> SUFFICES ASSUME published # <<>>, NEW w \in Windows, NEW g \in Segments,
                      published.rows[<<w, g>>].size > 0
               PROVE  \E r \in recs :
                          /\ r.segment = g /\ r.call \notin Excluded
                          /\ NotAfter(AddMonths(published.asOf, -w), r.date)
                          /\ \/ r.horizon < w
                             \/ r.horizon = w /\ published.asOf[1] = r.date[1] + w
    BY DEF NarrowWindowIsEmpty
  <2>1. PICK r \in recs : /\ r.segment = g /\ r.call \notin Excluded
                          /\ NotAfter(AddMonths(published.asOf, -w), r.date)
                          /\ NotAfter(Exit(r), published.asOf)
    BY <1>1 DEF PublishedInv
  <2>2. r \in Rec /\ published.asOf \in Dates /\ w \in Nat
    BY <1>1 DEF PublishedInv, BacktestConstantsOK
  <2>3. r.date[1] + r.horizon <= published.asOf[1]
    BY <2>1, <2>2, MatureIsOlder
  <2>4. AddMonths(published.asOf, -w)[1] = published.asOf[1] + (-w)
    BY DEF AddMonths
  <2>5. /\ r.date[1] \in Int /\ published.asOf[1] \in Int /\ r.horizon \in Nat
    BY <2>2, RecParts, DateParts
  <2>6. published.asOf[1] - w <= r.date[1]
    BY <2>1, <2>2, <2>4, <2>5 DEF NotAfter
  <2>7. r.horizon < w \/ (r.horizon = w /\ published.asOf[1] = r.date[1] + w)
    BY <2>2, <2>3, <2>5, <2>6
  <2> QED
    BY <2>1, <2>7
<1>2. BacktestInit => PublishedInv
  BY PublishedInit
<1>3. PublishedInv /\ [BacktestNext]_backtestVars => PublishedInv'
  BY PublishedStep
<1> QED
  BY <1>1, <1>2, <1>3, PTL DEF BacktestSpec

\* Behind every accuracy shown is a history of the longest window.
THEOREM ShownAccuracies ==
    ASSUME BacktestConstantsOK
    PROVE  BacktestSpec => []ShownAccuracyHasHistory
<1>1. ASSUME PublishedInv
      PROVE  ShownAccuracyHasHistory
  <2> SUFFICES ASSUME published # <<>>, NEW w \in Windows, NEW g \in Segments,
                      published.rows[<<w, g>>].accuracy # <<>>, w <= MinHistory
               PROVE  LET start == AddMonths(published.asOf, -w)
                      IN \E r \in recs : NotAfter(r.date, start) \/ r.date[1] = start[1]
    BY DEF ShownAccuracyHasHistory
  <2>1. PICK r \in recs : NotAfter(AddMonths(r.date, MinHistory), published.asOf)
    BY <1>1 DEF PublishedInv
  <2>2. /\ r.date[1] \in Int /\ published.asOf[1] \in Int
        /\ w \in Nat /\ MinHistory \in Nat
    BY <1>1, RecParts, DateParts DEF PublishedInv, BacktestConstantsOK
  <2>3. /\ AddMonths(published.asOf, -w)[1] = published.asOf[1] + (-w)
        /\ AddMonths(r.date, MinHistory)[1] = r.date[1] + MinHistory
    BY DEF AddMonths
  <2>4. r.date[1] + MinHistory <= published.asOf[1]
    BY <2>1, <2>2, <2>3 DEF NotAfter
  <2>5. r.date[1] < published.asOf[1] + (-w) \/ r.date[1] = published.asOf[1] + (-w)
    BY <2>2, <2>4
  <2> QED
    BY <2>3, <2>5 DEF NotAfter
<1>2. BacktestInit => PublishedInv
  BY PublishedInit
<1>3. PublishedInv /\ [BacktestNext]_backtestVars => PublishedInv'
  BY PublishedStep
<1> QED
  BY <1>1, <1>2, <1>3, PTL DEF BacktestSpec

-----------------------------------------------------------------------------
(* The judgements                                                          *)

\* Every month has a length, however far ahead.
LEMMA MonthLengthType ==
    ASSUME BacktestConstantsOK, NEW month \in Int
    PROVE  MonthLength(month) \in Nat
<1>1. Len(MonthLengths) \in Nat \ {0}
  BY DEF BacktestConstantsOK
<1>2. ((month - 1) % Len(MonthLengths)) + 1 \in 1 .. Len(MonthLengths)
  BY <1>1
<1> QED
  BY <1>2 DEF MonthLength, BacktestConstantsOK

\* The bar the engine looks for exists as soon as any does.
LEMMA LatestExists ==
    ASSUME BacktestConstantsOK, NEW T, T \subseteq Dates, T # {}
    PROVE  \E e \in T : \A f \in T : NotAfter(f, e)
<1>1. \A e \in T : e[1] \in 1 .. LastMonth /\ e[2] \in 1 .. MonthLength(e[1])
  BY DEF Dates
<1> DEFINE left == {LastMonth - e[1] : e \in T}
<1>2. PICK last \in T : \A e \in T : e[1] <= last[1]
  <2>1. left \subseteq Nat /\ left # {}
    BY <1>1 DEF BacktestConstantsOK
  <2>2. PICK x \in left : \A y \in left : x <= y
    <3> HIDE DEF left
    <3> QED
      BY <2>1, LeastNatural
  <2>3. PICK last \in T : x = LastMonth - last[1]
    OBVIOUS
  <2>4. \A e \in T : LastMonth - last[1] <= LastMonth - e[1]
    BY <2>2, <2>3
  <2>5. \A e \in T : e[1] <= last[1]
    BY <1>1, <2>4 DEF BacktestConstantsOK
  <2> QED
    BY <2>5
<1> DEFINE same == {e \in T : e[1] = last[1]}
           days == {MonthLength(last[1]) - e[2] : e \in same}
<1>3. PICK best \in same : \A e \in same : e[2] <= best[2]
  <2>1. MonthLength(last[1]) \in Nat
    BY <1>1, <1>2, MonthLengthType
  <2>2. \A e \in same : e[2] \in 1 .. MonthLength(last[1])
    BY <1>1
  <2>3. days \subseteq Nat /\ days # {}
    BY <2>1, <2>2
  <2>4. PICK x \in days : \A y \in days : x <= y
    <3> HIDE DEF days
    <3> QED
      BY <2>3, LeastNatural
  <2>5. PICK best \in same : x = MonthLength(last[1]) - best[2]
    OBVIOUS
  <2>6. \A e \in same : MonthLength(last[1]) - best[2] <= MonthLength(last[1]) - e[2]
    BY <2>4, <2>5
  <2>7. \A e \in same : e[2] <= best[2]
    BY <2>1, <2>2, <2>6
  <2> QED
    BY <2>7
<1>4. ASSUME NEW f \in T
      PROVE  NotAfter(f, best)
  BY <1>1, <1>2, <1>3 DEF NotAfter
<1> QED
  BY <1>3, <1>4

\* The close of a day depends on the bars up to that day only.
LEMMA CloseAtLocal ==
    ASSUME BacktestConstantsOK, NEW b, NEW c, NEW d,
           \A e \in Dates : NotAfter(e, d) => b[e] = c[e]
    PROVE  CloseAt(b, d) = CloseAt(c, d)
<1> DEFINE known == {e \in Dates : NotAfter(e, d) /\ b[e] # NoBar}
           knownToo == {e \in Dates : NotAfter(e, d) /\ c[e] # NoBar}
           at == CHOOSE e \in known : \A f \in known : NotAfter(f, e)
<1>1. known = knownToo
  OBVIOUS
<1>2. known # {} => at \in known
  <2>1. known \subseteq Dates
    OBVIOUS
  <2> HIDE DEF known
  <2>2. known # {} => \E e \in known : \A f \in known : NotAfter(f, e)
    BY <2>1, LatestExists
  <2> QED
    BY <2>2
<1>3. known # {} => b[at] = c[at]
  <2> SUFFICES ASSUME known # {}
               PROVE  b[at] = c[at]
    OBVIOUS
  <2>1. at \in Dates /\ NotAfter(at, d)
    BY <1>2
  <2> HIDE DEF at
  <2> QED
    BY <2>1
<1>4. CloseAt(b, d) = IF known = {} THEN NoBar ELSE b[at]
  BY DEF CloseAt
<1>5. CloseAt(c, d) = IF knownToo = {} THEN NoBar
                      ELSE c[CHOOSE e \in knownToo : \A f \in knownToo : NotAfter(f, e)]
  BY DEF CloseAt
<1>6. CloseAt(c, d) = IF known = {} THEN NoBar ELSE c[at]
  <2> HIDE DEF known, knownToo
  <2> QED
    BY <1>1, <1>5
<1> HIDE DEF known, at
<1> QED
  BY <1>3, <1>4, <1>6

\* A judgement stands while no bar up to the exit date changes.
LEMMA FateSettled ==
    ASSUME BacktestConstantsOK, NEW r \in Rec, today \in Dates, today' \in Dates,
           NotAfter(Exit(r), today), NotAfter(today, today'),
           \A s \in Symbols, d \in Dates : NotAfter(d, Exit(r)) => close'[s][d] = close[s][d]
    PROVE  Fate(r, today)' = Fate(r, today)
<1>1. /\ r.date[1] \in Int /\ r.date[2] \in Int /\ r.horizon \in Nat \ {0}
      /\ Exit(r)[1] = r.date[1] + r.horizon /\ Exit(r)[2] \in Int
  <2>1. r.date[1] \in Int /\ r.date[2] \in Int /\ r.horizon \in Nat \ {0}
    BY RecParts, DateParts
  <2>2. MonthLength(r.date[1] + r.horizon) \in Nat
    BY <2>1, MonthLengthType
  <2> QED
    BY <2>1, <2>2 DEF Exit, AddMonths
<1>2. /\ today[1] \in Int /\ today[2] \in Int
      /\ today'[1] \in Int /\ today'[2] \in Int
  BY DateParts
<1>3. NotAfter(Exit(r), today')
  BY <1>1, <1>2 DEF NotAfter
<1>4. NotAfter(r.date, Exit(r)) /\ NotAfter(Exit(r), Exit(r))
  BY <1>1 DEF NotAfter
<1>5. ASSUME NEW s \in Symbols, NEW x \in {r.date, Exit(r)}
      PROVE  CloseAt(Loaded(today)'[s], x) = CloseAt(Loaded(today)[s], x)
  <2>1. x[1] \in Int /\ x[2] \in Int /\ NotAfter(x, Exit(r))
    BY <1>1, <1>4
  <2>2. ASSUME NEW e \in Dates, NotAfter(e, x)
        PROVE  Loaded(today)'[s][e] = Loaded(today)[s][e]
    <3>1. e[1] \in Int /\ e[2] \in Int
      BY DateParts
    <3>2. NotAfter(e, Exit(r))
      BY <1>1, <2>1, <2>2, <3>1 DEF NotAfter
    <3>3. NotAfter(e, today) /\ NotAfter(e, today')
      BY <1>1, <1>2, <1>3, <3>1, <3>2 DEF NotAfter
    <3> QED
      BY <3>2, <3>3 DEF Loaded
  <2> QED
    BY <2>2, CloseAtLocal
<1>6. "stock" \in Symbols /\ "benchmark" \in Symbols
  BY DEF Symbols
<1>7. /\ CloseAt(Loaded(today)'["stock"], r.date) = CloseAt(Loaded(today)["stock"], r.date)
      /\ CloseAt(Loaded(today)'["stock"], Exit(r)) = CloseAt(Loaded(today)["stock"], Exit(r))
      /\ CloseAt(Loaded(today)'["benchmark"], r.date) = CloseAt(Loaded(today)["benchmark"], r.date)
      /\ CloseAt(Loaded(today)'["benchmark"], Exit(r)) = CloseAt(Loaded(today)["benchmark"], Exit(r))
  BY <1>5, <1>6
<1> QED
  BY <1>3, <1>7 DEF Fate

\* Once judged, a recommendation is judged anew only because of a close on or
\* before its exit date that landed late or was replaced.
THEOREM JudgementsAreFinal ==
    ASSUME BacktestConstantsOK
    PROVE  BacktestSpec => JudgementIsFinal
<1>1. ASSUME PublishedInv, NEW r \in recs, Fate(r, today) \in Evaluated,
             today' \in Dates, NotAfter(today, today'), Fate(r, today)' # Fate(r, today)
      PROVE  \E s \in Symbols, d \in Dates :
                NotAfter(d, Exit(r)) /\ close'[s][d] # close[s][d]
  <2>1. r \in Rec /\ today \in Dates
    BY <1>1 DEF PublishedInv
  <2>2. NotAfter(Exit(r), today)
    BY <1>1 DEF Fate, Evaluated
  <2> QED
    BY <1>1, <2>1, <2>2, FateSettled
<1>2. BacktestInit => PublishedInv
  BY PublishedInit
<1>3. PublishedInv /\ [BacktestNext]_backtestVars => PublishedInv' /\ NotAfter(today, today')
  BY PublishedStep
<1>4. PublishedInv' => today' \in Dates
  BY DEF PublishedInv
<1>5. ASSUME PublishedInv, [BacktestNext]_backtestVars
      PROVE  [\A r \in recs :
                 (Fate(r, today) \in Evaluated /\ Fate(r, today)' # Fate(r, today)) =>
                     \E s \in Symbols, d \in Dates :
                         NotAfter(d, Exit(r)) /\ close'[s][d] # close[s][d]]_backtestVars
  BY <1>1, <1>3, <1>4, <1>5
<1> QED
  BY <1>2, <1>3, <1>5, PTL DEF BacktestSpec, JudgementIsFinal
=============================================================================
