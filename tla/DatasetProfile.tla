--------------------------- MODULE DatasetProfile ---------------------------
(***************************************************************************)
(* The dataset profiling task: how a table becomes a profile, by the       *)
(* pandas service and by the lightweight service that stands in for it.    *)
(*                                                                         *)
(* A cell is null, a number, a string that Python and pandas both read as  *)
(* a number (a numeral), one that only Python does (loose: "1_000", or     *)
(* "nan", which pandas reads as no number), or any other string; numbers   *)
(* are integers.  Quantiles are kept in quarters and ratios as products,   *)
(* so all arithmetic is exact.  The types pandas gives to columns, and     *)
(* whether its statistics raise, are external.                             *)
(***************************************************************************)
EXTENDS Integers, Sequences, FiniteSets, SequencesExt

CONSTANTS
    Cells,       \* cells of tables
    MaxRows,     \* bound: rows of a table with one column
    MaxPairs,    \* bound: rows of a table with two columns
    Sample,      \* values tried by the numeric check, 100 in the code
    TypeSample,  \* values looked at by the mixed check, 50 in the code
    Services     \* which services are there: "pandas", "lightweight", "none"

Kinds == {"null", "number", "numeral", "loose", "word"}

Cell == [kind : Kinds, value : Int]

ASSUME DatasetProfileAssumption ==
    /\ Cells \subseteq Cell
    /\ MaxRows \in Nat /\ MaxPairs \in Nat
    /\ Sample \in Nat \ {0} /\ TypeSample \in Nat \ {0}
    /\ Services \subseteq {"pandas", "lightweight", "none"}

VARIABLES
    payload,  \* [form, columns]: the data of the job
    raising,  \* the columns whose statistics raise (pandas cannot
              \* interpolate between booleans)
    service,  \* the service the task was built with
    result    \* none, refused, failed, or the profile

vars == <<payload, raising, service, result>>

NoResult == [answer |-> "none"]

Text(c) == c.kind # "number"

\* CSV or JSON records: one column, or two of equal length.  CSV is text.
Tables == (UNION {[{"a"} -> [1..n -> Cells]] : n \in 0..MaxRows})
          \cup (UNION {[{"a", "b"} -> [1..n -> Cells]] : n \in 0..MaxPairs})

IsText(table) == \A name \in DOMAIN table : \A i \in DOMAIN table[name] : Text(table[name][i])

Payloads == [form : {"json"}, columns : Tables]
            \cup [form : {"csv"}, columns : {table \in Tables : IsText(table)}]

Init ==
    /\ payload \in Payloads
    /\ service \in Services
    /\ raising \in IF service = "pandas" THEN SUBSET DOMAIN payload.columns ELSE {{}}
    /\ result = NoResult

-----------------------------------------------------------------------------
(***************************************************************************)
(* DatasetProfilingService                                                 *)
(***************************************************************************)

\* The elements of s at the positions in I, in the order R: the k-th has k - 1
\* before it.  (SelectSeq and SortSeq say the same, but recursively.)
InOrder(s, I, R) ==
    [k \in 1..Cardinality(I) |->
        s[CHOOSE i \in I : Cardinality({h \in I : <<h, i>> \in R}) = k - 1]]

Pairs(s) == (DOMAIN s) \X (DOMAIN s)
Earlier(s) == {p \in Pairs(s) : p[1] < p[2]}
Smaller(s) == {p \in Pairs(s) : s[p[1]] < s[p[2]] \/ (s[p[1]] = s[p[2]] /\ p[1] < p[2])}

IsNull(c) == c.kind = "null"
NonNull(column) == InOrder(column, {i \in DOMAIN column : ~IsNull(column[i])}, Earlier(column))

\* float(value) succeeds: this decides the type of a column.
Convertible(c) == c.kind \in {"number", "numeral", "loose"}

\* to_numeric(errors="coerce") keeps the value, and dropna does: this decides
\* what the statistics are over.
Coercible(c) == c.kind \in {"number", "numeral"}

CountOf(s, Test(_)) == Cardinality({i \in DOMAIN s : Test(s[i])})

\* DataFrame.from_records keeps the cells; read_csv turns a column of numerals
\* into numbers, and one with any other string into text.
Frame(form, column) ==
    IF form = "csv" /\ \A i \in DOMAIN column : column[i].kind \notin {"loose", "word"}
    THEN [i \in DOMAIN column |->
            IF IsNull(column[i]) THEN column[i] ELSE [column[i] EXCEPT !.kind = "number"]]
    ELSE column

\* is_numeric_dtype: numbers and nulls only.
NumericDtype(column) == \A i \in DOMAIN column : column[i].kind \in {"number", "null"}

Prefix(column, n) == SubSeq(column, 1, IF n < Len(column) THEN n ELSE Len(column))

\* The Python types of the sampled values: int or str.
TypesOf(column) == {Text(c) : c \in ToSet(column)}

\* Seeded fault: the share is taken of the sample.
MostOfSample(values) ==
    5 * CountOf(Prefix(values, Sample), Convertible) >= 4 * Len(Prefix(values, Sample))

\* numeric_count / len(non_null) >= 0.8, where only the first values are tried.
MostConvert(values) == 5 * CountOf(Prefix(values, Sample), Convertible) >= 4 * Len(values)

DetectColumnType(column) ==
    LET values == NonNull(column) IN
    CASE values = <<>> -> "unknown"
      [] values # <<>> /\ (NumericDtype(column) \/ MostConvert(values)) -> "numeric"
      [] OTHER -> IF Cardinality(TypesOf(Prefix(values, TypeSample))) > 1
                  THEN "mixed" ELSE "categorical"

\* Four times the quantile k/4 of a sorted sequence, interpolated linearly.
Quartile(s, k) ==
    LET p == k * (Len(s) - 1)
        low == (p \div 4) + 1
    IN  IF p % 4 = 0 THEN 4 * s[low] ELSE 4 * s[low] + (p % 4) * (s[low + 1] - s[low])

NoStats == [count |-> 0, outliers |-> 0]

Range4(s) == Quartile(s, 3) - Quartile(s, 1)

\* Outside q25 - 1.5 iqr .. q75 + 1.5 iqr.
IsOutlier(x, s) ==
    \/ 8 * x < 2 * Quartile(s, 1) - 3 * Range4(s)
    \/ 8 * x > 2 * Quartile(s, 3) + 3 * Range4(s)

\* No statistics when no value is left, or when pandas raises: the column stays
\* numeric.
NumericStats(column, raises) ==
    LET values == [i \in DOMAIN column |-> column[i].value]
        s == InOrder(values, {i \in DOMAIN column : Coercible(column[i])}, Smaller(values))
    IN  IF raises \/ s = <<>> THEN NoStats
        ELSE [count |-> Len(s), min |-> 4 * s[1], max |-> 4 * s[Len(s)],
              q25 |-> Quartile(s, 1), median |-> Quartile(s, 2), q75 |-> Quartile(s, 3),
              outliers |-> CountOf(s, LAMBDA x : IsOutlier(x, s))]

\* value_counts: the number of times the most frequent value occurs.
TopCount(values) ==
    LET times(v) == CountOf(values, LAMBDA c : c = v)
    IN  CHOOSE n \in {times(v) : v \in ToSet(values)} :
            \A v \in ToSet(values) : times(v) <= n

\* Seeded fault: nulls are counted as duplicates.
RestOf(column, unique) == Len(column) - unique

Duplicates(column, unique) == Len(NonNull(column)) - unique

ProfileColumn(column, raises) ==
    LET type == DetectColumnType(column)
        values == NonNull(column)
        unique == Cardinality(ToSet(values))
    IN  [type       |-> type,
         total      |-> Len(column),
         null       |-> Len(column) - Len(values),
         unique     |-> unique,
         duplicates |-> Duplicates(column, unique),
         stats      |-> IF type = "numeric" THEN NumericStats(values, raises) ELSE NoStats,
         top        |-> IF type = "categorical" THEN TopCount(values) ELSE 0]

\* Pairs of numeric columns.
Correlated(columns) ==
    {pair \in SUBSET DOMAIN columns :
        Cardinality(pair) = 2 /\ \A name \in pair : columns[name].type = "numeric"}

OfType(columns, type) == Cardinality({name \in DOMAIN columns : columns[name].type = type})

\* The record that is answered: the profiles of the columns and what they say
\* together.
Profile(columns) ==
    [answer       |-> "profile",
     columns      |-> columns,
     numeric      |-> OfType(columns, "numeric"),
     categorical  |-> OfType(columns, "categorical"),
     mixed        |-> OfType(columns, "mixed"),
     correlations |-> Correlated(columns)]

ProfileDataframe(frame) ==
    Profile([name \in DOMAIN frame |-> ProfileColumn(frame[name], name \in raising)])

PandasProfile(p) ==
    ProfileDataframe([name \in DOMAIN p.columns |-> Frame(p.form, p.columns[name])])

-----------------------------------------------------------------------------
(***************************************************************************)
(* The lightweight service and the task                                    *)
(***************************************************************************)

\* csv.DictReader: every cell is a string, an absent one the empty string.
Row(form, c) == IF form = "csv" /\ IsNull(c) THEN [kind |-> "word", value |-> 0] ELSE c

LightColumn(form, column) ==
    LET cells == [i \in DOMAIN column |-> Row(form, column[i])]
        values == NonNull(cells)
    IN  [type   |-> IF values # <<>> /\ \A i \in DOMAIN values : ~Text(values[i])
                    THEN "numeric" ELSE "categorical",
         total  |-> Len(cells),
         null   |-> Len(cells) - Len(values),
         unique |-> Cardinality(ToSet(values))]

\* Columns are the keys of the records: none when there is no record.
LightProfile(p) ==
    [answer  |-> "light",
     columns |-> [name \in {n \in DOMAIN p.columns : p.columns[n] # <<>>} |->
                    LightColumn(p.form, p.columns[name])]]

\* validate_payload: CSV needs a text, JSON at least one record.
Valid(p) == p.form = "json" => \A name \in DOMAIN p.columns : p.columns[name] # <<>>

\* The worker validates the payload and executes the task.
Execute(p) ==
    CASE service = "pandas" -> PandasProfile(p)
      [] service = "lightweight" -> LightProfile(p)
      [] service = "none" -> [answer |-> "failed"]

\* run() of the runner: validation, then execution.
Run ==
    /\ result = NoResult
    /\ result' = IF Valid(payload) THEN Execute(payload) ELSE [answer |-> "refused"]
    /\ UNCHANGED <<payload, raising, service>>

Next == Run

Spec == Init /\ [][Next]_vars

-----------------------------------------------------------------------------

\* A profile adds up, whatever the table: every cell of a column is null,
\* counted once as a distinct value or once as a duplicate; every column of a
\* known type is in one of the summary counts; the order statistics are in
\* order and the outliers are at most half of the numbers; correlations join
\* numeric columns.
ProfileAddsUp ==
    result.answer = "profile" =>
        LET columns == result.columns IN
        /\ result.numeric + result.categorical + result.mixed + OfType(columns, "unknown")
              = Cardinality(DOMAIN columns)
        /\ (result.correlations # {}) <=> (result.numeric > 1)
        /\ \A name \in DOMAIN columns :
              LET c == columns[name] IN
              /\ c.null + c.unique + c.duplicates = c.total
              /\ c.top + c.unique <= c.total - c.null + 1
              /\ c.stats.count > 0 =>
                    /\ c.stats.min <= c.stats.q25 /\ c.stats.q25 <= c.stats.median
                    /\ c.stats.median <= c.stats.q75 /\ c.stats.q75 <= c.stats.max
                    /\ 2 * c.stats.outliers <= c.stats.count

\* A column called numeric has four values in five that float() accepts, also
\* when only its beginning was tried.  Its statistics are over the values that
\* to_numeric keeps, which may be fewer, and are missing when there are none or
\* pandas raised.  A column of so many is called numeric, provided it is not
\* longer than the sample: beyond it a text column of numerals is categorical
\* however uniform it is.  The lightweight service calls no column numeric
\* which the other would not, nor one whose statistics leave values out.
NumericMeansNumeric ==
    /\ result.answer = "profile" =>
          \A name \in DOMAIN result.columns :
              LET values == NonNull(payload.columns[name])
                  convertible == CountOf(values, Convertible)
                  most == values # <<>> /\ 5 * convertible >= 4 * Len(values)
                  c == result.columns[name]
              IN  /\ c.type = "numeric" =>
                        /\ most
                        /\ c.stats.count = IF name \in raising THEN 0
                                           ELSE CountOf(values, Coercible)
                  /\ most /\ Len(values) <= Sample => c.type = "numeric"
    /\ result.answer = "light" =>
          \A name \in DOMAIN result.columns :
              result.columns[name].type = "numeric"
                => /\ DetectColumnType(Frame(payload.form, payload.columns[name])) = "numeric"
                   /\ \A i \in DOMAIN NonNull(payload.columns[name]) :
                          Coercible(NonNull(payload.columns[name])[i])
=============================================================================
