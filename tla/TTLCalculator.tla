----------------------------- MODULE TTLCalculator -----------------------------
(***************************************************************************)
(* app/cache/ttl_strategies.py: TTLCalculator.calculate, as set() and      *)
(* batch_set() of semantic_cache.py call it for each entry they store.     *)
(* Factors are in tenths.  Definitions named Name_Variant are plausible    *)
(* bugs, put in Name's place to see that a property notices.               *)
(***************************************************************************)
EXTENDS Integers

CONSTANTS HitCounts, QueryLengths, BaseTTLs, Hours   \* the inputs to consider

CalculatorAssumption ==
    /\ HitCounts \subseteq Nat /\ QueryLengths \subseteq Nat /\ BaseTTLs \subseteq Nat
    /\ Hours \subseteq 0 .. 23

min_ttl == 300
max_ttl == 86400
complexity_threshold == 200

VARIABLES
    hit_count, query_length, base_ttl, time_of_day, weekend,  \* of the last store
    ttl

vars == <<hit_count, query_length, base_ttl, time_of_day, weekend, ttl>>

TypeOK ==
    /\ hit_count \in HitCounts /\ query_length \in QueryLengths /\ base_ttl \in BaseTTLs
    /\ time_of_day \in Hours /\ weekend \in BOOLEAN
    /\ ttl \in min_ttl .. max_ttl

\* int(x * f).  The product with 0.7 may be rounded to just below an integer.
Times(x, tenths) ==
    {(x * tenths) \div 10}
        \cup (IF tenths = 7 /\ x % 10 = 0 /\ x > 0 THEN {(x * 7) \div 10 - 1} ELSE {})

Popularity_Shifted(hits) ==
    IF hits > 50 THEN 40 ELSE IF hits > 20 THEN 20 ELSE IF hits > 5 THEN 15
    ELSE IF hits < 5 THEN 8 ELSE 10

Popularity(hits) ==
    IF hits > 100 THEN 40 ELSE IF hits > 50 THEN 20 ELSE IF hits > 20 THEN 15
    ELSE IF hits < 5 THEN 8 ELSE 10

Complexity(length) ==
    IF length > complexity_threshold THEN 7 ELSE IF length < 50 THEN 12 ELSE 10

\* The second condition, 22 <= time_of_day <= 6, holds at no hour.
TimeOfDay(hour) ==
    IF 9 <= hour /\ hour <= 17 THEN 6
    ELSE IF 22 <= hour /\ hour <= 6 THEN 15 ELSE 10

DayOfWeek(is_weekend) == IF is_weekend THEN 13 ELSE 10

Clamped(x) == IF x < min_ttl THEN min_ttl ELSE IF x > max_ttl THEN max_ttl ELSE x

\* The TTLs calculate() may return: truncated after each factor, then clamped.
Calculate(hits, length, base, hour, is_weekend) ==
    LET Scaled(ttls, tenths) == UNION {Times(x, tenths) : x \in ttls}
        liked == Scaled({base}, Popularity(hits))
        specific == Scaled(liked, Complexity(length))
        hourly == Scaled(specific, TimeOfDay(hour))
    IN  {Clamped(x) : x \in Scaled(hourly, DayOfWeek(is_weekend))}

Init ==
    /\ hit_count \in HitCounts /\ query_length \in QueryLengths /\ base_ttl \in BaseTTLs
    /\ time_of_day \in Hours /\ weekend \in BOOLEAN
    /\ ttl \in Calculate(hit_count, query_length, base_ttl, time_of_day, weekend)

\* set() stores an answer to the same prompt again, later.
Set(hits, hour, is_weekend) ==
    /\ hit_count' = hits /\ time_of_day' = hour /\ weekend' = is_weekend
    /\ ttl' \in Calculate(hits, query_length, base_ttl, hour, is_weekend)
    /\ UNCHANGED <<query_length, base_ttl>>

Next == \E hits \in HitCounts, hour \in Hours, is_weekend \in BOOLEAN :
          Set(hits, hour, is_weekend)

Spec == Init /\ [][Next]_vars

-----------------------------------------------------------------------------
\* Truncating after every factor loses less than this many seconds.
Loss == 6

\* From 22 to 6, where calculate()'s comment says that the night window is.
Night(hour) == hour >= 22 \/ hour <= 6

\* The product of base_ttl with the multipliers that calculate()'s comments name,
\* the one of the night included, in one multiplication.
Product(hits, length, base, hour, is_weekend) ==
    LET popularity == [h \in HitCounts |->
            CASE h < 5 -> 8 [] h \in 5 .. 20 -> 10 [] h \in 21 .. 50 -> 15
              [] h \in 51 .. 100 -> 20 [] h > 100 -> 40]
        specific == IF length \in 50 .. 200 THEN 10 ELSE IF length < 50 THEN 12 ELSE 7
        hourly   == IF hour \in 9 .. 17 THEN 6 ELSE IF Night(hour) THEN 15 ELSE 10
        weekday  == IF is_weekend THEN 13 ELSE 10
    IN  (base * popularity[hits] * specific * hourly * weekday) \div 10000

\* The four truncations and the rounding of floats cost less than Loss seconds of
\* the product.
IsProduct ==
    LET exact == Product(hit_count, query_length, base_ttl, time_of_day, weekend)
    IN  ttl \in Clamped(exact - Loss) .. Clamped(exact)

\* "Applies four multipliers to base_ttl in sequence and clamps the result"
\* (ttl_strategies.py:25): by day the TTL is the product whatever the combination,
\* and at any hour an entry never lives shorter for having been hit more.
TTLFollowsFactors ==
    /\ ~ Night(time_of_day) => IsProduct
    /\ \A hits \in HitCounts : hits < hit_count /\ Popularity(hits) # Popularity(hit_count) =>
         \A other \in Calculate(hits, query_length, base_ttl, time_of_day, weekend) :
            other <= ttl

\* "The night window condition is intentionally written as >= 22 OR <= 6 since it
\* wraps around midnight" (ttl_strategies.py:51-52): the multiplier of the night is
\* one of the four.
NightIsMultiplied == Night(time_of_day) => IsProduct
=============================================================================
