----------------------------- MODULE ExactNumbers -----------------------------
(***************************************************************************)
(* Numbers in the generated validators.  JSON numbers have no width, so    *)
(* each SDK keeps a number its own way and decides on its own what is an   *)
(* integer, what lies within bounds and what equals a literal: Go and Rust *)
(* on normalised digits, Python on int and Decimal, TypeScript on doubles  *)
(* and bigints.  A number is a token of the text, [negative, whole,        *)
(* fraction, exponent], with the digits of its two parts as sequences, in  *)
(* any base, as the code does not depend on it.                            *)
(***************************************************************************)
EXTENDS Integers, Sequences, SequencesExt, FiniteSetsExt

CONSTANTS
  Base,
  Tokens,        \* the numbers that are parsed
  Bounds,        \* the numbers of schemas, which are integers
  MaxScale,      \* of an i64, and of the exponent of a Decimal
  MaxSafeScale,  \* Number.MAX_SAFE_INTEGER, as a scale
  MaxRepeat,     \* the longest string JavaScript makes
  FloatDigits,   \* of the significand of a double
  FloatPlaces,   \* after the point, at most, of a double
  Places         \* after the point, at most, of a token

VARIABLE parsed   \* the number that is parsed

Digits(token) == token.whole \o token.fraction
Scale(token)  == token.exponent - Len(token.fraction)

ASSUME BaseAssumption == Base \in Nat /\ Base >= 2

ASSUME TokensAssumption ==
  \A token \in Tokens \cup Bounds :
    /\ token.negative \in BOOLEAN /\ token.exponent \in Int
    /\ token.whole \in Seq(0..(Base - 1)) /\ token.fraction \in Seq(0..(Base - 1))
    /\ Scale(token) + Places >= 0

ASSUME LimitsAssumption ==
  /\ {MaxScale, MaxSafeScale, MaxRepeat, FloatDigits, FloatPlaces, Places} \subseteq Nat
  /\ MaxRepeat < MaxSafeScale /\ MaxSafeScale < MaxScale /\ FloatDigits > 0

NonZero(digit) == digit # 0
Natural(digits) == FoldLeft(LAMBDA n, digit : n * Base + digit, 0, digits)

-------------------------------------------------------------------------------
(* What a token stands for, as an integer number of the smallest unit.     *)
Power[n \in Nat] == IF n = 0 THEN 1 ELSE Base * Power[n - 1]

One == Power[Places]

Units(token) ==
  LET size == Natural(Digits(token)) * Power[Scale(token) + Places]
  IN  IF token.negative THEN -size ELSE size

Integral(units) == units % One = 0

(* The shapes with numbers: scalars, bounds and literals.  A bound that a  *)
(* schema lacks is an empty set.                                           *)
NumberShapes ==
  {[kind |-> "integer"], [kind |-> "number"]}
  \cup {[kind |-> "literal", value |-> b] : b \in Bounds}
  \cup {[kind |-> "boundedInteger", minimum |-> lower, maximum |-> {}] : lower \in {{b} : b \in Bounds}}
  \cup {[kind |-> "boundedInteger", minimum |-> {}, maximum |-> upper] : upper \in {{b} : b \in Bounds}}

(* The verdict on the number itself.                                       *)
Meets(units, shape) ==
  CASE shape.kind = "number"  -> TRUE
    [] shape.kind = "integer" -> Integral(units)
    [] shape.kind = "literal" -> units = Units(shape.value)
    [] shape.kind = "boundedInteger" ->
         /\ Integral(units)
         /\ \A b \in shape.minimum : Units(b) <= units
         /\ \A b \in shape.maximum : units <= Units(b)

-------------------------------------------------------------------------------
(* Go: sign, digits without zeros at either end, and their scale.          *)
NormalZero == [negative |-> FALSE, digits |-> <<0>>, scale |-> 0]
IsZero(n) == n.digits = <<0>>

UntrimmedNumber(token) ==   \* a wrong exactNumber: zeros at the end stay
  LET digits == Digits(token)
  IN  IF SelectInSeq(digits, NonZero) = 0 THEN NormalZero ELSE
        [negative |-> token.negative,
         digits   |-> SubSeq(digits, SelectInSeq(digits, NonZero), Len(digits)),
         scale    |-> Scale(token)]

exactNumber(token) ==
  LET digits == Digits(token)
      last   == SelectLastInSeq(digits, NonZero)
  IN  IF last = 0 THEN NormalZero ELSE
        [negative |-> token.negative,
         digits   |-> SubSeq(digits, SelectInSeq(digits, NonZero), last),
         scale    |-> Scale(token) + (Len(digits) - last)]

isInteger(n) == IsZero(n) \/ n.scale >= 0

(* -1, 0 or 1 as the left number is less, the same, or greater.            *)
Order(l, r) == IF l < r THEN -1 ELSE IF l > r THEN 1 ELSE 0

Digit(n, i) == IF i \in DOMAIN n.digits THEN n.digits[i] ELSE 0

(* Numbers that are not 0: by the place of the first digit, then by the    *)
(* first place where the digits differ, the shorter one padded with zeros. *)
CompareMagnitudes(l, r) ==
  LET places  == Order(l.scale + Len(l.digits), r.scale + Len(r.digits))
      differs == {i \in 1..Max({Len(l.digits), Len(r.digits)}) : Digit(l, i) # Digit(r, i)}
  IN  IF places # 0 \/ differs = {} THEN places
      ELSE Order(Digit(l, Min(differs)), Digit(r, Min(differs)))

compareNumbers(l, r) ==
  LET order == IF IsZero(l) /\ IsZero(r) THEN 0
               ELSE IF IsZero(l) THEN -1
               ELSE IF IsZero(r) THEN 1
               ELSE CompareMagnitudes(l, r)
  IN  IF l.negative # r.negative THEN IF l.negative THEN -1 ELSE 1
      ELSE IF l.negative THEN -order ELSE order

GoAccepts(token, shape) ==
  LET n == exactNumber(token)
  IN  CASE shape.kind = "number"  -> TRUE
        [] shape.kind = "integer" -> isInteger(n)
        [] shape.kind = "literal" -> n = exactNumber(shape.value)
        [] shape.kind = "boundedInteger" ->
             /\ isInteger(n)
             /\ \A b \in shape.minimum : compareNumbers(n, exactNumber(b)) >= 0
             /\ \A b \in shape.maximum : compareNumbers(n, exactNumber(b)) <= 0

-------------------------------------------------------------------------------
(* Rust: the same normal form, with an i64 for the scale.  {} is None.     *)
FitsI64(n) == n \in (-MaxScale - 1)..MaxScale

normalized_number(token) ==
  {n \in {exactNumber(token)} :
     FitsI64(token.exponent) /\ FitsI64(Scale(token)) /\ FitsI64(n.scale)}

(* The numbers of the schemas fit.                                         *)
ASSUME BoundsAssumption == \A b \in Bounds : normalized_number(b) # {}

is_integer_number(token) == \E n \in normalized_number(token) : isInteger(n)

compare_numbers(l, r) ==
  {compareNumbers(m, n) : m \in normalized_number(l), n \in normalized_number(r)}

same_number(l, r) == l = r \/ normalized_number(l) = normalized_number(r)

RustAccepts(token, shape) ==
  CASE shape.kind = "number"  -> TRUE
    [] shape.kind = "integer" -> is_integer_number(token)
    [] shape.kind = "literal" -> same_number(token, shape.value)
    [] shape.kind = "boundedInteger" ->
         /\ is_integer_number(token)
         /\ \A b \in shape.minimum : compare_numbers(token, b) # {-1}
         /\ \A b \in shape.maximum : compare_numbers(token, b) # {1}

-------------------------------------------------------------------------------
(* Python: an int, or a Decimal if there is a point or an exponent.  Both  *)
(* are exact; a Decimal has a least and a greatest exponent.  The set is   *)
(* empty when json.loads raises.                                           *)
Loaded(token) ==
  IF \/ token.fraction = <<>> /\ token.exponent = 0
     \/ /\ FitsI64(Scale(token))
        /\ FitsI64(Scale(token) + Len(Digits(token)) - 1)
    THEN {Units(token)} ELSE {}

_is_integer(number) == Integral(number)

PythonAccepts(token, shape) ==
  \E number \in Loaded(token) :
    CASE shape.kind = "number"  -> TRUE
      [] shape.kind = "integer" -> _is_integer(number)
      [] shape.kind = "literal" -> number = Units(shape.value)
      [] shape.kind = "boundedInteger" ->
           /\ _is_integer(number)
           /\ \A b \in shape.minimum : number >= Units(b)
           /\ \A b \in shape.maximum : number <= Units(b)

-------------------------------------------------------------------------------
(* JavaScript's Number(token): the nearest double.                         *)
Magnitude(units) == IF units < 0 THEN -units ELSE units

Nearest(token) ==
  LET units == Units(token)
      size  == Magnitude(units)
      lead  == Max({0} \cup {k \in 0..(Len(Digits(token)) + Scale(token) + Places) : Power[k] <= size})
      ulp   == Power[Max({lead - FloatDigits + 1, Places - FloatPlaces, 0})]
      below == (size \div ulp) * ulp
      near  == IF 2 * (size - below) > ulp THEN below + ulp ELSE below
  IN  IF units < 0 THEN -near ELSE near

Safe(units) == Magnitude(units) <= (Power[FloatDigits] - 1) * One

(* The digits of the integer that a token spells, if it spells one.        *)
IntegerDigits(token) ==
  LET digits == Digits(token)
      scale  == Scale(token)
      cut    == Max({0, Len(digits) + scale})
  IN  IF SelectInSeq(digits, NonZero) = 0 THEN {<<0>>}
      ELSE IF scale >= 0 THEN {digits \o [i \in 1..scale |-> 0]}
      ELSE IF SelectLastInSeq(digits, NonZero) <= cut THEN {SubSeq(digits, 1, cut)}
      ELSE {}

(* number(): a safe integer as a number, another one as a bigint, anything *)
(* else as a double unless it would be an integer that is not safe.  {} is *)
(* an exception, of the repetition of zeros too.                           *)
number(token) ==
  LET safe    == Magnitude(Scale(token)) <= MaxSafeScale
      integer == IF safe THEN IntegerDigits(token) ELSE {}
      double  == Nearest(token)
      Signed(n) == IF token.negative THEN -n ELSE n
  IN  IF safe /\ Scale(token) > MaxRepeat /\ integer # {<<0>>} THEN {}
      ELSE IF integer # {}
        THEN {[bigint |-> ~ Safe(n), units |-> n] :
                n \in {Signed(Natural(digits)) * One : digits \in integer}}
      ELSE IF Integral(double) /\ ~ Safe(double) THEN {}
      ELSE {[bigint |-> FALSE, units |-> double]}

isIntegerInTypeScript(value) ==
  value.bigint \/ (Integral(value.units) /\ Safe(value.units))

TypeScriptAccepts(token, shape) ==
  \E value \in number(token) :
    CASE shape.kind = "number"  -> TRUE
      [] shape.kind = "integer" -> isIntegerInTypeScript(value)
      [] shape.kind = "literal" -> value.units = Units(shape.value)
      [] shape.kind = "boundedInteger" ->
           /\ isIntegerInTypeScript(value)
           /\ \A b \in shape.minimum : value.units >= Units(b)
           /\ \A b \in shape.maximum : value.units <= Units(b)

-------------------------------------------------------------------------------
AcceptsNumber(language, token, shape) ==
  CASE language = "go"         -> GoAccepts(token, shape)
    [] language = "rust"       -> RustAccepts(token, shape)
    [] language = "python"     -> PythonAccepts(token, shape)
    [] language = "typescript" -> TypeScriptAccepts(token, shape)

(* A scale that an SDK has no room for.                                    *)
BeyondLimits(language, token) ==
  CASE language = "go"         -> FALSE
    [] language = "rust"       -> normalized_number(token) = {}
    [] language = "python"     -> Loaded(token) = {}
    [] language = "typescript" -> number(token) = {} /\ Magnitude(Scale(token)) > MaxRepeat

(* A fraction that a double does not hold: it may even be an integer then. *)
RoundedFraction(token) ==
  ~ Integral(Units(token)) /\ Nearest(token) # Units(token)

(* A number is judged as the number it is, whatever its spelling and its   *)
(* magnitude, by all four SDKs: integers are told from fractions, bounds   *)
(* and literals compared exactly.  A number is only ever refused for its   *)
(* scale, and only TypeScript may take a number for another one, a         *)
(* fraction that it rounds or refuses to round to an unsafe integer.       *)
NumbersExact ==
  parsed \in Tokens =>
    \A language \in {"go", "rust", "python", "typescript"}, shape \in NumberShapes :
      LET accepted == AcceptsNumber(language, parsed, shape)
      IN  \/ accepted = Meets(Units(parsed), shape)
          \/ ~ accepted /\ BeyondLimits(language, parsed)
          \/ /\ language = "typescript" /\ RoundedFraction(parsed)
             /\ accepted => Meets(Nearest(parsed), shape)
===============================================================================
