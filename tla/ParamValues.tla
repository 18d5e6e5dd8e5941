---------------------------- MODULE ParamValues ----------------------------
(***************************************************************************)
(* Values of parameters and their conversions                              *)
(* (internal/ccu/rpcfunctions.go and mastermodel.go, internal/converter).  *)
(*                                                                         *)
(* A value is [type, of] with the type "bool", "int", "real" or "fraction" *)
(* (of and a half), a string that spells one ("boolText", "text" for a    *)
(* whole number, "fractionText"), or "string": a label that no number     *)
(* starts.  A description has type, write (its OPERATIONS), internal (its  *)
(* FLAGS), min, max, spelled (whether the bounds are strings), special     *)
(* (the numbers of SPECIAL, and 0 for a name in it), labels and default; a *)
(* bound NoValue is not given, or is a label.                              *)
(***************************************************************************)
EXTENDS Integers, Sequences, FiniteSets, SequencesExt, Functions

CONSTANT NoValue  \* no value, or a value that is refused

\* fmt.Sprintf("%v"): what spells a value of a type.
Spelling == [bool |-> "boolText", int |-> "text", real |-> "text", fraction |-> "fractionText"]
Texts == {"boolText", "text", "fractionText"}

Value == [type : {"bool", "int", "real", "fraction"} \cup Texts, of : Int]
           \cup [type : {"string"}, of : STRING]

ASSUME ValueAssumption == NoValue \notin Value \cup Int

\* f with the value v for key, and f where it has a value, g elsewhere.
Entered(f, key, v) == [k \in {key} \cup DOMAIN f |-> IF k = key THEN v ELSE f[k]]
Over(f, g) == [k \in DOMAIN f \cup DOMAIN g |-> IF k \in DOMAIN f THEN f[k] ELSE g[k]]

Bool(b)    == [type |-> "bool", of |-> IF b THEN 1 ELSE 0]
Integer(n) == [type |-> "int", of |-> n]
Real(n)    == [type |-> "real", of |-> n]
Label(l)   == [type |-> "string", of |-> l]

IsString(v) == v.type \in Texts \cup {"string"}
Half(v)     == v.type \in {"fraction", "fractionText"}

\* toFloat without the half: what is no number parses as zero.
Whole(v) == IF v.type \in {"string", "boolText"} THEN 0 ELSE v.of

\* int of toFloat, towards zero.
Number(v) == IF Half(v) /\ v.of < 0 THEN v.of + 1 ELSE Whole(v)

\* toBool: of the strings only those that spell true or 1.
IsTrue(v) ==
  CASE v.type \in {"boolText", "text"}        -> v.of = 1
    [] v.type \in {"string", "fractionText"} -> FALSE
    [] v.type = "fraction"                     -> TRUE
    [] OTHER                                   -> v.of # 0

\* enumLabelIndex: labels count from 0, and the first match wins.
LabelIndexes(label, desc) == {i \in 1 .. Len(desc.labels) : desc.labels[i] = label}
LabelIndex(label, desc) == (CHOOSE i \in LabelIndexes(label, desc) :
                              \A j \in LabelIndexes(label, desc) : i <= j) - 1
InValueList(v, desc) == v.type = "string" /\ LabelIndexes(v.of, desc) # {}

\* convertParamValue.
Typed(v, type) ==
  CASE type = "BOOL"                               -> Bool(IsTrue(v))
    [] type = "STRING" /\ v.type \in DOMAIN Spelling -> [type |-> Spelling[v.type], of |-> v.of]
    [] type \in {"INTEGER", "ENUM"}                -> Integer(Number(v))
    [] type = "FLOAT" /\ Half(v)                   -> [type |-> "fraction", of |-> v.of]
    [] type = "FLOAT" /\ ~Half(v)                  -> Real(Whole(v))
    [] OTHER                                       -> v

Below(v, n) == n # NoValue /\ Whole(v) < n
Above(v, n) == n # NoValue /\ (Whole(v) > n \/ (Whole(v) = n /\ Half(v)))

AtLeast(v, n) == IF Below(v, n) THEN Real(n) ELSE v
AtMost(v, n)  == IF Above(v, n) THEN Real(n) ELSE v

\* clampTo: the minimum, then the maximum.
ClampTo(v, limits) == AtMost(AtLeast(v, limits.min), limits.max)

\* The bounds that clampTo and validateEnumBounds look at: a string is none.
Limits(desc) == IF desc.spelled THEN [min |-> NoValue, max |-> NoValue]
                ELSE [min |-> desc.min, max |-> desc.max]

\* What toFloat makes of a bound.
Bound(n) == IF n = NoValue THEN 0 ELSE n

\* clampNumeric: a special value is not clamped, a bound that is not given is 0,
\* and the minimum is tested last.
Clamp(v, desc) ==
  IF ~Half(v) /\ v.of \in desc.special THEN v
  ELSE AtLeast(AtMost(v, Bound(desc.max)), Bound(desc.min))

\* validateEnumBounds.
OutOfBounds(n, desc) ==
  LET limits == Limits(desc) IN
  limits.max # NoValue /\ n \notin Bound(limits.min) .. limits.max

\* What putParamset stores for a value; NoValue when it refuses it.
Stored(v, desc) ==
  LET labelled == desc.type = "ENUM" /\ IsString(v)
      index    == IF labelled THEN Integer(LabelIndex(v.of, desc)) ELSE Typed(v, desc.type)
  IN CASE labelled /\ ~InValueList(v, desc) -> NoValue
       [] desc.type = "ENUM" /\ OutOfBounds(index.of, desc) -> NoValue
       [] desc.type \in {"INTEGER", "FLOAT"} -> Typed(Clamp(index, desc), desc.type)
       [] OTHER -> index

\* buildDefaults: internal parameters are left out, and the label of an enum
\* becomes its index.
Defaults(descs) ==
  [p \in {q \in DOMAIN descs : ~descs[q].internal} |->
     LET d == descs[p].default IN
     IF descs[p].type = "ENUM" /\ InValueList(d, descs[p])
     THEN Integer(LabelIndex(d.of, descs[p])) ELSE d]

-----------------------------------------------------------------------------
(* Combined parameters: their value is a sequence of [key, level], parsed  *)
(* and in the unit of the level; a level that is no number stays a label.  *)

\* combinedParameterNames.
CombinedNames == [L |-> "LEVEL", L2 |-> "LEVEL_2"]

IsConvertable(p) == p \in {"COMBINED_PARAMETER", "LEVEL_COMBINED"}

\* convertCombinedParameter: an unknown key is left out, and a key that comes
\* twice takes its last level.
ConvertCombined(pairs) ==
  LET known == {i \in 1 .. Len(pairs) : pairs[i].key \in DOMAIN CombinedNames}
      named(p) == {i \in known : CombinedNames[pairs[i].key] = p}
  IN [p \in {CombinedNames[pairs[i].key] : i \in known} |-> pairs[Max(named(p))].level]

\* convertLevelCombined: nothing comes of a value without a comma.
ConvertLevels(pairs) ==
  IF Len(pairs) < 2 THEN <<>> ELSE [LEVEL |-> pairs[1].level, LEVEL_SLATS |-> pairs[2].level]

\* ConvertCombinedParameterToParamset.
Expanded(p, pairs) ==
  IF p = "COMBINED_PARAMETER" THEN ConvertCombined(pairs) ELSE ConvertLevels(pairs)

-----------------------------------------------------------------------------
(* The values of a MASTER write model                                      *)

\* number and integral.
IsNumber(v)   == v.type \in {"int", "real", "fraction"}
IsIntegral(v) == v.type \in {"int", "real"}

\* sameValue: numbers are compared by value.
SameValue(v, w) ==
  \/ v = w
  \/ (IsIntegral(v) /\ IsIntegral(w) /\ v.of = w.of)

\* hmipStoredValue: the value that is stored, valid or not.
HmipStored(v, desc) ==
  CASE desc.type \in {"BOOL", "ACTION"} /\ IsIntegral(v) /\ v.of \in {0, 1} -> Bool(v.of = 1)
    [] desc.type = "INTEGER" /\ IsIntegral(v)     -> Integer(v.of)
    [] desc.type = "ENUM" /\ InValueList(v, desc)      -> Integer(LabelIndex(v.of, desc))
    [] desc.type = "ENUM" /\ IsIntegral(v)
         /\ v.of \in 0 .. Len(desc.labels) - 1    -> Integer(v.of)
    [] OTHER                                      -> v

\* hmipStoredValue: whether it is valid; MIN and MAX are not looked at.
HmipValid(v, desc) ==
  CASE desc.type \in {"BOOL", "ACTION"} -> v.type = "bool" \/ (IsIntegral(v) /\ v.of \in {0, 1})
    [] desc.type = "INTEGER" -> IsIntegral(v)
    [] desc.type = "FLOAT"   -> IsNumber(v)
    [] desc.type = "ENUM"    -> \/ InValueList(v, desc)
                                \/ (IsIntegral(v) /\ v.of \in 0 .. Len(desc.labels) - 1)
    [] desc.type = "STRING"  -> IsString(v)
    [] OTHER                 -> TRUE

\* math.Round of a number, away from zero at a half, and leadingInt of a string.
Rounded(v) ==
  CASE v.type = "bool"     -> 0
    [] v.type = "fraction" -> IF v.of >= 0 THEN v.of + 1 ELSE v.of
    [] OTHER               -> Number(v)

\* bidcosStoredValue; NoValue when rfd ignores the value.
BidcosStored(v, desc) ==
  LET limits == Limits(desc)
      last   == Len(desc.labels) - 1
  IN
  CASE desc.type \in {"BOOL", "ACTION"} -> IF v.type = "bool" THEN v ELSE NoValue
    [] desc.type = "INTEGER" -> Integer(ClampTo(Integer(Rounded(v)), limits).of)
    [] desc.type = "FLOAT"   -> IF v.type = "int" THEN NoValue
                                ELSE ClampTo(IF v.type = "bool" THEN Real(0) ELSE Typed(v, "FLOAT"), limits)
    [] desc.type = "ENUM" /\ IsString(v) ->
         IF InValueList(v, desc) THEN Integer(LabelIndex(v.of, desc)) ELSE NoValue
    [] desc.type = "ENUM" /\ ~IsString(v) ->
         IF ~IsIntegral(v) THEN NoValue
         ELSE IF desc.labels = <<>> THEN Integer(v.of)
         ELSE Integer(ClampTo(v, [max |-> last, min |-> 0]).of)
    [] desc.type = "STRING"  -> IF IsString(v) THEN v ELSE NoValue
    [] OTHER                 -> v
=============================================================================
