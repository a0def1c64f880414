------------------------------ MODULE Validation ------------------------------
(***************************************************************************)
(* utils/inputValidation: what the client makes of what it is given. An    *)
(* input is a value of Matchers, an object [type |-> "object", v |-> ...]  *)
(* being a function or a record of inputs; a name is a text. An invalid    *)
(* name, key or list is empty.                                             *)
(***************************************************************************)
EXTENDS Evaluator

Object(v) == [type |-> "object", v |-> v]
IsObject(raw) == raw.type = "object"
IsString(raw) == raw.type = "string"

Space == 32
Trim(s) ==
  LET first == SelectInSeq(s, LAMBDA c : c # Space)
  IN IF first = 0 THEN <<>> ELSE SubSeq(s, first, SelectLastInSeq(s, LAMBDA c : c # Space))

(***************************************************************************)
(* Keys, names, flag sets and attributes.                                  *)
(***************************************************************************)
KeyMaxLength == 250
NoKey == Text(<<>>)

ValidateKeyValue(raw) ==
  LET s == IF raw.type = "string" THEN Trim(raw.v) ELSE IF raw.type = "number" THEN Decimal(raw.v) ELSE <<>>
  IN IF Len(s) <= KeyMaxLength THEN s ELSE <<>>

ValidateKey(raw) ==
  IF ~IsObject(raw) THEN Text(ValidateKeyValue(raw))
  ELSE LET m == ValidateKeyValue(raw.v.matchingKey)
           b == ValidateKeyValue(raw.v.bucketingKey)
       IN IF m # <<>> /\ b # <<>> THEN KeyObject(m, b) ELSE NoKey

ValidateDefinition(raw) == IF IsString(raw) THEN Trim(raw.v) ELSE <<>>
ValidateDefinitions(raw) ==
  IF raw.type = "array" THEN {ValidateDefinition(raw.v[i]) : i \in DOMAIN raw.v} \ {<<>>} ELSE {}

\* /^[a-z0-9][_a-z0-9]{0,49}$/, in lower case.
ValidFlagSet(s) ==
  /\ Len(s) \in 1 .. 50
  /\ \A i \in DOMAIN s : s[i] \in 97 .. 122 \/ Digit(s[i]) \/ (i > 1 /\ s[i] = 95)
SanitizeFlagSets(sets) == {s \in {Lower(t) : t \in sets} : ValidFlagSet(s)}
ValidateFlagSets(raw, configured) ==
  {s \in SanitizeFlagSets(ValidateDefinitions(raw)) : configured # {} => s \in configured}

\* The filters of the settings, a sequence of types and values: what remains of each
\* type, RefusedFilters when there are too many values of one. A filter by sets leaves none
\* of the others.
FilterMaxLength == [bySet |-> 50, byName |-> 400, byPrefix |-> 50]
RefusedFilters == <<>>
NoFilters == [type \in DOMAIN FilterMaxLength |-> {}]
ValidateSplitFilter(type, names) == IF type = "bySet" THEN SanitizeFlagSets(names) ELSE names
ValidateSplitFilters(filters, consumer) ==
  LET valid == {i \in DOMAIN filters : filters[i].type \in DOMAIN FilterMaxLength /\ filters[i].values.type = "array"}
      Given(type) == UNION {ValidateDefinitions(filters[i].values) : i \in {j \in valid : filters[j].type = type}}
      bySet == \E i \in valid : filters[i].type = "bySet" /\ filters[i].values.v # <<>>
      Kept(type) == ValidateSplitFilter(type, Given(type))
  IN CASE consumer -> NoFilters
       [] ~consumer /\ (\E type \in DOMAIN FilterMaxLength : Cardinality(Kept(type)) > FilterMaxLength[type]) -> RefusedFilters
       [] OTHER -> [type \in DOMAIN FilterMaxLength |->
                      IF bySet /\ type # "bySet" THEN {} ELSE Kept(type)]

NoAttributes == <<>>
ValidAttributes(raw) == raw.type = "undefined" \/ IsObject(raw)
ValidateAttributes(raw) == IF IsObject(raw) THEN raw.v ELSE NoAttributes
ValidateAttribute(name, val) == name # NoAttribute /\ val.type \in {"string", "number", "boolean", "array"}

(***************************************************************************)
(* Properties: their size is counted as they are looked at, and the first  *)
(* one too many drops all of them.                                         *)
(***************************************************************************)
BaseEventSize == 1024
MaxEventSize == 1024 * 32
SizeOf(val) ==
  CASE val.type = "string" -> 2 * Len(val.v)
    [] val.type = "boolean" -> 4
    [] val.type = "number" -> 8
    [] OTHER -> 0

\* properties is a sequence of names and values.
ValidateEventProperties(raw) ==
  IF ~IsObject(raw) THEN [valid |-> raw.type = "undefined", properties |-> <<>>, size |-> BaseEventSize]
  ELSE LET sizes == [i \in DOMAIN raw.v |-> 2 * Len(raw.v[i].name) + SizeOf(raw.v[i].val)]
           Upto(n) == FoldLeft(LAMBDA sum, size : sum + size, BaseEventSize, SubSeq(sizes, 1, n))
           last == SelectInSeq([n \in DOMAIN sizes |-> Upto(n)], LAMBDA size : size > MaxEventSize)
       IN [valid |-> last = 0, properties |-> IF last = 0 THEN raw.v ELSE <<>>,
           size |-> Upto(IF last = 0 THEN Len(sizes) ELSE last)]

NoOptions == [properties |-> FALSE, impressionsDisabled |-> FALSE]
ValidateEvaluationOptions(raw) ==
  IF ~IsObject(raw) THEN NoOptions
  ELSE [properties |-> ValidateEventProperties(raw.v.properties).properties # <<>>,
        impressionsDisabled |-> raw.v.impressionsDisabled]

(***************************************************************************)
(* Events.                                                                 *)
(***************************************************************************)
ValidateTrafficType(raw) == IF IsString(raw) THEN Lower(raw.v) ELSE <<>>

\* /^[a-zA-Z0-9][-_.:a-zA-Z0-9]{0,79}$/
ValidateEvent(raw) ==
  LET Letter(c) == c \in 97 .. 122 \/ c \in 65 .. 90 \/ Digit(c)
  IN IF /\ IsString(raw)
        /\ Len(raw.v) \in 1 .. 80
        /\ \A i \in DOMAIN raw.v : Letter(raw.v[i]) \/ (i > 1 /\ raw.v[i] \in {45, 95, 46, 58})
     THEN raw.v ELSE <<>>
ValidateEventValue(raw) == raw.type \in {"undefined", "number"}
=============================================================================
