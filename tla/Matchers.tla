------------------------------ MODULE Matchers ------------------------------
(***************************************************************************)
(* The matchers of targeting rules that read no storage: what a rule's     *)
(* data becomes (matchersTransform), what the value to be matched becomes  *)
(* (value/sanitize) and when the two match, Semver included.               *)
(*                                                                         *)
(* A text is the sequence of its character codes. A value is a record of   *)
(* its JavaScript type and its content; a matcher is a record of its       *)
(* matcherType, its attribute (NoAttribute for the key), negate, its data  *)
(* and whether the data are dates. Dates count seconds.                    *)
(***************************************************************************)
EXTENDS Integers, Sequences, SequencesExt

NoAttribute == ""
Undefined == [type |-> "undefined"]
Number(n) == [type |-> "number", v |-> n]
Text(s) == [type |-> "string", v |-> s]
Boolean(b) == [type |-> "boolean", v |-> b]
Texts(ss) == [type |-> "array", v |-> ss]

(***************************************************************************)
(* The matcher's data.                                                     *)
(***************************************************************************)
NumberMatchers == {"EQUAL_TO", "GREATER_THAN_OR_EQUAL_TO", "LESS_THAN_OR_EQUAL_TO", "BETWEEN"}
SetMatchers == {"EQUAL_TO_SET", "CONTAINS_ANY_OF_SET", "CONTAINS_ALL_OF_SET", "PART_OF_SET"}
TextMatchers == {"WHITELIST", "STARTS_WITH", "ENDS_WITH", "CONTAINS_STRING", "MATCHES_STRING"}
SemverMatchers == {"EQUAL_TO_SEMVER", "GREATER_THAN_OR_EQUAL_TO_SEMVER", "LESS_THAN_OR_EQUAL_TO_SEMVER",
                   "BETWEEN_SEMVER", "IN_LIST_SEMVER"}
StorageMatchers == {"IN_SEGMENT", "IN_LARGE_SEGMENT", "IN_SPLIT_TREATMENT", "IN_RULE_BASED_SEGMENT"}
MatcherTypes == NumberMatchers \cup SetMatchers \cup TextMatchers \cup SemverMatchers
                  \cup StorageMatchers \cup {"ALL_KEYS", "EQUAL_TO_BOOLEAN"}

MatcherTypesMapper(t) == IF t \in MatcherTypes THEN t ELSE "UNDEFINED"

ZeroSinceHH(seconds) == seconds - (seconds % 86400)
ZeroSinceSS(seconds) == seconds - (seconds % 60)
Zeroed(t, n) == IF t = "EQUAL_TO" THEN ZeroSinceHH(n) ELSE ZeroSinceSS(n)

DataType(m) ==
  CASE m.matcherType \in NumberMatchers -> IF m.dateTime THEN "DATETIME" ELSE "NUMBER"
    [] m.matcherType \in SetMatchers -> "SET"
    [] m.matcherType = "EQUAL_TO_BOOLEAN" -> "BOOLEAN"
    [] m.matcherType \in {"IN_SPLIT_TREATMENT", "IN_RULE_BASED_SEGMENT"} -> "NOT_SPECIFIED"
    [] OTHER -> "STRING"

RuleValue(m) ==
  CASE DataType(m) # "DATETIME" -> m.data
    [] m.matcherType = "BETWEEN" -> [start |-> ZeroSinceSS(m.data.start), end |-> ZeroSinceSS(m.data.end)]
    [] OTHER -> Zeroed(m.matcherType, m.data)

\* One matcher of an unknown type leaves the group without matchers.
MatchersTransform(ms) ==
  IF \E i \in DOMAIN ms : MatcherTypesMapper(ms[i].matcherType) = "UNDEFINED" THEN <<>>
  ELSE [i \in DOMAIN ms |-> [type |-> ms[i].matcherType, attribute |-> ms[i].attribute, negate |-> ms[i].negate,
                             value |-> RuleValue(ms[i]), dataType |-> DataType(ms[i])]]

(***************************************************************************)
(* The value to be matched.                                                *)
(***************************************************************************)
Digit(c) == c \in 48 .. 57
NumericText(s) == \A i \in DOMAIN s : Digit(s[i])
NumberIn(s) == FoldLeft(LAMBDA n, c : 10 * n + c - 48, 0, s)

RECURSIVE Decimal(_)
Decimal(n) == IF n < 10 THEN <<48 + n>> ELSE Decimal(n \div 10) \o <<48 + (n % 10)>>

TrueText == <<116, 114, 117, 101>>
FalseText == <<102, 97, 108, 115, 101>>
Lower(s) == [i \in DOMAIN s |-> IF s[i] \in 65 .. 90 THEN s[i] + 32 ELSE s[i]]

\* +'' is 0.
SanitizeNumber(val) ==
  CASE val.type = "number" -> val
    [] val.type = "boolean" -> Number(IF val.v THEN 1 ELSE 0)
    [] val.type = "string" /\ NumericText(val.v) -> Number(NumberIn(val.v))
    [] OTHER -> Undefined

ToText(val) ==
  CASE val.type = "string" -> val.v
    [] val.type = "number" -> Decimal(val.v)
    [] val.type = "boolean" -> IF val.v THEN TrueText ELSE FalseText
    [] val.type = "array" /\ val.v # <<>> -> FoldLeft(LAMBDA a, e : a \o <<44>> \o e, Head(val.v), Tail(val.v))
    [] val.type = "key" -> val.v.matchingKey
    [] OTHER -> <<>>
NonEmpty(s) == IF s = <<>> THEN Undefined ELSE Text(s)
SanitizeString(val) == NonEmpty(ToText(val))

Uniq(s) == FoldLeft(LAMBDA seen, e : IF Contains(seen, e) THEN seen ELSE Append(seen, e), <<>>, s)
SanitizeArray(val) == IF val.type = "array" /\ val.v # <<>> THEN Texts(Uniq(val.v)) ELSE Undefined

SanitizeBoolean(val) ==
  CASE val.type = "boolean" -> val
    [] val.type = "string" /\ Lower(val.v) = TrueText -> Boolean(TRUE)
    [] val.type = "string" /\ Lower(val.v) = FalseText -> Boolean(FALSE)
    [] OTHER -> Undefined

Sanitize(m, val) ==
  CASE m.dataType = "NUMBER" -> SanitizeNumber(val)
    [] m.dataType = "DATETIME" ->
         IF SanitizeNumber(val) = Undefined THEN Undefined ELSE Number(Zeroed(m.type, SanitizeNumber(val).v))
    [] m.dataType = "STRING" -> SanitizeString(val)
    [] m.dataType = "SET" -> SanitizeArray(val)
    [] m.dataType = "BOOLEAN" -> SanitizeBoolean(val)
    [] m.dataType = "NOT_SPECIFIED" -> val

ParseValue(m, key, attributes) ==
  CASE m.attribute = NoAttribute -> key
    [] m.attribute \in DOMAIN attributes -> attributes[m.attribute]
    [] OTHER -> Undefined
SanitizeValue(m, key, attributes) == Sanitize(m, ParseValue(m, key, attributes))

(***************************************************************************)
(* Versions.                                                               *)
(***************************************************************************)
\* The text before and after the first character c, the second one empty when
\* there is none; and the pieces between the characters c.
CutAt(s, c) == LET i == SelectInSeq(s, LAMBDA x : x = c)
               IN IF i = 0 THEN <<s, <<>>, FALSE>> ELSE <<SubSeq(s, 1, i - 1), SubSeq(s, i + 1, Len(s)), TRUE>>
Pieces(s, c) == FoldLeft(LAMBDA ps, x : IF x = c THEN Append(ps, <<>>)
                                        ELSE [ps EXCEPT ![Len(ps)] = Append(@, x)], << <<>> >>, s)

\* Leading zeros are dropped, the last digit is kept.
SanitizeNumericIdentifier(s) ==
  LET i == SelectInSeq(s, LAMBDA c : c # 48) IN IF i = 0 THEN <<48>> ELSE SubSeq(s, i, Len(s))
Identifier(s) == IF NumericText(s) THEN SanitizeNumericIdentifier(s) ELSE s

Version(meta, pre, core, ids) ==
  IF /\ meta[3] => meta[2] # <<>>
     /\ \A i \in DOMAIN ids : ids[i] # <<>>
     /\ Len(core) = 3
     /\ \A i \in DOMAIN core : core[i] # <<>> /\ NumericText(core[i])
  THEN [valid |-> TRUE, stable |-> ~pre[3], metadata |-> meta[2],
        core |-> [i \in 1 .. 3 |-> SanitizeNumericIdentifier(core[i])],
        preRelease |-> [i \in DOMAIN ids |-> Identifier(ids[i])]]
  ELSE [valid |-> FALSE]
\* The metadata, then the pre-release, are cut off.
WithoutMetadata(meta, pre) == Version(meta, pre, Pieces(pre[1], 46), IF pre[3] THEN Pieces(pre[2], 46) ELSE <<>>)
Unversioned(meta) == WithoutMetadata(meta, CutAt(meta[1], 45))
Semver(s) == Unversioned(CutAt(s, 43))

\* a < b for texts.
Below(a, b) ==
  \/ IsStrictPrefix(a, b)
  \/ \E i \in DOMAIN a \cap DOMAIN b : a[i] < b[i] /\ \A j \in 1 .. i - 1 : a[j] = b[j]

CompareStrings(a, b) ==
  CASE NumericText(a) /\ NumericText(b) /\ Len(a) # Len(b) -> Len(a) - Len(b)
    [] a = b -> 0
    [] Below(a, b) -> 0 - 1
    [] OTHER -> 1

\* The first of the comparisons that is not 0, or otherwise the last argument.
FirstOf(cs, otherwise) ==
  LET i == SelectInSeq(cs, LAMBDA c : c # 0) IN IF i = 0 THEN otherwise ELSE cs[i]
CompareAll(a, b) == [i \in DOMAIN a \cap DOMAIN b |-> CompareStrings(a[i], b[i])]

Compare(a, b) ==
  FirstOf(CompareAll(a.core, b.core),
          CASE a = b -> 0
            [] ~a.stable /\ b.stable -> 0 - 1
            [] a.stable /\ ~b.stable -> 1
            [] OTHER -> FirstOf(CompareAll(a.preRelease, b.preRelease), Len(a.preRelease) - Len(b.preRelease)))

(***************************************************************************)
(* Matching. A matcher that throws, or whose factory did, does not match.  *)
(***************************************************************************)
Between(rule, v) == rule.start <= v /\ v <= rule.end
EqualToSet(rule, v) == Len(v) = Len(rule) /\ \A i \in DOMAIN v : Contains(rule, v[i])
ContainsAnyOfSet(rule, v) == \E i \in DOMAIN rule : Contains(v, rule[i])
ContainsAllOfSet(rule, v) == Len(v) >= Len(rule) /\ \A i \in DOMAIN rule : Contains(v, rule[i])
PartOfSet(rule, v) == Len(v) <= Len(rule) /\ \A i \in DOMAIN v : Contains(rule, v[i])
StartsWith(rule, v) == \E i \in DOMAIN rule : IsPrefix(rule[i], v)
EndsWith(rule, v) == \E i \in DOMAIN rule : IsSuffix(rule[i], v)
ContainsString(rule, v) ==
  \E i \in DOMAIN rule, n \in 0 .. Len(v) : IsPrefix(rule[i], SubSeq(v, n + 1, Len(v)))
\* A regular expression is the set of the texts it matches.
MatchesString(rule, v) == v \in rule
Whitelist(rule, v) == Contains(rule, v)

RuleVersions(type, rule) ==
  CASE type = "BETWEEN_SEMVER" -> <<rule.start, rule.end>> [] type = "IN_LIST_SEMVER" -> rule [] OTHER -> <<rule>>
SemverMatch(type, r, all) ==
  /\ r.valid
  /\ all # <<>>
  /\ \A i \in DOMAIN all : all[i].valid
  /\ \/ type \in {"EQUAL_TO_SEMVER", "IN_LIST_SEMVER"} /\ Contains(all, r)
     \/ type \in {"GREATER_THAN_OR_EQUAL_TO_SEMVER", "BETWEEN_SEMVER"} /\ Compare(r, all[1]) >= 0
          /\ (type = "BETWEEN_SEMVER" => Compare(r, all[2]) <= 0)
     \/ type = "LESS_THAN_OR_EQUAL_TO_SEMVER" /\ Compare(r, all[1]) <= 0
Semvers(texts) == [i \in DOMAIN texts |-> Semver(texts[i])]

Match(m, val) ==
  val # Undefined /\
  CASE m.type = "ALL_KEYS" -> TRUE
    [] m.type = "WHITELIST" -> Whitelist(m.value, val.v)
    [] m.type \in {"EQUAL_TO", "EQUAL_TO_BOOLEAN"} -> val.v = m.value
    [] m.type = "GREATER_THAN_OR_EQUAL_TO" -> val.v >= m.value
    [] m.type = "LESS_THAN_OR_EQUAL_TO" -> val.v <= m.value
    [] m.type = "BETWEEN" -> Between(m.value, val.v)
    [] m.type = "EQUAL_TO_SET" -> EqualToSet(m.value, val.v)
    [] m.type = "CONTAINS_ANY_OF_SET" -> ContainsAnyOfSet(m.value, val.v)
    [] m.type = "CONTAINS_ALL_OF_SET" -> ContainsAllOfSet(m.value, val.v)
    [] m.type = "PART_OF_SET" -> PartOfSet(m.value, val.v)
    [] m.type = "STARTS_WITH" -> StartsWith(m.value, val.v)
    [] m.type = "ENDS_WITH" -> EndsWith(m.value, val.v)
    [] m.type = "CONTAINS_STRING" -> ContainsString(m.value, val.v)
    [] m.type = "MATCHES_STRING" -> MatchesString(m.value, val.v)
    [] m.type \in SemverMatchers -> SemverMatch(m.type, Semver(val.v), Semvers(RuleVersions(m.type, m.value)))
=============================================================================
