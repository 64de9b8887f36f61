------------------------- MODULE RequestFingerprint -------------------------
(***************************************************************************)
(* What a send request must be (internal/domain/request_validation.go) and *)
(* the fingerprint by which the idempotency cache tells whether a second   *)
(* request with its key is the same (internal/domain/helpers.go).          *)
(*                                                                         *)
(* A raw request is a record; Missing stands for a field that is not       *)
(* there, Null for JSON's null and Malformed for any value that a field    *)
(* may not have.  An object is a record of its size and the sequence of    *)
(* its fields, <<name, value>>; a value is <<type, content>>.  A number's  *)
(* content is its literal: a record of its sign, the digits of its integer *)
(* and its fraction, and its exponent.  The hash is left out: the text     *)
(* that is hashed stands for it.                                           *)
(***************************************************************************)
EXTENDS Orders, SequencesExt, FiniteSetsExt

CONSTANTS
  RawRequests,   \* requests that callers send
  Literals,      \* the numbers in them, as they may be written
  Locales,       \* languages a template may be rendered in
  MaxBody, MaxTemplateVars, MaxContext,  \* limits of sizes, in bytes
  MaxFields,     \* maxTemplateVars and maxContextFields: 32 and 16
  PlainPlaces,   \* zeros a number is padded with: defaultMaxTemplateVarBytes
  VarNames,      \* the names a variable may have, as sort.Strings orders them
  Normalized     \* trimmed, in small letters: each recipient's address

(* All variables together have fewer bytes than a number is padded with,   *)
(* unless max_template_var_bytes is raised above its default.  Then a      *)
(* number written with that many zeros and the same with an exponent would *)
(* have two fingerprints.                                                  *)
ASSUME LiteralsFit == \A l \in Literals : Len(l.integer) + Len(l.fraction) <= PlainPlaces + 1

(* What the JSON decoder makes of numbers and objects, the numbers of      *)
(* objects being among Literals.  Limits of sizes make it finite.          *)
ASSUME LiteralsAssumption ==
  /\ PlainPlaces \in Nat /\ IsFiniteSet(Literals)
  /\ \A l \in Literals : /\ l.negative \in BOOLEAN /\ l.exponent \in Int
                         /\ l.integer \in Seq(0..9) /\ l.fraction \in Seq(0..9)
ASSUME ObjectsAssumption ==
  /\ IsFiniteSet(RawRequests) /\ IsFiniteSet(Locales)
  /\ VarNames \in Seq(STRING)
  /\ \A raw \in RawRequests :
       LET fields == raw.vars.fields
       IN /\ fields \in Seq(Range(fields))
          /\ \A i \in DOMAIN fields : fields[i][2][1] = "number" => fields[i][2][2] \in Literals

Missing   == "missing"
Null      == "null"
Malformed == "malformed"

-----------------------------------------------------------------------------
(* ValidateSendRequest. *)

(* decodeObject: the last of the fields with one name counts. *)
Decoded(fields) ==
  [name \in {fields[i][1] : i \in DOMAIN fields} |->
     fields[CHOOSE i \in DOMAIN fields : fields[i][1] = name /\ \A j \in i + 1..Len(fields) : fields[j][1] # name][2]]

(* validateFlatJSONValue, where a string that is too long is malformed. *)
IsFlat(value) == value[1] \in {"bool", "number", "string"} /\ value # <<"string", Malformed>>

IsFlatObject(object) ==
  /\ object.kind = "object"
  /\ LET fields == Decoded(object.fields)
     IN Cardinality(DOMAIN fields) <= MaxFields /\ \A name \in DOMAIN fields : IsFlat(fields[name])

(* validateVarsField and validateContextField, of an object that is there. *)
AreVars(object) == IsFlatObject(object) /\ DOMAIN Decoded(object.fields) \subseteq Range(VarNames)

IsContext(object) ==
  /\ object.size <= MaxContext /\ IsFlatObject(object)
  /\ LET fields == Decoded(object.fields)
     IN \A name \in DOMAIN fields : /\ name # Malformed
                                    /\ name \in {"request_id", "user_ip", "user_id"} => fields[name][1] = "string"

(* What is looked at, in this order, and what is answered if it fails. *)
Checks(raw, allowedLocales) ==
  <<[code |-> "unsupported_media_type",  holds |-> raw.contentType = "application/json"],
    [code |-> "request_too_large",       holds |-> raw.size <= MaxBody],
    [code |-> "invalid_json",            holds |-> raw.body = "object"],
    [code |-> "missing_idempotency_key", holds |-> raw.key # Missing],
    [code |-> "invalid_idempotency_key", holds |-> raw.key # Malformed],
    [code |-> "invalid_json",            holds |-> raw.scene \notin {Missing, Null, Malformed}],
    [code |-> "invalid_recipient",       holds |-> raw.to \in DOMAIN Normalized],
    [code |-> "invalid_locale",
     holds |-> \/ raw.locale = Missing
               \/ /\ raw.locale \notin {Null, Malformed}
                  /\ allowedLocales = {} \/ raw.locale \in allowedLocales],
    [code |-> "request_too_large",       holds |-> raw.vars.kind = Missing \/ raw.vars.size <= MaxTemplateVars],
    [code |-> "invalid_template_vars",   holds |-> raw.vars.kind = Missing \/ AreVars(raw.vars)],
    [code |-> "invalid_context",         holds |-> raw.context.kind = Missing \/ IsContext(raw.context)]>>

ValidateSendRequest(raw, allowedLocales) ==
  LET checks == Checks(raw, allowedLocales)
      failed == SelectInSeq(checks, LAMBDA check : ~check.holds)
  IN IF failed = 0 THEN "valid" ELSE checks[failed].code

(* The parts of a valid request that a fingerprint is made of. *)
ToOf(raw)   == Normalized[raw.to]
VarsOf(raw) == IF raw.vars.kind = Missing THEN << >> ELSE Decoded(raw.vars.fields)

-----------------------------------------------------------------------------
(* canonicalJSONNumber. *)

(* A number as it is written: exponent 0 and an empty fraction are not. *)
Text(negative, integer, fraction, exponent) ==
  [negative |-> negative, integer |-> integer, fraction |-> fraction, exponent |-> exponent]

Zeros(n) == [i \in 1..n |-> 0]

(* strings.TrimLeft of zeros, and how many zeros there are at the end. *)
TrimLeft(digits) ==
  LET first == SelectInSeq(digits, LAMBDA d : d # 0)
  IN IF first = 0 THEN << >> ELSE SubSeq(digits, first, Len(digits))

TrailingZeros(digits) == Len(digits) - SelectLastInSeq(digits, LAMBDA d : d # 0)

(* canonicalScientificNumber: all zeros at the end go into the exponent. *)
Scientific(negative, digits, exponent) ==
  LET zeros == TrailingZeros(digits)
  IN Text(negative, SubSeq(digits, 1, Len(digits) - zeros), << >>, exponent + zeros)

(* Seeded fault: the exponent that is bounded is the one as written. *)
PadsPlainlyAsWritten(digits, exponent) == exponent <= PlainPlaces

(* A number too large to be written without an exponent, for which it does *)
(* not matter how many of its zeros are digits.                            *)
PadsPlainly(digits, exponent) == exponent + TrailingZeros(digits) <= PlainPlaces

(* Digits times a power of ten, without zeros in front, and without zeros  *)
(* at the end if the power is negative.                                    *)
CanonicalNumber(negative, digits, exponent) ==
  LET places == -exponent IN
  CASE digits = << >> -> Text(FALSE, <<0>>, << >>, 0)
    [] digits # << >> /\ exponent >= 0 ->
         IF exponent = 0 \/ PadsPlainly(digits, exponent)
         THEN Text(negative, digits \o Zeros(exponent), << >>, 0)
         ELSE Scientific(negative, digits, exponent)
    [] digits # << >> /\ exponent < 0 ->
         CASE places < Len(digits) ->
                Text(negative, SubSeq(digits, 1, Len(digits) - places),
                     SubSeq(digits, Len(digits) - places + 1, Len(digits)), 0)
           [] places >= Len(digits) /\ places <= PlainPlaces + Len(digits) ->
                Text(negative, <<0>>, Zeros(places - Len(digits)) \o digits, 0)
           [] OTHER -> Scientific(negative, digits, exponent)

(* Zeros at the end are taken off only as long as the exponent is negative. *)
CanonicalJSONNumber(literal) ==
  LET digits   == TrimLeft(literal.integer \o literal.fraction)
      exponent == literal.exponent - Len(literal.fraction)
      shed     == Min({TrailingZeros(digits), Max({0, -exponent})})
  IN CanonicalNumber(literal.negative, SubSeq(digits, 1, Len(digits) - shed), exponent + shed)

-----------------------------------------------------------------------------
(* writeCanonicalValue, of the types that JSON has; strings are quoted. *)
CanonicalValue(value) ==
  IF value[1] = "number" THEN <<"number", CanonicalJSONNumber(value[2])>> ELSE value

(* writeCanonicalVars: by name. *)
CanonicalVars(fields) ==
  LET named == {i \in DOMAIN VarNames : VarNames[i] \in DOMAIN fields}
      Name(n) == VarNames[Nth(named, n)]
  IN [n \in 1..Cardinality(named) |-> <<Name(n), CanonicalValue(fields[Name(n)])>>]

Fingerprint(to, locale, fields) == <<locale, to, CanonicalVars(fields)>>

-----------------------------------------------------------------------------
(* What a number is: its sign and the places of its digits but zero. *)
NumberOf(literal) ==
  LET digits == literal.integer \o literal.fraction
      places == {<<literal.exponent - Len(literal.fraction) + Len(digits) - i, digits[i]>> :
                   i \in {i \in DOMAIN digits : digits[i] # 0}}
  IN [negative |-> literal.negative /\ places # {}, places |-> places]

(* The two functions tell the same members of a set apart. *)
TellSameApart(F(_), G(_), S) ==
  LET pairs == {<<F(x), G(x)>> : x \in S}
  IN Cardinality({F(x) : x \in S}) = Cardinality(pairs) /\ Cardinality({G(x) : x \in S}) = Cardinality(pairs)

(* What the fields of an object mean: which are set to what.  *)
MeaningOfVars(fields) ==
  {<<name, IF fields[name][1] = "number" THEN <<"number", NumberOf(fields[name][2])>> ELSE fields[name]>> :
     name \in DOMAIN fields}

MeaningOf(raw, locale) == <<ToOf(raw), locale, MeaningOfVars(VarsOf(raw))>>

(* Of all requests that are valid, in each language they may be rendered   *)
(* in, and of all numbers, those that are written differently but mean the *)
(* same have one fingerprint, and no others do.                            *)
FingerprintsTellSameApart ==
  LET valid == {raw \in RawRequests : ValidateSendRequest(raw, Locales) = "valid"}
  IN /\ TellSameApart(CanonicalJSONNumber, NumberOf, Literals)
     /\ TellSameApart(LAMBDA r : Fingerprint(ToOf(r[1]), r[2], VarsOf(r[1])),
                      LAMBDA r : MeaningOf(r[1], r[2]), valid \X Locales)
=============================================================================
