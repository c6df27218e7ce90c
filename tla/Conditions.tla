------------------------------ MODULE Conditions ------------------------------
(***************************************************************************)
(* The condition validators of pkg/access/validators.go: one Validate call *)
(* puts a value of the request (left) to the values of a condition (right) *)
(* and answers nil or an error.                                            *)
(*                                                                         *)
(* Operands are what parsing makes of the strings: a number or NaN, a date *)
(* with its offset, an address and the set of addresses of a CIDR, a       *)
(* string and the set of strings a regular expression matches; Malformed   *)
(* is an operand its parser rejects.  A decimal epoch is Malformed as a    *)
(* date: strconv.ParseInt(c, 64, 64) asks for base 64 and always fails.    *)
(***************************************************************************)
EXTENDS Integers, Sequences

CONSTANTS
  Malformed,
  NaN,
  Text,          \* strings; two of them differ in case alone if their half is equal
  Number,        \* finite numbers, and the seconds of dates
  MaxValues      \* bound on the values of one condition

ASSUME NumbersAreIntegers == Number \subseteq Int

Families == {"string", "fold", "like", "numeric", "date", "bool", "ip", "webhook"}

\* The validators, by the family of their operands and how they compare.
Validators ==
  [family : {"string", "fold", "like", "numeric", "date", "ip"}, compare : {"any", "none"}]
    \cup [family : {"numeric", "date"}, compare : {"<", "<=", ">", ">="}]
    \cup {[family |-> "bool", compare |-> "="], [family |-> "webhook", compare |-> "call"]}

Date == [at : Number, local : BOOLEAN]

Lefts(f) ==
  CASE f \in {"string", "fold", "like", "webhook"} -> Text
    [] f = "numeric" -> Number \cup {NaN, Malformed}
    [] f = "date" -> Date \cup {Malformed}
    [] f = "bool" -> BOOLEAN \cup {Malformed}
    [] f = "ip" -> Text \cup {Malformed}

Rights(f) ==
  CASE f \in {"string", "fold"} -> Text
    [] f \in {"like", "ip"} -> SUBSET Text \cup {Malformed}
    [] f = "numeric" -> Number \cup {NaN, Malformed}
    [] f = "date" -> Date \cup {Malformed}
    [] f = "bool" -> BOOLEAN \cup {Malformed}
    [] f = "webhook" -> {"grants", "refuses", Malformed}

RightLists(f) == UNION {[1..n -> Rights(f)] : n \in 0..MaxValues}

VARIABLES
  hasClient,   \* whether the configuration made a webhook client
  validator,   \* the validator called
  left, right, \* its operands
  place,       \* the value a scan is at
  step,
  outcome

call == <<hasClient, validator, left, right>>
callVars == <<call, place, step, outcome>>

Outcomes == {"pending", "ok", "fails", "error", "panic"}

-----------------------------------------------------------------------------
(***************************************************************************)
(* Comparisons.                                                            *)
(***************************************************************************)

\* time.Time's == compares the location pointer too: dates parsed with an offset
\* that is not the server's get a location of their own (Go before 1.20).
Same(f, l, c) ==
  CASE f = "string" -> l = c
    [] f = "fold" -> l \div 2 = c \div 2
    [] f \in {"like", "ip"} -> l \in c
    [] f = "numeric" -> l # NaN /\ l = c
    [] f = "date" -> l.at = c.at /\ l.local /\ c.local

\* Mutant: the comparison is strict where it should not be.
OrderedStrictly(compare, l, c) ==
  CASE compare \in {"<", "<="} -> l < c
    [] compare \in {">", ">="} -> l > c

Ordered(compare, l, c) ==
  CASE compare = "<" -> l < c
    [] compare = "<=" -> l <= c
    [] compare = ">" -> l > c
    [] compare = ">=" -> l >= c

\* NaN is neither less nor more; dates are ordered by their seconds.
InOrder(f, compare, l, c) ==
  IF f = "date" THEN Ordered(compare, l.at, c.at)
  ELSE NaN \notin {l, c} /\ Ordered(compare, l, c)

-----------------------------------------------------------------------------
(***************************************************************************)
(* One call of Validate.                                                   *)
(***************************************************************************)
End(o) == step' = "done" /\ outcome' = o /\ UNCHANGED <<call, place>>

Scans == validator.compare \in {"any", "none"}

\* Mutant: the error of parsing is noted and the call goes on.
ParseLeftGoesOn ==
  /\ step = "left"
  /\ step' = IF Scans THEN "scan" ELSE "first"
  /\ outcome' = IF left = Malformed THEN "error" ELSE outcome
  /\ UNCHANGED <<call, place>>

\* Numbers, dates, booleans and addresses parse the left operand first.
ParseLeft ==
  /\ step = "left"
  /\ IF left = Malformed THEN End("error")
     ELSE /\ step' = IF Scans THEN "scan" ELSE "first"
          /\ UNCHANGED <<call, place, outcome>>

\* Mutant: the last value is not looked at.
ScanShort ==
  /\ step = "scan"
  /\ IF place >= Len(right) THEN End(IF validator.compare = "any" THEN "fails" ELSE "ok")
     ELSE IF right[place] = Malformed THEN End("error")
     ELSE IF Same(validator.family, left, right[place])
       THEN End(IF validator.compare = "any" THEN "ok" ELSE "fails")
     ELSE place' = place + 1 /\ UNCHANGED <<call, step, outcome>>

\* Value by value: the first that cannot be parsed or matches decides.
Scan ==
  /\ step = "scan"
  /\ IF place > Len(right) THEN End(IF validator.compare = "any" THEN "fails" ELSE "ok")
     ELSE IF right[place] = Malformed THEN End("error")
     ELSE IF Same(validator.family, left, right[place])
       THEN End(IF validator.compare = "any" THEN "ok" ELSE "fails")
     ELSE place' = place + 1 /\ UNCHANGED <<call, step, outcome>>

\* Only the first value counts, and reading it of none panics.
CompareFirst ==
  /\ step = "first"
  /\ validator.family \in {"numeric", "date", "bool"}
  /\ IF right = <<>> THEN End("panic")
     ELSE IF right[1] = Malformed THEN End("error")
     ELSE IF validator.family = "bool"
       THEN End(IF left = right[1] THEN "ok" ELSE "fails")
     ELSE End(IF InOrder(validator.family, validator.compare, left, right[1])
                   THEN "ok" ELSE "fails")

\* WebhookClient.Do and the answer read from it: the URL is parsed before the
\* client, nil when the configuration has none, is used; the call may fail.
Do(url) ==
  IF url = Malformed THEN {"error"}
  ELSE IF ~hasClient THEN {"panic"}
  ELSE {"error", IF url = "grants" THEN "ok" ELSE "fails"}

\* The first value of the condition is the URL to ask.
CallWebhook ==
  /\ step = "first"
  /\ validator.family = "webhook"
  /\ \E o \in IF right = <<>> THEN {"panic"} ELSE Do(right[1]) : End(o)

CallInit ==
  /\ hasClient \in BOOLEAN
  /\ validator \in Validators
  /\ left \in Lefts(validator.family)
  /\ right \in RightLists(validator.family)
  /\ place = 1
  /\ step = "left"
  /\ outcome = "pending"

CallNext == ParseLeft \/ Scan \/ CompareFirst \/ CallWebhook

CallSpec == CallInit /\ [][CallNext]_callVars

-----------------------------------------------------------------------------
(***************************************************************************)
(* Properties.                                                             *)
(***************************************************************************)

\* A call that ended has an outcome, and the scan stays within the values.
CallTypeOK ==
  /\ step \in {"left", "scan", "first", "done"}
  /\ outcome \in Outcomes
  /\ outcome = "pending" <=> step # "done"
  /\ place \in 1..(Len(right) + 1)

\* n is the first value that decides a scan.
Decides(f, l, r, n) ==
  /\ n \in DOMAIN r /\ (r[n] = Malformed \/ Same(f, l, r[n]))
  /\ \A m \in 1..(n - 1) : r[m] # Malformed /\ ~Same(f, l, r[m])

\* The reference definition of the scanning validators: what a whole condition
\* answers, without a loop.
Result(f, compare, l, r) ==
  IF l = Malformed THEN "error"
  ELSE IF \E n \in DOMAIN r : Decides(f, l, r, n) /\ r[n] = Malformed THEN "error"
  ELSE IF (\E n \in DOMAIN r : Decides(f, l, r, n)) <=> compare = "any" THEN "ok"
  ELSE "fails"

\* A scanning validator answers what its values, taken together, say.
ScanMeansResult ==
  step = "done" /\ Scans => outcome = Result(validator.family, validator.compare, left, right)

\* A value equal to the first value of a condition is neither before nor after
\* it: Equals, LessThanEquals and GreaterThanEquals agree.
OrderAgreesWithEquality ==
  (/\ step = "done" /\ validator.family \in {"numeric", "date"} /\ validator.compare \in {"<=", ">="}
   /\ right # <<>> /\ Malformed \notin {left, right[1]} /\ Same(validator.family, left, right[1]))
  => outcome = "ok"

-----------------------------------------------------------------------------
(***************************************************************************)
(* What the documentation says, and the code does not do.                  *)
(***************************************************************************)

\* README.md lists DateEquals beside DateLessThanEquals and DateGreaterThanEquals:
\* the same instant, written twice, is equal.
DateEqualsInstant ==
  validator = [family |-> "date", compare |-> "any"] /\ outcome = "fails"
    => \A n \in DOMAIN right : right[n].at # left.at
===============================================================================
