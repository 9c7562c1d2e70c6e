---------------------------- MODULE Fingerprints -----------------------------
(***************************************************************************)
(* Which errors are one error: the Playwright reporter takes the message   *)
(* of an error apart, the worker makes a fingerprint of the parts, or of   *)
(* the first line of the message if there are none, and groups errors by   *)
(* it.  Other reporters send the message as it is.                         *)
(*                                                                         *)
(* A message is what can be read in it: [name (of its prefix), form (the   *)
(* pattern it has), matcher, target, expected, value (what varies: a       *)
(* received value, an id, a duration), ansi (it has colours)].             *)
(***************************************************************************)
EXTENDS Integers, FiniteSets

CONSTANTS Messages,
          NoText,   \* nothing of that kind in the message
          Varying,  \* values that normalizeErrorMessage replaces: ids, addresses, times
          MaxReports \* bound: errors that are reported

Forms     == {"assertion", "timeout", "action", "other"}
Reporters == {"playwright", "plain"}

\* An assertion names its matcher, or it would not have that form.
FingerprintsAssumption ==
  /\ \A m \in Messages :
       /\ DOMAIN m = {"name", "form", "matcher", "target", "expected", "value", "ansi"}
       /\ m.form \in Forms /\ m.ansi \in BOOLEAN
       /\ m.form = "assertion" => m.matcher # NoText
  /\ NoText \notin Varying \cup {"assertion", "timeout", "action", "runtime"}
  /\ MaxReports \in Nat

VARIABLES
  groups, \* error_groups: [key, name, category]
  reports \* history: what was reported, by whom, and the key of its group

vars == <<groups, reports>>

-----------------------------------------------------------------------------
(* error-parser.ts and extractErrorMetadata *)

StripAnsi(m) == [m EXCEPT !.ansi = FALSE]

Fields(category, matcher, target, expected) ==
  [category |-> category, matcher |-> matcher, target |-> target, expected |-> expected]
NoFields == Fields(NoText, NoText, NoText, NoText)

\* The patterns allow for different prefixes.
ParseAssertion(m) == m.form = "assertion" /\ ~m.ansi /\ m.name \in {NoText, "Error"}
ParseTimeout(m)   == m.form = "timeout" /\ ~m.ansi /\ m.name # "Error"
ParseAction(m)    == \* of its first line; a timeout with the prefix of an error is one, too
  m.form \in {"action", "timeout"} /\ ~m.ansi /\ m.name \in {NoText, "Error"}

ParsePlaywrightError(m) ==
  CASE ParseAssertion(m) -> Fields("assertion", m.matcher, m.target, m.expected)
    [] ParseTimeout(m)   -> Fields("timeout", m.matcher, m.target, NoText)
    [] ParseAction(m) /\ ~ParseTimeout(m) -> Fields("action", m.matcher, m.matcher, NoText)
    [] OTHER -> NoFields

\* parseErrorName; other reporters have their own way to write the name.
ErrorName(m, r) == [word |-> m.name, spelling |-> r]

Payload(m, r) ==
  LET clean  == StripAnsi(m)
      parsed == ParsePlaywrightError(clean)
      named  == clean.name # NoText
  IN  [message |-> m,
       name    |-> ErrorName(clean, r),
       fields  |-> IF r = "plain" THEN NoFields
                   ELSE [parsed EXCEPT !.category = IF @ = NoText /\ named THEN "runtime" ELSE @]]

-----------------------------------------------------------------------------
(* error-fingerprint.ts *)

NormalizeErrorMessage(value) == IF value \in Varying THEN "<VALUE>" ELSE value

\* What varies in the first line: that of an assertion has neither of its values.
FirstLine(m) == IF m.form = "assertion" THEN NoText ELSE m.value

NormalizedLine(m) ==
  [form |-> m.form, name |-> m.name, matcher |-> m.matcher, ansi |-> m.ansi,
   value |-> NormalizeErrorMessage(FirstLine(m))]

\* buildSignature: the name in lower case, and the parts if they have a matcher.
BuildSignature(message, name, fields) ==
  <<name.word, IF fields.category # NoText /\ fields.matcher # NoText
               THEN fields ELSE NormalizedLine(message)>>

\* computeFingerprint, of what the worker has stripped of colours.
ComputeFingerprint(p) == BuildSignature(StripAnsi(p.message), p.name, p.fields)

-----------------------------------------------------------------------------
(* TestEndHandler *)

Structured == {"assertion", "timeout", "action"}

\* The category of a group that is there: never from a structured one to a generic.
Upgrade(old, new) ==
  IF new \in Structured THEN new ELSE IF old # NoText THEN old ELSE new

Report(m, r) ==
  LET p    == Payload(m, r)
      key  == ComputeFingerprint(p)
      same == {g \in groups : g.key = key}
      new  == [key |-> key, name |-> p.name, category |-> p.fields.category]
  IN  /\ Cardinality(reports) < MaxReports
      /\ groups' = (groups \ same) \cup
                     (IF same = {} THEN {new}
                      ELSE {[new EXCEPT !.category = Upgrade(g.category, @)] : g \in same})
      /\ reports' = reports \cup {[message |-> m, by |-> r, key |-> key]}

Init == groups = {} /\ reports = {}

Next == \E m \in Messages, r \in Reporters : Report(m, r)

Spec == Init /\ [][Next]_vars

-----------------------------------------------------------------------------
TypeOK ==
  /\ Cardinality(groups) <= Cardinality(reports)
  /\ \A g, h \in groups : g.key = h.key => g = h
  /\ \A g \in groups : g.category \in {NoText, "runtime"} \cup Structured

Group(x) == CHOOSE g \in groups : g.key = x.key

\* The same failure again, with another value of the kind that varies, or in colours.
Again(m, n) ==
  /\ [m EXCEPT !.value = NoText, !.ansi = FALSE] = [n EXCEPT !.value = NoText, !.ansi = FALSE]
  /\ m.value = n.value \/ {m.value, n.value} \subseteq Varying

Known(m) == ParsePlaywrightError(StripAnsi(m)) # NoFields

\* A failure that comes again is one error, and one error never mixes matchers, names or, of
\* those the reporter understands, targets and expectations.  A less informed reporter takes
\* nothing from what a group is known to be, whoever comes first.
FingerprintsHold ==
  \A x, y \in reports :
    LET m == x.message
        n == y.message
    IN  /\ x.by = y.by /\ Again(m, n) => x.key = y.key
        /\ x.key = y.key =>
             /\ m.matcher = n.matcher /\ m.name = n.name
             /\ x.by = "playwright" /\ m.form = "assertion" /\ Known(m) =>
                  m.target = n.target /\ m.expected = n.expected
        /\ x.by = "playwright" /\ Known(m) => Group(x).category \in Structured
        /\ x.by = "playwright" /\ m.name # NoText => Group(x).category # NoText
=============================================================================
