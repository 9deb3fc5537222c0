------------------------------- MODULE ConfigText -------------------------------
(*****************************************************************************)
(* packages/iac/compliance.py: what the compliance engine computes from two  *)
(* configurations and a rule.                                                *)
(*                                                                           *)
(* A configuration is [lines, json, data]: its lines, each with its indent   *)
(* and its text, and, when it parses as JSON, the object it is.  A blank     *)
(* line has the text "", a separator the text "!".  An object gives each     *)
(* top-level key its leaves, a scalar or an empty object being the leaf "."; *)
(* a list is the set of its items.  JSON that is a list and no object has    *)
(* its items under the one key "[]".                                         *)
(*****************************************************************************)
EXTENDS Integers, SequencesExt, Selection

Line(indent, word) == [indent |-> indent, word |-> word]
Cli(lines) == [lines |-> lines, json |-> FALSE, data |-> <<>>]
Json(object) == [lines |-> <<>>, json |-> TRUE, data |-> object]
NoText == Cli(<<>>)

\* A configuration as it is stored.
IsText(text) ==
  /\ text.lines \in Seq(ToSet(text.lines)) /\ \A line \in ToSet(text.lines) : line.indent \in Nat
  /\ text.json \in BOOLEAN
  /\ "[]" \in DOMAIN text.data => DOMAIN text.data = {"[]"}
  /\ \A k \in DOMAIN text.data : DOMAIN text.data[k] # {} /\ text.data[k] \in [DOMAIN text.data[k] -> STRING]

Filler(line) == line.word \in {"", "!"}

\* Slip: a line at the indent of the section's head still belongs to it.
SectionAfter_Siblings(line, words, open) ==
  IF line.word \in words THEN line.indent
  ELSE IF open >= 0 /\ (Filler(line) \/ line.indent >= open) THEN open ELSE -1

\* The indent of the section that is open after a line, -1 when none is: a line
\* that matches opens one, and only fillers and deeper lines keep it open.
SectionAfter(line, words, open) ==
  IF line.word \in words THEN line.indent
  ELSE IF open >= 0 /\ (Filler(line) \/ line.indent > open) THEN open ELSE -1

\* _extract_cli_feature, line by line.
CliFeature(lines, words) ==
  LET walk[i \in 0..Len(lines)] ==
        IF i = 0 THEN [open |-> -1, out |-> <<>>]
        ELSE LET open == SectionAfter(lines[i], words, walk[i - 1].open) IN
             [open |-> open,
              out |-> IF open >= 0 THEN Append(walk[i - 1].out, lines[i])
                                   ELSE walk[i - 1].out]
  IN walk[Len(lines)].out

\* extract_feature_config.  Without words a JSON rule compares everything and a
\* CLI rule nothing; what does not parse is passed on as it is.
Feature(text, rule) ==
  CASE rule.type # "json" -> Cli(CliFeature(text.lines, rule.words))
    [] rule.type = "json" /\ text.json /\ rule.words # {} ->
         Json([k \in DOMAIN text.data \intersect rule.words |-> text.data[k]])
    [] OTHER -> text

\* A pattern that is no regular expression raises at the first line it is tried
\* on, and keys are looked for in anything that is JSON, an object or not.
Raises(text, rule) ==
  \/ rule.type # "json" /\ rule.broken /\ text.lines # <<>>
  \/ rule.type = "json" /\ text.json /\ rule.words # {} /\ "[]" \in DOMAIN text.data

\* The lines that are compared, fillers left out.
Content(lines) == Chosen(lines, {i \in DOMAIN lines : ~Filler(lines[i])})

\* Values that Python takes for false: _json_diff returns them, and its caller
\* drops them.
Falsy == {"null", "0"}

\* The leaves of one object that the other lacks or has otherwise.
Lacking(here, there) ==
  UNION {{<<k, p>> : p \in {q \in DOMAIN here[k] :
            \/ k \notin DOMAIN there \/ q \notin DOMAIN there[k]
            \/ there[k][q] # here[k][q] /\ here[k][q] \notin Falsy}} : k \in DOMAIN here}

Verdict(compliant, missing, extra) ==
  [compliant |-> compliant, missing |-> missing, extra |-> extra]

CompareJson(actual, intended) ==
  IF ~actual.json \/ ~intended.json THEN Verdict(FALSE, {<<"parse error", ".">>}, {})
  ELSE LET missing == Lacking(intended.data, actual.data)
           extra == Lacking(actual.data, intended.data)
       IN Verdict(missing = {} /\ extra = {}, missing, extra)

\* Lines are compared as sets, and in their order when the rule says so.
CompareCli(actual, intended, ordered) ==
  LET missing == ToSet(Content(intended.lines)) \ ToSet(Content(actual.lines))
      extra == ToSet(Content(actual.lines)) \ ToSet(Content(intended.lines))
  IN Verdict(/\ missing = {} /\ extra = {}
             /\ ordered => Content(actual.lines) = Content(intended.lines), missing, extra)

\* compute_compliance on two sections.
Compare(actual, intended, rule) ==
  IF rule.type = "json" THEN CompareJson(actual, intended)
                        ELSE CompareCli(actual, intended, rule.ordered)

\* generate_remediation: what a rule offers for a section that does not comply.
Remediation(verdict, rule) ==
  CASE verdict.compliant \/ ~rule.remediate \/ rule.strategy = "manual" -> "none"
    [] ~verdict.compliant /\ rule.remediate /\ rule.strategy = "custom_template" ->
         "template"
    [] OTHER -> "intended section"

--------------------------------------------------------------------------------
(* What they are meant to compute.                                           *)

\* Whether line i lies under a line that matches, or is one.
Under(lines, words, i) ==
  \E j \in 1..i : /\ lines[j].word \in words
                  /\ \A k \in j + 1..i :
                       Filler(lines[k]) \/ lines[k].indent > lines[j].indent

\* No line that matches lies under another one.
Flat(lines, words) ==
  \A i \in DOMAIN lines : lines[i].word \in words =>
    \A j \in 1..i - 1 : lines[j].word \in words =>
      \E k \in j + 1..i : ~Filler(lines[k]) /\ lines[k].indent <= lines[j].indent

\* The lines, numbered among themselves, that a rule is about.
SectionMeant(lines, words) ==
  Chosen(lines, {i \in DOMAIN lines : Under(lines, words, i) /\ ~Filler(lines[i])})

ObjectMeant(object, words) ==
  [k \in {j \in DOMAIN object : words = {} \/ j \in words} |-> object[k]]

\* Two texts agree on what a rule is about.
Agree(actual, intended, rule) ==
  IF rule.type = "json"
    THEN actual.json /\ intended.json
         /\ ObjectMeant(actual.data, rule.words) = ObjectMeant(intended.data, rule.words)
    ELSE LET a == SectionMeant(actual.lines, rule.words)
             i == SectionMeant(intended.lines, rule.words)
         IN ToSet(a) = ToSet(i) /\ (rule.ordered => a = i)

\* Texts on which the engine is exact: no match under a match, no value that
\* counts as false.
Exact(text, rule) ==
  IF rule.type = "json"
    THEN \A k \in DOMAIN text.data : \A p \in DOMAIN text.data[k] :
           text.data[k][p] \notin Falsy
    ELSE Flat(text.lines, rule.words)
================================================================================
