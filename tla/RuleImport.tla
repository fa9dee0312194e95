------------------------------- MODULE RuleImport -------------------------------
(***************************************************************************)
(* The conversion of a list of rules in the formats of ad blockers and     *)
(* hosts files to the native format (rules_engine.py): each line for       *)
(* itself, then the lines that another line switches off, then the rules   *)
(* that are there already, and the turn of all rules to allow in a list of *)
(* the type "allow".                                                       *)
(*                                                                         *)
(* A behaviour is the conversion of one text.  A line is taken as read:    *)
(* its kind, whether it starts with @@, its domains and its options in     *)
(* their order, each option at most once; $badfilter may follow most lines *)
(* and other options only ||domain^.  Options of one class are one option. *)
(* A rule is its prefix and domain.  The converted text is a function: it  *)
(* has the rule of each place that keeps its rule, and a place is a line   *)
(* and a number in it.  The rules are written in the order of the places.  *)
(***************************************************************************)
EXTENDS Naturals, SequencesExt

CONSTANTS
    SourceLines,   \* the lines the texts are made of
    MaxLines,      \* bound: lines of a text
    Unconverted

Native == {"bd", "bs", "br", "ad", "as", "ar"}
Kinds == {"comment", "long", "cosmetic", "umatrix", "invalid", "adblock", "hosts", "plain",
          "wildcard", "partial", "other"} \cup Native
Options == {"badfilter", "important", "dnstype", "client", "browser", "unknown"}

\* What a line can be read as.
Line == [kind : Kinds, allow : BOOLEAN, domains : Seq(STRING), options : Seq(Options)]
Readable(line) ==
    /\ line \in Line
    /\ IsInjective(line.options)
    /\ line.kind = "hosts" => ~line.allow
    /\ \/ line.options = <<>>
       \/ line.kind = "adblock"
       \/ line.options = <<"badfilter">> /\ line.kind \in {"plain", "wildcard", "partial", "other"}

VARIABLES source, listType, converted
vars == <<source, listType, converted>>

Rules(prefix, domains) == [i \in DOMAIN domains |-> <<prefix, domains[i]>>]
Side(line, allowed, blocked) == IF line.allow THEN allowed ELSE blocked
To(category, rules) == [category |-> category, rules |-> rules]

-----------------------------------------------------------------------------
(* One line *)

\* parse_line, where a line is ||domain^ with options: what they make of it.
AdblockLine(line) ==
    LET has(option) == option \in ToSet(line.options)
    IN IF has("dnstype") \/ has("client") THEN To("unsupported", <<>>)
       ELSE IF has("browser") THEN To("browser_only", <<>>)
       ELSE To("converted", Rules(Side(line, "as", "bs"), line.domains))

\* The text "$badfilter" is looked for: the option is seen where it is the first.
SwitchesOff(line) == line.options # <<>> /\ Head(line.options) = "badfilter"

ParseLine(line) ==
    IF SwitchesOff(line) THEN To("disabled", <<>>) ELSE
    CASE line.kind = "comment" -> To("ignored", <<>>)
      [] line.kind \in {"long", "invalid"} -> To("invalid", <<>>)
      [] line.kind = "cosmetic" -> To("cosmetic", <<>>)
      [] line.kind = "umatrix" -> To("browser_only", <<>>)
      [] line.kind \in Native -> To("converted", Rules(line.kind, line.domains))
      [] line.kind = "adblock" -> AdblockLine(line)
      [] line.kind = "hosts" -> To("converted", Rules("bd", line.domains))
      [] line.kind = "plain" -> To("converted", Rules(Side(line, "ad", "bd"), line.domains))
      [] line.kind = "wildcard" -> To("converted", Rules(Side(line, "ar", "br"), line.domains))
      [] line.kind = "partial" -> To("converted", Rules(Side(line, "as", "bs"), line.domains))
      [] line.kind = "other" -> To("unsupported", <<>>)

-----------------------------------------------------------------------------
(* All lines *)

\* canonicalize_badfilter_target
Canonical(line) ==
    [line EXCEPT !.options = ToSet(@) \ {"badfilter"}]

Targets(lines) == {Canonical(lines[i]) : i \in {j \in DOMAIN lines : SwitchesOff(lines[j])}}

\* import_lines, the second pass: the lines that are switched off
Parsed(lines) ==
    [i \in DOMAIN lines |->
        IF Canonical(lines[i]) \in Targets(lines) THEN To("disabled", <<>>)
        ELSE ParseLine(lines[i])]

\* import_lines, the third pass: rules of the lines before are left out.
Places(parsed) == UNION {{i} \X DOMAIN parsed[i].rules : i \in DOMAIN parsed}
Seen(parsed, i) == UNION {ToSet(parsed[h].rules) : h \in {g \in DOMAIN parsed : g < i}}
ImportLines(lines) ==
    LET parsed == Parsed(lines)
        rule(p) == parsed[p[1]].rules[p[2]]
    IN [p \in {q \in Places(parsed) : rule(q) \notin Seen(parsed, q[1])} |-> rule(p)]

Turned(rule) ==
    LET allowing == [bd |-> "ad", bs |-> "as", br |-> "ar"]
    IN IF rule[1] \in DOMAIN allowing THEN <<allowing[rule[1]], rule[2]>> ELSE rule

\* convert_blocklist_text
Converted(lines, of) ==
    LET rules == ImportLines(lines)
    IN IF of = "allow" THEN [p \in DOMAIN rules |-> Turned(rules[p])] ELSE rules

Init ==
    /\ source \in UNION {[1..n -> SourceLines] : n \in 1..MaxLines}
    /\ listType \in {"block", "allow"}
    /\ converted = Unconverted

Convert ==
    /\ converted = Unconverted
    /\ converted' = Converted(source, listType)
    /\ UNCHANGED <<source, listType>>

Next == Convert

-----------------------------------------------------------------------------
\* The rules do not depend on the order of the lines: a line is switched off also by one
\* that comes later, and of two lines with one rule it does not matter which is kept.
OrderIsIrrelevant == ToSet(converted) = ToSet(Converted(Reverse(source), listType))

\* A list of the type "allow" blocks nothing, and in other lists what is blocked was
\* not written as an exception.
SidesAreKept ==
    \A rule \in ToSet(converted) :
        rule[1] \in {"bd", "bs", "br"} =>
            /\ listType = "block"
            /\ \E i \in DOMAIN source :
                /\ rule[2] \in ToSet(source[i].domains)
                /\ source[i].kind \notin Native => ~source[i].allow

\* Line b is line a with $badfilter before, and the other options in any order.
IsSwitchFor(b, a) ==
    /\ b.options # <<>> /\ Head(b.options) = "badfilter"
    /\ <<b.kind, b.allow, b.domains>> = <<a.kind, a.allow, a.domains>>
    /\ ToSet(b.options) = ToSet(a.options) \cup {"badfilter"}

\* A rule is there because of a line that no other line switches off, and such a line
\* is not without its rules: duplicates are lost, and nothing else.
NothingElseIsLost ==
    LET live == {i \in DOMAIN source :
                    \A j \in DOMAIN source : ~IsSwitchFor(source[j], source[i])}
        rules == UNION {ToSet(ParseLine(source[i]).rules) : i \in live}
    IN ToSet(converted) = IF listType = "block" THEN rules ELSE {Turned(rule) : rule \in rules}

\* A rule comes twice only if one line has a domain twice, or the list is turned to allow.
OncePerList ==
    listType = "block" /\ (\A i \in DOMAIN source : IsInjective(source[i].domains)) =>
        IsInjective(converted)

ImportIsRight ==
    converted # Unconverted =>
        OrderIsIrrelevant /\ SidesAreKept /\ NothingElseIsLost /\ OncePerList
=============================================================================
