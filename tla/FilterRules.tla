------------------------------ MODULE FilterRules ------------------------------
(***************************************************************************)
(* What the filter engine decides (dns_engine.py), from the rules it is    *)
(* built from (build_filter_engine, client_manager.py, rules_engine.py).   *)
(*                                                                         *)
(* A name is the sequence of its labels, the top level last; names and     *)
(* patterns are in lower case.  Texts of rules are taken as parsed.  Of a  *)
(* regular expression the model keeps what its index and the engine tell   *)
(* apart: ^name$ and (^|\.)name$, which are turned into domain rules when  *)
(* they belong to a profile, and words that may be anywhere in a label:    *)
(* tracker (kind "word") and tracker[0-9]* (kind "open").  Targets of      *)
(* rewrites and the lists a rule came from are left out.                   *)
(***************************************************************************)
EXTENDS Integers, SequencesExt

CONSTANTS
    Names,         \* the names that are asked for and that rules are about
    Words,         \* the words of regular expressions, as sequences of one label
    Within,        \* the pairs of a word and a label that contains it
    Profiles,
    NoProfile,     \* a client that is not known
    SafeNames,     \* SAFESEARCH_REWRITES, for each search engine
    YoutubeNames,  \* YOUTUBE_SAFESEARCH_REWRITES
    ServiceNames   \* SERVICE_DOMAINS, for each service

ASSUME NamesAssumption == \A name \in Names : name \in Seq(STRING) /\ name # <<>>
ASSUME NoProfileAssumption == NoProfile \notin Profiles

Engines == DOMAIN SafeNames
Services == DOMAIN ServiceNames
Actions == {"allow", "block"}

Under(name, domain) == IsSuffix(domain, name)
UnderAny(name, domains) == \E domain \in domains : Under(name, domain)

-----------------------------------------------------------------------------
(* Regular expressions and their index *)

Regex == [kind : {"exact", "suffix"}, on : Names]
         \cup [kind : {"word", "open"}, on : Words]

RegexMatches(regex, name) ==
    \/ regex.kind = "exact" /\ name = regex.on
    \/ regex.kind = "suffix" /\ Under(name, regex.on)
    \/ /\ regex.kind \in {"word", "open"}
       /\ \E label \in ToSet(name) : <<regex.on[1], label>> \in Within

\* _extract_required_literals: nothing from an expression with an alternative,
\* or from a word next to a character class
Literals(regex) == IF regex.kind \in {"exact", "word"} THEN {regex.on} ELSE {}

\* the labels of a name, and its endings
Tokens(name) ==
    {<<label>> : label \in ToSet(name)}
    \cup {SubSeq(name, i, Len(name)) : i \in DOMAIN name}

Candidates(regexes, name) ==
    {r \in regexes : Literals(r) = {} \/ Literals(r) \cap Tokens(name) # {}}

-----------------------------------------------------------------------------
(* The rules, as they are stored *)

\* a line in the native format: bd, bs, br, ad, as, ar
Line == [action : Actions, type : {"exact", "suffix"}, pattern : Names]
        \cup [action : Actions, type : {"regex"}, pattern : Regex]

\* a rule of a profile
Custom == [action : Actions \cup {"rewrite"}, type : {"domain", "wildcard"},
           pattern : Names]
          \cup [action : Actions, type : {"regex"}, pattern : Regex]

Rewrite == [pattern : Names, wildcard : BOOLEAN]

List == [lines : SUBSET Line, enabled : BOOLEAN, profiles : SUBSET Profiles]

Config == [user : SUBSET Line,                       \* user_rules.pgrules
           rewrites : SUBSET Rewrite,
           lists : SUBSET List,
           custom : [Profiles -> SUBSET Custom],
           safe : [Profiles -> SUBSET Engines],
           youtube : SUBSET Profiles,
           services : [Profiles -> SUBSET Services],
           filtered : SUBSET Profiles]               \* filtering is on

-----------------------------------------------------------------------------
(* Building the engine *)

Patterns(lines, action, type) ==
    {l.pattern : l \in {x \in lines : x.action = action /\ x.type = type}}

\* add_pg_rule, build_indexes_from_cache
Tables(lines) ==
    [type \in {"exact", "suffix", "regex"} |->
        [action \in Actions |-> Patterns(lines, action, type)]]

\* _reconstruct_rule and add_rule: every domain becomes the end of names, and
\* an expression that is one or the other becomes a domain.
Added(rule) ==
    IF rule.action = "rewrite" THEN {}
    ELSE IF rule.type # "regex"
         THEN {[action |-> rule.action, type |-> "suffix", pattern |-> rule.pattern]}
         ELSE IF rule.pattern.kind \in {"exact", "suffix"}
              THEN {[action |-> rule.action, type |-> rule.pattern.kind,
                     pattern |-> rule.pattern.on]}
              ELSE {rule}

\* get_entries: a line of a list that belongs to a profile
Entry(line) ==
    [line EXCEPT !.type = IF @ = "regex" THEN "regex" ELSE "domain"]

ListLines(lists) == UNION {list.lines : list \in lists}

\* A bug: lists that are switched off are loaded too.
GlobalLinesOfAll(config) == config.user \cup ListLines(config.lists)

GlobalLines(config) ==
    config.user \cup ListLines({list \in config.lists : list.enabled})

\* load_profile_into_engine, load_profile_blocklists_into_engine
ProfileLines(config, p) ==
    LET lines == ListLines({list \in config.lists : p \in list.profiles})
    IN  UNION {Added(rule) : rule \in config.custom[p] \cup {Entry(l) : l \in lines}}

\* _add_rewrite_rule: a pattern with a star does not pass normalize_domain.
RewriteMap(config) == {r.pattern : r \in {x \in config.rewrites : ~x.wildcard}}

Build(config) ==
    LET on(p) == p \in config.filtered
    IN  [global |-> Tables(GlobalLines(config)),
         profile |-> [p \in Profiles |->
                         Tables(IF on(p) THEN ProfileLines(config, p) ELSE {})],
         rewrite_map |-> RewriteMap(config),
         safe |-> {p \in Profiles : on(p) /\ config.safe[p] # {}},
         youtube |-> config.youtube \cap config.filtered,
         services |-> [p \in Profiles |-> IF on(p) THEN config.services[p] ELSE {}]]

-----------------------------------------------------------------------------
(* Asking the engine *)

Query == [name : Names, profile : Profiles \cup {NoProfile}, filtering : BOOLEAN]

\* exact, by suffix, and by the expressions the index lets through
Hits(tables, action, name) ==
    \/ name \in tables.exact[action]
    \/ UnderAny(name, tables.suffix[action])
    \/ \E r \in Candidates(tables.regex[action], name) : RegexMatches(r, name)

Known(q) == q.profile # NoProfile
ProfileHits(e, q, action) == Known(q) /\ Hits(e.profile[q.profile], action, q.name)
GlobalHits(e, q, action) == Hits(e.global, action, q.name)
Rewritten(e, q) == q.name \in e.rewrite_map
\* _check_safesearch: the names of all engines, if one of them is chosen
SafeSearched(e, q) ==
    q.profile \in e.safe /\ UnderAny(q.name, UNION {SafeNames[s] : s \in Engines})
YoutubeRestricted(e, q) == q.profile \in e.youtube /\ UnderAny(q.name, YoutubeNames)
ServiceBlocked(e, q) ==
    Known(q) /\ UnderAny(q.name, UNION {ServiceNames[s] : s \in e.services[q.profile]})

\* check, without its cache: the reason of the result
Check(e, q) ==
    IF ~q.filtering THEN "client_filtering_disabled"
    ELSE IF ProfileHits(e, q, "allow") THEN "profile_allow"
    ELSE IF GlobalHits(e, q, "allow") THEN "allow"
    ELSE IF Rewritten(e, q) THEN "rewrite"
    ELSE IF ProfileHits(e, q, "block") THEN "profile_block"
    ELSE IF GlobalHits(e, q, "block") THEN "block"
    ELSE IF SafeSearched(e, q) THEN "safesearch"
    ELSE IF YoutubeRestricted(e, q) THEN "youtube_restricted"
    ELSE IF ServiceBlocked(e, q) THEN "service_block"
    ELSE "no_match"

\* the steps of explain, of which the first that matches is shown
Steps(e, q) ==
    << [reason |-> "client_filtering_disabled", matches |-> ~q.filtering],
       [reason |-> "profile_allow", matches |-> ProfileHits(e, q, "allow")],
       [reason |-> "allow", matches |-> GlobalHits(e, q, "allow")],
       [reason |-> "rewrite", matches |-> Rewritten(e, q)],
       [reason |-> "profile_block", matches |-> ProfileHits(e, q, "block")],
       [reason |-> "block", matches |-> GlobalHits(e, q, "block")],
       [reason |-> "safesearch", matches |-> SafeSearched(e, q)],
       [reason |-> "youtube_restricted", matches |-> YoutubeRestricted(e, q)],
       [reason |-> "service_block", matches |-> ServiceBlocked(e, q)],
       [reason |-> "no_match", matches |-> TRUE] >>

\* A bug: explain looks at the rules for everybody before those of the profile.
ExplainGlobalFirst(e, q) ==
    LET steps == [Steps(e, q) EXCEPT ![2] = Steps(e, q)[3], ![3] = Steps(e, q)[2]]
    IN  steps[SelectInSeq(steps, LAMBDA step : step.matches)].reason

Explain(e, q) ==
    Steps(e, q)[SelectInSeq(Steps(e, q), LAMBDA step : step.matches)].reason

-----------------------------------------------------------------------------
(* What the documentation promises (README.md:233-250): the first of nine
   steps at which a rule matches, where exact rules match one name, suffix
   rules a name and what is under it, and expressions are tested against the
   whole name. *)

LineMatches(line, name) ==
    \/ line.type = "exact" /\ name = line.pattern
    \/ line.type = "suffix" /\ Under(name, line.pattern)
    \/ line.type = "regex" /\ RegexMatches(line.pattern, name)

CustomMatches(rule, name) ==
    \/ rule.type \in {"domain", "wildcard"} /\ Under(name, rule.pattern)
    \/ rule.type = "regex" /\ RegexMatches(rule.pattern, name)

RewriteMatches(rewrite, name) ==
    IF rewrite.wildcard THEN Under(name, rewrite.pattern) ELSE name = rewrite.pattern

\* the lines of the lists of a profile, whether or not they are on for everybody
ListLinesOf(config, p) == ListLines({list \in config.lists : p \in list.profiles})

ProfileRule(config, q, action) ==
    /\ q.profile \in config.filtered
    /\ \/ \E rule \in config.custom[q.profile] :
             rule.action = action /\ CustomMatches(rule, q.name)
       \/ \E line \in ListLinesOf(config, q.profile) :
             line.action = action /\ LineMatches(line, q.name)

GlobalRule(config, q, action) ==
    \E line \in config.user \cup ListLines({list \in config.lists : list.enabled}) :
        line.action = action /\ LineMatches(line, q.name)

ProfileRewrites(config, q) ==
    /\ q.profile \in config.filtered
    /\ \E rule \in config.custom[q.profile] :
          rule.action = "rewrite" /\ CustomMatches(rule, q.name)

\* What applies to the query; a switch of a profile needs a profile that filters.
Applies(config, q, reason) ==
    LET filters == q.profile \in config.filtered IN
    \/ reason = "client_filtering_disabled" /\ ~q.filtering
    \/ reason = "profile_allow" /\ ProfileRule(config, q, "allow")
    \/ reason = "allow" /\ GlobalRule(config, q, "allow")
    \/ reason = "profile_rewrite" /\ ProfileRewrites(config, q)
    \/ reason = "rewrite" /\ \E r \in config.rewrites : RewriteMatches(r, q.name)
    \/ reason = "profile_block" /\ ProfileRule(config, q, "block")
    \/ reason = "block" /\ GlobalRule(config, q, "block")
    \/ /\ reason = "safesearch" /\ filters
       /\ \E s \in config.safe[q.profile] : UnderAny(q.name, SafeNames[s])
    \/ /\ reason = "youtube_restricted" /\ filters
       /\ q.profile \in config.youtube /\ UnderAny(q.name, YoutubeNames)
    \/ /\ reason = "service_block" /\ filters
       /\ \E s \in config.services[q.profile] : UnderAny(q.name, ServiceNames[s])
    \/ reason = "no_match"

Priority == <<"client_filtering_disabled", "profile_allow", "allow",
              "profile_rewrite", "rewrite", "profile_block", "block",
              "safesearch", "youtube_restricted", "service_block", "no_match">>

Promised(config, q) ==
    Priority[SelectInSeq(Priority, LAMBDA reason : Applies(config, q, reason))]

-----------------------------------------------------------------------------
(* Where the code does something else, however the rules are combined *)

RegexesFor(config, q) ==
    {l.pattern : l \in {x \in GlobalLines(config) : x.type = "regex"}}
    \cup IF q.profile \in config.filtered
         THEN {r.pattern : r \in {x \in config.custom[q.profile] \cup
                                       ListLinesOf(config, q.profile) : x.type = "regex"}}
         ELSE {}

\* An expression that matches in the middle of a label is not tried.
Untried(config, q) ==
    LET regexes == RegexesFor(config, q)
    IN  \E r \in regexes \ Candidates(regexes, q.name) : RegexMatches(r, q.name)

\* Rewrites with a star and those of a profile are dropped.
NotRewritten(config, q) ==
    \/ \E r \in config.rewrites : r.wildcard /\ RewriteMatches(r, q.name)
    \/ ProfileRewrites(config, q)

\* An exact line of a list applies to all names under it for a profile with
\* this list, and SafeSearch of one engine is enforced on all engines.
Widened(config, q) ==
    /\ q.profile \in config.filtered
    /\ \/ \E line \in ListLinesOf(config, q.profile) :
             line.type = "exact" /\ q.name # line.pattern /\ Under(q.name, line.pattern)
       \/ /\ config.safe[q.profile] # {}
          /\ \E s \in Engines \ config.safe[q.profile] : UnderAny(q.name, SafeNames[s])

Deviates(config, q) == Untried(config, q) \/ NotRewritten(config, q) \/ Widened(config, q)
=============================================================================
