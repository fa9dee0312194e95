--------------------------- MODULE MCFilterEngine_proofs ---------------------------
(***************************************************************************)
(* For every set of rules and every query the engine decides as the        *)
(* documentation promises, but where Deviates says so, and the explanation *)
(* shows what was decided; and however many threads share the negative     *)
(* cache, it answers for the engine it belongs to and keeps its bound.     *)
(* What the engine is built from is kept: the lists, by a row and a file   *)
(* each, the rules of their texts, and the file of the user's rules.       *)
(***************************************************************************)
EXTENDS MCFilterEngine, FiniteSetTheorems, SequenceTheorems, WellFoundedInduction, TLAPS

-----------------------------------------------------------------------------
(* The rules of a profile in the tables of the engine *)

\* The rules that load_profile_into_engine adds, those of its lists included.
RulesOf(config, p) == config.custom[p] \cup {Entry(l) : l \in ListLinesOf(config, p)}

LEMMA UnderItself == ASSUME NEW name \in Names PROVE Under(name, name)
<1>1. name \in Seq(STRING)
  BY NamesAssumption
<1>2. Reverse(name) \in Seq(STRING) /\ Len(Reverse(name)) \in Nat
  BY <1>1 DEF Reverse
<1>3. QED
  BY <1>2 DEF Under, IsSuffix, IsPrefix

\* What a rule becomes.
IsRule(rule) ==
    /\ rule.type \in {"domain", "wildcard", "regex"}
    /\ rule.action \in Actions \cup {"rewrite"}
    /\ rule.type = "regex" => rule.pattern \in Regex /\ rule.action \in Actions
LEMMA EntryIs ==
  ASSUME NEW l \in Line
  PROVE  /\ IsRule(Entry(l)) /\ Entry(l).action = l.action /\ Entry(l).pattern = l.pattern
         /\ Entry(l).type = IF l.type = "regex" THEN "regex" ELSE "domain"
<1>1. l.action \in Actions /\ l.type \in {"exact", "suffix", "regex"}
      /\ (l.type = "regex" => l.pattern \in Regex)
  BY DEF Line
<1>2. l = [action |-> l.action, type |-> l.type, pattern |-> l.pattern]
  BY DEF Line
<1>3. Entry(l) = [action |-> l.action, type |-> IF l.type = "regex" THEN "regex" ELSE "domain",
                  pattern |-> l.pattern]
  BY <1>2 DEF Entry
<1>4. QED
  BY <1>1, <1>3 DEF IsRule

LEMMA AddedIs ==
  ASSUME NEW rule, IsRule(rule), NEW action \in Actions
  PROVE  /\ \A n : (\E x \in Added(rule) : x.action = action /\ x.type = "exact" /\ x.pattern = n)
               <=> /\ rule.action = action /\ rule.type = "regex"
                   /\ rule.pattern.kind = "exact" /\ rule.pattern.on = n
         /\ \A n : (\E x \in Added(rule) : x.action = action /\ x.type = "suffix" /\ x.pattern = n)
               <=> /\ rule.action = action
                   /\ \/ rule.type # "regex" /\ rule.pattern = n
                      \/ /\ rule.type = "regex"
                         /\ rule.pattern.kind = "suffix" /\ rule.pattern.on = n
         /\ \A n : (\E x \in Added(rule) : x.action = action /\ x.type = "regex" /\ x.pattern = n)
               <=> /\ rule.action = action /\ rule.type = "regex" /\ rule.pattern = n
                   /\ rule.pattern.kind \notin {"exact", "suffix"}
<1>1. CASE rule.action = "rewrite"
  BY <1>1 DEF Added, Actions
<1>2. CASE rule.action # "rewrite" /\ rule.type # "regex"
  <2> DEFINE new == [action |-> rule.action, type |-> "suffix", pattern |-> rule.pattern]
  <2>1. Added(rule) = {new}
    BY <1>2 DEF Added
  <2>2. QED
    BY <1>2, <2>1
<1>3. CASE rule.action # "rewrite" /\ rule.type = "regex"
           /\ rule.pattern.kind \in {"exact", "suffix"}
  <2> DEFINE new == [action |-> rule.action, type |-> rule.pattern.kind,
                     pattern |-> rule.pattern.on]
  <2>1. Added(rule) = {new}
    BY <1>3 DEF Added
  <2>2. QED
    BY <1>3, <2>1
<1>4. CASE rule.action # "rewrite" /\ rule.type = "regex"
           /\ rule.pattern.kind \notin {"exact", "suffix"}
  <2>1. Added(rule) = {rule}
    BY <1>4 DEF Added
  <2>2. QED
    BY <1>4, <2>1
<1>5. QED
  BY <1>1, <1>2, <1>3, <1>4

LEMMA ConfigIs ==
  ASSUME NEW config \in Config, NEW p \in Profiles
  PROVE  /\ config.custom[p] \subseteq Custom /\ ListLinesOf(config, p) \subseteq Line
         /\ config.user \subseteq Line /\ ListLines(config.lists) \subseteq Line
         /\ config.filtered \subseteq Profiles
  BY DEF Config, ListLinesOf, ListLines, List

LEMMA RulesAreRules ==
  ASSUME NEW config \in Config, NEW p \in Profiles, NEW rule \in RulesOf(config, p)
  PROVE  IsRule(rule)
<1>1. CASE rule \in config.custom[p]
  BY <1>1, ConfigIs DEF Custom, IsRule
<1>2. CASE rule \in {Entry(l) : l \in ListLinesOf(config, p)}
  BY <1>2, ConfigIs, EntryIs
<1>3. QED
  BY <1>1, <1>2 DEF RulesOf

\* What matches a query in the tables of its profile is a rule the documentation names.
LEMMA ProfileTables ==
  ASSUME NEW config \in Config, NEW p \in Profiles, NEW action \in Actions
  PROVE  LET tables == Tables(ProfileLines(config, p)) IN
         /\ \A n : n \in tables.exact[action] <=> \E rule \in RulesOf(config, p) :
               /\ rule.action = action /\ rule.type = "regex"
               /\ rule.pattern.kind = "exact" /\ rule.pattern.on = n
         /\ \A n : n \in tables.suffix[action] <=> \E rule \in RulesOf(config, p) :
               /\ rule.action = action
               /\ \/ rule.type # "regex" /\ rule.pattern = n
                  \/ rule.type = "regex" /\ rule.pattern.kind = "suffix" /\ rule.pattern.on = n
         /\ \A n : n \in tables.regex[action] <=> \E rule \in RulesOf(config, p) :
               /\ rule.action = action /\ rule.type = "regex" /\ rule.pattern = n
               /\ rule.pattern.kind \notin {"exact", "suffix"}
<1> DEFINE lines == ProfileLines(config, p)
           tables == Tables(lines)
<1>1. lines = UNION {Added(rule) : rule \in RulesOf(config, p)}
  BY DEF ProfileLines, RulesOf, ListLinesOf
<1> HIDE DEF lines
<1>2. /\ tables.exact[action] = Patterns(lines, action, "exact")
      /\ tables.suffix[action] = Patterns(lines, action, "suffix")
      /\ tables.regex[action] = Patterns(lines, action, "regex")
  BY DEF Tables
<1> HIDE DEF tables
<1>3. ASSUME NEW type, NEW n
      PROVE  n \in Patterns(lines, action, type) <=> \E rule \in RulesOf(config, p) :
                 \E x \in Added(rule) : x.action = action /\ x.type = type /\ x.pattern = n
  BY <1>1 DEF Patterns
<1>4. \A n : n \in tables.exact[action] <=> \E rule \in RulesOf(config, p) :
               /\ rule.action = action /\ rule.type = "regex"
               /\ rule.pattern.kind = "exact" /\ rule.pattern.on = n
  <2>1. \A n : n \in tables.exact[action] <=> \E rule \in RulesOf(config, p) :
            \E x \in Added(rule) : x.action = action /\ x.type = "exact" /\ x.pattern = n
    BY <1>2, <1>3
  <2>2. ASSUME NEW rule \in RulesOf(config, p), NEW n
        PROVE  (\E x \in Added(rule) : x.action = action /\ x.type = "exact" /\ x.pattern = n)
               <=> rule.action = action /\ rule.type = "regex"
                  /\ rule.pattern.kind = "exact" /\ rule.pattern.on = n
    <3>1. IsRule(rule)
      BY RulesAreRules
    <3>2. QED
      BY <3>1, AddedIs
  <2>3. QED
    BY <2>1, <2>2
<1>5. \A n : n \in tables.suffix[action] <=> \E rule \in RulesOf(config, p) :
               /\ rule.action = action
               /\ \/ rule.type # "regex" /\ rule.pattern = n
                  \/ rule.type = "regex" /\ rule.pattern.kind = "suffix" /\ rule.pattern.on = n
  <2>1. \A n : n \in tables.suffix[action] <=> \E rule \in RulesOf(config, p) :
            \E x \in Added(rule) : x.action = action /\ x.type = "suffix" /\ x.pattern = n
    BY <1>2, <1>3
  <2>2. ASSUME NEW rule \in RulesOf(config, p), NEW n
        PROVE  (\E x \in Added(rule) : x.action = action /\ x.type = "suffix" /\ x.pattern = n)
               <=> /\ rule.action = action
                  /\ \/ rule.type # "regex" /\ rule.pattern = n
                     \/ rule.type = "regex" /\ rule.pattern.kind = "suffix" /\ rule.pattern.on = n
    <3>1. IsRule(rule)
      BY RulesAreRules
    <3>2. QED
      BY <3>1, AddedIs
  <2>3. QED
    BY <2>1, <2>2
<1>6. \A n : n \in tables.regex[action] <=> \E rule \in RulesOf(config, p) :
               /\ rule.action = action /\ rule.type = "regex" /\ rule.pattern = n
               /\ rule.pattern.kind \notin {"exact", "suffix"}
  <2>1. \A n : n \in tables.regex[action] <=> \E rule \in RulesOf(config, p) :
            \E x \in Added(rule) : x.action = action /\ x.type = "regex" /\ x.pattern = n
    BY <1>2, <1>3
  <2>2. ASSUME NEW rule \in RulesOf(config, p), NEW n
        PROVE  (\E x \in Added(rule) : x.action = action /\ x.type = "regex" /\ x.pattern = n)
               <=> rule.action = action /\ rule.type = "regex" /\ rule.pattern = n
                  /\ rule.pattern.kind \notin {"exact", "suffix"}
    <3>1. IsRule(rule)
      BY RulesAreRules
    <3>2. QED
      BY <3>1, AddedIs
  <2>3. QED
    BY <2>1, <2>2
<1>7. QED
  BY <1>4, <1>5, <1>6 DEF tables, lines

-----------------------------------------------------------------------------
(* What the engine looks up is what the documentation names *)

\* No expression that matches is left out by the index.
LEMMA Tried ==
  ASSUME NEW config, NEW q, ~Untried(config, q), NEW r \in RegexesFor(config, q),
         RegexMatches(r, q.name), NEW regexes, r \in regexes
  PROVE  r \in Candidates(regexes, q.name)
  BY DEF Untried, Candidates

LEMMA RegexIs ==
  ASSUME NEW r \in Regex, NEW name
  PROVE  /\ r.kind = "exact" => (RegexMatches(r, name) <=> name = r.on)
         /\ r.kind = "suffix" => (RegexMatches(r, name) <=> Under(name, r.on))
         /\ r.kind \in {"exact", "suffix", "word", "open"}
  BY DEF RegexMatches, Regex

LEMMA HitsAre ==
  ASSUME NEW tables, NEW action, NEW name
  PROVE  Hits(tables, action, name) <=>
             \/ name \in tables.exact[action]
             \/ \E d \in tables.suffix[action] : Under(name, d)
             \/ \E r \in tables.regex[action] :
                    r \in Candidates(tables.regex[action], name) /\ RegexMatches(r, name)
  BY DEF Hits, UnderAny, Candidates

\* A profile that filters: its own rules and the lines of its lists.
LEMMA ProfileAgrees ==
  ASSUME NEW config \in Config, NEW q \in Query, ~Deviates(config, q), NEW action \in Actions,
         q.profile \in config.filtered
  PROVE  Hits(Tables(ProfileLines(config, q.profile)), action, q.name)
         <=> ProfileRule(config, q, action)
<1> DEFINE p == q.profile
           tables == Tables(ProfileLines(config, p))
           name == q.name
           Matching(rule) == rule.action = action /\ CustomMatches(rule, name)
           MatchingLine(l) == l.action = action /\ LineMatches(l, name)
<1>1. p \in Profiles /\ name \in Names
  BY ConfigIs DEF Query, Config
<1>2. /\ config.custom[p] \subseteq Custom /\ ListLinesOf(config, p) \subseteq Line
  BY <1>1, ConfigIs
<1>3. /\ \A n : n \in tables.exact[action] <=> \E rule \in RulesOf(config, p) :
            /\ rule.action = action /\ rule.type = "regex"
            /\ rule.pattern.kind = "exact" /\ rule.pattern.on = n
      /\ \A n : n \in tables.suffix[action] <=> \E rule \in RulesOf(config, p) :
            /\ rule.action = action
            /\ \/ rule.type # "regex" /\ rule.pattern = n
               \/ rule.type = "regex" /\ rule.pattern.kind = "suffix" /\ rule.pattern.on = n
      /\ \A n : n \in tables.regex[action] <=> \E rule \in RulesOf(config, p) :
            /\ rule.action = action /\ rule.type = "regex" /\ rule.pattern = n
            /\ rule.pattern.kind \notin {"exact", "suffix"}
  BY <1>1, ProfileTables
<1> HIDE DEF tables
<1>4. ProfileRule(config, q, action) <=>
          \/ \E rule \in config.custom[p] : Matching(rule)
          \/ \E l \in ListLinesOf(config, p) : MatchingLine(l)
  BY DEF ProfileRule
<1>5. /\ \A rule \in config.custom[p] :
            rule.type = "regex" => rule.pattern \in RegexesFor(config, q)
      /\ \A l \in ListLinesOf(config, p) : l.type = "regex" => l.pattern \in RegexesFor(config, q)
  BY DEF RegexesFor
<1>6. ~Untried(config, q)
      /\ \A l \in ListLinesOf(config, p) :
            l.type = "exact" /\ Under(name, l.pattern) => name = l.pattern
  BY DEF Deviates, Widened
\* A rule of the engine, and what it comes from, match alike.
<1>7. ASSUME NEW rule \in RulesOf(config, p), rule.action = action
      PROVE  CustomMatches(rule, name) => Hits(tables, action, name)
  <2>1. IsRule(rule)
    BY <1>1, RulesAreRules
  <2>2. rule.type = "regex" => rule.pattern \in RegexesFor(config, q)
    <3>1. CASE rule \in config.custom[p]
      BY <1>5, <3>1
    <3>2. CASE \E l \in ListLinesOf(config, p) : rule = Entry(l)
      BY <1>2, <1>5, <3>2, EntryIs
    <3>3. QED
      BY <3>1, <3>2 DEF RulesOf
  <2>3. CASE rule.type # "regex" /\ Under(name, rule.pattern)
    <3>1. rule.pattern \in tables.suffix[action]
      BY <1>3, <1>7, <2>3
    <3>2. QED
      BY <2>3, <3>1, HitsAre
  <2>4. CASE rule.type = "regex" /\ RegexMatches(rule.pattern, name)
    <3>1. rule.pattern \in Regex
      BY <2>1, <2>4 DEF IsRule
    <3>2. CASE rule.pattern.kind = "exact"
      <4>1. name \in tables.exact[action]
        BY <1>3, <1>7, <2>4, <3>1, <3>2, RegexIs
      <4>2. QED
        BY <4>1, HitsAre
    <3>3. CASE rule.pattern.kind = "suffix"
      <4>1. rule.pattern.on \in tables.suffix[action] /\ Under(name, rule.pattern.on)
        BY <1>3, <1>7, <2>4, <3>1, <3>3, RegexIs
      <4>2. QED
        BY <4>1, HitsAre
    <3>4. CASE rule.pattern.kind \notin {"exact", "suffix"}
      <4>1. rule.pattern \in tables.regex[action]
        BY <1>3, <1>7, <2>4, <3>4
      <4>2. rule.pattern \in Candidates(tables.regex[action], name)
        BY <1>6, <2>2, <2>4, <4>1, Tried
      <4>3. QED
        BY <2>4, <4>1, <4>2, HitsAre
    <3>5. QED
      BY <3>2, <3>3, <3>4
  <2>5. QED
    BY <2>1, <2>3, <2>4 DEF CustomMatches, IsRule
<1>8. ASSUME Hits(tables, action, name)
      PROVE  \E rule \in RulesOf(config, p) : rule.action = action /\ CustomMatches(rule, name)
  <2>1. CASE name \in tables.exact[action]
    <3>1. PICK rule \in RulesOf(config, p) :
              /\ rule.action = action /\ rule.type = "regex"
              /\ rule.pattern.kind = "exact" /\ rule.pattern.on = name
      BY <1>3, <2>1
    <3>2. rule.pattern \in Regex
      BY <1>1, <3>1, RulesAreRules DEF IsRule
    <3>3. QED
      BY <3>1, <3>2, RegexIs DEF CustomMatches
  <2>2. CASE \E d \in tables.suffix[action] : Under(name, d)
    <3>1. PICK d \in tables.suffix[action] : Under(name, d)
      BY <2>2
    <3>2. PICK rule \in RulesOf(config, p) :
              /\ rule.action = action
              /\ \/ rule.type # "regex" /\ rule.pattern = d
                 \/ rule.type = "regex" /\ rule.pattern.kind = "suffix" /\ rule.pattern.on = d
      BY <1>3, <3>1
    <3>3. IsRule(rule)
      BY <1>1, RulesAreRules
    <3>4. CASE rule.type # "regex" /\ rule.pattern = d
      BY <3>1, <3>2, <3>3, <3>4 DEF CustomMatches, IsRule
    <3>5. CASE rule.type = "regex" /\ rule.pattern.kind = "suffix" /\ rule.pattern.on = d
      <4>1. rule.pattern \in Regex
        BY <3>3, <3>5 DEF IsRule
      <4>2. QED
        BY <3>1, <3>2, <3>5, <4>1, RegexIs DEF CustomMatches
    <3>6. QED
      BY <3>2, <3>4, <3>5
  <2>3. CASE \E r \in tables.regex[action] : RegexMatches(r, name)
    BY <1>3, <2>3 DEF CustomMatches
  <2>4. QED
    BY <1>8, <2>1, <2>2, <2>3, HitsAre
\* For the lines of lists this needs that no exact line is widened.
<1>9. ASSUME NEW l \in ListLinesOf(config, p)
      PROVE  /\ Entry(l) \in RulesOf(config, p) /\ Entry(l).action = l.action
             /\ CustomMatches(Entry(l), name) <=> LineMatches(l, name)
  <2>1. /\ Entry(l).action = l.action /\ Entry(l).pattern = l.pattern
        /\ Entry(l).type = IF l.type = "regex" THEN "regex" ELSE "domain"
    BY <1>2, EntryIs
  <2>2. l.type \in {"exact", "suffix", "regex"} /\ (l.type # "regex" => l.pattern \in Names)
    BY <1>2 DEF Line
  <2>3. CASE l.type = "exact"
    BY <1>1, <1>6, <2>1, <2>3, UnderItself DEF CustomMatches, LineMatches, RulesOf
  <2>4. CASE l.type = "suffix"
    BY <2>1, <2>4 DEF CustomMatches, LineMatches, RulesOf
  <2>5. CASE l.type = "regex"
    BY <2>1, <2>5 DEF CustomMatches, LineMatches, RulesOf
  <2>6. QED
    BY <2>2, <2>3, <2>4, <2>5
<1>10. ProfileRule(config, q, action)
       <=> \E rule \in RulesOf(config, p) : rule.action = action /\ CustomMatches(rule, name)
  <2>1. ASSUME NEW l \in ListLinesOf(config, p), MatchingLine(l)
        PROVE  \E rule \in RulesOf(config, p) : rule.action = action /\ CustomMatches(rule, name)
    BY <1>9, <2>1
  <2>2. ASSUME NEW rule \in RulesOf(config, p), rule.action = action, CustomMatches(rule, name)
        PROVE  \/ \E x \in config.custom[p] : Matching(x)
               \/ \E l \in ListLinesOf(config, p) : MatchingLine(l)
    <3>1. CASE rule \in config.custom[p]
      BY <2>2, <3>1
    <3>2. CASE \E l \in ListLinesOf(config, p) : rule = Entry(l)
      BY <1>9, <2>2, <3>2
    <3>3. QED
      BY <3>1, <3>2 DEF RulesOf
  <2>3. ASSUME NEW rule \in config.custom[p], Matching(rule)
        PROVE  \E x \in RulesOf(config, p) : x.action = action /\ CustomMatches(x, name)
    BY <2>3 DEF RulesOf
  <2>4. QED
    BY <1>4, <2>1, <2>2, <2>3
<1>11. QED
  BY <1>7, <1>8, <1>10 DEF tables

LEMMA GlobalAgrees ==
  ASSUME NEW config \in Config, NEW q \in Query, ~Deviates(config, q), NEW action \in Actions
  PROVE  Hits(Tables(GlobalLines(config)), action, q.name) <=> GlobalRule(config, q, action)
<1> DEFINE lines == GlobalLines(config)
           tables == Tables(lines)
           name == q.name
<1>1. lines \subseteq Line
  BY DEF GlobalLines, ListLines, Config, List
<1>2. GlobalRule(config, q, action)
      <=> \E l \in lines : l.action = action /\ LineMatches(l, name)
  BY DEF GlobalRule, GlobalLines
<1>3. \A l \in lines : l.type = "regex" => l.pattern \in RegexesFor(config, q)
  BY DEF RegexesFor
<1>4. ~Untried(config, q)
  BY DEF Deviates
<1> HIDE DEF lines
<1>5. /\ \A n : n \in tables.exact[action]
            <=> \E l \in lines : l.action = action /\ l.type = "exact" /\ l.pattern = n
      /\ \A n : n \in tables.suffix[action]
            <=> \E l \in lines : l.action = action /\ l.type = "suffix" /\ l.pattern = n
      /\ \A n : n \in tables.regex[action]
            <=> \E l \in lines : l.action = action /\ l.type = "regex" /\ l.pattern = n
  BY DEF Tables, Patterns
<1> HIDE DEF tables
<1>6. ASSUME NEW l \in lines, l.action = action, LineMatches(l, name)
      PROVE  Hits(tables, action, name)
  <2>1. CASE l.type = "exact" /\ name = l.pattern
    BY <1>5, <1>6, <2>1, HitsAre
  <2>2. CASE l.type = "suffix" /\ Under(name, l.pattern)
    BY <1>5, <1>6, <2>2, HitsAre
  <2>3. CASE l.type = "regex" /\ RegexMatches(l.pattern, name)
    <3>1. l.pattern \in tables.regex[action]
      BY <1>5, <1>6, <2>3
    <3>2. l.pattern \in Candidates(tables.regex[action], name)
      BY <1>3, <1>4, <2>3, <3>1, Tried
    <3>3. QED
      BY <2>3, <3>1, <3>2, HitsAre
  <2>4. QED
    BY <1>6, <2>1, <2>2, <2>3 DEF LineMatches
<1>7. ASSUME Hits(tables, action, name)
      PROVE  \E l \in lines : l.action = action /\ LineMatches(l, name)
  <2>1. CASE name \in tables.exact[action]
    BY <1>5, <2>1 DEF LineMatches
  <2>2. CASE \E d \in tables.suffix[action] : Under(name, d)
    BY <1>5, <2>2 DEF LineMatches
  <2>3. CASE \E r \in tables.regex[action] : RegexMatches(r, name)
    BY <1>5, <2>3 DEF LineMatches
  <2>4. QED
    BY <1>7, <2>1, <2>2, <2>3, HitsAre
<1>8. QED
  BY <1>2, <1>6, <1>7 DEF tables, lines

LEMMA NoHits == ASSUME NEW action \in Actions, NEW name PROVE ~Hits(Tables({}), action, name)
<1>1. /\ Tables({}).exact[action] = {} /\ Tables({}).suffix[action] = {}
      /\ Tables({}).regex[action] = {}
  BY DEF Tables, Patterns
<1>2. QED
  BY <1>1, HitsAre

\* What each step of check finds, in the words of the documentation.
LEMMA StepsAgree ==
  ASSUME NEW config \in Config, NEW q \in Query, ~Deviates(config, q)
  PROVE  LET e == Build(config) IN
         /\ \A action \in Actions : /\ ProfileHits(e, q, action) <=> ProfileRule(config, q, action)
                                    /\ GlobalHits(e, q, action) <=> GlobalRule(config, q, action)
         /\ Rewritten(e, q) <=> \E r \in config.rewrites : RewriteMatches(r, q.name)
         /\ ~ProfileRewrites(config, q)
         /\ SafeSearched(e, q)
              <=> /\ q.profile \in config.filtered
                  /\ \E s \in config.safe[q.profile] : UnderAny(q.name, SafeNames[s])
         /\ YoutubeRestricted(e, q)
              <=> /\ q.profile \in config.filtered
                  /\ q.profile \in config.youtube /\ UnderAny(q.name, YoutubeNames)
         /\ ServiceBlocked(e, q)
              <=> /\ q.profile \in config.filtered
                  /\ \E s \in config.services[q.profile] : UnderAny(q.name, ServiceNames[s])
<1> DEFINE e == Build(config)
           p == q.profile
<1>1. /\ e.global = Tables(GlobalLines(config)) /\ e.rewrite_map = RewriteMap(config)
      /\ e.profile = [x \in Profiles |->
                         Tables(IF x \in config.filtered THEN ProfileLines(config, x) ELSE {})]
      /\ e.safe = {x \in Profiles : x \in config.filtered /\ config.safe[x] # {}}
      /\ e.youtube = config.youtube \cap config.filtered
      /\ e.services = [x \in Profiles |-> IF x \in config.filtered THEN config.services[x] ELSE {}]
  BY DEF Build
<1> HIDE DEF e
<1>2. /\ p \in Profiles \cup {NoProfile} /\ NoProfile \notin Profiles
      /\ config.filtered \subseteq Profiles
      /\ config.safe \in [Profiles -> SUBSET Engines]
      /\ config.rewrites \subseteq Rewrite
  BY NoProfileAssumption DEF Query, Config
<1>3. ASSUME NEW action \in Actions
      PROVE  ProfileHits(e, q, action) <=> ProfileRule(config, q, action)
  <2>1. CASE p \in config.filtered
    <3>1. p \in Profiles /\ p # NoProfile /\ e.profile[p] = Tables(ProfileLines(config, p))
      BY <1>1, <1>2, <2>1
    <3>2. QED
      BY <2>1, <3>1, ProfileAgrees DEF ProfileHits, Known
  <2>2. CASE p \in Profiles /\ p \notin config.filtered
    <3>1. e.profile[p] = Tables({})
      BY <1>1, <2>2
    <3>2. QED
      BY <2>2, <3>1, NoHits DEF ProfileHits, ProfileRule
  <2>3. CASE p = NoProfile
    BY <1>2, <2>3 DEF ProfileHits, ProfileRule, Known
  <2>4. QED
    BY <1>2, <2>1, <2>2, <2>3
<1>4. ASSUME NEW action \in Actions
      PROVE  GlobalHits(e, q, action) <=> GlobalRule(config, q, action)
  BY <1>1, GlobalAgrees DEF GlobalHits
<1>5. Rewritten(e, q) <=> \E r \in config.rewrites : RewriteMatches(r, q.name)
  <2>1. \A r \in config.rewrites : RewriteMatches(r, q.name) => ~r.wildcard
    BY DEF Deviates, NotRewritten
  <2>2. \A r \in config.rewrites : r.wildcard \in BOOLEAN
    BY <1>2 DEF Rewrite
  <2>3. QED
    BY <1>1, <2>1, <2>2 DEF Rewritten, RewriteMap, RewriteMatches
<1>6. ~ProfileRewrites(config, q)
  BY DEF Deviates, NotRewritten
<1>7. SafeSearched(e, q)
        <=> /\ p \in config.filtered
            /\ \E s \in config.safe[p] : UnderAny(q.name, SafeNames[s])
  <2>1. CASE p \in config.filtered
    <3>1. config.safe[p] # {} =>
            \A s \in Engines \ config.safe[p] : ~UnderAny(q.name, SafeNames[s])
      BY <2>1 DEF Deviates, Widened
    <3>2. p \in e.safe <=> config.safe[p] # {}
      BY <1>1, <1>2, <2>1
    <3>3. UnderAny(q.name, UNION {SafeNames[s] : s \in Engines})
            <=> \E s \in Engines : UnderAny(q.name, SafeNames[s])
      BY DEF UnderAny
    <3>4. config.safe[p] \subseteq Engines
      BY <1>2, <2>1
    <3>5. QED
      BY <2>1, <3>1, <3>2, <3>3, <3>4 DEF SafeSearched
  <2>2. CASE p \notin config.filtered
    BY <1>1, <2>2 DEF SafeSearched
  <2>3. QED
    BY <2>1, <2>2
<1>8. YoutubeRestricted(e, q)
        <=> /\ p \in config.filtered
            /\ p \in config.youtube /\ UnderAny(q.name, YoutubeNames)
  BY <1>1 DEF YoutubeRestricted
<1>9. ServiceBlocked(e, q)
        <=> /\ p \in config.filtered
            /\ \E s \in config.services[p] : UnderAny(q.name, ServiceNames[s])
  <2>1. CASE p \in config.filtered
    <3>1. p # NoProfile /\ e.services[p] = config.services[p]
      BY <1>1, <1>2, <2>1
    <3>2. QED
      BY <2>1, <3>1 DEF ServiceBlocked, Known, UnderAny
  <2>2. CASE p \in Profiles /\ p \notin config.filtered
    <3>1. e.services[p] = {}
      BY <1>1, <2>2
    <3>2. QED
      BY <2>2, <3>1 DEF ServiceBlocked, UnderAny
  <2>3. CASE p = NoProfile
    BY <1>2, <2>3 DEF ServiceBlocked, Known
  <2>4. QED
    BY <1>2, <2>1, <2>2, <2>3
<1>10. QED
  BY <1>3, <1>4, <1>5, <1>6, <1>7, <1>8, <1>9 DEF e

LEMMA FirstIs ==
  ASSUME NEW S, S \subseteq Nat, NEW k \in S, \A j \in S : k <= j
  PROVE  Min(S) = k
<1> DEFINE m == Min(S)
<1>1. m \in S /\ \A j \in S : m <= j
  BY DEF Min
<1> HIDE DEF m
<1>2. m \in Nat /\ k \in Nat /\ m <= k /\ k <= m
  BY <1>1
<1>3. m = k
  BY ONLY <1>2
<1>4. QED
  BY <1>3 DEF m

\* The first reason that applies.
LEMMA PromisedIs ==
  ASSUME NEW config, NEW q, NEW k \in 1..11, Applies(config, q, Priority[k]),
         \A j \in 1..11 : j < k => ~Applies(config, q, Priority[j])
  PROVE  Promised(config, q) = Priority[k]
<1> DEFINE I == {i \in 1..Len(Priority) : Applies(config, q, Priority[i])}
<1>1. Len(Priority) = 11
  BY DEF Priority
<1>2. I \subseteq Nat /\ k \in I /\ \A j \in I : k <= j
  BY <1>1
<1> HIDE DEF I
<1>3. Min(I) = k /\ I # {}
  BY <1>2, FirstIs
<1>4. SelectInSeq(Priority, LAMBDA reason : Applies(config, q, reason)) = k
  BY <1>3 DEF SelectInSeq, I
<1>5. QED
  BY <1>4 DEF Promised

\* The engine decides as the documentation promises.
LEMMA Decided ==
  ASSUME NEW config \in Config, NEW q \in Query, ~Deviates(config, q)
  PROVE  Check(Build(config), q) = Promised(config, q)
<1> DEFINE e == Build(config)
           applies(j) == Applies(config, q, Priority[j])
<1>1. /\ \A action \in Actions : /\ ProfileHits(e, q, action) <=> ProfileRule(config, q, action)
                                 /\ GlobalHits(e, q, action) <=> GlobalRule(config, q, action)
      /\ Rewritten(e, q) <=> \E r \in config.rewrites : RewriteMatches(r, q.name)
      /\ ~ProfileRewrites(config, q)
      /\ SafeSearched(e, q)
           <=> /\ q.profile \in config.filtered
               /\ \E s \in config.safe[q.profile] : UnderAny(q.name, SafeNames[s])
      /\ YoutubeRestricted(e, q)
           <=> /\ q.profile \in config.filtered
               /\ q.profile \in config.youtube /\ UnderAny(q.name, YoutubeNames)
      /\ ServiceBlocked(e, q)
           <=> /\ q.profile \in config.filtered
               /\ \E s \in config.services[q.profile] : UnderAny(q.name, ServiceNames[s])
  BY StepsAgree
<1> HIDE DEF e
<1>2. /\ Priority[1] = "client_filtering_disabled" /\ Priority[2] = "profile_allow"
      /\ Priority[3] = "allow" /\ Priority[4] = "profile_rewrite" /\ Priority[5] = "rewrite"
      /\ Priority[6] = "profile_block" /\ Priority[7] = "block" /\ Priority[8] = "safesearch"
      /\ Priority[9] = "youtube_restricted" /\ Priority[10] = "service_block"
      /\ Priority[11] = "no_match"
  BY DEF Priority
<1>3. /\ applies(1) <=> ~q.filtering
      /\ applies(2) <=> ProfileHits(e, q, "allow")
      /\ applies(3) <=> GlobalHits(e, q, "allow")
      /\ ~applies(4)
      /\ applies(5) <=> Rewritten(e, q)
      /\ applies(6) <=> ProfileHits(e, q, "block")
      /\ applies(7) <=> GlobalHits(e, q, "block")
      /\ applies(8) <=> SafeSearched(e, q)
      /\ applies(9) <=> YoutubeRestricted(e, q)
      /\ applies(10) <=> ServiceBlocked(e, q)
      /\ applies(11)
  BY <1>1, <1>2 DEF Applies, Actions
<1> HIDE DEF applies
<1>4. ASSUME NEW k \in 1..11, applies(k), \A j \in 1..11 : j < k => ~applies(j)
      PROVE  Promised(config, q) = Priority[k]
  BY <1>4, PromisedIs DEF applies
<1>5. \E k \in 1..11 : /\ applies(k) /\ Check(e, q) = Priority[k]
                       /\ \A j \in 1..11 : j < k => ~applies(j)
  <2>1. \A j \in 1..11 : \/ j = 1 \/ j = 2 \/ j = 3 \/ j = 4 \/ j = 5 \/ j = 6
                         \/ j = 7 \/ j = 8 \/ j = 9 \/ j = 10 \/ j = 11
    OBVIOUS
  <2>2. CASE ~q.filtering
    <3>1. applies(1) /\ Check(e, q) = Priority[1]
      BY <1>2, <1>3, <2>2 DEF Check
    <3>2. QED
      BY <3>1
  <2> DEFINE no1 == q.filtering
             no2 == no1 /\ ~ProfileHits(e, q, "allow")
             no3 == no2 /\ ~GlobalHits(e, q, "allow")
             no5 == no3 /\ ~Rewritten(e, q)
             no6 == no5 /\ ~ProfileHits(e, q, "block")
             no7 == no6 /\ ~GlobalHits(e, q, "block")
             no8 == no7 /\ ~SafeSearched(e, q)
             no9 == no8 /\ ~YoutubeRestricted(e, q)
             no10 == no9 /\ ~ServiceBlocked(e, q)
  <2>3. CASE no1 /\ ProfileHits(e, q, "allow")
    <3>1. applies(2) /\ Check(e, q) = Priority[2] /\ ~applies(1)
      BY <1>2, <1>3, <2>3 DEF Check
    <3>2. QED
      BY <2>1, <3>1
  <2>4. CASE no2 /\ GlobalHits(e, q, "allow")
    <3>1. applies(3) /\ Check(e, q) = Priority[3] /\ ~applies(1) /\ ~applies(2)
      BY <1>2, <1>3, <2>4 DEF Check
    <3>2. QED
      BY <2>1, <3>1
  <2>5. CASE no3 /\ Rewritten(e, q)
    <3>1. applies(5) /\ Check(e, q) = Priority[5]
          /\ ~applies(1) /\ ~applies(2) /\ ~applies(3) /\ ~applies(4)
      BY <1>2, <1>3, <2>5 DEF Check
    <3>2. QED
      BY <2>1, <3>1
  <2>6. CASE no5 /\ ProfileHits(e, q, "block")
    <3>1. applies(6) /\ Check(e, q) = Priority[6]
          /\ ~applies(1) /\ ~applies(2) /\ ~applies(3) /\ ~applies(4) /\ ~applies(5)
      BY <1>2, <1>3, <2>6 DEF Check
    <3>2. QED
      BY <2>1, <3>1
  <2>7. CASE no6 /\ GlobalHits(e, q, "block")
    <3>1. applies(7) /\ Check(e, q) = Priority[7]
          /\ ~applies(1) /\ ~applies(2) /\ ~applies(3) /\ ~applies(4) /\ ~applies(5)
          /\ ~applies(6)
      BY <1>2, <1>3, <2>7 DEF Check
    <3>2. QED
      BY <2>1, <3>1
  <2>8. CASE no7 /\ SafeSearched(e, q)
    <3>1. applies(8) /\ Check(e, q) = Priority[8]
          /\ ~applies(1) /\ ~applies(2) /\ ~applies(3) /\ ~applies(4) /\ ~applies(5)
          /\ ~applies(6) /\ ~applies(7)
      BY <1>2, <1>3, <2>8 DEF Check
    <3>2. QED
      BY <2>1, <3>1
  <2>9. CASE no8 /\ YoutubeRestricted(e, q)
    <3>1. applies(9) /\ Check(e, q) = Priority[9]
          /\ ~applies(1) /\ ~applies(2) /\ ~applies(3) /\ ~applies(4) /\ ~applies(5)
          /\ ~applies(6) /\ ~applies(7) /\ ~applies(8)
      BY <1>2, <1>3, <2>9 DEF Check
    <3>2. QED
      BY <2>1, <3>1
  <2>10. CASE no9 /\ ServiceBlocked(e, q)
    <3>1. applies(10) /\ Check(e, q) = Priority[10]
          /\ ~applies(1) /\ ~applies(2) /\ ~applies(3) /\ ~applies(4) /\ ~applies(5)
          /\ ~applies(6) /\ ~applies(7) /\ ~applies(8) /\ ~applies(9)
      BY <1>2, <1>3, <2>10 DEF Check
    <3>2. QED
      BY <2>1, <3>1
  <2>11. CASE no10
    <3>1. applies(11) /\ Check(e, q) = Priority[11]
          /\ ~applies(1) /\ ~applies(2) /\ ~applies(3) /\ ~applies(4) /\ ~applies(5)
          /\ ~applies(6) /\ ~applies(7) /\ ~applies(8) /\ ~applies(9) /\ ~applies(10)
      BY <1>2, <1>3, <2>11 DEF Check
    <3>2. QED
      BY <2>1, <3>1
  <2>12. QED
    BY <2>2, <2>3, <2>4, <2>5, <2>6, <2>7, <2>8, <2>9, <2>10, <2>11
<1>6. QED
  BY <1>4, <1>5 DEF e

LEMMA FirstStep ==
  ASSUME NEW e, NEW q, NEW k \in 1..10, Steps(e, q)[k].matches,
         \A j \in 1..10 : j < k => ~Steps(e, q)[j].matches
  PROVE  Explain(e, q) = Steps(e, q)[k].reason
<1> DEFINE steps == Steps(e, q)
           I == {i \in 1..Len(steps) : steps[i].matches}
<1>1. Len(steps) = 10
  BY DEF Steps
<1>2. Explain(e, q) = steps[SelectInSeq(steps, LAMBDA step : step.matches)].reason
  BY DEF Explain
<1> HIDE DEF steps
<1>3. I \subseteq Nat /\ k \in I /\ \A j \in I : k <= j
  BY <1>1 DEF steps
<1> HIDE DEF I
<1>4. Min(I) = k /\ I # {}
  BY <1>3, FirstIs
<1>5. SelectInSeq(steps, LAMBDA step : step.matches) = k
  BY <1>4 DEF SelectInSeq, I
<1>6. QED
  BY <1>2, <1>5 DEF steps

\* The explanation shows the reason of the decision.
LEMMA ExplainIsCheck == ASSUME NEW e, NEW q PROVE Explain(e, q) = Check(e, q)
<1> DEFINE s(j) == Steps(e, q)[j]
<1>1. /\ s(1).reason = "client_filtering_disabled" /\ (s(1).matches <=> ~q.filtering)
      /\ s(2).reason = "profile_allow" /\ (s(2).matches <=> ProfileHits(e, q, "allow"))
      /\ s(3).reason = "allow" /\ (s(3).matches <=> GlobalHits(e, q, "allow"))
      /\ s(4).reason = "rewrite" /\ (s(4).matches <=> Rewritten(e, q))
      /\ s(5).reason = "profile_block" /\ (s(5).matches <=> ProfileHits(e, q, "block"))
      /\ s(6).reason = "block" /\ (s(6).matches <=> GlobalHits(e, q, "block"))
      /\ s(7).reason = "safesearch" /\ (s(7).matches <=> SafeSearched(e, q))
      /\ s(8).reason = "youtube_restricted" /\ (s(8).matches <=> YoutubeRestricted(e, q))
      /\ s(9).reason = "service_block" /\ (s(9).matches <=> ServiceBlocked(e, q))
      /\ s(10).reason = "no_match" /\ s(10).matches
  BY DEF Steps
<1>2. ASSUME NEW k \in 1..10, s(k).matches, \A j \in 1..10 : j < k => ~s(j).matches
      PROVE  Explain(e, q) = s(k).reason
  BY <1>2, FirstStep
<1> HIDE DEF s
<1>3. \A j \in 1..10 : \/ j = 1 \/ j = 2 \/ j = 3 \/ j = 4 \/ j = 5 \/ j = 6
                       \/ j = 7 \/ j = 8 \/ j = 9 \/ j = 10
  OBVIOUS
<1>4. CASE s(1).matches
  BY <1>1, <1>2, <1>4 DEF Check
<1>5. CASE ~s(1).matches /\ s(2).matches
  <2>1. Explain(e, q) = s(2).reason
    BY <1>2, <1>3, <1>5
  <2>2. QED
    BY <1>1, <1>5, <2>1 DEF Check
<1>6. CASE ~s(1).matches /\ ~s(2).matches /\ s(3).matches
  <2>1. Explain(e, q) = s(3).reason
    BY <1>2, <1>3, <1>6
  <2>2. QED
    BY <1>1, <1>6, <2>1 DEF Check
<1>7. CASE ~s(1).matches /\ ~s(2).matches /\ ~s(3).matches /\ s(4).matches
  <2>1. Explain(e, q) = s(4).reason
    BY <1>2, <1>3, <1>7
  <2>2. QED
    BY <1>1, <1>7, <2>1 DEF Check
<1>8. CASE ~s(1).matches /\ ~s(2).matches /\ ~s(3).matches /\ ~s(4).matches /\ s(5).matches
  <2>1. Explain(e, q) = s(5).reason
    BY <1>2, <1>3, <1>8
  <2>2. QED
    BY <1>1, <1>8, <2>1 DEF Check
<1>9. CASE /\ ~s(1).matches /\ ~s(2).matches /\ ~s(3).matches /\ ~s(4).matches
           /\ ~s(5).matches /\ s(6).matches
  <2>1. Explain(e, q) = s(6).reason
    BY <1>2, <1>3, <1>9
  <2>2. QED
    BY <1>1, <1>9, <2>1 DEF Check
<1>10. CASE /\ ~s(1).matches /\ ~s(2).matches /\ ~s(3).matches /\ ~s(4).matches
            /\ ~s(5).matches /\ ~s(6).matches /\ s(7).matches
  <2>1. Explain(e, q) = s(7).reason
    BY <1>2, <1>3, <1>10
  <2>2. QED
    BY <1>1, <1>10, <2>1 DEF Check
<1>11. CASE /\ ~s(1).matches /\ ~s(2).matches /\ ~s(3).matches /\ ~s(4).matches
            /\ ~s(5).matches /\ ~s(6).matches /\ ~s(7).matches /\ s(8).matches
  <2>1. Explain(e, q) = s(8).reason
    BY <1>2, <1>3, <1>11
  <2>2. QED
    BY <1>1, <1>11, <2>1 DEF Check
<1>12. CASE /\ ~s(1).matches /\ ~s(2).matches /\ ~s(3).matches /\ ~s(4).matches
            /\ ~s(5).matches /\ ~s(6).matches /\ ~s(7).matches /\ ~s(8).matches /\ s(9).matches
  <2>1. Explain(e, q) = s(9).reason
    BY <1>2, <1>3, <1>12
  <2>2. QED
    BY <1>1, <1>12, <2>1 DEF Check
<1>13. CASE /\ ~s(1).matches /\ ~s(2).matches /\ ~s(3).matches /\ ~s(4).matches
            /\ ~s(5).matches /\ ~s(6).matches /\ ~s(7).matches /\ ~s(8).matches /\ ~s(9).matches
  <2>1. Explain(e, q) = s(10).reason
    BY <1>1, <1>2, <1>3, <1>13
  <2>2. QED
    BY <1>1, <1>13, <2>1 DEF Check
<1>14. QED
  BY <1>4, <1>5, <1>6, <1>7, <1>8, <1>9, <1>10, <1>11, <1>12, <1>13

-----------------------------------------------------------------------------
(* The negative cache *)

\* A cache without the key at i is shorter by one.
LEMMA RemoveAtIs ==
  ASSUME NEW S, NEW s \in Seq(S), NEW i \in DOMAIN s, IsInjective(s)
  PROVE  LET r == RemoveAt(s, i) IN
         /\ r \in Seq(S) /\ IsInjective(r) /\ Len(r) = Len(s) - 1
         /\ \A x : x \in ToSet(r) <=> x \in ToSet(s) /\ x # s[i]
<1> DEFINE r == RemoveAt(s, i)
           n == Len(s)
<1>1. n \in Nat /\ DOMAIN s = 1..n /\ i \in 1..n
  OBVIOUS
<1>2. SubSeq(s, 1, i - 1) \in Seq(S) /\ Len(SubSeq(s, 1, i - 1)) = i - 1
      /\ \A j \in 1..(i - 1) : SubSeq(s, 1, i - 1)[j] = s[j]
  BY SubSeqProperties
<1>3. SubSeq(s, i + 1, n) \in Seq(S) /\ Len(SubSeq(s, i + 1, n)) = n - i
      /\ \A j \in 1..(n - i) : SubSeq(s, i + 1, n)[j] = s[i + j]
  BY SubSeqProperties
<1>4. r \in Seq(S) /\ Len(r) = n - 1
      /\ \A j \in 1..(n - 1) : r[j] = IF j < i THEN s[j] ELSE s[j + 1]
  <2> DEFINE a == SubSeq(s, 1, i - 1)
             b == SubSeq(s, i + 1, n)
  <2>1. r = a \o b
    BY DEF RemoveAt
  <2> HIDE DEF a, b, r
  <2>2. a \in Seq(S) /\ b \in Seq(S) /\ Len(a) = i - 1 /\ Len(b) = n - i
    BY <1>2, <1>3 DEF a, b
  <2>3. (\A j \in 1..(i - 1) : a[j] = s[j]) /\ \A j \in 1..(n - i) : b[j] = s[i + j]
    BY <1>2, <1>3 DEF a, b
  <2>4. r \in Seq(S) /\ Len(r) = Len(a) + Len(b)
        /\ \A j \in 1..(Len(a) + Len(b)) : r[j] = IF j <= Len(a) THEN a[j] ELSE b[j - Len(a)]
    BY ONLY <2>1, <2>2, ConcatProperties
  <2>5. Len(a) + Len(b) = n - 1
    BY ONLY <1>1, <2>2
  <2>6. ASSUME NEW j \in 1..(n - 1) PROVE r[j] = IF j < i THEN s[j] ELSE s[j + 1]
    <3>1. CASE j < i
      <4>1. j \in 1..(i - 1) /\ j <= Len(a) /\ j \in 1..(Len(a) + Len(b))
        BY ONLY <1>1, <2>2, <2>5, <3>1, j \in 1..(n - 1)
      <4>2. r[j] = a[j]
        BY ONLY <2>4, <4>1
      <4>3. QED
        BY ONLY <2>3, <3>1, <4>1, <4>2
    <3>2. CASE ~(j < i)
      <4>1. /\ j - (i - 1) \in 1..(n - i) /\ ~(j <= Len(a)) /\ j \in 1..(Len(a) + Len(b))
            /\ j - Len(a) = j - (i - 1) /\ i + (j - (i - 1)) = j + 1
        BY ONLY <1>1, <2>2, <2>5, <3>2, j \in 1..(n - 1)
      <4>2. r[j] = b[j - (i - 1)]
        BY ONLY <2>4, <4>1
      <4>3. QED
        BY ONLY <2>3, <3>2, <4>1, <4>2
    <3>3. QED
      BY <3>1, <3>2
  <2>7. QED
    BY <2>4, <2>5, <2>6
<1> HIDE DEF r
<1>5. \A j \in 1..n : s[j] = s[i] => j = i
  BY DEF IsInjective
<1>b. /\ DOMAIN r = 1..(n - 1)
      /\ \A j \in 1..(n - 1) : \/ j < i /\ j \in 1..n /\ r[j] = s[j]
                               \/ i <= j /\ j + 1 \in 1..n /\ r[j] = s[j + 1]
  <2>1. DOMAIN r = 1..(n - 1)
    BY <1>1, <1>4
  <2>2. ASSUME NEW j \in 1..(n - 1)
        PROVE  \/ j < i /\ j \in 1..n /\ r[j] = s[j]
               \/ i <= j /\ j + 1 \in 1..n /\ r[j] = s[j + 1]
    <3>1. r[j] = IF j < i THEN s[j] ELSE s[j + 1]
      BY <1>4
    <3>2. QED
      BY ONLY <1>1, <3>1, j \in 1..(n - 1)
  <2>3. QED
    BY <2>1, <2>2
<1>6. IsInjective(r)
  <2>1. \A j, k \in 1..n : s[j] = s[k] => j = k
    BY <1>1 DEF IsInjective
  <2>2. ASSUME NEW j \in 1..(n - 1), NEW k \in 1..(n - 1), r[j] = r[k] PROVE j = k
    BY ONLY <1>1, <1>b, <2>1, <2>2, j \in 1..(n - 1), k \in 1..(n - 1)
  <2>3. QED
    BY <1>b, <2>2 DEF IsInjective
<1>7. \A x : x \in ToSet(r) <=> x \in ToSet(s) /\ x # s[i]
  <2>1. \A j \in 1..(n - 1) : r[j] # s[i] /\ \E k \in 1..n : s[k] = r[j]
    <3>1. ASSUME NEW j \in 1..(n - 1) PROVE r[j] # s[i] /\ \E k \in 1..n : s[k] = r[j]
      <4>1. PICK k \in 1..n : k # i /\ r[j] = s[k]
        BY ONLY <1>1, <1>b, j \in 1..(n - 1)
      <4>2. QED
        BY <1>5, <4>1
    <3>2. QED
      BY <3>1
  <2>2. ASSUME NEW k \in 1..n, k # i PROVE \E j \in 1..(n - 1) : r[j] = s[k]
    <3>1. CASE k < i
      BY <1>1, <1>4, <3>1
    <3>2. CASE k > i
      <4>1. k - 1 \in 1..(n - 1) /\ r[k - 1] = s[k]
        BY <1>1, <1>4, <3>2
      <4>2. QED
        BY <4>1
    <3>3. QED
      BY <1>1, <2>2, <3>1, <3>2
  <2>3. DOMAIN r = 1..(n - 1)
    BY <1>1, <1>4
  <2>4. \A x : (\E j \in DOMAIN r : r[j] = x) <=> (\E k \in DOMAIN s : s[k] = x) /\ x # s[i]
    BY <1>1, <2>1, <2>2, <2>3
  <2>5. QED
    BY <2>4 DEF ToSet
<1>8. QED
  BY <1>4, <1>6, <1>7 DEF r

LEMMA AppendIs ==
  ASSUME NEW S, NEW s \in Seq(S), IsInjective(s), NEW x \in S, x \notin ToSet(s)
  PROVE  LET r == Append(s, x) IN
         /\ r \in Seq(S) /\ IsInjective(r) /\ Len(r) = Len(s) + 1
         /\ \A y : y \in ToSet(r) <=> y \in ToSet(s) \/ y = x
<1> DEFINE r == Append(s, x)
           n == Len(s)
<1>1. /\ n \in Nat /\ DOMAIN s = 1..n /\ \A i \in 1..n : s[i] # x
      /\ \A i, j \in 1..n : s[i] = s[j] => i = j
  BY DEF ToSet, IsInjective
<1>2. /\ r \in Seq(S) /\ Len(r) = n + 1 /\ DOMAIN r = 1..(n + 1)
      /\ \A i \in 1..n : r[i] = s[i]
      /\ r[n + 1] = x
  BY AppendProperties
<1> HIDE DEF r, n
<1>3. ASSUME NEW i \in 1..(n + 1) PROVE i \in 1..n \/ i = n + 1
  BY <1>1
<1>4. IsInjective(r)
  BY <1>1, <1>2, <1>3 DEF IsInjective
<1>5. \A y : (\E i \in DOMAIN r : r[i] = y) <=> (\E i \in DOMAIN s : s[i] = y) \/ y = x
  <2>1. n + 1 \in 1..(n + 1) /\ 1..n \subseteq 1..(n + 1)
    BY <1>1
  <2>2. QED
    BY <1>1, <1>2, <1>3, <2>1
<1>6. QED
  BY <1>2, <1>4, <1>5 DEF r, n, ToSet

LEMMA TailIs ==
  ASSUME NEW S, NEW s \in Seq(S), IsInjective(s), s # <<>>
  PROVE  /\ Tail(s) \in Seq(S) /\ IsInjective(Tail(s)) /\ Len(Tail(s)) = Len(s) - 1
         /\ ToSet(Tail(s)) \subseteq ToSet(s)
<1> DEFINE r == Tail(s)
           n == Len(s)
<1>1. /\ n \in Nat \ {0} /\ DOMAIN s = 1..n
      /\ \A i, j \in 1..n : s[i] = s[j] => i = j
  BY DEF IsInjective
<1>2. /\ r \in Seq(S) /\ Len(r) = n - 1 /\ DOMAIN r = 1..(n - 1)
      /\ \A i \in 1..(n - 1) : r[i] = s[i + 1]
  BY HeadTailProperties
<1> HIDE DEF r, n
<1>3. \A i \in 1..(n - 1) : i \in Int /\ i + 1 \in 1..n
  BY <1>1
<1>4. IsInjective(r)
  <2>1. ASSUME NEW i \in 1..(n - 1), NEW j \in 1..(n - 1), r[i] = r[j] PROVE i = j
    <3>1. i + 1 = j + 1
      BY <1>1, <1>2, <1>3, <2>1
    <3>2. QED
      BY <1>3, <3>1
  <2>2. QED
    BY <1>2, <2>1 DEF IsInjective
<1>5. \A i \in DOMAIN r : r[i] \in ToSet(s)
  BY <1>1, <1>2, <1>3 DEF ToSet
<1>6. QED
  BY <1>2, <1>4, <1>5 DEF r, n, ToSet

Keys == Names \X (Profiles \cup {NoProfile})

\* A cache in which a key moved to the end.
LEMMA ToEndIs ==
  ASSUME TypeOK, NEW g \in Generations, NEW key, Cached(g, key)
  PROVE  LET c == ToEnd(g, key) IN
         /\ c \in [Generations -> Seq(Keys)]
         /\ \A x \in Generations : x # g => c[x] = negative[x]
         /\ IsInjective(c[g]) /\ Len(c[g]) = Len(negative[g])
         /\ ToSet(c[g]) = ToSet(negative[g])
<1> DEFINE s == negative[g]
           i == Place(g, key)
           r == RemoveAt(s, i)
<1>1. /\ negative \in [Generations -> Seq(Keys)] /\ IsInjective(s) /\ s \in Seq(Keys)
      /\ Len(s) \in Nat
  <2>1. negative \in [Generations -> Seq(Keys)]
    BY DEF TypeOK, Keys
  <2>2. IsInjective(s)
    BY DEF TypeOK
  <2>3. s \in Seq(Keys)
    BY <2>1
  <2>4. QED
    BY <2>1, <2>2, <2>3
<1>2. i \in DOMAIN s /\ s[i] = key
  BY DEF Cached, ToSet, Place
<1>3. key \in Keys /\ key \in ToSet(s)
  BY <1>1, <1>2 DEF Cached
<1>4. ToEnd(g, key) = [negative EXCEPT ![g] = Append(r, key)]
  BY DEF ToEnd
<1> HIDE DEF s, i
<1>5. /\ r \in Seq(Keys) /\ IsInjective(r) /\ Len(r) = Len(s) - 1
      /\ \A x : x \in ToSet(r) <=> x \in ToSet(s) /\ x # key
  BY <1>1, <1>2, RemoveAtIs
<1> HIDE DEF r
<1>6. /\ Append(r, key) \in Seq(Keys) /\ IsInjective(Append(r, key))
      /\ Len(Append(r, key)) = Len(r) + 1
      /\ \A y : y \in ToSet(Append(r, key)) <=> y \in ToSet(r) \/ y = key
  BY <1>3, <1>5, AppendIs
<1> DEFINE a == Append(r, key)
<1> HIDE DEF a
<1>7. a \in Seq(Keys) /\ IsInjective(a) /\ Len(a) = Len(s) /\ ToSet(a) = ToSet(s)
  <2>1. \A y : y \in ToSet(a) <=> y \in ToSet(s)
    BY <1>3, <1>5, <1>6 DEF a
  <2>2. Len(a) = Len(s)
    BY <1>1, <1>5, <1>6 DEF a
  <2>3. QED
    BY <1>6, <2>1, <2>2 DEF a
<1>8. ToEnd(g, key) = [negative EXCEPT ![g] = a]
  BY <1>4 DEF a
<1>9. QED
  BY <1>1, <1>7, <1>8 DEF s

-----------------------------------------------------------------------------
(* The threads and the engines *)

NoMatch(g, q) == q.filtering /\ Check(EngineOf(g), q) = "no_match"

\* What a cache has is what its engine decided, and a thread that is at work
\* on the cache has a query for which its engine has no rule.
RememberedIsTrue ==
    \A g \in Generations : \A key \in ToSet(negative[g]) :
        \A q \in Query : q.filtering /\ Key(q) = key => NoMatch(g, q)
AnswersAreTrue ==
    \A t \in Threads :
        /\ pc[t] \in {"touch", "put", "touchNew", "full", "trim"} => NoMatch(held[t], query[t])
        /\ Answered(t) => result[t] = Check(EngineOf(held[t]), query[t])

\* The threads that added a key to a cache and did not make room yet.
Making(g) == {t \in Threads : held[t] = g /\ pc[t] \in {"touchNew", "full", "trim"}}
Bounded ==
    \A g \in Generations : Len(negative[g]) <= CacheMax + lost[g] + Cardinality(Making(g))

EngineInv == TypeOK /\ RememberedIsTrue /\ AnswersAreTrue /\ Bounded

LEMMA ScenarioIs ==
  ASSUME scenario \in Scenarios
  PROVE  /\ History \in Seq(Config) /\ Generations = 1..Len(History) /\ Len(History) \in Nat \ {0}
         /\ \A g \in Generations : History[g] \in Config
         /\ scenario.queries \subseteq Query /\ scenario.queries # {}
         /\ scenario.workers \subseteq Threads /\ scenario.asks \in 0..MaxQueries
<1>1. /\ scenario.history \in Seq(Config) /\ scenario.history # <<>>
      /\ scenario.workers \subseteq Threads
      /\ scenario.queries \subseteq Query /\ scenario.queries # {}
      /\ scenario.asks \in 0..MaxQueries
  BY ScenariosAssumption
<1>2. QED
  BY <1>1 DEF History, Generations

LEMMA CheckIs == ASSUME NEW e, NEW q
                 PROVE  Check(e, q) \in Reasons \ {"", "error"}
                        /\ (Check(e, q) = "no_match" => q.filtering)
<1>1. DOMAIN Priority = 1..11
  BY DEF Priority
<1>2. /\ Priority[1] = "client_filtering_disabled" /\ Priority[2] = "profile_allow"
      /\ Priority[3] = "allow" /\ Priority[5] = "rewrite"
      /\ Priority[6] = "profile_block" /\ Priority[7] = "block" /\ Priority[8] = "safesearch"
      /\ Priority[9] = "youtube_restricted" /\ Priority[10] = "service_block"
      /\ Priority[11] = "no_match"
  BY DEF Priority
<1>3. {"client_filtering_disabled", "profile_allow", "allow", "rewrite", "profile_block",
       "block", "safesearch", "youtube_restricted", "service_block", "no_match"} \subseteq Reasons
  BY <1>1, <1>2 DEF Reasons, ToSet
<1>4. Check(e, q) \in {"client_filtering_disabled", "profile_allow", "allow", "rewrite",
         "profile_block", "block", "safesearch", "youtube_restricted", "service_block", "no_match"}
  BY DEF Check
<1>5. Check(e, q) = "no_match" => q.filtering
  BY DEF Check
<1>6. QED
  BY <1>3, <1>4, <1>5

\* Queries that are filtered and have one key are one query.
LEMMA KeyIs ==
  ASSUME NEW q \in Query, NEW r \in Query, q.filtering, r.filtering, Key(q) = Key(r)
  PROVE  q = r
  BY DEF Query, Key

\* A step of a thread that keeps its query, to another place.
LEMMA MakingIs ==
  ASSUME TypeOK, NEW t \in Threads, NEW place \in Places, Goto(t, place), UNCHANGED held,
         NEW g
  PROVE  /\ Making(g)' = IF g = held[t] /\ place \in {"touchNew", "full", "trim"}
                         THEN Making(g) \cup {t} ELSE Making(g) \ {t}
         /\ IsFiniteSet(Making(g)) /\ Cardinality(Making(g)) \in Nat
         /\ IsFiniteSet(Making(g)') /\ Cardinality(Making(g))' \in Nat
         /\ Cardinality(Making(g))' =
              CASE t \in Making(g) /\ t \in Making(g)' -> Cardinality(Making(g))
                [] t \in Making(g) /\ t \notin Making(g)' -> Cardinality(Making(g)) - 1
                [] t \notin Making(g) /\ t \in Making(g)' -> Cardinality(Making(g)) + 1
                [] OTHER -> Cardinality(Making(g))
<1> DEFINE M == Making(g)
           N == Making(g)'
<1>1. N = IF g = held[t] /\ place \in {"touchNew", "full", "trim"} THEN M \cup {t} ELSE M \ {t}
  BY DEF Making, Goto, TypeOK
<1>2. M \in SUBSET Threads /\ N \in SUBSET Threads
  BY DEF Making
<1>3. Cardinality(Making(g))' = Cardinality(N)
  OBVIOUS
<1> HIDE DEF M, N
<1>4. IsFiniteSet(M) /\ IsFiniteSet(N) /\ Cardinality(M) \in Nat /\ Cardinality(N) \in Nat
  BY <1>2, ThreadsAssumption, FS_Subset, FS_CardinalityType
<1>5. /\ Cardinality(M \cup {t}) = IF t \in M THEN Cardinality(M) ELSE Cardinality(M) + 1
      /\ Cardinality(M \ {t}) = IF t \in M THEN Cardinality(M) - 1 ELSE Cardinality(M)
  BY <1>4, FS_AddElement, FS_RemoveElement
<1>6. QED
  BY <1>1, <1>3, <1>4, <1>5 DEF M, N

LEMMA EngineInit == Init => EngineInv
<1> SUFFICES ASSUME Init PROVE EngineInv
  OBVIOUS
<1>1. /\ History \in Seq(Config) /\ Generations = 1..Len(History) /\ Len(History) \in Nat \ {0}
      /\ scenario.queries \subseteq Query /\ scenario.queries # {}
      /\ scenario.asks \in 0..MaxQueries
  BY ScenarioIs DEF Init
<1>2. TypeOK
  <2>1. 1 \in Generations /\ 0 \in 0..MaxQueries
    BY <1>1, MaxQueriesAssumption
  <2>2. IsInjective(<<>>) /\ <<>> \in Seq(Names \X (Profiles \cup {NoProfile}))
    BY DEF IsInjective
  <2>3. /\ negative \in [Generations -> Seq(Names \X (Profiles \cup {NoProfile}))]
        /\ \A g \in Generations : IsInjective(negative[g])
    BY <2>2 DEF Init
  <2>4. query \in [Threads -> Query]
    BY <1>1 DEF Init
  <2>5. QED
    BY <1>1, <2>1, <2>3, <2>4 DEF Init, TypeOK, Places
<1>3. RememberedIsTrue
  <2>1. ToSet(<<>>) = {}
    BY DEF ToSet
  <2>2. QED
    BY <2>1 DEF Init, RememberedIsTrue
<1>4. AnswersAreTrue
  BY DEF Init, AnswersAreTrue, Answered
<1>5. Bounded
  <2>1. \A g : Making(g) = {}
    BY DEF Making, Init
  <2>2. Cardinality({}) = 0
    BY FS_EmptySet
  <2>3. \A g \in Generations : Len(negative[g]) = 0 /\ lost[g] = 0 /\ Cardinality(Making(g)) = 0
    BY <2>1, <2>2 DEF Init
  <2>4. QED
    BY <2>3, CacheMaxAssumption DEF Bounded
<1>6. QED
  BY <1>2, <1>3, <1>4, <1>5 DEF EngineInv

\* The engines of the generations do not change.
LEMMA EnginesStay ==
  ASSUME UNCHANGED scenario
  PROVE  /\ History' = History /\ Generations' = Generations
         /\ \A g : EngineOf(g)' = EngineOf(g)
         /\ \A g, q : NoMatch(g, q)' <=> NoMatch(g, q)
<1>1. History' = History
  BY DEF History
<1>2. Generations' = Generations /\ \A g : EngineOf(g)' = EngineOf(g)
  BY <1>1 DEF Generations, EngineOf
<1>3. \A g, q : NoMatch(g, q)' <=> NoMatch(g, q)
  BY <1>2 DEF NoMatch
<1>4. QED
  BY <1>1, <1>2, <1>3

\* What a step of a thread has to see to: the cache of the engine it holds.
LEMMA StepKeeps ==
  ASSUME EngineInv, NEW t \in Threads, NEW place \in Places, NEW n \in Nat,
         NEW r \in Reasons \cup {"", "error"}, NEW c \in Seq(Keys), IsInjective(c),
         Goto(t, place), UNCHANGED <<scenario, active, query, held, left>>,
         result' = [result EXCEPT ![t] = r],
         lost' = [lost EXCEPT ![held[t]] = n],
         negative' = [negative EXCEPT ![held[t]] = c],
         \A key \in ToSet(c) : \/ key \in ToSet(negative[held[t]])
                               \/ NoMatch(held[t], query[t]) /\ key = Key(query[t]),
         place \in {"touch", "put", "touchNew", "full", "trim"} => NoMatch(held[t], query[t]),
         place = "idle" /\ r \notin {"", "error"} => r = Check(EngineOf(held[t]), query[t]),
         Len(c) <= CacheMax + n + Cardinality(Making(held[t]))'
  PROVE  EngineInv'
<1>0. /\ scenario \in Scenarios /\ active \in Generations
      /\ negative \in [Generations -> Seq(Keys)]
      /\ \A g \in Generations : IsInjective(negative[g])
      /\ pc \in [Threads -> Places] /\ query \in [Threads -> Query]
      /\ held \in [Threads -> Generations]
      /\ result \in [Threads -> Reasons \cup {"", "error"}]
      /\ left \in [Threads -> 0..MaxQueries]
      /\ lost \in [Generations -> Nat]
  BY DEF EngineInv, TypeOK, Keys
<1>1. /\ History' = History /\ Generations' = Generations
      /\ \A g : EngineOf(g)' = EngineOf(g)
      /\ \A g, q : NoMatch(g, q)' <=> NoMatch(g, q)
  BY EnginesStay
<1>2. /\ scenario' = scenario /\ active' = active /\ query' = query /\ held' = held
      /\ left' = left /\ pc' = [pc EXCEPT ![t] = place]
  BY DEF Goto
<1>3. \A g \in Generations : negative'[g] = IF g = held[t] THEN c ELSE negative[g]
  BY <1>0
<1>4. TypeOK'
  <2>1. /\ negative' \in [Generations -> Seq(Keys)]
        /\ pc' \in [Threads -> Places]
        /\ result' \in [Threads -> Reasons \cup {"", "error"}]
        /\ lost' \in [Generations -> Nat]
    BY <1>0, <1>2
  <2>2. \A g \in Generations : IsInjective(negative'[g])
    BY <1>0, <1>3
  <2>3. \A g \in Generations : IsInjective(negative[g])'
    BY <2>2 DEF IsInjective
  <2>4. QED
    BY <1>0, <1>1, <1>2, <2>1, <2>3 DEF TypeOK, Keys
<1>5. RememberedIsTrue'
  <2>1. ASSUME NEW g \in Generations, NEW key \in ToSet(negative'[g]), NEW q \in Query,
               q.filtering, Key(q) = key
        PROVE  NoMatch(g, q)
    <3>1. CASE key \in ToSet(negative[g])
      BY <2>1, <3>1 DEF EngineInv, RememberedIsTrue
    <3>2. CASE g = held[t] /\ NoMatch(held[t], query[t]) /\ key = Key(query[t])
      <4>1. q = query[t]
        BY <1>0, <2>1, <3>2, KeyIs DEF NoMatch
      <4>2. QED
        BY <3>2, <4>1
    <3>3. QED
      BY <1>3, <3>1, <3>2
  <2>2. QED
    BY <1>1, <2>1 DEF RememberedIsTrue, ToSet, Key
<1>6. AnswersAreTrue'
  <2>1. ASSUME NEW u \in Threads
        PROVE  /\ pc'[u] \in {"touch", "put", "touchNew", "full", "trim"}
                     => NoMatch(held[u], query[u])
               /\ pc'[u] = "idle" /\ result'[u] \notin {"", "error"}
                     => result'[u] = Check(EngineOf(held[u]), query[u])
    <3>1. CASE u = t
      BY <1>0, <1>2, <3>1
    <3>2. CASE u # t
      <4>1. pc'[u] = pc[u] /\ result'[u] = result[u]
        BY <1>0, <1>2, <3>2
      <4>2. QED
        BY <4>1 DEF EngineInv, AnswersAreTrue, Answered
    <3>3. QED
      BY <3>1, <3>2
  <2>2. ASSUME NEW u \in Threads
        PROVE  /\ NoMatch(held[u], query[u])' <=> NoMatch(held[u], query[u])
               /\ Check(EngineOf(held[u]), query[u])' = Check(EngineOf(held[u]), query[u])
    <3>1. EngineOf(held[u])' = EngineOf(held[u])
      BY <1>1, <1>2 DEF EngineOf
    <3>2. QED
      BY <1>2, <3>1 DEF NoMatch
  <2>3. QED
    BY <1>2, <2>1, <2>2 DEF AnswersAreTrue, Answered
<1>7. Bounded'
  <2>1. ASSUME NEW g \in Generations
        PROVE  Len(negative'[g]) <= CacheMax + lost'[g] + Cardinality(Making(g))'
    <3>1. CASE g = held[t]
      BY <1>0, <1>3, <3>1
    <3>2. CASE g # held[t]
      <4>1. negative'[g] = negative[g] /\ lost'[g] = lost[g]
        BY <1>0, <1>3, <3>2
      <4>2. Cardinality(Making(g))' = Cardinality(Making(g))
        <5>1. Making(g)' = Making(g)
          BY <1>2, <3>2 DEF Making, EngineInv, TypeOK
        <5>2. QED
          BY <5>1
      <4>3. QED
        BY <4>1, <4>2 DEF EngineInv, Bounded
    <3>3. QED
      BY <3>1, <3>2
  <2>2. QED
    BY <1>1, <2>1 DEF Bounded
<1>8. QED
  BY <1>4, <1>5, <1>6, <1>7 DEF EngineInv

\* What the invariant says of a thread and of the engine it holds.
LEMMA ThreadIs ==
  ASSUME EngineInv, NEW t \in Threads
  PROVE  /\ held[t] \in Generations /\ query[t] \in Query
         /\ result[t] \in Reasons \cup {"", "error"}
         /\ negative \in [Generations -> Seq(Keys)] /\ negative[held[t]] \in Seq(Keys)
         /\ IsInjective(negative[held[t]]) /\ Len(negative[held[t]]) \in Nat
         /\ lost \in [Generations -> Nat] /\ lost[held[t]] \in Nat
         /\ result \in [Threads -> Reasons \cup {"", "error"}]
         /\ Len(negative[held[t]]) <= CacheMax + lost[held[t]] + Cardinality(Making(held[t]))
         /\ pc[t] \in {"touch", "put", "touchNew", "full", "trim"} => NoMatch(held[t], query[t])
         /\ CacheMax \in Nat /\ "no_match" \in Reasons
<1>1. /\ held[t] \in Generations /\ query[t] \in Query
      /\ result[t] \in Reasons \cup {"", "error"}
      /\ negative \in [Generations -> Seq(Keys)]
      /\ \A g \in Generations : IsInjective(negative[g])
      /\ lost \in [Generations -> Nat] /\ lost[held[t]] \in Nat
      /\ result \in [Threads -> Reasons \cup {"", "error"}]
  BY DEF EngineInv, TypeOK, Keys
<1>2. negative[held[t]] \in Seq(Keys) /\ Len(negative[held[t]]) \in Nat
  <2>1. negative[held[t]] \in Seq(Keys)
    BY <1>1
  <2>2. QED
    BY <2>1, LenProperties
<1>3. /\ Len(negative[held[t]]) <= CacheMax + lost[held[t]] + Cardinality(Making(held[t]))
      /\ pc[t] \in {"touch", "put", "touchNew", "full", "trim"} => NoMatch(held[t], query[t])
  BY <1>1 DEF EngineInv, Bounded, AnswersAreTrue
<1>4. "no_match" \in Reasons
  <2>1. DOMAIN Priority = 1..11 /\ Priority[11] = "no_match"
    BY DEF Priority
  <2>2. QED
    BY <2>1 DEF Reasons, ToSet
<1>5. QED
  BY <1>1, <1>2, <1>3, <1>4, CacheMaxAssumption

LEMMA AskKeeps ==
  ASSUME EngineInv, NEW t \in Threads, NEW q \in scenario.queries, Ask(t, q)
  PROVE  EngineInv'
<1>1. /\ q \in Query /\ scenario \in Scenarios /\ active \in Generations
      /\ pc \in [Threads -> Places] /\ query \in [Threads -> Query]
      /\ held \in [Threads -> Generations]
      /\ result \in [Threads -> Reasons \cup {"", "error"}]
      /\ left \in [Threads -> 0..MaxQueries] /\ left[t] > 0
  BY ScenarioIs DEF EngineInv, TypeOK, Ask
<1>2. /\ History' = History /\ Generations' = Generations
      /\ \A g : EngineOf(g)' = EngineOf(g)
      /\ \A g, r : NoMatch(g, r)' <=> NoMatch(g, r)
  BY EnginesStay DEF Ask
<1> DEFINE place == IF q.filtering /\ Cached(active, Key(q)) THEN "touch" ELSE "decide"
<1>3. /\ pc[t] = "idle" /\ pc' = [pc EXCEPT ![t] = place]
      /\ left' = [left EXCEPT ![t] = @ - 1]
      /\ query' = [query EXCEPT ![t] = q] /\ held' = [held EXCEPT ![t] = active]
      /\ result' = [result EXCEPT ![t] = ""]
      /\ scenario' = scenario /\ active' = active /\ negative' = negative /\ lost' = lost
  BY DEF Ask, Goto
<1>4. place = "touch" => NoMatch(active, q)
  BY <1>1 DEF EngineInv, RememberedIsTrue, Cached
<1>5. place \in {"touch", "decide"}
  OBVIOUS
<1> HIDE DEF place
<1>6. TypeOK'
  <2>1. left' \in [Threads -> 0..MaxQueries]
    <3>1. left[t] - 1 \in 0..MaxQueries
      <4>1. left[t] \in 0..MaxQueries /\ left[t] > 0
        BY <1>1
      <4> DEFINE n == left[t]
      <4> HIDE DEF n
      <4>2. n \in 0..MaxQueries /\ n > 0 => n - 1 \in 0..MaxQueries
        BY MaxQueriesAssumption
      <4>3. QED
        BY <4>1, <4>2 DEF n
    <3>2. QED
      BY <1>1, <1>3, <3>1
  <2>2. /\ pc' \in [Threads -> Places] /\ query' \in [Threads -> Query]
        /\ held' \in [Threads -> Generations]
        /\ result' \in [Threads -> Reasons \cup {"", "error"}]
    BY <1>1, <1>3, <1>5 DEF Places
  <2>3. \A g \in Generations : IsInjective(negative[g])'
    BY <1>3 DEF EngineInv, TypeOK, IsInjective
  <2>4. QED
    BY <1>1, <1>2, <1>3, <2>1, <2>2, <2>3 DEF EngineInv, TypeOK
<1>7. RememberedIsTrue'
  BY <1>2, <1>3 DEF EngineInv, RememberedIsTrue, ToSet, Key
<1>8. AnswersAreTrue'
  <2>1. ASSUME NEW u \in Threads
        PROVE  /\ pc'[u] \in {"touch", "put", "touchNew", "full", "trim"}
                     => NoMatch(held'[u], query'[u])
               /\ pc'[u] = "idle" /\ result'[u] \notin {"", "error"}
                     => result'[u] = Check(EngineOf(held'[u]), query'[u])
    <3>1. CASE u = t
      BY <1>1, <1>3, <1>4, <1>5, <3>1
    <3>2. CASE u # t
      <4>1. pc'[u] = pc[u] /\ result'[u] = result[u] /\ held'[u] = held[u] /\ query'[u] = query[u]
        BY <1>1, <1>3, <3>2
      <4>2. QED
        BY <4>1 DEF EngineInv, AnswersAreTrue, Answered
    <3>3. QED
      BY <3>1, <3>2
  <2>2. \A g, r : NoMatch(g, r)' <=> NoMatch(g, r)
    BY <1>2
  <2>3. ASSUME NEW u \in Threads
        PROVE  /\ NoMatch(held[u], query[u])' <=> NoMatch(held'[u], query'[u])
               /\ Check(EngineOf(held[u]), query[u])' = Check(EngineOf(held'[u]), query'[u])
    <3>1. EngineOf(held[u])' = EngineOf(held'[u])
      BY <1>2 DEF EngineOf
    <3>2. QED
      BY <3>1 DEF NoMatch
  <2>4. QED
    BY <2>1, <2>3 DEF AnswersAreTrue, Answered
<1>9. Bounded'
  <2>1. ASSUME NEW g PROVE Making(g)' = Making(g)
    BY <1>1, <1>3, <1>5 DEF Making
  <2>2. ASSUME NEW g PROVE Cardinality(Making(g))' = Cardinality(Making(g))
    BY <2>1
  <2>3. QED
    BY <1>2, <1>3, <2>2 DEF EngineInv, Bounded
<1>10. QED
  BY <1>6, <1>7, <1>8, <1>9 DEF EngineInv

LEMMA TouchKeeps == ASSUME EngineInv, NEW t \in Threads, Touch(t) PROVE EngineInv'
<1> DEFINE g == held[t]
           key == Key(query[t])
<1>1. /\ pc[t] = "touch" /\ NoMatch(g, query[t]) /\ g \in Generations
      /\ UNCHANGED <<scenario, active, query, held, left, lost>>
      /\ negative \in [Generations -> Seq(Keys)] /\ IsInjective(negative[g])
      /\ Len(negative[g]) \in Nat /\ lost[g] \in Nat /\ lost \in [Generations -> Nat]
      /\ Len(negative[g]) <= CacheMax + lost[g] + Cardinality(Making(g))
      /\ CacheMax \in Nat /\ "no_match" \in Reasons /\ TypeOK
  BY ThreadIs DEF Touch, EngineInv
<1>0. TypeOK /\ UNCHANGED held /\ {"idle"} \subseteq Places
  BY <1>1 DEF Places
<1>2. Check(EngineOf(g), query[t]) = "no_match" /\ "idle" \in Places
  BY <1>1 DEF NoMatch, Places
<1>3. lost' = [lost EXCEPT ![g] = lost[g]]
  BY <1>1
<1>4. Goto(t, "idle")
  BY DEF Touch, Return
<1>5. Cardinality(Making(g))' = Cardinality(Making(g))
  <2>1. t \notin Making(g)
    BY <1>1 DEF Making
  <2>2. Making(g)' = Making(g) \ {t}
    BY <1>0, <1>2, <1>4, MakingIs
  <2>3. Making(g)' = Making(g)
    BY <2>1, <2>2
  <2>4. QED
    BY <2>3
<1>6. CASE Cached(g, key)
  <2> DEFINE c == ToEnd(g, key)[g]
  <2>1. negative' = ToEnd(g, key) /\ result' = [result EXCEPT ![t] = "no_match"]
    BY <1>6 DEF Touch, Return
  <2>2. /\ ToEnd(g, key) \in [Generations -> Seq(Keys)]
        /\ \A x \in Generations : x # g => ToEnd(g, key)[x] = negative[x]
        /\ IsInjective(c) /\ Len(c) = Len(negative[g]) /\ ToSet(c) = ToSet(negative[g])
    BY <1>1, <1>6, ToEndIs
  <2>3. c \in Seq(Keys) /\ negative' = [negative EXCEPT ![g] = c]
    BY <1>1, <2>1, <2>2
  <2> HIDE DEF c
  <2>4. QED
    BY <1>1, <1>2, <1>3, <1>4, <1>5, <2>1, <2>2, <2>3, StepKeeps DEF c
<1>7. CASE ~Cached(g, key)
  <2>1. negative' = [negative EXCEPT ![g] = negative[g]] /\ negative[g] \in Seq(Keys)
        /\ result' = [result EXCEPT ![t] = "error"]
    BY <1>1, <1>7 DEF Touch, Return
  <2>2. QED
    BY <1>1, <1>2, <1>3, <1>4, <1>5, <2>1, StepKeeps
<1>8. QED
  BY <1>6, <1>7

LEMMA DecideKeeps == ASSUME EngineInv, NEW t \in Threads, Decide(t) PROVE EngineInv'
<1> DEFINE g == held[t]
           reason == Check(EngineOf(g), query[t])
           place == IF reason = "no_match" THEN "put" ELSE "idle"
           r == IF reason = "no_match" THEN result[t] ELSE reason
<1>1. /\ pc[t] = "decide" /\ g \in Generations /\ TypeOK
      /\ UNCHANGED <<scenario, active, query, held, left, lost>> /\ negative' = negative
      /\ negative \in [Generations -> Seq(Keys)] /\ negative[g] \in Seq(Keys)
      /\ IsInjective(negative[g]) /\ lost \in [Generations -> Nat] /\ lost[g] \in Nat
      /\ Len(negative[g]) <= CacheMax + lost[g] + Cardinality(Making(g))
      /\ result \in [Threads -> Reasons \cup {"", "error"}]
  BY ThreadIs DEF Decide, EngineInv
<1>0. TypeOK /\ UNCHANGED held
  BY <1>1
<1>2. reason \in Reasons \ {"", "error"} /\ (reason = "no_match" => NoMatch(g, query[t]))
  BY CheckIs DEF NoMatch
<1>3. /\ place \in Places /\ r \in Reasons \cup {"", "error"}
      /\ Goto(t, place) /\ result' = [result EXCEPT ![t] = r]
      /\ place \in {"put", "idle"} /\ (place = "put" => NoMatch(g, query[t]))
      /\ (place = "idle" => r = Check(EngineOf(g), query[t]))
  <2>1. CASE reason = "no_match"
    BY <1>1, <1>2, <2>1 DEF Decide, Places
  <2>2. CASE reason # "no_match"
    BY <1>1, <1>2, <2>2 DEF Decide, Places, Return
  <2>3. QED
    BY <2>1, <2>2
<1> HIDE DEF place, r, reason
<1>4. Cardinality(Making(g))' = Cardinality(Making(g))
  <2>1. t \notin Making(g)
    BY <1>1 DEF Making
  <2>2. Making(g)' = Making(g) \ {t}
    BY <1>0, <1>3, MakingIs
  <2>3. Making(g)' = Making(g)
    BY <2>1, <2>2
  <2>4. QED
    BY <2>3
<1>5. lost' = [lost EXCEPT ![g] = lost[g]] /\ negative' = [negative EXCEPT ![g] = negative[g]]
  BY <1>1
<1>6. QED
  BY <1>1, <1>3, <1>4, <1>5, StepKeeps

LEMMA PutKeeps == ASSUME EngineInv, NEW t \in Threads, Put(t) PROVE EngineInv'
<1> DEFINE g == held[t]
           key == Key(query[t])
           c == IF key \in ToSet(negative[g]) THEN negative[g] ELSE Append(negative[g], key)
<1>1. /\ pc[t] = "put" /\ NoMatch(g, query[t]) /\ g \in Generations /\ TypeOK
      /\ UNCHANGED <<scenario, active, query, held, result, left, lost>>
      /\ negative \in [Generations -> Seq(Keys)] /\ negative[g] \in Seq(Keys)
      /\ IsInjective(negative[g]) /\ Len(negative[g]) \in Nat
      /\ lost \in [Generations -> Nat] /\ lost[g] \in Nat /\ CacheMax \in Nat
      /\ Len(negative[g]) <= CacheMax + lost[g] + Cardinality(Making(g))
      /\ result \in [Threads -> Reasons \cup {"", "error"}]
      /\ result[t] \in Reasons \cup {"", "error"}
  BY ThreadIs DEF Put, EngineInv
<1>0. TypeOK /\ UNCHANGED held /\ {"touchNew"} \subseteq Places
  BY <1>1 DEF Places
<1>2. Goto(t, "touchNew") /\ negative' = [negative EXCEPT ![g] = c]
  BY DEF Put
<1>3. key \in Keys
  BY ThreadIs DEF Key, Query, Keys
<1>4. /\ c \in Seq(Keys) /\ IsInjective(c) /\ Len(c) \in Nat /\ Len(c) <= Len(negative[g]) + 1
      /\ \A x \in ToSet(c) : x \in ToSet(negative[g]) \/ x = key
  <2> DEFINE s == negative[g]
  <2>0. s \in Seq(Keys) /\ IsInjective(s) /\ Len(s) \in Nat
    BY <1>1
  <2> HIDE DEF s, key
  <2>1. CASE key \in ToSet(s)
    <3>1. c = s
      BY <2>1 DEF s
    <3> HIDE DEF c
    <3>2. QED
      BY <2>0, <3>1 DEF s
  <2>2. CASE key \notin ToSet(s)
    <3>1. c = Append(s, key)
      BY <2>2 DEF s
    <3>2. /\ Append(s, key) \in Seq(Keys) /\ IsInjective(Append(s, key))
          /\ Len(Append(s, key)) = Len(s) + 1
          /\ \A y : y \in ToSet(Append(s, key)) <=> y \in ToSet(s) \/ y = key
      BY <1>3, <2>0, <2>2, AppendIs
    <3> HIDE DEF c
    <3>3. QED
      BY <2>0, <3>1, <3>2 DEF s
  <2>3. QED
    BY <2>1, <2>2
<1> HIDE DEF c
<1>5. Cardinality(Making(g))' = Cardinality(Making(g)) + 1 /\ Cardinality(Making(g)) \in Nat
  <2>1. t \notin Making(g) /\ "touchNew" \in Places
    BY <1>1 DEF Making, Places
  <2>2. Making(g)' = Making(g) \cup {t}
    BY <1>0, <1>2, <2>1, MakingIs
  <2>3. t \in Making(g)'
    BY <2>2
  <2>4. QED
    BY <1>0, <1>2, <2>1, <2>3, MakingIs
<1>6. Len(c) <= CacheMax + lost[g] + Cardinality(Making(g))'
  <2> DEFINE k == Cardinality(Making(g))
             l == Len(negative[g])
  <2>1. /\ k \in Nat /\ l \in Nat /\ Len(c) \in Nat /\ lost[g] \in Nat /\ CacheMax \in Nat
        /\ l <= CacheMax + lost[g] + k /\ Len(c) <= l + 1
    BY <1>1, <1>4, <1>5
  <2> HIDE DEF k, l
  <2>2. Len(c) <= CacheMax + lost[g] + (k + 1)
    BY <2>1
  <2>3. QED
    BY <1>5, <2>2 DEF k
<1>7. lost' = [lost EXCEPT ![g] = lost[g]] /\ result' = [result EXCEPT ![t] = result[t]]
      /\ "touchNew" \in Places
  BY <1>1 DEF Places
<1>8. QED
  BY <1>1, <1>2, <1>4, <1>6, <1>7, StepKeeps

LEMMA TouchNewKeeps == ASSUME EngineInv, NEW t \in Threads, TouchNew(t) PROVE EngineInv'
<1> DEFINE g == held[t]
           key == Key(query[t])
           k == Cardinality(Making(g))
           l == Len(negative[g])
<1>1. /\ pc[t] = "touchNew" /\ NoMatch(g, query[t]) /\ g \in Generations /\ TypeOK
      /\ UNCHANGED <<scenario, active, query, held, left>>
      /\ negative \in [Generations -> Seq(Keys)] /\ negative[g] \in Seq(Keys)
      /\ IsInjective(negative[g])
      /\ lost \in [Generations -> Nat]
      /\ result \in [Threads -> Reasons \cup {"", "error"}]
      /\ result[t] \in Reasons \cup {"", "error"}
      /\ {"full", "idle"} \subseteq Places
  BY ThreadIs DEF TouchNew, EngineInv, Places
<1>0. TypeOK /\ UNCHANGED held /\ {"full", "idle"} \subseteq Places
  BY <1>1 DEF Places
<1>2. /\ l \in Nat /\ lost[g] \in Nat /\ CacheMax \in Nat
      /\ l <= CacheMax + lost[g] + k
  BY ThreadIs
<1>3. t \in Making(g)
  BY <1>1 DEF Making
<1>4. CASE Cached(g, key)
  <2> DEFINE c == ToEnd(g, key)[g]
  <2>1. negative' = ToEnd(g, key) /\ Goto(t, "full") /\ result' = result /\ lost' = lost
    BY <1>4 DEF TouchNew
  <2>2. /\ ToEnd(g, key) \in [Generations -> Seq(Keys)]
        /\ \A x \in Generations : x # g => ToEnd(g, key)[x] = negative[x]
        /\ IsInjective(c) /\ Len(c) = l /\ ToSet(c) = ToSet(negative[g])
    BY <1>1, <1>4, ToEndIs
  <2>3. c \in Seq(Keys) /\ negative' = [negative EXCEPT ![g] = c]
    BY <1>1, <2>1, <2>2
  <2>4. Cardinality(Making(g))' = k
    <3>1. Making(g)' = Making(g) \cup {t}
      BY <1>0, <2>1, MakingIs
    <3>2. Making(g)' = Making(g)
      BY <1>3, <3>1
    <3>3. QED
      BY <3>2
  <2>5. lost' = [lost EXCEPT ![g] = lost[g]] /\ result' = [result EXCEPT ![t] = result[t]]
    BY <1>1, <2>1
  <2> HIDE DEF c, l, k
  <2>6. Len(c) <= CacheMax + lost[g] + Cardinality(Making(g))'
    BY <1>2, <2>2, <2>4
  <2>7. QED
    BY <1>1, <1>2, <2>1, <2>2, <2>3, <2>5, <2>6, StepKeeps DEF c
<1>5. CASE ~Cached(g, key)
  <2>1. /\ Goto(t, "idle") /\ result' = [result EXCEPT ![t] = "error"]
        /\ lost' = [lost EXCEPT ![g] = lost[g] + 1] /\ negative' = negative
    BY <1>5 DEF TouchNew, Return
  <2>2. negative' = [negative EXCEPT ![g] = negative[g]]
    BY <1>1, <2>1
  <2>3. Cardinality(Making(g))' = k - 1 /\ k \in Nat
    <3>1. Making(g)' = Making(g) \ {t}
      BY <1>0, <2>1, MakingIs
    <3>2. t \notin Making(g)'
      BY <3>1
    <3>3. QED
      BY <1>0, <1>3, <2>1, <3>2, MakingIs
  <2>4. l <= CacheMax + (lost[g] + 1) + Cardinality(Making(g))' /\ lost[g] + 1 \in Nat
    <3> HIDE DEF l, k
    <3>1. l <= CacheMax + (lost[g] + 1) + (k - 1) /\ lost[g] + 1 \in Nat
      BY <1>2, <2>3
    <3>2. QED
      BY <2>3, <3>1
  <2>5. QED
    BY <1>1, <2>1, <2>2, <2>4, StepKeeps
<1>6. QED
  BY <1>4, <1>5

LEMMA FullKeeps == ASSUME EngineInv, NEW t \in Threads, Full(t) PROVE EngineInv'
<1> DEFINE g == held[t]
           k == Cardinality(Making(g))
           l == Len(negative[g])
<1>1. /\ pc[t] = "full" /\ NoMatch(g, query[t]) /\ g \in Generations /\ TypeOK
      /\ UNCHANGED <<scenario, active, negative, query, held, left, lost>>
      /\ negative \in [Generations -> Seq(Keys)] /\ negative[g] \in Seq(Keys)
      /\ IsInjective(negative[g])
      /\ lost \in [Generations -> Nat]
      /\ result \in [Threads -> Reasons \cup {"", "error"}]
      /\ result[t] \in Reasons \cup {"", "error"} /\ "no_match" \in Reasons
      /\ {"trim", "idle"} \subseteq Places
  BY ThreadIs DEF Full, EngineInv, Places
<1>0. TypeOK /\ UNCHANGED held /\ {"idle", "trim"} \subseteq Places
  BY <1>1 DEF Places
<1>2. /\ l \in Nat /\ lost[g] \in Nat /\ CacheMax \in Nat
      /\ l <= CacheMax + lost[g] + k
  BY ThreadIs
<1>3. t \in Making(g)
  BY <1>1 DEF Making
<1>4. /\ negative' = [negative EXCEPT ![g] = negative[g]] /\ lost' = [lost EXCEPT ![g] = lost[g]]
  BY <1>1
<1>5. CASE l > CacheMax
  <2>1. Goto(t, "trim") /\ result' = [result EXCEPT ![t] = result[t]]
    BY <1>1, <1>5 DEF Full
  <2>2. Cardinality(Making(g))' = k
    <3>1. Making(g)' = Making(g) \cup {t}
      BY <1>0, <2>1, MakingIs
    <3>2. Making(g)' = Making(g)
      BY <1>3, <3>1
    <3>3. QED
      BY <3>2
  <2>3. l <= CacheMax + lost[g] + Cardinality(Making(g))'
    BY <1>2, <2>2
  <2>4. QED
    BY <1>1, <1>2, <1>4, <2>1, <2>3, StepKeeps
<1>6. CASE ~(l > CacheMax)
  <2>1. Goto(t, "idle") /\ result' = [result EXCEPT ![t] = "no_match"]
    BY <1>6 DEF Full, Return
  <2>2. Cardinality(Making(g))' \in Nat
    BY <1>0, <2>1, MakingIs
  <2>3. l <= CacheMax + lost[g] + Cardinality(Making(g))'
    <3> HIDE DEF l
    <3>1. QED
      BY <1>2, <1>6, <2>2
  <2>4. "no_match" = Check(EngineOf(g), query[t])
    BY <1>1 DEF NoMatch
  <2>5. QED
    BY <1>1, <1>2, <1>4, <2>1, <2>3, <2>4, StepKeeps
<1>7. QED
  BY <1>5, <1>6

LEMMA TrimKeeps == ASSUME EngineInv, NEW t \in Threads, Trim(t) PROVE EngineInv'
<1> DEFINE g == held[t]
           s == negative[g]
           k == Cardinality(Making(g))
<1>1. /\ pc[t] = "trim" /\ NoMatch(g, query[t]) /\ g \in Generations /\ TypeOK
      /\ UNCHANGED <<scenario, active, query, held, left, lost>>
      /\ negative \in [Generations -> Seq(Keys)] /\ s \in Seq(Keys)
      /\ IsInjective(s)
      /\ lost \in [Generations -> Nat]
      /\ result \in [Threads -> Reasons \cup {"", "error"}]
      /\ "no_match" \in Reasons /\ "idle" \in Places
  BY ThreadIs DEF Trim, EngineInv, Places
<1>0. TypeOK /\ UNCHANGED held /\ {"idle"} \subseteq Places
  BY <1>1 DEF Places
<1>2. /\ Len(s) \in Nat /\ lost[g] \in Nat /\ CacheMax \in Nat
      /\ Len(s) <= CacheMax + lost[g] + k
  BY ThreadIs
<1>3. Goto(t, "idle") /\ lost' = [lost EXCEPT ![g] = lost[g]]
  BY <1>1 DEF Trim, Return
<1>4. Cardinality(Making(g))' = k - 1 /\ k \in Nat /\ Cardinality(Making(g))' \in Nat
  <2>1. t \in Making(g)
    BY <1>1 DEF Making
  <2>2. Making(g)' = Making(g) \ {t}
    BY <1>0, <1>3, MakingIs
  <2>3. t \notin Making(g)'
    BY <2>2
  <2>4. QED
    BY <1>0, <1>3, <2>1, <2>3, MakingIs
<1>5. CASE s # <<>>
  <2> DEFINE c == Tail(s)
  <2>1. negative' = [negative EXCEPT ![g] = c] /\ result' = [result EXCEPT ![t] = "no_match"]
    BY <1>5 DEF Trim, Return
  <2>2. /\ c \in Seq(Keys) /\ IsInjective(c) /\ Len(c) = Len(s) - 1
        /\ ToSet(c) \subseteq ToSet(s)
    BY <1>1, <1>5, TailIs
  <2> HIDE DEF c, s, k
  <2>3. Len(c) <= CacheMax + lost[g] + Cardinality(Making(g))'
    <3>1. Len(c) <= CacheMax + lost[g] + (k - 1)
      BY <1>2, <1>4, <2>2
    <3>2. QED
      BY <1>4, <3>1
  <2>4. "no_match" = Check(EngineOf(g), query[t])
    BY <1>1 DEF NoMatch
  <2>5. QED
    BY <1>1, <1>2, <1>3, <2>1, <2>2, <2>3, <2>4, StepKeeps DEF s
<1>6. CASE s = <<>>
  <2>1. negative' = [negative EXCEPT ![g] = s] /\ result' = [result EXCEPT ![t] = "error"]
    BY <1>1, <1>6 DEF Trim, Return
  <2>2. Len(s) <= CacheMax + lost[g] + Cardinality(Making(g))'
    <3>1. Len(s) = 0
      BY <1>6
    <3>2. QED
      BY <1>2, <1>4, <3>1
  <2>3. QED
    BY <1>1, <1>2, <1>3, <2>1, <2>2, StepKeeps
<1>7. QED
  BY <1>5, <1>6

\* Another active engine, and nothing else.
LEMMA ActiveMayChange ==
  ASSUME EngineInv, active' \in Generations,
         UNCHANGED <<scenario, negative, pc, query, held, result, left, lost>>
  PROVE  EngineInv'
<1>1. /\ scenario' = scenario /\ negative' = negative /\ pc' = pc /\ query' = query
      /\ held' = held /\ result' = result /\ left' = left /\ lost' = lost
  OBVIOUS
<1>4. History' = History /\ Generations' = Generations
  BY <1>1, EnginesStay
<1>5. \A g : Cardinality(Making(g))' = Cardinality(Making(g))
  <2>1. \A g : Making(g)' = Making(g)
    BY <1>1 DEF Making
  <2>2. QED
    BY <2>1
<1>6. TypeOK'
  <2>1. \A g \in Generations : IsInjective(negative[g])'
    BY <1>1 DEF EngineInv, TypeOK, IsInjective
  <2>2. QED
    BY <1>1, <1>4, <2>1 DEF EngineInv, TypeOK
<1>7. RememberedIsTrue' /\ AnswersAreTrue'
  <2>1. /\ \A g, q : NoMatch(g, q)' <=> NoMatch(g, q)
        /\ \A g : EngineOf(g)' = EngineOf(g)
    BY <1>1, EnginesStay
  <2>2. RememberedIsTrue'
    BY <1>1, <1>4, <2>1 DEF EngineInv, RememberedIsTrue, ToSet, Key
  <2>3. AnswersAreTrue'
    <3>1. ASSUME NEW t \in Threads
          PROVE  /\ NoMatch(held[t], query[t])' <=> NoMatch(held[t], query[t])
                 /\ Check(EngineOf(held[t]), query[t])' = Check(EngineOf(held[t]), query[t])
      <4>1. EngineOf(held[t])' = EngineOf(held[t])
        BY <1>1, <1>4 DEF EngineOf
      <4>2. QED
        BY <1>1, <4>1 DEF NoMatch
    <3>2. QED
      BY <1>1, <3>1 DEF EngineInv, AnswersAreTrue, Answered
  <2>4. QED
    BY <2>2, <2>3
<1>8. Bounded'
  BY <1>1, <1>4, <1>5 DEF EngineInv, Bounded
<1>9. QED
  BY <1>6, <1>7, <1>8 DEF EngineInv

LEMMA EngineHolds == Spec => []EngineInv
<1>1. EngineInv /\ [Next]_vars => EngineInv'
  <2> SUFFICES ASSUME EngineInv, [Next]_vars PROVE EngineInv'
    OBVIOUS
  <2>1. ASSUME NEW t \in Threads, NEW q \in scenario.queries, Ask(t, q) PROVE EngineInv'
    BY <2>1, AskKeeps
  <2>2. ASSUME NEW t \in Threads, Step(t) PROVE EngineInv'
    BY <2>2, TouchKeeps, DecideKeeps, PutKeeps, TouchNewKeeps, FullKeeps, TrimKeeps DEF Step
  <2>3. CASE Reload
    <3>1. Generations = 1..Len(History) /\ Len(History) \in Nat /\ active \in Generations
      BY ScenarioIs DEF EngineInv, TypeOK
    <3>2. active' \in Generations
      BY <2>3, <3>1 DEF Reload
    <3>3. QED
      BY <2>3, <3>2, ActiveMayChange DEF Reload
  <2>4. CASE UNCHANGED vars
    <3>1. active' \in Generations
      BY <2>4 DEF vars, EngineInv, TypeOK
    <3>2. QED
      BY <2>4, <3>1, ActiveMayChange DEF vars
  <2>5. QED
    BY <2>1, <2>2, <2>3, <2>4 DEF Next
<1>2. QED
  BY <1>1, EngineInit, PTL DEF Spec

-----------------------------------------------------------------------------

\* Whatever rules the generations have and whatever the threads ask, every
\* query gets the answer the documented priority gives for the rules of the
\* engine it began with, but where the code treats the rules differently.
THEOREM PromisesKept == Spec => []AnswersKeepPromises
<1>1. EngineInv => AnswersKeepPromises
  <2> SUFFICES ASSUME EngineInv, NEW t \in Threads, Answered(t),
                      ~Deviates(History[held[t]], query[t])
               PROVE  result[t] = Promised(History[held[t]], query[t])
    BY DEF AnswersKeepPromises
  <2>1. History[held[t]] \in Config /\ query[t] \in Query
    BY ScenarioIs, ThreadIs DEF EngineInv, TypeOK
  <2>2. result[t] = Check(EngineOf(held[t]), query[t])
    BY DEF EngineInv, AnswersAreTrue
  <2>3. Check(Build(History[held[t]]), query[t]) = Promised(History[held[t]], query[t])
    BY <2>1, Decided
  <2>4. QED
    BY <2>2, <2>3 DEF EngineOf
<1>2. QED
  BY <1>1, EngineHolds, PTL

\* The explanation of a decision, which looks at no cache, shows the reason
\* for which the query was answered.
THEOREM ExplanationsTrue == Spec => []ExplainAgrees
<1>1. EngineInv => ExplainAgrees
  BY ExplainIsCheck DEF EngineInv, AnswersAreTrue, ExplainAgrees
<1>2. QED
  BY <1>1, EngineHolds, PTL

\* However many threads share a negative cache, it is too big by at most the
\* entries whose threads did not make room yet, or failed before they could.
THEOREM CachesBounded == Spec => []CacheBounded
<1>1. EngineInv => CacheBounded
  BY DEF EngineInv, Bounded, Making, CacheBounded
<1>2. QED
  BY <1>1, EngineHolds, PTL

-----------------------------------------------------------------------------
(* The conversion of the text of a list *)

\* A set of numbers has a least one.
LEMMA SmallestExists ==
  ASSUME NEW S, S \subseteq Nat, S # {}
  PROVE  \E m \in S : \A k \in S : m <= k
<1> DEFINE R == {ss \in Nat \X Nat : ss[1] < ss[2]}
<1>1. IsWellFoundedOn(R, Nat)
  BY NatLessThanWellFounded, Zenon DEF OpToRel
<1>2. \A k, m \in Nat : k < m => <<k, m>> \in R
  OBVIOUS
<1> HIDE DEF R
<1>3. PICK m \in S : \A k \in S : ~(<<k, m>> \in R)
  BY <1>1, WFMin
<1>4. \A k \in S : ~(k < m)
  BY <1>2, <1>3
<1>5. QED
  BY <1>4

Blocking == {"bd", "bs", "br"}

\* A text is some lines, each as a line can be read.
IsText(lines) == /\ \E n \in Nat : lines \in [1..n -> RI!Line]
                 /\ \A i \in DOMAIN lines : RI!Readable(lines[i])

\* The rules of a line have its domains, and block only what it does not allow.
LEMMA LineHasRules ==
  ASSUME NEW line, RI!Readable(line)
  PROVE  \/ RI!ParseLine(line).rules = <<>>
         \/ \E prefix : /\ RI!ParseLine(line).rules = RI!Rules(prefix, line.domains)
                        /\ prefix \in Blocking /\ line.kind \notin RI!Native => ~line.allow
<1> DEFINE P(prefix) == prefix \in Blocking /\ line.kind \notin RI!Native => ~line.allow
           Good(parsed) == \/ parsed.rules = <<>>
                           \/ \E prefix : parsed.rules = RI!Rules(prefix, line.domains) /\ P(prefix)
<1>1. /\ line.kind \in RI!Kinds /\ line.allow \in BOOLEAN
      /\ line.kind = "hosts" => ~line.allow
  BY DEF RI!Readable, RI!Line
<1>2. \A category : Good(RI!To(category, <<>>))
  BY DEF RI!To
<1>3. ASSUME NEW prefix, P(prefix) PROVE Good(RI!To("converted", RI!Rules(prefix, line.domains)))
  BY <1>3 DEF RI!To
<1>4. /\ P(RI!Side(line, "as", "bs")) /\ P(RI!Side(line, "ad", "bd")) /\ P(RI!Side(line, "ar", "br"))
      /\ line.kind = "hosts" => P("bd")
      /\ line.kind \in RI!Native => P(line.kind)
  BY <1>1 DEF RI!Side, Blocking
<1> HIDE DEF P, Good
<1>5. Good(RI!AdblockLine(line))
  BY <1>2, <1>3, <1>4 DEF RI!AdblockLine
<1>6. Good(RI!ParseLine(line))
  <2>1. CASE RI!SwitchesOff(line)
    BY <1>2, <2>1 DEF RI!ParseLine
  <2>2. CASE ~RI!SwitchesOff(line) /\ line.kind \in RI!Native
    BY <1>2, <1>3, <1>4, <2>2 DEF RI!ParseLine, RI!Native
  <2>3. CASE ~RI!SwitchesOff(line) /\ line.kind \notin RI!Native
    <3>1. line.kind \in {"comment", "long", "cosmetic", "umatrix", "invalid", "adblock", "hosts",
                         "plain", "wildcard", "partial", "other"}
      BY <1>1, <2>3 DEF RI!Kinds
    <3>2. QED
      BY <1>2, <1>3, <1>4, <1>5, <2>3, <3>1 DEF RI!ParseLine
  <2>4. QED
    BY <2>1, <2>2, <2>3
<1>7. QED
  BY <1>6 DEF P, Good

\* A line is not converted just when another one is what switches it off.
LEMMA SwitchedOff ==
  ASSUME NEW a, NEW b, RI!Readable(a), RI!Readable(b)
  PROVE  RI!IsSwitchFor(b, a) <=> RI!SwitchesOff(b) /\ RI!Canonical(b) = RI!Canonical(a)
<1> DEFINE C(line) == [kind |-> line.kind, allow |-> line.allow, domains |-> line.domains,
                       options |-> RI!ToSet(line.options) \ {"badfilter"}]
<1>1. \A line \in RI!Line : RI!Canonical(line) = C(line)
  <2>1. ASSUME NEW line \in RI!Line PROVE RI!Canonical(line) = C(line)
    <3>1. line = [kind |-> line.kind, allow |-> line.allow, domains |-> line.domains,
                  options |-> line.options]
      BY DEF RI!Line
    <3>2. QED
      BY <3>1 DEF RI!Canonical
  <2>2. QED
    BY <2>1
<1>2. a \in RI!Line /\ b \in RI!Line
  BY DEF RI!Readable
<1>3. RI!Canonical(b) = RI!Canonical(a) <=>
        /\ <<b.kind, b.allow, b.domains>> = <<a.kind, a.allow, a.domains>>
        /\ RI!ToSet(b.options) \ {"badfilter"} = RI!ToSet(a.options) \ {"badfilter"}
  <2>1. C(b) = C(a) <=>
          /\ b.kind = a.kind /\ b.allow = a.allow /\ b.domains = a.domains
          /\ RI!ToSet(b.options) \ {"badfilter"} = RI!ToSet(a.options) \ {"badfilter"}
    OBVIOUS
  <2>2. QED
    BY <1>1, <1>2, <2>1
<1>4. RI!SwitchesOff(b) => "badfilter" \in RI!ToSet(b.options)
  BY <1>2 DEF RI!SwitchesOff, RI!Line, RI!ToSet
<1>5. QED
  BY <1>3, <1>4 DEF RI!IsSwitchFor, RI!SwitchesOff

-----------------------------------------------------------------------------
\* The rules of all lines.
AllRules(parsed) == UNION {RI!ToSet(parsed[i].rules) : i \in DOMAIN parsed}

\* That rules of the lines before are left out loses no rule.
LEMMA NoRuleIsLost ==
  ASSUME NEW lines, DOMAIN lines \subseteq Nat
  PROVE  RI!ToSet(RI!ImportLines(lines)) = AllRules(RI!Parsed(lines))
<1> DEFINE parsed == RI!Parsed(lines)
           rule(p) == parsed[p[1]].rules[p[2]]
           kept == {q \in RI!Places(parsed) : rule(q) \notin RI!Seen(parsed, q[1])}
<1>1. RI!ImportLines(lines) = [p \in kept |-> rule(p)]
  BY DEF RI!ImportLines
<1>2. DOMAIN parsed \subseteq Nat
  BY DEF RI!Parsed
<1> HIDE DEF parsed
<1>3. \A p \in RI!Places(parsed) : p[1] \in DOMAIN parsed /\ p[2] \in DOMAIN parsed[p[1]].rules
  BY DEF RI!Places
<1>4. \A i \in DOMAIN parsed : \A k \in DOMAIN parsed[i].rules : <<i, k>> \in RI!Places(parsed)
  BY DEF RI!Places
<1>5. ASSUME NEW r \in AllRules(parsed) PROVE \E p \in kept : rule(p) = r
  <2> DEFINE having == {i \in DOMAIN parsed : r \in RI!ToSet(parsed[i].rules)}
  <2>1. having \subseteq Nat /\ having # {}
    BY <1>2, <1>5 DEF AllRules
  <2>2. PICK i \in having : \A k \in having : i <= k
    BY <2>1, SmallestExists
  <2>3. i \in DOMAIN parsed /\ r \notin RI!Seen(parsed, i)
    BY <1>2, <2>2 DEF RI!Seen
  <2>4. PICK k \in DOMAIN parsed[i].rules : parsed[i].rules[k] = r
    BY <2>2 DEF RI!ToSet
  <2>5. <<i, k>> \in kept /\ rule(<<i, k>>) = r
    BY <1>4, <2>3, <2>4
  <2>6. QED
    BY <2>5
<1>6. \A p \in kept : rule(p) \in AllRules(parsed)
  BY <1>3 DEF AllRules, RI!ToSet
<1>7. \A f : f = [p \in kept |-> rule(p)] => RI!ToSet(f) = AllRules(parsed)
  BY <1>5, <1>6 DEF RI!ToSet
<1>8. QED
  BY <1>1, <1>7 DEF parsed

LEMMA ConvertedRules ==
  ASSUME NEW lines, DOMAIN lines \subseteq Nat, NEW of
  PROVE  RI!ToSet(RI!Converted(lines, of)) =
           IF of = "allow" THEN {RI!Turned(rule) : rule \in AllRules(RI!Parsed(lines))}
                           ELSE AllRules(RI!Parsed(lines))
<1> DEFINE rules == RI!ImportLines(lines)
<1>1. RI!ToSet(rules) = AllRules(RI!Parsed(lines))
  BY NoRuleIsLost
<1>2. CASE of = "allow"
  <2>1. RI!Converted(lines, of) = [p \in DOMAIN rules |-> RI!Turned(rules[p])]
    BY <1>2 DEF RI!Converted
  <2> HIDE DEF rules
  <2>2. RI!ToSet(RI!Converted(lines, of)) = {RI!Turned(rule) : rule \in RI!ToSet(rules)}
    BY <2>1 DEF RI!ToSet
  <2>3. QED
    BY <1>1, <1>2, <2>2
<1>3. CASE of # "allow"
  BY <1>1, <1>3 DEF RI!Converted
<1>4. QED
  BY <1>2, <1>3

\* The rules of all lines are those of the lines that no line switches off.
LEMMA RulesOfLiveLines ==
  ASSUME NEW lines, IsText(lines)
  PROVE  AllRules(RI!Parsed(lines)) =
           UNION {RI!ToSet(RI!ParseLine(lines[i]).rules) :
                    i \in {k \in DOMAIN lines : \A j \in DOMAIN lines : ~RI!IsSwitchFor(lines[j], lines[k])}}
<1> DEFINE off(i) == RI!Canonical(lines[i]) \in RI!Targets(lines)
           parsed == RI!Parsed(lines)
<1>1. \A i \in DOMAIN lines : off(i) <=> \E j \in DOMAIN lines : RI!IsSwitchFor(lines[j], lines[i])
  BY SwitchedOff DEF IsText, RI!Targets
<1>2. DOMAIN parsed = DOMAIN lines
      /\ \A i \in DOMAIN lines : parsed[i] = IF off(i) THEN RI!To("disabled", <<>>)
                                             ELSE RI!ParseLine(lines[i])
  BY DEF RI!Parsed
<1> HIDE DEF off, parsed
<1>3. RI!ToSet(RI!To("disabled", <<>>).rules) = {}
  BY DEF RI!To, RI!ToSet
<1>4. \A i \in DOMAIN lines : RI!ToSet(parsed[i].rules) =
        IF \E j \in DOMAIN lines : RI!IsSwitchFor(lines[j], lines[i]) THEN {}
        ELSE RI!ToSet(RI!ParseLine(lines[i]).rules)
  BY <1>1, <1>2, <1>3
<1>5. AllRules(parsed) =
           UNION {RI!ToSet(RI!ParseLine(lines[i]).rules) :
                    i \in {k \in DOMAIN lines : \A j \in DOMAIN lines : ~RI!IsSwitchFor(lines[j], lines[k])}}
  BY <1>2, <1>4 DEF AllRules
<1>6. QED
  BY <1>5 DEF parsed

\* The rules of all lines do not depend on the order of the lines.
LEMMA OrderOfLines ==
  ASSUME NEW lines, IsText(lines)
  PROVE  /\ DOMAIN RI!Reverse(lines) = DOMAIN lines /\ DOMAIN lines \subseteq Nat
         /\ AllRules(RI!Parsed(RI!Reverse(lines))) = AllRules(RI!Parsed(lines))
<1> DEFINE back == RI!Reverse(lines)
<1>1. PICK n \in Nat : lines \in [1..n -> RI!Line]
  BY DEF IsText
<1>2. lines \in Seq(RI!Line) /\ Len(lines) = n /\ DOMAIN lines = 1..n
  BY <1>1
<1>3. back = [i \in 1..n |-> lines[(n - i) + 1]]
  BY <1>2 DEF RI!Reverse
<1> HIDE DEF back
<1>4. DOMAIN back = 1..n
      /\ \A i \in 1..n : /\ (n - i) + 1 \in 1..n
                         /\ back[i] = lines[(n - i) + 1] /\ lines[i] = back[(n - i) + 1]
  BY <1>1, <1>3
<1>5. RI!Targets(back) = RI!Targets(lines)
  <2>1. ASSUME NEW l, NEW k, DOMAIN l = DOMAIN k,
               \A i \in DOMAIN l : \E j \in DOMAIN k : l[i] = k[j]
        PROVE  RI!Targets(l) \subseteq RI!Targets(k)
    BY <2>1 DEF RI!Targets
  <2>2. RI!Targets(back) \subseteq RI!Targets(lines)
    BY <1>2, <1>4, <2>1
  <2>3. RI!Targets(lines) \subseteq RI!Targets(back)
    BY <1>2, <1>4, <2>1
  <2>4. QED
    BY <2>2, <2>3
<1> DEFINE parse(line) == IF RI!Canonical(line) \in RI!Targets(lines) THEN RI!To("disabled", <<>>)
                          ELSE RI!ParseLine(line)
<1>6. /\ RI!Parsed(lines) = [i \in 1..n |-> parse(lines[i])]
      /\ RI!Parsed(back) = [i \in 1..n |-> parse(back[i])]
  BY <1>2, <1>4, <1>5 DEF RI!Parsed
<1> HIDE DEF parse
<1>7. AllRules(RI!Parsed(back)) = AllRules(RI!Parsed(lines))
  BY <1>4, <1>6 DEF AllRules
<1>8. QED
  BY <1>2, <1>4, <1>7 DEF back

\* A rule comes once if each line has each domain once.
LEMMA RulesOnce ==
  ASSUME NEW lines, IsText(lines), \A i \in DOMAIN lines : RI!IsInjective(lines[i].domains)
  PROVE  RI!IsInjective(RI!ImportLines(lines))
<1> DEFINE parsed == RI!Parsed(lines)
           rule(p) == parsed[p[1]].rules[p[2]]
           kept == {q \in RI!Places(parsed) : rule(q) \notin RI!Seen(parsed, q[1])}
<1>1. RI!ImportLines(lines) = [p \in kept |-> rule(p)]
  BY DEF RI!ImportLines
<1>2. DOMAIN parsed \subseteq Nat
  BY OrderOfLines DEF RI!Parsed
<1>3. ASSUME NEW i \in DOMAIN parsed, NEW k \in DOMAIN parsed[i].rules, NEW l \in DOMAIN parsed[i].rules,
             parsed[i].rules[k] = parsed[i].rules[l]
      PROVE  k = l
  <2>1. i \in DOMAIN lines /\ parsed[i].rules \in {<<>>, RI!ParseLine(lines[i]).rules}
    BY DEF RI!Parsed, RI!To
  <2>2. parsed[i].rules # <<>>
    BY <1>3
  <2>3. PICK prefix : parsed[i].rules = RI!Rules(prefix, lines[i].domains)
    BY <2>1, <2>2, LineHasRules DEF IsText
  <2>4. k \in DOMAIN lines[i].domains /\ l \in DOMAIN lines[i].domains
        /\ lines[i].domains[k] = lines[i].domains[l]
    <3> HIDE DEF parsed
    <3>1. QED
      BY <1>3, <2>3 DEF RI!Rules
  <2>5. QED
    BY <2>1, <2>4 DEF RI!IsInjective
<1> HIDE DEF parsed
<1>4. \A p \in RI!Places(parsed) : /\ p = <<p[1], p[2]>>
                                   /\ p[1] \in DOMAIN parsed /\ p[2] \in DOMAIN parsed[p[1]].rules
  BY DEF RI!Places
<1>5. \A p, q \in kept : rule(p) = rule(q) => p[1] = q[1]
  <2>1. ASSUME NEW p \in kept, NEW q \in kept, p[1] < q[1] PROVE rule(p) # rule(q)
    <3>1. rule(p) \in RI!Seen(parsed, q[1])
      BY <1>4, <2>1 DEF RI!Seen, RI!ToSet
    <3>2. QED
      BY <3>1
  <2>2. QED
    BY <1>2, <1>4, <2>1
<1>6. \A p, q \in kept : rule(p) = rule(q) => p = q
  BY <1>3, <1>4, <1>5
<1>7. QED
  BY <1>1, <1>6 DEF RI!IsInjective

-----------------------------------------------------------------------------
ImportInv ==
    /\ IsText(source) /\ listType \in {"block", "allow"}
    /\ converted # None => converted = RI!Converted(source, listType)

LEMMA ImportInit == RI!Init => ImportInv
<1> SUFFICES ASSUME RI!Init PROVE ImportInv
  OBVIOUS
<1>1. PICK n \in 1..MaxLines : source \in [1..n -> SourceLines]
  BY DEF RI!Init
<1>2. n \in Nat
  BY SourceLinesAssumption
<1>3. \A line \in SourceLines : RI!Readable(line) /\ line \in RI!Line
  BY SourceLinesAssumption DEF RI!Readable
<1>4. source \in [1..n -> RI!Line] /\ \A i \in DOMAIN source : RI!Readable(source[i])
  BY <1>1, <1>3
<1>5. QED
  BY <1>2, <1>4 DEF RI!Init, ImportInv, IsText

LEMMA ImportStep == ImportInv /\ [RI!Next]_importVars => ImportInv'
BY DEF ImportInv, RI!Next, RI!Convert, importVars, IsText

LEMMA ImportIsRight == ImportInv => RI!ImportIsRight
<1> SUFFICES ASSUME ImportInv, converted # None
             PROVE  /\ RI!OrderIsIrrelevant /\ RI!SidesAreKept
                    /\ RI!NothingElseIsLost /\ RI!OncePerList
  BY DEF RI!ImportIsRight
<1> DEFINE all == AllRules(RI!Parsed(source))
<1>1. /\ IsText(source) /\ listType \in {"block", "allow"} /\ DOMAIN source \subseteq Nat
      /\ converted = RI!Converted(source, listType)
  BY OrderOfLines DEF ImportInv
<1>2. RI!ToSet(converted) = IF listType = "allow" THEN {RI!Turned(rule) : rule \in all} ELSE all
  BY <1>1, ConvertedRules
<1>3. RI!OrderIsIrrelevant
  <2>1. DOMAIN RI!Reverse(source) \subseteq Nat /\ AllRules(RI!Parsed(RI!Reverse(source))) = all
    BY <1>1, OrderOfLines
  <2>2. RI!ToSet(RI!Converted(RI!Reverse(source), listType)) =
          IF listType = "allow" THEN {RI!Turned(rule) : rule \in all} ELSE all
    BY <2>1, ConvertedRules
  <2>3. QED
    BY <1>2, <2>2 DEF RI!OrderIsIrrelevant
<1>4. RI!NothingElseIsLost
  BY <1>1, <1>2, RulesOfLiveLines DEF RI!NothingElseIsLost
<1>5. RI!SidesAreKept
  <2> SUFFICES ASSUME NEW rule \in RI!ToSet(converted), rule[1] \in Blocking
               PROVE  /\ listType = "block"
                      /\ \E i \in DOMAIN source :
                          /\ rule[2] \in RI!ToSet(source[i].domains)
                          /\ source[i].kind \notin RI!Native => ~source[i].allow
    BY DEF RI!SidesAreKept, Blocking
  <2>1. listType = "block"
    <3>1. \A r : RI!Turned(r)[1] \notin Blocking
      BY DEF RI!Turned, Blocking
    <3>2. QED
      BY <1>1, <1>2, <3>1
  <2>2. PICK i \in DOMAIN source : rule \in RI!ToSet(RI!ParseLine(source[i]).rules)
    BY <1>1, <1>2, <2>1, RulesOfLiveLines
  <2>3. RI!ParseLine(source[i]).rules # <<>>
    BY <2>2 DEF RI!ToSet
  <2>4. PICK prefix : /\ RI!ParseLine(source[i]).rules = RI!Rules(prefix, source[i].domains)
                      /\ prefix \in Blocking /\ source[i].kind \notin RI!Native => ~source[i].allow
    BY <1>1, <2>3, LineHasRules DEF IsText
  <2>5. rule[1] = prefix /\ rule[2] \in RI!ToSet(source[i].domains)
    BY <2>2, <2>4 DEF RI!Rules, RI!ToSet
  <2>6. QED
    BY <2>1, <2>4, <2>5
<1>6. RI!OncePerList
  <2>1. listType = "block" => converted = RI!ImportLines(source)
    BY <1>1 DEF RI!Converted
  <2>2. QED
    BY <1>1, <2>1, RulesOnce DEF RI!OncePerList
<1>7. QED
  BY <1>3, <1>4, <1>5, <1>6

-----------------------------------------------------------------------------
(* The blocklists *)

JobState == [pc : BL!Places, todo : SUBSET Lists, list : Lists \cup {None},
             item : BL!Row \cup {None}, got : BL!Versions \cup {0}]
\* What a job has, where it is.
JobIs(j) ==
    /\ job[j].pc \in {"idle", "next"} <=> job[j].list = None
    /\ job[j].pc = "next" => job[j].todo # {}
    /\ job[j].pc \in {"fetch", "save", "rest"} => job[j].item # None
    /\ job[j].pc = "save" => job[j].got # 0
JobsTyped == job \in [Jobs -> JobState] /\ \A j \in Jobs : JobIs(j)
RowsTyped ==
    /\ server \in [Lists -> BL!Versions] /\ last \in Lists \cup {0}
    /\ rows \in [Lists -> BL!Row \cup {None}]
    /\ disk \in [rows : [Lists -> BL!Row \cup {None}], last : Lists \cup {0}]
    /\ cache \in [Lists -> BL!Content \cup {None}]
EngineTyped ==
    /\ loaded \in [Lists -> BL!Content \cup {None}] /\ loading \in BL!Load \cup {None}
    /\ notified \in BOOLEAN
BlameTyped ==
    /\ blamed \subseteq Lists
    /\ losses \subseteq [list : Lists, from : BL!Versions, to : BL!Versions]
    /\ \A loss \in losses : loss.list \in blamed \/ BL!Miscounted(loss.from, loss.to)

\* The file is the version its row names.
Honest(l) == rows[l] # None => cache[l] = [version |-> rows[l].etag, type |-> rows[l].type]
\* What a job with list l knows, and what holds of the list, where the job is.
InHand(j, l) ==
    /\ job[j].pc = "remove" => rows[l] = None
    /\ job[j].pc # "save" => Honest(l)
    /\ job[j].pc = "fetch" =>
         /\ job[j].item.etag # 0 /\ job[j].item.count = Counted[job[j].item.etag]
         /\ rows[l] # None => rows[l].etag = job[j].item.etag /\ rows[l].type = job[j].item.type
         /\ cache[l] # None => cache[l].version = job[j].item.etag
    /\ job[j].pc = "save" =>
         /\ rows[l] # None => rows[l].etag = job[j].got /\ rows[l].type = job[j].item.type
         /\ \/ BL!Adds(j) \/ cache[l] = None
            \/ ~BL!Loses(cache[l].version, job[j].got)
            \/ BL!Miscounted(cache[l].version, job[j].got)
RowIs(l) == rows[l] # None => rows[l].etag # 0 /\ rows[l].count = Counted[rows[l].etag]
\* A list that is known to anyone has an id that was given.
Numbered(l) ==
    /\ rows[l] # None \/ BL!Busy(l) \/ (\E j \in Jobs : l \in job[j].todo) => l <= last
    /\ disk.rows[l] # None => l <= disk.last
Tended(l) ==
    /\ Numbered(l)
    /\ RowIs(l)
    /\ ~BL!Busy(l) => Honest(l)
    /\ \A j \in Jobs : job[j].list = l => InHand(j, l) /\ \A k \in Jobs : job[k].list = l => j = k

\* What the engine shall hold of a list, and the jobs that will tell it when they end.
Want(l) == IF rows[l] # None /\ rows[l].enabled THEN cache[l] ELSE None
DueBy(j, l) == \/ job[j].list = l /\ job[j].pc \in {"save", "rest", "remove"}
               \/ job[j].pc \in {"save", "rest"} /\ BL!Adds(j) /\ rows[l] = None
Due(l) == notified \/ \E j \in Jobs : DueBy(j, l)
Followed(l) ==
    \/ Due(l)
    \/ loading = None /\ loaded[l] = Want(l)
    \/ loading # None /\ l \in loading.todo /\ rows[l] # None /\ rows[l].enabled
    \/ loading # None /\ l \notin loading.todo /\ loading.built[l] = Want(l)

ListsInv ==
    /\ JobsTyped /\ RowsTyped /\ EngineTyped /\ BlameTyped
    /\ \A l \in Lists \ blamed : Tended(l) /\ Followed(l)

LEMMA CountsAre == /\ 0 \notin BL!Versions /\ 1 \in BL!Versions
                /\ \A v \in BL!Versions : Counted[v] \in Nat /\ Stored[v] \in Nat
                /\ Lists \subseteq Nat /\ 0 \notin Lists
                /\ None \notin Lists /\ None \notin BL!Row /\ None \notin BL!Load
<1>1. /\ 0 \notin BL!Versions /\ 1 \in BL!Versions
      /\ \A v \in BL!Versions : Counted[v] \in Nat /\ Stored[v] \in Nat
  BY ListsAssumption DEF BL!Versions
<1>2. QED
  BY <1>1, ListsAssumption

\* A download that the checks let pass keeps the rules, where both counts are fair.
LEMMA AcceptedIsKept ==
  ASSUME NEW new \in BL!Versions, NEW old \in BL!Versions,
         BL!Accepts(Counted[new], Counted[old])
  PROVE  ~BL!Loses(old, new) \/ BL!Miscounted(old, new)
<1>1. /\ Counted[new] \in Nat /\ Counted[old] \in Nat /\ Stored[new] \in Nat
      /\ Stored[old] \in Nat /\ Large \in Nat
  BY CountsAre, ListsAssumption
<1>2. QED
  BY <1>1 DEF BL!Accepts, BL!Loses, BL!Miscounted

LEMMA ListsAreKept == ListsInv => BL!BlocklistsAreKept
<1> SUFFICES ASSUME ListsInv PROVE BL!BlocklistsAreKept
  OBVIOUS
<1>1. BL!TypeOK
  BY DEF ListsInv, JobsTyped, RowsTyped, EngineTyped, BlameTyped, JobState, BL!TypeOK
<1>2. BL!EtagIsHonest
  BY DEF BL!EtagIsHonest, BL!Known, ListsInv, Tended, Honest
<1>3. BL!LastRulesKept
  BY DEF BL!LastRulesKept, ListsInv, BlameTyped
<1>4. BL!EngineFollows
  <2> SUFFICES ASSUME ~notified, loading = None, \A j \in Jobs : BL!At(j, "idle"),
                      NEW l \in Lists \ blamed
               PROVE  loaded[l] = IF l \in BL!Known /\ rows[l].enabled THEN cache[l] ELSE None
    BY DEF BL!EngineFollows
  <2>1. \A j \in Jobs : job[j].pc = "idle"
    BY DEF BL!At
  <2>2. ~Due(l)
    BY <2>1 DEF Due, DueBy
  <2>3. loaded[l] = Want(l)
    BY <2>2 DEF ListsInv, Followed
  <2>4. QED
    BY <2>3 DEF Want, BL!Known
<1>5. QED
  BY <1>1, <1>2, <1>3, <1>4 DEF BL!BlocklistsAreKept

LEMMA FreeIs == /\ BL!Free \in JobState /\ BL!Free.pc = "idle" /\ BL!Free.todo = {}
                /\ BL!Free.list = None /\ BL!Free.item = None /\ BL!Free.got = 0
BY DEF BL!Free, JobState, BL!Places

LEMMA ListsInit == BL!Init => ListsInv
<1> SUFFICES ASSUME BL!Init PROVE ListsInv
  OBVIOUS
<1> USE CountsAre
<1>1. JobsTyped /\ \A j \in Jobs : job[j].pc = "idle" /\ job[j].list = None /\ job[j].todo = {}
  BY FreeIs DEF BL!Init, JobsTyped, JobIs
<1>2. PICK s \in Scenes : /\ last = s.lists
        /\ rows = [l \in Lists |-> IF l <= last THEN BL!NewRow(l) ELSE None]
        /\ cache = [l \in Lists |-> IF l <= last THEN [version |-> 1, type |-> "block"] ELSE None]
  BY DEF BL!Init
<1>3. last \in Lists \cup {0}
  BY <1>2, ListsAssumption
<1> DEFINE first == [version |-> 1, type |-> "block"]
<1>4. first \in BL!Content
  BY DEF BL!Content, BL!Types
<1>5. server \in [Lists -> BL!Versions] /\ \A l \in Lists : server[l] = 1
  BY DEF BL!Init
<1>6. \A l \in Lists : /\ BL!NewRow(l) \in BL!Row /\ BL!NewRow(l).etag = 1 /\ BL!NewRow(l).type = "block"
                       /\ BL!NewRow(l).count = Counted[1] /\ BL!NewRow(l).enabled = TRUE
  BY <1>5 DEF BL!NewRow, BL!Row, BL!Types
<1>7. \A l \in Lists : /\ rows[l] # None <=> l <= last
                       /\ rows[l] # None => rows[l] = BL!NewRow(l)
                       /\ cache[l] = IF rows[l] # None THEN first ELSE None
  BY <1>2, <1>6
<1>8. rows \in [Lists -> BL!Row \cup {None}] /\ cache \in [Lists -> BL!Content \cup {None}]
  BY <1>2, <1>4, <1>6
<1>9. /\ disk = [rows |-> rows, last |-> last] /\ loaded = cache /\ loading = None
      /\ notified = FALSE /\ blamed = {} /\ losses = {}
  BY DEF BL!Init
<1>10. RowsTyped /\ EngineTyped /\ BlameTyped
  BY <1>3, <1>5, <1>8, <1>9 DEF RowsTyped, EngineTyped, BlameTyped
<1>11. ASSUME NEW l \in Lists PROVE Tended(l) /\ Followed(l)
  <2>1. ~BL!Busy(l)
    BY <1>1 DEF BL!Busy
  <2>2. Honest(l) /\ RowIs(l)
    BY <1>6, <1>7 DEF Honest, RowIs
  <2>3. Numbered(l)
    BY <1>1, <1>7, <1>9, <2>1 DEF Numbered
  <2>4. Want(l) = cache[l]
    BY <1>6, <1>7 DEF Want
  <2>5. QED
    BY <1>1, <1>9, <2>1, <2>2, <2>3, <2>4 DEF Tended, Followed
<1>12. QED
  BY <1>1, <1>10, <1>11 DEF ListsInv

-----------------------------------------------------------------------------
(* What the steps of a job do *)

LEMMA SetIs ==
  ASSUME JobsTyped, NEW j \in Jobs, NEW r \in JobState, BL!Set(j, r)
  PROVE  job' \in [Jobs -> JobState] /\ job'[j] = r /\ \A k \in Jobs \ {j} : job'[k] = job[k]
BY DEF JobsTyped, BL!Set

LEMMA GotoIs ==
  ASSUME JobsTyped, NEW j \in Jobs, NEW p \in BL!Places, BL!Goto(j, p)
  PROVE  /\ job' \in [Jobs -> JobState] /\ \A k \in Jobs \ {j} : job'[k] = job[k]
         /\ job'[j].pc = p /\ job'[j].list = job[j].list /\ job'[j].todo = job[j].todo
         /\ job'[j].item = job[j].item /\ job'[j].got = job[j].got
<1> DEFINE r == [job[j] EXCEPT !.pc = p]
<1>1. job[j] \in JobState
  BY DEF JobsTyped
<1>2. /\ r \in JobState /\ r.pc = p /\ r.list = job[j].list /\ r.todo = job[j].todo
      /\ r.item = job[j].item /\ r.got = job[j].got
  BY <1>1 DEF JobState
<1>3. BL!Set(j, r)
  BY DEF BL!Goto
<1> HIDE DEF r
<1>4. QED
  BY <1>2, <1>3, SetIs

LEMMA DoneIs ==
  ASSUME JobsTyped, NEW j \in Jobs, BL!Done(j)
  PROVE  /\ job' \in [Jobs -> JobState] /\ \A k \in Jobs \ {j} : job'[k] = job[k]
         /\ job'[j].pc = (IF job[j].todo = {} THEN "idle" ELSE "next")
         /\ job'[j].list = None /\ job'[j].todo = job[j].todo
<1> DEFINE r == IF job[j].todo = {} THEN BL!Free
                ELSE [BL!Free EXCEPT !.pc = "next", !.todo = job[j].todo]
<1>1. job[j].todo \in SUBSET Lists
  BY DEF JobsTyped, JobState
<1>2. /\ r \in JobState /\ r.pc = (IF job[j].todo = {} THEN "idle" ELSE "next")
      /\ r.list = None /\ r.todo = job[j].todo
  <2>1. CASE job[j].todo = {}
    BY <2>1, FreeIs
  <2>2. CASE job[j].todo # {}
    BY <1>1, <2>2 DEF BL!Free, JobState, BL!Places
  <2>3. QED
    BY <2>1, <2>2
<1>3. BL!Set(j, r)
  BY DEF BL!Done
<1> HIDE DEF r
<1>4. QED
  BY <1>2, <1>3, SetIs

\* A job that is done with a list leaves what is asked of a job.
LEMMA DoneJobIs ==
  ASSUME JobsTyped, NEW j \in Jobs, job[j].list # None, BL!Done(j)
  PROVE  JobsTyped'
<1>1. \A k \in Jobs \ {j} : JobIs(k)'
  BY DoneIs DEF JobsTyped, JobIs
<1>2. JobIs(j)'
  BY DoneIs DEF JobIs
<1>3. QED
  BY <1>1, <1>2, DoneIs DEF JobsTyped

LEMMA OthersAre ==
  ASSUME JobsTyped, NEW j \in Jobs, job' \in [Jobs -> JobState],
         \A k \in Jobs \ {j} : job'[k] = job[k], JobIs(j)'
  PROVE  JobsTyped'
<1>1. \A k \in Jobs \ {j} : JobIs(k)'
  BY DEF JobsTyped, JobIs
<1>2. QED
  BY <1>1 DEF JobsTyped

-----------------------------------------------------------------------------
\* A list that no job takes or leaves, and whose row and file stay.
LEMMA ListApart ==
  ASSUME RowsTyped, NEW l \in Lists, Tended(l), rows'[l] = rows[l], cache'[l] = cache[l],
         UNCHANGED disk, last' \in {last, last + 1},
         \A k \in Jobs : IF job[k].list = l THEN job'[k] = job[k] ELSE job'[k].list # l,
         \A k \in Jobs : l \in job'[k].todo => l \in job[k].todo \/ rows[l] # None
  PROVE  Tended(l)'
<1>1. last \in Nat /\ l \in Nat
  BY CountsAre DEF RowsTyped
<1>2. BL!Busy(l)' <=> BL!Busy(l)
  BY DEF BL!Busy
<1>3. Numbered(l)'
  BY <1>1, <1>2 DEF Numbered, Tended
<1>4. RowIs(l)' /\ (Honest(l)' <=> Honest(l))
  BY DEF RowIs, Tended, Honest
<1>5. ASSUME NEW k \in Jobs, job'[k].list = l PROVE InHand(k, l)' /\ \A m \in Jobs : job'[m].list = l => k = m
  <2>1. job'[k] = job[k] /\ job[k].list = l
    BY <1>5
  <2>2. InHand(k, l)'
    BY <1>4, <2>1 DEF InHand, Tended, BL!Adds
  <2>3. QED
    BY <2>1, <2>2 DEF Tended
<1>6. QED
  BY <1>2, <1>3, <1>4, <1>5 DEF Tended

\* The list that a job works with, before or after the step.
LEMMA ListAtWork ==
  ASSUME RowsTyped, NEW j \in Jobs, NEW l \in Lists, Tended(l), UNCHANGED disk, last' = last,
         job[j].list = l \/ (~BL!Busy(l) /\ l <= last),
         \A k \in Jobs \ {j} : job'[k] = job[k], job'[j].list \in {l, None},
         job'[j].todo \subseteq job[j].todo, RowIs(l)',
         IF job'[j].list = l THEN InHand(j, l)' ELSE Honest(l)'
  PROVE  Tended(l)'
<1>1. l # None
  BY CountsAre
<1>2. \A k \in Jobs \ {j} : job'[k].list # l
  BY DEF Tended, BL!Busy
<1>3. l <= last
  BY DEF Tended, Numbered, BL!Busy
<1>4. Numbered(l)'
  BY <1>3 DEF Tended, Numbered
<1>5. BL!Busy(l)' <=> job'[j].list = l
  BY <1>2 DEF BL!Busy
<1>6. QED
  BY <1>1, <1>2, <1>4, <1>5 DEF Tended

\* What the engine holds of a list is not affected.
LEMMA FollowedApart ==
  ASSUME NEW l \in Lists, Followed(l), Want(l)' = Want(l), Due(l) => Due(l)',
         (rows[l] # None /\ rows[l].enabled) = (rows'[l] # None /\ rows'[l].enabled),
         UNCHANGED <<loaded, loading>>
  PROVE  Followed(l)'
BY DEF Followed

LEMMA DueStays ==
  ASSUME NEW j \in Jobs, NEW l \in Lists, notified => notified', rows'[l] = None \/ rows[l] # None,
         \A k \in Jobs \ {j} : job'[k] = job[k], DueBy(j, l) => notified' \/ DueBy(j, l)'
  PROVE  Due(l) => Due(l)'
<1>1. \A k \in Jobs \ {j} : DueBy(k, l) => DueBy(k, l)'
  BY DEF DueBy, BL!Adds
<1>2. QED
  BY <1>1 DEF Due

\* A step of one job with one list.
Works(j, l) ==
    /\ job[j].list = l \/ (l \notin blamed' => ~BL!Busy(l) /\ l <= last)
    /\ job[j].list \in {l, None}
    /\ \A k \in Jobs \ {j} : job'[k] = job[k]
    /\ job'[j].list \in {l, None} /\ job'[j].todo \subseteq job[j].todo
    /\ \A m \in Lists \ {l} : rows'[m] = rows[m] /\ cache'[m] = cache[m]
    /\ UNCHANGED <<disk, last, loaded, loading>>
    /\ blamed \subseteq blamed' /\ (notified => notified')
LEMMA JobWorks ==
  ASSUME ListsInv, NEW j \in Jobs, NEW l \in Lists, Works(j, l),
         \A m \in Lists \ blamed' : m # l /\ DueBy(j, m) => notified' \/ DueBy(j, m)',
         l \notin blamed' => /\ RowIs(l)' /\ Followed(l)'
                             /\ IF job'[j].list = l THEN InHand(j, l)' ELSE Honest(l)'
  PROVE  \A m \in Lists \ blamed' : Tended(m)' /\ Followed(m)'
<1> SUFFICES ASSUME NEW m \in Lists \ blamed' PROVE Tended(m)' /\ Followed(m)'
  OBVIOUS
<1>1. Tended(m) /\ Followed(m) /\ RowsTyped
  BY DEF ListsInv, Works
<1>2. CASE m = l
  <2>0. l \notin blamed'
    BY <1>2
  <2>a. job[j].list = l \/ (~BL!Busy(l) /\ l <= last)
    BY <2>0 DEF Works
  <2>1. /\ l \notin blamed' /\ UNCHANGED disk /\ last' = last
        /\ job[j].list = l \/ (~BL!Busy(l) /\ l <= last)
        /\ \A k \in Jobs \ {j} : job'[k] = job[k]
        /\ job'[j].list \in {l, None} /\ job'[j].todo \subseteq job[j].todo
    BY <2>0, <2>a DEF Works
  <2>2. RowIs(l)' /\ Followed(l)' /\ IF job'[j].list = l THEN InHand(j, l)' ELSE Honest(l)'
    BY <2>1
  <2>3. Tended(l)'
    BY <1>1, <1>2, <2>1, <2>2, ListAtWork
  <2>4. QED
    BY <1>2, <2>2, <2>3
<1>3. CASE m # l
  <2>1. m # None
    BY CountsAre
  <2>2. \A k \in Jobs : IF job[k].list = m THEN job'[k] = job[k] ELSE job'[k].list # m
    BY <1>3, <2>1 DEF Works
  <2>3. \A k \in Jobs : m \in job'[k].todo => m \in job[k].todo
    BY DEF Works
  <2>4. rows'[m] = rows[m] /\ cache'[m] = cache[m] /\ UNCHANGED <<disk, last, loaded, loading>>
    BY <1>3 DEF Works
  <2>5. Tended(m)'
    BY <1>1, <2>2, <2>3, <2>4, ListApart
  <2>6. Due(m) => Due(m)'
    BY <1>3, <2>4, DueStays DEF Works
  <2>7. Want(m)' = Want(m)
    BY <2>4 DEF Want
  <2>8. Followed(m)'
    BY <1>1, <2>4, <2>6, <2>7, FollowedApart
  <2>9. QED
    BY <2>5, <2>8
<1>4. QED
  BY <1>2, <1>3

-----------------------------------------------------------------------------
(* The steps of a job *)

\* A job begins with a list that nobody works on, or blames it.
LEMMA Begins ==
  ASSUME ListsInv, NEW j \in Jobs, job[j].list = None, NEW l \in Lists,
         l \in job[j].todo \/ rows[l] # None, NEW r \in JobState, r.pc = "get", r.list = l,
         r.todo \subseteq job[j].todo, BL!Set(j, r), BL!BlameIfBusy(l),
         UNCHANGED <<server, rows, disk, last, cache, loaded, loading, notified, losses>>
  PROVE  ListsInv'
<1>1. JobsTyped /\ job[j].todo \subseteq Lists
  BY DEF ListsInv, JobsTyped, JobState
<1>4. job' \in [Jobs -> JobState] /\ job'[j] = r /\ \A k \in Jobs \ {j} : job'[k] = job[k]
  BY <1>1, SetIs
<1>5. l # None
  BY CountsAre
<1>6. JobsTyped'
  <2>1. JobIs(j)'
    BY <1>4, <1>5 DEF JobIs
  <2>2. QED
    BY <1>1, <1>4, <2>1, OthersAre
<1>7. blamed' = (IF BL!Busy(l) THEN blamed \cup {l} ELSE blamed)
  BY DEF BL!BlameIfBusy
<1>8. ASSUME l \notin blamed'
      PROVE  l \notin blamed /\ ~BL!Busy(l) /\ l <= last /\ RowIs(l)' /\ Honest(l)' /\ Followed(l)
  <2>1. l \notin blamed /\ ~BL!Busy(l)
    BY <1>7, <1>8
  <2>2. Tended(l) /\ Followed(l)
    BY <2>1 DEF ListsInv
  <2>3. l <= last
    BY <2>2 DEF Tended, Numbered
  <2>4. RowIs(l)' /\ Honest(l)'
    BY <2>1, <2>2 DEF Tended, RowIs, Honest
  <2>5. QED
    BY <2>1, <2>2, <2>3, <2>4
<1>9. Works(j, l)
  BY <1>4, <1>7, <1>8 DEF Works
<1>10. ASSUME NEW m \in Lists PROVE ~DueBy(j, m)
  BY <1>1 DEF DueBy, JobsTyped, JobIs
<1>11. ASSUME l \notin blamed' PROVE Followed(l)'
  <2>1. Due(l) => Due(l)'
    BY <1>4, <1>10, DueStays
  <2>2. Want(l)' = Want(l)
    BY DEF Want
  <2>3. QED
    BY <1>8, <1>11, <2>1, <2>2, FollowedApart
<1>12. ASSUME l \notin blamed' PROVE InHand(j, l)'
  BY <1>4, <1>8, <1>12 DEF InHand
<1>13. \A m \in Lists \ blamed' : Tended(m)' /\ Followed(m)'
  BY <1>4, <1>8, <1>9, <1>10, <1>11, <1>12, JobWorks
<1>14. RowsTyped' /\ EngineTyped' /\ BlameTyped'
  BY <1>7 DEF ListsInv, RowsTyped, EngineTyped, BlameTyped
<1>15. QED
  BY <1>6, <1>13, <1>14 DEF ListsInv

LEMMA AskUpdateKeeps ==
  ASSUME ListsInv, NEW j \in Jobs, NEW l \in Lists, BL!AskUpdate(j, l) PROVE ListsInv'
<1>1. job[j].list = None
  BY DEF ListsInv, JobsTyped, JobIs, BL!AskUpdate, BL!At
<1> DEFINE r == [BL!Free EXCEPT !.pc = "get", !.list = l]
<1>2. r \in JobState /\ r.pc = "get" /\ r.list = l /\ r.todo = {}
  BY DEF BL!Free, JobState, BL!Places
<1>3. /\ BL!Set(j, r) /\ rows[l] # None /\ BL!BlameIfBusy(l)
      /\ UNCHANGED <<server, rows, disk, last, cache, loaded, loading, notified, losses>>
  BY DEF BL!AskUpdate
<1> HIDE DEF r
<1>4. r.todo \subseteq job[j].todo
  BY <1>2
<1>5. QED
  BY <1>1, <1>2, <1>3, <1>4, Begins

LEMMA NextListKeeps ==
  ASSUME ListsInv, NEW j \in Jobs, BL!NextList(j) PROVE ListsInv'
<1>1. job[j].list = None /\ job[j].todo # {} /\ job[j].todo \subseteq Lists
  BY DEF ListsInv, JobsTyped, JobIs, JobState, BL!NextList, BL!At
<1>2. PICK l \in job[j].todo : l = BL!First(job[j].todo)
  <2>1. \E m \in job[j].todo : \A k \in job[j].todo : m <= k
    BY <1>1, CountsAre, SmallestExists
  <2>2. QED
    BY <2>1 DEF BL!First
<1> DEFINE r == [BL!Free EXCEPT !.pc = "get", !.list = l, !.todo = job[j].todo \ {l}]
<1>3. r \in JobState /\ r.pc = "get" /\ r.list = l /\ r.todo = job[j].todo \ {l}
  BY <1>1 DEF BL!Free, JobState, BL!Places
<1>4. /\ BL!Set(j, r) /\ BL!BlameIfBusy(l)
      /\ UNCHANGED <<server, rows, disk, last, cache, loaded, loading, notified, losses>>
  BY <1>2 DEF BL!NextList
<1> HIDE DEF r
<1>5. l \in Lists /\ r.todo \subseteq job[j].todo
  BY <1>1, <1>3
<1>6. QED
  BY <1>1, <1>3, <1>4, <1>5, Begins

\* A job goes on to another place, with what it has.
LEMMA OwnList ==
  ASSUME ListsInv, NEW j \in Jobs, job[j].pc \notin {"idle", "next"}
  PROVE  /\ job[j] \in JobState /\ job[j].list \in Lists
         /\ job[j].list \notin blamed =>
              /\ Tended(job[j].list) /\ Followed(job[j].list) /\ InHand(j, job[j].list)
              /\ RowIs(job[j].list)
<1>1. job[j] \in JobState /\ job[j].list # None
  BY DEF ListsInv, JobsTyped, JobIs
<1>2. job[j].list \in Lists
  BY <1>1 DEF JobState
<1>3. QED
  BY <1>1, <1>2 DEF ListsInv, Tended

\* A job that has nothing for the engine works, and the rows and files stay as they are,
\* but what of the row is not asked for.
LEMMA KeepsOn ==
  ASSUME ListsInv, NEW j \in Jobs, job[j].pc \notin {"idle", "next"}, ~\E m \in Lists : DueBy(j, m),
         NEW l \in Lists, l = job[j].list,
         \A k \in Jobs \ {j} : job'[k] = job[k], JobsTyped',
         job'[j].list \in {l, None}, job'[j].todo \subseteq job[j].todo,
         rows' \in [Lists -> BL!Row \cup {None}], \A m \in Lists \ {l} : rows'[m] = rows[m],
         l \notin blamed' => /\ (rows'[l] # None) = (rows[l] # None)
                             /\ rows[l] # None => rows'[l].enabled = rows[l].enabled,
         UNCHANGED <<server, cache, disk, last, loaded, loading, notified, losses>>,
         blamed \subseteq blamed', blamed' \subseteq Lists,
         l \notin blamed' => RowIs(l)' /\ IF job'[j].list = l THEN InHand(j, l)' ELSE Honest(l)'
  PROVE  ListsInv'
<1>1. Works(j, l)
  BY DEF Works
<1>2. ASSUME l \notin blamed' PROVE Followed(l)'
  <2>1. Followed(l)
    BY <1>2 DEF ListsInv
  <2>2. Want(l)' = Want(l)
    BY <1>2 DEF Want
  <2>3. rows'[l] = None \/ rows[l] # None
    BY <1>2
  <2>4. Due(l) => Due(l)'
    BY <2>3, DueStays
  <2>5. QED
    BY <1>2, <2>1, <2>2, <2>4, FollowedApart
<1>3. \A m \in Lists \ blamed' : Tended(m)' /\ Followed(m)'
  BY <1>1, <1>2, JobWorks
<1>4. RowsTyped' /\ EngineTyped' /\ BlameTyped'
  BY DEF ListsInv, RowsTyped, EngineTyped, BlameTyped
<1>5. QED
  BY <1>3, <1>4 DEF ListsInv

LEMMA NotDue ==
  ASSUME NEW j \in Jobs, job[j].pc \in {"get", "ensure", "fetch", "fail"}
  PROVE  job[j].pc \notin {"idle", "next"} /\ ~\E m \in Lists : DueBy(j, m)
BY DEF DueBy

\* The item of a job is the row it read.
LEMMA ReadsRow ==
  ASSUME ListsInv, NEW j \in Jobs, NEW row \in BL!Row,
         BL!Set(j, [job[j] EXCEPT !.pc = "fetch", !.item = row])
  PROVE  /\ job' \in [Jobs -> JobState] /\ \A k \in Jobs \ {j} : job'[k] = job[k]
         /\ job'[j].pc = "fetch" /\ job'[j].list = job[j].list /\ job'[j].todo = job[j].todo
         /\ job'[j].item = row
<1> DEFINE r == [job[j] EXCEPT !.pc = "fetch", !.item = row]
<1>1. JobsTyped /\ job[j] \in JobState
  BY DEF ListsInv, JobsTyped
<1>2. /\ r \in JobState /\ r.pc = "fetch" /\ r.list = job[j].list /\ r.todo = job[j].todo
      /\ r.item = row
  BY <1>1 DEF JobState, BL!Places
<1>3. BL!Set(j, r)
  OBVIOUS
<1> HIDE DEF r
<1>4. QED
  BY <1>1, <1>2, <1>3, SetIs

\* The row that was read tells what the file is.
LEMMA FetchInHand ==
  ASSUME NEW j \in Jobs, NEW l \in Lists, rows[l] # None, UNCHANGED <<rows, cache>>,
         RowIs(l), Honest(l), job'[j].pc = "fetch", job'[j].item = rows[l]
  PROVE  InHand(j, l)'
<1>1. Honest(l)'
  BY DEF Honest
<1>2. /\ rows[l].etag # 0 /\ rows[l].count = Counted[rows[l].etag]
      /\ cache[l] = [version |-> rows[l].etag, type |-> rows[l].type]
  BY DEF RowIs, Honest
<1>3. QED
  BY <1>1, <1>2 DEF InHand

LEMMA GetKeeps ==
  ASSUME ListsInv, NEW j \in Jobs, BL!Get(j) PROVE ListsInv'
<1>1. job[j].pc = "get" /\ job[j].pc \notin {"idle", "next"} /\ ~\E m \in Lists : DueBy(j, m)
  BY NotDue DEF BL!Get, BL!At
<1>0. PICK l \in Lists : l = job[j].list
  BY <1>1, OwnList
<1>2. /\ job[j] \in JobState /\ l \in Lists /\ l # None /\ JobsTyped
      /\ l \notin blamed => Honest(l) /\ RowIs(l)
  BY <1>0, <1>1, OwnList, CountsAre DEF InHand, ListsInv
<1>3. UNCHANGED <<server, rows, cache, disk, last, loaded, loading, notified, blamed, losses>>
  BY DEF BL!Get
<1>4. RowsTyped /\ blamed \subseteq Lists
  BY DEF ListsInv, BlameTyped
<1>5. (Honest(l) => Honest(l)') /\ (RowIs(l) => RowIs(l)')
  BY <1>3 DEF Honest, RowIs
<1>6. CASE rows[l] # None
  <2>1. rows[l] \in BL!Row /\ BL!Set(j, [job[j] EXCEPT !.pc = "fetch", !.item = rows[l]])
    BY <1>0, <1>2, <1>4, <1>6 DEF BL!Get, RowsTyped
  <2>2. /\ job' \in [Jobs -> JobState] /\ \A k \in Jobs \ {j} : job'[k] = job[k]
        /\ job'[j].pc = "fetch" /\ job'[j].list = l /\ job'[j].todo = job[j].todo
        /\ job'[j].item = rows[l]
    BY <1>0, <2>1, ReadsRow
  <2>3. JobsTyped'
    <3>1. JobIs(j)'
      BY <1>2, <1>6, <2>2 DEF JobIs
    <3>2. QED
      BY <1>2, <2>2, <3>1, OthersAre
  <2>4. l \notin blamed => InHand(j, l)'
    BY <1>2, <1>3, <1>6, <2>2, FetchInHand
  <2>5. QED
    BY <1>1, <1>2, <1>3, <1>4, <1>5, <2>2, <2>3, <2>4, KeepsOn, <1>0 DEF RowsTyped
<1>7. CASE rows[l] = None /\ cache[l] # None
  <2>1. BL!Goto(j, "ensure")
    BY <1>0, <1>7 DEF BL!Get
  <2>2. /\ job' \in [Jobs -> JobState] /\ \A k \in Jobs \ {j} : job'[k] = job[k]
        /\ job'[j].pc = "ensure" /\ job'[j].list = l /\ job'[j].todo = job[j].todo
    BY <1>0, <1>2, <2>1, GotoIs DEF BL!Places
  <2>3. JobsTyped'
    <3>1. JobIs(j)'
      BY <1>2, <2>2 DEF JobIs
    <3>2. QED
      BY <1>2, <2>2, <3>1, OthersAre
  <2>4. l \notin blamed => InHand(j, l)'
    BY <1>2, <1>5, <2>2 DEF InHand
  <2>5. QED
    BY <1>1, <1>2, <1>3, <1>4, <1>5, <2>2, <2>3, <2>4, KeepsOn, <1>0 DEF RowsTyped
<1>8. CASE rows[l] = None /\ cache[l] = None
  <2>1. BL!Done(j)
    BY <1>0, <1>8 DEF BL!Get
  <2>2. JobsTyped' /\ job'[j].list = None /\ job'[j].todo = job[j].todo
        /\ \A k \in Jobs \ {j} : job'[k] = job[k]
    BY <1>0, <1>2, <2>1, DoneIs, DoneJobIs
  <2>3. QED
    BY <1>1, <1>2, <1>3, <1>4, <1>5, <2>2, KeepsOn, <1>0 DEF RowsTyped
<1>9. QED
  BY <1>6, <1>7, <1>8

LEMMA EnsureKeeps ==
  ASSUME ListsInv, NEW j \in Jobs, BL!Ensure(j) PROVE ListsInv'
<1>0. PICK l \in Lists : l = job[j].list
  BY OwnList DEF BL!Ensure, BL!At
<1> DEFINE row == IF rows[l] = None THEN BL!Made(l) ELSE rows[l]
<1>1. job[j].pc = "ensure" /\ job[j].pc \notin {"idle", "next"} /\ ~\E m \in Lists : DueBy(j, m)
  BY NotDue DEF BL!Ensure, BL!At
<1>2. /\ job[j] \in JobState /\ l \in Lists /\ l # None /\ JobsTyped
      /\ l \notin blamed => Honest(l) /\ RowIs(l)
  BY <1>0, <1>1, OwnList, CountsAre DEF InHand, ListsInv
<1>3. /\ UNCHANGED <<server, cache, disk, last, loaded, loading, notified, losses>>
      /\ rows' = [rows EXCEPT ![l] = row]
      /\ BL!Set(j, [job[j] EXCEPT !.pc = "fetch", !.item = row])
      /\ blamed' = IF rows[l] = None THEN blamed \cup {l} ELSE blamed
  BY <1>0 DEF BL!Ensure
<1>4. RowsTyped /\ blamed \subseteq Lists
  BY DEF ListsInv, BlameTyped
<1>5. row \in BL!Row
  <2>1. rows[l] # None => rows[l] \in BL!Row
    BY <1>2, <1>4 DEF RowsTyped
  <2>2. BL!Made(l) \in BL!Row
    <3>1. cache[l] # None => cache[l].version \in BL!Versions
      BY <1>2, <1>4 DEF RowsTyped, BL!Content
    <3>2. (IF cache[l] = None THEN 0 ELSE Stored[cache[l].version]) \in Nat
      BY <3>1, CountsAre
    <3>3. QED
      BY <3>2 DEF BL!Made, BL!Row, BL!Types
  <2>3. QED
    BY <2>1, <2>2
<1> HIDE DEF row
<1>6. /\ job' \in [Jobs -> JobState] /\ \A k \in Jobs \ {j} : job'[k] = job[k]
      /\ job'[j].pc = "fetch" /\ job'[j].list = l /\ job'[j].todo = job[j].todo
      /\ job'[j].item = row
  BY <1>0, <1>3, <1>5, ReadsRow
<1>7. row # None
  BY <1>5, CountsAre
<1>8. JobsTyped'
  <2>1. JobIs(j)'
    BY <1>2, <1>6, <1>7 DEF JobIs
  <2>2. QED
    BY <1>2, <1>6, <2>1, OthersAre
<1>9. /\ rows' \in [Lists -> BL!Row \cup {None}] /\ rows'[l] = row
      /\ \A m \in Lists \ {l} : rows'[m] = rows[m]
  BY <1>2, <1>3, <1>4, <1>5 DEF RowsTyped
<1>10. ASSUME l \notin blamed' PROVE rows[l] # None /\ rows' = rows /\ l \notin blamed /\ row = rows[l]
  <2>1. rows[l] # None /\ l \notin blamed
    BY <1>3, <1>10
  <2>2. row = rows[l]
    BY <2>1 DEF row
  <2>3. QED
    BY <1>3, <1>4, <2>1, <2>2 DEF RowsTyped
<1>11. ASSUME l \notin blamed' PROVE InHand(j, l)' /\ RowIs(l)'
  <2>1. InHand(j, l)'
    BY <1>2, <1>3, <1>6, <1>10, <1>11, FetchInHand
  <2>2. RowIs(l)'
    BY <1>2, <1>10, <1>11 DEF RowIs
  <2>3. QED
    BY <2>1, <2>2
<1>12. blamed \subseteq blamed' /\ blamed' \subseteq Lists
  BY <1>2, <1>3, <1>4
<1>13. l \notin blamed' => (rows'[l] # None) = (rows[l] # None) /\ (rows[l] # None => rows'[l].enabled = rows[l].enabled)
  BY <1>10
<1>14. QED
  BY <1>1, <1>2, <1>3, <1>6, <1>8, <1>9, <1>11, <1>12, <1>13, KeepsOn, <1>0

\* A row that gets another value of one field.
LEMMA ErrorIs ==
  ASSUME NEW row \in BL!Row, NEW b \in BOOLEAN
  PROVE  LET new == [row EXCEPT !.error = b] IN
         /\ new \in BL!Row /\ new.etag = row.etag /\ new.count = row.count
         /\ new.type = row.type /\ new.enabled = row.enabled
BY DEF BL!Row

\* The error of a row is set or cleared, if there is a row.
LEMMA ErrorOnly ==
  ASSUME RowsTyped, NEW l \in Lists, NEW b \in BOOLEAN, cache' = cache,
         rows' = [rows EXCEPT ![l] = IF @ = None THEN None ELSE [@ EXCEPT !.error = b]]
  PROVE  /\ rows' \in [Lists -> BL!Row \cup {None}] /\ \A m \in Lists \ {l} : rows'[m] = rows[m]
         /\ (rows'[l] # None) = (rows[l] # None)
         /\ rows[l] # None => rows'[l].enabled = rows[l].enabled
         /\ RowIs(l) => RowIs(l)'
         /\ Honest(l) => Honest(l)'
<1>1. rows \in [Lists -> BL!Row \cup {None}]
  BY DEF RowsTyped
<1>2. CASE rows[l] = None
  <2>1. rows' = rows
    BY <1>1, <1>2
  <2>2. QED
    BY <1>1, <2>1 DEF RowIs, Honest
<1>3. CASE rows[l] # None
  <2>1. PICK new \in BL!Row : /\ new = [rows[l] EXCEPT !.error = b]
          /\ new.etag = rows[l].etag /\ new.count = rows[l].count
          /\ new.type = rows[l].type /\ new.enabled = rows[l].enabled
    BY <1>1, <1>3, ErrorIs
  <2>2. rows' = [rows EXCEPT ![l] = new]
    BY <1>1, <1>3, <2>1
  <2>3. /\ rows' \in [Lists -> BL!Row \cup {None}] /\ rows'[l] = new
        /\ \A m \in Lists \ {l} : rows'[m] = rows[m]
    BY <1>1, <2>1, <2>2
  <2>4. new # None
    BY CountsAre
  <2>5. QED
    BY <1>3, <2>1, <2>3, <2>4 DEF RowIs, Honest
<1>4. QED
  BY <1>2, <1>3

\* A job sets or clears the error of its list and is done with it.
LEMMA ErrorAndDone ==
  ASSUME ListsInv, NEW j \in Jobs, job[j].pc \in {"fetch", "fail"}, NEW b \in BOOLEAN, BL!Done(j),
         rows' = [rows EXCEPT ![job[j].list] = IF @ = None THEN None ELSE [@ EXCEPT !.error = b]],
         UNCHANGED <<server, disk, last, cache, loaded, loading, notified, blamed, losses>>
  PROVE  ListsInv'
<1>1. job[j].pc \notin {"idle", "next"} /\ ~\E m \in Lists : DueBy(j, m)
  BY NotDue
<1>2. PICK l \in Lists : l = job[j].list
  BY <1>1, OwnList
<1>3. l # None /\ JobsTyped /\ RowsTyped /\ blamed \subseteq Lists
      /\ (l \notin blamed => Honest(l) /\ RowIs(l))
  BY <1>1, <1>2, OwnList, CountsAre DEF InHand, ListsInv, BlameTyped
<1>4. JobsTyped' /\ job'[j].list = None /\ job'[j].todo = job[j].todo
      /\ \A k \in Jobs \ {j} : job'[k] = job[k]
  BY <1>2, <1>3, DoneIs, DoneJobIs
<1>5. /\ rows' \in [Lists -> BL!Row \cup {None}] /\ \A m \in Lists \ {l} : rows'[m] = rows[m]
      /\ (rows'[l] # None) = (rows[l] # None)
      /\ rows[l] # None => rows'[l].enabled = rows[l].enabled
      /\ RowIs(l) => RowIs(l)'
      /\ Honest(l) => Honest(l)'
  BY <1>2, <1>3, ErrorOnly
<1>6. QED
  BY <1>1, <1>2, <1>3, <1>4, <1>5, KeepsOn

LEMMA NotModifiedKeeps ==
  ASSUME ListsInv, NEW j \in Jobs, BL!NotModified(j) PROVE ListsInv'
BY ErrorAndDone DEF BL!NotModified, BL!At

LEMMA FailedKeeps ==
  ASSUME ListsInv, NEW j \in Jobs, BL!Failed(j) PROVE ListsInv'
BY ErrorAndDone DEF BL!Failed, BL!At

\* A job gives up its list's content, before anything of it is there.
LEMMA GivesUp ==
  ASSUME ListsInv, NEW j \in Jobs, job[j].pc = "fetch", BL!Goto(j, "fail"),
         UNCHANGED <<server, rows, disk, last, cache, loaded, loading, notified, blamed, losses>>
  PROVE  ListsInv'
<1>1. job[j].pc \notin {"idle", "next"} /\ ~\E m \in Lists : DueBy(j, m)
  BY NotDue
<1>2. PICK l \in Lists : l = job[j].list
  BY <1>1, OwnList
<1>3. l # None /\ JobsTyped /\ RowsTyped /\ blamed \subseteq Lists
      /\ (l \notin blamed => Honest(l) /\ RowIs(l))
  BY <1>1, <1>2, OwnList, CountsAre DEF InHand, ListsInv, BlameTyped
<1>4. /\ job' \in [Jobs -> JobState] /\ \A k \in Jobs \ {j} : job'[k] = job[k]
      /\ job'[j].pc = "fail" /\ job'[j].list = l /\ job'[j].todo = job[j].todo
  BY <1>2, <1>3, GotoIs DEF BL!Places
<1>5. JobsTyped'
  <2>1. JobIs(j)'
    BY <1>3, <1>4 DEF JobIs
  <2>2. QED
    BY <1>3, <1>4, <2>1, OthersAre
<1>6. l \notin blamed' => RowIs(l)' /\ InHand(j, l)'
  BY <1>3, <1>4 DEF RowIs, InHand, Honest
<1>7. rows' \in [Lists -> BL!Row \cup {None}]
  BY <1>3 DEF RowsTyped
<1>8. QED
  BY <1>1, <1>2, <1>3, <1>4, <1>5, <1>6, <1>7, KeepsOn

LEMMA FetchFailsKeeps ==
  ASSUME ListsInv, NEW j \in Jobs, BL!FetchFails(j) PROVE ListsInv'
BY GivesUp DEF BL!FetchFails, BL!At

\* What is accepted goes into the row, and is no sudden shrink.
LEMMA FetchKeeps ==
  ASSUME ListsInv, NEW j \in Jobs, BL!Fetch(j) PROVE ListsInv'
<1>0. job[j].pc = "fetch" /\ job[j].pc \notin {"idle", "next"} /\ ~\E m \in Lists : DueBy(j, m)
  BY NotDue DEF BL!Fetch, BL!At
<1>1. PICK l \in Lists : l = job[j].list
  BY <1>0, OwnList
<1>2. l # None /\ JobsTyped /\ RowsTyped /\ blamed \subseteq Lists /\ job[j] \in JobState
      /\ (l \notin blamed => InHand(j, l) /\ RowIs(l))
  BY <1>0, <1>1, OwnList, CountsAre DEF ListsInv, BlameTyped
<1>3. UNCHANGED <<server, disk, last, cache, loaded, loading, notified, blamed, losses>>
  BY DEF BL!Fetch
<1> DEFINE v == server[l]
<1>4. CASE ~BL!Accepts(Counted[v], job[j].item.count)
  BY <1>0, <1>1, <1>3, <1>4, GivesUp DEF BL!Fetch
<1>5. CASE BL!Accepts(Counted[v], job[j].item.count)
  <2>1. v \in BL!Versions /\ v # 0 /\ v \in BL!Versions \cup {0} /\ Counted[v] \in Nat
    BY <1>2, CountsAre DEF RowsTyped
  <2>2. /\ BL!Set(j, [job[j] EXCEPT !.pc = "save", !.got = v])
        /\ rows' = [rows EXCEPT ![l] = IF @ = None THEN None
                       ELSE [@ EXCEPT !.etag = v, !.count = Counted[v], !.error = FALSE]]
    BY <1>1, <1>5 DEF BL!Fetch
  <2> HIDE DEF v
  <2> DEFINE r == [job[j] EXCEPT !.pc = "save", !.got = v]
  <2>3. /\ r \in JobState /\ r.pc = "save" /\ r.got = v /\ r.list = l
        /\ r.item = job[j].item /\ r.todo = job[j].todo
    BY <1>1, <1>2, <2>1 DEF JobState, BL!Places
  <2>4. BL!Set(j, r)
    BY <2>2
  <2> HIDE DEF r
  <2>5. job' \in [Jobs -> JobState] /\ job'[j] = r /\ \A k \in Jobs \ {j} : job'[k] = job[k]
    BY <1>2, <2>3, <2>4, SetIs
  <2>6. JobsTyped'
    <3>1. job[j].item # None
      BY <1>0, <1>2 DEF JobsTyped, JobIs
    <3>2. JobIs(j)'
      BY <1>2, <2>1, <2>3, <2>5, <3>1 DEF JobIs
    <3>3. QED
      BY <1>2, <2>5, <3>2, OthersAre
  <2>7. /\ rows' \in [Lists -> BL!Row \cup {None}] /\ \A m \in Lists \ {l} : rows'[m] = rows[m]
        /\ (rows'[l] # None) = (rows[l] # None)
        /\ rows[l] # None => /\ rows'[l].enabled = rows[l].enabled /\ rows'[l].type = rows[l].type
                             /\ rows'[l].etag = v /\ rows'[l].count = Counted[v]
    <3>1. rows \in [Lists -> BL!Row \cup {None}]
      BY <1>2 DEF RowsTyped
    <3>2. CASE rows[l] = None
      <4>1. rows' = rows
        BY <2>2, <3>1, <3>2
      <4>2. QED
        BY <3>1, <3>2, <4>1
    <3>3. CASE rows[l] # None
      <4> DEFINE new == [rows[l] EXCEPT !.etag = v, !.count = Counted[v], !.error = FALSE]
      <4>1. /\ new \in BL!Row /\ new.enabled = rows[l].enabled /\ new.type = rows[l].type
            /\ new.etag = v /\ new.count = Counted[v]
        BY <2>1, <3>1, <3>3 DEF BL!Row
      <4>2. rows' = [rows EXCEPT ![l] = new]
        BY <2>2, <3>1, <3>3
      <4> HIDE DEF new
      <4>3. new # None
        BY <4>1, CountsAre
      <4>4. QED
        BY <3>1, <3>3, <4>1, <4>2, <4>3
    <3>4. QED
      BY <3>2, <3>3
  <2>8. RowIs(l)'
    BY <2>1, <2>7 DEF RowIs
  <2>9. ASSUME l \notin blamed PROVE InHand(j, l)'
    <3>1. /\ job[j].item.count = Counted[job[j].item.etag]
          /\ rows[l] # None => rows[l].type = job[j].item.type
          /\ cache[l] # None => cache[l].version = job[j].item.etag
      BY <1>0, <1>2, <2>9 DEF InHand
    <3>2. rows'[l] # None => rows'[l].etag = job'[j].got /\ rows'[l].type = job'[j].item.type
      BY <2>3, <2>5, <2>7, <3>1
    <3>3. \/ cache'[l] = None
          \/ ~BL!Loses(cache'[l].version, job'[j].got)
          \/ BL!Miscounted(cache'[l].version, job'[j].got)
      <4>1. SUFFICES ASSUME cache[l] # None
                     PROVE  ~BL!Loses(cache[l].version, v) \/ BL!Miscounted(cache[l].version, v)
        BY <1>3, <2>3, <2>5
      <4>2. cache[l].version \in BL!Versions
        BY <1>2, <4>1 DEF RowsTyped, BL!Content
      <4>3. BL!Accepts(Counted[v], Counted[cache[l].version])
        BY <1>5, <3>1, <4>1
      <4>4. QED
        BY <2>1, <4>2, <4>3, AcceptedIsKept
    <3>4. job'[j].pc = "save"
      BY <2>3, <2>5
    <3>5. QED
      BY <3>2, <3>3, <3>4 DEF InHand
  <2>10. QED
    BY <1>0, <1>1, <1>2, <1>3, <2>3, <2>5, <2>6, <2>7, <2>8, <2>9, KeepsOn
<1>6. QED
  BY <1>4, <1>5

\* A file that is saved is the version of the row; the engine will be told.
LEMMA SaveKeeps ==
  ASSUME ListsInv, NEW j \in Jobs, BL!Save(j) PROVE ListsInv'
<1>0. job[j].pc = "save" /\ job[j].pc \notin {"idle", "next"}
  BY DEF BL!Save, BL!At
<1>1. PICK l \in Lists : l = job[j].list
  BY <1>0, OwnList
<1>2. l # None /\ JobsTyped /\ RowsTyped /\ EngineTyped /\ BlameTyped /\ job[j] \in JobState
      /\ (l \notin blamed => InHand(j, l) /\ RowIs(l))
  BY <1>0, <1>1, OwnList, CountsAre DEF ListsInv
<1>3. UNCHANGED <<server, rows, disk, last, loaded, loading, notified, blamed>>
  BY DEF BL!Save
<1> DEFINE new == [version |-> job[j].got, type |-> job[j].item.type]
<1>4. job[j].item \in BL!Row /\ job[j].got \in BL!Versions
  BY <1>0, <1>2 DEF JobsTyped, JobIs, JobState
<1>5. new \in BL!Content /\ new.version = job[j].got
  BY <1>4 DEF BL!Content, BL!Row
<1>6. cache' = [cache EXCEPT ![l] = new]
      /\ losses' = IF ~BL!Adds(j) /\ cache[l] # None /\ BL!Loses(cache[l].version, new.version)
                   THEN losses \cup {[list |-> l, from |-> cache[l].version, to |-> new.version]}
                   ELSE losses
  BY <1>1 DEF BL!Save
<1>7. /\ job' \in [Jobs -> JobState] /\ \A k \in Jobs \ {j} : job'[k] = job[k]
      /\ job'[j].pc = "rest" /\ job'[j].list = l /\ job'[j].todo = job[j].todo
      /\ job'[j].item = job[j].item /\ job'[j].got = job[j].got
  BY <1>1, <1>2, GotoIs DEF BL!Save, BL!Places
<1>8. JobsTyped'
  <2>1. JobIs(j)'
    BY <1>0, <1>2, <1>7 DEF JobsTyped, JobIs
  <2>2. QED
    BY <1>2, <1>7, <2>1, OthersAre
<1>9. BlameTyped'
  <2>1. CASE losses' = losses
    BY <1>2, <1>3, <2>1 DEF BlameTyped
  <2>2. CASE losses' # losses
    <3> DEFINE loss == [list |-> l, from |-> cache[l].version, to |-> job[j].got]
    <3>1. /\ losses' = losses \cup {loss} /\ ~BL!Adds(j) /\ cache[l] # None
          /\ BL!Loses(cache[l].version, job[j].got)
      BY <1>5, <1>6, <2>2
    <3>2. cache[l].version \in BL!Versions
      BY <1>2, <3>1 DEF RowsTyped, BL!Content
    <3>3. /\ loss \in [list : Lists, from : BL!Versions, to : BL!Versions]
          /\ loss.list = l /\ loss.from = cache[l].version /\ loss.to = job[j].got
      BY <1>4, <3>2
    <3>4. loss.list \in blamed \/ BL!Miscounted(loss.from, loss.to)
      BY <1>0, <1>2, <3>1, <3>3 DEF InHand
    <3> HIDE DEF loss
    <3>5. QED
      BY <1>2, <1>3, <3>1, <3>3, <3>4 DEF BlameTyped
  <2>3. QED
    BY <2>1, <2>2
<1>10. /\ cache' \in [Lists -> BL!Content \cup {None}] /\ cache'[l] = new
       /\ \A m \in Lists \ {l} : cache'[m] = cache[m]
  BY <1>2, <1>5, <1>6 DEF RowsTyped
<1>11. RowsTyped' /\ EngineTyped'
  BY <1>2, <1>3, <1>10 DEF RowsTyped, EngineTyped
<1>12. Works(j, l)
  BY <1>1, <1>3, <1>7, <1>10 DEF Works
<1>13. \A m \in Lists : DueBy(j, m) => DueBy(j, m)'
  BY <1>0, <1>1, <1>3, <1>7 DEF DueBy, BL!Adds
<1>14. Followed(l)'
  BY <1>7 DEF Followed, Due, DueBy
<1>15. ASSUME l \notin blamed' PROVE RowIs(l)' /\ InHand(j, l)'
  <2>1. rows[l] # None => rows[l].etag = job[j].got /\ rows[l].type = job[j].item.type
    BY <1>0, <1>2, <1>3, <1>15 DEF InHand
  <2>2. Honest(l)'
    BY <1>3, <1>10, <2>1 DEF Honest
  <2>3. InHand(j, l)'
    BY <1>7, <2>2 DEF InHand
  <2>4. RowIs(l)'
    BY <1>2, <1>3, <1>15 DEF RowIs
  <2>5. QED
    BY <2>3, <2>4
<1>16. \A m \in Lists \ blamed' : Tended(m)' /\ Followed(m)'
  BY <1>7, <1>12, <1>13, <1>14, <1>15, JobWorks
<1>17. QED
  BY <1>8, <1>9, <1>11, <1>16 DEF ListsInv

\* What a failed save leaves untold is blamed.
LEMMA SaveFailsKeeps ==
  ASSUME ListsInv, NEW j \in Jobs, BL!SaveFails(j) PROVE ListsInv'
<1>0. job[j].pc \in {"save", "rest"} /\ job[j].pc \notin {"idle", "next"}
  BY DEF BL!SaveFails
<1>1. PICK l \in Lists : l = job[j].list
  BY <1>0, OwnList
<1>2. l # None /\ JobsTyped /\ RowsTyped /\ EngineTyped /\ BlameTyped /\ job[j] \in JobState
  BY <1>0, <1>1, OwnList, CountsAre DEF ListsInv
<1>3. /\ UNCHANGED <<server, rows, disk, last, cache, loaded, loading, notified, losses>>
      /\ blamed' = (blamed \cup {l}) \cup (IF BL!Adds(j) THEN Lists \ BL!Known ELSE {})
      /\ IF BL!Adds(j) THEN BL!Done(j) ELSE BL!Goto(j, "fail")
  BY <1>1 DEF BL!SaveFails
<1>4. /\ JobsTyped' /\ \A k \in Jobs \ {j} : job'[k] = job[k]
      /\ job'[j].list \in {l, None} /\ job'[j].todo = job[j].todo
  <2>1. CASE BL!Adds(j)
    BY <1>1, <1>2, <1>3, <2>1, DoneIs, DoneJobIs
  <2>2. CASE ~BL!Adds(j)
    <3>1. /\ job' \in [Jobs -> JobState] /\ \A k \in Jobs \ {j} : job'[k] = job[k]
          /\ job'[j].pc = "fail" /\ job'[j].list = l /\ job'[j].todo = job[j].todo
      BY <1>1, <1>2, <1>3, <2>2, GotoIs DEF BL!Places
    <3>2. JobIs(j)'
      BY <1>2, <3>1 DEF JobIs
    <3>3. QED
      BY <1>2, <3>1, <3>2, OthersAre
  <2>3. QED
    BY <2>1, <2>2
<1>5. RowsTyped' /\ EngineTyped'
  BY <1>2, <1>3 DEF RowsTyped, EngineTyped
<1>6. BlameTyped' /\ blamed \subseteq blamed' /\ l \in blamed'
  BY <1>2, <1>3 DEF BlameTyped
<1>7. Works(j, l)
  BY <1>1, <1>3, <1>4, <1>6 DEF Works
<1>8. ASSUME NEW m \in Lists \ blamed', m # l PROVE ~DueBy(j, m)
  <2>1. BL!Adds(j) => rows[m] # None
    BY <1>3, <1>8 DEF BL!Known
  <2>2. QED
    BY <1>1, <1>8, <2>1 DEF DueBy
<1>9. \A m \in Lists \ blamed' : Tended(m)' /\ Followed(m)'
  BY <1>6, <1>7, <1>8, JobWorks
<1>10. QED
  BY <1>4, <1>5, <1>6, <1>9 DEF ListsInv

\* The engine is told, and the job is done.
LEMMA TellsAndDone ==
  ASSUME ListsInv, NEW j \in Jobs, job[j].pc \in {"rest", "remove"}, BL!Done(j), notified' = TRUE,
         \/ UNCHANGED cache
         \/ job[j].pc = "remove" /\ cache' = [cache EXCEPT ![job[j].list] = None],
         UNCHANGED <<server, rows, disk, last, loaded, loading, blamed, losses>>
  PROVE  ListsInv'
<1>0. job[j].pc \notin {"idle", "next"}
  OBVIOUS
<1>1. PICK l \in Lists : l = job[j].list
  BY <1>0, OwnList
<1>2. l # None /\ JobsTyped /\ RowsTyped /\ EngineTyped /\ BlameTyped
      /\ (l \notin blamed => InHand(j, l) /\ RowIs(l))
  BY <1>0, <1>1, OwnList, CountsAre DEF ListsInv
<1>3. JobsTyped' /\ job'[j].list = None /\ job'[j].todo = job[j].todo
      /\ \A k \in Jobs \ {j} : job'[k] = job[k]
  BY <1>1, <1>2, DoneIs, DoneJobIs
<1>4. /\ cache' \in [Lists -> BL!Content \cup {None}]
      /\ \A m \in Lists \ {l} : cache'[m] = cache[m]
      /\ UNCHANGED cache \/ job[j].pc = "remove"
  BY <1>1, <1>2 DEF RowsTyped
<1>5. RowsTyped' /\ EngineTyped' /\ BlameTyped'
  BY <1>2, <1>4 DEF RowsTyped, EngineTyped, BlameTyped
<1>6. Works(j, l)
  BY <1>1, <1>3, <1>4 DEF Works
<1>7. ASSUME l \notin blamed' PROVE RowIs(l)' /\ Honest(l)'
  <2>1. RowIs(l)' /\ InHand(j, l)
    BY <1>2, <1>7 DEF RowIs
  <2>2. CASE job[j].pc = "remove"
    BY <2>1, <2>2 DEF InHand, Honest
  <2>3. CASE job[j].pc = "rest"
    BY <1>4, <2>1, <2>3 DEF InHand, Honest
  <2>4. QED
    BY <2>1, <2>2, <2>3
<1>8. Followed(l)'
  BY DEF Followed, Due
<1>9. \A m \in Lists \ blamed' : Tended(m)' /\ Followed(m)'
  BY <1>2, <1>3, <1>6, <1>7, <1>8, JobWorks
<1>10. QED
  BY <1>3, <1>5, <1>9 DEF ListsInv

LEMMA RestKeeps ==
  ASSUME ListsInv, NEW j \in Jobs, BL!Rest(j) PROVE ListsInv'
BY TellsAndDone DEF BL!Rest, BL!At

LEMMA RemoveFilesKeeps ==
  ASSUME ListsInv, NEW j \in Jobs, BL!RemoveFiles(j) PROVE ListsInv'
BY TellsAndDone DEF BL!RemoveFiles, BL!At

LEMMA NewRowIs ==
  ASSUME RowsTyped, NEW l \in Lists
  PROVE  /\ BL!NewRow(l) \in BL!Row /\ BL!NewRow(l).etag = server[l]
         /\ BL!NewRow(l).count = Counted[server[l]] /\ BL!NewRow(l).type = "block"
         /\ server[l] \in BL!Versions
         /\ BL!Made(l) \in BL!Row
<1>1. server[l] \in BL!Versions /\ Counted[server[l]] \in Nat
  BY CountsAre DEF RowsTyped
<1>2. (IF cache[l] = None THEN 0 ELSE Stored[cache[l].version]) \in Nat
  BY CountsAre DEF RowsTyped, BL!Content
<1>3. QED
  BY <1>1, <1>2 DEF BL!NewRow, BL!Made, BL!Row, BL!Types

LEMMA DeleteRowKeeps ==
  ASSUME ListsInv, NEW j \in Jobs, NEW l \in Lists, BL!DeleteRow(j, l) PROVE ListsInv'
<1>1. /\ JobsTyped /\ RowsTyped /\ EngineTyped /\ BlameTyped /\ l # None
      /\ job[j].pc = "idle" /\ job[j].list = None
  BY CountsAre DEF ListsInv, JobsTyped, JobIs, BL!DeleteRow, BL!At
<1>2. /\ UNCHANGED <<server, disk, last, cache, loaded, loading, notified, losses>>
      /\ rows[l] # None /\ rows' = [rows EXCEPT ![l] = None]
      /\ blamed' = (IF BL!Busy(l) THEN blamed \cup {l} ELSE blamed)
  BY DEF BL!DeleteRow, BL!BlameIfBusy
<1> DEFINE r == [BL!Free EXCEPT !.pc = "remove", !.list = l]
<1>3. r \in JobState /\ r.pc = "remove" /\ r.list = l /\ r.todo = {}
  BY DEF BL!Free, JobState, BL!Places
<1>4. BL!Set(j, r)
  BY DEF BL!DeleteRow
<1> HIDE DEF r
<1>5. job' \in [Jobs -> JobState] /\ job'[j] = r /\ \A k \in Jobs \ {j} : job'[k] = job[k]
  BY <1>1, <1>3, <1>4, SetIs
<1>6. JobsTyped'
  <2>1. JobIs(j)'
    BY <1>1, <1>3, <1>5 DEF JobIs
  <2>2. QED
    BY <1>1, <1>5, <2>1, OthersAre
<1>7. /\ rows' \in [Lists -> BL!Row \cup {None}] /\ rows'[l] = None
      /\ \A m \in Lists \ {l} : rows'[m] = rows[m]
  BY <1>1, <1>2 DEF RowsTyped
<1>8. RowsTyped' /\ EngineTyped' /\ BlameTyped'
  BY <1>1, <1>2, <1>7 DEF RowsTyped, EngineTyped, BlameTyped
<1>9. ASSUME l \notin blamed' PROVE ~BL!Busy(l) /\ l <= last
  <2>1. l \notin blamed /\ ~BL!Busy(l)
    BY <1>2, <1>9
  <2>2. QED
    BY <1>2, <2>1 DEF ListsInv, Tended, Numbered
<1>10. Works(j, l)
  BY <1>1, <1>2, <1>3, <1>5, <1>7, <1>9 DEF Works
<1>11. RowIs(l)' /\ InHand(j, l)'
  BY <1>3, <1>5, <1>7 DEF RowIs, InHand, Honest
<1>12. Followed(l)'
  BY <1>3, <1>5 DEF Followed, Due, DueBy
<1>13. \A m \in Lists : ~DueBy(j, m)
  BY <1>1 DEF DueBy
<1>14. \A m \in Lists \ blamed' : Tended(m)' /\ Followed(m)'
  BY <1>3, <1>5, <1>10, <1>11, <1>12, <1>13, JobWorks
<1>15. QED
  BY <1>6, <1>8, <1>14 DEF ListsInv

LEMMA AskAllKeeps ==
  ASSUME ListsInv, NEW j \in Jobs, BL!AskAll(j) PROVE ListsInv'
<1>1. /\ JobsTyped /\ RowsTyped /\ EngineTyped /\ BlameTyped
      /\ job[j].pc = "idle" /\ job[j].list = None
  BY DEF ListsInv, JobsTyped, JobIs, BL!AskAll, BL!At
<1> DEFINE found == {l \in Lists : rows[l] = None /\ cache[l] # None}
           all == BL!Known \cup found
           r == [BL!Free EXCEPT !.pc = "next", !.todo = all]
<1>2. /\ UNCHANGED <<server, disk, last, cache, loaded, loading, notified, losses>>
      /\ all # {} /\ BL!Set(j, r) /\ blamed' = blamed \cup found
      /\ rows' = [l \in Lists |-> IF l \in found THEN BL!Made(l) ELSE rows[l]]
  BY DEF BL!AskAll
<1>3. r \in JobState /\ r.pc = "next" /\ r.list = None /\ r.todo = all /\ all # {}
  <2>1. all \in SUBSET Lists /\ all # {}
    BY <1>2 DEF BL!Known
  <2> HIDE DEF all
  <2>2. QED
    BY <2>1 DEF BL!Free, JobState, BL!Places
<1>4. \A m \in all : m \in found \/ rows[m] # None
  BY DEF BL!Known
<1> HIDE DEF r, all
<1>5. job' \in [Jobs -> JobState] /\ job'[j] = r /\ \A k \in Jobs \ {j} : job'[k] = job[k]
  BY <1>1, <1>2, <1>3, SetIs
<1>6. JobsTyped'
  <2>1. JobIs(j)'
    BY <1>3, <1>5 DEF JobIs
  <2>2. QED
    BY <1>1, <1>5, <2>1, OthersAre
<1>7. rows' \in [Lists -> BL!Row \cup {None}] /\ \A m \in Lists \ found : rows'[m] = rows[m]
  <2>1. \A m \in Lists : rows[m] \in BL!Row \cup {None} /\ BL!Made(m) \in BL!Row
    BY <1>1, NewRowIs DEF RowsTyped
  <2> HIDE DEF found
  <2>2. QED
    BY <1>2, <2>1
<1>8. found \subseteq Lists
  OBVIOUS
<1> HIDE DEF found
<1>9. RowsTyped' /\ EngineTyped' /\ BlameTyped'
  BY <1>1, <1>2, <1>7, <1>8 DEF RowsTyped, EngineTyped, BlameTyped
<1>10. ASSUME NEW m \in Lists \ blamed' PROVE Tended(m)' /\ Followed(m)'
  <2>1. m \notin found /\ m \notin blamed
    BY <1>2, <1>10
  <2>2. Tended(m) /\ Followed(m) /\ rows'[m] = rows[m] /\ cache'[m] = cache[m] /\ m # None
    BY <1>2, <1>7, <2>1, CountsAre DEF ListsInv
  <2>3. \A k \in Jobs : IF job[k].list = m THEN job'[k] = job[k] ELSE job'[k].list # m
    BY <1>1, <1>3, <1>5, <2>2
  <2>4. \A k \in Jobs : m \in job'[k].todo => m \in job[k].todo \/ rows[m] # None
    BY <1>3, <1>4, <1>5, <2>1
  <2>5. Tended(m)'
    BY <1>1, <1>2, <2>2, <2>3, <2>4, ListApart
  <2>6. ~DueBy(j, m)
    BY <1>1 DEF DueBy
  <2>7. Due(m) => Due(m)'
    BY <1>2, <1>5, <2>2, <2>6, DueStays
  <2>8. Want(m)' = Want(m)
    BY <2>2 DEF Want
  <2>9. QED
    BY <1>2, <2>2, <2>5, <2>7, <2>8, FollowedApart
<1>11. QED
  BY <1>6, <1>9, <1>10 DEF ListsInv

\* An addition: a list of its own, and the one of the same name that it replaces.
LEMMA AddKeeps ==
  ASSUME ListsInv, NEW j \in Jobs, BL!Add(j) PROVE ListsInv'
<1>1. /\ JobsTyped /\ RowsTyped /\ EngineTyped /\ BlameTyped
      /\ job[j].pc = "idle" /\ job[j].list = None
  BY DEF ListsInv, JobsTyped, JobIs, BL!Add, BL!At
<1>2. PICK new \in Lists : new = last + 1
  BY DEF BL!Add
<1> DEFINE r == [BL!Free EXCEPT !.pc = "save", !.list = new, !.item = BL!NewRow(new),
                               !.got = server[new]]
<1>3. PICK old \in BL!Known \cup {None} :
        /\ rows' = [l \in Lists |-> IF l = new THEN BL!NewRow(l)
                                    ELSE IF l = old THEN None ELSE rows[l]]
        /\ cache' = [l \in Lists |-> IF l = old THEN None ELSE cache[l]]
        /\ blamed' = IF old # None /\ BL!Busy(old) THEN blamed \cup {old} ELSE blamed
        /\ last' = new /\ BL!Set(j, r)
  <2> DEFINE Adding(o, n) ==
        /\ rows' = [l \in Lists |-> IF l = n THEN BL!NewRow(l)
                                    ELSE IF l = o THEN None ELSE rows[l]]
        /\ cache' = [l \in Lists |-> IF l = o THEN None ELSE cache[l]]
        /\ blamed' = IF o # None /\ BL!Busy(o) THEN blamed \cup {o} ELSE blamed
        /\ last' = n
        /\ BL!Set(j, [BL!Free EXCEPT !.pc = "save", !.list = n, !.item = BL!NewRow(n),
                                     !.got = server[n]])
  <2>1. \E o \in BL!Known \cup {None} : Adding(o, last + 1)
    BY DEF BL!Add
  <2>2. \E o \in BL!Known \cup {None} : Adding(o, new)
    <3> HIDE DEF Adding
    <3>1. QED
      BY <1>2, <2>1
  <2>3. QED
    BY <2>2
<1>4. UNCHANGED <<server, disk, loaded, loading, notified, losses>>
  BY DEF BL!Add
<1> DEFINE row == BL!NewRow(new)
<1>5. /\ row \in BL!Row /\ row # None /\ row.etag = server[new] /\ row.count = Counted[server[new]]
      /\ row.type = "block" /\ server[new] \in BL!Versions /\ server[new] # 0
  BY <1>1, NewRowIs, CountsAre
<1> HIDE DEF row
<1>6. /\ r \in JobState /\ r.pc = "save" /\ r.list = new /\ r.item = row /\ r.got = server[new]
      /\ r.todo = {}
  BY <1>5 DEF BL!Free, JobState, BL!Places, row
<1> HIDE DEF r
<1>7. job' \in [Jobs -> JobState] /\ job'[j] = r /\ \A k \in Jobs \ {j} : job'[k] = job[k]
  BY <1>1, <1>3, <1>6, SetIs
<1>8. new # None /\ last \in Nat /\ (old # None => old \in Lists /\ rows[old] # None)
  BY <1>1, <1>3, CountsAre DEF RowsTyped, BL!Known
<1>9. JobsTyped'
  <2>1. JobIs(j)'
    BY <1>5, <1>6, <1>7, <1>8 DEF JobIs
  <2>2. QED
    BY <1>1, <1>7, <2>1, OthersAre
<1>10. /\ rows' \in [Lists -> BL!Row \cup {None}] /\ cache' \in [Lists -> BL!Content \cup {None}]
       /\ rows'[new] = row /\ \A m \in Lists \ {new, old} : rows'[m] = rows[m] /\ cache'[m] = cache[m]
       /\ old \in Lists \ {new} => rows'[old] = None
  BY <1>1, <1>3, <1>5 DEF RowsTyped, row
<1>11. RowsTyped' /\ EngineTyped' /\ BlameTyped'
  BY <1>1, <1>3, <1>4, <1>8, <1>10 DEF RowsTyped, EngineTyped, BlameTyped
<1>12. \A m \in Lists : ~DueBy(j, m)
  BY <1>1 DEF DueBy
<1>13. BL!Adds(j)' /\ \A m \in Lists : m # new => job'[j].list # m
  BY <1>5, <1>6, <1>7 DEF BL!Adds
<1>14. ASSUME NEW m \in Lists \ blamed' PROVE Tended(m)' /\ Followed(m)'
  <2>1. m \in Lists /\ m # None /\ m \in Nat /\ Tended(m) /\ Followed(m)
    BY <1>3, <1>14, CountsAre DEF ListsInv
  <2>2. CASE m = new
    <3>1. /\ ~BL!Busy(new) /\ \A k \in Jobs : new \notin job[k].todo
          /\ disk.rows[new] # None => new <= disk.last
      BY <1>2, <1>8, <2>1, <2>2 DEF Tended, Numbered
    <3>2. \A k \in Jobs \ {j} : job'[k].list # new
      BY <1>7, <3>1 DEF BL!Busy
    <3>3. Numbered(new)'
      BY <1>2, <1>3, <1>4, <1>8, <3>1 DEF Numbered
    <3>4. RowIs(new)'
      BY <1>5, <1>10 DEF RowIs
    <3>5. InHand(j, new)'
      BY <1>5, <1>6, <1>7, <1>10, <1>13 DEF InHand
    <3>6. BL!Busy(new)'
      BY <1>6, <1>7 DEF BL!Busy
    <3>7. Tended(new)'
      BY <3>2, <3>3, <3>4, <3>5, <3>6 DEF Tended
    <3>8. Followed(new)'
      BY <1>6, <1>7 DEF Followed, Due, DueBy
    <3>9. QED
      BY <2>2, <3>7, <3>8
  <2>3. CASE m = old /\ m # new
    <3>1. ~BL!Busy(m) /\ rows'[m] = None /\ rows[m] # None
      BY <1>3, <1>8, <1>10, <1>14, <2>1, <2>3
    <3>2. ~BL!Busy(m)'
      BY <1>7, <1>13, <2>3, <3>1 DEF BL!Busy
    <3>3. Numbered(m)'
      BY <1>2, <1>3, <1>4, <1>8, <2>1, <3>1 DEF Tended, Numbered
    <3>4. Tended(m)'
      BY <3>1, <3>2, <3>3 DEF Tended, RowIs, Honest, BL!Busy
    <3>5. DueBy(j, m)'
      BY <1>6, <1>7, <1>13, <3>1 DEF DueBy
    <3>6. QED
      BY <3>4, <3>5 DEF Followed, Due
  <2>4. CASE m # old /\ m # new
    <3>1. rows'[m] = rows[m] /\ cache'[m] = cache[m]
      BY <1>10, <2>1, <2>4
    <3>2. \A k \in Jobs : IF job[k].list = m THEN job'[k] = job[k] ELSE job'[k].list # m
      BY <1>1, <1>7, <1>13, <2>1, <2>4
    <3>3. \A k \in Jobs : m \in job'[k].todo => m \in job[k].todo
      BY <1>6, <1>7
    <3>4. Tended(m)'
      BY <1>1, <1>2, <1>3, <1>4, <2>1, <3>1, <3>2, <3>3, ListApart
    <3>5. Due(m) => Due(m)'
      BY <1>4, <1>7, <1>12, <2>1, <3>1, DueStays
    <3>6. Want(m)' = Want(m)
      BY <3>1 DEF Want
    <3>7. QED
      BY <1>4, <2>1, <3>1, <3>4, <3>5, <3>6, FollowedApart
  <2>5. QED
    BY <2>2, <2>3, <2>4
<1>15. QED
  BY <1>9, <1>11, <1>14 DEF ListsInv

-----------------------------------------------------------------------------
(* The steps of the user, of the engine and of the world *)

\* No job moves; the files stay, and of a row what is not asked for.
LEMMA TendedStays ==
  ASSUME NEW l \in Lists, Tended(l), UNCHANGED <<job, cache, last>>,
         (rows'[l] # None) = (rows[l] # None),
         rows[l] # None => /\ rows'[l].etag = rows[l].etag /\ rows'[l].type = rows[l].type
                           /\ rows'[l].count = rows[l].count,
         disk'.rows[l] # None => l <= disk'.last
  PROVE  Tended(l)'
<1>1. RowIs(l)' /\ (Honest(l) <=> Honest(l)') /\ (BL!Busy(l) <=> BL!Busy(l)')
  BY DEF RowIs, Tended, Honest, BL!Busy
<1>2. Numbered(l)'
  BY <1>1 DEF Numbered, Tended
<1>3. \A j \in Jobs : InHand(j, l) => InHand(j, l)'
  BY <1>1 DEF InHand, BL!Adds
<1>4. QED
  BY <1>1, <1>2, <1>3 DEF Tended

LEMMA ToggleKeeps ==
  ASSUME ListsInv, NEW l \in Lists, BL!Toggle(l) PROVE ListsInv'
<1>1. JobsTyped /\ RowsTyped /\ EngineTyped /\ BlameTyped
  BY DEF ListsInv
<1>2. /\ UNCHANGED <<server, disk, last, cache, job, loaded, loading, blamed, losses>>
      /\ rows[l] # None /\ rows' = [rows EXCEPT ![l].enabled = ~@] /\ notified' = TRUE
  BY DEF BL!Toggle
<1> DEFINE new == [rows[l] EXCEPT !.enabled = ~@]
<1>3. /\ new \in BL!Row /\ new.etag = rows[l].etag /\ new.type = rows[l].type
      /\ new.count = rows[l].count
  <2>1. rows[l] \in BL!Row
    BY <1>1, <1>2 DEF RowsTyped
  <2>2. QED
    BY <2>1 DEF BL!Row
<1>4. rows' = [rows EXCEPT ![l] = new] /\ new # None
  BY <1>2, <1>3, CountsAre
<1> HIDE DEF new
<1>5. /\ rows' \in [Lists -> BL!Row \cup {None}] /\ rows'[l] = new
      /\ \A m \in Lists \ {l} : rows'[m] = rows[m]
  BY <1>1, <1>3, <1>4 DEF RowsTyped
<1>6. JobsTyped' /\ RowsTyped' /\ EngineTyped' /\ BlameTyped'
  BY <1>1, <1>2, <1>5 DEF JobsTyped, JobIs, RowsTyped, EngineTyped, BlameTyped
<1>7. ASSUME NEW m \in Lists \ blamed' PROVE Tended(m)' /\ Followed(m)'
  <2>1. Tended(m)
    BY <1>2, <1>7 DEF ListsInv
  <2>2. /\ (rows'[m] # None) = (rows[m] # None)
        /\ rows[m] # None => /\ rows'[m].etag = rows[m].etag /\ rows'[m].type = rows[m].type
                             /\ rows'[m].count = rows[m].count
    BY <1>2, <1>3, <1>4, <1>5
  <2>3. disk'.rows[m] # None => m <= disk'.last
    BY <1>2, <2>1 DEF Tended, Numbered
  <2>4. Tended(m)'
    BY <1>2, <2>1, <2>2, <2>3, TendedStays
  <2>5. Followed(m)'
    BY <1>2 DEF Followed, Due
  <2>6. QED
    BY <2>4, <2>5
<1>8. QED
  BY <1>6, <1>7 DEF ListsInv

\* No job moves and no row or file of a list that is not blamed.
LEMMA RowsAside ==
  ASSUME ListsInv, UNCHANGED <<job, cache, last, loaded, loading, notified>>,
         blamed \subseteq blamed', \A l \in Lists \ blamed' : rows'[l] = rows[l],
         \A l \in Lists \ blamed' : disk'.rows[l] # None => l <= disk'.last
  PROVE  \A l \in Lists \ blamed' : Tended(l)' /\ Followed(l)'
<1> SUFFICES ASSUME NEW l \in Lists \ blamed' PROVE Tended(l)' /\ Followed(l)'
  OBVIOUS
<1>1. Tended(l) /\ Followed(l)
  BY DEF ListsInv
<1>2. Tended(l)'
  BY <1>1, TendedStays
<1>3. Due(l) => Due(l)'
  BY DEF Due, DueBy, BL!Adds
<1>4. Want(l)' = Want(l)
  BY DEF Want
<1>5. Followed(l)'
  BY <1>1, <1>3, <1>4, FollowedApart
<1>6. QED
  BY <1>2, <1>5

LEMMA DiskNumbers == ListsInv => \A l \in Lists \ blamed : disk.rows[l] # None => l <= disk.last
BY DEF ListsInv, Tended, Numbered

LEMMA EditKeeps ==
  ASSUME ListsInv, NEW l \in Lists, BL!Edit(l) PROVE ListsInv'
<1>1. JobsTyped /\ RowsTyped /\ EngineTyped /\ BlameTyped
  BY DEF ListsInv
<1>2. /\ UNCHANGED <<server, disk, last, cache, job, loaded, loading, notified, losses>>
      /\ rows[l] # None /\ blamed' = blamed \cup {l}
      /\ rows' = [rows EXCEPT ![l].type = IF @ = "block" THEN "allow" ELSE "block"]
  BY DEF BL!Edit
<1> DEFINE new == [rows[l] EXCEPT !.type = IF @ = "block" THEN "allow" ELSE "block"]
<1>3. new \in BL!Row
  <2>1. rows[l] \in BL!Row
    BY <1>1, <1>2 DEF RowsTyped
  <2>2. QED
    BY <2>1 DEF BL!Row, BL!Types
<1>4. rows' = [rows EXCEPT ![l] = new]
  BY <1>2
<1> HIDE DEF new
<1>5. /\ rows' \in [Lists -> BL!Row \cup {None}]
      /\ \A m \in Lists \ blamed' : rows'[m] = rows[m]
  BY <1>1, <1>2, <1>3, <1>4 DEF RowsTyped
<1>6. JobsTyped' /\ RowsTyped' /\ EngineTyped' /\ BlameTyped'
  BY <1>1, <1>2, <1>5 DEF JobsTyped, JobIs, RowsTyped, EngineTyped, BlameTyped
<1>7. \A m \in Lists \ blamed' : Tended(m)' /\ Followed(m)'
  BY <1>2, <1>5, RowsAside, DiskNumbers
<1>8. QED
  BY <1>6, <1>7 DEF ListsInv

LEMMA NewVersionKeeps ==
  ASSUME ListsInv, NEW l \in Lists, BL!NewVersion(l) PROVE ListsInv'
<1>1. JobsTyped /\ RowsTyped /\ EngineTyped /\ BlameTyped
  BY DEF ListsInv
<1>2. /\ UNCHANGED <<rows, disk, last, cache, job, loaded, loading, notified, blamed, losses>>
      /\ \E v \in BL!Versions : server' = [server EXCEPT ![l] = v]
  BY DEF BL!NewVersion
<1>3. JobsTyped' /\ RowsTyped' /\ EngineTyped' /\ BlameTyped'
  BY <1>1, <1>2 DEF JobsTyped, JobIs, RowsTyped, EngineTyped, BlameTyped
<1>4. \A m \in Lists \ blamed' : Tended(m)' /\ Followed(m)'
  BY <1>2, RowsAside, DiskNumbers
<1>5. QED
  BY <1>3, <1>4 DEF ListsInv

LEMMA SyncKeeps ==
  ASSUME ListsInv, BL!Sync PROVE ListsInv'
<1>1. JobsTyped /\ RowsTyped /\ EngineTyped /\ BlameTyped
  BY DEF ListsInv
<1>2. /\ UNCHANGED <<server, rows, last, cache, job, loaded, loading, notified, blamed, losses>>
      /\ disk' = [rows |-> rows, last |-> last]
  BY DEF BL!Sync
<1>3. JobsTyped' /\ RowsTyped' /\ EngineTyped' /\ BlameTyped'
  BY <1>1, <1>2 DEF JobsTyped, JobIs, RowsTyped, EngineTyped, BlameTyped
<1>4. \A l \in Lists \ blamed : rows[l] # None => l <= last
  BY DEF ListsInv, Tended, Numbered
<1>5. \A m \in Lists \ blamed' : Tended(m)' /\ Followed(m)'
  BY <1>2, <1>4, RowsAside
<1>6. QED
  BY <1>3, <1>5 DEF ListsInv

\* What is not blamed for a crash is as the disk has it.
LEMMA CrashKeeps ==
  ASSUME ListsInv, BL!Crash PROVE ListsInv'
<1>1. JobsTyped /\ RowsTyped /\ EngineTyped /\ BlameTyped
  BY DEF ListsInv
<1>2. /\ UNCHANGED <<server, disk, cache, losses>>
      /\ rows' = disk.rows /\ last' = disk.last
      /\ blamed' = blamed \cup {l \in Lists : rows[l] # disk.rows[l] \/ BL!Busy(l)}
      /\ job' = [j \in Jobs |-> BL!Free] /\ loaded' = [l \in Lists |-> None]
      /\ notified' = TRUE /\ loading' = None
  BY DEF BL!Crash
<1>3. /\ disk.rows \in [Lists -> BL!Row \cup {None}] /\ disk.last \in Lists \cup {0}
  BY <1>1 DEF RowsTyped
<1>4. job' \in [Jobs -> JobState] /\ \A j \in Jobs : job'[j] = BL!Free
  BY <1>2, FreeIs
<1>5. JobsTyped'
  BY <1>4, FreeIs DEF JobsTyped, JobIs
<1>6. RowsTyped' /\ EngineTyped' /\ BlameTyped'
  BY <1>1, <1>2, <1>3 DEF RowsTyped, EngineTyped, BlameTyped
<1>7. ASSUME NEW l \in Lists \ blamed' PROVE Tended(l)' /\ Followed(l)'
  <2>1. /\ Tended(l) /\ rows'[l] = rows[l] /\ ~BL!Busy(l) /\ l # None
    BY <1>2, <1>7, CountsAre DEF ListsInv
  <2>2. ~BL!Busy(l)' /\ \A j \in Jobs : job'[j].list # l /\ job'[j].todo = {}
    BY <1>4, <2>1, FreeIs DEF BL!Busy
  <2>3. Numbered(l)'
    BY <1>2, <2>1, <2>2 DEF Tended, Numbered
  <2>4. RowIs(l)' /\ Honest(l)'
    BY <1>2, <2>1 DEF Tended, RowIs, Honest
  <2>5. Tended(l)'
    BY <2>2, <2>3, <2>4 DEF Tended
  <2>6. Followed(l)'
    BY <1>2 DEF Followed, Due
  <2>7. QED
    BY <2>5, <2>6
<1>8. QED
  BY <1>5, <1>6, <1>7 DEF ListsInv

\* The engine moves, and nothing else.
LEMMA EngineAside ==
  ASSUME ListsInv, UNCHANGED <<server, rows, disk, last, cache, job, blamed, losses>>,
         EngineTyped', \A l \in Lists \ blamed : Followed(l)'
  PROVE  ListsInv'
<1>1. JobsTyped /\ RowsTyped /\ BlameTyped
  BY DEF ListsInv
<1>2. JobsTyped' /\ RowsTyped' /\ BlameTyped'
  BY <1>1 DEF JobsTyped, JobIs, RowsTyped, BlameTyped
<1>3. ASSUME NEW l \in Lists \ blamed PROVE Tended(l)'
  BY <1>3, TendedStays, DiskNumbers DEF ListsInv
<1>4. QED
  BY <1>2, <1>3 DEF ListsInv

LEMMA LoadRowsKeeps == ASSUME ListsInv, BL!LoadRows PROVE ListsInv'
<1>1. /\ UNCHANGED <<server, rows, disk, last, cache, job, loaded, blamed, losses>>
      /\ loading = None /\ notified' = FALSE
      /\ loading' = [todo |-> {l \in BL!Known : rows[l].enabled}, built |-> [l \in Lists |-> None]]
  BY DEF BL!LoadRows
<1>2. /\ loading' \in BL!Load /\ loading' # None
      /\ \A l \in Lists : /\ l \in loading'.todo <=> rows[l] # None /\ rows[l].enabled
                          /\ loading'.built[l] = None
  <2>1. {l \in BL!Known : rows[l].enabled} \subseteq Lists
    BY DEF BL!Known
  <2>2. [l \in Lists |-> None] \in [Lists -> BL!Content \cup {None}]
    OBVIOUS
  <2>3. loading' \in BL!Load
    BY <1>1, <2>1, <2>2 DEF BL!Load
  <2>4. loading' # None
    BY <2>3, CountsAre
  <2>5. QED
    BY <1>1, <2>3, <2>4 DEF BL!Known
<1>3. EngineTyped'
  BY <1>1, <1>2 DEF ListsInv, EngineTyped
<1>4. ASSUME NEW l \in Lists \ blamed PROVE Followed(l)'
  BY <1>1, <1>2 DEF Followed, Want
<1>5. QED
  BY <1>1, <1>3, <1>4, EngineAside

LEMMA LoadListKeeps == ASSUME ListsInv, BL!LoadList PROVE ListsInv'
<1>1. /\ UNCHANGED <<server, rows, disk, last, cache, job, loaded, notified, blamed, losses>>
      /\ loading # None /\ EngineTyped /\ RowsTyped
  BY DEF BL!LoadList, ListsInv
<1>2. PICK l : /\ l = BL!First(loading.todo)
               /\ loading' = [todo |-> loading.todo \ {l}, built |-> [loading.built EXCEPT ![l] = cache[l]]]
  BY DEF BL!LoadList
<1>3. /\ loading \in BL!Load /\ loading.todo \subseteq Lists
      /\ loading.built \in [Lists -> BL!Content \cup {None}]
  BY <1>1 DEF EngineTyped, BL!Load
<1>4. l \in Lists => cache[l] \in BL!Content \cup {None}
  BY <1>1 DEF RowsTyped
<1>5. /\ loading'.built \in [Lists -> BL!Content \cup {None}] /\ loading'.todo = loading.todo \ {l}
      /\ \A m \in Lists : loading'.built[m] = IF m = l THEN cache[m] ELSE loading.built[m]
  BY <1>2, <1>3, <1>4
<1>6. loading' \in BL!Load /\ loading' # None
  BY <1>2, <1>3, <1>5, CountsAre DEF BL!Load
<1>7. EngineTyped'
  BY <1>1, <1>6 DEF EngineTyped
<1>8. l \in loading.todo
  <2>1. loading.todo # {} /\ loading.todo \subseteq Nat
    BY <1>3, CountsAre DEF BL!LoadList
  <2>2. \E m \in loading.todo : \A k \in loading.todo : m <= k
    BY <2>1, SmallestExists
  <2>3. QED
    BY <1>2, <2>2 DEF BL!First
<1>9. ASSUME NEW m \in Lists \ blamed PROVE Followed(m)'
  BY <1>1, <1>5, <1>6, <1>8 DEF ListsInv, Followed, Due, DueBy, BL!Adds, Want
<1>10. QED
  BY <1>1, <1>7, <1>9, EngineAside

LEMMA SwapKeeps == ASSUME ListsInv, BL!Swap PROVE ListsInv'
<1>1. /\ UNCHANGED <<server, rows, disk, last, cache, job, notified, blamed, losses>>
      /\ loading # None /\ loading.todo = {} /\ loaded' = loading.built /\ loading' = None
      /\ EngineTyped
  BY DEF BL!Swap, ListsInv
<1>2. EngineTyped'
  BY <1>1 DEF EngineTyped, BL!Load
<1>3. ASSUME NEW l \in Lists \ blamed PROVE Followed(l)'
  <2>1. Due(l) \/ loading.built[l] = Want(l)
    BY <1>1 DEF ListsInv, Followed
  <2>2. Due(l) => Due(l)'
    BY <1>1 DEF Due, DueBy, BL!Adds
  <2>3. Want(l)' = Want(l)
    BY <1>1 DEF Want
  <2>4. QED
    BY <1>1, <2>1, <2>2, <2>3 DEF Followed
<1>4. QED
  BY <1>1, <1>2, <1>3, EngineAside

LEMMA ListsStep == ListsInv /\ [BL!Next]_listVars => ListsInv'
<1> SUFFICES ASSUME ListsInv, [BL!Next]_listVars PROVE ListsInv'
  OBVIOUS
<1>1. ASSUME NEW j \in Jobs, NEW l \in Lists, BL!AskUpdate(j, l) \/ BL!DeleteRow(j, l) PROVE ListsInv'
  BY <1>1, AskUpdateKeeps, DeleteRowKeeps
<1>2. ASSUME NEW j \in Jobs,
             \/ BL!AskAll(j) \/ BL!NextList(j) \/ BL!Get(j) \/ BL!Ensure(j) \/ BL!NotModified(j)
             \/ BL!Fetch(j) \/ BL!FetchFails(j)
      PROVE  ListsInv'
  BY <1>2, AskAllKeeps, NextListKeeps, GetKeeps, EnsureKeeps, NotModifiedKeeps, FetchKeeps,
     FetchFailsKeeps
<1>3. ASSUME NEW j \in Jobs,
             \/ BL!Save(j) \/ BL!SaveFails(j) \/ BL!Rest(j) \/ BL!Failed(j) \/ BL!Add(j)
             \/ BL!RemoveFiles(j)
      PROVE  ListsInv'
  BY <1>3, SaveKeeps, SaveFailsKeeps, RestKeeps, FailedKeeps, AddKeeps, RemoveFilesKeeps
<1>4. ASSUME NEW l \in Lists, BL!Toggle(l) \/ BL!Edit(l) \/ BL!NewVersion(l) PROVE ListsInv'
  BY <1>4, ToggleKeeps, EditKeeps, NewVersionKeeps
<1>5. ASSUME BL!LoadRows \/ BL!LoadList \/ BL!Swap \/ BL!Sync \/ BL!Crash PROVE ListsInv'
  BY <1>5, LoadRowsKeeps, LoadListKeeps, SwapKeeps, SyncKeeps, CrashKeeps
<1>6. CASE UNCHANGED listVars
  <2>1. UNCHANGED <<server, rows, disk, last, cache, job, loaded, loading, notified, blamed, losses>>
    BY <1>6 DEF listVars
  <2>2. EngineTyped'
    BY <2>1 DEF ListsInv, EngineTyped
  <2>3. \A l \in Lists \ blamed : Followed(l)'
    BY <2>1, RowsAside, DiskNumbers
  <2>4. QED
    BY <2>1, <2>2, <2>3, EngineAside
<1>7. QED
  BY <1>1, <1>2, <1>3, <1>4, <1>5, <1>6 DEF BL!Next

-----------------------------------------------------------------------------
(* The file of the user's rules *)

EditState == [at : {"idle", "edit", "write", "locked"}, read : SUBSET UserRules,
              new : SUBSET UserRules, copied : BOOLEAN]
FileTyped ==
    /\ file \in {None} \cup SUBSET UserRules
    /\ backups \in [0..MaxSeconds -> {None} \cup SUBSET UserRules]
    /\ second \in 0..MaxSeconds
    /\ writer \in Editors \cup {None}
    /\ editing \in [Editors -> EditState]
\* Who is about to write has the lock, and what is there then was copied.
FileInv ==
    /\ FileTyped
    /\ RF!EditsAreMade
    /\ \A e \in Editors :
        /\ editing[e].at = "locked" => writer = e
        /\ editing[e].at = "locked" /\ editing[e].copied /\ file # None =>
             \E s \in 0..MaxSeconds : backups[s] = file
        /\ editing[e].copied => editing[e].at = "locked"
        /\ editing[e].at = "locked" => up

LEMMA RulesFileInit == RF!Init => FileInv
<1> SUFFICES ASSUME RF!Init PROVE FileInv
  OBVIOUS
<1>1. RF!Idle \in EditState /\ RF!Idle.at = "idle" /\ RF!Idle.copied = FALSE
  BY DEF RF!Idle, EditState
<1> HIDE DEF RF!Idle
<1>2. FileTyped
  <2>1. editing \in [Editors -> EditState] /\ writer = None
    BY <1>1 DEF RF!Init
  <2>2. file \in {None} \cup SUBSET UserRules
    <3>1. file = None \/ file = Legacy
      BY DEF RF!Init
    <3>2. Legacy \in SUBSET UserRules
      BY FileAssumption
    <3>3. QED
      BY ONLY <3>1, <3>2
  <2>3. backups \in [0..MaxSeconds -> {None} \cup SUBSET UserRules] /\ second \in 0..MaxSeconds
    <3>1. backups = [s \in 0..MaxSeconds |-> None] /\ second = 0
      BY DEF RF!Init
    <3>2. MaxSeconds \in Nat
      BY FileAssumption
    <3>3. QED
      BY ONLY <3>1, <3>2
  <2>4. QED
    BY <2>1, <2>2, <2>3 DEF FileTyped
<1>3. QED
  BY <1>1, <1>2, FileAssumption DEF RF!Init, FileInv, RF!EditsAreMade

LEMMA EditorGoes ==
  ASSUME FileTyped, NEW e \in Editors, NEW from, NEW state \in EditState, RF!Goes(e, from, state)
  PROVE  /\ editing' \in [Editors -> EditState] /\ editing'[e] = state /\ editing[e].at = from
         /\ \A d \in Editors \ {e} : editing'[d] = editing[d]
BY DEF FileTyped, RF!Goes

LEMMA RulesFileStep == FileInv /\ [RF!Next]_fileVars => FileInv'
<1> SUFFICES ASSUME FileInv, [RF!Next]_fileVars PROVE FileInv'
  OBVIOUS
<1>a. RF!Idle \in EditState /\ RF!Idle.at = "idle" /\ RF!Idle.copied = FALSE
  BY DEF RF!Idle, EditState
<1>b. \A read \in SUBSET UserRules :
        LET r == [RF!Idle EXCEPT !.at = "edit", !.read = read] IN
        r \in EditState /\ r.at = "edit" /\ r.copied = FALSE
  BY DEF RF!Idle, EditState
<1>c. LET r == [RF!Idle EXCEPT !.at = "edit"] IN
      r \in EditState /\ r.at = "edit" /\ r.copied = FALSE
  BY DEF RF!Idle, EditState
<1>d. FileTyped /\ RF!Text \subseteq UserRules /\ Legacy \subseteq UserRules
  <2>1. file \in {None} \cup SUBSET UserRules
    BY DEF FileInv, FileTyped
  <2>2. RF!Text \subseteq UserRules
    <3>1. CASE file = None
      BY <3>1 DEF RF!Text
    <3>2. CASE file # None
      <4>1. file \in SUBSET UserRules
        BY ONLY <2>1, <3>2
      <4>2. QED
        BY <3>2, <4>1 DEF RF!Text
    <3>3. QED
      BY <3>1, <3>2
  <2>3. QED
    BY <2>2, FileAssumption DEF FileInv
<1>e. \A e \in Editors : editing[e] \in EditState
  BY <1>d DEF FileTyped
<1> HIDE DEF RF!Idle
\* An editor goes on, and the file stays as it is.
<1>f. ASSUME NEW e \in Editors, NEW state \in EditState, NEW from, RF!Goes(e, from, state),
             state.at # "locked", state.copied = FALSE, from # "locked",
             UNCHANGED <<file, backups, second, writer, up, meant>>, disturbed' \/ ~disturbed
      PROVE  FileInv'
  <2>1. /\ editing' \in [Editors -> EditState] /\ editing'[e] = state
        /\ \A d \in Editors \ {e} : editing'[d] = editing[d]
    BY <1>d, <1>f, EditorGoes
  <2>2. FileTyped'
    BY <1>d, <1>f, <2>1 DEF FileTyped
  <2>3. RF!EditsAreMade'
    BY <1>f DEF FileInv, RF!EditsAreMade, RF!Text
  <2>4. QED
    BY <1>f, <2>1, <2>2, <2>3 DEF FileInv
<1>1. CASE RF!Start
  <2>1. FileTyped'
    BY <1>1, <1>d DEF RF!Start, FileTyped
  <2>2. RF!EditsAreMade'
    <3>1. Legacy # None /\ (~disturbed => RF!Text = meant)
      BY FileAssumption DEF FileInv, RF!EditsAreMade
    <3>2. /\ file' = IF file = None /\ Legacy # {} THEN Legacy ELSE file
          /\ meant' = IF file = None THEN Legacy ELSE meant
          /\ disturbed' = disturbed
      BY <1>1 DEF RF!Start
    <3>3. QED
      BY <3>1, <3>2 DEF RF!EditsAreMade, RF!Text
  <2>3. \A e \in Editors : editing[e].at # "locked"
    BY <1>1 DEF RF!Start, FileInv
  <2>4. editing' = editing
    BY <1>1 DEF RF!Start
  <2>5. QED
    BY <2>1, <2>2, <2>3, <2>4 DEF FileInv
<1>2. CASE RF!Crash
  BY <1>2, <1>a, <1>d DEF RF!Crash, FileInv, FileTyped, RF!EditsAreMade, RF!Text
<1>3. CASE RF!Tick
  BY <1>3, <1>d, FileAssumption DEF RF!Tick, FileInv, FileTyped, RF!EditsAreMade, RF!Text
<1>4. ASSUME NEW e \in Editors, RF!Read(e) PROVE FileInv'
  BY <1>4, <1>b, <1>d, <1>f DEF RF!Read
<1>5. ASSUME NEW e \in Editors, RF!ReadFails(e) PROVE FileInv'
  BY <1>5, <1>c, <1>d, <1>f DEF RF!ReadFails
<1>6. ASSUME NEW e \in Editors, NEW r \in UserRules, RF!Change(e, r) PROVE FileInv'
  <2>1. PICK new \in SUBSET UserRules : RF!Goes(e, "edit", [editing[e] EXCEPT !.at = "write", !.new = new])
    BY <1>6, <1>e DEF RF!Change, EditState
  <2> DEFINE state == [editing[e] EXCEPT !.at = "write", !.new = new]
  <2>2. editing[e].at = "edit"
    BY <2>1 DEF RF!Goes
  <2>3. state \in EditState /\ state.at = "write" /\ state.copied = editing[e].copied
    BY <1>e DEF EditState
  <2>4. state.copied = FALSE
    BY <1>e, <2>2, <2>3 DEF FileInv, EditState
  <2> HIDE DEF state
  <2>5. UNCHANGED <<file, backups, second, writer, up, meant, disturbed>>
    BY <1>6 DEF RF!Change
  <2>6. RF!Goes(e, "edit", state)
    BY <2>1 DEF state
  <2>7. QED
    BY <1>f, <2>3, <2>4, <2>5, <2>6
<1>7. ASSUME NEW e \in Editors, RF!Copy(e) \/ RF!CopyFails(e) PROVE FileInv'
  <2>1. PICK state \in EditState :
          /\ RF!Goes(e, "write", state) /\ state.at = "locked"
          /\ RF!Copy(e) \/ state.copied = FALSE
    <3>1. ASSUME NEW copied \in BOOLEAN
          PROVE  LET r == [editing[e] EXCEPT !.at = "locked", !.copied = copied] IN
                 r \in EditState /\ r.at = "locked" /\ r.copied = copied
      BY <1>e DEF EditState
    <3>2. CASE RF!Copy(e)
      BY <3>1, <3>2 DEF RF!Copy
    <3>3. CASE RF!CopyFails(e)
      <4> DEFINE r == [editing[e] EXCEPT !.at = "locked"]
      <4>1. RF!Goes(e, "write", r) /\ editing[e].at = "write"
        BY <3>3 DEF RF!CopyFails, RF!Goes
      <4>2. editing[e].copied = FALSE
        BY <1>e, <4>1 DEF FileInv, EditState
      <4>3. r \in EditState /\ r.at = "locked" /\ r.copied = FALSE
        BY <1>e, <4>2 DEF EditState
      <4> HIDE DEF r
      <4>4. QED
        BY <4>1, <4>3
    <3>4. QED
      BY <1>7, <3>2, <3>3
  <2>2. /\ editing' \in [Editors -> EditState] /\ editing'[e] = state
        /\ \A d \in Editors \ {e} : editing'[d] = editing[d]
    BY <1>d, <2>1, EditorGoes
  <2>3. /\ writer = None /\ writer' = e /\ up /\ UNCHANGED <<file, second, up, meant, disturbed>>
        /\ \/ backups' = backups /\ ~RF!Copy(e)
           \/ backups' = backups /\ file = None
           \/ backups' = [backups EXCEPT ![second] = file] /\ file # None
    BY <1>7 DEF RF!Copy, RF!CopyFails, RF!Goes
  <2>4. \A d \in Editors : editing[d].at # "locked"
    BY <2>3, FileAssumption DEF FileInv
  <2>5. FileTyped'
    BY <1>d, <2>2, <2>3 DEF FileTyped
  <2>6. RF!EditsAreMade'
    BY <2>3 DEF RF!EditsAreMade, RF!Text, FileInv
  <2>7. state.copied /\ file # None => \E s \in 0..MaxSeconds : backups'[s] = file
    BY <1>d, <2>1, <2>3 DEF FileTyped
  <2>8. QED
    BY <2>1, <2>2, <2>3, <2>4, <2>5, <2>6, <2>7 DEF FileInv
<1>8. ASSUME NEW e \in Editors, RF!Replace(e) \/ RF!WriteFails(e) PROVE FileInv'
  <2>1. RF!Goes(e, "locked", RF!Idle)
    BY <1>8 DEF RF!Replace, RF!WriteFails
  <2>2. /\ editing' \in [Editors -> EditState] /\ editing'[e] = RF!Idle
        /\ \A d \in Editors \ {e} : editing'[d] = editing[d]
        /\ editing[e].at = "locked"
    BY <1>a, <1>d, <2>1, EditorGoes
  <2>3. \A d \in Editors : editing'[d].at # "locked"
    BY <1>a, <2>2, FileAssumption DEF FileInv
  <2>4. UNCHANGED <<backups, second>> /\ writer' = None
        /\ file' \in {file, editing[e].new}
    BY <1>8 DEF RF!Replace, RF!WriteFails
  <2>5. FileTyped'
    BY <1>d, <1>e, <2>2, <2>4 DEF FileTyped, EditState
  <2>6. RF!EditsAreMade'
    <3>1. CASE RF!Replace(e)
      <4>1. editing[e].new \in SUBSET UserRules /\ editing[e].new # None /\ file' = editing[e].new
        BY <1>e, <3>1, FileAssumption DEF RF!Replace, EditState
      <4>2. RF!Text' = editing[e].new
        BY <4>1 DEF RF!Text
      <4>3. ASSUME ~disturbed' PROVE meant' = editing[e].new
        <5>1. ~disturbed /\ editing[e].read = RF!Text
              /\ meant' = (meant \cup (editing[e].new \ editing[e].read))
                              \ (editing[e].read \ editing[e].new)
          BY <3>1, <4>3 DEF RF!Replace
        <5>2. meant = RF!Text
          BY <5>1 DEF FileInv, RF!EditsAreMade
        <5>3. QED
          BY <5>1, <5>2
      <4>4. QED
        BY <4>2, <4>3 DEF RF!EditsAreMade
    <3>2. CASE RF!WriteFails(e)
      BY <3>2 DEF RF!WriteFails, RF!EditsAreMade, RF!Text, FileInv
    <3>3. QED
      BY <1>8, <3>1, <3>2
  <2>7. QED
    BY <1>a, <2>2, <2>3, <2>5, <2>6 DEF FileInv
<1>9. CASE UNCHANGED fileVars
  BY <1>9 DEF fileVars, FileInv, FileTyped, RF!EditsAreMade, RF!Text
<1>10. QED
  BY <1>1, <1>2, <1>3, <1>4, <1>5, <1>6, <1>7, <1>8, <1>9 DEF RF!Next

LEMMA RulesFileIsKept == FileInv => RF!RulesAreKept
<1> SUFFICES ASSUME FileInv PROVE RF!RulesAreKept
  OBVIOUS
<1>1. RF!TypeOK
  BY DEF FileInv, FileTyped, RF!TypeOK, EditState
<1>2. RF!OldTextIsKept
  BY DEF FileInv, FileTyped, RF!OldTextIsKept
<1>3. QED
  BY <1>1, <1>2 DEF FileInv, RF!RulesAreKept

-----------------------------------------------------------------------------
(* All of it *)

PartsInv ==
    /\ part = "lists" => ListsInv
    /\ part = "import" => ImportInv
    /\ part = "file" => FileInv

\* For every set of lists, of versions and of threads that update them, every text of a
\* list and every set of editors: after the last reload the engine holds the lists that
\* are enabled, no large list shrinks suddenly, and a "304" keeps the right file; the
\* conversion of a text loses nothing but duplicates and does not depend on the order of
\* its lines; no edit of the user's rules is lost, and what is replaced is in a backup;
\* all of it but in the cases the parts of RulesAreKept name.
THEOREM PartsKeepRules == PartsSpec => []RulesAreKept
<1>1. PartsInit => PartsInv
  BY ListsInit, ImportInit, RulesFileInit DEF PartsInit, PartsInv
<1>2. PartsInv /\ [PartsNext]_<<part, vars, listVars, importVars, fileVars>> => PartsInv'
  <2> SUFFICES ASSUME PartsInv, [PartsNext]_<<part, vars, listVars, importVars, fileVars>>
               PROVE  PartsInv'
    OBVIOUS
  <2>1. part' = part
    BY DEF PartsNext
  <2>2. /\ part = "lists" => [BL!Next]_listVars
        /\ part = "import" => [RI!Next]_importVars
        /\ part = "file" => [RF!Next]_fileVars
    BY DEF PartsNext
  <2>3. QED
    BY <2>1, <2>2, ListsStep, ImportStep, RulesFileStep DEF PartsInv
<1>3. PartsInv => RulesAreKept
  BY ListsAreKept, ImportIsRight, RulesFileIsKept DEF PartsInv, RulesAreKept
<1>4. QED
  BY <1>1, <1>2, <1>3, PTL DEF PartsSpec
=============================================================================
