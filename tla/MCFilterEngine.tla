----------------------------- MODULE MCFilterEngine -----------------------------
(* Small rule sets and queries for FilterEngine, and small blocklists: a behaviour
   is one of the filter engine, or of what it is built from: the lists, the conversion
   of the text of a list, and the file of the user's rules. *)
EXTENDS FilterEngine

CONSTANTS t1, t2, Home, Kids, None, Lists, Counted, Stored, Large, Jobs, Scenes, SourceLines, MaxLines,
    Editors, UserRules, Legacy, MaxSeconds, MaxEdits, MaxTrouble

VARIABLES part, ops, server, rows, last, disk, cache, job, loaded, loading, notified, blamed,
          losses, budget,
          source, listType, converted,
          file, backups, second, writer, up, editing, edits, trouble, meant, disturbed

listVars == <<ops, server, rows, last, disk, cache, job, loaded, loading, notified, blamed,
              losses, budget>>
importVars == <<source, listType, converted>>
fileVars == <<file, backups, second, writer, up, editing, edits, trouble, meant, disturbed>>

Ads == <<"ads", "com">>
SubAds == <<"x", "ads", "com">>
Search == <<"google", "com">>
OtherSearch == <<"bing", "com">>
Tube == <<"www", "youtube", "com">>
Middle == <<"mytracker", "net">>     \* the word is a part of a label
Exactly == <<"tracker", "net">>      \* the word is a label

SomeNames == {Ads, SubAds, Search, OtherSearch, Tube, Middle, Exactly}
SomeWords == {<<"tracker">>}
LabelsWithWords == {<<"tracker", "tracker">>, <<"tracker", "mytracker">>}
SearchNames == "google" :> {Search} @@ "bing" :> {OtherSearch}
TubeNames == {<<"youtube", "com">>}
AppNames == "app" :> {Ads}

Empty == [user |-> {}, rewrites |-> {}, lists |-> {},
          custom |-> [p \in Profiles |-> {}], safe |-> [p \in Profiles |-> {}],
          youtube |-> {}, services |-> [p \in Profiles |-> {}],
          filtered |-> Profiles]

SomeRegexes == {[kind |-> k, on |-> Ads] : k \in {"exact", "suffix"}}
               \cup {[kind |-> k, on |-> <<"tracker">>] : k \in {"word", "open"}}
SomeLines == [action : Actions, type : {"exact", "suffix"}, pattern : {Ads}]
             \cup [action : Actions, type : {"regex"}, pattern : SomeRegexes]
SomeCustom == [action : Actions \cup {"rewrite"}, type : {"domain"}, pattern : {Ads, Search}]
              \cup [action : Actions, type : {"regex"}, pattern : SomeRegexes]

InList(line, enabled, profiles) ==
    [Empty EXCEPT !.lists = {[lines |-> {line}, enabled |-> enabled, profiles |-> profiles]}]

\* one setting each
Single ==
    {[Empty EXCEPT !.user = {l}] : l \in SomeLines}
    \cup {InList(l, TRUE, {}) : l \in SomeLines}
    \cup {InList(l, FALSE, {Kids}) : l \in SomeLines}
    \cup {InList(l, TRUE, {Kids}) : l \in SomeLines}
    \cup {[Empty EXCEPT !.custom[Kids] = {c}] : c \in SomeCustom}
    \cup {[Empty EXCEPT !.rewrites = {[pattern |-> Ads, wildcard |-> w]}] : w \in BOOLEAN}
    \cup {[Empty EXCEPT !.safe[Kids] = {"google"}],
          [Empty EXCEPT !.youtube = {Kids}],
          [Empty EXCEPT !.services[Kids] = {"app"}],
          [Empty EXCEPT !.filtered = {Home}]}

\* two settings together
Both(a, b) ==
    [user |-> a.user \cup b.user, rewrites |-> a.rewrites \cup b.rewrites,
     lists |-> a.lists \cup b.lists,
     custom |-> [p \in Profiles |-> a.custom[p] \cup b.custom[p]],
     safe |-> [p \in Profiles |-> a.safe[p] \cup b.safe[p]],
     youtube |-> a.youtube \cup b.youtube,
     services |-> [p \in Profiles |-> a.services[p] \cup b.services[p]],
     filtered |-> a.filtered \cap b.filtered]

Asks(names, profiles) ==
    [name : names, profile : profiles, filtering : {TRUE}]

\* any two settings, one query of one thread
Alone ==
    {[history |-> <<Both(a, b)>>, workers |-> {t1}, asks |-> 1,
      queries |-> Asks(SomeNames, {Kids, Home, NoProfile})
                  \cup {[name |-> Ads, profile |-> Kids, filtering |-> FALSE]}] :
        a \in Single, b \in Single}

\* threads that share the cache of an engine, before and after a reload
BlockAds == [Empty EXCEPT !.user = {[action |-> "block", type |-> "suffix", pattern |-> Ads]}]
KidsBlockAds == [Empty EXCEPT !.custom[Kids] =
                    {[action |-> "block", type |-> "domain", pattern |-> Ads]}]
Together ==
    {[history |-> h, workers |-> {t1, t2}, asks |-> MaxQueries,
      queries |-> Asks({Ads, Middle}, {Kids, NoProfile})] :
        h \in {<<Empty, BlockAds>>, <<KidsBlockAds, Empty>>, <<Empty, KidsBlockAds>>}}

SomeScenarios == Alone \cup Together

-----------------------------------------------------------------------------
\* A version with one rule, one with more than half of the first, an empty one, and one
\* whose lines are counted and not stored.
SomeCounts == <<4, 1, 3, 0, 3>>
SomeStored == <<4, 1, 3, 0, 0>>
Uses(n, m, f) == [asks |-> n, news |-> m, faults |-> f]
SomeScenes == {
    [lists |-> 1, ops |-> {"update", "toggle", "delete", "edit"}, budget |-> Uses(3, 3, 1)],
    [lists |-> 1, ops |-> {"add", "delete", "all"}, budget |-> Uses(3, 1, 1)],
    [lists |-> 1, ops |-> {"update", "crash", "all", "delete"}, budget |-> Uses(3, 1, 1)],
    [lists |-> 2, ops |-> {"update", "all"}, budget |-> Uses(2, 2, 0)] }
BL == INSTANCE Blocklists WITH engine <- loaded
\* The ids of lists are numbers from 1, and "no value" is no row and no list.
ASSUME ListsAssumption ==
    /\ Lists \subseteq Nat \ {0} /\ Counted \in Seq(Nat) /\ Stored \in Seq(Nat)
    /\ Counted # <<>> /\ Len(Stored) = Len(Counted) /\ Large \in Nat
    /\ \A s \in Scenes : s.lists \in Lists \cup {0}
    /\ None \notin Lists \cup BL!Row \cup BL!Load

NoLists ==
    /\ ops = None /\ server = None /\ rows = None /\ last = None /\ disk = None
    /\ cache = None /\ job = None /\ loaded = None /\ loading = None /\ notified = None
    /\ blamed = None /\ losses = None /\ budget = None

-----------------------------------------------------------------------------
SomeLine(kind, allow, domains, options) ==
    [kind |-> kind, allow |-> allow, domains |-> domains, options |-> options]
SomeSourceLines ==
    {SomeLine("adblock", a, <<"d">>, o) : a \in BOOLEAN,
        o \in {<<>>, <<"badfilter">>, <<"important">>, <<"badfilter", "important">>, <<"browser">>}}
    \cup {SomeLine("adblock", FALSE, <<"d">>, o) : o \in {<<"important", "badfilter">>, <<"dnstype">>}}
    \cup {SomeLine("hosts", FALSE, d, <<>>) : d \in {<<"d">>, <<"e", "d">>, <<"d", "d">>}}
    \cup {SomeLine(k, a, <<"d">>, <<>>) : k \in {"plain", "wildcard"}, a \in BOOLEAN}
    \cup {SomeLine(k, FALSE, <<"d">>, <<>>) : k \in {"bs", "as"}}
    \cup {SomeLine("plain", FALSE, <<"d">>, <<"badfilter">>), SomeLine("comment", FALSE, <<>>, <<>>)}

RI == INSTANCE RuleImport WITH Unconverted <- None
ASSUME SourceLinesAssumption == MaxLines \in Nat /\ \A line \in SourceLines : RI!Readable(line)
NoText == source = None /\ listType = None /\ converted = None

RF == INSTANCE RulesFile
\* "No file" is no text, and "nobody" no editor.
ASSUME FileAssumption ==
    /\ Legacy \subseteq UserRules /\ MaxSeconds \in Nat
    /\ None \notin Editors /\ \A rules \in SUBSET UserRules : rules # None
NoFile ==
    /\ file = None /\ backups = None /\ second = None /\ writer = None /\ up = None
    /\ editing = None /\ edits = None /\ trouble = None /\ meant = None /\ disturbed = None

-----------------------------------------------------------------------------
Quiet == CHOOSE s \in Together : TRUE

PartsInit ==
    /\ Init
    /\ \/ part = "engine" /\ NoLists /\ NoText /\ NoFile
       \/ part = "lists" /\ scenario = Quiet /\ BL!Init /\ NoText /\ NoFile
       \/ part = "import" /\ scenario = Quiet /\ NoLists /\ RI!Init /\ NoFile
       \/ part = "file" /\ scenario = Quiet /\ NoLists /\ NoText /\ RF!Init
PartsNext ==
    /\ UNCHANGED part
    /\ \/ part = "engine" /\ Next /\ UNCHANGED <<listVars, importVars, fileVars>>
       \/ part = "lists" /\ BL!Next /\ UNCHANGED <<vars, importVars, fileVars>>
       \/ part = "import" /\ RI!Next /\ UNCHANGED <<vars, listVars, fileVars>>
       \/ part = "file" /\ RF!Next /\ UNCHANGED <<vars, listVars, importVars>>
PartsSpec == PartsInit /\ [][PartsNext]_<<part, vars, listVars, importVars, fileVars>>

\* What the engine is built from is kept, as Blocklists, RuleImport and RulesFile comment
\* it: the rows, files and rules of the lists, the rules of a text, and the user's rules.
RulesAreKept ==
    /\ part = "lists" => BL!BlocklistsAreKept
    /\ part = "import" => RI!ImportIsRight
    /\ part = "file" => RF!RulesAreKept
=============================================================================
