-------------------------------- MODULE MCDnssec --------------------------------
(* The three parts of DNSSEC validation in one run: a behaviour is one of the
   anchors through the days, of a validator through its caches, or one proof. *)
EXTENDS Naturals, Sequences, FiniteSets

CONSTANTS Keys, Builtin, Inodes, Scenes, None, Hold, Remove, Retention, MaxDay,
    Depth, Episodes, Responses, Deadlines,
    Names, SignedZones, Orders, Questions

VARIABLES part,
    cast, zone, published, day, file, json, tmp, fd, anchors, pc, after, payload,
    outcome, checked, torn, restarts,
    episode, upstream, rrsets, zoneKeys, kept, response, status, late,
    nsecZone, hash, question, proof, verdict

anchorVars == <<cast, zone, published, day, file, json, tmp, fd, anchors, pc, after, payload,
                outcome, checked, torn, restarts>>
validatorVars == <<episode, upstream, rrsets, zoneKeys, kept, response, status, late>>
proofVars == <<nsecZone, hash, question, proof, verdict>>

-----------------------------------------------------------------------------
\* One handler and a restart, or two handlers.
SomeScenes == {[threads |-> {"a"}, restarts |-> 1], [threads |-> {"a", "b"}, restarts |-> 0]}
Anchors == INSTANCE TrustAnchors
\* The server is installed with an anchor.
ASSUME KeysAssumption == Builtin \subseteq Keys /\ Builtin # {}
ASSUME DaysAssumption == {Hold, Remove, Retention, MaxDay} \subseteq Nat
\* There is a name for one more file than can be in use.
ASSUME InodesAssumption ==
    /\ IsFiniteSet(Inodes) /\ None \notin Inodes \cup Nat
    /\ IsFiniteSet(Anchors!Threads) /\ Cardinality(Inodes) > Cardinality(Anchors!Threads) + 1
ASSUME ScenesAssumption == \A s \in Scenes : s.restarts \in Nat

\* A two-level chain that is sound, and by turns something else: one lookup that
\* returns anything, no lookup at all, an unsigned zone whose keys are lost.
Lookups == ({"DS"} \X (1..Depth)) \cup ({"DNSKEY"} \X (0..Depth))
Sound == [l \in Lookups |-> "good"]
Fault(l) == IF l[1] = "DS" THEN {"stripped", "forged", "absent", "lost"}
            ELSE {"stripped", "forged", "foreign", "lost"}
SomeEpisodes == {{Sound, [Sound EXCEPT ![<<"DS", 1>>] = "absent", ![<<"DNSKEY", 2>>] = "lost"]},
                 {Sound, [l \in Lookups |-> "lost"]}}
                \cup UNION {{{Sound, [Sound EXCEPT ![l] = f]} : f \in Fault(l)}
                            : l \in Lookups \ {<<"DNSKEY", 1>>}}
SomeDeadlines == {1, Depth + 1}

Set(type, sigs, proves) == [type |-> type, sigs |-> sigs, proves |-> proves]
Sig(level, good) == [zone |-> level, good |-> good]
Positive(sets) == [rcode |-> "NOERROR", answer |-> sets, authority |-> <<>>]
Negative(code, sets) == [rcode |-> code, answer |-> <<>>, authority |-> sets]
Ok == <<Sig(2, TRUE)>>
SomeResponses == {
    Positive(<<Set("asked", Ok, FALSE)>>),
    Positive(<<Set("asked", <<Sig(2, FALSE), Sig(1, TRUE)>>, FALSE)>>),
    Positive(<<Set("alias", Ok, FALSE), Set("target", <<Sig(2, FALSE)>>, FALSE)>>),
    Positive(<<Set("asked", <<>>, FALSE)>>),
    Negative("NOERROR", <<Set("NSEC", Ok, FALSE), Set("NSEC", Ok, TRUE)>>),
    Negative("NXDOMAIN", <<Set("NSEC", Ok, FALSE)>>),
    Negative("NXDOMAIN", <<Set("NSEC3", Ok, TRUE), Set("NSEC3", <<>>, TRUE)>>),
    Negative("NXDOMAIN", <<Set("NSEC3", Ok, FALSE)>>),
    Negative("SERVFAIL", <<>>) }
Validator == INSTANCE DnssecValidator
ASSUME DepthAssumption == Depth \in Nat \ {0}
ASSUME EpisodesAssumption ==
    \A e \in Episodes : e \subseteq [Validator!Lookups -> Validator!Found]
\* The signer of a set is one of the zones.
Rrset == [type : STRING, sigs : Seq([zone : 0..Depth, good : BOOLEAN]), proves : BOOLEAN]
ASSUME ResponsesAssumption ==
    /\ None \notin Validator!Statuses \cup Validator!Found /\ None \notin Responses
    /\ \A r \in Responses : r.answer \in Seq(Rrset) /\ r.authority \in Seq(Rrset)
ASSUME DeadlinesAssumption == Deadlines \subseteq 0..(Depth + 1)

\* Zones with up to three names, with the type or without; one of them may leave
\* a delegation out.  The order of the hashes is a circle: the zone comes first.
SomeNames == {<<>>, <<"a">>, <<"*">>, <<"b", "a">>, <<"*", "a">>, <<"*", "b", "a">>}
SomeOrders ==
    {f \in [SomeNames -> 1..6] :
       f[<<>>] = 1 /\ \A x, y \in SomeNames : x # y => f[x] # f[y]}
OwnerSets == {{<<>>, <<"a">>}, {<<>>, <<"*">>}, {<<>>, <<"a">>, <<"b", "a">>},
              {<<>>, <<"a">>, <<"*">>}, {<<>>, <<"a">>, <<"*", "a">>}}
SomeZones ==
    {[types |-> t, unsigned |-> {}] : t \in UNION {[o -> {{}, {"t"}}] : o \in OwnerSets}}
    \cup {[types |-> [n \in {<<>>, <<"a">>} |-> {}], unsigned |-> {<<"b", "a">>}]}
SomeQuestions == [name : {<<"a">>, <<"b", "a">>}, rcode : {"NXDOMAIN", "NOERROR"}]
Proof == INSTANCE DenialProof WITH zone <- nsecZone, Zones <- SignedZones
\* All names above a name that is asked for are hashed, and the wildcard at each; no two
\* hashes collide.
ASSUME QuestionsAssumption == \A q \in Questions : q.name \in Seq(STRING)
ASSUME NamesAssumption ==
    \A q \in Questions : \A i \in 1..(Len(q.name) + 1) :
      {Proof!Candidates(q.name)[i], Proof!Wildcard(Proof!Candidates(q.name)[i])} \subseteq Names
ASSUME OrdersAssumption ==
    \A f \in Orders : f \in [Names -> Nat] /\ \A x, y \in Names : f[x] = f[y] => x = y
\* The zone itself has a record, and so has every name above one that has.
ASSUME ZonesAssumption ==
    \A z \in SignedZones :
      LET owners == DOMAIN z.types
      IN /\ owners \subseteq Names /\ IsFiniteSet(owners) /\ <<>> \in owners
         /\ \A n \in owners \ {<<>>} : Tail(n) \in owners

-----------------------------------------------------------------------------
NoAnchors ==
    /\ cast = None /\ zone = None /\ published = None /\ day = None /\ file = None
    /\ json = None /\ tmp = None /\ fd = None /\ anchors = None /\ pc = None
    /\ after = None /\ payload = None /\ outcome = None /\ checked = None /\ torn = None
    /\ restarts = None
NoValidator ==
    /\ episode = {} /\ upstream = Sound /\ rrsets = [l \in Lookups |-> None] /\ zoneKeys = {}
    /\ kept = None /\ response = None /\ status = None /\ late = None
NoProof ==
    /\ nsecZone = None /\ hash = None /\ question = None /\ proof = None
    /\ verdict = None

Init ==
    \/ part = "anchors" /\ Anchors!Init /\ NoValidator /\ NoProof
    \/ part = "validator" /\ Validator!Init /\ NoAnchors /\ NoProof
    \/ part = "proof" /\ Proof!Init /\ NoAnchors /\ NoValidator

Next ==
    /\ UNCHANGED part
    /\ \/ part = "anchors" /\ Anchors!Next /\ UNCHANGED <<validatorVars, proofVars>>
       \/ part = "validator" /\ Validator!Next /\ UNCHANGED <<anchorVars, proofVars>>
       \/ part = "proof" /\ Proof!Next /\ UNCHANGED <<anchorVars, validatorVars>>

Spec == Init /\ [][Next]_<<part, anchorVars, validatorVars, proofVars>> /\ Validator!Fairness

\* The properties of the parts, as the modules comment them.
AnchorsWereHeld == part = "anchors" => Anchors!TypeOK /\ Anchors!AnchorsWereHeld
RolloverFollowed == part = "anchors" => Anchors!RolloverFollowed
BogusIsContradicted == part = "validator" => Validator!TypeOK /\ Validator!BogusIsContradicted
SecureIsSigned == Validator!SecureIsSigned
OutagesPass == Validator!OutagesPass
DenialsAreExact == part = "proof" => Proof!DenialsAreTrue /\ Proof!MissingNamesAreProved
MissingTypesAreProved == part = "proof" => Proof!MissingTypesAreProved
=============================================================================
