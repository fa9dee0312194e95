----------------------------- MODULE DnssecValidator -----------------------------
(***************************************************************************)
(* DNSSECValidator (dnssec_validator.py): one thread validates answers to  *)
(* one question while the upstreams it asks for DS and DNSKEY records come *)
(* and go.                                                                 *)
(*                                                                         *)
(* Level 0 is the root zone, level Depth the zone of the question; every   *)
(* zone is a child of the one before.  "upstream" is what a lookup returns *)
(* now; what was returned stays in the validator's cache for a while.      *)
(*                                                                         *)
(* Abstractions: a record set is what the validator finds out about it.    *)
(* The anchors themselves are TrustAnchors', denial proofs DenialProof's.  *)
(***************************************************************************)
EXTENDS Naturals, Sequences, FiniteSets, SequencesExt

CONSTANTS
    Depth,      \* zones below the root
    Episodes,   \* bound: what the upstreams return by turns, as sets of
                \* functions from Lookups to Found
    Responses,  \* answers to validate
    Deadlines,  \* levels at which the time of a validation may be over; Depth + 1: none
    None

VARIABLES
    episode,    \* the episode of this behaviour; it never changes
    upstream,   \* what a lookup returns
    rrsets,     \* _cache: ("rrset", name, type)
    zoneKeys,   \* _cache: ("zone_keys", zone), the levels it has
    kept,       \* _cache: ("validation", question), a status or None
    response, status, late   \* the last validation: its input, result and deadline
                \* (None if it was recalled); forgotten when time passes

vars == <<episode, upstream, rrsets, zoneKeys, kept, response, status, late>>

Zones == 1..Depth
Lookups == ({"DS"} \X Zones) \cup ({"DNSKEY"} \X (0..Depth))
\* good; without signature; with one that does not verify; not the key its
\* parent (or the anchor) names; no such record; no answer.
Found == {"good", "stripped", "forged", "foreign", "absent", "lost"}
Statuses == {"secure", "insecure", "bogus", "indeterminate"}

TypeOK ==
    /\ upstream \in [Lookups -> Found] /\ upstream \in episode
    /\ rrsets \in [Lookups -> (Found \ {"lost"}) \cup {None}]
    /\ zoneKeys \subseteq 0..Depth
    /\ kept \in {"secure", "insecure", None}
    /\ response \in Responses \cup {None}
    /\ status \in Statuses \cup {None}
    /\ late \in 0..(Depth + 1) \cup {None}

Init ==
    /\ episode \in Episodes /\ upstream \in episode
    /\ rrsets = [l \in Lookups |-> None] /\ zoneKeys = {} /\ kept = None
    /\ response = None /\ status = None /\ late = None

\* _fetch_rrset: the cache first.  No answer at all is not cached.
Fetch(lookup) == IF rrsets[lookup] # None THEN rrsets[lookup] ELSE upstream[lookup]

-----------------------------------------------------------------------------
(* _validated_zone_keys: "keys", or the exception it raises: LookupError
   ("insecure"), DNSSECLookupFailure ("lookup"), ValidationFailure ("invalid") *)

\* The keys of the root: they match an anchor, and verify if they are signed.
RootLink ==
    CASE Fetch(<<"DNSKEY", 0>>) \in {"lost", "absent"} -> "lookup"
      [] Fetch(<<"DNSKEY", 0>>) \in {"foreign", "forged"} -> "invalid"
      [] OTHER -> "keys"

\* A bug: a DS set without signature is invalid data.
DsLinkStrict(z) ==
    CASE Fetch(<<"DS", z>>) \in {"lost", "absent"} -> "insecure"
      [] Fetch(<<"DS", z>>) \in {"stripped", "forged", "foreign"} -> "invalid"
      [] OTHER -> "keys"
\* The DS set of a child, signed by its parent.  A lookup without an answer
\* looks like a set that does not exist.
DsLink(z) ==
    CASE Fetch(<<"DS", z>>) \in {"lost", "absent"} -> "insecure"
      [] Fetch(<<"DS", z>>) = "stripped" -> "lookup"
      [] Fetch(<<"DS", z>>) \in {"forged", "foreign"} -> "invalid"
      [] OTHER -> "keys"

\* The keys of a child: named by the DS set, and signed by themselves.
KeyLink(z) ==
    CASE Fetch(<<"DNSKEY", z>>) \in {"lost", "absent"} -> "lookup"
      [] Fetch(<<"DNSKEY", z>>) = "foreign" -> "invalid"
      [] Fetch(<<"DNSKEY", z>>) = "stripped" -> "lookup"
      [] Fetch(<<"DNSKEY", z>>) = "forged" -> "invalid"
      [] OTHER -> "keys"

\* A bug: the deadline is met one level too early.
LinkEarly(z, deadline) ==
    IF z + 1 >= deadline THEN "lookup"
    ELSE IF z = 0 THEN RootLink
    ELSE IF DsLink(z) # "keys" THEN DsLink(z) ELSE KeyLink(z)
\* A step down the chain of zones; _check_deadline ends the walk at a level.
Link(z, deadline) ==
    IF z >= deadline THEN "lookup"
    ELSE IF z = 0 THEN RootLink
    ELSE IF DsLink(z) # "keys" THEN DsLink(z) ELSE KeyLink(z)
\* The walk from the root down to a zone ends with the first step that fails.
ChainTo(deadline) ==
    [z \in 0..Depth |->
        LET failed == {y \in 0..z : Link(y, deadline) # "keys"}
        IN IF failed = {} THEN "keys" ELSE Link(Min(failed), deadline)]
KeysOf(z, deadline) == IF z \in zoneKeys THEN "keys" ELSE ChainTo(deadline)[z]

\* The lookups the walk to a zone made.
Walked(z, deadline) ==
    IF z \in zoneKeys THEN {}
    ELSE LET through == {y \in 0..z : y < deadline /\ (y = 0 \/ ChainTo(deadline)[y - 1] = "keys")}
         IN {<<"DNSKEY", y>> : y \in {y \in through : y = 0 \/ DsLink(y) = "keys"}}
            \cup {<<"DS", y>> : y \in through \ {0}}

-----------------------------------------------------------------------------
(* The kinds of answers.  A record set of a response: its signatures, as pairs
   [zone |-> the signer, good |-> whether it verifies with the signer's keys],
   and for a denial record whether it proves what the answer claims. *)

\* One signer after the other, until one validates or an exception ends it all;
\* "holds" is what else fails if it is not so.
Try(sig, holds, deadline) ==
    LET k == KeysOf(sig.zone, deadline)
    IN IF k # "keys" THEN k ELSE IF sig.good /\ holds THEN "valid" ELSE "invalid"
\* What comes first of a function on positions and is none of what goes on.
FirstBut(results, goesOn) ==
    LET ends == {i \in DOMAIN results : results[i] # goesOn}
    IN IF ends = {} THEN goesOn ELSE results[Min(ends)]
Verdict(rrset, holds, deadline) ==
    FirstBut([i \in DOMAIN rrset.sigs |-> Try(rrset.sigs[i], holds, deadline)], "invalid")

StatusOf(verdict) ==
    CASE verdict = "valid" -> "secure"
      [] verdict = "insecure" -> "insecure"
      [] verdict = "lookup" -> "indeterminate"
      [] verdict = "invalid" -> "bogus"

\* Some of the sets of a section, at their positions.
At(section, positions) == [i \in positions |-> section[i]]
Signed(section) == At(section, {i \in DOMAIN section : section[i].sigs # <<>>})
Verdicts(sets, deadline) == [i \in DOMAIN sets |-> Verdict(sets[i], TRUE, deadline)]

\* A bug: one signature that verifies is enough for the whole answer.
ValidateSignedOne(r, deadline) ==
    LET these == Signed(r.answer)
    IN IF these = <<>> THEN "indeterminate"
       ELSE IF \E i \in DOMAIN these : Verdict(these[i], TRUE, deadline) = "valid" THEN "secure"
       ELSE StatusOf(FirstBut(Verdicts(these, deadline), "valid"))

\* _validate_signed: the sets with signatures, one after the other; the
\* authority section is looked at when there is no answer.
ValidateSigned(r, deadline) ==
    LET these == Signed(IF r.answer # <<>> THEN r.answer ELSE r.authority)
    IN IF these = <<>> THEN "indeterminate"
       ELSE StatusOf(FirstBut(Verdicts(these, deadline), "valid"))

Proofs(r) ==
    At(r.authority, {i \in DOMAIN r.authority : r.authority[i].type \in {"NSEC", "NSEC3"}})

\* _validate_negative: every proof has a signature that verifies, and NSEC3
\* records (all of them) or one of the NSEC records prove the denial.
ProofVerdict(s, deadline) ==
    IF s.sigs = <<>> THEN "unsigned" ELSE Verdict(s, s.type = "NSEC3" => s.proves, deadline)
ValidateNegative(r, deadline) ==
    LET these == Proofs(r)
        end == FirstBut([i \in DOMAIN these |-> ProofVerdict(these[i], deadline)], "valid")
    IN CASE these = <<>> -> "insecure"
         [] these # <<>> /\ end = "unsigned" -> "indeterminate"
         [] these # <<>> /\ end = "valid" ->
              IF \E i \in DOMAIN these : these[i].proves THEN "secure" ELSE "bogus"
         [] OTHER -> StatusOf(end)

\* _validate_unsigned: a zone on the way, the deepest first, has no DS set.
UnsignedAt == {z \in Zones : Fetch(<<"DS", z>>) \in {"lost", "absent"}}
ValidateUnsigned == IF UnsignedAt # {} THEN "insecure" ELSE "indeterminate"
AskedForDs ==
    {<<"DS", z>> : z \in {z \in Zones : \A u \in UnsignedAt : u <= z}}

\* _validate_impl
HasAnswer(r) == \E i \in DOMAIN r.answer : r.answer[i].type = "asked"
Kind(r) ==
    CASE r.rcode = "NXDOMAIN" -> "negative"
      [] r.rcode = "SERVFAIL" -> "failed"
      [] r.rcode = "NOERROR" /\ Proofs(r) # <<>> /\ ~HasAnswer(r) -> "negative"
      [] r.rcode = "NOERROR" /\ Signed(r.answer) = <<>> /\ Signed(r.authority) = <<>> -> "unsigned"
      [] OTHER -> "signed"
Validated(r, deadline) ==
    CASE Kind(r) = "failed" -> "indeterminate"
      [] Kind(r) = "negative" -> ValidateNegative(r, deadline)
      [] Kind(r) = "unsigned" -> ValidateUnsigned
      [] Kind(r) = "signed" -> ValidateSigned(r, deadline)

\* The sets that decide, and the zones whose keys they ask for.
Judged(r) ==
    CASE Kind(r) = "negative" -> Proofs(r)
      [] Kind(r) = "signed" -> Signed(IF r.answer # <<>> THEN r.answer ELSE r.authority)
      [] OTHER -> <<>>
Signers(r) == UNION {{s.sigs[i].zone : i \in DOMAIN s.sigs} : s \in Range(Judged(r))}

-----------------------------------------------------------------------------
(* validate_response *)

\* Only these two are kept.
Kept(result) == IF result \in {"secure", "insecure"} THEN result ELSE kept

Validate(r, deadline) ==
    /\ kept = None
    /\ response' = r /\ late' = deadline
    /\ status' = Validated(r, deadline)
    /\ kept' = Kept(status')
    /\ LET asked == IF Kind(r) = "unsigned" THEN AskedForDs
                    ELSE UNION {Walked(z, deadline) : z \in Signers(r)}
       IN rrsets' = [l \in Lookups |-> IF l \in asked /\ Fetch(l) # "lost"
                                       THEN Fetch(l) ELSE rrsets[l]]
    /\ zoneKeys' = zoneKeys \cup {z \in Signers(r) : KeysOf(z, deadline) = "keys"}
    /\ UNCHANGED <<episode, upstream>>

\* The result that is kept serves the question, whatever its answer is.
Recall(r) ==
    /\ kept # None
    /\ response' = r /\ late' = None
    /\ status' = kept
    /\ UNCHANGED <<episode, upstream, rrsets, zoneKeys, kept>>

-----------------------------------------------------------------------------
(* Time passes: what is cached expires; the upstreams return something else. *)

Forget == response' = None /\ status' = None /\ late' = None /\ UNCHANGED episode
ExpireResult ==
    kept # None /\ kept' = None /\ Forget /\ UNCHANGED <<upstream, rrsets, zoneKeys>>
ExpireKeys ==
    zoneKeys # {} /\ zoneKeys' = {} /\ Forget /\ UNCHANGED <<upstream, rrsets, kept>>
ExpireRrset(l) ==
    /\ rrsets[l] # None /\ rrsets' = [rrsets EXCEPT ![l] = None]
    /\ Forget /\ UNCHANGED <<upstream, zoneKeys, kept>>
Change == upstream' \in episode \ {upstream} /\ Forget /\ UNCHANGED <<rrsets, zoneKeys, kept>>

Next ==
    \/ \E r \in Responses : Recall(r) \/ \E d \in Deadlines : Validate(r, d)
    \/ ExpireResult \/ ExpireKeys \/ Change \/ \E l \in Lookups : ExpireRrset(l)
Spec == Init /\ [][Next]_vars

\* No entry of the cache is served for ever: get deletes what has expired.
Fairness ==
    /\ WF_vars(ExpireResult) /\ WF_vars(ExpireKeys)
    /\ \A l \in Lookups : WF_vars(ExpireRrset(l))
FairSpec == Spec /\ Fairness

-----------------------------------------------------------------------------
(* Properties *)

Sets(r) == Range(r.answer) \cup Range(r.authority)
Verifies(s) == \E i \in DOMAIN s.sigs : s.sigs[i].good
Contradicted == \E l \in Lookups : rrsets[l] \in {"forged", "foreign"}
Honest(r) ==
    /\ \A s \in Sets(r) : \A i \in DOMAIN s.sigs : s.sigs[i].good
    /\ \A s \in Range(Proofs(r)) : s.proves

\* Bogus is about cryptography: lookups that fail, time out or come back without
\* signatures never make an honest answer bogus, whatever is cached from before
\* (dnssec_validator.py:35: "This is NOT a cryptographic failure").
BogusIsContradicted == status = "bogus" => Contradicted \/ ~Honest(response)

\* The keys of a zone are taken as verified only by lookups that verified, from
\* the root down.
LinkedDown(z) ==
    \A y \in 0..z : /\ rrsets[<<"DNSKEY", y>>] = "good" \/ (y = 0 /\ rrsets[<<"DNSKEY", y>>] = "stripped")
                   /\ y > 0 => rrsets[<<"DS", y>>] = "good"
Linked(z) == z \in zoneKeys
KeysAreLinked == \A z \in zoneKeys' \ zoneKeys : LinkedDown(z)'

\* A result that was not kept from an earlier answer is secure only if there is a
\* set to judge by - the proofs of a denial, else the signed sets of the answer, or of
\* the authority section where there is none - and each is signed by a zone that is
\* linked to the anchors by lookups that verified; a denial has to be proved.
SecureIsSigned ==
    [][KeysAreLinked /\ (status' = "secure" /\ kept = None =>
         LET judged == Range(Judged(response'))
         IN /\ judged # {}
            /\ \A s \in judged : \E i \in DOMAIN s.sigs : s.sigs[i].good /\ Linked(s.sigs[i].zone)'
            /\ Kind(response') = "negative" => \E s \in judged : s.proves)]_vars

\* What an outage or bad data leave in the caches passes: once all lookups
\* succeed for good, honest signed answers validated in time are secure.
Good == [l \in Lookups |-> "good"]
OutagesPass ==
    <>[](upstream = Good) =>
    <>[](status # None /\ late = Depth + 1 /\ Honest(response) /\ Kind(response) # "failed"
           /\ (\E s \in Sets(response) : s.sigs # <<>>) /\ (\A s \in Sets(response) : s.sigs # <<>>)
         => status = "secure")
=============================================================================
