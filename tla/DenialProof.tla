------------------------------- MODULE DenialProof -------------------------------
(***************************************************************************)
(* The proofs that a name or a type does not exist, as DNSSECValidator     *)
(* accepts them (dnssec_validator.py, _nsec3_* and _prove_nsec3_denial),   *)
(* against the zone they come from.                                        *)
(*                                                                         *)
(* A zone is the set of the names that have an NSEC3 record, with the      *)
(* types of each.  The record of a name says that no hash lies between its *)
(* own and that of the next name.  An answer brings some of the records of *)
(* the zone: those a server sends by RFC 5155, or any others.              *)
(*                                                                         *)
(* Abstractions: a name is the sequence of its labels below the zone, the  *)
(* leftmost first; the hash is any order of the names the code looks at.   *)
(* The signatures of the records are DnssecValidator's.                    *)
(***************************************************************************)
EXTENDS Naturals, Sequences, FiniteSets, SequencesExt

CONSTANTS
    Zones,      \* zones to look at: [types : names -> sets of types, unsigned : names]
    Orders,     \* orders of the hashes: injections from names to numbers
    Questions   \* [name, rcode]: questions and the answers' codes

VARIABLES
    zone, hash, question,
    proof,      \* the owners of the records the answer brings
    verdict     \* what the validator says of them

vars == <<zone, hash, question, proof, verdict>>

\* Names with a record, and delegations without DS that an opt-out record skips.
Owners == DOMAIN zone.types
Exists(name) == name \in Owners \cup zone.unsigned
OptOut == zone.unsigned # {}

NextOwner(owner) ==
    LET later == {o \in Owners : hash[o] > hash[owner]}
        from == IF later = {} THEN Owners ELSE later
    IN CHOOSE o \in from : \A p \in from : hash[o] <= hash[p]

\* _nsec3_hash_covered; a record that is alone in its zone covers nothing.
HashCovered(h, owner, next) ==
    \/ owner < next /\ owner < h /\ h < next
    \/ owner > next /\ (h > owner \/ h < next)

\* _nsec3_matching_rrset and _nsec3_covering_rrset
Matching(records, name) == \E o \in records : hash[o] = hash[name]
Covering(records, name) ==
    \E o \in records : HashCovered(hash[name], hash[o], hash[NextOwner(o)])

\* _closest_encloser_candidates, longest first; what encloses the zone cannot match.
Candidates(name) == [i \in 1..(Len(name) + 1) |-> SubSeq(name, i, Len(name))]

\* The encloser closest to the name among those from position "first" on, or 0.
Closest(records, name, first) ==
    LET matched == {i \in first..(Len(name) + 1) : Matching(records, Candidates(name)[i])}
    IN IF matched = {} THEN 0 ELSE Min(matched)

Wildcard(name) == <<"*">> \o name
\* The type that is asked for is "t".
HasTypeOrAlias(name) == zone.types[name] \cap {"t", "CNAME"} # {}

\* The wildcard at the closest encloser exists without the type, or is denied.
WildcardDenied(records, encloser) ==
    LET w == Wildcard(encloser)
    IN IF Matching(records, w) THEN ~HasTypeOrAlias(w) ELSE Covering(records, w)

\* A bug: the name below the closest encloser need not be denied.
NameDeniedByEncloser(records, name, at) == TRUE
\* NXDOMAIN: the name one label longer than the closest encloser is denied.
NameDenied(records, name, at) == Covering(records, Candidates(name)[at - 1])

\* NODATA: the name is there without the type, or an opt-out record skips it.
TypeDenied(records, name) ==
    IF Matching(records, name) THEN ~HasTypeOrAlias(name)
    ELSE OptOut /\ Covering(records, name)

\* _prove_nsec3_denial.  For NXDOMAIN the name itself is not a candidate.
Proves(records, name, rcode) ==
    LET at == Closest(records, name, IF rcode = "NXDOMAIN" THEN 2 ELSE 1)
    IN /\ records # {} /\ at # 0
       /\ WildcardDenied(records, Candidates(name)[at])
       /\ IF rcode = "NXDOMAIN" THEN NameDenied(records, name, at)
          ELSE TypeDenied(records, name)

-----------------------------------------------------------------------------
Init ==
    /\ zone \in Zones /\ hash \in Orders /\ question \in Questions
    /\ proof \in SUBSET Owners
    /\ verdict = "none"

Judge ==
    /\ verdict = "none"
    /\ verdict' = IF Proves(proof, question.name, question.rcode) THEN "proved" ELSE "refused"
    /\ UNCHANGED <<zone, hash, question, proof>>

Next == Judge
Spec == Init /\ [][Next]_vars

-----------------------------------------------------------------------------
(* Properties: what is accepted is true, and what is true is accepted. *)

\* The longest existing name above a name, and whether a wildcard answers for it.
Encloser(name) ==
    Candidates(name)[CHOOSE i \in 2..(Len(name) + 1) :
                       /\ Exists(Candidates(name)[i])
                       /\ \A j \in 2..(i - 1) : ~Exists(Candidates(name)[j])]
Answers(name) == name \in Owners /\ HasTypeOrAlias(name)

\* Whatever records of the zone an answer brings, a denial that is accepted is
\* true: the name has no such type, no wildcard has it in its place, and a name
\* that is denied does not exist unless the zone leaves its kind out.
DenialsAreTrue ==
    verdict = "proved" =>
      /\ ~Answers(question.name)
      /\ ~Exists(question.name) /\ ~OptOut => ~Answers(Wildcard(Encloser(question.name)))
      /\ question.rcode = "NXDOMAIN" => question.name \notin Owners

\* The owner of the record that covers a name without one: the last before it, or of all.
Cover(name) ==
    LET before == {o \in Owners : hash[o] < hash[name]}
        from == IF before = {} THEN Owners ELSE before
    IN CHOOSE o \in from : \A p \in from : hash[p] <= hash[o]

\* What a server sends for a name that does not exist (RFC 5155, 7.2.2), in a
\* zone that hashes every name: the records that match the closest encloser and
\* cover the next closer name and the wildcard.
NameErrorProof(name, records) ==
    LET c == Encloser(name)
        next == SubSeq(name, Len(name) - Len(c), Len(name))
    IN records = {c, Cover(next), Cover(Wildcard(c))}

\* A name that does not exist is accepted as missing when the server sends what
\* RFC 5155 asks for (a zone has more than one name).
MissingNamesAreProved ==
    verdict = "refused" /\ question.rcode = "NXDOMAIN" /\ ~Exists(question.name)
      /\ Cardinality(Owners) > 1 /\ Wildcard(Encloser(question.name)) \notin Owners
      => ~NameErrorProof(question.name, proof)

\* A name that exists without the type is accepted as such when the server sends
\* the record of the name, which is what RFC 5155 (7.2.3) asks for (README.md:267:
\* "NSEC and NSEC3 denial proofs are validated").
MissingTypesAreProved ==
    question.rcode = "NOERROR" /\ question.name \in Owners /\ ~Answers(question.name)
      /\ proof = {question.name} => verdict # "refused"
=============================================================================
