---------------------------- MODULE MCDnssec_proofs ----------------------------
(***************************************************************************)
(* Proofs about DNSSEC validation: the root trust anchors, for every set   *)
(* of keys, every number of handler threads and every hold-down; the       *)
(* validator, for every chain of zones, answer, deadline and upstream; the *)
(* proofs of denial, for every zone, order of the hashes and name.         *)
(***************************************************************************)
EXTENDS MCDnssec, FiniteSetTheorems, SequenceTheorems, WellFoundedInduction, TLAPS

Threads == Anchors!Threads
Idents == Anchors!Idents

-----------------------------------------------------------------------------
(* A key is trusted only after its hold-down *)

HeldLong(i, pub, today) ==
    i \in Anchors!Plain(Builtin) \/ (pub[i] \in Nat /\ pub[i] + Hold <= today)

\* What a state file says of a key is true: a key that is pending was published when it
\* was first seen or before, and one that is active has been held.
HonestAnchor(a, i, pub, today) ==
    /\ a.state = "pending" => pub[i] \in 0..a.first /\ a.first + Hold <= a.until
    /\ a.state = "active" => HeldLong(i, pub, today)
    /\ a.state = "revoked" => i[2]

Honest(p, pub, today) ==
    p \in [Idents -> Anchors!Anchor] /\ \A i \in Idents : HonestAnchor(p[i], i, pub, today)

\* The inductive invariant: every file that is or was a state file is honest, and so is
\* what a thread is about to write, whoever lost the race for the name.
HeldInv ==
    /\ Anchors!TypeOK
    /\ \A i \in Idents : published[i] \in (0..day) \cup {None}
    /\ \A i \in zone : published[i] \in 0..day
    /\ \A f \in Inodes : Honest(file[f].anchors, published, day)
    /\ \A t \in Threads : Honest(payload[t], published, day)
    /\ \A i \in anchors : i[2] \/ HeldLong(i, published, day)

LEMMA DaysAreNumbers ==
  /\ Hold \in Nat /\ Remove \in Nat /\ Retention \in Nat /\ MaxDay \in Nat
  /\ Anchors!Days = 0..MaxDay /\ None \notin Nat /\ None \notin Inodes
  BY DaysAssumption, InodesAssumption DEF Anchors!Days

LEMMA IdentsAre == \A k \in Keys : <<k, FALSE>> \in Idents /\ <<k, TRUE>> \in Idents
<1>1. FALSE \in BOOLEAN /\ TRUE \in BOOLEAN
  OBVIOUS
<1>2. QED
  BY <1>1 DEF Idents, Anchors!Idents

LEMMA PlainIsIdents ==
  ASSUME NEW K \in SUBSET Keys PROVE Anchors!Plain(K) \subseteq Idents
  BY IdentsAre DEF Anchors!Plain

LEMMA AbsentIsHonest ==
  ASSUME NEW pub, NEW today
  PROVE  Anchors!Absent \in Anchors!Anchor
         /\ \A i \in Idents : HonestAnchor(Anchors!Absent, i, pub, today)
  BY DaysAreNumbers DEF Anchors!Absent, Anchors!Anchor, HonestAnchor

LEMMA NothingIsHonest ==
  ASSUME NEW pub, NEW today PROVE Honest(Anchors!Nothing, pub, today)
  BY AbsentIsHonest DEF Anchors!Nothing, Honest, Idents

LEMMA InitialIsHonest ==
  ASSUME NEW pub, NEW today PROVE Honest(Anchors!Initial, pub, today)
<1>1. ASSUME NEW i \in Idents, i \in Anchors!Plain(Builtin)
      PROVE  LET a == [Anchors!Absent EXCEPT !.state = "active"]
             IN a \in Anchors!Anchor /\ HonestAnchor(a, i, pub, today)
  BY <1>1, DaysAreNumbers DEF Anchors!Absent, Anchors!Anchor, HonestAnchor, HeldLong
<1>2. QED
  BY <1>1, AbsentIsHonest DEF Anchors!Initial, Honest, Idents

LEMMA AnchorExcept ==
  ASSUME NEW a \in Anchors!Anchor, NEW d
  PROVE  /\ Anchors!Promote(a) = [state |-> "active", first |-> a.first, until |-> 0]
         /\ Anchors!Retire(a, d) = [state |-> "retired", first |-> a.first, until |-> d]
<1>1. Anchors!Promote(a) \in [state : {"active"}, first : {a.first}, until : {0}]
  BY DEF Anchors!Anchor, Anchors!Promote
<1>2. Anchors!Retire(a, d) \in [state : {"retired"}, first : {a.first}, until : {d}]
  BY DEF Anchors!Anchor, Anchors!Retire
<1>3. QED
  BY <1>1, <1>2

\* An anchor is kept, promoted, retired, forgotten or new.
LEMMA PromotedIsHonest ==
  ASSUME NEW i \in Idents, NEW a \in Anchors!Anchor, NEW today \in Anchors!Days, NEW pub,
         HonestAnchor(a, i, pub, today),
         a.state = "pending", today >= a.until \/ today >= a.first + Hold
  PROVE  Anchors!Promote(a) \in Anchors!Anchor /\ HonestAnchor(Anchors!Promote(a), i, pub, today)
<1>1. /\ a.first \in Nat /\ a.until \in Nat /\ today \in Nat /\ pub[i] \in 0..a.first
      /\ a.first + Hold <= a.until
  BY DaysAreNumbers DEF Anchors!Anchor, HonestAnchor
<1>2. HeldLong(i, pub, today)
  BY <1>1, DaysAreNumbers DEF HeldLong
<1>3. Anchors!Promote(a) = [state |-> "active", first |-> a.first, until |-> 0]
  BY AnchorExcept
<1>4. QED
  BY <1>2, <1>3, DaysAreNumbers DEF Anchors!Anchor, HonestAnchor

LEMMA RetiredIsHonest ==
  ASSUME NEW i \in Idents, NEW a \in Anchors!Anchor, NEW today \in Anchors!Days, NEW pub
  PROVE  /\ Anchors!Retire(a, today) \in Anchors!Anchor
         /\ HonestAnchor(Anchors!Retire(a, today), i, pub, today)
<1>1. Anchors!Retire(a, today) = [state |-> "retired", first |-> a.first, until |-> today]
  BY AnchorExcept
<1>2. QED
  BY <1>1, DaysAreNumbers DEF Anchors!Anchor, HonestAnchor

LEMMA NewIsHonest ==
  ASSUME NEW i \in Idents, NEW today \in Anchors!Days, NEW pub, pub[i] \in 0..today
  PROVE  /\ Anchors!NewAnchor(i, today) \in Anchors!Anchor
         /\ HonestAnchor(Anchors!NewAnchor(i, today), i, pub, today)
  BY DaysAreNumbers DEF Anchors!NewAnchor, Anchors!Anchor, HonestAnchor

LEMMA UpdatedIsHonest ==
  ASSUME NEW p, NEW root, NEW today \in Anchors!Days, NEW pub,
         Honest(p, pub, today), \A i \in root : pub[i] \in 0..today
  PROVE  Honest(Anchors!Updated(p, root, today), pub, today)
<1> DEFINE q == Anchors!Recorded(p, root, today)
<1>1. Honest(q, pub, today)
  BY NewIsHonest DEF Anchors!Recorded, Honest, Idents
<1> HIDE DEF q
<1>2. ASSUME NEW i \in Idents
      PROVE  LET a == Anchors!Updated(p, root, today)[i]
             IN a \in Anchors!Anchor /\ HonestAnchor(a, i, pub, today)
  <2>1. q[i] \in Anchors!Anchor /\ HonestAnchor(q[i], i, pub, today)
    BY <1>1 DEF Honest
  <2>2. Anchors!Updated(p, root, today)[i] =
          CASE q[i].state = "pending" /\ today >= q[i].until /\ i \in root -> Anchors!Promote(q[i])
            [] q[i].state = "revoked" /\ today >= q[i].until -> Anchors!Retire(q[i], today)
            [] OTHER -> q[i]
    BY DEF q, Anchors!Updated, Idents
  <2>3. CASE q[i].state = "pending" /\ today >= q[i].until /\ i \in root
    BY <2>1, <2>2, <2>3, PromotedIsHonest
  <2>4. CASE q[i].state = "revoked" /\ today >= q[i].until
    BY <2>1, <2>2, <2>4, RetiredIsHonest
  <2>5. QED
    BY <2>1, <2>2, <2>3, <2>4
<1>3. QED
  BY <1>2 DEF Anchors!Updated, Honest, Idents

LEMMA ProcessedIsHonest ==
  ASSUME NEW p, NEW today \in Anchors!Days, NEW pub, Honest(p, pub, today)
  PROVE  Honest(Anchors!Processed(p, today), pub, today)
<1>1. ASSUME NEW i \in Idents
      PROVE  LET a == Anchors!Processed(p, today)[i]
             IN a \in Anchors!Anchor /\ HonestAnchor(a, i, pub, today)
  <2>1. p[i] \in Anchors!Anchor /\ HonestAnchor(p[i], i, pub, today)
    BY DEF Honest
  <2>2. Anchors!Processed(p, today)[i] =
          CASE p[i].state = "revoked" /\ today >= p[i].until -> Anchors!Retire(p[i], today)
            [] p[i].state = "pending" /\ (today >= p[i].until \/ today >= p[i].first + Hold) ->
                 Anchors!Promote(p[i])
            [] p[i].state = "retired" /\ today >= p[i].until + Retention -> Anchors!Absent
            [] OTHER -> p[i]
    BY DEF Anchors!Processed, Idents
  <2>3. CASE p[i].state = "pending" /\ (today >= p[i].until \/ today >= p[i].first + Hold)
    BY <2>1, <2>2, <2>3, PromotedIsHonest
  <2>4. CASE p[i].state = "revoked" /\ today >= p[i].until
    BY <2>1, <2>2, <2>4, RetiredIsHonest
  <2>5. CASE p[i].state = "retired" /\ today >= p[i].until + Retention
    BY <2>2, <2>5, AbsentIsHonest
  <2>6. QED
    BY <2>1, <2>2, <2>3, <2>4, <2>5
<1>2. QED
  BY <1>1 DEF Anchors!Processed, Honest, Idents

\* Time passes, and what was published stays.
LEMMA HonestTomorrow ==
  ASSUME NEW p, NEW today \in Anchors!Days, NEW pub, NEW pubs, Honest(p, pub, today),
         \A i \in Idents : pub[i] # None => pubs[i] = pub[i]
  PROVE  Honest(p, pubs, today + 1)
<1>1. ASSUME NEW i \in Idents PROVE HonestAnchor(p[i], i, pubs, today + 1)
  BY DaysAreNumbers DEF Honest, HonestAnchor, HeldLong, Anchors!Anchor
<1>2. QED
  BY <1>1 DEF Honest

LEMMA SetsAreHeld ==
  ASSUME NEW c, NEW pub, NEW today, Honest(c.anchors, pub, today)
  PROVE  /\ Anchors!Sets(c) \subseteq Idents
         /\ \A i \in Anchors!Sets(c) : i[2] \/ HeldLong(i, pub, today)
<1>1. Anchors!Plain(Builtin) \subseteq Idents
  BY PlainIsIdents, KeysAssumption
<1>2. ASSUME NEW i \in Anchors!Loadable(c.anchors)
      PROVE  i \in Idents /\ (i[2] \/ HeldLong(i, pub, today))
  BY DEF Anchors!Loadable, Honest, HonestAnchor, Idents
<1>3. QED
  BY <1>1, <1>2 DEF Anchors!Sets, HeldLong

\* There is a file that nobody uses.
LEMMA FreeIs ==
  ASSUME NEW f \in [Threads -> Inodes \cup {None}], NEW j, NEW m, j = None \/ m = None
  PROVE  Anchors!AnyFree(j, m, f) \in Inodes \ ({j, m} \cup {f[t] : t \in Threads})
<1> DEFINE used == {f[t] : t \in Threads}
           x == IF j = None THEN m ELSE j
<1>1. IsFiniteSet(used) /\ Cardinality(used) <= Cardinality(Threads)
  <2>1. f \in Surjection(Threads, used)
    BY DEF Surjection
  <2> HIDE DEF used
  <2>2. QED
    BY <2>1, InodesAssumption, FS_Surjection DEF Threads
<1>2. /\ Cardinality(used) \in Nat /\ Cardinality(Threads) \in Nat /\ Cardinality(Inodes) \in Nat
      /\ Cardinality(Inodes) > Cardinality(Threads) + 1
  BY <1>1, InodesAssumption, FS_CardinalityType DEF Threads
<1> HIDE DEF used
<1>3. IsFiniteSet(used \cup {x})
      /\ Cardinality(used \cup {x}) \in {Cardinality(used), Cardinality(used) + 1}
  BY <1>1, FS_AddElement
<1>4. ~(Inodes \subseteq used \cup {x})
  <2> SUFFICES ASSUME Inodes \subseteq used \cup {x} PROVE FALSE
    OBVIOUS
  <2>1. Cardinality(Inodes) <= Cardinality(used \cup {x})
    BY <1>3, FS_Subset
  <2>2. QED
    BY <1>1, <1>2, <1>3, <2>1
<1>5. Anchors!Free(j, m, f) # {} /\ Anchors!Free(j, m, f) = Inodes \ ({j, m} \cup used)
  BY <1>4, InodesAssumption DEF Anchors!Free, Threads, used
<1>6. QED
  BY <1>5 DEF Anchors!AnyFree, used

\* What HeldInv says of the files and of the threads, after a step of a thread.
FilesHonest == \A f \in Inodes : Honest(file[f].anchors, published, day)
PayloadsHonest == \A t \in Threads : Honest(payload[t], published, day)

\* A content that may be written to a file.
LEMMA WrittenIs ==
  ASSUME NEW p \in [Idents -> Anchors!Anchor]
  PROVE  Anchors!Written(p) \in Anchors!Content /\ Anchors!Written(p).anchors = p
  BY DEF Anchors!Written, Anchors!Content, Idents

LEMMA UnwrittenIs ==
  /\ Anchors!Unwritten \in Anchors!Content
  /\ Anchors!Unwritten.anchors = Anchors!Nothing /\ ~Anchors!Unwritten.whole
  BY NothingIsHonest DEF Anchors!Unwritten, Anchors!Content, Honest, Idents

\* Files that are dropped, or written one at a time.
LEMMA DropIsHonest ==
  ASSUME NEW content \in [Inodes -> Anchors!Content], NEW j, NEW m, NEW f, NEW pub, NEW today,
         \A i \in Inodes : Honest(content[i].anchors, pub, today)
  PROVE  /\ Anchors!Drop(content, j, m, f) \in [Inodes -> Anchors!Content]
         /\ \A i \in Inodes : Honest(Anchors!Drop(content, j, m, f)[i].anchors, pub, today)
  BY UnwrittenIs, NothingIsHonest DEF Anchors!Drop

LEMMA WriteIsHonest ==
  ASSUME NEW content \in [Inodes -> Anchors!Content], NEW k, NEW c \in Anchors!Content,
         NEW pub, NEW today, Honest(c.anchors, pub, today),
         \A i \in Inodes : Honest(content[i].anchors, pub, today)
  PROVE  /\ [content EXCEPT ![k] = c] \in [Inodes -> Anchors!Content]
         /\ \A i \in Inodes : Honest([content EXCEPT ![k] = c][i].anchors, pub, today)
  OBVIOUS

LEMMA PayloadStep ==
  ASSUME HeldInv, NEW t \in Threads, NEW p, Honest(p, published, day),
         payload' = [payload EXCEPT ![t] = p], UNCHANGED <<published, day>>
  PROVE  payload' \in [Threads -> [Idents -> Anchors!Anchor]] /\ PayloadsHonest'
<1>1. payload \in [Threads -> [Idents -> Anchors!Anchor]] /\ PayloadsHonest
  BY DEF HeldInv, Anchors!TypeOK, PayloadsHonest, Threads, Idents
<1>2. \A u \in Threads : payload'[u] = IF u = t THEN p ELSE payload[u]
  BY <1>1
<1>3. \A u \in Threads : Honest(payload'[u], published, day)
  BY <1>1, <1>2 DEF PayloadsHonest
<1>4. QED
  BY <1>1, <1>3 DEF PayloadsHonest, Honest

LEMMA FinishStep ==
  ASSUME HeldInv, NEW t \in Threads, NEW result \in {"keys", "bogus", "failed"},
         Anchors!Finish(t, result), UNCHANGED <<published, day>>
  PROVE  /\ payload' \in [Threads -> [Idents -> Anchors!Anchor]] /\ PayloadsHonest'
         /\ pc' \in [Threads -> {"idle", "fill", "match", "update", "open", "write", "replace",
                                 "reload", "process", "check", "last"}]
         /\ after' \in [Threads -> {"reload", "check", "last"}]
         /\ outcome' \in [Threads -> {"none", "keys", "bogus", "failed"}]
         /\ checked' \in BOOLEAN
<1>1. payload' = [payload EXCEPT ![t] = Anchors!Nothing]
  BY DEF Anchors!Finish
<1>2. payload' \in [Threads -> [Idents -> Anchors!Anchor]] /\ PayloadsHonest'
  BY <1>1, NothingIsHonest, PayloadStep
<1>3. QED
  BY <1>2 DEF Anchors!Finish, HeldInv, Anchors!TypeOK, Threads

LEMMA ContentIsHonest ==
  ASSUME HeldInv PROVE Honest(Anchors!Content0.anchors, published, day)
  BY UnwrittenIs, NothingIsHonest DEF HeldInv, Anchors!TypeOK, Anchors!Content0

LEMMA HeldThread ==
  ASSUME HeldInv, NEW t \in Threads, Anchors!Validate(t) PROVE HeldInv'
<1> USE DEF Threads, Idents
<1>1. /\ Anchors!TypeOK /\ FilesHonest /\ PayloadsHonest
      /\ \A i \in Idents : published[i] \in (0..day) \cup {None}
      /\ \A i \in zone : published[i] \in 0..day
      /\ \A i \in anchors : i[2] \/ HeldLong(i, published, day)
  BY DEF HeldInv, FilesHonest, PayloadsHonest
<1>2. UNCHANGED <<cast, zone, published, day, restarts>>
  BY DEF Anchors!Validate, Anchors!Ensure, Anchors!Recreate, Anchors!Fill, Anchors!Matches,
     Anchors!NoMatch, Anchors!Update, Anchors!UpdateSkipped, Anchors!OpenTmp, Anchors!WriteTmp,
     Anchors!Replace, Anchors!ReplaceFails, Anchors!Load, Anchors!Process,
     Anchors!NothingToProcess, Anchors!world
<1> DEFINE FilesType ==
             /\ file \in [Inodes -> Anchors!Content]
             /\ json \in Inodes \cup {None} /\ tmp \in Inodes \cup {None}
             /\ fd \in [Threads -> Inodes \cup {None}]
           PayloadsType == payload \in [Threads -> [Idents -> Anchors!Anchor]]
           ThreadsType ==
             /\ pc \in [Threads -> {"idle", "fill", "match", "update", "open", "write", "replace",
                                    "reload", "process", "check", "last"}]
             /\ after \in [Threads -> {"reload", "check", "last"}]
             /\ outcome \in [Threads -> {"none", "keys", "bogus", "failed"}]
             /\ checked \in BOOLEAN
           AnchorsHeld == anchors \subseteq Idents
                          /\ \A i \in anchors : i[2] \/ HeldLong(i, published, day)
<1>3. SUFFICES /\ FilesType' /\ FilesHonest' /\ PayloadsType' /\ PayloadsHonest'
               /\ ThreadsType' /\ AnchorsHeld' /\ torn' \in BOOLEAN
  BY <1>1, <1>2 DEF HeldInv, FilesHonest, PayloadsHonest, Anchors!TypeOK
<1>4. FilesType /\ PayloadsType /\ ThreadsType /\ AnchorsHeld /\ torn \in BOOLEAN
  BY <1>1 DEF Anchors!TypeOK
<1>5. UNCHANGED <<file, json, tmp, fd>> => FilesType' /\ FilesHonest'
  BY <1>1, <1>2, <1>4 DEF FilesHonest
<1>6. UNCHANGED payload => PayloadsType' /\ PayloadsHonest'
  BY <1>1, <1>2, <1>4 DEF PayloadsHonest
<1>7. UNCHANGED anchors => AnchorsHeld'
  BY <1>2, <1>4
<1>8. ASSUME NEW content \in [Inodes -> Anchors!Content],
             \A f \in Inodes : Honest(content[f].anchors, published, day),
             NEW j, NEW m, NEW g, file' = Anchors!Drop(content, j, m, g)
      PROVE  file' \in [Inodes -> Anchors!Content] /\ FilesHonest'
  <2>1. /\ Anchors!Drop(content, j, m, g) \in [Inodes -> Anchors!Content]
        /\ \A f \in Inodes : Honest(Anchors!Drop(content, j, m, g)[f].anchors, published, day)
    BY <1>8, DropIsHonest
  <2>2. QED
    BY <1>2, <1>8, <2>1 DEF FilesHonest
<1>9. CASE Anchors!Ensure(t)
  BY <1>4, <1>5, <1>6, <1>7, <1>9 DEF Anchors!Ensure, Anchors!Goto, Anchors!files
<1>10. CASE Anchors!Recreate(t)
  <2>1. PICK i, f : /\ f = [fd EXCEPT ![t] = i] /\ i = Anchors!AnyFree(None, tmp, fd)
                    /\ json' = i /\ fd' = f /\ file' = Anchors!Drop(file, i, tmp, f)
    BY <1>10 DEF Anchors!Recreate
  <2>2. i \in Inodes
    BY <1>4, <2>1, FreeIs
  <2>3. file' \in [Inodes -> Anchors!Content] /\ FilesHonest'
    BY <1>1, <1>4, <1>8, <2>1 DEF FilesHonest
  <2>4. /\ pc' = [pc EXCEPT ![t] = "fill"] /\ torn' = TRUE
        /\ UNCHANGED <<tmp, anchors, after, payload, outcome, checked>>
    BY <1>10 DEF Anchors!Recreate, Anchors!Goto
  <2>5. json' \in Inodes /\ fd' \in [Threads -> Inodes \cup {None}]
    BY <1>4, <2>1, <2>2
  <2>6. ThreadsType' /\ tmp' \in Inodes \cup {None}
    BY <1>4, <2>4
  <2>7. QED
    BY <1>6, <1>7, <2>3, <2>4, <2>5, <2>6
<1>11. CASE Anchors!Fill(t)
  <2> DEFINE content == [file EXCEPT ![fd[t]] = Anchors!Written(Anchors!Initial)]
  <2>1. Honest(Anchors!Initial, published, day)
    BY InitialIsHonest
  <2>2. /\ content \in [Inodes -> Anchors!Content]
        /\ \A f \in Inodes : Honest(content[f].anchors, published, day)
    <3>1. /\ Anchors!Written(Anchors!Initial) \in Anchors!Content
          /\ Anchors!Written(Anchors!Initial).anchors = Anchors!Initial
      BY <2>1, WrittenIs DEF Honest
    <3>2. /\ file \in [Inodes -> Anchors!Content]
          /\ \A f \in Inodes : Honest(file[f].anchors, published, day)
      BY <1>1, <1>4 DEF FilesHonest
    <3>3. QED
      BY <2>1, <3>1, <3>2, WriteIsHonest
  <2>3. file' = Anchors!Drop(content, json, tmp, fd') /\ fd' = [fd EXCEPT ![t] = None]
    BY <1>11 DEF Anchors!Fill
  <2> HIDE DEF content
  <2>4. file' \in [Inodes -> Anchors!Content] /\ FilesHonest'
    BY <1>8, <2>2, <2>3
  <2>5. QED
    BY <1>4, <1>6, <1>7, <1>11, <2>3, <2>4 DEF Anchors!Fill, Anchors!Goto
<1>12. CASE Anchors!Matches(t)
  BY <1>4, <1>5, <1>6, <1>7, <1>12 DEF Anchors!Matches, Anchors!Goto, Anchors!files
<1>13. CASE Anchors!NoMatch(t)
  BY <1>2, <1>4, <1>5, <1>7, <1>13, FinishStep DEF Anchors!NoMatch, Anchors!files
<1>14. CASE Anchors!Update(t)
  <2>1. Honest(Anchors!Content0.anchors, published, day)
    BY <1>14, ContentIsHonest
  <2>2. Honest(Anchors!Updated(Anchors!Content0.anchors, zone, day), published, day)
    BY <1>1, <2>1, UpdatedIsHonest DEF Anchors!TypeOK
  <2>3. PayloadsType' /\ PayloadsHonest'
    BY <1>2, <1>14, <2>2, PayloadStep DEF Anchors!Update
  <2>4. QED
    BY <1>4, <1>5, <1>7, <1>14, <2>3 DEF Anchors!Update, Anchors!Goto, Anchors!files
<1>15. CASE Anchors!UpdateSkipped(t)
  <2>1. FilesType' /\ FilesHonest' /\ torn' \in BOOLEAN
    BY <1>1, <1>4, <1>8, <1>15 DEF Anchors!UpdateSkipped, Anchors!Backup, FilesHonest
  <2>2. QED
    BY <1>2, <1>4, <1>7, <1>15, <2>1, FinishStep DEF Anchors!UpdateSkipped
<1>16. CASE Anchors!OpenTmp(t)
  <2>1. PICK i : /\ i = (IF tmp = None THEN Anchors!AnyFree(json, None, fd) ELSE tmp)
                 /\ tmp' = i /\ fd' = [fd EXCEPT ![t] = i]
                 /\ file' = [file EXCEPT ![i] = Anchors!Unwritten]
    BY <1>16 DEF Anchors!OpenTmp
  <2>2. i \in Inodes
    BY <1>4, <2>1, FreeIs
  <2>3. file' \in [Inodes -> Anchors!Content]
        /\ \A f \in Inodes : Honest(file'[f].anchors, published, day)
    BY <1>1, <1>4, <2>1, UnwrittenIs, NothingIsHonest, WriteIsHonest DEF FilesHonest
  <2>4. FilesType' /\ FilesHonest'
    BY <1>2, <1>4, <1>16, <2>1, <2>2, <2>3 DEF FilesHonest, Anchors!OpenTmp
  <2>5. QED
    BY <1>4, <1>6, <1>7, <1>16, <2>4 DEF Anchors!OpenTmp, Anchors!Goto
<1>17. CASE Anchors!WriteTmp(t)
  <2> DEFINE content == [file EXCEPT ![fd[t]] = Anchors!Written(payload[t])]
  <2>1. Honest(payload[t], published, day)
    BY <1>1 DEF PayloadsHonest
  <2>2. /\ content \in [Inodes -> Anchors!Content]
        /\ \A f \in Inodes : Honest(content[f].anchors, published, day)
    BY <1>1, <1>4, <2>1, WrittenIs, WriteIsHonest DEF FilesHonest, Honest
  <2>3. file' = Anchors!Drop(content, json, tmp, fd') /\ fd' = [fd EXCEPT ![t] = None]
    BY <1>17 DEF Anchors!WriteTmp
  <2> HIDE DEF content
  <2>4. file' \in [Inodes -> Anchors!Content] /\ FilesHonest'
    BY <1>8, <2>2, <2>3
  <2>5. QED
    BY <1>4, <1>6, <1>7, <1>17, <2>3, <2>4 DEF Anchors!WriteTmp, Anchors!Goto
<1>18. CASE Anchors!Replace(t)
  <2>1. file' \in [Inodes -> Anchors!Content] /\ FilesHonest'
    BY <1>1, <1>4, <1>8, <1>18 DEF Anchors!Replace, FilesHonest
  <2>2. PayloadsType' /\ PayloadsHonest'
    BY <1>2, <1>18, NothingIsHonest, PayloadStep DEF Anchors!Replace
  <2>3. pc' = [pc EXCEPT ![t] = after[t]] /\ after[t] \in {"reload", "check", "last"}
    BY <1>4, <1>18 DEF Anchors!Replace, Anchors!Goto
  <2>4. ThreadsType'
    BY <1>4, <1>18, <2>3 DEF Anchors!Replace
  <2>5. QED
    BY <1>4, <1>7, <1>18, <2>1, <2>2, <2>4 DEF Anchors!Replace
<1>19. CASE Anchors!ReplaceFails(t)
  BY <1>2, <1>4, <1>5, <1>7, <1>19, FinishStep DEF Anchors!ReplaceFails, Anchors!files
<1>20. CASE Anchors!Load(t)
  <2>1. Honest(Anchors!Content0.anchors, published, day)
    BY ContentIsHonest
  <2>2. AnchorsHeld'
    BY <1>2, <1>20, <2>1, SetsAreHeld DEF Anchors!Load
  <2>3. FilesType' /\ FilesHonest' /\ torn' \in BOOLEAN
    <3>1. CASE Anchors!Backup
      BY <1>1, <1>4, <1>8, <3>1 DEF Anchors!Backup, FilesHonest
    <3>2. CASE UNCHANGED <<Anchors!files, torn>>
      BY <1>4, <1>5, <3>2 DEF Anchors!files
    <3>3. QED
      BY <1>20, <3>1, <3>2 DEF Anchors!Load
  <2>4. PayloadsType' /\ PayloadsHonest' /\ ThreadsType'
    <3>1. CASE Anchors!Finish(t, "keys")
      BY <1>2, <3>1, FinishStep
    <3>2. CASE Anchors!Goto(t, "process") /\ UNCHANGED <<after, payload, outcome, checked>>
      BY <1>4, <1>6, <3>2 DEF Anchors!Goto
    <3>3. QED
      BY <1>20, <3>1, <3>2 DEF Anchors!Load
  <2>5. QED
    BY <2>2, <2>3, <2>4
<1>21. CASE Anchors!Process(t)
  <2>1. Honest(Anchors!Content0.anchors, published, day)
    BY ContentIsHonest
  <2>2. Honest(Anchors!Processed(Anchors!Content0.anchors, day), published, day)
    BY <1>1, <2>1, ProcessedIsHonest DEF Anchors!TypeOK
  <2>3. PayloadsType' /\ PayloadsHonest'
    BY <1>2, <1>21, <2>2, PayloadStep DEF Anchors!Process
  <2>4. QED
    BY <1>4, <1>5, <1>7, <1>21, <2>3 DEF Anchors!Process, Anchors!Goto, Anchors!files
<1>22. CASE Anchors!NothingToProcess(t)
  BY <1>2, <1>4, <1>5, <1>7, <1>22, FinishStep DEF Anchors!NothingToProcess, Anchors!files
<1>23. QED
  BY <1>9, <1>10, <1>11, <1>12, <1>13, <1>14, <1>15, <1>16, <1>17, <1>18, <1>19, <1>20, <1>21,
     <1>22 DEF Anchors!Validate

LEMMA HeldRestart ==
  ASSUME HeldInv, Anchors!Restart PROVE HeldInv'
<1> USE DEF Threads, Idents
<1> DEFINE nobody == [t \in Threads |-> None]
           old == IF Anchors!Content0.whole THEN Anchors!Content0.anchors ELSE Anchors!Initial
<1>1. PICK i : /\ i = (IF json = None THEN Anchors!AnyFree(None, tmp, nobody) ELSE json)
               /\ json' = i /\ fd' = nobody
               /\ file' = Anchors!Drop([file EXCEPT ![i] =
                              Anchors!Written(Anchors!Processed(old, day))], i, tmp, nobody)
               /\ anchors' = Anchors!Sets(file'[i])
  BY DEF Anchors!Restart
<1>2. UNCHANGED <<cast, zone, published, day, tmp, checked>> /\ restarts \in Nat /\ restarts > 0
      /\ restarts' = restarts - 1
  BY DEF HeldInv, Anchors!TypeOK, Anchors!Restart
<1>3. i \in Inodes /\ nobody \in [Threads -> Inodes \cup {None}]
  BY <1>1, FreeIs DEF HeldInv, Anchors!TypeOK
<1>4. Honest(Anchors!Processed(old, day), published, day)
  <2>1. Honest(old, published, day)
    BY ContentIsHonest, InitialIsHonest
  <2>2. QED
    BY <2>1, ProcessedIsHonest DEF HeldInv, Anchors!TypeOK
<1> HIDE DEF old, nobody
<1> DEFINE content == [file EXCEPT ![i] = Anchors!Written(Anchors!Processed(old, day))]
<1>5. /\ content \in [Inodes -> Anchors!Content]
      /\ \A f \in Inodes : Honest(content[f].anchors, published, day)
  BY <1>3, <1>4, WrittenIs, WriteIsHonest DEF HeldInv, Anchors!TypeOK, Honest
<1>6. file' = Anchors!Drop(content, i, tmp, nobody)
  BY <1>1
<1> HIDE DEF content
<1>7. file' \in [Inodes -> Anchors!Content]
      /\ \A f \in Inodes : Honest(file'[f].anchors, published, day)
  BY <1>5, <1>6, DropIsHonest
<1>8. anchors' \subseteq Idents /\ \A k \in anchors' : k[2] \/ HeldLong(k, published, day)
  BY <1>1, <1>3, <1>7, SetsAreHeld
<1>9. /\ pc' = [t \in Threads |-> "idle"] /\ after' = [t \in Threads |-> "reload"]
      /\ payload' = [t \in Threads |-> Anchors!Nothing]
      /\ outcome' = [t \in Threads |-> "none"] /\ torn' \in BOOLEAN
  BY DEF Anchors!Restart
<1>10. Anchors!Nothing \in [Idents -> Anchors!Anchor] /\ Honest(Anchors!Nothing, published, day)
  BY NothingIsHonest DEF Honest
<1>11. payload' \in [Threads -> [Idents -> Anchors!Anchor]]
       /\ \A t \in Threads : Honest(payload'[t], published, day)
  BY <1>9, <1>10
<1>12. fd' \in [Threads -> Inodes \cup {None}]
  BY <1>1, <1>3
<1>13. Anchors!TypeOK'
  <2>1. cast' \subseteq Threads /\ restarts' \in Nat /\ zone' \subseteq Idents
        /\ published' \in [Idents -> Anchors!Days \cup {None}] /\ day' \in Anchors!Days
        /\ tmp' \in Inodes \cup {None} /\ checked' \in BOOLEAN
    BY <1>2 DEF HeldInv, Anchors!TypeOK
  <2>2. json' \in Inodes \cup {None}
    BY <1>1, <1>3
  <2>3. QED
    BY <1>7, <1>8, <1>9, <1>11, <1>12, <2>1, <2>2 DEF Anchors!TypeOK
<1>14. QED
  BY <1>2, <1>7, <1>8, <1>11, <1>13 DEF HeldInv

LEMMA HeldDay ==
  ASSUME HeldInv, NEW newZone \in SUBSET Idents, Anchors!NextDay(newZone) PROVE HeldInv'
<1> USE DEF Threads, Idents
<1>1. /\ day \in Anchors!Days /\ day' = day + 1 /\ day' \in Anchors!Days /\ zone' = newZone
      /\ published' = [i \in Idents |-> IF i \in newZone /\ published[i] = None
                                        THEN day + 1 ELSE published[i]]
      /\ UNCHANGED <<cast, restarts, file, json, tmp, fd, anchors, pc, after, payload, torn>>
      /\ checked' = FALSE /\ outcome' = [t \in Threads |-> "none"]
  BY DaysAreNumbers DEF HeldInv, Anchors!TypeOK, Anchors!NextDay, Anchors!files
<1>2. \A i \in Idents : published[i] \in (0..day) \cup {None}
  BY DEF HeldInv
<1>3. \A i \in Idents : published[i] # None => published'[i] = published[i]
  BY <1>1
<1>4. published' \in [Idents -> Anchors!Days \cup {None}]
  BY <1>1 DEF HeldInv, Anchors!TypeOK
<1>5. ASSUME NEW p, Honest(p, published, day) PROVE Honest(p, published', day')
  BY <1>1, <1>3, <1>5, HonestTomorrow
<1>6. \A i \in zone' : published'[i] \in 0..day'
  BY <1>1, <1>2, DaysAreNumbers
<1>7. \A i \in Idents : published'[i] \in (0..day') \cup {None}
  BY <1>1, <1>2, DaysAreNumbers
<1>8. \A i \in anchors' : i[2] \/ HeldLong(i, published', day')
  BY <1>1, <1>2, <1>3, DaysAreNumbers DEF HeldInv, Anchors!TypeOK, HeldLong
<1>9. Anchors!TypeOK'
  BY <1>1, <1>4 DEF HeldInv, Anchors!TypeOK
<1>10. QED
  BY <1>1, <1>5, <1>6, <1>7, <1>8, <1>9 DEF HeldInv

LEMMA HeldOperator ==
  ASSUME HeldInv, Anchors!Operator PROVE HeldInv'
<1>1. zone \subseteq Idents /\ \A k \in Keys : <<k, FALSE>> \in Idents /\ <<k, TRUE>> \in Idents
  BY IdentsAre DEF HeldInv, Anchors!TypeOK, Idents
<1>2. CASE Anchors!Quiet
  BY <1>1, <1>2, HeldDay DEF Anchors!Quiet
<1>3. ASSUME NEW k \in Keys, Anchors!Publish(k) PROVE HeldInv'
  <2>1. zone \cup {<<k, FALSE>>} \in SUBSET Idents
    BY <1>1
  <2>2. QED
    BY <1>3, <2>1, HeldDay DEF Anchors!Publish
<1>4. ASSUME NEW k \in Keys, Anchors!Revoke(k) PROVE HeldInv'
  <2>1. (zone \ {<<k, FALSE>>}) \cup {<<k, TRUE>>} \in SUBSET Idents
    BY <1>1
  <2>2. QED
    BY <1>4, <2>1, HeldDay DEF Anchors!Revoke
<1>5. ASSUME NEW k \in Keys, Anchors!Withdraw(k) PROVE HeldInv'
  <2>1. zone \ {<<k, TRUE>>} \in SUBSET Idents
    BY <1>1
  <2>2. QED
    BY <1>5, <2>1, HeldDay DEF Anchors!Withdraw
<1>6. QED
  BY <1>2, <1>3, <1>4, <1>5 DEF Anchors!Operator

LEMMA HeldInit == Anchors!Init => HeldInv
<1> USE DEF Threads, Idents
<1> SUFFICES ASSUME Anchors!Init PROVE HeldInv
  OBVIOUS
<1>1. cast \subseteq Threads /\ restarts \in Nat
  BY ScenesAssumption DEF Anchors!Init, Anchors!Threads
<1>2. /\ zone = Anchors!Plain(Builtin) /\ day = 0 /\ json \in Inodes /\ tmp = None
      /\ published = [i \in Idents |-> IF i \in Anchors!Plain(Builtin) THEN 0 ELSE None]
      /\ file = [i \in Inodes |-> IF i = json THEN Anchors!Written(Anchors!Initial)
                                  ELSE Anchors!Unwritten]
      /\ fd = [t \in Threads |-> None] /\ anchors = Anchors!Plain(Builtin)
      /\ pc = [t \in Threads |-> "idle"] /\ after = [t \in Threads |-> "reload"]
      /\ payload = [t \in Threads |-> Anchors!Nothing]
      /\ outcome = [t \in Threads |-> "none"] /\ checked = FALSE /\ torn = FALSE
  BY DEF Anchors!Init
<1>3. Anchors!Plain(Builtin) \subseteq Idents
  BY PlainIsIdents, KeysAssumption
<1>4. /\ Honest(Anchors!Initial, published, day) /\ Honest(Anchors!Nothing, published, day)
      /\ Anchors!Initial \in [Idents -> Anchors!Anchor]
      /\ Anchors!Nothing \in [Idents -> Anchors!Anchor]
  BY InitialIsHonest, NothingIsHonest DEF Honest
<1>5. file \in [Inodes -> Anchors!Content]
      /\ \A f \in Inodes : Honest(file[f].anchors, published, day)
  BY <1>2, <1>4, WrittenIs, UnwrittenIs
<1>6. published \in [Idents -> Anchors!Days \cup {None}] /\ day \in Anchors!Days
  BY <1>2, DaysAreNumbers
<1>7. /\ \A i \in Idents : published[i] \in (0..day) \cup {None}
      /\ \A i \in zone : published[i] \in 0..day
      /\ \A i \in anchors : HeldLong(i, published, day)
  BY <1>2, <1>3 DEF HeldLong
<1>8. Anchors!TypeOK
  BY <1>1, <1>2, <1>3, <1>4, <1>5, <1>6 DEF Anchors!TypeOK
<1>9. QED
  BY <1>2, <1>4, <1>5, <1>7, <1>8 DEF HeldInv

LEMMA HeldStep == HeldInv /\ [Anchors!Next]_anchorVars => HeldInv'
<1> SUFFICES ASSUME HeldInv, [Anchors!Next]_anchorVars PROVE HeldInv'
  OBVIOUS
<1>1. CASE Anchors!Next
  BY <1>1, HeldRestart, HeldOperator, HeldThread DEF Anchors!Next, Threads
<1>2. CASE UNCHANGED anchorVars
  BY <1>2 DEF anchorVars, HeldInv, Anchors!TypeOK
<1>3. QED
  BY <1>1, <1>2

\* A key that was not installed is trusted only when the root zone published it a whole
\* hold-down before, for any number of handlers that update the state at once, whatever is
\* lost and whenever the server restarts.
THEOREM AnchorsHeld == Spec => []AnchorsWereHeld
<1> DEFINE Inv == part = "anchors" => HeldInv
<1>1. Init => Inv
  BY HeldInit DEF Init
<1>2. Inv /\ [Next]_<<part, anchorVars, validatorVars, proofVars>> => Inv'
  <2> SUFFICES ASSUME Inv, [Next]_<<part, anchorVars, validatorVars, proofVars>>,
                      part' = "anchors"
               PROVE  HeldInv'
    OBVIOUS
  <2>1. part = "anchors" /\ [Anchors!Next]_anchorVars
    BY DEF Next
  <2>2. QED
    BY <2>1, HeldStep
<1>3. Inv => AnchorsWereHeld
  BY DaysAreNumbers DEF HeldInv, HeldLong, AnchorsWereHeld, Anchors!AnchorsWereHeld
<1>4. QED
  BY <1>1, <1>2, <1>3, PTL DEF Spec

-----------------------------------------------------------------------------
(* A rollover is followed, as long as no state file was given up *)

PlainKeys == Anchors!Plain(Keys)

\* What the files have to say of the keys that were published until a day: every one of
\* them was seen on its first day, and is trusted as soon as it was held.
KeptAnchor(a, i, pub, root, d) ==
    /\ \/ a.state = "active" \/ a = Anchors!Absent
       \/ a.state = "pending" /\ a.first = pub[i] /\ a.until = pub[i] + Hold
    /\ i \in Anchors!Plain(Builtin) => a.state = "active"
    /\ i \in root /\ pub[i] <= d =>
          a # Anchors!Absent /\ (HeldLong(i, pub, d) => a.state = "active")
Kept(p, pub, root, d) == \A i \in PlainKeys : KeptAnchor(p[i], i, pub, root, d)

Saving(t) == pc[t] \in {"open", "write", "replace"}
\* The file that is read today was moved there today.
Moved == checked \/ \E t \in Threads :
    \/ pc[t] \in {"reload", "process", "check", "last"}
    \/ pc[t] = "write" /\ fd[t] # tmp
    \/ pc[t] = "replace" /\ tmp = None
Known(i) == file[json].whole => file[json].anchors[i].state = "active"

\* The operator keeps a key that every validator has had the time to trust.
OldKeyStays ==
    /\ \A i \in Anchors!Plain(Builtin) : published[i] \in Nat
    /\ \E i \in zone \cap PlainKeys : HeldLong(i, published, day - 1)
\* A file under one of the two names that is not whole has a writer.
WritersWrite ==
    /\ json \in Inodes /\ tmp # json
    /\ \A t \in Threads : pc[t] # "fill" /\ (pc[t] = "write" => fd[t] \in Inodes)
    /\ ~file[json].whole => \E t \in Threads : pc[t] = "write" /\ fd[t] = json
    /\ tmp # None /\ (\E t \in Threads : pc[t] \in {"write", "replace"}) /\ ~file[tmp].whole
         => \E t \in Threads : pc[t] = "write" /\ fd[t] = tmp
\* What is about to be saved knows today's keys, and the state file those of yesterday,
\* and today's as soon as it was replaced today.
FilesKept ==
    /\ \A t \in Threads : Saving(t) => Kept(payload[t], published, zone, day)
    /\ tmp # None /\ (\E t \in Threads : pc[t] \in {"write", "replace"}) /\ file[tmp].whole
         => Kept(file[tmp].anchors, published, zone, day)
    /\ file[json].whole => Kept(file[json].anchors, published, zone, day - 1)
    /\ file[json].whole /\ Moved => Kept(file[json].anchors, published, zone, day)
\* A key that is held is trusted the day after.  On that day the thread that brings it into
\* the state file reloads the anchors, as the file was another one before.
KeysTrusted ==
    /\ \A i \in zone \cap PlainKeys : HeldLong(i, published, day - 1) => i \in anchors
    /\ \A i \in zone \cap PlainKeys : HeldLong(i, published, day) =>
          /\ ~Known(i) => \A t \in Threads : Saving(t) => after[t] # "check"
          /\ Known(i) => i \in anchors \/ \E t \in Threads : pc[t] \in {"reload", "last"}

RollInv == OldKeyStays /\ WritersWrite /\ FilesKept /\ KeysTrusted

LEMMA PlainKeysAre ==
  PlainKeys \subseteq Idents /\ (\A i \in PlainKeys : i[2] = FALSE)
  /\ Anchors!Plain(Builtin) \subseteq PlainKeys
<1>1. PlainKeys \subseteq Idents
  BY PlainIsIdents DEF PlainKeys
<1>2. ASSUME NEW k \in Keys PROVE <<k, FALSE>>[2] = FALSE
  OBVIOUS
<1>3. QED
  BY <1>1, <1>2, KeysAssumption DEF PlainKeys, Anchors!Plain

LEMMA KeptEarlier ==
  ASSUME NEW p, NEW pub, NEW root, NEW d \in Nat, \A i \in root : pub[i] \in Nat,
         Kept(p, pub, root, d)
  PROVE  Kept(p, pub, root, d - 1)
<1>1. ASSUME NEW i \in PlainKeys PROVE KeptAnchor(p[i], i, pub, root, d - 1)
  BY DaysAreNumbers DEF Kept, KeptAnchor, HeldLong
<1>2. QED
  BY <1>1 DEF Kept

\* A held key is active.
LEMMA KeptHeld ==
  ASSUME NEW p, NEW pub, NEW root, NEW d \in Int, Kept(p, pub, root, d),
         NEW i \in root \cap PlainKeys, HeldLong(i, pub, d)
  PROVE  p[i].state = "active"
  BY DaysAreNumbers DEF Kept, KeptAnchor, HeldLong

LEMMA SetsTrust ==
  ASSUME NEW c, c.whole, NEW i \in Idents, c.anchors[i].state = "active"
  PROVE  i \in Anchors!Sets(c)
  BY DEF Anchors!Sets, Anchors!Loadable, Idents

LEMMA UpdatedIsKept ==
  ASSUME NEW p \in [Idents -> Anchors!Anchor], NEW pub, NEW root, NEW today \in Anchors!Days,
         \A i \in root : pub[i] \in 0..today, Kept(p, pub, root, today - 1)
  PROVE  Kept(Anchors!Updated(p, root, today), pub, root, today)
<1> DEFINE q == Anchors!Recorded(p, root, today)
           r == Anchors!Updated(p, root, today)
<1> SUFFICES ASSUME NEW i \in PlainKeys PROVE KeptAnchor(r[i], i, pub, root, today)
  BY DEF Kept
<1>1. i \in Idents /\ i[2] = FALSE /\ p[i] \in Anchors!Anchor
  BY PlainKeysAre
<1>2. KeptAnchor(p[i], i, pub, root, today - 1)
  BY DEF Kept
<1>3. q[i] = IF i \in root /\ p[i] = Anchors!Absent
             THEN [state |-> "pending", first |-> today, until |-> today + Hold] ELSE p[i]
  BY <1>1 DEF Anchors!Recorded, Anchors!NewAnchor, Idents
<1>4. r[i] = CASE q[i].state = "pending" /\ today >= q[i].until /\ i \in root ->
                    Anchors!Promote(q[i])
               [] q[i].state = "revoked" /\ today >= q[i].until -> Anchors!Retire(q[i], today)
               [] OTHER -> q[i]
  BY <1>1 DEF Anchors!Updated, Idents
<1>5. /\ q[i] \in Anchors!Anchor
      /\ \/ q[i].state = "active" \/ q[i] = Anchors!Absent
         \/ q[i].state = "pending" /\ q[i].first = pub[i] /\ q[i].until = pub[i] + Hold
      /\ i \in Anchors!Plain(Builtin) => q[i].state = "active"
      /\ i \in root => q[i] # Anchors!Absent
  <2>1. CASE i \in root /\ p[i] = Anchors!Absent
    <3>1. pub[i] \in 0..today /\ ~(pub[i] <= today - 1) /\ today \in 0..MaxDay
      BY <1>2, <2>1, DaysAreNumbers DEF KeptAnchor
    <3>2. pub[i] = today
      BY <3>1, DaysAreNumbers
    <3>3. q[i] = [state |-> "pending", first |-> today, until |-> today + Hold]
      BY <1>3, <2>1
    <3>4. ~(i \in Anchors!Plain(Builtin))
      BY <1>2, <2>1 DEF KeptAnchor, Anchors!Absent
    <3>5. today + Hold \in 0..(MaxDay + Hold + Remove)
      BY <3>1, DaysAreNumbers
    <3>6. QED
      BY <3>1, <3>2, <3>3, <3>4, <3>5, DaysAreNumbers DEF Anchors!Anchor, Anchors!Absent
  <2>2. CASE ~(i \in root /\ p[i] = Anchors!Absent)
    <3>1. q[i] = p[i]
      BY <1>3, <2>2
    <3>2. QED
      BY <1>1, <1>2, <2>2, <3>1 DEF KeptAnchor
  <2>3. QED
    BY <2>1, <2>2
<1> HIDE DEF q, r
<1>6. CASE q[i].state = "pending" /\ today >= q[i].until /\ i \in root
  <2>1. r[i].state = "active" /\ r[i] # Anchors!Absent
    BY <1>4, <1>5, <1>6, AnchorExcept DEF Anchors!Absent
  <2>2. QED
    BY <2>1 DEF KeptAnchor
<1>7. CASE ~(q[i].state = "pending" /\ today >= q[i].until /\ i \in root)
  <2>1. r[i] = q[i]
    BY <1>4, <1>5, <1>7 DEF Anchors!Absent
  <2>2. HeldLong(i, pub, today) /\ i \in root => q[i].state = "active"
    BY <1>5, <1>7, DaysAreNumbers DEF HeldLong
  <2>3. QED
    BY <1>5, <2>1, <2>2 DEF KeptAnchor
<1>8. QED
  BY <1>6, <1>7

LEMMA ProcessedIsKept ==
  ASSUME NEW p \in [Idents -> Anchors!Anchor], NEW pub, NEW root, NEW d, NEW today,
         Kept(p, pub, root, d)
  PROVE  Kept(Anchors!Processed(p, today), pub, root, d)
<1> DEFINE r == Anchors!Processed(p, today)
<1> SUFFICES ASSUME NEW i \in PlainKeys PROVE KeptAnchor(r[i], i, pub, root, d)
  BY DEF Kept
<1>1. i \in Idents /\ p[i] \in Anchors!Anchor
  BY PlainKeysAre
<1>2. KeptAnchor(p[i], i, pub, root, d)
  BY DEF Kept
<1>3. r[i] = CASE p[i].state = "revoked" /\ today >= p[i].until -> Anchors!Retire(p[i], today)
               [] p[i].state = "pending" /\ (today >= p[i].until \/ today >= p[i].first + Hold) ->
                    Anchors!Promote(p[i])
               [] p[i].state = "retired" /\ today >= p[i].until + Retention -> Anchors!Absent
               [] OTHER -> p[i]
  BY <1>1 DEF Anchors!Processed, Idents
<1> HIDE DEF r
<1>4. r[i] = p[i] \/ (p[i].state = "pending" /\ r[i] = Anchors!Promote(p[i]))
  BY <1>2, <1>3 DEF KeptAnchor, Anchors!Absent
<1>5. CASE r[i] = Anchors!Promote(p[i])
  <2>1. r[i].state = "active" /\ r[i] # Anchors!Absent
    BY <1>1, <1>5, AnchorExcept DEF Anchors!Absent
  <2>2. QED
    BY <1>2, <2>1 DEF KeptAnchor
<1>6. QED
  BY <1>2, <1>4, <1>5

LEMMA KeptTomorrow ==
  ASSUME NEW p \in [Idents -> Anchors!Anchor], NEW pub, NEW pubs, NEW root, NEW roots,
         NEW today \in Anchors!Days, Kept(p, pub, root, today),
         \A i \in Idents : pubs[i] = pub[i] \/ (pub[i] = None /\ pubs[i] = today + 1),
         \A i \in Anchors!Plain(Builtin) : pub[i] \in Nat,
         \A i \in roots \cap PlainKeys : i \in root \/ pubs[i] = today + 1
  PROVE  Kept(p, pubs, roots, today)
<1> SUFFICES ASSUME NEW i \in PlainKeys PROVE KeptAnchor(p[i], i, pubs, roots, today)
  BY DEF Kept
<1>1. i \in Idents /\ p[i] \in Anchors!Anchor /\ p[i].first \in Nat /\ today \in Nat
  BY PlainKeysAre, DaysAreNumbers DEF Anchors!Anchor
<1>2. KeptAnchor(p[i], i, pub, root, today)
  BY DEF Kept
<1>3. pubs[i] = pub[i] \/ (pub[i] = None /\ pubs[i] = today + 1)
  BY <1>1
<1>4. i \in roots => i \in root \/ pubs[i] = today + 1
  OBVIOUS
<1>5. QED
  BY <1>1, <1>2, <1>3, <1>4, DaysAreNumbers DEF KeptAnchor, HeldLong

LEMMA NamedFilesStay ==
  ASSUME NEW content, NEW j, NEW m, NEW f, NEW k \in Inodes, k \in {j, m}
  PROVE  Anchors!Drop(content, j, m, f)[k] = content[k]
  BY DEF Anchors!Drop, Anchors!Free

\* A thread goes on and the files stay as they are.
LEMMA RollFinish ==
  ASSUME HeldInv, RollInv, NEW t \in Threads, pc[t] \in {"replace", "process", "check"},
         NEW result, Anchors!Finish(t, result), Moved,
         UNCHANGED <<published, zone, day, file, json, tmp, fd, anchors>>
  PROVE  RollInv'
<1>1. /\ pc \in [Threads -> {"idle", "fill", "match", "update", "open", "write", "replace",
                             "reload", "process", "check", "last"}]
      /\ pc' = [pc EXCEPT ![t] = "idle"] /\ after' = [after EXCEPT ![t] = "reload"]
      /\ payload' = [payload EXCEPT ![t] = Anchors!Nothing]
      /\ after \in [Threads -> {"reload", "check", "last"}]
      /\ payload \in [Threads -> [Idents -> Anchors!Anchor]]
  BY DEF HeldInv, Anchors!TypeOK, Anchors!Finish, Threads, Idents
<1>2. \A u \in Threads : /\ pc'[u] = IF u = t THEN "idle" ELSE pc[u]
                         /\ u # t => after'[u] = after[u] /\ payload'[u] = payload[u]
  BY <1>1
<1>3. OldKeyStays' /\ WritersWrite'
  BY <1>2 DEF RollInv, OldKeyStays, WritersWrite
<1>4. FilesKept'
  BY <1>2 DEF RollInv, FilesKept, Saving
<1>5. KeysTrusted'
  BY <1>2 DEF RollInv, KeysTrusted, Saving, Known
<1>6. QED
  BY <1>3, <1>4, <1>5 DEF RollInv

LEMMA RollLook ==
  ASSUME HeldInv, RollInv, NEW t \in Threads, pc[t] \in {"idle", "match"},
         NEW place \in {"match", "update"}, Anchors!Goto(t, place),
         UNCHANGED <<published, zone, day, file, json, tmp, fd, anchors, payload, after, checked>>
  PROVE  RollInv'
<1>1. pc' = [pc EXCEPT ![t] = place]
      /\ pc \in [Threads -> {"idle", "fill", "match", "update", "open", "write", "replace",
                             "reload", "process", "check", "last"}]
  BY DEF HeldInv, Anchors!TypeOK, Anchors!Goto, Threads
<1>2. \A u \in Threads : pc'[u] = IF u = t THEN place ELSE pc[u]
  BY <1>1
<1>3. OldKeyStays' /\ WritersWrite'
  BY <1>2 DEF RollInv, OldKeyStays, WritersWrite
<1>4. Moved' => Moved
  BY <1>2 DEF Moved
<1>5. FilesKept'
  BY <1>2, <1>4 DEF RollInv, FilesKept, Saving
<1>6. KeysTrusted'
  BY <1>2 DEF RollInv, KeysTrusted, Saving, Known
<1>7. QED
  BY <1>3, <1>5, <1>6 DEF RollInv

LEMMA RollUpdate ==
  ASSUME HeldInv, RollInv, NEW t \in Threads, Anchors!Update(t) PROVE RollInv'
<1> DEFINE p == file[json].anchors
           q == Anchors!Updated(p, zone, day)
<1>1. /\ pc[t] = "update" /\ file[json].whole /\ json \in Inodes
      /\ payload' = [payload EXCEPT ![t] = q] /\ pc' = [pc EXCEPT ![t] = "open"]
      /\ after'[t] = "check" => q = p
      /\ \A u \in Threads : u # t => after'[u] = after[u]
      /\ UNCHANGED <<published, zone, day, file, json, tmp, fd, anchors, checked>>
  <2>1. json \in Inodes /\ Anchors!Content0 = file[json]
    BY InodesAssumption DEF RollInv, WritersWrite, Anchors!Content0
  <2>2. PICK sameSecond \in BOOLEAN :
          after' = [after EXCEPT ![t] = IF sameSecond /\ payload'[t] = p THEN "check" ELSE "reload"]
    BY <2>1 DEF Anchors!Update
  <2>3. after \in [Threads -> {"reload", "check", "last"}]
        /\ payload \in [Threads -> [Idents -> Anchors!Anchor]]
    BY DEF HeldInv, Anchors!TypeOK, Threads, Idents
  <2>4. payload' = [payload EXCEPT ![t] = q] /\ payload'[t] = q
    BY <2>1, <2>3 DEF Anchors!Update
  <2>5. after'[t] = "check" => q = p
    BY <2>2, <2>3, <2>4
  <2>6. QED
    BY <2>1, <2>2, <2>3, <2>4, <2>5
       DEF Anchors!Update, Anchors!Goto, Anchors!world, Anchors!files
<1>2. /\ pc \in [Threads -> {"idle", "fill", "match", "update", "open", "write", "replace",
                             "reload", "process", "check", "last"}]
      /\ payload \in [Threads -> [Idents -> Anchors!Anchor]]
      /\ p \in [Idents -> Anchors!Anchor] /\ day \in Anchors!Days
      /\ \A i \in zone : published[i] \in 0..day
  BY <1>1 DEF HeldInv, Anchors!TypeOK, Threads, Honest
<1>3. Kept(p, published, zone, day - 1)
  BY <1>1 DEF RollInv, FilesKept
<1>4. Kept(q, published, zone, day)
  BY <1>2, <1>3, UpdatedIsKept
<1> HIDE DEF p, q
<1>5. \A u \in Threads : /\ pc'[u] = IF u = t THEN "open" ELSE pc[u]
                         /\ payload'[u] = IF u = t THEN q ELSE payload[u]
  BY <1>1, <1>2
<1>6. OldKeyStays' /\ WritersWrite'
  BY <1>1, <1>5 DEF RollInv, OldKeyStays, WritersWrite
<1>7. Moved' => Moved
  BY <1>1, <1>5 DEF Moved
<1>8. FilesKept'
  BY <1>1, <1>4, <1>5, <1>7 DEF RollInv, FilesKept, Saving
<1>9. KeysTrusted'
  <2>1. ASSUME NEW i \in zone \cap PlainKeys, HeldLong(i, published, day), ~Known(i)
        PROVE  after'[t] # "check"
    <3>1. q[i].state = "active" /\ p[i].state # "active"
      BY <1>2, <1>4, <2>1, KeptHeld, DaysAreNumbers DEF Known, p
    <3>2. QED
      BY <1>1, <3>1
  <2>2. \A i : Known(i)' <=> Known(i)
    BY <1>1 DEF Known
  <2>3. QED
    BY <1>1, <1>5, <2>1, <2>2 DEF RollInv, KeysTrusted, Saving
<1>10. QED
  BY <1>6, <1>8, <1>9 DEF RollInv

LEMMA RollProcess ==
  ASSUME HeldInv, RollInv, NEW t \in Threads, Anchors!Process(t) PROVE RollInv'
<1> DEFINE p == file[json].anchors
           q == Anchors!Processed(p, day)
<1>1. /\ pc[t] \in {"process", "check"} /\ file[json].whole /\ json \in Inodes
      /\ payload' = [payload EXCEPT ![t] = q] /\ pc' = [pc EXCEPT ![t] = "open"]
      /\ after' = [after EXCEPT ![t] = IF pc[t] = "process" THEN "last" ELSE "reload"]
      /\ UNCHANGED <<published, zone, day, file, json, tmp, fd, anchors, checked>>
  <2>1. json \in Inodes /\ Anchors!Content0 = file[json]
    BY InodesAssumption DEF RollInv, WritersWrite, Anchors!Content0
  <2>2. QED
    BY <2>1 DEF Anchors!Process, Anchors!Goto, Anchors!world, Anchors!files
<1>2. /\ pc \in [Threads -> {"idle", "fill", "match", "update", "open", "write", "replace",
                             "reload", "process", "check", "last"}]
      /\ payload \in [Threads -> [Idents -> Anchors!Anchor]]
      /\ after \in [Threads -> {"reload", "check", "last"}]
      /\ p \in [Idents -> Anchors!Anchor]
  BY <1>1 DEF HeldInv, Anchors!TypeOK, Threads, Idents, Honest
<1>3. Kept(p, published, zone, day)
  BY <1>1 DEF RollInv, FilesKept, Moved
<1>4. Kept(q, published, zone, day)
  BY <1>2, <1>3, ProcessedIsKept
<1> HIDE DEF p, q
<1>5. \A u \in Threads : /\ pc'[u] = IF u = t THEN "open" ELSE pc[u]
                         /\ payload'[u] = IF u = t THEN q ELSE payload[u]
                         /\ IF u = t THEN after'[u] # "check" ELSE after'[u] = after[u]
  BY <1>1, <1>2
<1>6. OldKeyStays' /\ WritersWrite'
  BY <1>1, <1>5 DEF RollInv, OldKeyStays, WritersWrite
<1>7. Moved' => Moved
  BY <1>1, <1>5 DEF Moved
<1>8. FilesKept'
  BY <1>1, <1>4, <1>5, <1>7 DEF RollInv, FilesKept, Saving
<1>9. KeysTrusted'
  <2>1. \A i : Known(i)' <=> Known(i)
    BY <1>1 DEF Known
  <2>2. ASSUME NEW u \in Threads, Saving(u)', after'[u] = "check"
        PROVE  Saving(u) /\ after[u] = "check"
    BY <1>1, <1>5, <2>2 DEF Saving
  <2>3. (\E u \in Threads : pc[u] \in {"reload", "last"})
          => \E u \in Threads : pc'[u] \in {"reload", "last"}
    BY <1>1, <1>5
  <2>4. QED
    BY <1>1, <2>1, <2>2, <2>3 DEF RollInv, KeysTrusted
<1>10. QED
  BY <1>6, <1>8, <1>9 DEF RollInv

LEMMA RollOpen ==
  ASSUME HeldInv, RollInv, NEW t \in Threads, Anchors!OpenTmp(t) PROVE RollInv'
<1>1. PICK k : /\ k = (IF tmp = None THEN Anchors!AnyFree(json, None, fd) ELSE tmp)
               /\ tmp' = k /\ fd' = [fd EXCEPT ![t] = k]
               /\ file' = [file EXCEPT ![k] = Anchors!Unwritten]
  BY DEF Anchors!OpenTmp
<1>2. /\ pc[t] = "open" /\ pc' = [pc EXCEPT ![t] = "write"]
      /\ UNCHANGED <<published, zone, day, json, anchors, after, payload, checked>>
  BY DEF Anchors!OpenTmp, Anchors!Goto, Anchors!world
<1>3. /\ pc \in [Threads -> {"idle", "fill", "match", "update", "open", "write", "replace",
                             "reload", "process", "check", "last"}]
      /\ fd \in [Threads -> Inodes \cup {None}] /\ file \in [Inodes -> Anchors!Content]
      /\ tmp \in Inodes \cup {None} /\ json \in Inodes /\ tmp # json
  BY DEF HeldInv, Anchors!TypeOK, Threads, RollInv, WritersWrite
<1>4. k \in Inodes /\ k # json /\ (tmp # None => k = tmp)
  BY <1>1, <1>3, FreeIs
<1>5. file'[json] = file[json] /\ ~file'[k].whole
  BY <1>1, <1>3, <1>4, UnwrittenIs
<1>6. \A u \in Threads : /\ pc'[u] = IF u = t THEN "write" ELSE pc[u]
                         /\ fd'[u] = IF u = t THEN k ELSE fd[u]
  BY <1>1, <1>2, <1>3
<1>7. OldKeyStays' /\ WritersWrite'
  BY <1>1, <1>2, <1>3, <1>4, <1>5, <1>6 DEF RollInv, OldKeyStays, WritersWrite
<1>8. Moved' => Moved
  BY <1>1, <1>2, <1>4, <1>6, InodesAssumption DEF Moved, RollInv, WritersWrite
<1>9. FilesKept'
  BY <1>1, <1>2, <1>5, <1>6, <1>8 DEF RollInv, FilesKept, Saving
<1>10. KeysTrusted'
  BY <1>2, <1>5, <1>6 DEF RollInv, KeysTrusted, Saving, Known
<1>11. QED
  BY <1>7, <1>9, <1>10 DEF RollInv

LEMMA RollWrite ==
  ASSUME HeldInv, RollInv, NEW t \in Threads, Anchors!WriteTmp(t) PROVE RollInv'
<1> DEFINE content == [file EXCEPT ![fd[t]] = Anchors!Written(payload[t])]
<1>1. /\ pc[t] = "write" /\ pc' = [pc EXCEPT ![t] = "replace"]
      /\ fd' = [fd EXCEPT ![t] = None] /\ file' = Anchors!Drop(content, json, tmp, fd')
      /\ UNCHANGED <<published, zone, day, json, tmp, anchors, after, payload, checked>>
  BY DEF Anchors!WriteTmp, Anchors!Goto, Anchors!world
<1>2. /\ pc \in [Threads -> {"idle", "fill", "match", "update", "open", "write", "replace",
                             "reload", "process", "check", "last"}]
      /\ fd \in [Threads -> Inodes \cup {None}] /\ file \in [Inodes -> Anchors!Content]
      /\ tmp \in Inodes \cup {None} /\ json \in Inodes /\ tmp # json /\ fd[t] \in Inodes
      /\ day \in Nat /\ \A i \in zone : published[i] \in Nat
  BY <1>1, DaysAreNumbers DEF HeldInv, Anchors!TypeOK, Threads, RollInv, WritersWrite
<1>3. \A k \in {json, tmp} \cap Inodes :
        file'[k] = IF k = fd[t] THEN Anchors!Written(payload[t]) ELSE file[k]
  <2> SUFFICES ASSUME NEW k \in {json, tmp} \cap Inodes
               PROVE  file'[k] = IF k = fd[t] THEN Anchors!Written(payload[t]) ELSE file[k]
    OBVIOUS
  <2>1. content[k] = IF k = fd[t] THEN Anchors!Written(payload[t]) ELSE file[k]
    BY <1>2
  <2> HIDE DEF content
  <2>2. file'[k] = content[k]
    BY <1>1, NamedFilesStay
  <2>3. QED
    BY <2>1, <2>2
<1>4. Anchors!Written(payload[t]).whole /\ Anchors!Written(payload[t]).anchors = payload[t]
  BY DEF Anchors!Written
<1>5. Kept(payload[t], published, zone, day) /\ Kept(payload[t], published, zone, day - 1)
  <2>1. Kept(payload[t], published, zone, day)
    BY <1>1 DEF RollInv, FilesKept, Saving
  <2>2. QED
    BY <1>2, <2>1, KeptEarlier
<1> HIDE DEF content
<1>6. \A u \in Threads : /\ pc'[u] = IF u = t THEN "replace" ELSE pc[u]
                         /\ fd'[u] = IF u = t THEN None ELSE fd[u]
  BY <1>1, <1>2
<1>7. OldKeyStays' /\ WritersWrite'
  <2>1. OldKeyStays'
    BY <1>1 DEF RollInv, OldKeyStays
  <2>2. \A u \in Threads : pc'[u] # "fill" /\ (pc'[u] = "write" => fd'[u] \in Inodes)
    BY <1>6 DEF RollInv, WritersWrite
  <2>3. ASSUME NEW k \in {json, tmp} \cap Inodes, ~file'[k].whole,
               \E u \in Threads : pc[u] = "write" /\ fd[u] = k
        PROVE  \E u \in Threads : pc'[u] = "write" /\ fd'[u] = k
    <3>1. k # fd[t]
      BY <1>3, <1>4, <2>3
    <3>2. QED
      BY <1>6, <2>3, <3>1
  <2>4. ~file'[json].whole => \E u \in Threads : pc'[u] = "write" /\ fd'[u] = json
    <3>1. ~file'[json].whole => ~file[json].whole
      BY <1>2, <1>3, <1>4
    <3>2. QED
      BY <1>2, <2>3, <3>1 DEF RollInv, WritersWrite
  <2>5. ASSUME tmp # None, ~file'[tmp].whole
        PROVE  \E u \in Threads : pc'[u] = "write" /\ fd'[u] = tmp
    <3>1. tmp \in Inodes /\ ~file[tmp].whole
      BY <1>2, <1>3, <1>4, <2>5
    <3>2. QED
      BY <1>1, <2>3, <2>5, <3>1 DEF RollInv, WritersWrite
  <2>6. QED
    BY <1>1, <1>2, <2>1, <2>2, <2>4, <2>5 DEF WritersWrite
<1>8. Moved' => Moved
  BY <1>1, <1>2, <1>6, InodesAssumption DEF Moved
<1>9. FilesKept'
  BY <1>1, <1>2, <1>3, <1>4, <1>5, <1>6, <1>8 DEF RollInv, FilesKept, Saving
<1>10. KeysTrusted'
  <2>1. CASE fd[t] = json
    <3>1. Moved
      BY <1>1, <1>2, <2>1 DEF Moved
    <3>2. ASSUME NEW i \in zone \cap PlainKeys, HeldLong(i, published, day)
          PROVE  Known(i) /\ Known(i)'
      <4>1. Known(i)
        BY <1>2, <3>1, <3>2, KeptHeld DEF Known, RollInv, FilesKept
      <4>2. file'[json] = Anchors!Written(payload[t])
        BY <1>2, <1>3, <2>1
      <4>3. payload[t][i].state = "active"
        BY <1>2, <1>5, <3>2, KeptHeld
      <4>4. QED
        BY <1>1, <1>4, <4>1, <4>2, <4>3 DEF Known
    <3>3. QED
      BY <1>1, <1>6, <3>2 DEF RollInv, KeysTrusted
  <2>2. CASE fd[t] # json
    <3>1. file'[json] = file[json]
      BY <1>2, <1>3, <2>2
    <3>2. QED
      BY <1>1, <1>6, <3>1 DEF RollInv, KeysTrusted, Saving, Known
  <2>3. QED
    BY <2>1, <2>2
<1>11. QED
  BY <1>7, <1>9, <1>10 DEF RollInv

LEMMA RollReplace ==
  ASSUME HeldInv, RollInv, NEW t \in Threads, Anchors!Replace(t) PROVE RollInv'
<1>1. /\ pc[t] = "replace" /\ tmp # None /\ json' = tmp /\ tmp' = None
      /\ file' = Anchors!Drop(file, tmp, None, fd) /\ pc' = [pc EXCEPT ![t] = after[t]]
      /\ payload' = [payload EXCEPT ![t] = Anchors!Nothing]
      /\ UNCHANGED <<published, zone, day, fd, anchors, after, checked>>
  BY DEF Anchors!Replace, Anchors!Goto, Anchors!world
<1>2. /\ pc \in [Threads -> {"idle", "fill", "match", "update", "open", "write", "replace",
                             "reload", "process", "check", "last"}]
      /\ after[t] \in {"reload", "check", "last"}
      /\ payload \in [Threads -> [Idents -> Anchors!Anchor]]
      /\ tmp \in Inodes /\ day \in Nat
      /\ \A i \in zone : published[i] \in Nat
  BY <1>1, DaysAreNumbers DEF HeldInv, Anchors!TypeOK, Threads, Idents
<1>3. json' \in Inodes /\ file'[json'] = file[tmp]
  BY <1>1, <1>2, NamedFilesStay
<1>4. \A u \in Threads : /\ pc'[u] = IF u = t THEN after[t] ELSE pc[u]
                         /\ u # t => payload'[u] = payload[u]
  BY <1>1, <1>2
<1>5. OldKeyStays' /\ WritersWrite'
  BY <1>1, <1>2, <1>3, <1>4, InodesAssumption DEF RollInv, OldKeyStays, WritersWrite
<1>6. file[tmp].whole => /\ Kept(file[tmp].anchors, published, zone, day)
                         /\ Kept(file[tmp].anchors, published, zone, day - 1)
  BY <1>1, <1>2, KeptEarlier DEF RollInv, FilesKept
<1>7. FilesKept'
  BY <1>1, <1>2, <1>3, <1>4, <1>6 DEF RollInv, FilesKept, Saving
<1>8. KeysTrusted'
  <2>1. ASSUME NEW i \in zone \cap PlainKeys, HeldLong(i, published, day)
        PROVE  /\ Known(i)'
               /\ i \in anchors' \/ \E u \in Threads : pc'[u] \in {"reload", "last"}
    <3>1. Known(i)'
      BY <1>2, <1>3, <1>6, <2>1, KeptHeld DEF Known
    <3>2. CASE Known(i)
      <4>1. i \in anchors \/ \E u \in Threads : pc[u] \in {"reload", "last"}
        BY <2>1, <3>2 DEF RollInv, KeysTrusted
      <4>2. ASSUME NEW u \in Threads, pc[u] \in {"reload", "last"}
            PROVE  pc'[u] \in {"reload", "last"}
        BY <1>1, <1>4, <4>2
      <4>3. QED
        BY <1>1, <3>1, <4>1, <4>2
    <3>3. CASE ~Known(i)
      <4>1. after[t] # "check"
        BY <1>1, <2>1, <3>3 DEF RollInv, KeysTrusted, Saving
      <4>2. pc'[t] \in {"reload", "last"}
        BY <1>2, <1>4, <4>1
      <4>3. QED
        BY <3>1, <4>2
    <3>4. QED
      BY <3>1, <3>2, <3>3
  <2>2. QED
    BY <1>1, <2>1 DEF RollInv, KeysTrusted
<1>9. QED
  BY <1>5, <1>7, <1>8 DEF RollInv

LEMMA RollLoad ==
  ASSUME HeldInv, RollInv, NEW t \in Threads, Anchors!Load(t), ~torn' PROVE RollInv'
<1>1. json \in Inodes /\ Anchors!Content0 = file[json]
  BY InodesAssumption DEF RollInv, WritersWrite, Anchors!Content0
<1>2. /\ pc[t] \in {"reload", "last"} /\ file[json].whole /\ anchors' = Anchors!Sets(file[json])
      /\ UNCHANGED <<published, zone, day, file, json, tmp, fd>>
  BY <1>1, InodesAssumption DEF Anchors!Load, Anchors!Backup, Anchors!world, Anchors!files
<1>3. Moved /\ Kept(file[json].anchors, published, zone, day)
  BY <1>2 DEF Moved, RollInv, FilesKept
<1>4. /\ \A u \in Threads : /\ pc'[u] = pc[u] \/ (u = t /\ pc'[u] \in {"idle", "process"})
                            /\ u # t => after'[u] = after[u] /\ payload'[u] = payload[u]
      /\ pc'[t] \in {"idle", "process"}
  <2>1. /\ pc \in [Threads -> {"idle", "fill", "match", "update", "open", "write", "replace",
                             "reload", "process", "check", "last"}]
        /\ after \in [Threads -> {"reload", "check", "last"}]
        /\ payload \in [Threads -> [Idents -> Anchors!Anchor]]
    BY DEF HeldInv, Anchors!TypeOK, Threads, Idents
  <2>2. CASE Anchors!Finish(t, "keys")
    BY <2>1, <2>2 DEF Anchors!Finish
  <2>3. CASE Anchors!Goto(t, "process") /\ UNCHANGED <<after, payload, outcome, checked>>
    BY <2>1, <2>3 DEF Anchors!Goto
  <2>4. QED
    BY <2>2, <2>3 DEF Anchors!Load
<1>5. OldKeyStays' /\ WritersWrite'
  BY <1>2, <1>4 DEF RollInv, OldKeyStays, WritersWrite
<1>6. FilesKept'
  BY <1>2, <1>3, <1>4 DEF RollInv, FilesKept, Saving
<1>7. KeysTrusted'
  <2>1. day \in Nat /\ \A i \in zone : published[i] \in Nat
    BY DaysAreNumbers DEF HeldInv, Anchors!TypeOK
  <2>2. ASSUME NEW i \in zone \cap PlainKeys,
               HeldLong(i, published, day) \/ HeldLong(i, published, day - 1)
        PROVE  i \in anchors'
    <3>1. HeldLong(i, published, day)
      BY <2>1, <2>2, DaysAreNumbers DEF HeldLong
    <3>2. file[json].anchors[i].state = "active" /\ i \in Idents
      BY <1>3, <2>1, <3>1, KeptHeld, PlainKeysAre
    <3>3. QED
      BY <1>2, <3>2, SetsTrust
  <2>3. QED
    BY <1>2, <1>4, <2>2 DEF RollInv, KeysTrusted, Saving, Known
<1>8. QED
  BY <1>5, <1>6, <1>7 DEF RollInv

LEMMA RollThread ==
  ASSUME HeldInv, RollInv, NEW t \in Threads, Anchors!Validate(t), ~torn' PROVE RollInv'
<1>1. json \in Inodes /\ Anchors!Content0 = file[json]
  BY InodesAssumption DEF RollInv, WritersWrite, Anchors!Content0
<1>2. CASE Anchors!Ensure(t)
  BY <1>2, RollLook DEF Anchors!Ensure, Anchors!Begins, Anchors!world, Anchors!files
<1>3. ~Anchors!Recreate(t) /\ ~Anchors!UpdateSkipped(t)
  BY DEF Anchors!Recreate, Anchors!UpdateSkipped, Anchors!Backup
<1>4. ~Anchors!Fill(t)
  BY DEF Anchors!Fill, RollInv, WritersWrite
<1>5. CASE Anchors!Matches(t)
  BY <1>5, RollLook DEF Anchors!Matches, Anchors!world, Anchors!files
<1>6. ~Anchors!NoMatch(t)
  BY DEF Anchors!NoMatch, RollInv, OldKeyStays, KeysTrusted
<1>7. CASE Anchors!ReplaceFails(t)
  <2>1. Moved
    BY <1>7 DEF Moved, Anchors!ReplaceFails
  <2>2. QED
    BY <1>7, <2>1, RollFinish DEF Anchors!ReplaceFails, Anchors!world, Anchors!files
<1>8. CASE Anchors!NothingToProcess(t)
  <2>1. Moved
    BY <1>8 DEF Moved, Anchors!NothingToProcess
  <2>2. QED
    BY <1>8, <2>1, RollFinish DEF Anchors!NothingToProcess, Anchors!world, Anchors!files
<1>9. QED
  BY <1>2, <1>3, <1>4, <1>5, <1>6, <1>7, <1>8, RollUpdate, RollOpen, RollWrite, RollReplace,
     RollLoad, RollProcess
     DEF Anchors!Validate

LEMMA RollRestart ==
  ASSUME HeldInv, RollInv, Anchors!Restart, ~torn' PROVE RollInv'
<1> DEFINE p == file[json].anchors
           q == Anchors!Processed(p, day)
           nobody == [t \in Threads |-> None]
           content == [file EXCEPT ![json] = Anchors!Written(q)]
<1>1. json \in Inodes /\ Anchors!Content0 = file[json] /\ tmp # json
  BY InodesAssumption DEF RollInv, WritersWrite, Anchors!Content0
<1>2. /\ file[json].whole /\ json' = json /\ fd' = nobody
      /\ file' = Anchors!Drop(content, json, tmp, nobody) /\ anchors' = Anchors!Sets(file'[json])
      /\ pc' = [t \in Threads |-> "idle"]
      /\ UNCHANGED <<published, zone, day, tmp, checked>>
  BY <1>1, InodesAssumption DEF Anchors!Restart, Threads
<1>3. /\ file \in [Inodes -> Anchors!Content] /\ p \in [Idents -> Anchors!Anchor] /\ day \in Nat
      /\ \A i \in zone : published[i] \in Nat
  BY <1>1, DaysAreNumbers DEF HeldInv, Anchors!TypeOK, Honest
<1>4. file'[json] = Anchors!Written(q)
  <2>1. content[json] = Anchors!Written(q)
    BY <1>1, <1>3
  <2> HIDE DEF content, nobody
  <2>2. QED
    BY <1>1, <1>2, <2>1, NamedFilesStay
<1>5. Anchors!Written(q).whole /\ Anchors!Written(q).anchors = q
  BY DEF Anchors!Written
<1>6. Kept(p, published, zone, day - 1) /\ (checked => Kept(p, published, zone, day))
  BY <1>2 DEF RollInv, FilesKept, Moved
<1>7. Kept(q, published, zone, day - 1) /\ (checked => Kept(q, published, zone, day))
  BY <1>3, <1>6, ProcessedIsKept
<1> HIDE DEF p, q, content
<1>8. \A t \in Threads : pc'[t] = "idle"
  BY <1>2
<1>9. OldKeyStays' /\ WritersWrite'
  BY <1>1, <1>2, <1>4, <1>5, <1>8 DEF RollInv, OldKeyStays, WritersWrite
<1>10. Moved' => checked
  BY <1>2, <1>8 DEF Moved
<1>11. FilesKept'
  BY <1>2, <1>4, <1>5, <1>7, <1>8, <1>10 DEF FilesKept, Saving
<1>12. KeysTrusted'
  <2>1. ASSUME NEW i \in zone \cap PlainKeys, q[i].state = "active" PROVE i \in anchors'
    BY <1>2, <1>4, <1>5, <2>1, SetsTrust, PlainKeysAre
  <2>2. ASSUME NEW i \in zone \cap PlainKeys, HeldLong(i, published, day - 1)
        PROVE  i \in anchors'
    BY <1>3, <1>7, <2>1, <2>2, KeptHeld
  <2>3. ASSUME NEW i \in zone \cap PlainKeys, Known(i)' PROVE i \in anchors'
    BY <1>2, <1>4, <1>5, <2>1, <2>3 DEF Known
  <2>4. QED
    BY <1>2, <1>8, <2>2, <2>3 DEF KeysTrusted, Saving
<1>13. QED
  BY <1>9, <1>11, <1>12 DEF RollInv

\* The operator may do as it likes, as long as it leaves a key that was held.
LEMMA RollDay ==
  ASSUME HeldInv, RollInv, NEW newZone \in SUBSET Idents, Anchors!NextDay(newZone),
         \E i \in newZone \cap PlainKeys : HeldLong(i, published, day),
         \A i \in newZone \cap PlainKeys : i \in zone \/ published[i] = None
  PROVE  RollInv'
<1>1. /\ checked /\ (\A t \in Threads : pc[t] = "idle") /\ day' = day + 1 /\ zone' = newZone
      /\ published' = [i \in Idents |-> IF i \in newZone /\ published[i] = None
                                        THEN day + 1 ELSE published[i]]
      /\ checked' = FALSE
      /\ UNCHANGED <<file, json, tmp, fd, anchors, pc, after, payload>>
  BY DEF Anchors!NextDay, Anchors!files, Threads, Idents
<1>2. /\ day \in Anchors!Days /\ day \in Nat
      /\ \A i \in Idents : published[i] \in Nat \cup {None}
      /\ \A i \in zone : published[i] \in Nat
      /\ json \in Inodes /\ file[json].anchors \in [Idents -> Anchors!Anchor]
  BY DaysAreNumbers DEF HeldInv, Anchors!TypeOK, Honest, RollInv, WritersWrite
<1>3. \A i \in Idents : /\ published'[i] = published[i]
                           \/ (published[i] = None /\ published'[i] = day + 1)
                        /\ i \in newZone /\ published[i] = None => published'[i] = day + 1
  BY <1>1
<1>4. \A i \in Anchors!Plain(Builtin) : i \in Idents /\ published[i] \in Nat
  BY PlainKeysAre DEF RollInv, OldKeyStays
<1>5. file[json].whole /\ Kept(file[json].anchors, published, zone, day)
  BY <1>1 DEF RollInv, WritersWrite, FilesKept, Moved
<1>6. Kept(file[json].anchors, published', zone', day)
  <2>1. \A i \in zone' \cap PlainKeys : i \in zone \/ published'[i] = day + 1
    BY <1>1, <1>3, PlainKeysAre
  <2>2. QED
    BY <1>2, <1>3, <1>4, <1>5, <2>1, KeptTomorrow
<1>7. ASSUME NEW i \in newZone \cap PlainKeys
      PROVE  HeldLong(i, published', day) <=> HeldLong(i, published, day)
  BY <1>2, <1>3, PlainKeysAre, DaysAreNumbers DEF HeldLong
<1>8. day' - 1 = day
  BY <1>1, <1>2
<1>9. OldKeyStays'
  <2>1. \A i \in Anchors!Plain(Builtin) : published'[i] \in Nat
    BY <1>2, <1>3, <1>4
  <2>2. QED
    BY <1>1, <1>7, <1>8, <2>1 DEF OldKeyStays, HeldLong
<1>10. WritersWrite'
  BY <1>1 DEF RollInv, WritersWrite
<1>11. ~Moved'
  BY <1>1 DEF Moved
<1>12. FilesKept'
  BY <1>1, <1>6, <1>8, <1>11 DEF FilesKept, Saving
<1>13. KeysTrusted'
  <2>1. ASSUME NEW i \in zone \cap PlainKeys, file[json].anchors[i].state = "active"
        PROVE  i \in anchors
    <3>1. HeldLong(i, published, day)
      BY <1>2, <2>1, PlainKeysAre DEF HeldInv, Honest, HonestAnchor
    <3>2. QED
      BY <1>1, <2>1, <3>1 DEF RollInv, KeysTrusted, Known
  <2>2. ASSUME NEW i \in newZone \cap PlainKeys, HeldLong(i, published, day)
        PROVE  i \in anchors
    <3>1. i \in zone
      BY <1>2, <1>4, <2>2, DaysAreNumbers DEF HeldLong
    <3>2. QED
      BY <1>2, <1>5, <2>1, <2>2, <3>1, KeptHeld
  <2>3. ASSUME NEW i \in newZone \cap PlainKeys, file[json].anchors[i].state = "active"
        PROVE  i \in anchors
    <3>1. HeldLong(i, published, day)
      BY <1>2, <2>3, PlainKeysAre DEF HeldInv, Honest, HonestAnchor
    <3>2. QED
      BY <2>2, <3>1
  <2>4. \A i : Known(i)' => file[json].anchors[i].state = "active"
    BY <1>1, <1>5 DEF Known
  <2>5. QED
    BY <1>1, <1>7, <1>8, <2>2, <2>3, <2>4 DEF KeysTrusted, Saving
<1>14. QED
  BY <1>9, <1>10, <1>12, <1>13 DEF RollInv

LEMMA RollOperator ==
  ASSUME HeldInv, RollInv, Anchors!Operator PROVE RollInv'
<1>1. /\ zone \subseteq Idents /\ \A k \in Keys : <<k, FALSE>> \in Idents /\ <<k, TRUE>> \in Idents
      /\ \A k \in Keys : <<k, FALSE>> \in PlainKeys /\ <<k, TRUE>> \notin PlainKeys
  BY IdentsAre, PlainKeysAre DEF HeldInv, Anchors!TypeOK, Idents, PlainKeys, Anchors!Plain
<1>2. PICK old \in zone \cap PlainKeys : HeldLong(old, published, day - 1)
  BY DEF RollInv, OldKeyStays
<1>3. HeldLong(old, published, day)
  BY <1>2, DaysAreNumbers DEF HeldLong, HeldInv, Anchors!TypeOK
<1>4. CASE Anchors!Quiet
  BY <1>1, <1>2, <1>3, <1>4, RollDay DEF Anchors!Quiet
<1>5. ASSUME NEW k \in Keys, Anchors!Publish(k) PROVE RollInv'
  <2> DEFINE newZone == zone \cup {<<k, FALSE>>}
  <2>1. /\ newZone \in SUBSET Idents /\ Anchors!NextDay(newZone) /\ old \in newZone \cap PlainKeys
        /\ \A i \in newZone \cap PlainKeys : i \in zone \/ published[i] = None
    BY <1>1, <1>2, <1>5 DEF Anchors!Publish
  <2> HIDE DEF newZone
  <2>2. QED
    BY <1>3, <2>1, RollDay
<1>6. ASSUME NEW k \in Keys, Anchors!Revoke(k) PROVE RollInv'
  <2> DEFINE newZone == (zone \ {<<k, FALSE>>}) \cup {<<k, TRUE>>}
  <2>1. PICK n \in Keys \ {k} : <<n, FALSE>> \in zone /\ day >= published[<<n, FALSE>>] + Hold
    BY <1>6 DEF Anchors!Revoke
  <2>2. <<n, FALSE>> \in newZone \cap PlainKeys
    BY <1>1, <2>1
  <2>3. HeldLong(<<n, FALSE>>, published, day)
    BY <2>1, DaysAreNumbers DEF HeldInv, Anchors!TypeOK, HeldLong
  <2>4. /\ newZone \in SUBSET Idents /\ Anchors!NextDay(newZone)
        /\ \A i \in newZone \cap PlainKeys : i \in zone
    BY <1>1, <1>6 DEF Anchors!Revoke
  <2> HIDE DEF newZone
  <2>5. QED
    BY <2>2, <2>3, <2>4, RollDay
<1>7. ASSUME NEW k \in Keys, Anchors!Withdraw(k) PROVE RollInv'
  <2> DEFINE newZone == zone \ {<<k, TRUE>>}
  <2>1. /\ newZone \in SUBSET Idents /\ Anchors!NextDay(newZone) /\ old \in newZone \cap PlainKeys
        /\ \A i \in newZone \cap PlainKeys : i \in zone
    BY <1>1, <1>2, <1>7 DEF Anchors!Withdraw
  <2> HIDE DEF newZone
  <2>2. QED
    BY <1>3, <2>1, RollDay
<1>8. QED
  BY <1>4, <1>5, <1>6, <1>7 DEF Anchors!Operator

LEMMA RollInit == Anchors!Init => RollInv
<1> SUFFICES ASSUME Anchors!Init PROVE RollInv
  OBVIOUS
<1>1. /\ zone = Anchors!Plain(Builtin) /\ day = 0 /\ json \in Inodes /\ tmp = None
      /\ published = [i \in Idents |-> IF i \in Anchors!Plain(Builtin) THEN 0 ELSE None]
      /\ file[json] = Anchors!Written(Anchors!Initial)
      /\ anchors = Anchors!Plain(Builtin) /\ checked = FALSE
      /\ \A t \in Threads : pc[t] = "idle"
  BY DEF Anchors!Init, Threads, Idents
<1>2. \A i \in Anchors!Plain(Builtin) : i \in Idents /\ i \in PlainKeys /\ published[i] = 0
  BY <1>1, PlainKeysAre
<1>3. OldKeyStays
  <2>1. \E i \in Anchors!Plain(Builtin) : TRUE
    BY KeysAssumption DEF Anchors!Plain
  <2>2. QED
    BY <1>1, <1>2, <2>1 DEF OldKeyStays, HeldLong
<1>4. WritersWrite
  BY <1>1, InodesAssumption DEF WritersWrite, Anchors!Written
<1>5. file[json].whole /\ file[json].anchors = Anchors!Initial
  BY <1>1 DEF Anchors!Written
<1>6. Kept(Anchors!Initial, published, zone, day - 1)
  <2>1. ASSUME NEW i \in PlainKeys
        PROVE  /\ i \in Idents
               /\ i \in Anchors!Plain(Builtin) => Anchors!Initial[i].state = "active"
               /\ i \notin Anchors!Plain(Builtin) => Anchors!Initial[i] = Anchors!Absent
    BY PlainKeysAre DEF Anchors!Initial, Anchors!Absent, Idents
  <2>2. Anchors!Absent.state # "active"
    BY DEF Anchors!Absent
  <2>3. QED
    BY <1>1, <2>1, <2>2 DEF Kept, KeptAnchor
<1>7. FilesKept
  BY <1>1, <1>5, <1>6 DEF FilesKept, Saving, Moved
<1>8. KeysTrusted
  BY <1>1 DEF KeysTrusted, Saving
<1>9. QED
  BY <1>3, <1>4, <1>7, <1>8 DEF RollInv

LEMMA RollStep ==
  HeldInv /\ (torn \/ RollInv) /\ [Anchors!Next]_anchorVars => torn' \/ RollInv'
<1> SUFFICES ASSUME HeldInv, torn \/ RollInv, [Anchors!Next]_anchorVars, ~torn' PROVE RollInv'
  OBVIOUS
<1>1. CASE UNCHANGED anchorVars
  BY <1>1 DEF anchorVars, RollInv, OldKeyStays, WritersWrite, FilesKept, KeysTrusted, Saving,
     Moved, Known
<1>2. CASE Anchors!Next
  <2>1. torn => torn'
    BY <1>2 DEF HeldInv, Anchors!TypeOK, Anchors!Next, Anchors!Restart, Anchors!Operator,
       Anchors!Quiet, Anchors!Publish, Anchors!Revoke, Anchors!Withdraw, Anchors!NextDay,
       Anchors!Validate, Anchors!Ensure, Anchors!Recreate, Anchors!Fill, Anchors!Matches,
       Anchors!NoMatch, Anchors!Update, Anchors!UpdateSkipped, Anchors!OpenTmp,
       Anchors!WriteTmp, Anchors!Replace, Anchors!ReplaceFails, Anchors!Load, Anchors!Process,
       Anchors!NothingToProcess, Anchors!Backup, Anchors!files
  <2>2. RollInv
    BY <2>1
  <2>3. QED
    BY <1>2, <2>2, RollRestart, RollOperator, RollThread DEF Anchors!Next, Threads
<1>3. QED
  BY <1>1, <1>2

\* As long as no state file was given up, a key that the root zone publishes is trusted,
\* whatever the operator of the zone rolls over, for any number of handlers that race for
\* the state file and any hold-down.
THEOREM RolloverFollows == Spec => []RolloverFollowed
<1> DEFINE Inv == part = "anchors" => HeldInv /\ (torn \/ RollInv)
<1>1. Init => Inv
  BY HeldInit, RollInit DEF Init
<1>2. Inv /\ [Next]_<<part, anchorVars, validatorVars, proofVars>> => Inv'
  <2> SUFFICES ASSUME Inv, [Next]_<<part, anchorVars, validatorVars, proofVars>>,
                      part' = "anchors"
               PROVE  HeldInv' /\ (torn' \/ RollInv')
    OBVIOUS
  <2>1. part = "anchors" /\ [Anchors!Next]_anchorVars
    BY DEF Next
  <2>2. QED
    BY <2>1, HeldStep, RollStep
<1>3. Inv => RolloverFollowed
  BY DEF RollInv, OldKeyStays, KeysTrusted, RolloverFollowed, Anchors!RolloverFollowed
<1>4. QED
  BY <1>1, <1>2, <1>3, PTL DEF Spec

-----------------------------------------------------------------------------
(* The validator *)

Zs == 0..Depth
Link(z, d) == Validator!Link(z, d)
Bad == {"forged", "foreign"}

\* A set of numbers has a least one.
LEMMA LeastExists ==
  ASSUME NEW S, S \subseteq Nat, S # {}
  PROVE  \E m \in S : \A k \in S : m <= k
<1> DEFINE R == {ss \in Nat \X Nat : ss[1] < ss[2]}
<1>1. IsWellFoundedOn(R, Nat)
  BY NatLessThanWellFounded, Zenon DEF OpToRel
<1>2. \A k, m \in Nat : k < m => <<k, m>> \in R
  OBVIOUS
<1> HIDE DEF R
<1>3. PICK m \in S : \A k \in S : ~(<<k, m>> \in R)
  BY <1>1, WFMin
<1>4. \A k \in S : ~(k < m)
  BY <1>2, <1>3
<1>5. QED
  BY <1>4

LEMMA Least ==
  ASSUME NEW S, S \subseteq Nat, S # {}
  PROVE  Validator!Min(S) \in S /\ \A k \in S : Validator!Min(S) <= k
  BY LeastExists DEF Validator!Min

\* The first result that is not what goes on, or what goes on.
LEMMA FirstButIs ==
  ASSUME NEW results, DOMAIN results \subseteq Nat, NEW on
  PROVE  LET v == Validator!FirstBut(results, on) IN
         /\ v = on => \A i \in DOMAIN results : results[i] = on
         /\ v # on => \E i \in DOMAIN results :
                        /\ v = results[i]
                        /\ \A j \in DOMAIN results : j < i => results[j] = on
<1> DEFINE ends == {i \in DOMAIN results : results[i] # on}
           m == Validator!Min(ends)
<1>1. CASE ends = {}
  BY <1>1 DEF Validator!FirstBut
<1>2. CASE ends # {}
  <2>1. ends \subseteq Nat
    OBVIOUS
  <2>2. m \in ends /\ \A k \in ends : m <= k
    <3> HIDE DEF ends
    <3>1. QED
      BY <1>2, <2>1, Least
  <2>3. Validator!FirstBut(results, on) = results[m]
    BY <1>2 DEF Validator!FirstBut
  <2> HIDE DEF m
  <2>4. \A j \in DOMAIN results : j < m => results[j] = on
    BY <2>1, <2>2
  <2>5. QED
    BY <2>2, <2>3, <2>4
<1>3. QED
  BY <1>1, <1>2

\* What one lookup makes of a step of the walk.
Fetched(l) == Validator!Fetch(l)
LEMMA LinkIs ==
  ASSUME NEW z \in Zs, NEW d
  PROVE  /\ Link(z, d) \in {"keys", "insecure", "lookup", "invalid"}
         /\ Link(z, d) = "invalid" =>
              /\ ~(z >= d)
              /\ \/ Fetched(<<"DNSKEY", z>>) \in Bad /\ (z = 0 \/ Validator!DsLink(z) = "keys")
                 \/ z # 0 /\ Fetched(<<"DS", z>>) \in Bad
         /\ Link(z, d) = "keys" => ~(z >= d) /\ (z = 0 \/ Validator!DsLink(z) = "keys")
<1>1. Validator!RootLink \in {"keys", "lookup", "invalid"}
      /\ (Validator!RootLink = "invalid" => Fetched(<<"DNSKEY", 0>>) \in Bad)
  BY DEF Validator!RootLink, Fetched, Bad
<1>2. Validator!DsLink(z) \in {"keys", "insecure", "lookup", "invalid"}
      /\ (Validator!DsLink(z) = "invalid" => Fetched(<<"DS", z>>) \in Bad)
  BY DEF Validator!DsLink, Fetched, Bad
<1>3. Validator!KeyLink(z) \in {"keys", "lookup", "invalid"}
      /\ (Validator!KeyLink(z) = "invalid" => Fetched(<<"DNSKEY", z>>) \in Bad)
  BY DEF Validator!KeyLink, Fetched, Bad
<1>4. QED
  BY <1>1, <1>2, <1>3 DEF Link, Validator!Link

LEMMA KeysLinkIs ==
  ASSUME NEW z \in Zs, NEW d, Link(z, d) = "keys", \A l \in Lookups : Fetched(l) \in Validator!Found
  PROVE  /\ Fetched(<<"DNSKEY", z>>) = "good" \/ (z = 0 /\ Fetched(<<"DNSKEY", z>>) = "stripped")
         /\ z > 0 => Fetched(<<"DS", z>>) = "good"
<1>1. <<"DNSKEY", z>> \in Lookups /\ (z > 0 => <<"DS", z>> \in Lookups)
  BY DepthAssumption DEF Lookups, Zs
<1>2. CASE z = 0
  <2>1. Validator!RootLink = "keys"
    BY <1>2 DEF Link, Validator!Link
  <2>2. QED
    BY <1>1, <1>2, <2>1 DEF Validator!RootLink, Fetched, Validator!Found
<1>3. CASE z # 0
  <2>1. Validator!DsLink(z) = "keys" /\ Validator!KeyLink(z) = "keys"
    BY <1>3 DEF Link, Validator!Link
  <2>2. z > 0
    BY <1>3, DepthAssumption DEF Zs
  <2>3. Fetched(<<"DS", z>>) = "good"
    BY <1>1, <2>1, <2>2 DEF Validator!DsLink, Fetched, Validator!Found
  <2>4. Fetched(<<"DNSKEY", z>>) = "good"
    BY <1>1, <2>1 DEF Validator!KeyLink, Fetched, Validator!Found
  <2>5. QED
    BY <2>3, <2>4
<1>4. QED
  BY <1>2, <1>3

\* The walk to a zone ends with keys or with its first step that fails.
LEMMA ChainIs ==
  ASSUME NEW z \in Zs, NEW d
  PROVE  LET c == Validator!ChainTo(d)[z] IN
         /\ c = "keys" => \A y \in 0..z : Link(y, d) = "keys"
         /\ c # "keys" => \E y \in 0..z : c = Link(y, d) /\ \A x \in 0..z : x < y => Link(x, d) = "keys"
         /\ c \in {"keys", "insecure", "lookup", "invalid"}
<1> DEFINE failed == {y \in 0..z : Link(y, d) # "keys"}
           m == Validator!Min(failed)
<1>1. z \in Nat /\ 0..z \subseteq Zs /\ failed \subseteq Nat
  BY DepthAssumption DEF Zs
<1>2. Validator!ChainTo(d)[z] = IF failed = {} THEN "keys" ELSE Link(m, d)
  BY DEF Validator!ChainTo, Zs, Link
<1>3. CASE failed = {}
  BY <1>2, <1>3
<1>4. CASE failed # {}
  <2>1. m \in failed /\ \A k \in failed : m <= k
    <3> HIDE DEF failed
    <3>1. QED
      BY <1>1, <1>4, Least
  <2>2. Validator!ChainTo(d)[z] = Link(m, d)
    BY <1>2, <1>4
  <2> HIDE DEF m
  <2>3. \A x \in 0..z : x < m => Link(x, d) = "keys"
    BY <1>1, <2>1
  <2>4. Link(m, d) \in {"keys", "insecure", "lookup", "invalid"} /\ Link(m, d) # "keys"
    BY <1>1, <2>1, LinkIs
  <2>5. QED
    BY <2>1, <2>2, <2>3, <2>4
<1>5. QED
  BY <1>3, <1>4

\* A walk asks for what it needs to know of a zone whose ancestors it has keys of.
LEMMA WalkedIs ==
  ASSUME NEW z \in Zs \ zoneKeys, NEW d \in Nat, NEW y \in 0..z, ~(y >= d),
         \A x \in 0..z : x < y => Link(x, d) = "keys"
  PROVE  /\ y = 0 \/ Validator!DsLink(y) = "keys" =>
              <<"DNSKEY", y>> \in Validator!Walked(z, d) \cap Lookups
         /\ y # 0 => <<"DS", y>> \in Validator!Walked(z, d) \cap Lookups
<1>1. y \in Zs /\ y \in Nat /\ z \in Nat /\ z <= Depth /\ y <= z
  BY DepthAssumption DEF Zs
<1>2. <<"DNSKEY", y>> \in Lookups /\ (y # 0 => <<"DS", y>> \in Lookups)
  BY <1>1, DepthAssumption DEF Lookups
<1>3. y = 0 \/ Validator!ChainTo(d)[y - 1] = "keys"
  <2>1. CASE y # 0
    <3>1. y - 1 \in Zs /\ 0..(y - 1) \subseteq 0..z /\ \A x \in 0..(y - 1) : x < y
      BY <1>1, <2>1, DepthAssumption DEF Zs
    <3>2. \A x \in 0..(y - 1) : Link(x, d) = "keys"
      BY <3>1
    <3>3. QED
      BY <3>1, <3>2, ChainIs
  <2>2. QED
    BY <2>1
<1> DEFINE through == {x \in 0..z : x < d /\ (x = 0 \/ Validator!ChainTo(d)[x - 1] = "keys")}
<1>4. Validator!Walked(z, d) = {<<"DNSKEY", x>> : x \in {x \in through : x = 0 \/ Validator!DsLink(x) = "keys"}}
                               \cup {<<"DS", x>> : x \in through \ {0}}
  BY DEF Validator!Walked
<1>5. y \in through
  BY <1>1, <1>3
<1> HIDE DEF through
<1>6. y = 0 \/ Validator!DsLink(y) = "keys" => <<"DNSKEY", y>> \in Validator!Walked(z, d)
  BY <1>4, <1>5
<1>7. y # 0 => <<"DS", y>> \in Validator!Walked(z, d)
  BY <1>4, <1>5
<1>8. QED
  BY <1>2, <1>6, <1>7

\* A walk that finds invalid data asked for it.
LEMMA InvalidIsFetched ==
  ASSUME NEW z \in Zs, NEW d \in Nat, Validator!KeysOf(z, d) = "invalid"
  PROVE  \E l \in Validator!Walked(z, d) \cap Lookups : Fetched(l) \in Bad
<1>1. z \notin zoneKeys /\ Validator!ChainTo(d)[z] = "invalid"
  BY DEF Validator!KeysOf
<1>2. PICK y \in 0..z : Link(y, d) = "invalid" /\ \A x \in 0..z : x < y => Link(x, d) = "keys"
  BY <1>1, ChainIs
<1>3. y \in Zs
  BY DepthAssumption DEF Zs
<1>4. /\ ~(y >= d)
      /\ \/ Fetched(<<"DNSKEY", y>>) \in Bad /\ (y = 0 \/ Validator!DsLink(y) = "keys")
         \/ y # 0 /\ Fetched(<<"DS", y>>) \in Bad
  BY <1>2, <1>3, LinkIs
<1>5. /\ y = 0 \/ Validator!DsLink(y) = "keys" =>
            <<"DNSKEY", y>> \in Validator!Walked(z, d) \cap Lookups
      /\ y # 0 => <<"DS", y>> \in Validator!Walked(z, d) \cap Lookups
  BY <1>1, <1>2, <1>4, WalkedIs
<1>6. QED
  BY <1>4, <1>5

\* A walk that ends with keys asked for every link, and every one is sound.
LEMMA KeysAreFetched ==
  ASSUME NEW z \in Zs \ zoneKeys, NEW d \in Nat, Validator!KeysOf(z, d) = "keys",
         \A l \in Lookups : Fetched(l) \in Validator!Found
  PROVE  \A y \in 0..z :
           /\ <<"DNSKEY", y>> \in Validator!Walked(z, d) \cap Lookups
           /\ Fetched(<<"DNSKEY", y>>) = "good" \/ (y = 0 /\ Fetched(<<"DNSKEY", y>>) = "stripped")
           /\ y > 0 => /\ <<"DS", y>> \in Validator!Walked(z, d) \cap Lookups
                       /\ Fetched(<<"DS", y>>) = "good"
<1>1. \A y \in 0..z : Link(y, d) = "keys"
  BY ChainIs DEF Validator!KeysOf
<1> SUFFICES ASSUME NEW y \in 0..z
             PROVE  /\ <<"DNSKEY", y>> \in Validator!Walked(z, d) \cap Lookups
                    /\ \/ Fetched(<<"DNSKEY", y>>) = "good"
                       \/ y = 0 /\ Fetched(<<"DNSKEY", y>>) = "stripped"
                    /\ y > 0 => /\ <<"DS", y>> \in Validator!Walked(z, d) \cap Lookups
                                /\ Fetched(<<"DS", y>>) = "good"
  OBVIOUS
<1>2. y \in Zs /\ (y > 0 => y # 0)
  BY DepthAssumption DEF Zs
<1>3. ~(y >= d) /\ (y = 0 \/ Validator!DsLink(y) = "keys")
  BY <1>1, <1>2, LinkIs
<1>4. /\ <<"DNSKEY", y>> \in Validator!Walked(z, d) \cap Lookups
      /\ y # 0 => <<"DS", y>> \in Validator!Walked(z, d) \cap Lookups
  BY <1>1, <1>3, WalkedIs
<1>5. /\ Fetched(<<"DNSKEY", y>>) = "good" \/ (y = 0 /\ Fetched(<<"DNSKEY", y>>) = "stripped")
      /\ y > 0 => Fetched(<<"DS", y>>) = "good"
  BY <1>1, <1>2, KeysLinkIs
<1>6. QED
  BY <1>2, <1>4, <1>5

-----------------------------------------------------------------------------
(* What makes an answer bogus *)

\* A set with signatures is invalid only if one does not verify or what else has to
\* hold does not, or the walk to a signer found invalid data.
LEMMA VerdictIs ==
  ASSUME NEW s \in Rrset, NEW holds \in BOOLEAN, NEW d
  PROVE  LET v == Validator!Verdict(s, holds, d) IN
         /\ v \in {"valid", "insecure", "lookup", "invalid"}
         /\ v = "invalid" /\ s.sigs # <<>> => \E i \in DOMAIN s.sigs :
               ~s.sigs[i].good \/ ~holds \/ Validator!KeysOf(s.sigs[i].zone, d) = "invalid"
         /\ v = "valid" => \E i \in DOMAIN s.sigs :
               s.sigs[i].good /\ holds /\ Validator!KeysOf(s.sigs[i].zone, d) = "keys"
<1> DEFINE tries == [i \in DOMAIN s.sigs |-> Validator!Try(s.sigs[i], holds, d)]
<1>1. /\ DOMAIN s.sigs \subseteq Nat /\ (s.sigs # <<>> => 1 \in DOMAIN s.sigs)
      /\ \A i \in DOMAIN s.sigs : s.sigs[i].zone \in Zs
  <2> DEFINE Sigs == [zone : Zs, good : BOOLEAN]
  <2>1. s.sigs \in Seq(Sigs) /\ \A x \in Sigs : x.zone \in Zs
    BY DEF Rrset, Zs
  <2> HIDE DEF Sigs
  <2>2. DOMAIN s.sigs = 1..Len(s.sigs) /\ \A i \in DOMAIN s.sigs : s.sigs[i] \in Sigs
    BY <2>1
  <2>3. s.sigs # <<>> => Len(s.sigs) >= 1
    BY <2>1
  <2> HIDE DEF Zs
  <2>4. QED
    BY <2>1, <2>2, <2>3
<1>2. \A i \in DOMAIN s.sigs : Validator!KeysOf(s.sigs[i].zone, d) \in {"keys", "insecure", "lookup", "invalid"}
  BY <1>1, ChainIs DEF Validator!KeysOf
<1>3. \A i \in DOMAIN s.sigs :
        /\ tries[i] \in {"valid", "insecure", "lookup", "invalid"}
        /\ tries[i] = "invalid" => ~s.sigs[i].good \/ ~holds \/ Validator!KeysOf(s.sigs[i].zone, d) = "invalid"
        /\ tries[i] = "valid" => s.sigs[i].good /\ holds /\ Validator!KeysOf(s.sigs[i].zone, d) = "keys"
  BY <1>2 DEF Validator!Try
<1>4. DOMAIN tries = DOMAIN s.sigs
  OBVIOUS
<1>5. Validator!Verdict(s, holds, d) = Validator!FirstBut(tries, "invalid")
  BY DEF Validator!Verdict
<1> HIDE DEF tries
<1>6. QED
  BY <1>1, <1>3, <1>4, <1>5, FirstButIs

\* The sets that decide are sets of the answer, at their positions.
LEMMA SectionsAre ==
  ASSUME NEW r \in Responses
  PROVE  LET signed == Validator!Signed(IF r.answer # <<>> THEN r.answer ELSE r.authority)
             proofs == Validator!Proofs(r)
         IN
         /\ DOMAIN signed \subseteq Nat /\ (signed # <<>> => DOMAIN signed # {})
         /\ \A i \in DOMAIN signed : /\ signed[i] \in Rrset /\ signed[i].sigs # <<>>
                                     /\ signed[i] \in Validator!Sets(r)
         /\ DOMAIN proofs \subseteq Nat /\ (proofs # <<>> => DOMAIN proofs # {})
         /\ \A i \in DOMAIN proofs : proofs[i] \in Rrset /\ proofs[i] \in Validator!Sets(r)
<1>1. r.answer \in Seq(Rrset) /\ r.authority \in Seq(Rrset)
  BY ResponsesAssumption
<1> HIDE DEF Rrset
<1> DEFINE section == IF r.answer # <<>> THEN r.answer ELSE r.authority
<1>2. section \in Seq(Rrset) /\ \A i \in DOMAIN section : section[i] \in Validator!Sets(r)
  BY <1>1 DEF Validator!Sets, Validator!Range
<1>3. \A i \in DOMAIN r.authority : r.authority[i] \in Validator!Sets(r)
  BY DEF Validator!Sets, Validator!Range
<1>4. \A i \in DOMAIN section : i \in Nat /\ section[i] \in Rrset
  BY <1>2
<1>5. \A i \in DOMAIN r.authority : i \in Nat /\ r.authority[i] \in Rrset
  BY <1>1
<1> HIDE DEF section
<1>6. \A f, P : P = {} => Validator!At(f, P) = <<>>
  BY DEF Validator!At
<1>7. DOMAIN Validator!Signed(section) = {i \in DOMAIN section : section[i].sigs # <<>>}
      /\ \A i \in DOMAIN Validator!Signed(section) : Validator!Signed(section)[i] = section[i]
  BY DEF Validator!Signed, Validator!At
<1>8. DOMAIN Validator!Proofs(r) = {i \in DOMAIN r.authority : r.authority[i].type \in {"NSEC", "NSEC3"}}
      /\ \A i \in DOMAIN Validator!Proofs(r) : Validator!Proofs(r)[i] = r.authority[i]
  BY DEF Validator!Proofs, Validator!At
<1>9. Validator!Signed(section) # <<>> => DOMAIN Validator!Signed(section) # {}
  BY <1>6, <1>7 DEF Validator!Signed
<1>10. Validator!Proofs(r) # <<>> => DOMAIN Validator!Proofs(r) # {}
  BY <1>6, <1>8 DEF Validator!Proofs
<1>11. QED
  BY <1>2, <1>3, <1>4, <1>5, <1>7, <1>8, <1>9, <1>10 DEF section

\* Why an answer is bogus or secure.
BogusFor(r, d) ==
    \E i \in DOMAIN Validator!Judged(r) :
        LET s == Validator!Judged(r)[i] IN
        \/ \E j \in DOMAIN s.sigs :
              ~s.sigs[j].good \/ Validator!KeysOf(s.sigs[j].zone, d) = "invalid"
        \/ Validator!Kind(r) = "negative" /\ ~s.proves
SignedBy(s, d) ==
    \E j \in DOMAIN s.sigs : s.sigs[j].good /\ Validator!KeysOf(s.sigs[j].zone, d) = "keys"
SecureFor(r, d) ==
    /\ DOMAIN Validator!Judged(r) # {}
    /\ \A i \in DOMAIN Validator!Judged(r) : SignedBy(Validator!Judged(r)[i], d)
    /\ Validator!Kind(r) = "negative" =>
         \E i \in DOMAIN Validator!Judged(r) : Validator!Judged(r)[i].proves

LEMMA ValidatedIs ==
  ASSUME NEW r \in Responses, NEW d
  PROVE  LET v == Validator!Validated(r, d) IN
         /\ v \in Validator!Statuses
         /\ v = "bogus" => BogusFor(r, d)
         /\ v = "secure" => SecureFor(r, d)
<1> DEFINE judged == Validator!Judged(r)
           v == Validator!Validated(r, d)
<1>0. \A e \in {"valid", "insecure", "lookup", "invalid"} :
        /\ Validator!StatusOf(e) \in Validator!Statuses
        /\ Validator!StatusOf(e) = "bogus" => e = "invalid"
        /\ Validator!StatusOf(e) = "secure" => e = "valid"
  BY DEF Validator!StatusOf, Validator!Statuses
<1>1. CASE Validator!Kind(r) = "signed"
  <2> DEFINE verdicts == Validator!Verdicts(judged, d)
             end == Validator!FirstBut(verdicts, "valid")
  <2>1. v = IF judged = <<>> THEN "indeterminate" ELSE Validator!StatusOf(end)
    BY <1>1 DEF Validator!Validated, Validator!Judged, Validator!ValidateSigned
  <2>2. /\ DOMAIN judged \subseteq Nat /\ (judged # <<>> => DOMAIN judged # {})
        /\ \A i \in DOMAIN judged : judged[i] \in Rrset /\ judged[i].sigs # <<>>
    BY <1>1, SectionsAre DEF Validator!Judged
  <2>3. \A i \in DOMAIN judged :
          /\ verdicts[i] \in {"valid", "insecure", "lookup", "invalid"}
          /\ verdicts[i] = "invalid" => \E j \in DOMAIN judged[i].sigs :
               ~judged[i].sigs[j].good \/ Validator!KeysOf(judged[i].sigs[j].zone, d) = "invalid"
          /\ verdicts[i] = "valid" => SignedBy(judged[i], d)
    BY <2>2, VerdictIs DEF Validator!Verdicts, SignedBy
  <2>4. DOMAIN verdicts = DOMAIN judged
    BY DEF Validator!Verdicts
  <2>5. /\ end \in {"valid", "insecure", "lookup", "invalid"}
        /\ end = "valid" => \A i \in DOMAIN judged : verdicts[i] = "valid"
        /\ end = "invalid" => \E i \in DOMAIN judged : verdicts[i] = "invalid"
    <3> HIDE DEF verdicts
    <3>1. QED
      BY <2>2, <2>3, <2>4, FirstButIs
  <2>6. v \in Validator!Statuses
    BY <1>0, <2>1, <2>5 DEF Validator!Statuses
  <2>7. v = "bogus" => BogusFor(r, d)
    BY <1>0, <2>1, <2>3, <2>5 DEF BogusFor
  <2>8. v = "secure" => SecureFor(r, d)
    BY <1>0, <1>1, <2>1, <2>2, <2>3, <2>5 DEF SecureFor
  <2>9. QED
    BY <2>6, <2>7, <2>8
<1>2. CASE Validator!Kind(r) = "negative"
  <2> DEFINE verdicts == [i \in DOMAIN judged |-> Validator!ProofVerdict(judged[i], d)]
             end == Validator!FirstBut(verdicts, "valid")
  <2>1. judged = Validator!Proofs(r)
    BY <1>2 DEF Validator!Judged
  <2>2. /\ DOMAIN judged \subseteq Nat /\ (judged # <<>> => DOMAIN judged # {})
        /\ \A i \in DOMAIN judged : judged[i] \in Rrset
    BY <2>1, SectionsAre
  <2>3. \A i \in DOMAIN judged :
          /\ verdicts[i] \in {"valid", "insecure", "lookup", "invalid", "unsigned"}
          /\ verdicts[i] = "invalid" => \E j \in DOMAIN judged[i].sigs :
               \/ ~judged[i].sigs[j].good
               \/ ~judged[i].proves
               \/ Validator!KeysOf(judged[i].sigs[j].zone, d) = "invalid"
          /\ verdicts[i] = "valid" => SignedBy(judged[i], d)
    BY <2>2, VerdictIs DEF Validator!ProofVerdict, SignedBy
  <2>4. DOMAIN verdicts = DOMAIN judged
    OBVIOUS
  <2>5. v = IF judged = <<>> THEN "insecure"
            ELSE IF end = "unsigned" THEN "indeterminate"
            ELSE IF end = "valid"
                 THEN IF \E i \in DOMAIN judged : judged[i].proves THEN "secure" ELSE "bogus"
            ELSE Validator!StatusOf(end)
    BY <1>2, <2>1 DEF Validator!Validated, Validator!ValidateNegative
  <2>6. /\ end \in {"valid", "insecure", "lookup", "invalid", "unsigned"}
        /\ end = "valid" => \A i \in DOMAIN judged : verdicts[i] = "valid"
        /\ end = "invalid" => \E i \in DOMAIN judged : verdicts[i] = "invalid"
    <3> HIDE DEF verdicts
    <3>1. QED
      BY <2>2, <2>3, <2>4, FirstButIs
  <2> HIDE DEF v, end, verdicts
  <2>7. v \in Validator!Statuses
    BY <1>0, <2>5, <2>6 DEF Validator!Statuses
  <2>8. v = "bogus" => BogusFor(r, d)
    <3>1. CASE end = "invalid" /\ v = "bogus"
      BY <1>2, <2>3, <2>6, <3>1 DEF BogusFor
    <3>2. CASE end = "valid" /\ v = "bogus"
      BY <1>2, <2>2, <2>5, <3>2 DEF BogusFor
    <3>3. QED
      BY <1>0, <2>5, <2>6, <3>1, <3>2
  <2>9. v = "secure" => SecureFor(r, d)
    <3>1. v = "secure" => /\ judged # <<>> /\ end = "valid"
                         /\ \E i \in DOMAIN judged : judged[i].proves
      BY <1>0, <2>5, <2>6
    <3>2. QED
      BY <2>2, <2>3, <2>6, <3>1 DEF SecureFor
  <2>10. QED
    BY <2>7, <2>8, <2>9 DEF v
<1>3. CASE Validator!Kind(r) = "failed"
  BY <1>3 DEF Validator!Validated, Validator!Statuses
<1>4. CASE Validator!Kind(r) = "unsigned"
  BY <1>4 DEF Validator!Validated, Validator!ValidateUnsigned, Validator!Statuses
<1>5. Validator!Kind(r) \in {"signed", "negative", "failed", "unsigned"}
  BY DEF Validator!Kind
<1>6. QED
  BY <1>1, <1>2, <1>3, <1>4, <1>5

-----------------------------------------------------------------------------
(* What the validator keeps *)

ValidatorInv == /\ episode \in Episodes
                /\ Validator!TypeOK
                /\ Validator!BogusIsContradicted

LEMMA NoneIsNew == None \notin Validator!Statuses /\ None \notin Validator!Found /\ None \notin Responses
  BY ResponsesAssumption

LEMMA LookupsAre == Validator!Lookups = Lookups
  BY DEF Validator!Lookups, Validator!Zones, Lookups

LEMMA FetchedIs ==
  ASSUME ValidatorInv
  PROVE  \A l \in Lookups : Fetched(l) \in Validator!Found
  BY LookupsAre DEF ValidatorInv, Validator!TypeOK, Fetched, Validator!Fetch

LEMMA SignersAre ==
  ASSUME NEW r \in Responses
  PROVE  /\ Validator!Signers(r) \subseteq Zs
         /\ \A i \in DOMAIN Validator!Judged(r) :
              LET s == Validator!Judged(r)[i] IN
              \A j \in DOMAIN s.sigs : s.sigs[j].zone \in Validator!Signers(r)
<1> DEFINE judged == Validator!Judged(r)
<1>1. \A i \in DOMAIN judged : judged[i] \in Rrset
  BY SectionsAre DEF Validator!Judged
<1>2. \A s \in Rrset : \A j \in DOMAIN s.sigs : s.sigs[j].zone \in Zs
  <2> SUFFICES ASSUME NEW s \in Rrset, NEW j \in DOMAIN s.sigs PROVE s.sigs[j].zone \in Zs
    OBVIOUS
  <2> DEFINE Sigs == [zone : Zs, good : BOOLEAN]
  <2>1. s.sigs \in Seq(Sigs) /\ \A x \in Sigs : x.zone \in Zs
    BY DEF Rrset, Zs
  <2> HIDE DEF Sigs
  <2>2. s.sigs[j] \in Sigs
    BY <2>1
  <2>3. QED
    BY <2>1, <2>2
<1> HIDE DEF judged, Rrset, Zs
<1>3. Validator!Signers(r) = UNION {{s.sigs[i].zone : i \in DOMAIN s.sigs} : s \in {judged[i] : i \in DOMAIN judged}}
  BY DEF Validator!Signers, Validator!Range, judged
<1>4. QED
  BY <1>1, <1>2, <1>3 DEF judged

\* What a validation asks for and what becomes of its caches.
LEMMA ValidateIs ==
  ASSUME NEW r \in Responses, NEW d \in Deadlines, ValidatorInv, Validator!Validate(r, d)
  PROVE  /\ \A z \in Validator!Signers(r) : \A l \in Validator!Walked(z, d) \cap Lookups :
              DOMAIN Validator!Judged(r) # {} /\ Fetched(l) # "lost" => rrsets'[l] = Fetched(l)
         /\ \A z \in Validator!Signers(r) : Validator!KeysOf(z, d) = "keys" => z \in zoneKeys'
         /\ \A z \in zoneKeys' \ zoneKeys :
              /\ z \in Validator!Signers(r) /\ Validator!KeysOf(z, d) = "keys"
              /\ DOMAIN Validator!Judged(r) # {}
         /\ rrsets' \in [Lookups -> (Validator!Found \ {"lost"}) \cup {None}]
         /\ zoneKeys' \subseteq Zs
<1> DEFINE asked == IF Validator!Kind(r) = "unsigned" THEN Validator!AskedForDs
                    ELSE UNION {Validator!Walked(z, d) : z \in Validator!Signers(r)}
<1>1. /\ rrsets' = [l \in Lookups |-> IF l \in asked /\ Fetched(l) # "lost" THEN Fetched(l) ELSE rrsets[l]]
      /\ zoneKeys' = zoneKeys \cup {z \in Validator!Signers(r) : Validator!KeysOf(z, d) = "keys"}
  BY LookupsAre DEF Validator!Validate, Fetched
<1>2. DOMAIN Validator!Judged(r) # {} => Validator!Kind(r) # "unsigned"
  BY DEF Validator!Judged
<1>3. Validator!Signers(r) # {} => DOMAIN Validator!Judged(r) # {}
  BY DEF Validator!Signers, Validator!Range
<1>4. \A l \in Lookups : /\ rrsets[l] \in (Validator!Found \ {"lost"}) \cup {None}
                          /\ Fetched(l) \in Validator!Found
  BY LookupsAre, FetchedIs DEF ValidatorInv, Validator!TypeOK
<1>5. \A z \in Validator!Signers(r) : \A l \in Validator!Walked(z, d) \cap Lookups :
         DOMAIN Validator!Judged(r) # {} /\ Fetched(l) # "lost" => rrsets'[l] = Fetched(l)
  BY <1>1, <1>2
<1>6. zoneKeys \subseteq Zs
  BY DEF ValidatorInv, Validator!TypeOK, Zs
<1> HIDE DEF asked, Zs
<1>7. rrsets' \in [Lookups -> (Validator!Found \ {"lost"}) \cup {None}]
  BY <1>1, <1>4
<1>8. QED
  BY <1>1, <1>3, <1>5, <1>6, <1>7, SignersAre

\* A validation says bogus only of what is contradicted.
LEMMA ValidateKeeps ==
  ASSUME NEW r \in Responses, NEW d \in Deadlines, ValidatorInv, Validator!Validate(r, d)
  PROVE  ValidatorInv'
<1>1. d \in Nat /\ d \in 0..(Depth + 1)
  BY DeadlinesAssumption, DepthAssumption
<1>2. /\ response' = r /\ late' = d /\ status' = Validator!Validated(r, d)
      /\ episode' = episode /\ upstream' = upstream
      /\ kept' = Validator!Kept(status')
  BY DEF Validator!Validate
<1>3. status' \in Validator!Statuses /\ (status' = "bogus" => BogusFor(r, d))
  BY <1>2, ValidatedIs
<1>4. kept' \in {"secure", "insecure", None}
  BY <1>2 DEF Validator!Kept, ValidatorInv, Validator!TypeOK
<1>5. Validator!TypeOK'
  BY <1>1, <1>2, <1>3, <1>4, ValidateIs, LookupsAre DEF ValidatorInv, Validator!TypeOK, Zs
<1>6. ASSUME status' = "bogus"
      PROVE  Validator!Contradicted' \/ ~Validator!Honest(response)'
  <2>1. PICK i \in DOMAIN Validator!Judged(r) :
          LET s == Validator!Judged(r)[i] IN
          \/ \E j \in DOMAIN s.sigs :
               ~s.sigs[j].good \/ Validator!KeysOf(s.sigs[j].zone, d) = "invalid"
          \/ Validator!Kind(r) = "negative" /\ ~s.proves
    BY <1>3, <1>6 DEF BogusFor
  <2> DEFINE s == Validator!Judged(r)[i]
  <2>2. Validator!Honest(response)' = Validator!Honest(r)
    BY <1>2 DEF Validator!Honest, Validator!Sets, Validator!Proofs, Validator!Range, Validator!At
  <2>3. s \in Validator!Sets(r)
    BY SectionsAre DEF Validator!Judged
  <2>4. CASE \E j \in DOMAIN s.sigs : ~s.sigs[j].good
    BY <2>2, <2>3, <2>4 DEF Validator!Honest
  <2>5. CASE Validator!Kind(r) = "negative" /\ ~s.proves
    BY <2>2, <2>5 DEF Validator!Honest, Validator!Judged, Validator!Range
  <2>6. ASSUME NEW j \in DOMAIN s.sigs, Validator!KeysOf(s.sigs[j].zone, d) = "invalid"
        PROVE  Validator!Contradicted'
    <3>1. s.sigs[j].zone \in Validator!Signers(r) /\ s.sigs[j].zone \in Zs
      BY SignersAre
    <3>2. PICK l \in Validator!Walked(s.sigs[j].zone, d) \cap Lookups : Fetched(l) \in Bad
      BY <1>1, <2>6, <3>1, InvalidIsFetched
    <3>3. rrsets'[l] = Fetched(l)
      BY <3>1, <3>2, ValidateIs DEF Bad
    <3>4. QED
      BY <3>2, <3>3, LookupsAre DEF Validator!Contradicted, Bad
  <2>7. QED
    BY <2>1, <2>4, <2>5, <2>6
<1>7. QED
  BY <1>2, <1>5, <1>6 DEF ValidatorInv, Validator!BogusIsContradicted

LEMMA ValidatorStarts ==
  ASSUME Validator!Init
  PROVE  ValidatorInv
<1>1. \A e \in Episodes : e \subseteq [Lookups -> Validator!Found]
  BY EpisodesAssumption, LookupsAre
<1>2. Validator!TypeOK
  BY <1>1, LookupsAre DEF Validator!Init, Validator!TypeOK
<1>3. status # "bogus"
  BY NoneIsNew DEF Validator!Init, Validator!Statuses
<1>4. QED
  BY <1>2, <1>3 DEF ValidatorInv, Validator!Init, Validator!BogusIsContradicted

LEMMA ValidatorKeeps ==
  ASSUME ValidatorInv, [Validator!Next]_validatorVars
  PROVE  ValidatorInv'
<1> USE DEF ValidatorInv
<1>1. ASSUME NEW r \in Responses, Validator!Recall(r)
      PROVE  ValidatorInv'
  <2>1. status' \in {"secure", "insecure"}
    BY <1>1 DEF Validator!Recall, Validator!TypeOK
  <2>2. QED
    BY <1>1, <2>1 DEF Validator!Recall, Validator!TypeOK, Validator!Statuses, Validator!BogusIsContradicted
<1>2. ASSUME NEW r \in Responses, NEW d \in Deadlines, Validator!Validate(r, d)
      PROVE  ValidatorInv'
  BY <1>2, ValidateKeeps
<1>3. ASSUME Validator!Forget
      PROVE  ~(status' = "bogus") /\ episode' = episode
             /\ response' = None /\ status' = None /\ late' = None
  BY <1>3, NoneIsNew DEF Validator!Forget, Validator!Statuses
<1>4. ASSUME Validator!ExpireResult
      PROVE  ValidatorInv'
  BY <1>3, <1>4 DEF Validator!ExpireResult, Validator!TypeOK, Validator!BogusIsContradicted
<1>5. ASSUME Validator!ExpireKeys
      PROVE  ValidatorInv'
  BY <1>3, <1>5 DEF Validator!ExpireKeys, Validator!TypeOK, Validator!BogusIsContradicted
<1>6. ASSUME Validator!Change
      PROVE  ValidatorInv'
  <2>1. upstream' \in episode' /\ upstream' \in [Validator!Lookups -> Validator!Found]
    BY <1>3, <1>6, EpisodesAssumption DEF Validator!Change
  <2>2. QED
    BY <1>3, <1>6, <2>1 DEF Validator!Change, Validator!TypeOK, Validator!BogusIsContradicted
<1>7. ASSUME NEW l \in Validator!Lookups, Validator!ExpireRrset(l)
      PROVE  ValidatorInv'
  <2>1. rrsets' \in [Validator!Lookups -> (Validator!Found \ {"lost"}) \cup {None}]
    BY <1>7 DEF Validator!ExpireRrset, Validator!TypeOK
  <2>2. QED
    BY <1>3, <1>7, <2>1 DEF Validator!ExpireRrset, Validator!TypeOK, Validator!BogusIsContradicted
<1>8. ASSUME UNCHANGED validatorVars
      PROVE  ValidatorInv'
  BY <1>8 DEF validatorVars, Validator!TypeOK, Validator!BogusIsContradicted, Validator!Contradicted,
     Validator!Honest, Validator!Sets, Validator!Proofs, Validator!Range, Validator!At
<1>9. QED
  BY <1>1, <1>2, <1>4, <1>5, <1>6, <1>7, <1>8 DEF Validator!Next

\* A result that no earlier answer left is secure by signatures whose signers are linked.
LEMMA ValidatorSigns ==
  ASSUME ValidatorInv, [Validator!Next]_validatorVars
  PROVE  /\ Validator!KeysAreLinked
         /\ status' = "secure" /\ kept = None /\ validatorVars' # validatorVars =>
              LET judged == Validator!Range(Validator!Judged(response')) IN
              /\ judged # {}
              /\ \A s \in judged : \E i \in DOMAIN s.sigs :
                   s.sigs[i].good /\ Validator!Linked(s.sigs[i].zone)'
              /\ Validator!Kind(response') = "negative" => \E s \in judged : s.proves
<1>1. ASSUME NEW r \in Responses, NEW d \in Deadlines, Validator!Validate(r, d),
             NEW z \in zoneKeys' \ zoneKeys
      PROVE  Validator!LinkedDown(z)'
  <2>1. z \in Zs /\ z \in Validator!Signers(r) /\ Validator!KeysOf(z, d) = "keys" /\ d \in Nat
        /\ DOMAIN Validator!Judged(r) # {}
    BY <1>1, ValidateIs, SignersAre, DeadlinesAssumption, DepthAssumption
  <2>2. \A l \in Validator!Walked(z, d) \cap Lookups : Fetched(l) # "lost" => rrsets'[l] = Fetched(l)
    BY <1>1, <2>1, ValidateIs
  <2>3. \A y \in 0..z :
          /\ <<"DNSKEY", y>> \in Validator!Walked(z, d) \cap Lookups
          /\ Fetched(<<"DNSKEY", y>>) = "good" \/ (y = 0 /\ Fetched(<<"DNSKEY", y>>) = "stripped")
          /\ y > 0 => /\ <<"DS", y>> \in Validator!Walked(z, d) \cap Lookups
                      /\ Fetched(<<"DS", y>>) = "good"
    BY <2>1, FetchedIs, KeysAreFetched
  <2>4. \A y \in 0..z :
          /\ rrsets'[<<"DNSKEY", y>>] = "good" \/ (y = 0 /\ rrsets'[<<"DNSKEY", y>>] = "stripped")
          /\ y > 0 => rrsets'[<<"DS", y>>] = "good"
    BY <2>2, <2>3
  <2>5. QED
    BY <2>4 DEF Validator!LinkedDown
<1>2. ASSUME NEW r \in Responses, NEW d \in Deadlines, Validator!Validate(r, d), status' = "secure"
      PROVE  LET judged == Validator!Range(Validator!Judged(response')) IN
             /\ judged # {}
             /\ \A s \in judged : \E i \in DOMAIN s.sigs :
                  s.sigs[i].good /\ Validator!Linked(s.sigs[i].zone)'
             /\ Validator!Kind(response') = "negative" => \E s \in judged : s.proves
  <2>1. response' = r /\ SecureFor(r, d)
    BY <1>2, ValidatedIs DEF Validator!Validate
  <2>2. \A i \in DOMAIN Validator!Judged(r) : LET s == Validator!Judged(r)[i] IN
          \E j \in DOMAIN s.sigs : s.sigs[j].good /\ s.sigs[j].zone \in zoneKeys'
    BY <1>2, <2>1, ValidateIs, SignersAre DEF SecureFor, SignedBy
  <2>3. Validator!Range(Validator!Judged(r)) = {Validator!Judged(r)[i] : i \in DOMAIN Validator!Judged(r)}
    BY DEF Validator!Range
  <2>4. QED
    BY <2>1, <2>2, <2>3 DEF SecureFor, Validator!Linked
<1>3. ASSUME NEW r \in Responses, Validator!Recall(r)
      PROVE  zoneKeys' = zoneKeys /\ kept # None
  BY <1>3 DEF Validator!Recall
<1>4. ASSUME \/ Validator!ExpireResult \/ Validator!ExpireKeys \/ Validator!Change
             \/ \E l \in Validator!Lookups : Validator!ExpireRrset(l)
      PROVE  zoneKeys' \subseteq zoneKeys /\ status' # "secure"
  BY <1>4, NoneIsNew DEF Validator!ExpireResult, Validator!ExpireKeys, Validator!Change,
     Validator!ExpireRrset, Validator!Forget, Validator!Statuses
<1>5. ASSUME UNCHANGED validatorVars
      PROVE  zoneKeys' = zoneKeys
  BY <1>5 DEF validatorVars
<1>6. QED
  BY <1>1, <1>2, <1>3, <1>4, <1>5 DEF Validator!Next, Validator!KeysAreLinked

ValidatorSafe == part = "validator" => ValidatorInv
LEMMA ValidatorHolds == Spec => []ValidatorSafe
<1> USE DEF ValidatorSafe
<1>1. Init => ValidatorSafe
  BY ValidatorStarts DEF Init
<1>2. ValidatorSafe /\ [Next]_<<part, anchorVars, validatorVars, proofVars>> => ValidatorSafe'
  <2> SUFFICES ASSUME ValidatorSafe, [Next]_<<part, anchorVars, validatorVars, proofVars>>,
                      part' = "validator"
               PROVE  ValidatorInv'
    OBVIOUS
  <2>1. part = "validator" /\ [Validator!Next]_validatorVars
    BY DEF Next
  <2>2. QED
    BY <2>1, ValidatorKeeps
<1>3. QED
  BY <1>1, <1>2, PTL DEF Spec

\* Bogus is about cryptography, for every chain of zones, whatever the upstreams return
\* and by whatever turns, and every answer and deadline: an honest answer is bogus only
\* where a lookup that is cached contradicts it.
THEOREM BogusContradicted == Spec => []BogusIsContradicted
<1>1. ValidatorSafe => BogusIsContradicted
  BY DEF ValidatorSafe, ValidatorInv, BogusIsContradicted
<1>2. QED
  BY <1>1, ValidatorHolds, PTL

\* A secure result that was not kept rests on signatures, a denial on a proof, and the
\* keys of every signer on lookups that verified from the root down.
THEOREM SecureSigned == Spec => SecureIsSigned
<1> DEFINE Signs ==
      Validator!KeysAreLinked /\ (status' = "secure" /\ kept = None =>
        LET judged == Validator!Range(Validator!Judged(response')) IN
        /\ judged # {}
        /\ \A s \in judged : \E i \in DOMAIN s.sigs :
             s.sigs[i].good /\ Validator!Linked(s.sigs[i].zone)'
        /\ Validator!Kind(response') = "negative" => \E s \in judged : s.proves)
<1>1. ValidatorSafe /\ [Next]_<<part, anchorVars, validatorVars, proofVars>> => [Signs]_validatorVars
  <2> SUFFICES ASSUME ValidatorSafe, [Next]_<<part, anchorVars, validatorVars, proofVars>>,
                      validatorVars' # validatorVars
               PROVE  Signs
    OBVIOUS
  <2>1. part = "validator" /\ [Validator!Next]_validatorVars
    BY DEF Next
  <2>2. QED
    BY <2>1, ValidatorSigns DEF ValidatorSafe
<1>2. SecureIsSigned <=> [][Signs]_validatorVars
  BY DEF SecureIsSigned, Validator!SecureIsSigned, Validator!vars, validatorVars
<1> HIDE DEF Signs
<1>3. QED
  BY <1>1, <1>2, ValidatorHolds, PTL DEF Spec

-----------------------------------------------------------------------------
(* Proofs of denial *)

Owns == Proof!Owners
Asked == question.name
Above(i) == Proof!Candidates(Asked)[i]
Accepted == Proof!Proves(proof, Asked, question.rcode)

\* The zone, the hashes and the question are those the assumptions speak of; records
\* of the zone are judged by the code.
ProofInv ==
    /\ nsecZone \in SignedZones /\ hash \in Orders /\ question \in Questions
    /\ proof \subseteq Owns
    /\ verdict \in {"none", "proved", "refused"}
    /\ verdict = "proved" => Accepted
    /\ verdict = "refused" => ~Accepted

LEMMA ZoneIs ==
  ASSUME ProofInv
  PROVE  /\ Owns \subseteq Names /\ IsFiniteSet(Owns) /\ <<>> \in Owns
         /\ \A n \in Owns \ {<<>>} : Tail(n) \in Owns
         /\ hash \in [Names -> Nat] /\ \A x, y \in Names : hash[x] = hash[y] => x = y
  BY ZonesAssumption, OrdersAssumption DEF ProofInv, Owns, Proof!Owners

\* The names above a name that is asked for, from the name itself to the zone.
LEMMA AboveIs ==
  ASSUME ProofInv
  PROVE  /\ Asked \in Seq(STRING) /\ Len(Asked) \in Nat
         /\ Above(1) = Asked
         /\ Above(Len(Asked) + 1) = <<>>
         /\ \A i \in 1..(Len(Asked) + 1) :
              /\ Above(i) = SubSeq(Asked, i, Len(Asked))
              /\ Above(i) \in Names /\ Proof!Wildcard(Above(i)) \in Names
              /\ Len(Above(i)) = Len(Asked) - i + 1
         /\ \A i \in 1..Len(Asked) : Above(i) # <<>> /\ Tail(Above(i)) = Above(i + 1)
<1>1. question \in Questions
  BY DEF ProofInv
<1>2. Proof!Candidates(Asked) = [i \in 1..(Len(Asked) + 1) |-> SubSeq(Asked, i, Len(Asked))]
  BY DEF Proof!Candidates
<1>3. \A i \in 1..(Len(Asked) + 1) : Above(i) \in Names /\ Proof!Wildcard(Above(i)) \in Names
  BY <1>1, NamesAssumption DEF Asked, Above
<1>4. Asked \in Seq(STRING)
  BY <1>1, QuestionsAssumption DEF Asked
<1>5. Len(Asked) \in Nat
  BY <1>4
<1>6. \A i \in 1..(Len(Asked) + 1) : Above(i) = SubSeq(Asked, i, Len(Asked))
  BY <1>2 DEF Above
<1>7. Above(1) = Asked
  BY <1>4, <1>5, <1>6, SubSeqFull
<1>8. Above(Len(Asked) + 1) = <<>>
  BY <1>5, <1>6, SubSeqEmpty
<1>9. ASSUME NEW i \in 1..(Len(Asked) + 1)
      PROVE  Len(Above(i)) = Len(Asked) - i + 1
  <2>1. i \in Int /\ Len(Asked) \in Int /\ \A j \in i..Len(Asked) : Asked[j] \in STRING
    BY <1>4, <1>5
  <2>2. Len(SubSeq(Asked, i, Len(Asked))) = IF i <= Len(Asked) THEN Len(Asked) - i + 1 ELSE 0
    BY <2>1, SubSeqProperties
  <2>3. Above(i) = SubSeq(Asked, i, Len(Asked)) /\ i <= Len(Asked) + 1 /\ i \in Nat
    BY <1>5, <1>6
  <2> HIDE DEF Above, Asked
  <2>4. QED
    BY <1>5, <2>2, <2>3
<1>10. ASSUME NEW i \in 1..Len(Asked)
       PROVE  Above(i) # <<>> /\ Tail(Above(i)) = Above(i + 1)
  <2>1. i \in 1..(Len(Asked) + 1) /\ i + 1 \in 1..(Len(Asked) + 1) /\ Len(Asked) \in i..Len(Asked)
    BY <1>5
  <2>2. Len(Above(i)) # 0 /\ Len(<<>>) = 0
    BY <1>5, <1>9, <2>1
  <2>3. Tail(SubSeq(Asked, i, Len(Asked))) = SubSeq(Asked, i + 1, Len(Asked))
    BY <1>4, <2>1, HeadTailOfSubSeq
  <2>4. Above(i) = SubSeq(Asked, i, Len(Asked)) /\ Above(i + 1) = SubSeq(Asked, i + 1, Len(Asked))
    BY <1>6, <2>1
  <2> HIDE DEF Above, Asked
  <2>5. QED
    BY <2>2, <2>3, <2>4
<1>11. QED
  BY <1>3, <1>4, <1>5, <1>6, <1>7, <1>8, <1>9, <1>10

\* With a name its ancestors have records.
LEMMA OwnersReachUp ==
  ASSUME ProofInv, NEW i \in 1..(Len(Asked) + 1), Above(i) \in Owns
  PROVE  \A j \in i..(Len(Asked) + 1) : Above(j) \in Owns
<1> DEFINE lost == {j \in i..(Len(Asked) + 1) : Above(j) \notin Owns}
<1>1. Len(Asked) \in Nat
  BY AboveIs
<1>2. ASSUME lost # {}
      PROVE  FALSE
  <2>1. PICK j \in lost : \A k \in lost : j <= k
    <3>1. lost \subseteq Nat
      BY <1>1
    <3> HIDE DEF lost
    <3>2. QED
      BY <1>2, <3>1, LeastExists
  <2>2. j # i /\ j - 1 \in i..(Len(Asked) + 1) /\ j - 1 \in 1..Len(Asked) /\ j - 1 < j /\ (j - 1) + 1 = j
    BY <1>1, <2>1
  <2>3. Above(j - 1) \in Owns
    BY <1>1, <2>1, <2>2
  <2>4. Above(j - 1) # <<>> /\ Tail(Above(j - 1)) = Above(j)
    BY <2>2, AboveIs
  <2>5. QED
    BY <2>1, <2>3, <2>4, ZoneIs
<1>3. QED
  BY <1>2

\* The owner next in the order of the hashes, or the first one after the last.
LEMMA NextIs ==
  ASSUME ProofInv, NEW o \in Owns
  PROVE  LET next == Proof!NextOwner(o) IN
         /\ next \in Owns
         /\ \/ /\ hash[next] > hash[o]
               /\ \A p \in Owns : hash[p] > hash[o] => hash[next] <= hash[p]
            \/ /\ \A p \in Owns : hash[p] <= hash[o]
               /\ \A p \in Owns : hash[next] <= hash[p]
<1> DEFINE later == {p \in Owns : hash[p] > hash[o]}
           from == IF later = {} THEN Owns ELSE later
           next == Proof!NextOwner(o)
<1>1. \A p \in Owns : hash[p] \in Nat
  BY ZoneIs
<1>2. \E p \in from : \A q \in from : hash[p] <= hash[q]
  <2> DEFINE S == {hash[p] : p \in from}
  <2>1. S \subseteq Nat /\ S # {}
    BY <1>1
  <2>2. PICK m \in S : \A k \in S : m <= k
    <3> HIDE DEF S
    <3>1. QED
      BY <2>1, LeastExists
  <2>3. QED
    BY <2>2
<1>3. next \in from /\ \A q \in from : hash[next] <= hash[q]
  BY <1>2 DEF Proof!NextOwner, Owns
<1> HIDE DEF next
<1>4. CASE later = {}
  <2>1. next \in Owns /\ \A q \in Owns : hash[next] <= hash[q]
    BY <1>3, <1>4
  <2>2. \A p \in Owns : ~(hash[p] > hash[o])
    BY <1>4
  <2>3. \A p \in Owns : hash[p] <= hash[o]
    BY <1>1, <2>2
  <2>4. QED
    BY <2>1, <2>3 DEF next
<1>5. CASE later # {}
  <2>1. next \in later /\ \A q \in later : hash[next] <= hash[q]
    BY <1>3, <1>5
  <2>2. QED
    BY <2>1 DEF next
<1>6. QED
  BY <1>4, <1>5 DEF next

\* Records only match names of the zone, and cover none.
LEMMA RecordsAreTrue ==
  ASSUME ProofInv, NEW n \in Names
  PROVE  /\ Proof!Matching(proof, n) <=> n \in proof
         /\ Proof!Covering(proof, n) => n \notin Owns
<1>1. proof \subseteq Owns
  BY DEF ProofInv
<1>2. Proof!Matching(proof, n) <=> n \in proof
  BY <1>1, ZoneIs DEF Proof!Matching
<1>3. ASSUME n \in Owns, NEW o \in proof, Proof!HashCovered(hash[n], hash[o], hash[Proof!NextOwner(o)])
      PROVE  FALSE
  <2> DEFINE next == Proof!NextOwner(o)
  <2>1. o \in Owns /\ hash[o] \in Nat /\ hash[n] \in Nat
    BY <1>1, ZoneIs
  <2>2. next \in Owns
        /\ \/ /\ hash[next] > hash[o]
              /\ \A p \in Owns : hash[p] > hash[o] => hash[next] <= hash[p]
           \/ /\ \A p \in Owns : hash[p] <= hash[o]
              /\ \A p \in Owns : hash[next] <= hash[p]
    BY <2>1, NextIs
  <2>3. hash[next] \in Nat
    BY <2>2, ZoneIs
  <2>4. \/ hash[o] < hash[next] /\ hash[o] < hash[n] /\ hash[n] < hash[next]
        \/ hash[o] > hash[next] /\ (hash[n] > hash[o] \/ hash[n] < hash[next])
    BY <1>3 DEF Proof!HashCovered
  <2> HIDE DEF next
  <2>5. QED
    BY <1>3, <2>1, <2>2, <2>3, <2>4
<1>4. QED
  BY <1>2, <1>3 DEF Proof!Covering

\* What the code takes for the closest encloser is the first name above that matches.
LEMMA ClosestIs ==
  ASSUME ProofInv, NEW first \in {1, 2}
  PROVE  LET at == Proof!Closest(proof, Asked, first) IN
         \/ at = 0 /\ \A i \in first..(Len(Asked) + 1) : Above(i) \notin proof
         \/ /\ at \in first..(Len(Asked) + 1) /\ Above(at) \in proof
            /\ \A i \in first..(Len(Asked) + 1) : i < at => Above(i) \notin proof
<1> DEFINE matched == {i \in first..(Len(Asked) + 1) : Above(i) \in proof}
           at == Proof!Closest(proof, Asked, first)
<1>1. Len(Asked) \in Nat /\ matched \subseteq Nat
  BY AboveIs
<1>2. \A i \in first..(Len(Asked) + 1) : Proof!Matching(proof, Above(i)) <=> Above(i) \in proof
  <2>1. \A i \in first..(Len(Asked) + 1) : Above(i) \in Names
    BY <1>1, AboveIs
  <2>2. QED
    BY <2>1, RecordsAreTrue
<1>3. at = IF matched = {} THEN 0 ELSE Proof!Min(matched)
  BY <1>2 DEF Proof!Closest, Above
<1>4. CASE matched = {}
  BY <1>3, <1>4
<1>5. CASE matched # {}
  <2>1. at \in matched /\ \A k \in matched : at <= k
    <3> HIDE DEF matched
    <3>1. QED
      BY <1>1, <1>3, <1>5, LeastExists DEF Proof!Min
  <2> HIDE DEF at
  <2>2. at \in first..(Len(Asked) + 1) /\ Above(at) \in proof /\ at \in Nat
    BY <1>1, <2>1
  <2>3. \A i \in first..(Len(Asked) + 1) : i < at => Above(i) \notin proof
    BY <1>1, <2>1, <2>2
  <2>4. QED
    BY <2>2, <2>3 DEF at
<1>6. QED
  BY <1>4, <1>5

\* Proof!Encloser by its position: the first proper ancestor that exists.
LEMMA EncloserIs ==
  ASSUME ProofInv, Asked # <<>>
  PROVE  \E k \in 2..(Len(Asked) + 1) :
           /\ Proof!Encloser(Asked) = Above(k) /\ Proof!Exists(Above(k))
           /\ \A j \in 2..(k - 1) : ~Proof!Exists(Above(j))
<1> DEFINE there == {i \in 2..(Len(Asked) + 1) : Proof!Exists(Above(i))}
           First(i) == Proof!Exists(Above(i)) /\ \A j \in 2..(i - 1) : ~Proof!Exists(Above(j))
<1>1. Len(Asked) \in Nat /\ Len(Asked) # 0
  BY AboveIs
<1>2. Len(Asked) + 1 \in there
  BY <1>1, AboveIs, ZoneIs DEF Proof!Exists, Owns
<1>3. PICK k \in there : \A j \in there : k <= j
  <2>1. there \subseteq Nat /\ there # {}
    BY <1>1, <1>2
  <2> HIDE DEF there
  <2>2. QED
    BY <2>1, LeastExists
<1>4. k \in 2..(Len(Asked) + 1) /\ First(k)
  BY <1>1, <1>3
<1>5. Proof!Encloser(Asked) = Above(CHOOSE i \in 2..(Len(Asked) + 1) : First(i))
  BY DEF Proof!Encloser, Above
<1> HIDE DEF First
<1>6. PICK c \in 2..(Len(Asked) + 1) : Proof!Encloser(Asked) = Above(c) /\ First(c)
  BY <1>4, <1>5
<1>7. QED
  BY <1>6 DEF First

\* Accepted denials are true.
LEMMA AcceptedAreTrue ==
  ASSUME ProofInv
  PROVE  Proof!DenialsAreTrue
<1> SUFFICES ASSUME verdict = "proved"
             PROVE  /\ ~Proof!Answers(Asked)
                    /\ ~Proof!Exists(Asked) /\ ~Proof!OptOut =>
                         ~Proof!Answers(Proof!Wildcard(Proof!Encloser(Asked)))
                    /\ question.rcode = "NXDOMAIN" => Asked \notin Owns
  BY DEF Proof!DenialsAreTrue, Asked, Owns
<1> DEFINE first == IF question.rcode = "NXDOMAIN" THEN 2 ELSE 1
           at == Proof!Closest(proof, Asked, first)
<1>1. /\ at # 0
      /\ Proof!WildcardDenied(proof, Above(at))
      /\ IF question.rcode = "NXDOMAIN" THEN Proof!NameDenied(proof, Asked, at)
         ELSE Proof!TypeDenied(proof, Asked)
  BY DEF ProofInv, Accepted, Proof!Proves, Above
<1>2. at \in first..(Len(Asked) + 1) /\ Above(at) \in proof /\ Above(at) \in Owns
  BY <1>1, ClosestIs DEF ProofInv
<1> HIDE DEF at
<1>3. /\ Len(Asked) \in Nat /\ at \in Nat /\ at >= 1
      /\ at \in 1..(Len(Asked) + 1) /\ 1 \in 1..(Len(Asked) + 1)
      /\ Above(1) = Asked /\ Asked \in Names
  <2>1. Len(Asked) \in Nat /\ Above(1) = Asked
    BY AboveIs
  <2>2. at \in Nat /\ at >= 1 /\ at \in 1..(Len(Asked) + 1) /\ 1 \in 1..(Len(Asked) + 1)
    BY <1>2, <2>1
  <2>3. Above(1) \in Names
    BY <2>2, AboveIs
  <2>4. QED
    BY <2>1, <2>2, <2>3
<1>4. ~Proof!Answers(Proof!Wildcard(Above(at)))
  <2>1. Proof!Wildcard(Above(at)) \in Names
    BY <1>3, AboveIs
  <2>2. QED
    BY <1>1, <2>1, RecordsAreTrue DEF Proof!WildcardDenied, Proof!Answers, Owns
<1>5. CASE question.rcode = "NXDOMAIN"
  <2>1. at \in 2..(Len(Asked) + 1) /\ at - 1 \in 1..(Len(Asked) + 1)
    BY <1>2, <1>3, <1>5
  <2>2. Above(at - 1) \notin Owns
    <3>1. Above(at - 1) \in Names /\ Proof!Covering(proof, Above(at - 1))
      BY <1>1, <1>5, <2>1, AboveIs DEF Proof!NameDenied, Above
    <3>2. QED
      BY <3>1, RecordsAreTrue
  <2>3. \A j \in 1..(at - 1) : Above(j) \notin Owns
    <3> SUFFICES ASSUME NEW j \in 1..(at - 1), Above(j) \in Owns
                 PROVE  FALSE
      OBVIOUS
    <3>1. j \in 1..(Len(Asked) + 1) /\ at - 1 \in j..(Len(Asked) + 1)
      BY <1>3, <2>1
    <3>2. QED
      BY <2>2, <3>1, OwnersReachUp
  <2>4. Asked \notin Owns
    BY <1>3, <2>1, <2>3
  <2>5. ASSUME ~Proof!OptOut
        PROVE  Proof!Encloser(Asked) = Above(at)
    <3>1. \A n : Proof!Exists(n) <=> n \in Owns
      BY <2>5 DEF Proof!OptOut, Proof!Exists, Owns
    <3>2. Asked # <<>>
      BY <2>4, ZoneIs
    <3>3. PICK k \in 2..(Len(Asked) + 1) :
            /\ Proof!Encloser(Asked) = Above(k) /\ Above(k) \in Owns
            /\ \A j \in 2..(k - 1) : Above(j) \notin Owns
      BY <3>1, <3>2, EncloserIs
    <3>4. ~(k < at)
      BY <1>3, <2>1, <2>3, <3>3
    <3>5. ~(at < k)
      BY <1>2, <1>3, <2>1, <3>3
    <3>6. k = at
      BY <1>3, <3>3, <3>4, <3>5
    <3>7. QED
      BY <3>3, <3>6
  <2>6. QED
    BY <1>4, <2>4, <2>5 DEF Proof!Answers, Owns
<1>6. CASE question.rcode # "NXDOMAIN"
  <2>1. Proof!TypeDenied(proof, Asked)
    BY <1>1, <1>6
  <2>2. CASE Asked \in proof
    <3>1. ~Proof!HasTypeOrAlias(Asked) /\ Asked \in Owns
      BY <1>3, <2>1, <2>2, RecordsAreTrue DEF Proof!TypeDenied, ProofInv
    <3>2. QED
      BY <1>6, <3>1 DEF Proof!Answers, Proof!Exists, Owns
  <2>3. CASE Asked \notin proof
    <3>1. Proof!OptOut /\ Asked \notin Owns
      BY <1>3, <2>1, <2>3, RecordsAreTrue DEF Proof!TypeDenied
    <3>2. QED
      BY <1>6, <3>1 DEF Proof!Answers, Owns
  <2>4. QED
    BY <2>2, <2>3
<1>7. QED
  BY <1>5, <1>6

\* The owner with the greatest hash of some.
LEMMA GreatestExists ==
  ASSUME ProofInv, NEW S, S \subseteq Owns, S # {}
  PROVE  \E o \in S : \A p \in S : hash[p] <= hash[o]
<1> DEFINE beyond(o) == {p \in S : hash[p] > hash[o]}
           counts == {Cardinality(beyond(o)) : o \in S}
<1>1. \A o \in S : hash[o] \in Nat
  BY ZoneIs
<1>2. IsFiniteSet(S)
  BY ZoneIs, FS_Subset
<1>3. \A o \in S : IsFiniteSet(beyond(o)) /\ Cardinality(beyond(o)) \in Nat
  BY <1>2, FS_Subset, FS_CardinalityType
<1>4. PICK o \in S : \A p \in S : Cardinality(beyond(o)) <= Cardinality(beyond(p))
  <2>1. counts \subseteq Nat /\ counts # {}
    BY <1>3
  <2>2. PICK m \in counts : \A k \in counts : m <= k
    <3> HIDE DEF counts
    <3>1. QED
      BY <2>1, LeastExists
  <2> HIDE DEF beyond
  <2>3. QED
    BY <2>2
<1>5. ASSUME NEW p \in S, hash[p] > hash[o]
      PROVE  FALSE
  <2>1. p \in beyond(o) /\ p \notin beyond(p)
    BY <1>1, <1>5
  <2>2. beyond(p) \subseteq beyond(o)
    BY <1>1, <1>5
  <2>3. Cardinality(beyond(p)) <= Cardinality(beyond(o)) /\ Cardinality(beyond(p)) # Cardinality(beyond(o))
    BY <1>3, <2>1, <2>2, FS_Subset
  <2> HIDE DEF beyond
  <2>4. QED
    BY <1>3, <1>4, <2>3
<1>6. QED
  BY <1>1, <1>5

\* The record a server sends for a name without one covers it.
LEMMA CoverCovers ==
  ASSUME ProofInv, NEW n \in Names \ Owns, Cardinality(Owns) > 1, Proof!Cover(n) \in proof
  PROVE  Proof!Covering(proof, n)
<1> DEFINE before == {p \in Owns : hash[p] < hash[n]}
           from == IF before = {} THEN Owns ELSE before
           o == Proof!Cover(n)
           next == Proof!NextOwner(o)
<1>1. \A p \in Owns : hash[p] \in Nat /\ hash[p] # hash[n]
  BY ZoneIs
<1>2. hash[n] \in Nat
  BY ZoneIs
<1>3. o \in from /\ \A p \in from : hash[p] <= hash[o]
  <2>1. from \subseteq Owns /\ from # {}
    BY ZoneIs
  <2>2. QED
    BY <2>1, GreatestExists DEF Proof!Cover, Owns
<1> HIDE DEF o
<1>4. o \in Owns
  BY <1>3
<1>5. /\ next \in Owns
      /\ \/ /\ hash[next] > hash[o]
            /\ \A p \in Owns : hash[p] > hash[o] => hash[next] <= hash[p]
         \/ /\ \A p \in Owns : hash[p] <= hash[o]
            /\ \A p \in Owns : hash[next] <= hash[p]
  BY <1>4, NextIs
<1> HIDE DEF next
<1>6. PICK other \in Owns : hash[other] # hash[o]
  <2>1. PICK other \in Owns : other # o
    <3>1. Owns # {o}
      <4>1. Cardinality({o}) = 1
        BY FS_Singleton
      <4>2. QED
        BY <4>1
    <3>2. QED
      BY <1>4, <3>1
  <2>2. QED
    BY <1>4, <2>1, ZoneIs
<1>7. Proof!HashCovered(hash[n], hash[o], hash[next])
  <2>1. CASE before # {}
    <3>1. hash[o] < hash[n] /\ \A p \in Owns : hash[p] < hash[n] => hash[p] <= hash[o]
      BY <1>3, <2>1
    <3>2. CASE hash[next] > hash[o]
      <4>1. ~(hash[next] < hash[n])
        BY <1>1, <1>4, <1>5, <3>1, <3>2
      <4>2. hash[n] < hash[next] /\ hash[o] < hash[next]
        BY <1>1, <1>2, <1>4, <1>5, <3>2, <4>1
      <4>3. QED
        BY <3>1, <4>2 DEF Proof!HashCovered
    <3>3. CASE ~(hash[next] > hash[o])
      <4>1. hash[next] <= hash[other] /\ hash[other] <= hash[o]
        BY <1>5, <3>3
      <4>2. hash[o] > hash[next]
        BY <1>1, <1>4, <1>5, <1>6, <4>1
      <4>3. hash[n] > hash[o]
        BY <1>1, <1>2, <1>4, <3>1
      <4>4. QED
        BY <4>2, <4>3 DEF Proof!HashCovered
    <3>4. QED
      BY <3>2, <3>3
  <2>2. CASE before = {}
    <3>1. \A p \in Owns : hash[p] <= hash[o] /\ hash[n] < hash[p]
      BY <1>1, <1>2, <1>3, <2>2
    <3>2. hash[next] <= hash[other] /\ hash[other] <= hash[o]
      BY <1>1, <1>4, <1>5, <3>1
    <3>3. hash[o] > hash[next]
      BY <1>1, <1>4, <1>5, <1>6, <3>2
    <3>4. QED
      BY <1>5, <3>1, <3>3 DEF Proof!HashCovered
  <2>3. QED
    BY <2>1, <2>2
<1>8. QED
  BY <1>7 DEF Proof!Covering, o, next

LEMMA CountIs == \A S : Proof!Cardinality(S) = Cardinality(S)
  BY DEF Proof!Cardinality, Cardinality

\* What a server sends for a name that does not exist is accepted.
LEMMA MissingAreAccepted ==
  ASSUME ProofInv
  PROVE  Proof!MissingNamesAreProved
<1> DEFINE c == Proof!Encloser(Asked)
           nextCloser == SubSeq(Asked, Len(Asked) - Len(c), Len(Asked))
<1> SUFFICES ASSUME verdict = "refused", question.rcode = "NXDOMAIN", ~Proof!Exists(Asked),
                    Cardinality(Owns) > 1, Proof!Wildcard(c) \notin Owns,
                    proof = {c, Proof!Cover(nextCloser), Proof!Cover(Proof!Wildcard(c))}
             PROVE  FALSE
  <2>1. Proof!NameErrorProof(Asked, proof) <=>
          proof = {c, Proof!Cover(nextCloser), Proof!Cover(Proof!Wildcard(c))}
    BY DEF Proof!NameErrorProof
  <2> HIDE DEF nextCloser, c
  <2>2. QED
    BY <2>1, CountIs DEF Proof!MissingNamesAreProved, Asked, Owns, c
<1>1. Asked # <<>>
  BY ZoneIs DEF Proof!Exists, Owns
<1>2. PICK k \in 2..(Len(Asked) + 1) :
        /\ c = Above(k) /\ Proof!Exists(Above(k))
        /\ \A j \in 2..(k - 1) : ~Proof!Exists(Above(j))
  BY <1>1, EncloserIs
<1> HIDE DEF c
<1>3. /\ Len(Asked) \in Nat /\ k \in Nat /\ k >= 2 /\ k \in 1..(Len(Asked) + 1)
      /\ k - 1 \in 1..(Len(Asked) + 1)
  <2>1. Len(Asked) \in Nat
    BY AboveIs
  <2>2. QED
    BY <1>2, <2>1
<1>4. c \in proof /\ c \in Owns /\ proof \subseteq Owns
  BY DEF ProofInv
<1>5. \A j \in 1..(k - 1) : Above(j) \notin Owns
  <2> SUFFICES ASSUME NEW j \in 1..(k - 1) PROVE Above(j) \notin Owns
    OBVIOUS
  <2>1. CASE j = 1
    BY <2>1, AboveIs DEF Proof!Exists, Owns
  <2>2. CASE j # 1
    <3>1. j \in 2..(k - 1)
      BY <1>3, <2>2
    <3>2. QED
      BY <1>2, <3>1 DEF Proof!Exists, Owns
  <2>3. QED
    BY <2>1, <2>2
<1>6. Proof!Closest(proof, Asked, 2) = k
  <2> DEFINE at == Proof!Closest(proof, Asked, 2)
  <2>1. \/ at = 0 /\ \A i \in 2..(Len(Asked) + 1) : Above(i) \notin proof
        \/ /\ at \in 2..(Len(Asked) + 1) /\ Above(at) \in proof
           /\ \A i \in 2..(Len(Asked) + 1) : i < at => Above(i) \notin proof
    BY ClosestIs
  <2> HIDE DEF at
  <2>2. Above(k) \in proof
    BY <1>2, <1>4
  <2>3. at \in 2..(Len(Asked) + 1) /\ Above(at) \in Owns /\ ~(k < at)
    BY <1>2, <1>4, <2>1, <2>2
  <2>4. ~(at < k)
    BY <1>3, <1>5, <2>3
  <2>5. at = k
    BY <1>3, <2>3, <2>4
  <2>6. QED
    BY <2>5 DEF at
<1>7. Proof!WildcardDenied(proof, Above(k))
  <2>1. Proof!Wildcard(c) \in Names \ Owns
    BY <1>2, <1>3, AboveIs
  <2>2. Proof!Covering(proof, Proof!Wildcard(c))
    BY <2>1, CoverCovers
  <2>3. ~Proof!Matching(proof, Proof!Wildcard(c))
    BY <1>4, <2>1, RecordsAreTrue
  <2>4. QED
    BY <1>2, <2>2, <2>3 DEF Proof!WildcardDenied
<1>8. Proof!NameDenied(proof, Asked, k)
  <2>1. nextCloser = Above(k - 1)
    <3>1. Len(c) = Len(Asked) - k + 1
      BY <1>2, <1>3, AboveIs
    <3>2. Len(Asked) - Len(c) = k - 1
      BY <1>3, <3>1
    <3>3. Above(k - 1) = SubSeq(Asked, k - 1, Len(Asked))
      BY <1>3, AboveIs
    <3>4. QED
      BY <3>2, <3>3
  <2> HIDE DEF nextCloser
  <2>2. Above(k - 1) \in Names \ Owns
    BY <1>3, <1>5, AboveIs
  <2>3. Proof!Covering(proof, Above(k - 1))
    BY <2>1, <2>2, CoverCovers
  <2>4. QED
    BY <2>3 DEF Proof!NameDenied, Above
<1>9. Proof!Proves(proof, Asked, question.rcode)
  <2>1. k # 0 /\ proof # {}
    BY <1>3, <1>4
  <2>2. Proof!WildcardDenied(proof, Proof!Candidates(Asked)[k])
    BY <1>7 DEF Above
  <2>3. QED
    BY <1>6, <1>8, <2>1, <2>2 DEF Proof!Proves
<1>10. QED
  BY <1>9 DEF ProofInv, Accepted

\* A denial is accepted exactly when it should be, for every zone, every order of the
\* hashes, every name and whatever records of the zone an answer brings: what is accepted
\* is true, and what a server sends for a name that is missing is accepted.
THEOREM DenialsExact == Spec => []DenialsAreExact
<1> DEFINE Inv == part = "proof" => ProofInv
<1>1. Init => Inv
  BY DEF Init, Proof!Init, ProofInv, Owns
<1>2. Inv /\ [Next]_<<part, anchorVars, validatorVars, proofVars>> => Inv'
  <2> SUFFICES ASSUME Inv, [Next]_<<part, anchorVars, validatorVars, proofVars>>, part' = "proof"
               PROVE  ProofInv'
    OBVIOUS
  <2>0. part = "proof" /\ ProofInv
    BY DEF Next
  <2>1. ASSUME UNCHANGED <<nsecZone, hash, question, proof>>
        PROVE  (Accepted' <=> Accepted) /\ Owns' = Owns
    BY <2>1 DEF Accepted, Owns, Proof!Owners, Proof!Proves, Proof!Closest, Proof!Matching,
       Proof!Candidates, Proof!WildcardDenied, Proof!NameDenied, Proof!TypeDenied,
       Proof!Covering, Proof!NextOwner, Proof!HasTypeOrAlias, Proof!OptOut, Proof!Wildcard, Asked
  <2>2. CASE Proof!Judge
    <3>1. /\ UNCHANGED <<nsecZone, hash, question, proof>>
          /\ verdict' = IF Accepted THEN "proved" ELSE "refused"
      BY <2>2 DEF Proof!Judge, Asked, Accepted
    <3>2. QED
      BY <2>0, <2>1, <3>1 DEF ProofInv
  <2>3. CASE UNCHANGED proofVars
    <3>1. UNCHANGED <<nsecZone, hash, question, proof>> /\ verdict' = verdict
      BY <2>3 DEF proofVars
    <3>2. QED
      BY <2>0, <2>1, <3>1 DEF ProofInv
  <2>4. QED
    BY <2>0, <2>2, <2>3 DEF Next, Proof!Next
<1>3. Inv => DenialsAreExact
  BY AcceptedAreTrue, MissingAreAccepted DEF DenialsAreExact
<1>4. QED
  BY <1>1, <1>2, <1>3, PTL DEF Spec

=============================================================================
