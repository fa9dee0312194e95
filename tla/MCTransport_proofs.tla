--------------------------- MODULE MCTransport_proofs ---------------------------
(***************************************************************************)
(* What MCTransport checks of the QUIC session and of the forwarding modes *)
(* holds for every number of callers and connections, every list of        *)
(* upstreams and every bound.                                              *)
(***************************************************************************)
EXTENDS MCTransport, TLAPS, FiniteSetTheorems, SequenceTheorems

-----------------------------------------------------------------------------
(* The QUIC session *)

\* Those who hold or wait for the lock are the queries under way, and only the
\* holder uses the connection.
LineInv ==
    /\ \A c \in Callers : quicPc[c] \in {"queued", "connecting", "asking", "closing"}
                            <=> \E i \in DOMAIN queue : queue[i] = c
    /\ \A c \in Callers : quicPc[c] \in {"connecting", "asking", "closing"}
                            => queue # <<>> /\ Head(queue) = c
    /\ \A c \in Callers : IF quicPc[c] = "asking" THEN via[c] \in Links ELSE via[c] = None

\* The session keeps no connection that is known to be of no use, and a query without
\* an excuse uses one that works or that nobody has found broken yet.
BlameInv ==
    /\ session.link # None => session.link \notin suspect /\ link[session.link] # "closed"
    /\ \A c \in Callers :
        /\ quicPc[c] # "idle" /\ ~quicUp => blame[c] # "none"
        /\ quicPc[c] \in {"closing", "fallback"} => blame[c] # "none"
        /\ quicPc[c] = "asking" /\ blame[c] = "none" =>
             link[via[c]] = "live" \/ (link[via[c]] = "lost" /\ via[c] \notin suspect)

QuicInv == Quic!TypeOK /\ LineInv /\ BlameInv

LEMMA RemoveAtIs ==
  ASSUME NEW S, NEW q \in Seq(S), NEW i \in DOMAIN q, Quic!IsInjective(q)
  PROVE  LET r == Quic!RemoveAt(q, i) IN
         /\ r \in Seq(S) /\ Quic!IsInjective(r)
         /\ \A x : (\E j \in DOMAIN r : r[j] = x) <=> (x # q[i] /\ \E j \in DOMAIN q : q[j] = x)
         /\ i # 1 => r # <<>> /\ Head(r) = Head(q)
<1> DEFINE r == Quic!RemoveAt(q, i)
           n == Len(q)
<1>1. n \in Nat /\ DOMAIN q = 1..n /\ i \in 1..n
  OBVIOUS
<1>2. SubSeq(q, 1, i - 1) \in Seq(S) /\ Len(SubSeq(q, 1, i - 1)) = i - 1
      /\ \A j \in 1..(i - 1) : SubSeq(q, 1, i - 1)[j] = q[j]
  BY SubSeqProperties
<1>3. SubSeq(q, i + 1, n) \in Seq(S) /\ Len(SubSeq(q, i + 1, n)) = n - i
      /\ \A j \in 1..(n - i) : SubSeq(q, i + 1, n)[j] = q[i + j]
  BY SubSeqProperties
<1>4. r \in Seq(S) /\ Len(r) = n - 1
      /\ \A j \in 1..(n - 1) : r[j] = IF j < i THEN q[j] ELSE q[j + 1]
  <2> DEFINE a == SubSeq(q, 1, i - 1)
             b == SubSeq(q, i + 1, n)
  <2>1. r = a \o b
    BY DEF Quic!RemoveAt
  <2> HIDE DEF a, b, r
  <2>2. a \in Seq(S) /\ b \in Seq(S) /\ Len(a) = i - 1 /\ Len(b) = n - i
    BY <1>2, <1>3 DEF a, b
  <2>3. (\A j \in 1..(i - 1) : a[j] = q[j]) /\ \A j \in 1..(n - i) : b[j] = q[i + j]
    BY <1>2, <1>3 DEF a, b
  <2>4. r \in Seq(S) /\ Len(r) = Len(a) + Len(b)
        /\ \A j \in 1..(Len(a) + Len(b)) : r[j] = IF j <= Len(a) THEN a[j] ELSE b[j - Len(a)]
    BY ONLY <2>1, <2>2, ConcatProperties
  <2>5. Len(a) + Len(b) = n - 1
    BY ONLY <1>1, <2>2
  <2>6. \A j \in 1..(n - 1) : r[j] = IF j < i THEN q[j] ELSE q[j + 1]
    <3> SUFFICES ASSUME NEW j \in 1..(n - 1) PROVE r[j] = IF j < i THEN q[j] ELSE q[j + 1]
      OBVIOUS
    <3>1. CASE j < i
      <4>1. j \in 1..(i - 1) /\ j <= Len(a) /\ j \in 1..(Len(a) + Len(b))
        BY ONLY <1>1, <2>2, <2>5, <3>1, j \in 1..(n - 1)
      <4>2. r[j] = a[j]
        BY ONLY <2>4, <4>1
      <4>3. QED
        BY ONLY <2>3, <3>1, <4>1, <4>2
    <3>2. CASE ~(j < i)
      <4>1. /\ j - (i - 1) \in 1..(n - i) /\ ~(j <= Len(a)) /\ j \in 1..(Len(a) + Len(b))
            /\ j - Len(a) = j - (i - 1) /\ i + (j - (i - 1)) = j + 1
        BY ONLY <1>1, <2>2, <2>5, <3>2, j \in 1..(n - 1)
      <4>2. r[j] = b[j - (i - 1)]
        BY ONLY <2>4, <4>1
      <4>3. QED
        BY ONLY <2>3, <3>2, <4>1, <4>2
    <3>3. QED
      BY <3>1, <3>2
  <2>7. QED
    BY <2>4, <2>5, <2>6
<1> HIDE DEF r
<1>5. \A j \in 1..n : q[j] = q[i] => j = i
  BY DEF Quic!IsInjective
<1>b. /\ DOMAIN r = 1..(n - 1)
      /\ \A j \in 1..(n - 1) : \/ j < i /\ j \in 1..n /\ r[j] = q[j]
                               \/ i <= j /\ j + 1 \in 1..n /\ r[j] = q[j + 1]
  <2>1. DOMAIN r = 1..(n - 1)
    BY <1>1, <1>4
  <2>2. ASSUME NEW j \in 1..(n - 1)
        PROVE  \/ j < i /\ j \in 1..n /\ r[j] = q[j]
               \/ i <= j /\ j + 1 \in 1..n /\ r[j] = q[j + 1]
    <3>1. r[j] = IF j < i THEN q[j] ELSE q[j + 1]
      BY <1>4
    <3>2. QED
      BY ONLY <1>1, <3>1, j \in 1..(n - 1)
  <2>3. QED
    BY <2>1, <2>2
<1>6. Quic!IsInjective(r)
  <2>1. \A j, k \in 1..n : q[j] = q[k] => j = k
    BY <1>1 DEF Quic!IsInjective
  <2>2. ASSUME NEW j \in 1..(n - 1), NEW k \in 1..(n - 1), r[j] = r[k] PROVE j = k
    BY ONLY <1>1, <1>b, <2>1, <2>2, j \in 1..(n - 1), k \in 1..(n - 1)
  <2>3. QED
    BY <1>b, <2>2 DEF Quic!IsInjective
<1>7. \A x : (\E j \in DOMAIN r : r[j] = x) <=> (x # q[i] /\ \E j \in DOMAIN q : q[j] = x)
  <2>1. \A j \in 1..(n - 1) : r[j] # q[i] /\ \E k \in 1..n : q[k] = r[j]
    <3>1. ASSUME NEW j \in 1..(n - 1) PROVE r[j] # q[i] /\ \E k \in 1..n : q[k] = r[j]
      <4>1. PICK k \in 1..n : k # i /\ r[j] = q[k]
        BY ONLY <1>1, <1>b, j \in 1..(n - 1)
      <4>2. QED
        BY <1>5, <4>1
    <3>2. QED
      BY <3>1
  <2>2. \A k \in 1..n : k # i => \E j \in 1..(n - 1) : r[j] = q[k]
    <3> SUFFICES ASSUME NEW k \in 1..n, k # i PROVE \E j \in 1..(n - 1) : r[j] = q[k]
      OBVIOUS
    <3>1. CASE k < i
      BY <1>1, <1>4, <3>1
    <3>2. CASE k > i
      <4>1. k - 1 \in 1..(n - 1) /\ r[k - 1] = q[k]
        BY <1>1, <1>4, <3>2
      <4>2. QED
        BY <4>1
    <3>3. QED
      BY <1>1, <3>1, <3>2
  <2>3. DOMAIN r = 1..(n - 1)
    BY <1>1, <1>4
  <2>4. QED
    BY <1>1, <2>1, <2>2, <2>3
<1>8. i # 1 => r # <<>> /\ Head(r) = Head(q)
  BY <1>1, <1>4
<1>9. QED
  BY <1>4, <1>6, <1>7, <1>8 DEF r
LEMMA LeaveIs ==
  ASSUME QuicInv, NEW c \in Callers, quicPc[c] \in {"queued", "connecting", "asking", "closing"},
         Quic!Leave(c)
  PROVE  /\ queue' \in Seq(Callers) /\ Quic!IsInjective(queue)'
         /\ \A d \in Callers : (\E i \in DOMAIN queue' : queue'[i] = d)
                                 <=> (d # c /\ \E i \in DOMAIN queue : queue[i] = d)
         /\ \A d \in Callers : d # c /\ queue # <<>> /\ Head(queue) = d
                                 => queue' # <<>> /\ Head(queue') = d
<1> DEFINE i == CHOOSE j \in DOMAIN queue : queue[j] = c
           r == Quic!RemoveAt(queue, i)
<1>1. i \in DOMAIN queue /\ queue[i] = c /\ queue' = r
  BY DEF Quic!Leave, QuicInv, LineInv
<1>2. queue \in Seq(Callers) /\ Quic!IsInjective(queue)
  BY DEF QuicInv, Quic!TypeOK
<1>3. \A d : d # c /\ queue # <<>> /\ Head(queue) = d => i # 1
  BY <1>1, <1>2
<1> HIDE DEF i
<1>4. /\ r \in Seq(Callers) /\ Quic!IsInjective(r)
      /\ \A x : (\E j \in DOMAIN r : r[j] = x) <=> (x # c /\ \E j \in DOMAIN queue : queue[j] = x)
      /\ i # 1 => r # <<>> /\ Head(r) = Head(queue)
  <2>1. \A k \in DOMAIN queue :
          LET s == Quic!RemoveAt(queue, k) IN
          /\ s \in Seq(Callers) /\ Quic!IsInjective(s)
          /\ \A x : (\E j \in DOMAIN s : s[j] = x) <=> (x # queue[k] /\ \E j \in DOMAIN queue : queue[j] = x)
          /\ k # 1 => s # <<>> /\ Head(s) = Head(queue)
    BY <1>2, RemoveAtIs
  <2>2. QED
    BY ONLY <1>1, <2>1
<1>5. Quic!IsInjective(queue)'
  <2>1. Quic!IsInjective(r) /\ queue' = r
    BY <1>1, <1>4
  <2> HIDE DEF r
  <2>2. QED
    BY <2>1 DEF Quic!IsInjective
<1> HIDE DEF r
<1>6. QED
  BY <1>1, <1>3, <1>4, <1>5

LEMMA QuicCardinality == \A S : Cardinality(S) = Quic!Cardinality(S)
  BY DEF Quic!Cardinality, Cardinality, Quic!IsFiniteSet, IsFiniteSet

\* There is always a connection that nobody uses.
LEMMA NewLinkIs ==
  Quic!NewLink \in Links /\ Quic!NewLink # session.link /\ \A c \in Callers : via[c] # Quic!NewLink
<1> DEFINE used == {via[c] : c \in Callers}
<1>1. IsFiniteSet(used) /\ Cardinality(used) <= Cardinality(Callers)
  <2> DEFINE f == [c \in Callers |-> via[c]]
  <2>1. f \in Surjection(Callers, used)
    BY DEF Surjection
  <2> HIDE DEF f, used
  <2>2. QED
    BY <2>1, LinksAssumption, FS_Surjection
<1>2. IsFiniteSet(used \cup {session.link}) /\ Cardinality(used \cup {session.link}) <= Cardinality(Callers) + 1
  <2>1. Cardinality(used) \in Nat /\ Cardinality(Callers) \in Nat
    BY <1>1, LinksAssumption, FS_CardinalityType
  <2>2. IsFiniteSet(used \cup {session.link})
        /\ Cardinality(used \cup {session.link}) \in {Cardinality(used), Cardinality(used) + 1}
    BY <1>1, FS_AddElement
  <2> HIDE DEF used
  <2>3. QED
    BY <1>1, <2>1, <2>2
<1>3. ~(Links \subseteq used \cup {session.link})
  <2>1. SUFFICES ASSUME Links \subseteq used \cup {session.link} PROVE FALSE
    OBVIOUS
  <2> HIDE DEF used
  <2>2. Cardinality(Links) <= Cardinality(used \cup {session.link})
    BY <1>2, <2>1, FS_Subset
  <2>3. Cardinality(Links) \in Nat /\ Cardinality(used \cup {session.link}) \in Nat
        /\ Cardinality(Callers) \in Nat
    BY <1>2, LinksAssumption, FS_CardinalityType
  <2>4. QED
    BY <1>2, <2>2, <2>3, LinksAssumption
<1>4. QED
  BY <1>3 DEF Quic!NewLink

LEMMA LineStep == QuicInv /\ [Quic!Next]_quicVars => LineInv'
<1> SUFFICES ASSUME QuicInv, [Quic!Next]_quicVars PROVE LineInv'
  OBVIOUS
<1> USE DEF QuicInv, LineInv, Quic!TypeOK, Quic!Goto, Quic!GiveUp, Quic!Holds
<1>1. ASSUME NEW c \in Callers, Quic!Ask(c) PROVE LineInv'
  <2>1. /\ quicPc[c] = "idle" /\ queue' = Append(queue, c)
        /\ quicPc' = [quicPc EXCEPT ![c] = "queued"] /\ via' = via
    BY <1>1 DEF Quic!Ask
  <2>2. /\ \A d \in Callers : (\E i \in DOMAIN queue' : queue'[i] = d)
                                <=> (d = c \/ \E i \in DOMAIN queue : queue[i] = d)
        /\ queue # <<>> => queue' # <<>> /\ Head(queue') = Head(queue)
    <3>1. queue \in Seq(Callers)
      OBVIOUS
    <3>2. QED
      BY ONLY <2>1, <3>1, AppendProperties, c \in Callers
  <2>3. QED
    BY <2>1, <2>2
<1>2. ASSUME NEW c \in Callers, Quic!AskPenalized(c) PROVE LineInv'
  BY <1>2 DEF Quic!AskPenalized
<1>3. ASSUME NEW c \in Callers, Quic!Cancel(c) PROVE LineInv'
  <2>1. /\ c \in waited /\ quicPc[c] \in {"queued", "connecting", "asking", "closing"}
        /\ Quic!Leave(c) /\ quicPc' = [quicPc EXCEPT ![c] = "fallback"]
        /\ via' = [via EXCEPT ![c] = None]
    BY <1>3 DEF Quic!Cancel
  <2>2. QED
    BY <2>1, LeaveIs
<1>4. ASSUME NEW c \in Callers, Quic!Refused(c) PROVE LineInv'
  BY <1>4 DEF Quic!Refused
<1>5. ASSUME NEW c \in Callers, Quic!Reuse(c) PROVE LineInv'
  BY <1>5 DEF Quic!Reuse
<1>6. ASSUME NEW c \in Callers, Quic!StartOver(c) PROVE LineInv'
  BY <1>6 DEF Quic!StartOver
<1>7. ASSUME NEW c \in Callers, Quic!Connect(c) PROVE LineInv'
  BY <1>7, NewLinkIs DEF Quic!Connect
<1>8. ASSUME NEW c \in Callers, Quic!ConnectFails(c) PROVE LineInv'
  BY <1>8, LeaveIs DEF Quic!ConnectFails
<1>9. ASSUME NEW c \in Callers, Quic!Answer(c) PROVE LineInv'
  BY <1>9, LeaveIs DEF Quic!Answer
<1>10. ASSUME NEW c \in Callers, Quic!Timeout(c) PROVE LineInv'
  BY <1>10 DEF Quic!Timeout
<1>11. ASSUME NEW c \in Callers, Quic!Closed(c) PROVE LineInv'
  BY <1>11, LeaveIs DEF Quic!Closed
<1>12. ASSUME NEW c \in Callers, Quic!FallBack(c) PROVE LineInv'
  BY <1>12 DEF Quic!FallBack
<1>13. CASE Quic!Sweep
  BY <1>13 DEF Quic!Sweep
<1>14. CASE Quic!GetIdle
  BY <1>14 DEF Quic!GetIdle
<1>15. CASE Quic!PenaltyEnds
  BY <1>15 DEF Quic!PenaltyEnds
<1>16. CASE Quic!GoDown
  BY <1>16 DEF Quic!GoDown
<1>17. CASE Quic!ComeUp
  BY <1>17 DEF Quic!ComeUp
<1>18. CASE UNCHANGED quicVars
  BY <1>18 DEF quicVars
<1>19. QED
  BY <1>1, <1>2, <1>3, <1>4, <1>5, <1>6, <1>7, <1>8, <1>9, <1>10, <1>11, <1>12, <1>13, <1>14,
     <1>15, <1>16, <1>17, <1>18 DEF Quic!Next, Quic!Task

SessionType == [link : Links \cup {None}, idle : BOOLEAN, failures : 0..(MaxFailures + 1),
                penalized : BOOLEAN]

LEMMA FailedIs ==
  session \in SessionType => [Quic!Failed(session) EXCEPT !.link = None] \in SessionType
<1> SUFFICES ASSUME session \in SessionType
             PROVE  [Quic!Failed(session) EXCEPT !.link = None] \in SessionType
  OBVIOUS
<1> DEFINE n == IF session.failures < MaxFailures THEN session.failures + 1 ELSE MaxFailures
           over == (session.penalized \/ n >= MaxFailures)
<1>1. n \in 0..(MaxFailures + 1)
  BY LinksAssumption DEF SessionType
<1>2. over \in BOOLEAN
  OBVIOUS
<1>3. Quic!Failed(session) = [session EXCEPT !.failures = n, !.penalized = over]
  BY DEF Quic!Failed
<1> HIDE DEF n, over
<1>4. QED
  BY <1>1, <1>2, <1>3 DEF SessionType

LEMMA QuicTypeStep == QuicInv /\ [Quic!Next]_quicVars => Quic!TypeOK'
<1> SUFFICES ASSUME QuicInv, [Quic!Next]_quicVars PROVE Quic!TypeOK'
  OBVIOUS
<1> USE DEF QuicInv, LineInv, Quic!TypeOK, Quic!Goto, Quic!GiveUp, Quic!Blame, Quic!Shut
<1>1. session \in SessionType
  BY DEF SessionType
<1>2. ASSUME NEW c \in Callers, Quic!Ask(c) PROVE Quic!TypeOK'
  <2>1. /\ queue' = Append(queue, c) /\ \A i \in DOMAIN queue : queue[i] # c
        /\ quicPc' = [quicPc EXCEPT ![c] = "queued"]
        /\ waited' \in {waited \ {c}, waited \cup {c}}
        /\ blame' \in {[blame EXCEPT ![c] = "none"], [blame EXCEPT ![c] = "outage"]}
        /\ UNCHANGED <<session, link, suspect, via, quicUp>>
    BY <1>2 DEF Quic!Ask
  <2>2. queue' \in Seq(Callers) /\ Quic!IsInjective(queue)'
    <3>1. queue \in Seq(Callers) /\ \A i, j \in DOMAIN queue : queue[i] = queue[j] => i = j
      BY DEF Quic!IsInjective
    <3>2. queue' \in Seq(Callers) /\ \A i, j \in DOMAIN queue' : queue'[i] = queue'[j] => i = j
      BY ONLY <2>1, <3>1, AppendProperties, c \in Callers
    <3>3. QED
      BY <3>2 DEF Quic!IsInjective
  <2>3. QED
    BY <2>1, <2>2
<1>3. ASSUME NEW c \in Callers, Quic!AskPenalized(c) PROVE Quic!TypeOK'
  BY <1>3 DEF Quic!AskPenalized
<1>4. ASSUME NEW c \in Callers, Quic!Cancel(c) PROVE Quic!TypeOK'
  BY <1>4, LeaveIs DEF Quic!Cancel
<1>5. ASSUME NEW c \in Callers, Quic!Refused(c) PROVE Quic!TypeOK'
  <2>1. session' = [Quic!Failed(session) EXCEPT !.link = None]
        /\ UNCHANGED <<queue, waited, quicUp>>
    BY <1>5 DEF Quic!Refused
  <2>2. QED
    BY <1>1, <1>5, <2>1, FailedIs DEF SessionType, Quic!Refused, Quic!IsInjective
<1>6. ASSUME NEW c \in Callers, Quic!Reuse(c) PROVE Quic!TypeOK'
  BY <1>6 DEF Quic!Reuse
<1>7. ASSUME NEW c \in Callers, Quic!StartOver(c) PROVE Quic!TypeOK'
  BY <1>7 DEF Quic!StartOver
<1>8. ASSUME NEW c \in Callers, Quic!Connect(c) PROVE Quic!TypeOK'
  BY <1>8, NewLinkIs DEF Quic!Connect
<1>9. ASSUME NEW c \in Callers, Quic!ConnectFails(c) PROVE Quic!TypeOK'
  BY <1>9, LeaveIs DEF Quic!ConnectFails
<1>10. ASSUME NEW c \in Callers, Quic!Answer(c) PROVE Quic!TypeOK'
  <2>1. /\ session' = [session EXCEPT !.idle = FALSE, !.failures = 0, !.penalized = FALSE]
        /\ quicPc' = [quicPc EXCEPT ![c] = "idle"] /\ via' = [via EXCEPT ![c] = None]
        /\ blame' = [blame EXCEPT ![c] = "none"] /\ quicPc[c] = "asking" /\ Quic!Leave(c)
        /\ UNCHANGED <<link, suspect, waited, quicUp>>
    BY <1>10 DEF Quic!Answer
  <2>2. queue' \in Seq(Callers) /\ Quic!IsInjective(queue)'
    BY <2>1, LeaveIs
  <2>3. session' \in SessionType
    <3>1. 0 \in 0..(MaxFailures + 1)
      BY LinksAssumption
    <3>2. session' = [session EXCEPT !.idle = FALSE, !.failures = 0, !.penalized = FALSE]
      BY <2>1
    <3>3. QED
      BY ONLY <1>1, <3>1, <3>2 DEF SessionType
  <2>4. QED
    BY <2>1, <2>2, <2>3 DEF SessionType
<1>11. ASSUME NEW c \in Callers, Quic!Timeout(c) PROVE Quic!TypeOK'
  <2>1. session' = [Quic!Failed(session) EXCEPT !.link = None]
        /\ UNCHANGED <<queue, waited, quicUp>>
    BY <1>11 DEF Quic!Timeout
  <2>2. QED
    BY <1>1, <1>11, <2>1, FailedIs DEF SessionType, Quic!Timeout, Quic!IsInjective
<1>12. ASSUME NEW c \in Callers, Quic!Closed(c) PROVE Quic!TypeOK'
  BY <1>12, LeaveIs DEF Quic!Closed
<1>13. ASSUME NEW c \in Callers, Quic!FallBack(c) PROVE Quic!TypeOK'
  BY <1>13 DEF Quic!FallBack
<1>14. CASE Quic!Sweep
  BY <1>14 DEF Quic!Sweep
<1>15. CASE Quic!GetIdle
  BY <1>15 DEF Quic!GetIdle
<1>16. CASE Quic!PenaltyEnds
  BY <1>16 DEF Quic!PenaltyEnds
<1>17. CASE Quic!GoDown
  BY <1>17 DEF Quic!GoDown
<1>18. CASE Quic!ComeUp
  BY <1>18 DEF Quic!ComeUp
<1>19. CASE UNCHANGED quicVars
  BY <1>19 DEF quicVars
<1>20. QED
  BY <1>2, <1>3, <1>4, <1>5, <1>6, <1>7, <1>8, <1>9, <1>10, <1>11, <1>12, <1>13, <1>14, <1>15,
     <1>16, <1>17, <1>18, <1>19 DEF Quic!Next, Quic!Task

LEMMA BlameStep == QuicInv /\ [Quic!Next]_quicVars => BlameInv'
<1> SUFFICES ASSUME QuicInv, [Quic!Next]_quicVars PROVE BlameInv'
  OBVIOUS
<1> USE DEF QuicInv, LineInv, BlameInv, Quic!TypeOK, Quic!Goto, Quic!GiveUp, Quic!Blame,
   Quic!Failed, Quic!Shut, Quic!Holds
<1>1. ASSUME NEW c \in Callers, Quic!Ask(c) PROVE BlameInv'
  BY <1>1 DEF Quic!Ask
<1>2. ASSUME NEW c \in Callers, Quic!AskPenalized(c) PROVE BlameInv'
  BY <1>2 DEF Quic!AskPenalized
<1>3. ASSUME NEW c \in Callers, Quic!Cancel(c) PROVE BlameInv'
  BY <1>3 DEF Quic!Cancel
<1>4. ASSUME NEW c \in Callers, Quic!Refused(c) PROVE BlameInv'
  BY <1>4 DEF Quic!Refused
<1>5. ASSUME NEW c \in Callers, Quic!Reuse(c) PROVE BlameInv'
  BY <1>5 DEF Quic!Reuse
<1>6. ASSUME NEW c \in Callers, Quic!StartOver(c) PROVE BlameInv'
  BY <1>6 DEF Quic!StartOver
<1>7. ASSUME NEW c \in Callers, Quic!Connect(c) PROVE BlameInv'
  BY <1>7, NewLinkIs DEF Quic!Connect
<1>8. ASSUME NEW c \in Callers, Quic!ConnectFails(c) PROVE BlameInv'
  BY <1>8 DEF Quic!ConnectFails
<1>9. ASSUME NEW c \in Callers, Quic!Answer(c) PROVE BlameInv'
  BY <1>9 DEF Quic!Answer
<1>10. ASSUME NEW c \in Callers, Quic!Timeout(c) PROVE BlameInv'
  BY <1>10 DEF Quic!Timeout
<1>11. ASSUME NEW c \in Callers, Quic!Closed(c) PROVE BlameInv'
  BY <1>11 DEF Quic!Closed
<1>12. ASSUME NEW c \in Callers, Quic!FallBack(c) PROVE BlameInv'
  BY <1>12 DEF Quic!FallBack
<1>13. CASE Quic!Sweep
  BY <1>13 DEF Quic!Sweep
<1>14. CASE Quic!GetIdle
  BY <1>14 DEF Quic!GetIdle
<1>15. CASE Quic!PenaltyEnds
  BY <1>15 DEF Quic!PenaltyEnds
<1>16. CASE Quic!GoDown
  BY <1>16 DEF Quic!GoDown
<1>17. CASE Quic!ComeUp
  BY <1>17 DEF Quic!ComeUp
<1>18. CASE UNCHANGED quicVars
  BY <1>18 DEF quicVars
<1>19. QED
  BY <1>1, <1>2, <1>3, <1>4, <1>5, <1>6, <1>7, <1>8, <1>9, <1>10, <1>11, <1>12, <1>13, <1>14,
     <1>15, <1>16, <1>17, <1>18 DEF Quic!Next, Quic!Task

LEMMA QuicInit == Quic!Init => QuicInv
<1> SUFFICES ASSUME Quic!Init PROVE QuicInv
  OBVIOUS
<1>1. /\ session = [link |-> None, idle |-> TRUE, failures |-> 0, penalized |-> FALSE]
      /\ queue = <<>> /\ quicUp = TRUE
      /\ link = [l \in Links |-> "closed"] /\ suspect = {} /\ waited = {}
      /\ quicPc = [c \in Callers |-> "idle"] /\ via = [c \in Callers |-> None]
      /\ blame = [c \in Callers |-> "none"]
  BY DEF Quic!Init
<1>2. queue \in Seq(Callers) /\ Quic!IsInjective(queue)
  BY <1>1 DEF Quic!IsInjective
<1>3. session \in SessionType
  BY <1>1, LinksAssumption DEF SessionType
<1>4. Quic!TypeOK
  BY <1>1, <1>2, <1>3 DEF Quic!TypeOK, SessionType
<1>5. LineInv /\ BlameInv
  BY <1>1 DEF LineInv, BlameInv
<1>6. QED
  BY <1>4, <1>5 DEF QuicInv

\* However callers, sweep, outages and cancelled waits interleave, a query falls
\* back only for a reason of its own; the types hold.
THEOREM QuicFailures == Spec => []FailuresHaveCause
<1>1. Init => QuicInv
  BY QuicInit DEF Init
<1>2. QuicInv /\ [Next]_<<part, poolVars, quicVars, forwardVars>> => QuicInv'
  <2>1. [Next]_<<part, poolVars, quicVars, forwardVars>> => [Quic!Next]_quicVars
    BY DEF Next
  <2>2. QED
    BY <2>1, LineStep, QuicTypeStep, BlameStep DEF QuicInv
<1>3. QuicInv => FailuresHaveCause
  BY DEF QuicInv, BlameInv, FailuresHaveCause, Quic!FailuresHaveCause
<1>4. QED
  BY <1>1, <1>2, <1>3, PTL DEF Spec

-----------------------------------------------------------------------------
(* The forwarding modes *)

\* The handlers that hold a slot of a semaphore, and of the fallback limiter.
Holding(s) == {h \in Handlers : bound[h] = s /\ pc[h] \in {"choosing", "asking", "racing"}}
Resorting == {h \in Handlers : pc[h] = "resort" /\ bound[h] = 0}
SlotInv ==
    /\ \A s \in DOMAIN semaphores : semaphores[s] + Cardinality(Holding(s)) = Slots
    /\ fallback + Cardinality(Resorting) = FallbackSlots
    /\ \A h \in Handlers : pc[h] \in {"waiting", "choosing", "asking", "racing"} => bound[h] > 0

\* What is reported of an upstream agrees with it, and a query that asks in turn has
\* asked each upstream it considers or has it still before it.
TaskFits(h, u) ==
    /\ task[h][u] \in {"answered", "writing ok"} => net[u] = "up"
    /\ task[h][u] \in {"failed", "writing error", "in error"} => net[u] # "up"
    /\ task[h][u] = "over" /\ pc[h] \in {"asking", "racing"} => net[u] = "up"
    /\ task[h][u] # "none" => u \in asked[h]
HandlerFits(h) ==
    /\ first[h] # None => net[first[h]] = "up"
    /\ pc[h] \in {"idle", "waiting", "choosing"} => asked[h] = {} /\ first[h] = None
    /\ pc[h] = "asking" =>
        /\ \A i \in DOMAIN order[h] : order[h][i] \in asked[h]
        /\ \A u \in asked[h] : task[h][u] # "none" \/ \E i \in DOMAIN order[h] : order[h][i] = u
        /\ mode[h] = "parallel_race" => \A u, v \in asked[h] : u = v
TaskInv == \A h \in Handlers : HandlerFits(h) /\ \A u \in Forward!All : TaskFits(h, u)

\* The throttle knows the failures that are recorded.
ThrottleInv == missed = {} /\ \A u \in Forward!All : "error" \in window[u] <=> u \in seen

LEMMA ForwardCardinality == \A S : Forward!Cardinality(S) = Cardinality(S)
  BY DEF Forward!Cardinality, Cardinality, Forward!IsFiniteSet, IsFiniteSet

LEMMA HoldersCount ==
  /\ \A s : IsFiniteSet(Holding(s)) /\ Cardinality(Holding(s)) \in Nat
  /\ IsFiniteSet(Resorting) /\ Cardinality(Resorting) \in Nat
<1>1. \A s : Holding(s) \in SUBSET Handlers
  BY DEF Holding
<1>2. Resorting \in SUBSET Handlers
  BY DEF Resorting
<1>3. QED
  BY <1>1, <1>2, UpstreamsAssumption, FS_Subset, FS_CardinalityType

\* A set that one member joins or leaves.
LEMMA OneMoves ==
  ASSUME NEW S, NEW T, NEW h, IsFiniteSet(S), Cardinality(S) \in Nat, \A g : g # h => (g \in S <=> g \in T)
  PROVE  /\ h \in S => Cardinality(S) >= 1
         /\ h \in S /\ h \notin T => Cardinality(T) = Cardinality(S) - 1
         /\ h \notin S /\ h \in T => Cardinality(T) = Cardinality(S) + 1
         /\ (h \in S <=> h \in T) => T = S
<1>1. h \in S /\ h \notin T => T = S \ {h}
  OBVIOUS
<1>2. h \notin S /\ h \in T => T = S \cup {h}
  OBVIOUS
<1>3. h \in S => Cardinality(S) >= 1
  <2>1. Cardinality(S \ {h}) \in Nat
    BY FS_RemoveElement, FS_CardinalityType
  <2>2. h \in S => Cardinality(S \ {h}) = Cardinality(S) - 1
    BY FS_RemoveElement
  <2>3. QED
    BY ONLY <2>1, <2>2, Cardinality(S) \in Nat
<1>4. h \in S /\ h \notin T => Cardinality(T) = Cardinality(S) - 1
  BY <1>1, FS_RemoveElement
<1>5. h \notin S /\ h \in T => Cardinality(T) = Cardinality(S) + 1
  BY <1>2, FS_AddElement
<1>6. (h \in S <=> h \in T) => T = S
  OBVIOUS
<1>7. QED
  BY <1>3, <1>4, <1>5, <1>6

SlotTypes ==
    /\ semaphores \in Seq(0..Slots) /\ Len(semaphores) > 0 /\ fallback \in 0..FallbackSlots
    /\ bound \in [Handlers -> 0..Len(semaphores)]
    /\ pc \in [Handlers -> {"idle", "waiting", "choosing", "asking", "racing", "resort", "over"}]

\* A handler without a slot goes on without one.
LEMMA NoSlotMoves ==
  ASSUME SlotTypes, SlotInv, NEW h \in Handlers, NEW place, NEW b \in 0..Len(semaphores),
         pc[h] \notin {"choosing", "asking", "racing"},
         place \in {"idle", "waiting", "resort", "over"},
         place = "waiting" => b > 0,
         pc' = [pc EXCEPT ![h] = place], bound' = [bound EXCEPT ![h] = b],
         UNCHANGED semaphores,
         pc[h] = "resort" /\ bound[h] = 0 =>
            fallback' = fallback + 1 /\ ~(place = "resort" /\ b = 0),
         ~(pc[h] = "resort" /\ bound[h] = 0) =>
            IF place = "resort" /\ b = 0 THEN fallback > 0 /\ fallback' = fallback - 1
            ELSE fallback' = fallback
  PROVE  (SlotTypes /\ SlotInv)'
<1> USE DEF SlotTypes
<1>1. \A s : Holding(s)' = Holding(s)
  BY DEF Holding
<1>2. \A s \in DOMAIN semaphores : (semaphores[s] + Cardinality(Holding(s)) = Slots)'
  BY <1>1 DEF SlotInv
<1>3. \A g \in Handlers : pc'[g] \in {"waiting", "choosing", "asking", "racing"} => bound'[g] > 0
  BY DEF SlotInv
<1>4. /\ \A g : g # h => (g \in Resorting <=> g \in Resorting')
      /\ h \in Resorting <=> pc[h] = "resort" /\ bound[h] = 0
      /\ h \in Resorting' <=> place = "resort" /\ b = 0
  BY DEF Resorting
<1>5. /\ Cardinality(Resorting) \in Nat /\ Cardinality(Resorting') \in Nat
      /\ h \in Resorting => Cardinality(Resorting) >= 1
      /\ h \in Resorting /\ h \notin Resorting' => Cardinality(Resorting') = Cardinality(Resorting) - 1
      /\ h \notin Resorting /\ h \in Resorting' => Cardinality(Resorting') = Cardinality(Resorting) + 1
      /\ (h \in Resorting <=> h \in Resorting') => Resorting' = Resorting
  <2>1. IsFiniteSet(Resorting) /\ Cardinality(Resorting) \in Nat
    BY HoldersCount
  <2>2. Resorting' \in SUBSET Handlers
    BY DEF Resorting
  <2>3. Cardinality(Resorting') \in Nat
    BY <2>2, UpstreamsAssumption, FS_Subset, FS_CardinalityType
  <2>4. QED
    BY ONLY <1>4, <2>1, <2>3, OneMoves
<1>6. fallback' + Cardinality(Resorting)' = FallbackSlots /\ fallback' \in 0..FallbackSlots
  <2>1. fallback \in 0..FallbackSlots /\ fallback + Cardinality(Resorting) = FallbackSlots
        /\ FallbackSlots \in Nat
    BY UpstreamsAssumption DEF SlotInv
  <2>2. \/ h \in Resorting /\ h \notin Resorting' /\ fallback' = fallback + 1
        \/ h \notin Resorting /\ h \in Resorting' /\ fallback > 0 /\ fallback' = fallback - 1
        \/ h \notin Resorting /\ h \notin Resorting' /\ fallback' = fallback
    BY <1>4
  <2>3. QED
    BY ONLY <1>5, <2>1, <2>2
<1>7. QED
  BY <1>2, <1>3, <1>6 DEF SlotInv

\* A handler takes a slot, keeps it, or gives it back to where it came from.
LEMMA SlotMoves ==
  ASSUME SlotTypes, SlotInv, NEW h \in Handlers, NEW place,
         place \in {"choosing", "asking", "racing", "resort", "over"},
         pc' = [pc EXCEPT ![h] = place], UNCHANGED <<bound, fallback>>,
         \/ /\ pc[h] = "waiting" /\ place = "choosing" /\ semaphores[bound[h]] > 0
            /\ semaphores' = [semaphores EXCEPT ![bound[h]] = @ - 1]
         \/ /\ pc[h] \in {"choosing", "asking", "racing"} /\ place \notin {"resort", "over"}
            /\ UNCHANGED semaphores
         \/ /\ pc[h] \in {"choosing", "asking", "racing"} /\ place \in {"resort", "over"}
            /\ semaphores' = [semaphores EXCEPT ![bound[h]] = @ + 1]
  PROVE  (SlotTypes /\ SlotInv)'
<1> USE DEF SlotTypes
<1> DEFINE b == bound[h]
<1>1. b \in DOMAIN semaphores /\ semaphores \in Seq(0..Slots) /\ Slots \in Nat
  <2>1. b \in 0..Len(semaphores) /\ b > 0
    BY DEF SlotInv
  <2>2. semaphores \in Seq(0..Slots)
    OBVIOUS
  <2>3. QED
    BY ONLY <2>1, <2>2, UpstreamsAssumption
<1>2. bound' = bound /\ pc' \in [Handlers -> {"idle", "waiting", "choosing", "asking", "racing",
                                              "resort", "over"}]
  OBVIOUS
<1>3. Resorting' = Resorting
  BY <1>1 DEF Resorting
<1>4. \A s : s # b => Holding(s)' = Holding(s)
  BY DEF Holding
<1>5. /\ \A g : g # h => (g \in Holding(b) <=> g \in Holding(b)')
      /\ h \in Holding(b) <=> pc[h] \in {"choosing", "asking", "racing"}
      /\ h \in Holding(b)' <=> place \in {"choosing", "asking", "racing"}
  BY DEF Holding
<1>6. /\ Cardinality(Holding(b)) \in Nat /\ Cardinality(Holding(b)') \in Nat
      /\ h \in Holding(b) => Cardinality(Holding(b)) >= 1
      /\ h \in Holding(b) /\ h \notin Holding(b)' => Cardinality(Holding(b)') = Cardinality(Holding(b)) - 1
      /\ h \notin Holding(b) /\ h \in Holding(b)' => Cardinality(Holding(b)') = Cardinality(Holding(b)) + 1
      /\ (h \in Holding(b) <=> h \in Holding(b)') => Holding(b)' = Holding(b)
  <2>1. IsFiniteSet(Holding(b)) /\ Cardinality(Holding(b)) \in Nat
    BY HoldersCount
  <2>2. Holding(b)' \in SUBSET Handlers
    BY DEF Holding
  <2>3. Cardinality(Holding(b)') \in Nat
    BY <2>2, UpstreamsAssumption, FS_Subset, FS_CardinalityType
  <2>4. QED
    BY ONLY <1>5, <2>1, <2>3, OneMoves
<1>7. semaphores[b] \in 0..Slots /\ semaphores[b] + Cardinality(Holding(b)) = Slots
  BY <1>1 DEF SlotInv
<1>8. PICK n \in 0..Slots : /\ semaphores' = [semaphores EXCEPT ![b] = n]
                            /\ n + Cardinality(Holding(b)') = Slots
  <2>1. CASE pc[h] = "waiting"
    <3>1. semaphores' = [semaphores EXCEPT ![b] = semaphores[b] - 1] /\ semaphores[b] > 0
          /\ h \notin Holding(b) /\ h \in Holding(b)'
      BY <1>5, <2>1
    <3> DEFINE k == semaphores[b]
               x == Cardinality(Holding(b))
               y == Cardinality(Holding(b)')
    <3>2. k \in Nat /\ x \in Nat /\ Slots \in Nat /\ k > 0 /\ k + x = Slots /\ y = x + 1
      BY <1>1, <1>6, <1>7, <3>1
    <3> HIDE DEF k, x, y
    <3>3. k - 1 \in 0..Slots /\ k - 1 + y = Slots
      BY ONLY <3>2
    <3>4. QED
      BY <3>1, <3>3 DEF k, y
  <2>2. CASE pc[h] # "waiting" /\ place \notin {"resort", "over"}
    <3>1. semaphores' = [semaphores EXCEPT ![b] = semaphores[b]] /\ Holding(b)' = Holding(b)
      BY <1>1, <1>5, <1>6, <2>2
    <3>2. QED
      BY <1>7, <3>1
  <2>3. CASE pc[h] # "waiting" /\ place \in {"resort", "over"}
    <3>1. semaphores' = [semaphores EXCEPT ![b] = semaphores[b] + 1]
          /\ h \in Holding(b) /\ h \notin Holding(b)'
      BY <1>5, <2>3
    <3> DEFINE k == semaphores[b]
               x == Cardinality(Holding(b))
               y == Cardinality(Holding(b)')
    <3>2. k \in Nat /\ x \in Nat /\ Slots \in Nat /\ x >= 1 /\ k + x = Slots /\ y = x - 1
      BY <1>1, <1>6, <1>7, <3>1
    <3> HIDE DEF k, x, y
    <3>3. k + 1 \in 0..Slots /\ k + 1 + y = Slots
      BY ONLY <3>2
    <3>4. QED
      BY <3>1, <3>3 DEF k, y
  <2>4. QED
    BY <2>1, <2>2, <2>3
<1>9. /\ semaphores' \in Seq(0..Slots) /\ Len(semaphores') = Len(semaphores)
      /\ DOMAIN semaphores' = DOMAIN semaphores /\ semaphores'[b] = n
      /\ \A s \in DOMAIN semaphores : s # b => semaphores'[s] = semaphores[s]
  BY ONLY <1>1, <1>8
<1>10. \A s \in DOMAIN semaphores' : semaphores'[s] + Cardinality(Holding(s)') = Slots
  <2> SUFFICES ASSUME NEW s \in DOMAIN semaphores' PROVE semaphores'[s] + Cardinality(Holding(s)') = Slots
    OBVIOUS
  <2>1. CASE s = b
    BY <1>8, <1>9, <2>1
  <2>2. CASE s # b
    <3>1. semaphores'[s] = semaphores[s] /\ Holding(s)' = Holding(s) /\ s \in DOMAIN semaphores
      BY <1>4, <1>9, <2>2
    <3>2. QED
      BY <3>1 DEF SlotInv
  <2>3. QED
    BY <2>1, <2>2
<1>11. \A g \in Handlers : pc'[g] \in {"waiting", "choosing", "asking", "racing"} => bound'[g] > 0
  BY DEF SlotInv
<1>12. fallback' + Cardinality(Resorting)' = FallbackSlots
  BY <1>3 DEF SlotInv
<1>13. SlotInv'
  BY <1>10, <1>11, <1>12 DEF SlotInv
<1>14. bound' \in [Handlers -> 0..Len(semaphores')]
  BY <1>2, <1>9
<1>15. QED
  BY <1>2, <1>9, <1>13, <1>14

LEMMA SlotsKept ==
  ASSUME SlotTypes, SlotInv, UNCHANGED <<pc, bound, semaphores, fallback>>
  PROVE  (SlotTypes /\ SlotInv)'
<1>1. Resorting' = Resorting /\ \A s : Holding(s)' = Holding(s)
  BY DEF Resorting, Holding
<1>2. QED
  BY <1>1 DEF SlotTypes, SlotInv

LEMMA ReturnMoves ==
  ASSUME SlotTypes, SlotInv, NEW h \in Handlers, NEW what, Forward!Return(h, what),
         pc[h] \in {"choosing", "asking", "racing"}, UNCHANGED <<bound, fallback>>
  PROVE  (SlotTypes /\ SlotInv)'
<1>1. PICK place : place \in {"resort", "over"} /\ pc' = [pc EXCEPT ![h] = place]
  BY DEF Forward!Return, Forward!Ended, Forward!Goto
<1>2. semaphores' = [semaphores EXCEPT ![bound[h]] = @ + 1]
  BY DEF Forward!Return, Forward!Release
<1>3. QED
  BY <1>1, <1>2, SlotMoves

LEMMA SlotStep == SlotTypes /\ SlotInv /\ [Forward!Next]_forwardVars => (SlotTypes /\ SlotInv)'
<1> SUFFICES ASSUME SlotTypes /\ SlotInv, [Forward!Next]_forwardVars PROVE (SlotTypes /\ SlotInv)'
  OBVIOUS
<1> USE DEF Forward!query, Forward!health
<1>1. ASSUME NEW h \in Handlers, Forward!Bind(h) PROVE (SlotTypes /\ SlotInv)'
  <2>1. /\ pc[h] = "idle" /\ pc' = [pc EXCEPT ![h] = "waiting"]
        /\ bound' = [bound EXCEPT ![h] = Len(semaphores)] /\ UNCHANGED <<semaphores, fallback>>
    BY <1>1 DEF Forward!Bind, Forward!Goto, Forward!Current
  <2>2. Len(semaphores) \in 0..Len(semaphores) /\ Len(semaphores) > 0
    BY DEF SlotTypes
  <2>3. QED
    BY <2>1, <2>2, NoSlotMoves
<1>2. ASSUME NEW h \in Handlers, Forward!Acquire(h) PROVE (SlotTypes /\ SlotInv)'
  <2>1. /\ pc[h] = "waiting" /\ semaphores[bound[h]] > 0 /\ pc' = [pc EXCEPT ![h] = "choosing"]
        /\ semaphores' = [semaphores EXCEPT ![bound[h]] = @ - 1] /\ UNCHANGED <<bound, fallback>>
    BY <1>2 DEF Forward!Acquire, Forward!Goto, Forward!query
  <2>2. QED
    BY <2>1, SlotMoves
<1>3. ASSUME NEW h \in Handlers, Forward!Busy(h) PROVE (SlotTypes /\ SlotInv)'
  <2>1. PICK place : place \in {"resort", "over"} /\ pc' = [pc EXCEPT ![h] = place]
    BY <1>3 DEF Forward!Busy, Forward!Ended, Forward!Goto
  <2>2. pc[h] = "waiting" /\ UNCHANGED <<bound, semaphores, fallback>>
    BY <1>3 DEF Forward!Busy
  <2>3. bound' = [bound EXCEPT ![h] = bound[h]] /\ bound[h] \in 0..Len(semaphores) /\ bound[h] > 0
        /\ ~(bound[h] = 0)
    BY <2>2 DEF SlotTypes, SlotInv
  <2>4. QED
    BY <2>1, <2>2, <2>3, NoSlotMoves
<1>4. ASSUME NEW h \in Handlers, Forward!Ask(h) PROVE (SlotTypes /\ SlotInv)'
  <2>1. /\ pc[h] = "choosing" /\ pc' = [pc EXCEPT ![h] = "asking"]
        /\ UNCHANGED <<bound, semaphores, fallback>>
    BY <1>4 DEF Forward!Ask, Forward!Goto
  <2>2. QED
    BY <2>1, SlotMoves
<1>5. ASSUME NEW h \in Handlers, Forward!Race(h) PROVE (SlotTypes /\ SlotInv)'
  <2>1. /\ pc[h] = "choosing" /\ pc' = [pc EXCEPT ![h] = "racing"]
        /\ UNCHANGED <<bound, semaphores, fallback>>
    BY <1>5 DEF Forward!Race, Forward!Goto
  <2>2. QED
    BY <2>1, SlotMoves
<1>6. ASSUME NEW h \in Handlers, Forward!AskNobody(h) PROVE (SlotTypes /\ SlotInv)'
  <2>1. PICK what : Forward!Return(h, what)
    BY <1>6 DEF Forward!AskNobody
  <2>2. pc[h] \in {"choosing", "asking", "racing"} /\ UNCHANGED <<bound, fallback>>
    BY <1>6 DEF Forward!AskNobody
  <2>3. QED
    BY <2>1, <2>2, ReturnMoves
<1>7. ASSUME NEW h \in Handlers, Forward!GotAnswer(h) PROVE (SlotTypes /\ SlotInv)'
  <2>1. PICK what : Forward!Return(h, what)
    BY <1>7 DEF Forward!GotAnswer
  <2>2. pc[h] \in {"choosing", "asking", "racing"} /\ UNCHANGED <<bound, fallback>>
    BY <1>7 DEF Forward!GotAnswer
  <2>3. QED
    BY <2>1, <2>2, ReturnMoves
<1>8. ASSUME NEW h \in Handlers, Forward!AskNext(h) PROVE (SlotTypes /\ SlotInv)'
  BY <1>8, SlotsKept DEF Forward!AskNext
<1>9. ASSUME NEW h \in Handlers, Forward!AllFailed(h) PROVE (SlotTypes /\ SlotInv)'
  <2>1. PICK what : Forward!Return(h, what)
    BY <1>9 DEF Forward!AllFailed
  <2>2. pc[h] \in {"choosing", "asking", "racing"} /\ UNCHANGED <<bound, fallback>>
    BY <1>9 DEF Forward!AllFailed
  <2>3. QED
    BY <2>1, <2>2, ReturnMoves
<1>10. ASSUME NEW h \in Handlers, Forward!RaceWon(h) PROVE (SlotTypes /\ SlotInv)'
  <2>1. PICK what : Forward!Return(h, what)
    BY <1>10 DEF Forward!RaceWon
  <2>2. pc[h] \in {"choosing", "asking", "racing"} /\ UNCHANGED <<bound, fallback>>
    BY <1>10 DEF Forward!RaceWon
  <2>3. QED
    BY <2>1, <2>2, ReturnMoves
<1>11. ASSUME NEW h \in Handlers, Forward!RaceLost(h) PROVE (SlotTypes /\ SlotInv)'
  <2>1. PICK what : Forward!Return(h, what)
    BY <1>11 DEF Forward!RaceLost
  <2>2. pc[h] \in {"choosing", "asking", "racing"} /\ UNCHANGED <<bound, fallback>>
    BY <1>11 DEF Forward!RaceLost
  <2>3. QED
    BY <2>1, <2>2, ReturnMoves
<1>12. ASSUME NEW h \in Handlers, Forward!TakeFallback(h) PROVE (SlotTypes /\ SlotInv)'
  <2>1. /\ pc[h] = "resort" /\ fallback > 0 /\ bound[h] > 0 /\ fallback' = fallback - 1
        /\ bound' = [bound EXCEPT ![h] = 0] /\ UNCHANGED <<pc, semaphores>>
    BY <1>12 DEF Forward!TakeFallback
  <2>2. pc' = [pc EXCEPT ![h] = "resort"] /\ 0 \in 0..Len(semaphores)
    BY <2>1 DEF SlotTypes
  <2>3. ~(bound[h] = 0)
    BY <2>1 DEF SlotTypes
  <2>4. QED
    BY <2>1, <2>2, <2>3, NoSlotMoves
<1>13. ASSUME NEW h \in Handlers, Forward!NoFallback(h) PROVE (SlotTypes /\ SlotInv)'
  <2>1. /\ pc[h] = "resort" /\ bound[h] > 0 /\ pc' = [pc EXCEPT ![h] = "over"]
        /\ UNCHANGED <<bound, semaphores, fallback>>
    BY <1>13 DEF Forward!NoFallback, Forward!Goto
  <2>2. bound' = [bound EXCEPT ![h] = bound[h]] /\ bound[h] \in 0..Len(semaphores) /\ ~(bound[h] = 0)
    BY <2>1 DEF SlotTypes
  <2>3. QED
    BY <2>1, <2>2, NoSlotMoves
<1>14. ASSUME NEW h \in Handlers, Forward!FallbackEnds(h) PROVE (SlotTypes /\ SlotInv)'
  <2>1. /\ pc[h] = "resort" /\ bound[h] = 0 /\ fallback' = fallback + 1
        /\ pc' = [pc EXCEPT ![h] = "over"] /\ UNCHANGED <<bound, semaphores>>
    BY <1>14 DEF Forward!FallbackEnds, Forward!Goto
  <2>2. bound' = [bound EXCEPT ![h] = bound[h]] /\ bound[h] \in 0..Len(semaphores)
    BY <2>1 DEF SlotTypes
  <2>3. QED
    BY <2>1, <2>2, NoSlotMoves
<1>15. ASSUME NEW h \in Handlers, NEW u \in Forward!All, Forward!Answer(h, u)
       PROVE (SlotTypes /\ SlotInv)'
  BY <1>15, SlotsKept DEF Forward!Answer
<1>16. ASSUME NEW h \in Handlers, NEW u \in Forward!All, Forward!Fail(h, u)
       PROVE (SlotTypes /\ SlotInv)'
  BY <1>16, SlotsKept DEF Forward!Fail
<1>17. ASSUME NEW h \in Handlers, NEW u \in Forward!All, Forward!Raise(h, u)
       PROVE (SlotTypes /\ SlotInv)'
  <2>1. PICK what : Forward!Return(h, what)
    BY <1>17 DEF Forward!Raise
  <2>2. pc[h] \in {"choosing", "asking", "racing"} /\ UNCHANGED <<bound, fallback>>
    BY <1>17 DEF Forward!Raise, Forward!Caught
  <2>3. QED
    BY <2>1, <2>2, ReturnMoves
<1>18. ASSUME NEW h \in Handlers, NEW u \in Forward!All, Forward!Check(h, u)
       PROVE (SlotTypes /\ SlotInv)'
  BY <1>18, SlotsKept DEF Forward!Check
<1>19. ASSUME NEW h \in Handlers, NEW u \in Forward!All, Forward!Write(h, u)
       PROVE (SlotTypes /\ SlotInv)'
  BY <1>19, SlotsKept DEF Forward!Write
<1>20. ASSUME NEW h \in Handlers, NEW u \in Forward!All, Forward!KeepFirst(h, u)
       PROVE (SlotTypes /\ SlotInv)'
  BY <1>20, SlotsKept DEF Forward!KeepFirst
<1>21. ASSUME Forward!SwapSemaphore PROVE (SlotTypes /\ SlotInv)'
  <2>1. semaphores' = Append(semaphores, Slots) /\ UNCHANGED <<pc, bound, fallback>>
    BY <1>21 DEF Forward!SwapSemaphore, Forward!query
  <2>2. semaphores \in Seq(0..Slots) /\ Slots \in 0..Slots
    BY UpstreamsAssumption DEF SlotTypes
  <2>3. /\ semaphores' \in Seq(0..Slots) /\ Len(semaphores') = Len(semaphores) + 1
        /\ Len(semaphores) \in Nat
        /\ DOMAIN semaphores' = DOMAIN semaphores \cup {Len(semaphores) + 1}
        /\ semaphores'[Len(semaphores) + 1] = Slots
        /\ \A s \in DOMAIN semaphores : semaphores'[s] = semaphores[s]
    BY ONLY <2>1, <2>2, AppendProperties
  <2>4. Resorting' = Resorting /\ \A s : Holding(s)' = Holding(s)
    BY <2>1 DEF Resorting, Holding
  <2>5. Holding(Len(semaphores) + 1) = {}
    <3>1. \A g \in Handlers : bound[g] \in 0..Len(semaphores)
      BY DEF SlotTypes
    <3>2. Len(semaphores) + 1 \notin 0..Len(semaphores)
      BY <2>3
    <3>3. QED
      BY <3>1, <3>2 DEF Holding
  <2>6. Slots + Cardinality({}) = Slots
    BY UpstreamsAssumption, FS_EmptySet
  <2>7. \A s \in DOMAIN semaphores' : semaphores'[s] + Cardinality(Holding(s)') = Slots
    BY <2>3, <2>4, <2>5, <2>6 DEF SlotInv
  <2>8. SlotInv'
    BY <2>1, <2>4, <2>7 DEF SlotInv
  <2>9. bound' \in [Handlers -> 0..Len(semaphores')]
    BY <2>1, <2>3 DEF SlotTypes
  <2>10. QED
    BY <2>1, <2>3, <2>8, <2>9 DEF SlotTypes
<1>22. ASSUME NEW u \in Forward!All, Forward!Toggle(u) PROVE (SlotTypes /\ SlotInv)'
  BY <1>22, SlotsKept DEF Forward!Toggle
<1>23. ASSUME NEW u \in Forward!All, Forward!FiveSeconds(u) PROVE (SlotTypes /\ SlotInv)'
  BY <1>23, SlotsKept DEF Forward!FiveSeconds
<1>24. CASE UNCHANGED forwardVars
  BY <1>24, SlotsKept DEF forwardVars
<1>25. QED
  BY <1>1, <1>2, <1>3, <1>4, <1>5, <1>6, <1>7, <1>8, <1>9, <1>10,
     <1>11, <1>12, <1>13, <1>14, <1>15, <1>16, <1>17, <1>18, <1>19, <1>20, <1>21, <1>22, <1>23, <1>24 DEF Forward!Next

-----------------------------------------------------------------------------
\* The order in which a handler asks: each upstream it may use comes up.
Lists(s, S) == s \in Seq(S) /\ \A u \in S : \E i \in DOMAIN s : s[i] = u

LEMMA AllIsFinite ==
  /\ IsFiniteSet(Forward!All) /\ Cardinality(Forward!All) <= Len(Upstreams) /\ Len(Upstreams) \in Nat
<1>1. Upstreams \in Seq(Forward!All) /\ Len(Upstreams) \in Nat
  BY UpstreamsAssumption
<1>2. Upstreams \in Surjection(1..Len(Upstreams), Forward!All)
  BY <1>1 DEF Surjection, Forward!All, Forward!ToSet
<1>3. IsFiniteSet(1..Len(Upstreams)) /\ Cardinality(1..Len(Upstreams)) = Len(Upstreams)
  BY <1>1, FS_Interval
<1>4. QED
  BY <1>1, <1>2, <1>3, FS_Surjection

LEMMA SequencesList ==
  ASSUME NEW S, IsFiniteSet(S), NEW s \in Forward!SetToSeqs(S)
  PROVE  Lists(s, S)
<1> DEFINE D == 1..Cardinality(S)
<1>1. Cardinality(S) \in Nat
  BY FS_CardinalityType
<1>2. s \in [D -> S] /\ \A i, j \in D : i # j => s[i] # s[j]
  BY ForwardCardinality DEF Forward!SetToSeqs
<1>3. s \in Injection(D, S)
  BY <1>2 DEF Injection, IsInjective
<1>4. IsFiniteSet(D) /\ Cardinality(D) = Cardinality(S)
  BY <1>1, FS_Interval
<1>5. s \in Surjection(D, S)
  BY <1>3, <1>4, FS_Injection
<1>6. QED
  BY <1>1, <1>2, <1>5 DEF Surjection, Lists

LEMMA RotatedLists ==
  ASSUME NEW S, NEW s, Lists(s, S), NEW n \in Nat, n < Len(s)
  PROVE  Lists(Forward!Rotated(s, n), S)
<1> DEFINE m == Len(s)
           a == SubSeq(s, n + 1, m)
           b == SubSeq(s, 1, n)
           r == a \o b
<1>1. s \in Seq(S) /\ m \in Nat /\ DOMAIN s = 1..m
  BY DEF Lists
<1>2. a \in Seq(S) /\ Len(a) = m - n /\ \A i \in 1..(m - n) : a[i] = s[n + i]
  BY <1>1, SubSeqProperties
<1>3. b \in Seq(S) /\ Len(b) = n /\ \A i \in 1..n : b[i] = s[i]
  BY <1>1, SubSeqProperties
<1> HIDE DEF a, b, m
<1>4. /\ r \in Seq(S) /\ Len(r) = m /\ DOMAIN r = 1..m
      /\ \A i \in 1..m : r[i] = IF i <= m - n THEN a[i] ELSE b[i - (m - n)]
  <2>1. /\ r \in Seq(S) /\ Len(r) = Len(a) + Len(b) /\ DOMAIN r = 1..(Len(a) + Len(b))
        /\ \A i \in 1..(Len(a) + Len(b)) : r[i] = IF i <= Len(a) THEN a[i] ELSE b[i - Len(a)]
    <3>1. a \in Seq(S) /\ b \in Seq(S)
      BY ONLY <1>2, <1>3
    <3> HIDE DEF r
    <3>2. r = a \o b
      BY DEF r
    <3>3. QED
      BY ONLY <3>1, <3>2, ConcatProperties
  <2>2. Len(a) + Len(b) = m
    BY <1>1, <1>2, <1>3
  <2>3. QED
    BY ONLY <1>2, <2>1, <2>2
<1> HIDE DEF r
<1>5. \A k \in 1..m : \E i \in 1..m : r[i] = s[k]
  <2> SUFFICES ASSUME NEW k \in 1..m PROVE \E i \in 1..m : r[i] = s[k]
    OBVIOUS
  <2>1. n < m
    BY DEF m
  <2>2. CASE k > n
    <3>1. k - n \in 1..m /\ k - n <= m - n /\ k - n \in 1..(m - n) /\ n + (k - n) = k
      BY ONLY <1>1, <2>1, <2>2, k \in 1..m, n \in Nat
    <3>2. QED
      BY ONLY <1>2, <1>4, <3>1
  <2>3. CASE ~(k > n)
    <3>1. k + (m - n) \in 1..m /\ ~(k + (m - n) <= m - n) /\ k \in 1..n
          /\ (k + (m - n)) - (m - n) = k
      BY ONLY <1>1, <2>1, <2>3, k \in 1..m, n \in Nat
    <3>2. QED
      BY ONLY <1>3, <1>4, <3>1
  <2>4. QED
    BY <2>2, <2>3
<1>6. Lists(r, S)
  <2>1. \A u \in S : \E k \in 1..m : s[k] = u
    BY <1>1 DEF Lists
  <2>2. \A u \in S : \E i \in DOMAIN r : r[i] = u
    <3>1. DOMAIN r = 1..m
      BY <1>4
    <3>2. \A u \in S : \E i \in 1..m : r[i] = u
      BY ONLY <1>5, <2>1, Zenon
    <3>3. QED
      BY ONLY <3>1, <3>2
  <2>3. QED
    BY ONLY <1>4, <2>2 DEF Lists
<1>7. QED
  BY <1>6 DEF Forward!Rotated, r, a, b, m

LEMMA HeadAndTail ==
  ASSUME NEW S, NEW s \in Seq(S), s # <<>>
  PROVE  /\ Head(s) \in S /\ Tail(s) \in Seq(S)
         /\ \A i \in DOMAIN s : s[i] = Head(s) \/ \E j \in DOMAIN Tail(s) : Tail(s)[j] = s[i]
         /\ \A j \in DOMAIN Tail(s) : \E i \in DOMAIN s : s[i] = Tail(s)[j]
         /\ \E i \in DOMAIN s : s[i] = Head(s)
<1>1. Len(s) \in Nat /\ Len(s) > 0 /\ DOMAIN s = 1..Len(s) /\ Head(s) = s[1]
  OBVIOUS
<1>2. /\ Tail(s) \in Seq(S) /\ Len(Tail(s)) = Len(s) - 1
      /\ \A i \in 1..(Len(s) - 1) : Tail(s)[i] = s[i + 1]
  BY HeadTailProperties
<1>3. DOMAIN Tail(s) = 1..(Len(s) - 1)
  BY <1>1, <1>2
<1>4. \A i \in 1..Len(s) : i = 1 \/ (i - 1 \in 1..(Len(s) - 1) /\ Tail(s)[i - 1] = s[i])
  <2> SUFFICES ASSUME NEW i \in 1..Len(s), i # 1 PROVE i - 1 \in 1..(Len(s) - 1) /\ Tail(s)[i - 1] = s[i]
    OBVIOUS
  <2>1. i - 1 \in 1..(Len(s) - 1) /\ (i - 1) + 1 = i
    BY <1>1
  <2>2. QED
    BY ONLY <1>2, <2>1
<1>5. \A j \in 1..(Len(s) - 1) : j + 1 \in 1..Len(s)
  BY ONLY <1>1
<1>6. \A i \in DOMAIN s : s[i] = Head(s) \/ \E j \in DOMAIN Tail(s) : Tail(s)[j] = s[i]
  BY ONLY <1>1, <1>3, <1>4
<1>7. \A j \in DOMAIN Tail(s) : \E i \in DOMAIN s : s[i] = Tail(s)[j]
  BY ONLY <1>1, <1>2, <1>3, <1>5
<1>8. 1 \in DOMAIN s /\ Head(s) \in S
  BY <1>1
<1>9. QED
  BY ONLY <1>1, <1>2, <1>6, <1>7, <1>8

LEMMA InTurnLists ==
  ASSUME active \subseteq Forward!All, Forward!Usable # {}, rr \in Nat,
         NEW h \in Handlers, NEW s \in Forward!InTurn(h)
  PROVE  Lists(s, Forward!Usable) /\ s # <<>>
<1> DEFINE S == Forward!Usable
<1>1. IsFiniteSet(S) /\ S \subseteq Forward!All
  <2>1. S \subseteq Forward!All
    BY DEF Forward!Usable
  <2>2. QED
    BY <2>1, AllIsFinite, FS_Subset
<1>2. \A t \in Forward!InOrder(S) : t \in Forward!SetToSeqs(S)
  BY DEF Forward!InOrder
<1>3. \A t \in Forward!SetToSeqs(S) : Lists(t, S) /\ Len(t) = Cardinality(S)
  <2> SUFFICES ASSUME NEW t \in Forward!SetToSeqs(S) PROVE Lists(t, S) /\ Len(t) = Cardinality(S)
    OBVIOUS
  <2>1. t \in [1..Cardinality(S) -> S]
    BY ForwardCardinality DEF Forward!SetToSeqs
  <2>2. Cardinality(S) \in Nat
    BY <1>1, FS_CardinalityType
  <2>3. Len(t) = Cardinality(S)
    BY <2>1, <2>2
  <2>4. QED
    BY <1>1, <2>3, SequencesList
<1>4. Cardinality(S) \in Nat /\ Cardinality(S) > 0
  BY <1>1, FS_CardinalityType, FS_EmptySet
<1>5. Lists(s, S)
  <2>1. CASE s \in Forward!SetToSeqs(S)
    BY <1>3, <2>1
  <2>2. ASSUME NEW t \in Forward!InOrder(S), s = Forward!Rotated(t, rr % Forward!Cardinality(S))
        PROVE  Lists(s, S)
    <3>1. rr % Cardinality(S) \in Nat /\ rr % Cardinality(S) < Cardinality(S)
      BY <1>4
    <3>2. s = Forward!Rotated(t, rr % Cardinality(S))
      BY <2>2, ForwardCardinality
    <3>3. QED
      BY <1>2, <1>3, <3>1, <3>2, RotatedLists
  <2>3. QED
    BY <1>2, <2>1, <2>2 DEF Forward!InTurn
<1>6. s # <<>>
  <2>1. PICK u : u \in S
    OBVIOUS
  <2>2. PICK i \in DOMAIN s : s[i] = u
    BY <1>5, <2>1 DEF Lists
  <2>3. QED
    BY <2>2
<1>7. QED
  BY <1>5, <1>6

-----------------------------------------------------------------------------
TaskStates ==
    {"none", "asking", "answered", "failed", "writing ok", "writing error", "over", "in error"}
OtherTypes ==
    /\ net \in [Forward!All -> {"up", "refusing", "silent", "broken"}] /\ active \subseteq Forward!All
    /\ rr \in 0..Len(Upstreams)
    /\ window \in [Forward!All -> SUBSET {"ok", "error"}]
    /\ kind \in [Handlers -> {"query", "refresh"}] /\ mode \in [Handlers -> Forward!Modes]
    /\ order \in [Handlers -> Seq(Forward!All)] /\ asked \in [Handlers -> SUBSET Forward!All]
    /\ task \in [Handlers -> [Forward!All -> TaskStates]]
    /\ first \in [Handlers -> Forward!All \cup {None}]
    /\ outcome \in [Handlers -> Forward!Outcomes]
    /\ seen \subseteq Forward!All /\ missed \subseteq Forward!All

LEMMA SomeoneUsable ==
  ASSUME OtherTypes
  PROVE  /\ IsFiniteSet(Forward!Usable) /\ Forward!Usable \subseteq Forward!All
         /\ Cardinality(Forward!Usable) \in Nat /\ Cardinality(Forward!Usable) <= Len(Upstreams)
         /\ Forward!Usable # {} => Cardinality(Forward!Usable) > 0
<1>1. Forward!Usable \subseteq Forward!All
  BY DEF Forward!Usable, OtherTypes, TaskStates
<1>2. IsFiniteSet(Forward!Usable) /\ Cardinality(Forward!Usable) <= Cardinality(Forward!All)
  BY <1>1, AllIsFinite, FS_Subset
<1>3. Cardinality(Forward!All) \in Nat /\ Cardinality(Forward!Usable) \in Nat
      /\ (Forward!Usable # {} => Cardinality(Forward!Usable) # 0)
  BY <1>2, AllIsFinite, FS_CardinalityType, FS_EmptySet
<1>4. Cardinality(Forward!Usable) <= Len(Upstreams)
  BY ONLY <1>2, <1>3, AllIsFinite
<1>5. Forward!Usable # {} => Cardinality(Forward!Usable) > 0
  BY ONLY <1>3
<1>6. QED
  BY <1>1, <1>2, <1>3, <1>4, <1>5

LEMMA TypeStep == OtherTypes /\ [Forward!Next]_forwardVars => (OtherTypes)'
<1> SUFFICES ASSUME OtherTypes, [Forward!Next]_forwardVars PROVE (OtherTypes)'
  OBVIOUS
<1> USE DEF OtherTypes, TaskStates, Forward!Outcomes, Forward!query, Forward!health, Forward!Goto,
   Forward!Do, Forward!Ended, Forward!Release, Forward!Return
<1>1. ASSUME NEW h \in Handlers, Forward!Bind(h) PROVE (OtherTypes)'
  BY <1>1 DEF Forward!Bind
<1>2. ASSUME NEW h \in Handlers, Forward!Acquire(h) PROVE (OtherTypes)'
  BY <1>2 DEF Forward!Acquire
<1>3. ASSUME NEW h \in Handlers, Forward!Busy(h) PROVE (OtherTypes)'
  BY <1>3 DEF Forward!Busy
<1>4. ASSUME NEW h \in Handlers, Forward!Ask(h) PROVE (OtherTypes)'
  <2>1. Forward!Usable # {}
    BY <1>4 DEF Forward!Ask
  <2>2. PICK s \in Forward!InTurn(h) :
          order' = [order EXCEPT ![h] = Tail(s)] /\ task' = [task EXCEPT ![h][Head(s)] = "asking"]
    BY <1>4 DEF Forward!Ask
  <2>3. active \subseteq Forward!All /\ rr \in Nat
    <3>1. active \subseteq Forward!All /\ rr \in 0..Len(Upstreams)
      OBVIOUS
    <3>2. QED
      BY ONLY <3>1, AllIsFinite
  <2>4. s \in Seq(Forward!Usable) /\ s # <<>>
    BY <2>1, <2>3, InTurnLists DEF Lists
  <2>5. Forward!Usable \subseteq Forward!All
    BY SomeoneUsable
  <2>6. Head(s) \in Forward!All /\ Tail(s) \in Seq(Forward!All)
    BY ONLY <2>4, <2>5
  <2>7. rr' \in 0..Len(Upstreams)
    <3>1. Cardinality(Forward!Usable) \in Nat /\ Cardinality(Forward!Usable) > 0
          /\ Cardinality(Forward!Usable) <= Len(Upstreams)
      BY <2>1, SomeoneUsable
    <3>2. rr \in Nat /\ Len(Upstreams) \in Nat
      BY <2>3, AllIsFinite
    <3>3. (rr + 1) % Cardinality(Forward!Usable) \in 0..Len(Upstreams)
      BY ONLY <3>1, <3>2
    <3>4. rr' = rr \/ rr' = (rr + 1) % Cardinality(Forward!Usable)
      BY <1>4, ForwardCardinality DEF Forward!Ask
    <3>5. QED
      BY <3>3, <3>4
  <2>8. asked' = [asked EXCEPT ![h] = Forward!Usable]
        /\ UNCHANGED <<net, active, window, kind, mode, first, outcome, seen, missed>>
    BY <1>4 DEF Forward!Ask
  <2>9. task' \in [Handlers -> [Forward!All -> TaskStates]]
    BY <2>2, <2>6
  <2>10. order' \in [Handlers -> Seq(Forward!All)]
    BY <2>2, <2>6
  <2>11. QED
    BY <2>5, <2>7, <2>8, <2>9, <2>10
<1>5. ASSUME NEW h \in Handlers, Forward!Race(h) PROVE (OtherTypes)'
  <2>1. PICK S \in Forward!Racers(h) :
          /\ asked' = [asked EXCEPT ![h] = S]
          /\ task' = [task EXCEPT ![h] = [u \in Forward!All |-> IF u \in S THEN "asking" ELSE "none"]]
    BY <1>5 DEF Forward!Race
  <2>2. S \subseteq Forward!All
    BY SomeoneUsable DEF Forward!Racers
  <2>3. UNCHANGED <<net, active, rr, window, kind, mode, order, first, outcome, seen, missed>>
    BY <1>5 DEF Forward!Race
  <2>4. task' \in [Handlers -> [Forward!All -> TaskStates]]
    BY <2>1
  <2>5. QED
    BY <2>1, <2>2, <2>3, <2>4
<1>6. ASSUME NEW h \in Handlers, Forward!AskNobody(h) PROVE (OtherTypes)'
  BY <1>6 DEF Forward!AskNobody
<1>7. ASSUME NEW h \in Handlers, Forward!GotAnswer(h) PROVE (OtherTypes)'
  BY <1>7 DEF Forward!GotAnswer
<1>8. ASSUME NEW h \in Handlers, Forward!AskNext(h) PROVE (OtherTypes)'
  <2>1. /\ order[h] # <<>> /\ task' = [task EXCEPT ![h][Head(order[h])] = "asking"]
        /\ order' = [order EXCEPT ![h] = Tail(order[h])]
        /\ UNCHANGED <<net, active, rr, window, kind, mode, asked, first, outcome, seen, missed>>
    BY <1>8 DEF Forward!AskNext
  <2>2. order[h] \in Seq(Forward!All)
    OBVIOUS
  <2>3. Head(order[h]) \in Forward!All /\ Tail(order[h]) \in Seq(Forward!All)
    BY ONLY <2>1, <2>2
  <2>4. task' \in [Handlers -> [Forward!All -> TaskStates]]
    BY <2>1, <2>3
  <2>5. order' \in [Handlers -> Seq(Forward!All)]
    BY <2>1, <2>3
  <2>6. QED
    BY <2>1, <2>4, <2>5
<1>9. ASSUME NEW h \in Handlers, Forward!AllFailed(h) PROVE (OtherTypes)'
  BY <1>9 DEF Forward!AllFailed
<1>10. ASSUME NEW h \in Handlers, Forward!RaceWon(h) PROVE (OtherTypes)'
  BY <1>10 DEF Forward!RaceWon
<1>11. ASSUME NEW h \in Handlers, Forward!RaceLost(h) PROVE (OtherTypes)'
  BY <1>11 DEF Forward!RaceLost
<1>12. ASSUME NEW h \in Handlers, Forward!TakeFallback(h) PROVE (OtherTypes)'
  BY <1>12 DEF Forward!TakeFallback
<1>13. ASSUME NEW h \in Handlers, Forward!NoFallback(h) PROVE (OtherTypes)'
  BY <1>13 DEF Forward!NoFallback
<1>14. ASSUME NEW h \in Handlers, Forward!FallbackEnds(h) PROVE (OtherTypes)'
  <2>1. /\ \E what \in {"answered", "nothing"} : outcome' = [outcome EXCEPT ![h] = what]
        /\ UNCHANGED <<net, active, rr, window, kind, mode, order, asked, task, first, seen, missed>>
    BY <1>14 DEF Forward!FallbackEnds
  <2>2. PICK what \in Forward!Outcomes : outcome' = [outcome EXCEPT ![h] = what]
    BY <2>1 DEF Forward!Outcomes
  <2>3. outcome' \in [Handlers -> Forward!Outcomes]
    BY <2>2
  <2>4. QED
    BY <2>1, <2>3
<1>15. ASSUME NEW h \in Handlers, NEW u \in Forward!All, Forward!Answer(h, u)
       PROVE (OtherTypes)'
  BY <1>15 DEF Forward!Answer
<1>16. ASSUME NEW h \in Handlers, NEW u \in Forward!All, Forward!Fail(h, u)
       PROVE (OtherTypes)'
  BY <1>16 DEF Forward!Fail
<1>17. ASSUME NEW h \in Handlers, NEW u \in Forward!All, Forward!Raise(h, u)
       PROVE (OtherTypes)'
  BY <1>17 DEF Forward!Raise
<1>18. ASSUME NEW h \in Handlers, NEW u \in Forward!All, Forward!Check(h, u)
       PROVE (OtherTypes)'
  <2>1. PICK what \in {"over", "in error", "writing ok", "writing error"} :
          task' = [task EXCEPT ![h][u] = what]
    BY <1>18 DEF Forward!Check
  <2>2. UNCHANGED <<net, active, rr, window, kind, mode, order, asked, first, outcome, seen>>
        /\ missed' \in {missed, missed \cup {u}}
    BY <1>18 DEF Forward!Check
  <2>3. QED
    BY <2>1, <2>2
<1>19. ASSUME NEW h \in Handlers, NEW u \in Forward!All, Forward!Write(h, u)
       PROVE (OtherTypes)'
  <2>1. PICK what \in {"over", "in error"} : task' = [task EXCEPT ![h][u] = what]
    BY <1>19 DEF Forward!Write
  <2>2. PICK result \in {"ok", "error"} :
          window' = [window EXCEPT ![u] = @ \cup {result}]
    BY <1>19 DEF Forward!Write, Forward!Result, Forward!ThrottleKey
  <2>3. UNCHANGED <<net, active, rr, kind, mode, order, asked, first, outcome, missed>>
        /\ seen' \in {seen, seen \cup {u}}
    BY <1>19 DEF Forward!Write
  <2>4. window' \in [Forward!All -> SUBSET {"ok", "error"}]
    <3>1. window \in [Forward!All -> SUBSET {"ok", "error"}]
      OBVIOUS
    <3>2. QED
      BY ONLY <2>2, <3>1
  <2>5. QED
    BY <2>1, <2>3, <2>4
<1>20. ASSUME NEW h \in Handlers, NEW u \in Forward!All, Forward!KeepFirst(h, u)
       PROVE (OtherTypes)'
  BY <1>20 DEF Forward!KeepFirst
<1>21. ASSUME Forward!SwapSemaphore PROVE (OtherTypes)'
  BY <1>21 DEF Forward!SwapSemaphore
<1>22. ASSUME NEW u \in Forward!All, Forward!Toggle(u) PROVE (OtherTypes)'
  BY <1>22 DEF Forward!Toggle
<1>23. ASSUME NEW u \in Forward!All, Forward!FiveSeconds(u) PROVE (OtherTypes)'
  <2>1. PICK old \in SUBSET window[u] : window' = [window EXCEPT ![u] = @ \ old]
    BY <1>23 DEF Forward!FiveSeconds
  <2>2. UNCHANGED <<net, active, rr, kind, mode, order, asked, task, first, outcome, missed>>
        /\ seen' \in {seen, seen \ {u}}
    BY <1>23 DEF Forward!FiveSeconds
  <2>3. window' \in [Forward!All -> SUBSET {"ok", "error"}]
    <3>1. window \in [Forward!All -> SUBSET {"ok", "error"}]
      OBVIOUS
    <3>2. QED
      BY ONLY <2>1, <3>1
  <2>4. QED
    BY <2>2, <2>3
<1>24. CASE UNCHANGED forwardVars
  BY <1>24 DEF forwardVars
<1>25. QED
  BY <1>1, <1>2, <1>3, <1>4, <1>5, <1>6, <1>7, <1>8, <1>9, <1>10,
     <1>11, <1>12, <1>13, <1>14, <1>15, <1>16, <1>17, <1>18, <1>19, <1>20, <1>21, <1>22, <1>23, <1>24 DEF Forward!Next

LEMMA ThrottleStep == OtherTypes /\ TaskInv /\ ThrottleInv /\ [Forward!Next]_forwardVars => (ThrottleInv)'
<1> SUFFICES ASSUME OtherTypes /\ TaskInv /\ ThrottleInv, [Forward!Next]_forwardVars PROVE (ThrottleInv)'
  OBVIOUS
<1> USE DEF OtherTypes, TaskStates, ThrottleInv, Forward!query, Forward!health, Forward!Goto, Forward!Do,
   Forward!Ended, Forward!Release, Forward!Return
<1>1. ASSUME NEW h \in Handlers, Forward!Bind(h) PROVE (ThrottleInv)'
  BY <1>1 DEF Forward!Bind
<1>2. ASSUME NEW h \in Handlers, Forward!Acquire(h) PROVE (ThrottleInv)'
  BY <1>2 DEF Forward!Acquire
<1>3. ASSUME NEW h \in Handlers, Forward!Busy(h) PROVE (ThrottleInv)'
  BY <1>3 DEF Forward!Busy
<1>4. ASSUME NEW h \in Handlers, Forward!Ask(h) PROVE (ThrottleInv)'
  BY <1>4 DEF Forward!Ask
<1>5. ASSUME NEW h \in Handlers, Forward!Race(h) PROVE (ThrottleInv)'
  BY <1>5 DEF Forward!Race
<1>6. ASSUME NEW h \in Handlers, Forward!AskNobody(h) PROVE (ThrottleInv)'
  BY <1>6 DEF Forward!AskNobody
<1>7. ASSUME NEW h \in Handlers, Forward!GotAnswer(h) PROVE (ThrottleInv)'
  BY <1>7 DEF Forward!GotAnswer
<1>8. ASSUME NEW h \in Handlers, Forward!AskNext(h) PROVE (ThrottleInv)'
  BY <1>8 DEF Forward!AskNext
<1>9. ASSUME NEW h \in Handlers, Forward!AllFailed(h) PROVE (ThrottleInv)'
  BY <1>9 DEF Forward!AllFailed
<1>10. ASSUME NEW h \in Handlers, Forward!RaceWon(h) PROVE (ThrottleInv)'
  BY <1>10 DEF Forward!RaceWon
<1>11. ASSUME NEW h \in Handlers, Forward!RaceLost(h) PROVE (ThrottleInv)'
  BY <1>11 DEF Forward!RaceLost
<1>12. ASSUME NEW h \in Handlers, Forward!TakeFallback(h) PROVE (ThrottleInv)'
  BY <1>12 DEF Forward!TakeFallback
<1>13. ASSUME NEW h \in Handlers, Forward!NoFallback(h) PROVE (ThrottleInv)'
  BY <1>13 DEF Forward!NoFallback
<1>14. ASSUME NEW h \in Handlers, Forward!FallbackEnds(h) PROVE (ThrottleInv)'
  BY <1>14 DEF Forward!FallbackEnds
<1>15. ASSUME NEW h \in Handlers, NEW u \in Forward!All, Forward!Answer(h, u)
       PROVE (ThrottleInv)'
  BY <1>15 DEF Forward!Answer
<1>16. ASSUME NEW h \in Handlers, NEW u \in Forward!All, Forward!Fail(h, u)
       PROVE (ThrottleInv)'
  BY <1>16 DEF Forward!Fail
<1>17. ASSUME NEW h \in Handlers, NEW u \in Forward!All, Forward!Raise(h, u)
       PROVE (ThrottleInv)'
  BY <1>17 DEF Forward!Raise
<1>18. ASSUME NEW h \in Handlers, NEW u \in Forward!All, Forward!Check(h, u)
       PROVE (ThrottleInv)'
  <2>1. task[h][u] \in {"answered", "failed"} /\ UNCHANGED <<window, seen>>
    BY <1>18 DEF Forward!Check
  <2>2. missed' = missed
    BY <1>18 DEF Forward!Check, Forward!ThrottleKey
  <2>3. QED
    BY <2>1, <2>2
<1>19. ASSUME NEW h \in Handlers, NEW u \in Forward!All, Forward!Write(h, u)
       PROVE (ThrottleInv)'
  <2>1. PICK result \in {"ok", "error"} :
          /\ window' = [window EXCEPT ![u] = @ \cup {result}]
          /\ seen' = IF result = "error" THEN seen \cup {u} ELSE seen
    BY <1>19 DEF Forward!Write, Forward!Result, Forward!ThrottleKey
  <2>2. window \in [Forward!All -> SUBSET {"ok", "error"}] /\ missed' = missed
    BY <1>19 DEF Forward!Write
  <2>3. window'[u] = window[u] \cup {result}
        /\ \A v \in Forward!All : v # u => window'[v] = window[v]
    BY ONLY <2>1, <2>2, u \in Forward!All
  <2>4. QED
    BY <2>1, <2>2, <2>3
<1>20. ASSUME NEW h \in Handlers, NEW u \in Forward!All, Forward!KeepFirst(h, u)
       PROVE (ThrottleInv)'
  BY <1>20 DEF Forward!KeepFirst
<1>21. ASSUME Forward!SwapSemaphore PROVE (ThrottleInv)'
  BY <1>21 DEF Forward!SwapSemaphore
<1>22. ASSUME NEW u \in Forward!All, Forward!Toggle(u) PROVE (ThrottleInv)'
  BY <1>22 DEF Forward!Toggle
<1>23. ASSUME NEW u \in Forward!All, Forward!FiveSeconds(u) PROVE (ThrottleInv)'
  <2>1. PICK old \in SUBSET window[u] :
          /\ window' = [window EXCEPT ![u] = @ \ old]
          /\ seen' = IF "error" \in old THEN seen \ {u} ELSE seen
    BY <1>23 DEF Forward!FiveSeconds
  <2>2. window \in [Forward!All -> SUBSET {"ok", "error"}] /\ missed' = missed
    BY <1>23 DEF Forward!FiveSeconds
  <2>3. window'[u] = window[u] \ old /\ \A v \in Forward!All : v # u => window'[v] = window[v]
    BY ONLY <2>1, <2>2, u \in Forward!All
  <2>4. QED
    BY <2>1, <2>2, <2>3
<1>24. CASE UNCHANGED forwardVars
  BY <1>24 DEF forwardVars
<1>25. QED
  BY <1>1, <1>2, <1>3, <1>4, <1>5, <1>6, <1>7, <1>8, <1>9, <1>10,
     <1>11, <1>12, <1>13, <1>14, <1>15, <1>16, <1>17, <1>18, <1>19, <1>20, <1>21, <1>22, <1>23, <1>24 DEF Forward!Next

-----------------------------------------------------------------------------
FailureIsTrue(h) ==
    pc[h] \in {"resort", "over"} /\ asked[h] # {} =>
        /\ outcome[h] = "failed" => \A u \in asked[h] : net[u] \notin {"up"}
        /\ outcome[h] = "raised" => \E u \in asked[h] : net[u] = "broken"
        /\ first[h] # None => net[first[h]] = "up"
Fits(h) == HandlerFits(h) /\ (\A u \in Forward!All : TaskFits(h, u)) /\ FailureIsTrue(h)
TruthInv == TaskInv /\ Forward!FailuresAreTrue

LEMMA TruthIs == TruthInv <=> \A h \in Handlers : Fits(h)
  BY DEF TruthInv, TaskInv, Fits, Forward!FailuresAreTrue, FailureIsTrue
LEMMA TruthIsNext == TruthInv' <=> \A h \in Handlers : Fits(h)'
  BY DEF TruthInv, TaskInv, Fits, Forward!FailuresAreTrue, FailureIsTrue

Same(h) == UNCHANGED <<pc[h], mode[h], order[h], asked[h], task[h], first[h], outcome[h]>>

LEMMA SameFits == ASSUME NEW h \in Handlers, UNCHANGED net, Same(h), Fits(h) PROVE Fits(h)'
<1> USE DEF Same
<1>1. HandlerFits(h)'
  BY DEF Fits, HandlerFits
<1>2. ASSUME NEW u \in Forward!All PROVE TaskFits(h, u)'
  <2>1. /\ TaskFits(h, u) /\ task'[h] = task[h] /\ pc'[h] = pc[h] /\ asked'[h] = asked[h]
        /\ net' = net
    BY DEF Fits
  <2>2. QED
    BY ONLY <2>1 DEF TaskFits
<1>3. FailureIsTrue(h)'
  BY DEF Fits, FailureIsTrue
<1>4. QED
  BY <1>1, <1>2, <1>3 DEF Fits

LEMMA TruthStep == SlotTypes /\ OtherTypes /\ TruthInv /\ [Forward!Next]_forwardVars => (TruthInv)'
<1> SUFFICES ASSUME SlotTypes /\ OtherTypes /\ TruthInv, [Forward!Next]_forwardVars PROVE (TruthInv)'
  OBVIOUS
<1>1. \A g \in Handlers : Fits(g)
  BY TruthIs
<1> SUFFICES \A g \in Handlers : Fits(g)'
  BY TruthIsNext
<1>2. ASSUME NEW h \in Handlers, Forward!Bind(h) PROVE \A g \in Handlers : Fits(g)'
  <2>1. UNCHANGED net /\ \A g \in Handlers \ {h} : Same(g)
    BY <1>2 DEF Forward!Bind, Same, SlotTypes, OtherTypes, TaskStates, Forward!health, Forward!Goto
  <2>2. pc[h] = "idle" /\ pc'[h] = "waiting" /\ UNCHANGED <<mode[h], order[h], asked[h], task[h], first[h], outcome[h]>>
    BY <1>2 DEF Forward!Bind, Same, SlotTypes, OtherTypes, TaskStates, Forward!health, Forward!Goto
  <2>3. HandlerFits(h)'
    BY <1>1, <2>1, <2>2 DEF Fits, HandlerFits
  <2>4. ASSUME NEW v \in Forward!All PROVE TaskFits(h, v)'
    BY <1>1, <2>1, <2>2 DEF Fits, HandlerFits, TaskFits
  <2>5. FailureIsTrue(h)'
    BY <1>1, <2>1, <2>2 DEF Fits, HandlerFits, TaskFits, FailureIsTrue
  <2>6. QED
    BY <2>1, <2>3, <2>4, <2>5, <1>1, SameFits DEF Fits
<1>3. ASSUME NEW h \in Handlers, Forward!Acquire(h) PROVE \A g \in Handlers : Fits(g)'
  <2>1. UNCHANGED net /\ \A g \in Handlers \ {h} : Same(g)
    BY <1>3 DEF Forward!Acquire, Same, SlotTypes, OtherTypes, TaskStates, Forward!query, Forward!health,
       Forward!Goto
  <2>2. pc[h] = "waiting" /\ pc'[h] = "choosing" /\ UNCHANGED <<mode[h], order[h], asked[h], task[h], first[h], outcome[h]>>
    BY <1>3 DEF Forward!Acquire, Same, SlotTypes, OtherTypes, TaskStates, Forward!query, Forward!health,
       Forward!Goto
  <2>3. HandlerFits(h)'
    BY <1>1, <2>1, <2>2 DEF Fits, HandlerFits
  <2>4. ASSUME NEW v \in Forward!All PROVE TaskFits(h, v)'
    BY <1>1, <2>1, <2>2 DEF Fits, HandlerFits, TaskFits
  <2>5. FailureIsTrue(h)'
    BY <1>1, <2>1, <2>2 DEF Fits, HandlerFits, TaskFits, FailureIsTrue
  <2>6. QED
    BY <2>1, <2>3, <2>4, <2>5, <1>1, SameFits DEF Fits
<1>4. ASSUME NEW h \in Handlers, Forward!Busy(h) PROVE \A g \in Handlers : Fits(g)'
  <2>1. UNCHANGED net /\ \A g \in Handlers \ {h} : Same(g)
    BY <1>4 DEF Forward!Busy, Same, SlotTypes, OtherTypes, TaskStates, Forward!health, Forward!Goto,
       Forward!Ended
  <2>2. pc[h] = "waiting" /\ pc'[h] \in {"resort", "over"} /\ UNCHANGED <<mode[h], order[h], asked[h], task[h], first[h]>>
    BY <1>4 DEF Forward!Busy, Same, SlotTypes, OtherTypes, TaskStates, Forward!health, Forward!Goto,
       Forward!Ended
  <2>3. HandlerFits(h)'
    BY <1>1, <2>1, <2>2 DEF Fits, HandlerFits
  <2>4. ASSUME NEW v \in Forward!All PROVE TaskFits(h, v)'
    BY <1>1, <2>1, <2>2 DEF Fits, HandlerFits, TaskFits
  <2>5. FailureIsTrue(h)'
    BY <1>1, <2>1, <2>2 DEF Fits, HandlerFits, TaskFits, FailureIsTrue
  <2>6. QED
    BY <2>1, <2>3, <2>4, <2>5, <1>1, SameFits DEF Fits
<1>5. ASSUME NEW h \in Handlers, Forward!Ask(h) PROVE \A g \in Handlers : Fits(g)'
  <2>1. UNCHANGED net /\ \A g \in Handlers \ {h} : Same(g)
    BY <1>5 DEF Forward!Ask, Same, SlotTypes, OtherTypes, TaskStates, Forward!health, Forward!Goto,
       Forward!Do
  <2>2. /\ pc[h] = "choosing" /\ pc'[h] = "asking" /\ asked'[h] = Forward!Usable
        /\ Forward!Usable # {} /\ ~Forward!Races(h)
        /\ UNCHANGED <<mode[h], first[h], outcome[h]>>
    BY <1>5 DEF Forward!Ask, Same, SlotTypes, OtherTypes, TaskStates, Forward!health, Forward!Goto,
       Forward!Do
  <2>3. PICK s \in Forward!InTurn(h) : order'[h] = Tail(s) /\ task' = [task EXCEPT ![h][Head(s)] = "asking"]
    BY <1>5 DEF Forward!Ask, OtherTypes, TaskStates, Forward!Do
  <2>4. active \subseteq Forward!All /\ rr \in Nat
    <3>1. active \subseteq Forward!All /\ rr \in 0..Len(Upstreams)
      BY DEF OtherTypes, TaskStates
    <3>2. QED
      BY ONLY <3>1, AllIsFinite
  <2>5. Lists(s, Forward!Usable) /\ s # <<>>
    BY <2>2, <2>4, InTurnLists
  <2>6. /\ Head(s) \in asked'[h] /\ task'[h] = [task[h] EXCEPT ![Head(s)] = "asking"]
        /\ task[h] \in [Forward!All -> TaskStates] /\ asked'[h] \subseteq Forward!All
        /\ \A v \in asked'[h] : v = Head(s) \/ \E j \in DOMAIN order'[h] : order'[h][j] = v
        /\ \A j \in DOMAIN order'[h] : order'[h][j] \in asked'[h]
        /\ mode[h] = "parallel_race" => \A x, y \in asked'[h] : x = y
    <3>1. /\ Head(s) \in Forward!Usable /\ Tail(s) \in Seq(Forward!Usable)
          /\ \A v \in Forward!Usable : v = Head(s) \/ \E j \in DOMAIN Tail(s) : Tail(s)[j] = v
      BY <2>5, HeadAndTail DEF Lists
    <3>2. task[h] \in [Forward!All -> TaskStates] /\ task'[h] = [task[h] EXCEPT ![Head(s)] = "asking"]
      BY <2>3 DEF OtherTypes, TaskStates
    <3>3. mode[h] = "parallel_race" => \A x, y \in Forward!Usable : x = y
      <4> SUFFICES ASSUME mode[h] = "parallel_race", NEW x \in Forward!Usable,
                          NEW y \in Forward!Usable, x # y
                   PROVE  FALSE
        OBVIOUS
      <4>1. Cardinality(Forward!Usable) \in Nat /\ IsFiniteSet(Forward!Usable)
            /\ ~(Cardinality(Forward!Usable) > 1)
        BY <2>2, SomeoneUsable, ForwardCardinality DEF Forward!Races
      <4>2. {x, y} \in SUBSET Forward!Usable /\ Cardinality({x, y}) = 2
        <5>1. IsFiniteSet({x}) /\ Cardinality({x}) = 1
          BY FS_Singleton
        <5>2. Cardinality({x} \cup {y}) = IF y \in {x} THEN Cardinality({x}) ELSE Cardinality({x}) + 1
          BY ONLY <5>1, FS_AddElement
        <5>3. {x, y} = {x} \cup {y}
          OBVIOUS
        <5>4. QED
          BY <5>1, <5>2, <5>3
      <4>3. QED
        BY <4>1, <4>2, FS_Subset
    <3>4. Forward!Usable \subseteq Forward!All
      BY SomeoneUsable
    <3>5. \A j \in DOMAIN Tail(s) : Tail(s)[j] \in Forward!Usable
      BY ONLY <3>1
    <3>6. QED
      BY <1>1, <2>2, <2>3, <3>1, <3>2, <3>3, <3>4, <3>5
  <2>7. \A v \in Forward!All : task'[h][v] = IF v = Head(s) THEN "asking" ELSE task[h][v]
    BY <2>6
  <2>8. HandlerFits(h) /\ (\A v \in Forward!All : TaskFits(h, v)) /\ FailureIsTrue(h)
    BY <1>1 DEF Fits
  <2>9. net' = net
    BY <2>1
  <2>10. /\ Head(s) \in asked'[h] /\ pc[h] = "choosing" /\ pc'[h] = "asking"
         /\ \A v \in asked'[h] : v = Head(s) \/ \E j \in DOMAIN order'[h] : order'[h][j] = v
         /\ \A j \in DOMAIN order'[h] : order'[h][j] \in asked'[h]
         /\ asked'[h] \subseteq Forward!All
         /\ mode[h] = "parallel_race" => \A x, y \in asked'[h] : x = y
         /\ UNCHANGED <<mode[h], first[h], outcome[h]>>
    BY <2>6, <2>2
  <2>11. asked[h] \subseteq Forward!All
    BY DEF OtherTypes, TaskStates
  <2>12. HandlerFits(h)'
    BY ONLY <2>7, <2>8, <2>9, <2>10, <2>11 DEF Fits, HandlerFits, TaskFits
  <2>13. ASSUME NEW v \in Forward!All PROVE TaskFits(h, v)'
    BY ONLY <2>7, <2>8, <2>9, <2>10, <2>11 DEF Fits, HandlerFits, TaskFits
  <2>14. FailureIsTrue(h)'
    BY ONLY <2>7, <2>8, <2>9, <2>10, <2>11 DEF Fits, HandlerFits, TaskFits, FailureIsTrue
  <2>15. QED
    BY <2>1, <2>12, <2>13, <2>14, <1>1, SameFits DEF Fits
<1>6. ASSUME NEW h \in Handlers, Forward!Race(h) PROVE \A g \in Handlers : Fits(g)'
  <2>1. PICK S \in Forward!Racers(h) :
          /\ asked' = [asked EXCEPT ![h] = S]
          /\ task' = [task EXCEPT ![h] = [v \in Forward!All |-> IF v \in S THEN "asking" ELSE "none"]]
    BY <1>6 DEF Forward!Race
  <2>2. /\ pc[h] = "choosing" /\ pc' = [pc EXCEPT ![h] = "racing"]
        /\ UNCHANGED <<net, mode, order, first, outcome>>
    BY <1>6 DEF Forward!Race, Forward!Goto
  <2>3. \A g \in Handlers \ {h} : Same(g)
    BY <2>1, <2>2 DEF Same, SlotTypes, OtherTypes, TaskStates
  <2>4. /\ pc'[h] = "racing" /\ pc[h] = "choosing" /\ asked'[h] = S /\ net' = net
        /\ \A v \in Forward!All : task'[h][v] = IF v \in S THEN "asking" ELSE "none"
        /\ first'[h] = first[h]
    BY <2>1, <2>2 DEF SlotTypes, OtherTypes, TaskStates
  <2>5. HandlerFits(h)
    BY <1>1 DEF Fits
  <2>6. HandlerFits(h)'
    BY ONLY <2>4, <2>5 DEF HandlerFits
  <2>7. \A v \in Forward!All : TaskFits(h, v)'
    BY ONLY <2>4 DEF TaskFits
  <2>8. FailureIsTrue(h)'
    BY ONLY <2>4 DEF FailureIsTrue
  <2>9. QED
    BY <1>1, <2>2, <2>3, <2>6, <2>7, <2>8, SameFits DEF Fits
<1>7. ASSUME NEW h \in Handlers, Forward!AskNobody(h) PROVE \A g \in Handlers : Fits(g)'
  <2>1. UNCHANGED net /\ \A g \in Handlers \ {h} : Same(g)
    BY <1>7 DEF Forward!AskNobody, Same, SlotTypes, OtherTypes, TaskStates, Forward!health, Forward!Goto,
       Forward!Ended, Forward!Release, Forward!Return
  <2>2. pc[h] = "choosing" /\ pc'[h] \in {"resort", "over"} /\ UNCHANGED <<mode[h], order[h], asked[h], task[h], first[h]>>
    BY <1>7 DEF Forward!AskNobody, Same, SlotTypes, OtherTypes, TaskStates, Forward!health, Forward!Goto,
       Forward!Ended, Forward!Release, Forward!Return
  <2>3. HandlerFits(h)'
    BY <1>1, <2>1, <2>2 DEF Fits, HandlerFits
  <2>4. ASSUME NEW v \in Forward!All PROVE TaskFits(h, v)'
    BY <1>1, <2>1, <2>2 DEF Fits, HandlerFits, TaskFits
  <2>5. FailureIsTrue(h)'
    BY <1>1, <2>1, <2>2 DEF Fits, HandlerFits, TaskFits, FailureIsTrue
  <2>6. QED
    BY <2>1, <2>3, <2>4, <2>5, <1>1, SameFits DEF Fits
<1>8. ASSUME NEW h \in Handlers, Forward!GotAnswer(h) PROVE \A g \in Handlers : Fits(g)'
  <2>1. UNCHANGED net /\ \A g \in Handlers \ {h} : Same(g)
    BY <1>8 DEF Forward!GotAnswer, Same, SlotTypes, OtherTypes, TaskStates, Forward!health, Forward!Goto,
       Forward!Ended, Forward!Release, Forward!Return
  <2>2. pc[h] = "asking" /\ pc'[h] \in {"resort", "over"} /\ outcome'[h] = "answered"
        /\ UNCHANGED <<mode[h], order[h], asked[h], task[h], first[h]>>
    BY <1>8 DEF Forward!GotAnswer, Same, SlotTypes, OtherTypes, TaskStates, Forward!health, Forward!Goto,
       Forward!Ended, Forward!Release, Forward!Return
  <2>3. HandlerFits(h)'
    BY <1>1, <2>1, <2>2 DEF Fits, HandlerFits
  <2>4. ASSUME NEW v \in Forward!All PROVE TaskFits(h, v)'
    BY <1>1, <2>1, <2>2 DEF Fits, HandlerFits, TaskFits
  <2>5. FailureIsTrue(h)'
    BY <1>1, <2>1, <2>2 DEF Fits, HandlerFits, TaskFits, FailureIsTrue
  <2>6. QED
    BY <2>1, <2>3, <2>4, <2>5, <1>1, SameFits DEF Fits
<1>9. ASSUME NEW h \in Handlers, Forward!AskNext(h) PROVE \A g \in Handlers : Fits(g)'
  <2>1. UNCHANGED net /\ \A g \in Handlers \ {h} : Same(g)
    BY <1>9 DEF Forward!AskNext, Same, SlotTypes, OtherTypes, TaskStates, Forward!health, Forward!Do
  <2>2. /\ pc[h] = "asking" /\ order[h] # <<>> /\ order'[h] = Tail(order[h])
        /\ task'[h] = [task[h] EXCEPT ![Head(order[h])] = "asking"]
        /\ UNCHANGED <<pc[h], mode[h], asked[h], first[h], outcome[h]>>
    BY <1>9 DEF Forward!AskNext, Same, SlotTypes, OtherTypes, TaskStates, Forward!health, Forward!Do
  <2>3. /\ Head(order[h]) \in asked[h] /\ task[h] \in [Forward!All -> TaskStates]
        /\ \A v \in asked[h] : task[h][v] # "none" \/ v = Head(order[h])
             \/ \E j \in DOMAIN order'[h] : order'[h][j] = v
        /\ \A j \in DOMAIN order'[h] : order'[h][j] \in asked[h]
    <3>1. order[h] \in Seq(Forward!All) /\ task[h] \in [Forward!All -> TaskStates]
      BY DEF OtherTypes, TaskStates
    <3>2. /\ \A i \in DOMAIN order[h] : order[h][i] \in asked[h]
          /\ \A v \in asked[h] : task[h][v] # "none" \/ \E i \in DOMAIN order[h] : order[h][i] = v
      BY <1>1, <2>2 DEF Fits, HandlerFits
    <3>3. QED
      BY <1>1, <2>2, <3>1, <3>2, HeadAndTail
  <2>4. \A v \in Forward!All : task'[h][v] = IF v = Head(order[h]) THEN "asking" ELSE task[h][v]
    BY <2>3, <2>2
  <2>5. HandlerFits(h) /\ (\A v \in Forward!All : TaskFits(h, v)) /\ FailureIsTrue(h)
    BY <1>1 DEF Fits
  <2>6. net' = net
    BY <2>1
  <2>7. /\ Head(order[h]) \in asked[h] /\ pc[h] = "asking"
        /\ \A v \in asked[h] : task[h][v] # "none" \/ v = Head(order[h])
             \/ \E j \in DOMAIN order'[h] : order'[h][j] = v
        /\ \A j \in DOMAIN order'[h] : order'[h][j] \in asked[h]
        /\ UNCHANGED <<pc[h], mode[h], asked[h], first[h], outcome[h]>>
    BY <2>3, <2>2
  <2>8. asked[h] \subseteq Forward!All
    BY DEF OtherTypes, TaskStates
  <2>9. HandlerFits(h)'
    <3>1. /\ first[h] # None => net[first[h]] = "up"
          /\ mode[h] = "parallel_race" => \A u, v \in asked[h] : u = v
      BY ONLY <2>5, <2>7 DEF HandlerFits
    <3>2. \A v \in asked[h] : task'[h][v] # "none" \/ \E j \in DOMAIN order'[h] : order'[h][j] = v
      <4>1. ASSUME NEW v \in asked[h], v = Head(order[h]) PROVE task'[h][v] # "none"
        BY ONLY <2>4, <2>8, <4>1, v \in asked[h]
      <4>2. ASSUME NEW v \in asked[h], v # Head(order[h])
            PROVE  task'[h][v] # "none" \/ \E j \in DOMAIN order'[h] : order'[h][j] = v
        BY ONLY <2>4, <2>7, <2>8, <4>2, v \in asked[h]
      <4>3. QED
        BY <4>1, <4>2
    <3>3. QED
      BY ONLY <2>6, <2>7, <3>1, <3>2 DEF HandlerFits
  <2>10. ASSUME NEW v \in Forward!All PROVE TaskFits(h, v)'
    BY ONLY <2>4, <2>5, <2>6, <2>7, <2>8 DEF Fits, HandlerFits, TaskFits
  <2>11. FailureIsTrue(h)'
    BY ONLY <2>4, <2>5, <2>6, <2>7, <2>8 DEF Fits, HandlerFits, TaskFits, FailureIsTrue
  <2>12. QED
    BY <2>1, <2>9, <2>10, <2>11, <1>1, SameFits DEF Fits
<1>10. ASSUME NEW h \in Handlers, Forward!AllFailed(h) PROVE \A g \in Handlers : Fits(g)'
  <2>1. UNCHANGED net /\ \A g \in Handlers \ {h} : Same(g)
    BY <1>10 DEF Forward!AllFailed, Same, SlotTypes, OtherTypes, TaskStates, Forward!health, Forward!Goto,
       Forward!Ended, Forward!Release, Forward!Return
  <2>2. /\ pc[h] = "asking" /\ pc'[h] \in {"resort", "over"} /\ outcome'[h] = "failed"
        /\ UNCHANGED <<mode[h], order[h], asked[h], task[h], first[h]>>
        /\ Forward!Idle(h) /\ ~Forward!Answered(h) /\ order[h] = <<>>
    BY <1>10 DEF Forward!AllFailed, Same, SlotTypes, OtherTypes, TaskStates, Forward!health, Forward!Goto,
       Forward!Ended, Forward!Release, Forward!Return
  <2>3. \A v \in asked[h] : net[v] # "up"
    <3> SUFFICES ASSUME NEW v \in asked[h] PROVE net[v] # "up"
      OBVIOUS
    <3>1. v \in Forward!All
      BY DEF OtherTypes, TaskStates
    <3>2. task[h][v] # "none"
      BY <1>1, <2>2 DEF Fits, HandlerFits
    <3>3. task[h][v] \in {"over", "in error"}
      BY <2>2, <3>1, <3>2 DEF Forward!Idle
    <3>4. QED
      BY <1>1, <2>2, <3>1, <3>3 DEF Fits, TaskFits, Forward!Answered
  <2>4. HandlerFits(h)'
    BY <1>1, <2>1, <2>2 DEF Fits, HandlerFits
  <2>5. ASSUME NEW v \in Forward!All PROVE TaskFits(h, v)'
    BY <1>1, <2>1, <2>2 DEF Fits, HandlerFits, TaskFits
  <2>6. FailureIsTrue(h)'
    BY <1>1, <2>1, <2>2, <2>3 DEF Fits, HandlerFits, TaskFits, FailureIsTrue
  <2>7. QED
    BY <2>1, <2>4, <2>5, <2>6, <1>1, SameFits DEF Fits
<1>11. ASSUME NEW h \in Handlers, Forward!RaceWon(h) PROVE \A g \in Handlers : Fits(g)'
  <2>1. UNCHANGED net /\ \A g \in Handlers \ {h} : Same(g)
    BY <1>11 DEF Forward!RaceWon, Same, SlotTypes, OtherTypes, TaskStates, Forward!health, Forward!Goto,
       Forward!Ended, Forward!Release, Forward!Return
  <2>2. pc[h] = "racing" /\ pc'[h] \in {"resort", "over"} /\ outcome'[h] = "answered"
        /\ UNCHANGED <<mode[h], order[h], asked[h], task[h], first[h]>>
    BY <1>11 DEF Forward!RaceWon, Same, SlotTypes, OtherTypes, TaskStates, Forward!health, Forward!Goto,
       Forward!Ended, Forward!Release, Forward!Return
  <2>3. HandlerFits(h)'
    BY <1>1, <2>1, <2>2 DEF Fits, HandlerFits
  <2>4. ASSUME NEW v \in Forward!All PROVE TaskFits(h, v)'
    BY <1>1, <2>1, <2>2 DEF Fits, HandlerFits, TaskFits
  <2>5. FailureIsTrue(h)'
    BY <1>1, <2>1, <2>2 DEF Fits, HandlerFits, TaskFits, FailureIsTrue
  <2>6. QED
    BY <2>1, <2>3, <2>4, <2>5, <1>1, SameFits DEF Fits
<1>12. ASSUME NEW h \in Handlers, Forward!RaceLost(h) PROVE \A g \in Handlers : Fits(g)'
  <2>1. UNCHANGED net /\ \A g \in Handlers \ {h} : Same(g)
    BY <1>12 DEF Forward!RaceLost, Same, SlotTypes, OtherTypes, TaskStates, Forward!health, Forward!Goto,
       Forward!Ended, Forward!Release, Forward!Return
  <2>2. /\ pc[h] = "racing" /\ pc'[h] \in {"resort", "over"} /\ outcome'[h] = "failed"
        /\ UNCHANGED <<mode[h], order[h], asked[h], task[h], first[h]>>
        /\ Forward!Lost(h)
    BY <1>12 DEF Forward!RaceLost, Same, SlotTypes, OtherTypes, TaskStates, Forward!health, Forward!Goto,
       Forward!Ended, Forward!Release, Forward!Return
  <2>3. \A v \in asked[h] : net[v] # "up"
    BY <1>1, <2>2 DEF Forward!Lost, Fits, TaskFits, OtherTypes, TaskStates
  <2>4. HandlerFits(h)'
    BY <1>1, <2>1, <2>2 DEF Fits, HandlerFits
  <2>5. ASSUME NEW v \in Forward!All PROVE TaskFits(h, v)'
    BY <1>1, <2>1, <2>2 DEF Fits, HandlerFits, TaskFits
  <2>6. FailureIsTrue(h)'
    BY <1>1, <2>1, <2>2, <2>3 DEF Fits, HandlerFits, TaskFits, FailureIsTrue
  <2>7. QED
    BY <2>1, <2>4, <2>5, <2>6, <1>1, SameFits DEF Fits
<1>13. ASSUME NEW h \in Handlers, Forward!TakeFallback(h) PROVE \A g \in Handlers : Fits(g)'
  <2>1. UNCHANGED net /\ \A g \in Handlers : Same(g)
    BY <1>13 DEF Forward!TakeFallback, Same
  <2>2. QED
    BY <1>1, <2>1, SameFits
<1>14. ASSUME NEW h \in Handlers, Forward!NoFallback(h) PROVE \A g \in Handlers : Fits(g)'
  <2>1. UNCHANGED net /\ \A g \in Handlers \ {h} : Same(g)
    BY <1>14 DEF Forward!NoFallback, Same, SlotTypes, OtherTypes, TaskStates, Forward!health, Forward!Goto
  <2>2. pc[h] = "resort" /\ pc'[h] = "over" /\ outcome'[h] = "nothing" /\ UNCHANGED <<mode[h], order[h], asked[h], task[h], first[h]>>
    BY <1>14 DEF Forward!NoFallback, Same, SlotTypes, OtherTypes, TaskStates, Forward!health, Forward!Goto
  <2>3. HandlerFits(h)'
    BY <1>1, <2>1, <2>2 DEF Fits, HandlerFits
  <2>4. ASSUME NEW v \in Forward!All PROVE TaskFits(h, v)'
    BY <1>1, <2>1, <2>2 DEF Fits, HandlerFits, TaskFits
  <2>5. FailureIsTrue(h)'
    BY <1>1, <2>1, <2>2 DEF Fits, HandlerFits, TaskFits, FailureIsTrue
  <2>6. QED
    BY <2>1, <2>3, <2>4, <2>5, <1>1, SameFits DEF Fits
<1>15. ASSUME NEW h \in Handlers, Forward!FallbackEnds(h) PROVE \A g \in Handlers : Fits(g)'
  <2>1. UNCHANGED net /\ \A g \in Handlers \ {h} : Same(g)
    BY <1>15 DEF Forward!FallbackEnds, Same, SlotTypes, OtherTypes, TaskStates, Forward!health,
       Forward!Goto
  <2>2. pc[h] = "resort" /\ pc'[h] = "over" /\ outcome'[h] \in {"answered", "nothing"}
        /\ UNCHANGED <<mode[h], order[h], asked[h], task[h], first[h]>>
    BY <1>15 DEF Forward!FallbackEnds, Same, SlotTypes, OtherTypes, TaskStates, Forward!health,
       Forward!Goto
  <2>3. HandlerFits(h)'
    BY <1>1, <2>1, <2>2 DEF Fits, HandlerFits
  <2>4. ASSUME NEW v \in Forward!All PROVE TaskFits(h, v)'
    BY <1>1, <2>1, <2>2 DEF Fits, HandlerFits, TaskFits
  <2>5. FailureIsTrue(h)'
    BY <1>1, <2>1, <2>2 DEF Fits, HandlerFits, TaskFits, FailureIsTrue
  <2>6. QED
    BY <2>1, <2>3, <2>4, <2>5, <1>1, SameFits DEF Fits
<1>16. ASSUME NEW h \in Handlers, NEW u \in Forward!All, Forward!Answer(h, u)
       PROVE \A g \in Handlers : Fits(g)'
  <2>1. UNCHANGED net /\ \A g \in Handlers \ {h} : Same(g)
    BY <1>16 DEF Forward!Answer, Same, SlotTypes, OtherTypes, TaskStates, Forward!health, Forward!Do
  <2>2. /\ task[h][u] = "asking" /\ net[u] = "up"
        /\ task'[h] = [task[h] EXCEPT ![u] = "answered"] /\ task[h] \in [Forward!All -> TaskStates]
        /\ UNCHANGED <<pc[h], mode[h], order[h], asked[h], first[h], outcome[h]>>
    BY <1>16 DEF Forward!Answer, Same, SlotTypes, OtherTypes, TaskStates, Forward!health, Forward!Do
  <2>3. \A v \in Forward!All : task'[h][v] = IF v = u THEN "answered" ELSE task[h][v]
    BY <1>1, <2>2
  <2>4. HandlerFits(h) /\ (\A v \in Forward!All : TaskFits(h, v)) /\ FailureIsTrue(h)
    BY <1>1 DEF Fits
  <2>5. net' = net
    BY <2>1
  <2>6. task[h][u] = "asking" /\ net[u] = "up" /\ u \in Forward!All
         /\ UNCHANGED <<pc[h], mode[h], order[h], asked[h], first[h], outcome[h]>>
    BY <2>2
  <2>7. asked[h] \subseteq Forward!All
    BY DEF OtherTypes, TaskStates
  <2>8. \A v \in Forward!All : task[h][v] # "none" => task'[h][v] # "none"
    BY ONLY <2>3, <2>6
  <2>9. HandlerFits(h)'
    <3>1. /\ HandlerFits(h) /\ first'[h] = first[h] /\ pc'[h] = pc[h] /\ asked'[h] = asked[h]
          /\ order'[h] = order[h] /\ mode'[h] = mode[h]
      BY <2>4, <2>6
    <3>2. \A v \in asked[h] : task[h][v] # "none" => task'[h][v] # "none"
      BY ONLY <2>7, <2>8
    <3>3. QED
      BY ONLY <2>5, <3>1, <3>2 DEF HandlerFits
  <2>10. ASSUME NEW v \in Forward!All PROVE TaskFits(h, v)'
    BY ONLY <2>3, <2>4, <2>5, <2>6, <2>7 DEF Fits, HandlerFits, TaskFits
  <2>11. FailureIsTrue(h)'
    BY ONLY <2>3, <2>4, <2>5, <2>6, <2>7 DEF Fits, HandlerFits, TaskFits, FailureIsTrue
  <2>12. QED
    BY <2>1, <2>9, <2>10, <2>11, <1>1, SameFits DEF Fits
<1>17. ASSUME NEW h \in Handlers, NEW u \in Forward!All, Forward!Fail(h, u)
       PROVE \A g \in Handlers : Fits(g)'
  <2>1. UNCHANGED net /\ \A g \in Handlers \ {h} : Same(g)
    BY <1>17 DEF Forward!Fail, Same, SlotTypes, OtherTypes, TaskStates, Forward!health, Forward!Do
  <2>2. /\ task[h][u] = "asking" /\ net[u] # "up"
        /\ task'[h] = [task[h] EXCEPT ![u] = "failed"] /\ task[h] \in [Forward!All -> TaskStates]
        /\ UNCHANGED <<pc[h], mode[h], order[h], asked[h], first[h], outcome[h]>>
    BY <1>17 DEF Forward!Fail, Same, SlotTypes, OtherTypes, TaskStates, Forward!health, Forward!Do
  <2>3. \A v \in Forward!All : task'[h][v] = IF v = u THEN "failed" ELSE task[h][v]
    BY <1>1, <2>2
  <2>4. HandlerFits(h) /\ (\A v \in Forward!All : TaskFits(h, v)) /\ FailureIsTrue(h)
    BY <1>1 DEF Fits
  <2>5. net' = net
    BY <2>1
  <2>6. task[h][u] = "asking" /\ net[u] # "up" /\ u \in Forward!All
         /\ UNCHANGED <<pc[h], mode[h], order[h], asked[h], first[h], outcome[h]>>
    BY <2>2
  <2>7. asked[h] \subseteq Forward!All
    BY DEF OtherTypes, TaskStates
  <2>8. \A v \in Forward!All : task[h][v] # "none" => task'[h][v] # "none"
    BY ONLY <2>3, <2>6
  <2>9. HandlerFits(h)'
    <3>1. /\ HandlerFits(h) /\ first'[h] = first[h] /\ pc'[h] = pc[h] /\ asked'[h] = asked[h]
          /\ order'[h] = order[h] /\ mode'[h] = mode[h]
      BY <2>4, <2>6
    <3>2. \A v \in asked[h] : task[h][v] # "none" => task'[h][v] # "none"
      BY ONLY <2>7, <2>8
    <3>3. QED
      BY ONLY <2>5, <3>1, <3>2 DEF HandlerFits
  <2>10. ASSUME NEW v \in Forward!All PROVE TaskFits(h, v)'
    BY ONLY <2>3, <2>4, <2>5, <2>6, <2>7 DEF Fits, HandlerFits, TaskFits
  <2>11. FailureIsTrue(h)'
    BY ONLY <2>3, <2>4, <2>5, <2>6, <2>7 DEF Fits, HandlerFits, TaskFits, FailureIsTrue
  <2>12. QED
    BY <2>1, <2>9, <2>10, <2>11, <1>1, SameFits DEF Fits
<1>18. ASSUME NEW h \in Handlers, NEW u \in Forward!All, Forward!Raise(h, u)
       PROVE \A g \in Handlers : Fits(g)'
  <2>1. UNCHANGED net /\ \A g \in Handlers \ {h} : Same(g)
    BY <1>18 DEF Forward!Raise, Same, SlotTypes, OtherTypes, TaskStates, Forward!health, Forward!Goto,
       Forward!Do, Forward!Ended, Forward!Release, Forward!Return, Forward!Caught
  <2>2. /\ task[h][u] = "asking" /\ net[u] # "up" /\ pc[h] = "asking"
        /\ net[u] = "broken" \/ mode[h] = "parallel_race"
        /\ outcome'[h] = IF net[u] = "broken" THEN "raised" ELSE "failed"
        /\ task'[h] = [task[h] EXCEPT ![u] = "over"] /\ task[h] \in [Forward!All -> TaskStates]
        /\ pc'[h] \in {"resort", "over"} /\ UNCHANGED <<mode[h], order[h], asked[h], first[h]>>
    BY <1>18 DEF Forward!Raise, Same, SlotTypes, OtherTypes, TaskStates, Forward!health, Forward!Goto,
       Forward!Do, Forward!Ended, Forward!Release, Forward!Return, Forward!Caught
  <2>3. \A v \in Forward!All : task'[h][v] = IF v = u THEN "over" ELSE task[h][v]
    BY <1>1, <2>2
  <2>4. HandlerFits(h) /\ (\A v \in Forward!All : TaskFits(h, v)) /\ FailureIsTrue(h)
    BY <1>1 DEF Fits
  <2>5. net' = net
    BY <2>1
  <2>6. /\ task[h][u] = "asking" /\ net[u] # "up" /\ pc[h] = "asking" /\ u \in Forward!All
        /\ net[u] = "broken" \/ mode[h] = "parallel_race"
        /\ outcome'[h] = IF net[u] = "broken" THEN "raised" ELSE "failed"
        /\ pc'[h] \in {"resort", "over"} /\ UNCHANGED <<mode[h], order[h], asked[h], first[h]>>
    BY <2>2
  <2>7. asked[h] \subseteq Forward!All
    BY DEF OtherTypes, TaskStates
  <2>8. HandlerFits(h)'
    BY ONLY <2>3, <2>4, <2>5, <2>6, <2>7 DEF Fits, HandlerFits, TaskFits
  <2>9. ASSUME NEW v \in Forward!All PROVE TaskFits(h, v)'
    BY ONLY <2>3, <2>4, <2>5, <2>6, <2>7 DEF Fits, HandlerFits, TaskFits
  <2>10. FailureIsTrue(h)'
    BY ONLY <2>3, <2>4, <2>5, <2>6, <2>7 DEF Fits, HandlerFits, TaskFits, FailureIsTrue
  <2>11. QED
    BY <2>1, <2>8, <2>9, <2>10, <1>1, SameFits DEF Fits
<1>19. ASSUME NEW h \in Handlers, NEW u \in Forward!All, Forward!Check(h, u)
       PROVE \A g \in Handlers : Fits(g)'
  <2>1. UNCHANGED net /\ \A g \in Handlers \ {h} : Same(g)
    BY <1>19 DEF Forward!Check, Same, SlotTypes, OtherTypes, TaskStates, Forward!Do, Forward!Result
  <2>2. PICK what \in TaskStates :
        /\ task[h][u] = "answered" => what \in {"over", "writing ok"}
        /\ task[h][u] = "failed" => what \in {"in error", "writing error"}
        /\ task[h][u] \in {"answered", "failed"}
        /\ task'[h] = [task[h] EXCEPT ![u] = what] /\ task[h] \in [Forward!All -> TaskStates]
        /\ UNCHANGED <<pc[h], mode[h], order[h], asked[h], first[h], outcome[h]>>
    BY <1>19 DEF Forward!Check, Same, SlotTypes, OtherTypes, TaskStates, Forward!Do, Forward!Result
  <2>3. \A v \in Forward!All : task'[h][v] = IF v = u THEN what ELSE task[h][v]
    BY <1>1, <2>2
  <2>4. HandlerFits(h) /\ (\A v \in Forward!All : TaskFits(h, v)) /\ FailureIsTrue(h)
    BY <1>1 DEF Fits
  <2>5. net' = net
    BY <2>1
  <2>6. /\ task[h][u] = "answered" => what \in {"over", "writing ok"}
        /\ task[h][u] = "failed" => what \in {"in error", "writing error"}
        /\ task[h][u] \in {"answered", "failed"} /\ u \in Forward!All
        /\ UNCHANGED <<pc[h], mode[h], order[h], asked[h], first[h], outcome[h]>>
    BY <2>2
  <2>7. asked[h] \subseteq Forward!All
    BY DEF OtherTypes, TaskStates
  <2>8. \A v \in Forward!All : task[h][v] # "none" => task'[h][v] # "none"
    BY ONLY <2>3, <2>6
  <2>9. HandlerFits(h)'
    <3>1. /\ HandlerFits(h) /\ first'[h] = first[h] /\ pc'[h] = pc[h] /\ asked'[h] = asked[h]
          /\ order'[h] = order[h] /\ mode'[h] = mode[h]
      BY <2>4, <2>6
    <3>2. \A v \in asked[h] : task[h][v] # "none" => task'[h][v] # "none"
      BY ONLY <2>7, <2>8
    <3>3. QED
      BY ONLY <2>5, <3>1, <3>2 DEF HandlerFits
  <2>10. ASSUME NEW v \in Forward!All PROVE TaskFits(h, v)'
    BY ONLY <2>3, <2>4, <2>5, <2>6, <2>7 DEF Fits, HandlerFits, TaskFits
  <2>11. FailureIsTrue(h)'
    BY ONLY <2>3, <2>4, <2>5, <2>6, <2>7 DEF Fits, HandlerFits, TaskFits, FailureIsTrue
  <2>12. QED
    BY <2>1, <2>9, <2>10, <2>11, <1>1, SameFits DEF Fits
<1>20. ASSUME NEW h \in Handlers, NEW u \in Forward!All, Forward!Write(h, u)
       PROVE \A g \in Handlers : Fits(g)'
  <2>1. UNCHANGED net /\ \A g \in Handlers \ {h} : Same(g)
    BY <1>20 DEF Forward!Write, Same, SlotTypes, OtherTypes, TaskStates, Forward!Do, Forward!Result
  <2>2. PICK what \in TaskStates :
        /\ task[h][u] = "writing ok" => what = "over"
        /\ task[h][u] = "writing error" => what = "in error"
        /\ task[h][u] \in {"writing ok", "writing error"}
        /\ task'[h] = [task[h] EXCEPT ![u] = what] /\ task[h] \in [Forward!All -> TaskStates]
        /\ UNCHANGED <<pc[h], mode[h], order[h], asked[h], first[h], outcome[h]>>
    BY <1>20 DEF Forward!Write, Same, SlotTypes, OtherTypes, TaskStates, Forward!Do, Forward!Result
  <2>3. \A v \in Forward!All : task'[h][v] = IF v = u THEN what ELSE task[h][v]
    BY <1>1, <2>2
  <2>4. HandlerFits(h) /\ (\A v \in Forward!All : TaskFits(h, v)) /\ FailureIsTrue(h)
    BY <1>1 DEF Fits
  <2>5. net' = net
    BY <2>1
  <2>6. /\ task[h][u] = "writing ok" => what = "over"
        /\ task[h][u] = "writing error" => what = "in error"
        /\ task[h][u] \in {"writing ok", "writing error"} /\ u \in Forward!All
        /\ UNCHANGED <<pc[h], mode[h], order[h], asked[h], first[h], outcome[h]>>
    BY <2>2
  <2>7. asked[h] \subseteq Forward!All
    BY DEF OtherTypes, TaskStates
  <2>8. \A v \in Forward!All : task[h][v] # "none" => task'[h][v] # "none"
    BY ONLY <2>3, <2>6
  <2>9. HandlerFits(h)'
    <3>1. /\ HandlerFits(h) /\ first'[h] = first[h] /\ pc'[h] = pc[h] /\ asked'[h] = asked[h]
          /\ order'[h] = order[h] /\ mode'[h] = mode[h]
      BY <2>4, <2>6
    <3>2. \A v \in asked[h] : task[h][v] # "none" => task'[h][v] # "none"
      BY ONLY <2>7, <2>8
    <3>3. QED
      BY ONLY <2>5, <3>1, <3>2 DEF HandlerFits
  <2>10. ASSUME NEW v \in Forward!All PROVE TaskFits(h, v)'
    BY ONLY <2>3, <2>4, <2>5, <2>6, <2>7 DEF Fits, HandlerFits, TaskFits
  <2>11. FailureIsTrue(h)'
    BY ONLY <2>3, <2>4, <2>5, <2>6, <2>7 DEF Fits, HandlerFits, TaskFits, FailureIsTrue
  <2>12. QED
    BY <2>1, <2>9, <2>10, <2>11, <1>1, SameFits DEF Fits
<1>21. ASSUME NEW h \in Handlers, NEW u \in Forward!All, Forward!KeepFirst(h, u)
       PROVE \A g \in Handlers : Fits(g)'
  <2>1. /\ pc[h] = "racing" /\ task[h][u] = "over" /\ first' = [first EXCEPT ![h] = u]
        /\ UNCHANGED <<net, pc, mode, order, asked, task, outcome>>
    BY <1>21 DEF Forward!KeepFirst
  <2>2. \A g \in Handlers \ {h} : Same(g)
    BY <2>1 DEF Same, OtherTypes, TaskStates
  <2>3. first'[h] = u /\ net[u] = "up"
    BY <1>1, <2>1 DEF Fits, TaskFits, OtherTypes, TaskStates
  <2>4. HandlerFits(h) /\ \A v \in Forward!All : TaskFits(h, v)
    BY <1>1 DEF Fits
  <2>5. HandlerFits(h)'
    BY ONLY <2>1, <2>3, <2>4 DEF HandlerFits
  <2>6. \A v \in Forward!All : TaskFits(h, v)'
    BY ONLY <2>1, <2>4 DEF TaskFits
  <2>7. FailureIsTrue(h)'
    BY ONLY <2>1 DEF FailureIsTrue
  <2>8. QED
    BY <1>1, <2>1, <2>2, <2>5, <2>6, <2>7, SameFits DEF Fits
<1>22. ASSUME Forward!SwapSemaphore PROVE \A g \in Handlers : Fits(g)'
  <2>1. UNCHANGED net /\ \A g \in Handlers : Same(g)
    BY <1>22 DEF Forward!SwapSemaphore, Same, Forward!query
  <2>2. QED
    BY <1>1, <2>1, SameFits
<1>23. ASSUME NEW u \in Forward!All, Forward!Toggle(u) PROVE \A g \in Handlers : Fits(g)'
  <2>1. UNCHANGED net /\ \A g \in Handlers : Same(g)
    BY <1>23 DEF Forward!Toggle, Same, Forward!query
  <2>2. QED
    BY <1>1, <2>1, SameFits
<1>24. ASSUME NEW u \in Forward!All, Forward!FiveSeconds(u) PROVE \A g \in Handlers : Fits(g)'
  <2>1. UNCHANGED net /\ \A g \in Handlers : Same(g)
    BY <1>24 DEF Forward!FiveSeconds, Same, Forward!query
  <2>2. QED
    BY <1>1, <2>1, SameFits
<1>25. CASE UNCHANGED forwardVars
  <2>1. UNCHANGED net /\ \A g \in Handlers : Same(g)
    BY <1>25 DEF forwardVars, Same
  <2>2. QED
    BY <1>1, <2>1, SameFits
<1>26. QED
  BY <1>2, <1>3, <1>4, <1>5, <1>6, <1>7, <1>8, <1>9, <1>10, <1>11,
     <1>12, <1>13, <1>14, <1>15, <1>16, <1>17, <1>18, <1>19, <1>20, <1>21, <1>22, <1>23, <1>24,
     <1>25 DEF Forward!Next

-----------------------------------------------------------------------------
ForwardInv == SlotTypes /\ OtherTypes /\ SlotInv /\ TruthInv /\ ThrottleInv

LEMMA ForwardInit == Forward!Init => ForwardInv
<1> SUFFICES ASSUME Forward!Init PROVE ForwardInv
  OBVIOUS
<1>1. PICK s \in Scenes : /\ net \in s.nets
                          /\ kind \in [Handlers -> s.kinds] /\ mode \in [Handlers -> s.modes]
  BY DEF Forward!Init
<1>2. /\ active = Forward!All /\ semaphores = <<Slots>> /\ fallback = FallbackSlots /\ rr = 0
      /\ window = [u \in Forward!All |-> {}]
      /\ pc = [h \in Handlers |-> "idle"] /\ bound = [h \in Handlers |-> 0]
      /\ order = [h \in Handlers |-> <<>>] /\ asked = [h \in Handlers |-> {}]
      /\ task = [h \in Handlers |-> [u \in Forward!All |-> "none"]]
      /\ first = [h \in Handlers |-> None] /\ outcome = [h \in Handlers |-> "none"]
      /\ seen = {} /\ missed = {}
  BY DEF Forward!Init
<1>3. /\ semaphores \in Seq(0..Slots) /\ Len(semaphores) = 1 /\ DOMAIN semaphores = {1}
      /\ semaphores[1] = Slots
  BY <1>2, UpstreamsAssumption
<1>4. SlotTypes
  BY <1>2, <1>3, UpstreamsAssumption DEF SlotTypes
<1>5. SlotInv
  <2>1. Holding(1) = {} /\ Resorting = {}
    BY <1>2 DEF Holding, Resorting
  <2>2. Slots + Cardinality({}) = Slots /\ FallbackSlots + Cardinality({}) = FallbackSlots
    BY UpstreamsAssumption, FS_EmptySet
  <2>3. QED
    BY <1>2, <1>3, <2>1, <2>2 DEF SlotInv
<1>6. OtherTypes
  <2>1. net \in [Forward!All -> {"up", "refusing", "silent", "broken"}]
        /\ kind \in [Handlers -> {"query", "refresh"}] /\ mode \in [Handlers -> Forward!Modes]
    BY <1>1, ScenesAssumption
  <2>2. rr \in 0..Len(Upstreams)
    BY <1>2, AllIsFinite
  <2>3. order \in [Handlers -> Seq(Forward!All)]
    <3>1. <<>> \in Seq(Forward!All)
      OBVIOUS
    <3>2. QED
      BY <1>2, <3>1
  <2>4. QED
    BY <1>2, <2>1, <2>2, <2>3 DEF OtherTypes, TaskStates, Forward!Outcomes
<1>7. TruthInv
  BY <1>2, TruthIs DEF Fits, HandlerFits, TaskFits, FailureIsTrue
<1>8. ThrottleInv
  BY <1>2 DEF ThrottleInv
<1>9. QED
  BY <1>4, <1>5, <1>6, <1>7, <1>8 DEF ForwardInv

LEMMA ForwardStep == ForwardInv /\ [Forward!Next]_forwardVars => ForwardInv'
  BY SlotStep, TypeStep, ThrottleStep, TruthStep DEF ForwardInv, TruthInv

LEMMA ForwardIs == ForwardInv => Forward!ForwardingIsSound
<1> SUFFICES ASSUME ForwardInv PROVE Forward!ForwardingIsSound
  OBVIOUS
<1>1. Forward!TypeOK
  BY DEF ForwardInv, SlotTypes, OtherTypes, TaskStates, Forward!TypeOK
<1>2. Forward!SlotsBalance
  BY ForwardCardinality DEF ForwardInv, SlotInv, Holding, Resorting, Forward!SlotsBalance
<1>3. Forward!FailuresAreTrue /\ Forward!FailuresAreNoticed
  BY DEF ForwardInv, TruthInv, ThrottleInv, Forward!FailuresAreNoticed
<1>4. QED
  BY <1>1, <1>2, <1>3 DEF Forward!ForwardingIsSound

\* Whatever list of upstreams, mode and change of the settings: slots balance, a
\* query fails only if each upstream it considered is down, and no failure is
\* dropped without another one recorded.
THEOREM ForwardingSound == Spec => []ForwardingIsSound
<1> DEFINE Inv == part = "forward" => ForwardInv
<1>1. Init => Inv
  BY ForwardInit DEF Init
<1>2. Inv /\ [Next]_<<part, poolVars, quicVars, forwardVars>> => Inv'
  <2>1. [Next]_<<part, poolVars, quicVars, forwardVars>> =>
          part' = part /\ (part = "forward" => [Forward!Next]_forwardVars)
    BY DEF Next
  <2>2. QED
    BY <2>1, ForwardStep
<1>3. Inv => ForwardingIsSound
  BY ForwardIs DEF ForwardingIsSound
<1>4. QED
  BY <1>1, <1>2, <1>3, PTL DEF Spec
=============================================================================
