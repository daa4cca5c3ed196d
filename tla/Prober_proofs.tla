---------------------------- MODULE Prober_proofs ----------------------------
(***************************************************************************)
(* What the adversarial prober keeps to, for any command lines, traces,     *)
(* budgets, scores and faults, whatever the server answers: its summaries   *)
(* and rankings are true, and the escrows it aims at exist.                 *)
(***************************************************************************)
EXTENDS ProberProperties, FiniteSetTheorems, WellFoundedInduction, SequenceTheorems, TLAPS

-----------------------------------------------------------------------------
(* Orders. *)

StrictOrder(D, R) ==
    /\ \A x \in D : <<x, x>> \notin R
    /\ \A x, y, z \in D : <<x, y>> \in R /\ <<y, z>> \in R => <<x, z>> \in R
    /\ \A x, y \in D : x = y \/ <<x, y>> \in R \/ <<y, x>> \in R

Preceding(D, R, x) == {y \in D : <<y, x>> \in R}

\* The number of elements before one is below the size of the set, and grows along
\* the order.
LEMMA RanksGrow ==
    ASSUME NEW D, IsFiniteSet(D), NEW R, StrictOrder(D, R)
    PROVE  /\ \A x \in D : Cardinality(Preceding(D, R, x)) \in 0 .. Cardinality(D) - 1
           /\ \A x, y \in D : <<x, y>> \in R =>
                  Cardinality(Preceding(D, R, x)) < Cardinality(Preceding(D, R, y))
<1>1. \A x \in D : Preceding(D, R, x) \in SUBSET D
    BY DEF Preceding
<1>2. \A x \in D : IsFiniteSet(Preceding(D, R, x)) /\ Cardinality(Preceding(D, R, x)) \in Nat
    BY <1>1, FS_Subset, FS_CardinalityType
<1>3. Cardinality(D) \in Nat
    BY FS_CardinalityType
<1>4. ASSUME NEW x \in D
      PROVE  Cardinality(Preceding(D, R, x)) \in 0 .. Cardinality(D) - 1
    <2>1. Preceding(D, R, x) # D
        BY <1>4 DEF Preceding, StrictOrder
    <2> QED
        BY <1>1, <1>2, <1>3, <2>1, FS_Subset
<1>5. ASSUME NEW x \in D, NEW y \in D, <<x, y>> \in R
      PROVE  Cardinality(Preceding(D, R, x)) < Cardinality(Preceding(D, R, y))
    <2>1. Preceding(D, R, x) \in SUBSET Preceding(D, R, y)
        BY <1>5 DEF Preceding, StrictOrder
    <2>2. x \in Preceding(D, R, y) /\ x \notin Preceding(D, R, x)
        BY <1>5 DEF Preceding, StrictOrder
    <2>3. Cardinality(Preceding(D, R, x)) <= Cardinality(Preceding(D, R, y))
          /\ Cardinality(Preceding(D, R, x)) # Cardinality(Preceding(D, R, y))
        BY <1>2, <2>1, <2>2, FS_Subset
    <2> QED
        BY <1>2, <2>3
<1> QED
    BY <1>4, <1>5

\* A finite set in a strict order is listed from its first element to its last, each
\* of them once.
LEMMA InOrderLists ==
    ASSUME NEW D, IsFiniteSet(D), NEW R, StrictOrder(D, R)
    PROVE  /\ Cardinality(D) \in Nat
           /\ InOrder(D, R) \in [1 .. Cardinality(D) -> D]
           /\ \A i, j \in 1 .. Cardinality(D) :
                  i < j => <<InOrder(D, R)[i], InOrder(D, R)[j]>> \in R
           /\ InOrder(D, R) \in Bijection(1 .. Cardinality(D), D)
<1> DEFINE N == Cardinality(D)
           rank == [x \in D |-> Cardinality(Preceding(D, R, x))]
           list == InOrder(D, R)
<1>1. N \in Nat /\ IsFiniteSet(0 .. N - 1) /\ Cardinality(0 .. N - 1) = N
    <2>1. N \in Nat
        BY FS_CardinalityType
    <2>2. 0 \in Int /\ N - 1 \in Int
        BY <2>1
    <2>3. IsFiniteSet(0 .. N - 1) /\ Cardinality(0 .. N - 1) = IF 0 > N - 1 THEN 0 ELSE N - 1 - 0 + 1
        BY <2>2, FS_Interval
    <2> HIDE DEF N
    <2> QED
        BY <2>1, <2>3
<1>2. /\ rank \in [D -> 0 .. N - 1]
      /\ \A x, y \in D : <<x, y>> \in R => rank[x] < rank[y]
    BY RanksGrow
<1>3. \A x, y \in D : rank[x] = rank[y] => x = y
    <2> SUFFICES ASSUME NEW x \in D, NEW y \in D, rank[x] = rank[y]
                 PROVE  x = y
        OBVIOUS
    <2>1. rank[x] \in Int /\ rank[y] \in Int
        BY <1>1, <1>2
    <2>2. ~(rank[x] < rank[y]) /\ ~(rank[y] < rank[x])
        BY <2>1
    <2> QED
        BY <1>2, <2>2 DEF StrictOrder
<1>4. rank \in Surjection(D, 0 .. N - 1)
    <2>1. rank \in Injection(D, 0 .. N - 1)
        BY <1>2, <1>3 DEF Injection, IsInjective
    <2> QED
        BY <1>1, <2>1, FS_Injection
<1>5. ASSUME NEW n \in 1 .. N
      PROVE  list[n] \in D /\ rank[list[n]] = n - 1
    <2>1. n - 1 \in 0 .. N - 1
        BY <1>1
    <2>2. PICK x \in D : rank[x] = n - 1
        BY <1>4, <2>1 DEF Surjection
    <2>3. list[n] = CHOOSE z \in D : rank[z] = n - 1
        BY DEF InOrder, Preceding
    <2> QED
        BY <2>2, <2>3
<1> HIDE DEF rank
<1>6. list \in [1 .. N -> D]
    BY <1>5 DEF InOrder
<1> HIDE DEF list, N
<1>7. ASSUME NEW i \in 1 .. N, NEW j \in 1 .. N, i < j
      PROVE  <<list[i], list[j]>> \in R
    <2>1. list[i] \in D /\ list[j] \in D /\ rank[list[i]] = i - 1 /\ rank[list[j]] = j - 1
        BY <1>5
    <2>2. list[i] # list[j]
        BY <1>7, <2>1
    <2>3. <<list[j], list[i]>> \notin R
        <3>1. ~(j - 1 < i - 1)
            BY <1>1, <1>7
        <3> QED
            BY <1>2, <2>1, <3>1
    <2> QED
        BY <2>1, <2>2, <2>3 DEF StrictOrder
<1>8. list \in Injection(1 .. N, D)
    <2>1. ASSUME NEW i \in 1 .. N, NEW j \in 1 .. N, list[i] = list[j] PROVE i = j
        <3>1. i - 1 = j - 1
            BY <1>5, <2>1
        <3> QED
            BY <1>1, <3>1
    <2> QED
        BY <1>6, <2>1 DEF Injection, IsInjective
<1>9. list \in Surjection(1 .. N, D)
    <2>1. ASSUME NEW x \in D PROVE \E n \in 1 .. N : list[n] = x
        <3>1. rank[x] \in 0 .. N - 1
            BY <1>2
        <3>2. rank[x] + 1 \in 1 .. N /\ (rank[x] + 1) - 1 = rank[x]
            BY <1>1, <3>1
        <3>3. list[rank[x] + 1] \in D /\ rank[list[rank[x] + 1]] = rank[x]
            BY <1>5, <3>2
        <3> QED
            BY <1>3, <3>2, <3>3
    <2> QED
        BY <1>6, <2>1 DEF Surjection
<1> QED
    BY <1>1, <1>6, <1>7, <1>8, <1>9 DEF Bijection, list, N

-----------------------------------------------------------------------------
(* The catalogue of mutants. *)

Trace == Seq(TraceEvent)

\* The words of a mutant's events and of its name: strings, and what the catalogue
\* puts in.
Variants == UNION {Range(Variations(a)) : a \in STRING}

Words == STRING \cup {"none"} \cup UNION {{v.tag, v.action} : v \in Variants}

EventType ==
    {e \in [ agent : STRING, action : Words, target : STRING, alias : STRING,
             variant : Words, time : Nat ] :
        e.alias # "" => e.action = "create_escrow"}

Events == Seq(EventType)

MutantId == [index : Nat, tag : Words]

MutantType == [id : MutantId, events : Events]

LEMMA TracesAreEvents == Trace \subseteq Events
<1>1. TraceEvent \subseteq EventType
    BY DEF TraceEvent, EventType, Words
<1> QED
    BY <1>1, SeqMonotonic DEF Trace, Events

\* The variations of an action are finitely many, and none takes a creation away.
LEMMA VariationsTyped ==
    ASSUME NEW action \in STRING
    PROVE  /\ IsFiniteSet(DOMAIN Variations(action)) /\ DOMAIN Variations(action) \subseteq Nat
           /\ \A k \in DOMAIN Variations(action) :
                  /\ Variations(action)[k].tag \in Words
                  /\ Variations(action)[k].action \in Words
                  /\ action = "create_escrow" => Variations(action)[k].action = "create_escrow"
<1> DEFINE vs == Variations(action)
<1>1. \E n \in Nat : DOMAIN vs = 1 .. n
    <2>1. \A x, y, z : DOMAIN <<x, y, z>> = 1 .. 3 /\ DOMAIN <<x, y>> = 1 .. 2
        OBVIOUS
    <2>2. DOMAIN <<>> = 1 .. 0
        OBVIOUS
    <2>3. DOMAIN vs \in {1 .. 3, 1 .. 2, 1 .. 0}
        BY <2>1, <2>2, Zenon DEF Variations
    <2> QED
        BY <2>3
<1>2. IsFiniteSet(DOMAIN vs) /\ DOMAIN vs \subseteq Nat
    <2> HIDE DEF vs
    <2>1. PICK n \in Nat : DOMAIN vs = 1 .. n
        BY <1>1
    <2>2. IsFiniteSet(1 .. n)
        BY FS_Interval
    <2> QED
        BY <2>1, <2>2
<1>3. ASSUME NEW k \in DOMAIN vs
      PROVE  vs[k].tag \in Words /\ vs[k].action \in Words
    <2>1. vs[k] \in Range(vs)
        BY <1>3 DEF Range
    <2>2. Range(vs) \in {Range(Variations(a)) : a \in STRING}
        OBVIOUS
    <2> HIDE DEF vs
    <2>3. vs[k] \in Variants
        BY <2>1, <2>2 DEF Variants
    <2> QED
        BY <2>3 DEF Words
<1>4. \A k \in DOMAIN vs : action = "create_escrow" => vs[k].action = "create_escrow"
    <2> SUFFICES ASSUME action = "create_escrow", NEW k \in DOMAIN vs
                 PROVE  vs[k].action = "create_escrow"
        OBVIOUS
    <2>1. vs = << Variation("micro-escrow", "create_escrow"),
                  Variation("jumbo-escrow", "create_escrow"),
                  Variation("self-recipient-escrow", "create_escrow") >>
        BY DEF Variations
    <2> QED
        BY <2>1 DEF Variation
<1> QED
    BY <1>2, <1>3, <1>4

LEMMA SitesInOrder ==
    ASSUME NEW trace \in Trace, NEW action \in STRING
    PROVE  /\ IsFiniteSet(Sites(trace, action))
           /\ StrictOrder(Sites(trace, action), Earlier(Sites(trace, action)))
<1> DEFINE spots == {i \in DOMAIN trace : trace[i].action = action}
           D == Sites(trace, action)
<1>1. DOMAIN trace = 1 .. Len(trace) /\ Len(trace) \in Nat
    BY LenProperties DEF Trace
<1>2. IsFiniteSet(spots) /\ spots \subseteq Nat
    <2>1. IsFiniteSet(1 .. Len(trace)) /\ spots \in SUBSET (1 .. Len(trace))
        BY <1>1, FS_Interval
    <2> QED
        BY <2>1, FS_Subset
<1>3. D = spots \X (DOMAIN Variations(action))
    BY DEF Sites
<1>4. IsFiniteSet(D)
    BY <1>2, <1>3, VariationsTyped, FS_Product
<1>5. D \subseteq Nat \X Nat
    BY <1>2, <1>3, VariationsTyped
<1> HIDE DEF spots, D
<1>6. \A x, y \in D : <<x, y>> \in Earlier(D) <=>
          x[1] < y[1] \/ (x[1] = y[1] /\ x[2] < y[2])
    BY DEF Earlier
<1>7. \A x \in D : x[1] \in Nat /\ x[2] \in Nat /\ x = <<x[1], x[2]>>
    BY <1>5
<1>8. \A x \in D : <<x, x>> \notin Earlier(D)
    BY <1>6, <1>7
<1>9. \A x, y, z \in D : <<x, y>> \in Earlier(D) /\ <<y, z>> \in Earlier(D)
                             => <<x, z>> \in Earlier(D)
    BY <1>6, <1>7
<1>10. \A x, y \in D : x = y \/ <<x, y>> \in Earlier(D) \/ <<y, x>> \in Earlier(D)
    <2> SUFFICES ASSUME NEW x \in D, NEW y \in D, <<x, y>> \notin Earlier(D), <<y, x>> \notin Earlier(D)
                 PROVE  x = y
        OBVIOUS
    <2>1. x[1] = y[1] /\ x[2] = y[2]
        BY <1>6, <1>7
    <2> QED
        BY <1>7, <2>1
<1> QED
    BY <1>4, <1>8, <1>9, <1>10 DEF StrictOrder, D

\* A varied trace is a trace: an event that names an escrow still creates it.
LEMMA MutantTyped ==
    ASSUME NEW trace \in Trace, NEW i \in DOMAIN trace,
           NEW k \in DOMAIN Variations(trace[i].action)
    PROVE  Mutant(trace, i, Variations(trace[i].action)[k]) \in MutantType
<1> DEFINE e == trace[i]
           v == Variations(e.action)[k]
           e2 == [e EXCEPT !.action = v.action, !.variant = v.tag]
<1>1. /\ Len(trace) \in Nat /\ DOMAIN trace = 1 .. Len(trace)
      /\ e \in TraceEvent
    BY LenProperties, ElementOfSeq DEF Trace
<1>2. e.action \in STRING
    BY <1>1 DEF TraceEvent
<1>3. /\ v.tag \in Words /\ v.action \in Words
      /\ e.action = "create_escrow" => v.action = "create_escrow"
    BY <1>2, VariationsTyped
<1> HIDE DEF v
<1>4. e2 \in EventType
    BY <1>1, <1>3 DEF TraceEvent, EventType
<1>5. Varied(trace, i, v) = [trace EXCEPT ![i] = e2]
    BY <1>1 DEF Varied, Trace
<1>6. Varied(trace, i, v) \in Events
    BY <1>1, <1>4, <1>5, ExceptSeq, TracesAreEvents DEF Events
<1>7. [index |-> i, tag |-> v.tag] \in MutantId
    BY <1>1, <1>3 DEF MutantId
<1> QED
    BY <1>6, <1>7 DEF Mutant, MutantType, v

\* The least of a set of numbers.
LEMMA LeastIsMin ==
    ASSUME NEW S \in SUBSET Nat, S # {}
    PROVE  Min(S) \in S /\ \A y \in S : Min(S) <= y
<1>1. IsWellFoundedOn(OpToRel(<, Nat), Nat)
    BY NatLessThanWellFounded, Zenon
<1>2. PICK x \in S : \A y \in S : <<y, x>> \notin OpToRel(<, Nat)
    BY <1>1, WFMin, Zenon
<1>3. \A y \in S : ~(y < x)
    BY <1>2 DEF OpToRel
<1>4. \A y \in S : x <= y
    BY <1>3
<1> QED
    BY <1>4 DEF Min

LEMMA CatalogueTyped ==
    ASSUME NEW trace \in Trace, NEW action \in STRING, NEW max \in Int
    PROVE  Catalogue(trace, action, max) \in Seq(MutantType)
<1> DEFINE sites == Sites(trace, action)
           order == InOrder(sites, Earlier(sites))
           a == IF max < 1 THEN 1 ELSE max
           c == Cardinality(sites)
           m == Min({a, c})
           cat == Catalogue(trace, action, max)
<1>1. c \in Nat /\ order \in [1 .. c -> sites]
    BY SitesInOrder, InOrderLists
<1>2. m \in Nat /\ m <= c
    <2>1. a \in Nat
        OBVIOUS
    <2> HIDE DEF a, c
    <2>2. \E x \in {a, c} : \A y \in {a, c} : x <= y
        BY <1>1, <2>1
    <2>3. m \in {a, c} /\ \A y \in {a, c} : m <= y
        BY <2>2 DEF Min
    <2> QED
        BY <1>1, <2>1, <2>3
<1>3. ASSUME NEW n \in 1 .. m
      PROVE  Mutant(trace, order[n][1], Variations(action)[order[n][2]]) \in MutantType
    <2>1. n \in 1 .. c
        <3> HIDE DEF m, c
        <3> QED
            BY <1>1, <1>2
    <2>2. order[n] \in sites
        BY <1>1, <2>1
    <2> DEFINE i == order[n][1]
               k == order[n][2]
    <2>3. i \in DOMAIN trace /\ trace[i].action = action /\ k \in DOMAIN Variations(action)
        <3> DEFINE s == order[n]
        <3>1. s \in {z \in DOMAIN trace : trace[z].action = action} \X (DOMAIN Variations(action))
            BY <2>2 DEF Sites
        <3> HIDE DEF s
        <3>2. s[1] \in DOMAIN trace /\ trace[s[1]].action = action
              /\ s[2] \in DOMAIN Variations(action)
            BY <3>1
        <3> QED
            BY <3>2 DEF s
    <2> HIDE DEF i, k
    <2>4. Mutant(trace, i, Variations(trace[i].action)[k]) \in MutantType
        BY <2>3, MutantTyped
    <2>5. Mutant(trace, i, Variations(action)[k]) \in MutantType
        BY <2>3, <2>4
    <2> QED
        BY <2>5 DEF i, k
<1>4. cat \in [1 .. m -> MutantType]
    BY <1>3 DEF Catalogue
<1> HIDE DEF m, cat
<1>5. cat \in Seq(MutantType)
    BY <1>2, <1>4, SeqDef
<1> QED
    BY <1>5 DEF cat

\* The mutant a session replays: a trace, and the mutant announced if it is there.
LEMMA ChosenTyped ==
    ASSUME args \in CommandLine, NEW j \in Session
    PROVE  Chosen(j) \in MutantType
<1> DEFINE muts == Mutants(j)
           hits == {k \in DOMAIN muts : muts[k].id = j.mutant}
<1>1. j.trace \in Trace /\ j.mutation \in STRING /\ args.maxMutants \in Int
    BY DEF Session, CommandLine, Trace
<1>2. muts \in Seq(MutantType)
    BY <1>1, CatalogueTyped DEF Mutants
<1>3. [id |-> NoMutant, events |-> j.trace] \in MutantType
    BY <1>1, TracesAreEvents DEF MutantType, MutantId, NoMutant, Words
<1>4. ASSUME muts # <<>>
      PROVE  muts[IF hits = {} THEN 1 ELSE Min(hits)] \in MutantType
    <2> HIDE DEF muts
    <2>1. Len(muts) \in Nat \ {0} /\ DOMAIN muts = 1 .. Len(muts)
        BY <1>2, <1>4, EmptySeq, LenProperties
    <2>2. hits \in SUBSET (1 .. Len(muts)) /\ hits \in SUBSET Nat
        BY <2>1
    <2> HIDE DEF hits
    <2>3. hits # {} => Min(hits) \in 1 .. Len(muts)
        BY <2>2, LeastIsMin
    <2>4. (IF hits = {} THEN 1 ELSE Min(hits)) \in 1 .. Len(muts)
        <3>1. 1 \in 1 .. Len(muts)
            BY <2>1
        <3> QED
            BY <2>3, <3>1
    <2> QED
        BY <1>2, <2>4, ElementOfSeq
<1> HIDE DEF muts, hits
<1> QED
    BY <1>3, <1>4 DEF Chosen, muts, hits

LEMMA ChosenAsAnnounced ==
    ASSUME args \in CommandLine, NEW j \in Session,
           NEW m \in Range(Catalogue(j.trace, j.mutation, args.maxMutants)), m.id = j.mutant
    PROVE  Chosen(j).id = j.mutant
<1> DEFINE muts == Mutants(j)
           hits == {k \in DOMAIN muts : muts[k].id = j.mutant}
<1>1. j.trace \in Trace /\ j.mutation \in STRING /\ args.maxMutants \in Int
    BY DEF Session, CommandLine, Trace
<1>2. muts \in Seq(MutantType)
    BY <1>1, CatalogueTyped DEF Mutants
<1>3. m \in Range(muts)
    BY DEF Mutants
<1> HIDE DEF muts
<1>4. Len(muts) \in Nat /\ DOMAIN muts = 1 .. Len(muts)
    BY <1>2, LenProperties
<1>5. PICK k \in DOMAIN muts : muts[k] = m
    BY <1>3 DEF Range
<1>6. hits # {} /\ muts # <<>>
    BY <1>4, <1>5
<1>7. Min(hits) \in hits
    <2>1. hits \in SUBSET Nat
        BY <1>4
    <2> HIDE DEF hits
    <2> QED
        BY <1>6, <2>1, LeastIsMin
<1>8. muts[Min(hits)].id = j.mutant
    BY <1>7
<1> HIDE DEF hits
<1>9. Chosen(j) = IF j.mutant = NoMutant THEN [id |-> NoMutant, events |-> j.trace]
                  ELSE muts[Min(hits)]
    BY <1>6 DEF Chosen, muts, hits
<1> QED
    BY <1>8, <1>9

\* The seed of a session is a trace: the mutant's events, or fewer.
LEMMA SeedTyped ==
    ASSUME args \in CommandLine, job \in DOMAIN args.jobs
    PROVE  Job \in Session /\ Seed \in Events
<1> DEFINE events == Chosen(Job).events
           n == IF Job.prefix < Len(events) THEN Job.prefix ELSE Len(events)
<1>1. Job \in Session
    BY ElementOfSeq, LenProperties DEF Job, CommandLine
<1>2. events \in Events
    BY <1>1, ChosenTyped DEF MutantType
<1>3. Job.prefix \in Int /\ Len(events) \in Nat
    BY <1>1, <1>2, LenProperties DEF Session, Events
<1> HIDE DEF events
<1>4. n \in Int /\ \A i \in 1 .. n : events[i] \in EventType
    BY <1>2, <1>3, ElementOfSeq DEF Events
<1>5. SubSeq(events, 1, n) \in Seq(EventType)
    BY <1>4, SubSeqProperties
<1>6. Seed = SubSeq(events, 1, n)
    BY DEF Seed, events
<1> QED
    BY <1>1, <1>5, <1>6 DEF Events

-----------------------------------------------------------------------------
(* The server's replies. *)

Parties == STRING \cup AllActors

Escrow == [ from : Parties, to : {"buyer", "seller"},
            state : {"pending", "disputed", "settled"}, slash : SlashStates ]

Server == [hosted : BOOLEAN, clock : Int, escrows : Seq(Escrow)]

\* An escrow that accepts an action stays one.
LEMMA EscrowAfterTyped ==
    ASSUME NEW e \in Escrow, NEW action, NEW f \in EscrowAfter(e, action)
    PROVE  f \in Escrow
<1>1. CASE f \in {[e EXCEPT !.state = m[3]] :
                      m \in {x \in StateMoves : x[1] = action /\ x[2] = e.state}}
    <2>1. PICK m \in StateMoves : f = [e EXCEPT !.state = m[3]]
        BY <1>1
    <2>2. m[3] \in {"pending", "disputed", "settled"}
        BY <2>1 DEF StateMoves
    <2> QED
        BY <2>1, <2>2 DEF Escrow
<1>2. CASE f \in {[e EXCEPT !.slash = m[3]] :
                      m \in {x \in SlashMoves : x[1] = action /\ x[2] = e.slash}}
    <2>1. PICK m \in SlashMoves : f = [e EXCEPT !.slash = m[3]]
        BY <1>2
    <2>2. m[3] \in SlashStates
        BY <2>1 DEF SlashMoves, SlashStates
    <2> QED
        BY <2>1, <2>2 DEF Escrow
<1> QED
    BY <1>1, <1>2 DEF EscrowAfter

\* An accepted action changes at most one escrow and adds none.
LEMMA MovedTyped ==
    ASSUME NEW s \in Server, NEW action, NEW w, NEW es \in Moved(s, action, w)
    PROVE  es \in Seq(Escrow) /\ Len(es) = Len(s.escrows)
<1>1. s.escrows \in Seq(Escrow) /\ Len(s.escrows) \in Nat
    BY LenProperties DEF Server
<1>2. CASE es = s.escrows
    BY <1>1, <1>2
<1>3. ASSUME w \in Ids(s), NEW e \in EscrowAfter(s.escrows[w + 1], action),
             es = [s.escrows EXCEPT ![w + 1] = e]
      PROVE  es \in Seq(Escrow) /\ Len(es) = Len(s.escrows)
    <2>1. w + 1 \in 1 .. Len(s.escrows)
        BY <1>1, <1>3 DEF Ids
    <2>2. s.escrows[w + 1] \in Escrow
        BY <1>1, <2>1, ElementOfSeq
    <2>3. e \in Escrow
        BY <1>3, <2>2, EscrowAfterTyped
    <2> QED
        BY <1>1, <1>3, <2>1, <2>3, ExceptSeq
<1> QED
    BY <1>2, <1>3 DEF Moved

\* A reply leaves a server whose clock is no later than the event or what it was; a
\* creation that was accepted has the next id, and nothing else adds an escrow.
ReplyOf(s, time, action, r) ==
    /\ r.server \in Server
    /\ r.server.hosted = s.hosted
    /\ r.result \in {"ok", "rejected", "error", "invariant-violated"}
    /\ r.server.clock \in {s.clock, time}
    /\ IF r.result = "ok" /\ action = "create_escrow"
       THEN r.id = Len(s.escrows) /\ Len(r.server.escrows) = Len(s.escrows) + 1
       ELSE Len(r.server.escrows) = Len(s.escrows)

LEMMA RepliesTyped ==
    ASSUME NEW s \in Server, NEW time \in Int, NEW actor \in Parties, NEW action, NEW w,
           NEW r \in Replies(s, time, actor, action, w)
    PROVE  ReplyOf(s, time, action, r)
<1> DEFINE at == [s EXCEPT !.clock = time]
           after == IF action = "create_escrow"
                    THEN {Append(s.escrows, NewEscrow(actor, to)) :
                             to \in IF actor = "buyer" THEN {"seller"} ELSE {"buyer", "seller"}}
                    ELSE Moved(s, action, w)
<1>1. /\ s.escrows \in Seq(Escrow) /\ s.hosted \in BOOLEAN /\ s.clock \in Int
      /\ Len(s.escrows) \in Nat
    BY LenProperties DEF Server
<1>2. /\ at \in Server /\ at.hosted = s.hosted /\ at.clock = time /\ at.escrows = s.escrows
    BY DEF Server
<1>3. ASSUME NEW es \in after
      PROVE  /\ es \in Seq(Escrow)
             /\ Len(es) = IF action = "create_escrow" THEN Len(s.escrows) + 1 ELSE Len(s.escrows)
    <2>1. CASE action = "create_escrow"
        <3>1. PICK to \in {"buyer", "seller"} : es = Append(s.escrows, NewEscrow(actor, to))
            BY <1>3, <2>1
        <3>2. NewEscrow(actor, to) \in Escrow
            BY DEF NewEscrow, Escrow, SlashStates
        <3> QED
            BY <1>1, <2>1, <3>1, <3>2, AppendProperties
    <2>2. CASE action # "create_escrow"
        BY <1>3, <2>2, MovedTyped
    <2> QED
        BY <2>1, <2>2
<1>4. \/ r = Replied("error", NoId, s)
      \/ r = Replied("rejected", NoId, s)
      \/ r = Replied("rejected", NoId, at)
      \/ r = Replied("invariant-violated", NoId, at)
      \/ \E es \in after :
             r = Replied("ok", IF action = "create_escrow" THEN Len(s.escrows) ELSE NoId,
                         [at EXCEPT !.escrows = es])
    BY DEF Replies
<1> HIDE DEF after, at
<1>5. CASE r = Replied("error", NoId, s) \/ r = Replied("rejected", NoId, s)
    BY <1>1, <1>5 DEF Replied, ReplyOf
<1>6. CASE r = Replied("rejected", NoId, at) \/ r = Replied("invariant-violated", NoId, at)
    BY <1>1, <1>2, <1>6 DEF Replied, ReplyOf
<1>7. ASSUME NEW es \in after,
             r = Replied("ok", IF action = "create_escrow" THEN Len(s.escrows) ELSE NoId,
                         [at EXCEPT !.escrows = es])
      PROVE  ReplyOf(s, time, action, r)
    <2> DEFINE z == [at EXCEPT !.escrows = es]
    <2>1. z \in Server /\ z.hosted = s.hosted /\ z.clock = time /\ z.escrows = es
        BY <1>2, <1>3 DEF Server
    <2>2. r.result = "ok" /\ r.server = z
          /\ r.id = IF action = "create_escrow" THEN Len(s.escrows) ELSE NoId
        BY <1>7 DEF Replied
    <2> HIDE DEF z
    <2>3. Len(es) = IF action = "create_escrow" THEN Len(s.escrows) + 1 ELSE Len(s.escrows)
        BY <1>3
    <2> QED
        BY <2>1, <2>2, <2>3 DEF ReplyOf
<1> QED
    BY <1>4, <1>5, <1>6, <1>7

-----------------------------------------------------------------------------
(* The types of the prober. *)

BestScore == Int \cup {NoScore}

Tally == [ attempts : Nat, ok : Nat, rejected : Nat, effective : Nat, best : BestScore,
           success : Nat \cup {NoId} ]

SummaryType == [ mutant : MutantId, success : BOOLEAN, best : BestScore, rejected : Nat,
                 attempts : Nat ]

ProberTypes ==
    /\ args \in CommandLine
    /\ job \in Nat /\ (pc # "done" => job \in DOMAIN args.jobs)
    /\ pc \in {"starting", "replaying", "probing", "sent", "closing", "done"}
    /\ raised \in BOOLEAN
    /\ seed.next \in Nat \ {0} /\ \E ids : seed = [next |-> seed.next, ids |-> ids]
    /\ active \in Seq(Int)
    /\ seq \in Nat
    /\ tally \in Tally
    /\ results \in Seq(SummaryType)
    /\ server \in Server
    /\ pc = "sent" => probe.actor \in Parties

LEMMA FreshTypes ==
    /\ ZeroTally \in Tally
    /\ Gone \in Server
    /\ FreshServer \in Server /\ FreshServer.hosted /\ FreshServer.clock = 1000
       /\ FreshServer.escrows = <<>>
    /\ [next |-> 1, ids |-> [a \in {} |-> NoId]].next = 1
    /\ <<>> \in Seq(Int) /\ <<>> \in Seq(SummaryType)
BY DEF ZeroTally, Tally, BestScore, Gone, Server, FreshServer, NoId

LEMMA ProberInitTyped == ProberInit => ProberTypes
<1> SUFFICES ASSUME ProberInit PROVE ProberTypes
    OBVIOUS
<1>1. args \in CommandLine
    BY InvocationsAssumption DEF ProberInit
<1>2. pc # "done" => 1 \in DOMAIN args.jobs
    <2>1. args.jobs \in Seq(Session)
        BY <1>1 DEF CommandLine
    <2>2. args.jobs # <<>> => Len(args.jobs) \in Nat \ {0}
        BY <2>1, EmptySeq
    <2>3. DOMAIN args.jobs = 1 .. Len(args.jobs)
        BY <2>1, LenProperties
    <2> QED
        BY <2>2, <2>3 DEF ProberInit
<1>3. seed.next \in Nat \ {0} /\ \E ids : seed = [next |-> seed.next, ids |-> ids]
    <2> DEFINE none == [a \in {} |-> NoId]
    <2>1. seed = [next |-> 1, ids |-> none]
        BY DEF ProberInit
    <2> HIDE DEF none
    <2> QED
        BY <2>1
<1>4. pc \in {"done", "starting"} /\ job = 1 /\ raised = FALSE /\ active = <<>> /\ seq = 0
      /\ tally = ZeroTally /\ results = <<>> /\ server = Gone
    BY DEF ProberInit
<1> QED
    BY <1>1, <1>2, <1>3, <1>4, FreshTypes DEF ProberTypes

\* What the counting of an answer keeps and adds.
LEMMA CountedTyped ==
    ASSUME NEW t \in Tally, NEW result, NEW score \in BestScore, args \in CommandLine,
           seq \in Nat
    PROVE  Counted(t, result, score) \in Tally
<1>1. args.weight \in Nat /\ args.threshold \in Int
    BY DEF CommandLine
<1> DEFINE more == [t EXCEPT !.attempts = @ + 1]
           scored(x) ==
               IF score = NoScore THEN x
               ELSE [x EXCEPT !.best = IF @ = NoScore \/ score > @ THEN score ELSE @,
                              !.success = IF @ = NoId /\ score >= args.threshold THEN seq ELSE @]
           okay == [more EXCEPT !.ok = @ + 1, !.effective = @ + 100]
           no == [more EXCEPT !.rejected = @ + 1, !.effective = @ + args.weight]
<1>2. more \in Tally
    BY DEF Tally
<1>3. okay \in Tally /\ no \in Tally
    <2> DEFINE w == args.weight
    <2>1. w \in Nat
        BY <1>1
    <2> HIDE DEF more, w
    <2>2. more.ok + 1 \in Nat /\ more.rejected + 1 \in Nat
          /\ more.effective + 100 \in Nat /\ more.effective + w \in Nat
        BY <1>2, <2>1 DEF Tally
    <2>3. [more EXCEPT !.ok = @ + 1, !.effective = @ + 100] \in Tally
        BY <1>2, <2>2 DEF Tally
    <2>4. [more EXCEPT !.rejected = @ + 1, !.effective = @ + w] \in Tally
        BY <1>2, <2>2 DEF Tally
    <2> QED
        BY <2>3, <2>4 DEF w
<1>4. ASSUME NEW x \in Tally PROVE scored(x) \in Tally
    BY <1>4 DEF Tally, BestScore
<1>5. Counted(t, result, score) \in {scored(okay), scored(no), more}
    BY DEF Counted
<1> HIDE DEF more, scored, okay, no
<1> QED
    BY <1>2, <1>3, <1>4, <1>5

LEMMA StartTyped == ProberTypes /\ (Start \/ StartFails) => ProberTypes'
<1>1. ASSUME ProberTypes, Start PROVE ProberTypes'
    <2>1. seed'.next \in Nat \ {0} /\ \E ids : seed' = [next |-> seed'.next, ids |-> ids]
        <3> DEFINE none == [a \in {} |-> NoId]
        <3>1. seed' = [next |-> 1, ids |-> none]
            BY <1>1 DEF Start
        <3> HIDE DEF none
        <3>2. seed'.next = 1
            BY <3>1
        <3>3. seed' = [next |-> seed'.next, ids |-> none]
            BY <3>1, <3>2
        <3>4. 1 \in Nat \ {0}
            OBVIOUS
        <3> QED
            BY <3>2, <3>3, <3>4
    <2>2. /\ pc' = "replaying" /\ pc = "starting"
          /\ active' = <<>> /\ seq' = 0 /\ tally' = ZeroTally /\ server' = FreshServer
          /\ UNCHANGED <<args, job, raised, results>>
        BY <1>1 DEF Start
    <2> QED
        BY <1>1, <2>1, <2>2, FreshTypes DEF ProberTypes
<1>2. ASSUME ProberTypes, StartFails PROVE ProberTypes'
    BY <1>2, FreshTypes DEF ProberTypes, StartFails
<1> QED
    BY <1>1, <1>2

LEMMA ReplayTyped ==
    ASSUME ProberTypes, NEW reply \in SeedReplies, Replay(reply)
    PROVE  /\ pc = "replaying" /\ seed.next \in 1 .. Len(Seed) /\ Seed[seed.next] \in EventType
           /\ ReplyOf(server, Seed[seed.next].time, Seed[seed.next].action, reply)
           /\ ProberTypes'
<1> DEFINE ev == Seed[seed.next]
<1>1. pc = "replaying" /\ seed.next <= Len(Seed)
    BY DEF SeedReplies
<1>2. Seed \in Events
    BY <1>1, SeedTyped DEF ProberTypes
<1>3. seed.next \in 1 .. Len(Seed) /\ ev \in EventType
    BY <1>1, <1>2, ElementOfSeq, LenProperties DEF ProberTypes, Events
<1>4. ReplyOf(server, ev.time, ev.action, reply)
    <2>1. reply \in Replies(server, ev.time, ev.agent, ev.action, Resolved(ev.target))
        BY <1>1 DEF SeedReplies
    <2>2. server \in Server
        BY DEF ProberTypes
    <2>3. ev \in EventType
        BY <1>3
    <2> HIDE DEF ev
    <2>4. ev.time \in Nat /\ ev.agent \in STRING
        BY <2>3 DEF EventType
    <2>5. ev.time \in Int /\ ev.agent \in Parties
        BY <2>4 DEF Parties
    <2> QED
        BY <2>1, <2>2, <2>5, RepliesTyped
<1>5. active' \in Seq(Int)
    <2>1. CASE ev.alias # "" /\ reply.result = "ok"
        <3>1. reply.id = Len(server.escrows)
            BY <1>3, <1>4, <2>1 DEF EventType, ReplyOf
        <3>2. reply.id \in Int
            BY <3>1, LenProperties DEF ProberTypes, Server
        <3>3. active' \in {active, Append(active, reply.id)}
            BY <2>1 DEF Replay, ActiveAfterSeed
        <3>4. active \in Seq(Int)
            BY DEF ProberTypes
        <3>5. Append(active, reply.id) \in Seq(Int)
            BY <3>2, <3>4, AppendProperties
        <3> QED
            BY <3>3, <3>4, <3>5
    <2>2. CASE ~(ev.alias # "" /\ reply.result = "ok")
        BY <2>2 DEF Replay, ProberTypes
    <2> QED
        BY <2>1, <2>2
<1>6. seed'.next \in Nat \ {0} /\ \E ids : seed' = [next |-> seed'.next, ids |-> ids]
    <2> DEFINE more == [a \in DOMAIN seed.ids \cup {ev.alias} |->
                           IF a = ev.alias THEN reply.id ELSE seed.ids[a]]
    <2>1. seed' \in {[next |-> seed.next + 1, ids |-> more], [seed EXCEPT !.next = @ + 1]}
        BY DEF Replay
    <2>2. PICK ids : seed = [next |-> seed.next, ids |-> ids]
        BY DEF ProberTypes
    <2> HIDE DEF more, ev
    <2>3. [seed EXCEPT !.next = @ + 1] = [next |-> seed.next + 1, ids |-> ids]
        BY <2>2
    <2>4. PICK z : seed' = [next |-> seed.next + 1, ids |-> z]
        BY <2>1, <2>3
    <2>5. seed'.next = seed.next + 1
        BY <2>4
    <2>6. seed' = [next |-> seed'.next, ids |-> z]
        BY <2>4, <2>5
    <2>7. seed'.next \in Nat \ {0}
        BY <2>5 DEF ProberTypes
    <2> QED
        BY <2>6, <2>7
<1>7. server' = reply.server /\ server' \in Server
      /\ UNCHANGED <<args, job, pc, raised, seq, probe, bans, tally, results>>
    BY <1>4 DEF Replay, ReplyOf
<1> HIDE DEF ev
<1>8. ProberTypes'
    BY <1>1, <1>5, <1>6, <1>7 DEF ProberTypes
<1> QED
    BY <1>1, <1>3, <1>4, <1>8 DEF ev

LEMMA AnsweredTyped ==
    ASSUME ProberTypes, NEW reply \in ProbeReplies, NEW score \in Scores \cup {NoScore},
           Answered(reply, score)
    PROVE  /\ pc = "sent" /\ ReplyOf(server, ProbeTime, probe.action, reply)
           /\ ProbeTime \in Nat
           /\ ProberTypes'
<1>1. pc = "sent" /\ ProbeTime \in Nat
    BY DEF ProbeReplies, ProberTypes, ProbeTime
<1>2. ReplyOf(server, ProbeTime, probe.action, reply)
    <2>1. reply \in Replies(server, ProbeTime, probe.actor, probe.action, probe.on)
        BY <1>1 DEF ProbeReplies
    <2> QED
        BY <1>1, <2>1, RepliesTyped DEF ProberTypes
<1>3. active' \in Seq(Int)
    <2>1. CASE reply.result = "ok" /\ probe.action = "create_escrow" /\ reply.id \notin Range(active)
        <3>1. reply.id \in Int
            BY <1>2, <2>1, LenProperties DEF ProberTypes, Server, ReplyOf
        <3> QED
            BY <2>1, <3>1, AppendProperties DEF ProberTypes, Answered
    <2>2. CASE ~(reply.result = "ok" /\ probe.action = "create_escrow"
                 /\ reply.id \notin Range(active))
        BY <2>2 DEF ProberTypes, Answered
    <2> QED
        BY <2>1, <2>2
<1>4. tally' \in Tally
    BY CountedTyped, ScoresAssumption DEF Answered, ProberTypes, BestScore
<1>5. server' \in Server
    BY <1>2 DEF Answered, ReplyOf
<1>6. pc' \in {"closing", "probing"} /\ seq' \in {seq, seq + 1}
      /\ UNCHANGED <<args, job, raised, seed, results>>
    BY DEF Answered
<1>7. ProberTypes'
    BY <1>1, <1>3, <1>4, <1>5, <1>6 DEF ProberTypes
<1> QED
    BY <1>1, <1>2, <1>7

\* A suggestion is made by the actor that was asked.
LEMMA GuidedChoice ==
    ASSUME Guided
    PROVE  \E c : c.actor \in Actors /\ \E id :
               probe' = [ lane |-> "guided", actor |-> c.actor, action |-> c.action,
                          on |-> c.on, id |-> id, keyed |-> c.keyed ]
<1>1. PICK c \in Candidates, target \in Targets :
          probe' = [ lane |-> "guided", actor |-> c.actor, action |-> c.action, on |-> c.on,
                     id |-> IF c.action = "create_escrow" THEN NoId
                            ELSE IF c.keyed THEN c.on ELSE target,
                     keyed |-> c.keyed ]
    BY DEF Guided
<1>2. PICK a \in Actors : c \in Suggested(server, a)
    BY DEF Candidates, PhaseFilter, ApplySuppression
<1>3. c.actor = a
    BY <1>2 DEF Suggested, Suggestion
<1> QED
    BY <1>1, <1>3

LEMMA AskTyped == ProberTypes /\ (Guided \/ Chaos) => ProberTypes'
<1>1. ASSUME ProberTypes, Guided PROVE ProberTypes'
    <2>1. PICK c : c.actor \in Actors /\ \E id :
              probe' = [ lane |-> "guided", actor |-> c.actor, action |-> c.action,
                         on |-> c.on, id |-> id, keyed |-> c.keyed ]
        BY <1>1, GuidedChoice
    <2>2. probe'.actor \in Parties
        BY <2>1, ActorsAssumption DEF Parties
    <2>3. pc' = "sent" /\ pc = "probing"
          /\ UNCHANGED <<args, job, raised, seed, active, seq, bans, tally, results, server>>
        BY <1>1 DEF Guided, Asking
    <2> QED
        BY <1>1, <2>2, <2>3 DEF ProberTypes
<1>2. ASSUME ProberTypes, Chaos PROVE ProberTypes'
    <2>1. probe'.actor \in Actors
        BY <1>2 DEF Chaos, Initiators
    <2>2. probe'.actor \in Parties
        BY <2>1, ActorsAssumption DEF Parties
    <2>3. pc' = "sent" /\ pc = "probing"
          /\ UNCHANGED <<args, job, raised, seed, active, seq, bans, tally, results, server>>
        BY <1>2 DEF Chaos, Asking
    <2> QED
        BY <1>2, <2>2, <2>3 DEF ProberTypes
<1> QED
    BY <1>1, <1>2

LEMMA CloseTyped ==
    ASSUME ProberTypes, Close
    PROVE  /\ ProberTypes' /\ Job \in Session
           /\ Len(args.jobs) \in Nat /\ job \in 1 .. Len(args.jobs)
<1>1. /\ job \in DOMAIN args.jobs /\ args \in CommandLine
      /\ DOMAIN args.jobs = 1 .. Len(args.jobs) /\ Len(args.jobs) \in Nat
    BY LenProperties DEF ProberTypes, Close, CommandLine
<1>2. Job \in Session
    BY <1>1, SeedTyped
<1>3. Summary \in SummaryType
    <2>1. Chosen(Job).id \in MutantId
        BY <1>1, <1>2, ChosenTyped DEF MutantType
    <2> QED
        BY <2>1 DEF Summary, SummaryType, ProberTypes, Tally
<1>4. results' \in Seq(SummaryType)
    BY <1>3, AppendProperties DEF Close, ProberTypes
<1>5. job' \in Nat /\ (pc' # "done" => job' \in DOMAIN args.jobs)
    BY <1>1 DEF Close, ProberTypes
<1>6. pc' \in {"done", "starting"} /\ server' = Gone
      /\ UNCHANGED <<args, raised, seed, active, seq, probe, bans, tally>>
    BY DEF Close
<1> QED
    BY <1>1, <1>2, <1>4, <1>5, <1>6, FreshTypes DEF ProberTypes

\* The remaining steps change the control state and the server at most.
LEMMA OtherTyped ==
    ProberTypes /\ (SeedReplayed \/ BudgetSpent \/ CallFails \/ Restart \/ CloseFails
                    \/ UNCHANGED proberVars) => ProberTypes'
<1> SUFFICES ASSUME ProberTypes, SeedReplayed \/ BudgetSpent \/ CallFails \/ Restart
                                     \/ CloseFails \/ UNCHANGED proberVars
             PROVE  ProberTypes'
    OBVIOUS
<1>1. /\ UNCHANGED <<args, job, seed, active, seq, probe, tally, results>>
      /\ raised' \in BOOLEAN /\ server' \in {server, Gone}
    BY DEF SeedReplayed, BudgetSpent, CallFails, Restart, CloseFails, proberVars, ProberTypes
<1>2. (pc' \in {"probing", "closing", "done"} /\ pc # "done") \/ pc' = pc \/ pc' = "done"
    BY DEF SeedReplayed, BudgetSpent, CallFails, Restart, CloseFails, proberVars
<1> QED
    BY <1>1, <1>2, FreshTypes DEF ProberTypes

LEMMA ProberTyped == ProberTypes /\ [ProberNext]_proberVars => ProberTypes'
BY StartTyped, ReplayTyped, AnsweredTyped, AskTyped, CloseTyped, OtherTyped
    DEF ProberNext, Progress

LEMMA TypesAlways == ProberSpec => []ProberTypes
BY ProberInitTyped, ProberTyped, PTL DEF ProberSpec

\* No session of the server outlives its run, except by a call that opens or destroys
\* one and fails (run_once, its finally clause).
THEOREM SessionsReturnedAtTheEnd == ProberSpec => []ProbesReturnSessions
<1>1. ProberInit => ProbesReturnSessions
    BY DEF ProberInit, ProbesReturnSessions, Gone
<1>2. ProbesReturnSessions /\ [ProberNext]_proberVars => ProbesReturnSessions'
    <2> SUFFICES ASSUME ProbesReturnSessions, [ProberNext]_proberVars
                 PROVE  ProbesReturnSessions'
        OBVIOUS
    <2>1. args' = args
        BY DEF ProberNext, Progress, Start, Replay, SeedReplayed, Guided, Chaos, Answered,
               BudgetSpent, Close, StartFails, CallFails, Restart, CloseFails, proberVars
    <2>2. CASE Close
        BY <2>2 DEF Close, ProbesReturnSessions, Gone
    <2>3. CASE StartFails \/ CloseFails
        <3>1. {"start", "close"} \cap args.faults # {}
            BY <2>3 DEF StartFails, CloseFails
        <3> QED
            BY <2>1, <3>1 DEF ProbesReturnSessions
    <2>4. CASE Restart \/ UNCHANGED proberVars
        BY <2>1, <2>4 DEF Restart, proberVars, ProbesReturnSessions, Gone
    <2>5. CASE (\E reply \in SeedReplies : Replay(reply)) \/ CallFails \/ Start \/ SeedReplayed
               \/ Guided \/ Chaos \/ BudgetSpent
               \/ \E reply \in ProbeReplies, score \in Scores \cup {NoScore} :
                      Answered(reply, score)
        <3>1. pc' # "done"
            BY <2>5 DEF Replay, SeedReplies, CallFails, Start, SeedReplayed, Guided, Chaos,
                        BudgetSpent, Answered
        <3> QED
            BY <3>1 DEF ProbesReturnSessions
    <2> QED
        BY <2>2, <2>3, <2>4, <2>5 DEF ProberNext, Progress
<1> QED
    BY <1>1, <1>2, PTL DEF ProberSpec

-----------------------------------------------------------------------------
(* Summaries. *)

LEMMA ProductGrows ==
    ASSUME NEW w \in Nat, NEW x \in Nat, NEW y \in Nat, x <= y
    PROVE  w * x <= w * y /\ w * y = y * w
<1>1. PICK d \in Nat : y = x + d
    <2>1. y - x \in Nat /\ y = x + (y - x)
        OBVIOUS
    <2> QED
        BY <2>1
<1>2. w * (x + d) = w * x + w * d
    OBVIOUS
<1>3. w * x \in Nat /\ w * d \in Nat
    OBVIOUS
<1>4. w * y = y * w
    OBVIOUS
<1> QED
    BY <1>1, <1>2, <1>3, <1>4

\* The budget kept, with the loop's condition while a probe is out.
BudgetInv == BudgetKept /\ (pc = "sent" => BudgetLeft)

ScoresTrue ==
    /\ tally.success # NoId <=> tally.best # NoScore /\ tally.best >= args.threshold
    /\ tally.success < seq \/ tally.success = NoId

SummaryInv == BudgetInv /\ ScoresTrue

\* When the attempts are left and failed probes alone cannot reach the target, some
\* probe succeeded.
LEMMA SomethingSucceeded ==
    ASSUME ProberTypes, tally.effective = 100 * tally.ok + args.weight * tally.rejected,
           Violated = 0, tally.attempts < args.maxAttempts,
           tally.effective >= args.target, args.maxAttempts * args.weight < args.target
    PROVE  tally.ok > 0
<1> DEFINE w == args.weight
           m == args.maxAttempts
           n == tally.rejected
           k == tally.ok
           a == tally.attempts
           e == tally.effective
           g == args.target
<1>1. w \in Nat /\ m \in Nat /\ g \in Int /\ n \in Nat /\ k \in Nat /\ a \in Nat /\ e \in Nat
    BY DEF ProberTypes, CommandLine, Tally
<1>2. a - k - n = 0 /\ a < m /\ e >= g /\ m * w < g /\ e = 100 * k + w * n
    BY DEF Violated
<1> HIDE DEF w, m, n, k, a, e, g
<1>3. n <= m
    BY <1>1, <1>2
<1>4. w * n <= w * m /\ w * m = m * w
    BY <1>1, <1>3, ProductGrows
<1>5. w * n \in Nat /\ m * w \in Nat
    BY <1>1
<1> DEFINE u == w * n
           z == m * w
<1>6. u \in Nat /\ z \in Nat /\ u <= z /\ z < g /\ e = 100 * k + u
    BY <1>2, <1>4, <1>5
<1> HIDE DEF u, z
<1>7. k # 0
    BY <1>1, <1>2, <1>6
<1> QED
    BY <1>1, <1>7 DEF k

\* What an answer adds to the counters, and when it sets the scores.
LEMMA CountedFields ==
    ASSUME NEW t \in Tally, NEW score, args \in CommandLine,
           NEW result \in {"ok", "rejected", "error", "invariant-violated"}
    PROVE  LET u == Counted(t, result, score)
               failed == result \in {"rejected", "error"}
           IN  /\ u.attempts = t.attempts + 1
               /\ u.ok = t.ok + (IF result = "ok" THEN 1 ELSE 0)
               /\ u.rejected = t.rejected + (IF failed THEN 1 ELSE 0)
               /\ u.effective = t.effective + (IF result = "ok" THEN 100
                                               ELSE IF failed THEN args.weight ELSE 0)
               /\ IF score = NoScore \/ result = "invariant-violated"
                  THEN u.best = t.best /\ u.success = t.success
                  ELSE /\ u.best = IF t.best = NoScore \/ score > t.best THEN score ELSE t.best
                       /\ u.success = IF t.success = NoId /\ score >= args.threshold THEN seq
                                      ELSE t.success
<1> DEFINE more == [t EXCEPT !.attempts = @ + 1]
           okay == [more EXCEPT !.ok = @ + 1, !.effective = @ + 100]
           no == [more EXCEPT !.rejected = @ + 1, !.effective = @ + args.weight]
           scored(x) ==
               IF score = NoScore THEN x
               ELSE [x EXCEPT !.best = IF @ = NoScore \/ score > @ THEN score ELSE @,
                              !.success = IF @ = NoId /\ score >= args.threshold THEN seq ELSE @]
           Shape(x) == x = [ attempts |-> x.attempts, ok |-> x.ok, rejected |-> x.rejected,
                             effective |-> x.effective, best |-> x.best, success |-> x.success ]
<1>1. /\ args.weight \in Nat /\ t.ok \in Nat /\ t.rejected \in Nat /\ t.effective \in Nat
      /\ Shape(t)
    BY DEF CommandLine, Tally
<1>2. /\ more.attempts = t.attempts + 1 /\ more.ok = t.ok /\ more.rejected = t.rejected
      /\ more.effective = t.effective /\ more.best = t.best /\ more.success = t.success
      /\ Shape(more)
    BY <1>1
<1> HIDE DEF more
<1>3. /\ okay.attempts = more.attempts /\ okay.ok = more.ok + 1 /\ okay.rejected = more.rejected
      /\ okay.effective = more.effective + 100 /\ okay.best = more.best
      /\ okay.success = more.success /\ Shape(okay)
    <2> DEFINE k == more.ok + 1
               e == more.effective + 100
    <2>1. okay = [more EXCEPT !.ok = k, !.effective = e]
        OBVIOUS
    <2> HIDE DEF okay, k, e
    <2>2. okay = [ attempts |-> more.attempts, ok |-> k, rejected |-> more.rejected,
                   effective |-> e, best |-> more.best, success |-> more.success ]
        BY <1>2, <2>1
    <2> QED
        BY <2>2 DEF k, e
<1>4. /\ no.attempts = more.attempts /\ no.ok = more.ok /\ no.rejected = more.rejected + 1
      /\ no.effective = more.effective + args.weight /\ no.best = more.best
      /\ no.success = more.success /\ Shape(no)
    <2> DEFINE k == more.rejected + 1
               e == more.effective + args.weight
    <2>1. no = [more EXCEPT !.rejected = k, !.effective = e]
        OBVIOUS
    <2> HIDE DEF no, k, e
    <2>2. no = [ attempts |-> more.attempts, ok |-> more.ok, rejected |-> k,
                 effective |-> e, best |-> more.best, success |-> more.success ]
        BY <1>2, <2>1
    <2> QED
        BY <2>2 DEF k, e
<1>5. ASSUME NEW x, Shape(x)
      PROVE  /\ scored(x).attempts = x.attempts /\ scored(x).ok = x.ok
             /\ scored(x).rejected = x.rejected /\ scored(x).effective = x.effective
             /\ IF score = NoScore THEN scored(x).best = x.best /\ scored(x).success = x.success
                ELSE /\ scored(x).best = IF x.best = NoScore \/ score > x.best THEN score ELSE x.best
                     /\ scored(x).success = IF x.success = NoId /\ score >= args.threshold
                                            THEN seq ELSE x.success
    <2>1. CASE score = NoScore
        BY <2>1
    <2>2. CASE score # NoScore
        <3> DEFINE b == IF x.best = NoScore \/ score > x.best THEN score ELSE x.best
                   n == IF x.success = NoId /\ score >= args.threshold THEN seq ELSE x.success
        <3>1. scored(x) = [x EXCEPT !.best = b, !.success = n]
            BY <2>2
        <3> HIDE DEF scored, b, n
        <3>2. scored(x) = [ attempts |-> x.attempts, ok |-> x.ok, rejected |-> x.rejected,
                            effective |-> x.effective, best |-> b, success |-> n ]
            BY <1>5, <3>1
        <3>3. /\ scored(x).attempts = x.attempts /\ scored(x).ok = x.ok
              /\ scored(x).rejected = x.rejected /\ scored(x).effective = x.effective
              /\ scored(x).best = b /\ scored(x).success = n
            BY <3>2
        <3> QED
            BY <2>2, <3>3 DEF b, n
    <2> QED
        BY <2>1, <2>2
<1> DEFINE u == Counted(t, result, score)
<1>6. /\ result = "ok" => u = scored(okay)
      /\ result \in {"rejected", "error"} => u = scored(no)
      /\ result = "invariant-violated" => u = more
    BY DEF Counted, more
<1> HIDE DEF okay, no, scored, u
<1>7. CASE result = "ok"
    BY <1>1, <1>2, <1>3, <1>5, <1>6, <1>7 DEF u
<1>8. CASE result \in {"rejected", "error"}
    BY <1>1, <1>2, <1>4, <1>5, <1>6, <1>8 DEF u
<1>9. CASE result = "invariant-violated"
    BY <1>1, <1>2, <1>6, <1>9 DEF u
<1> QED
    BY <1>7, <1>8, <1>9

\* An answered probe is counted once, as a success, a failure or a violation, and a
\* violation ends the run.
LEMMA AnswerWithinBudget ==
    ASSUME ProberTypes, BudgetInv, NEW reply \in ProbeReplies,
           NEW score \in Scores \cup {NoScore}, Answered(reply, score)
    PROVE  BudgetInv'
<1>1. pc = "sent" /\ reply.result \in {"ok", "rejected", "error", "invariant-violated"}
    BY AnsweredTyped DEF ReplyOf
<1>2. tally \in Tally /\ args \in CommandLine
    BY DEF ProberTypes
<1> DEFINE r == reply.result
           w == args.weight
<1>3. /\ tally'.attempts = tally.attempts + 1
      /\ tally'.ok = tally.ok + (IF r = "ok" THEN 1 ELSE 0)
      /\ tally'.rejected = tally.rejected + (IF r \in {"rejected", "error"} THEN 1 ELSE 0)
      /\ tally'.effective = tally.effective
             + (IF r = "ok" THEN 100 ELSE IF r \in {"rejected", "error"} THEN w ELSE 0)
    BY <1>1, <1>2, CountedFields DEF Answered
<1>4. /\ w \in Nat /\ tally.attempts \in Nat /\ tally.ok \in Nat /\ tally.rejected \in Nat
      /\ tally.effective \in Nat /\ args.maxAttempts \in Nat /\ args.target \in Int
    BY <1>2 DEF Tally, CommandLine
<1>5. args' = args /\ pc' = IF r = "invariant-violated" THEN "closing" ELSE "probing"
    BY DEF Answered
<1>6. /\ tally.attempts < args.maxAttempts
      /\ tally.effective = 100 * tally.ok + w * tally.rejected
      /\ tally.attempts - tally.ok - tally.rejected = 0
    BY <1>1, <1>4 DEF BudgetInv, BudgetLeft, BudgetKept, Violated
<1> HIDE DEF r, w
<1>7. w * (tally.rejected + 1) = w * tally.rejected + w /\ w * tally.rejected \in Nat
    BY <1>4
<1> DEFINE p == w * tally.rejected
           x == tally.rejected
<1>8. tally'.attempts <= args'.maxAttempts
    BY <1>3, <1>4, <1>5, <1>6
<1>9. Violated' = IF r = "invariant-violated" THEN 1 ELSE 0
    <2> DEFINE a == tally'.attempts
               k == tally'.ok
               n == tally'.rejected
               l == IF r = "ok" THEN 1 ELSE 0
               m == IF r \in {"rejected", "error"} THEN 1 ELSE 0
               v == IF r = "invariant-violated" THEN 1 ELSE 0
    <2>1. l \in Int /\ m \in Int /\ v \in Int /\ l + m + v = 1
        BY <1>1 DEF r
    <2>2. a = tally.attempts + 1 /\ k = tally.ok + l /\ n = tally.rejected + m
        BY <1>3
    <2>3. Violated' = a - k - n
        BY DEF Violated
    <2> HIDE DEF l, m, v, a, k, n
    <2>4. a - k - n = v
        <3> DEFINE a0 == tally.attempts
                   k0 == tally.ok
                   n0 == tally.rejected
        <3>1. a0 \in Int /\ k0 \in Int /\ n0 \in Int /\ a0 - k0 - n0 = 0
              /\ a = a0 + 1 /\ k = k0 + l /\ n = n0 + m
            BY <1>4, <1>6, <2>2
        <3> HIDE DEF a0, k0, n0
        <3> QED
            BY <2>1, <3>1
    <2> QED
        BY <2>3, <2>4 DEF v
<1>10. tally'.effective = 100 * tally'.ok + args'.weight * tally'.rejected
    <2>1. args'.weight = w
        BY <1>5 DEF w
    <2>2. CASE r \in {"rejected", "error"}
        <3>1. tally'.rejected = x + 1 /\ tally'.ok = tally.ok
              /\ tally'.effective = tally.effective + w
            BY <1>3, <1>4, <2>2
        <3>2. w * tally'.rejected = p + w
            BY <1>7, <3>1
        <3> HIDE DEF p, x
        <3>3. p \in Nat /\ tally.effective = 100 * tally.ok + p
            BY <1>6, <1>7 DEF p
        <3> QED
            BY <1>4, <2>1, <3>1, <3>2, <3>3
    <2>3. CASE r \notin {"rejected", "error"}
        <3>1. tally'.rejected = x
            BY <1>3, <1>4, <2>3
        <3>2. w * tally'.rejected = p
            BY <3>1
        <3> HIDE DEF p, x
        <3>3. p \in Nat /\ tally.effective = 100 * tally.ok + p
            BY <1>6, <1>7 DEF p
        <3> QED
            BY <1>3, <1>4, <2>1, <2>3, <3>2, <3>3
    <2> QED
        BY <2>2, <2>3
<1> QED
    BY <1>5, <1>8, <1>9, <1>10 DEF BudgetInv, BudgetKept

\* The first score that reaches the threshold makes the attack a success.
LEMMA AnswerScored ==
    ASSUME ProberTypes, ScoresTrue, NEW reply \in ProbeReplies,
           NEW score \in Scores \cup {NoScore}, Answered(reply, score)
    PROVE  ScoresTrue'
<1>1. reply.result \in {"ok", "rejected", "error", "invariant-violated"}
    BY AnsweredTyped DEF ReplyOf
<1>2. tally \in Tally /\ args \in CommandLine /\ seq \in Nat /\ args.threshold \in Int
    BY DEF ProberTypes, CommandLine
<1>3. tally.best \in BestScore /\ tally.success \in Nat \cup {NoId} /\ NoId \in Int /\ NoId < 0
    BY <1>2 DEF Tally, NoId
<1>4. args' = args /\ seq' = IF reply.result = "invariant-violated" THEN seq ELSE seq + 1
    BY DEF Answered
<1>5. CASE score = NoScore \/ reply.result = "invariant-violated"
    <2>1. tally'.best = tally.best /\ tally'.success = tally.success
        BY <1>1, <1>2, <1>5, CountedFields DEF Answered
    <2> QED
        BY <1>2, <1>3, <1>4, <2>1 DEF ScoresTrue
<1>6. CASE score # NoScore /\ reply.result # "invariant-violated"
    <2> DEFINE g == args.threshold
    <2>1. /\ tally'.best = IF tally.best = NoScore \/ score > tally.best THEN score ELSE tally.best
          /\ tally'.success = IF tally.success = NoId /\ score >= g THEN seq ELSE tally.success
        BY <1>1, <1>2, <1>6, CountedFields DEF Answered
    <2>2. score \in Int /\ NoScore \notin Int /\ g \in Int
        BY <1>2, <1>6, ScoresAssumption
    <2>3. seq # NoId
        BY <1>2, <1>3
    <2>4. args'.threshold = g /\ seq' = seq + 1
        BY <1>4, <1>6
    <2>5. tally.success # NoId <=> tally.best # NoScore /\ tally.best >= g
        BY DEF ScoresTrue
    <2> HIDE DEF g
    <2>6. tally'.success # NoId <=> tally'.best # NoScore /\ tally'.best >= g
        <3>1. CASE tally.best = NoScore
            BY <2>1, <2>2, <2>3, <2>5, <3>1
        <3>2. CASE tally.best # NoScore
            <4>1. tally.best \in Int
                BY <1>3, <3>2 DEF BestScore
            <4> QED
                BY <2>1, <2>2, <2>3, <2>5, <3>2, <4>1
        <3> QED
            BY <3>1, <3>2
    <2>7. tally'.success < seq' \/ tally'.success = NoId
        BY <1>2, <1>3, <2>1, <2>4 DEF ScoresTrue
    <2> QED
        BY <2>4, <2>6, <2>7 DEF ScoresTrue
<1> QED
    BY <1>5, <1>6

LEMMA SummaryStep == ProberTypes /\ SummaryInv /\ [ProberNext]_proberVars => SummaryInv'
<1> SUFFICES ASSUME ProberTypes, SummaryInv, [ProberNext]_proberVars
             PROVE  SummaryInv'
    OBVIOUS
<1>1. CASE Start
    <2>1. /\ tally' = ZeroTally /\ args' = args /\ pc' = "replaying"
          /\ args.maxAttempts \in Nat /\ args.weight \in Nat
        BY <1>1 DEF Start, ProberTypes, CommandLine
    <2>2. /\ tally'.attempts = 0 /\ tally'.ok = 0 /\ tally'.rejected = 0 /\ tally'.effective = 0
          /\ tally'.best = NoScore /\ tally'.success = NoId
        BY <2>1 DEF ZeroTally
    <2>3. args.weight * 0 = 0
        BY <2>1
    <2>4. BudgetInv'
        BY <2>1, <2>2, <2>3 DEF BudgetInv, BudgetKept, Violated
    <2> QED
        BY <2>2, <2>4 DEF SummaryInv, ScoresTrue
<1>2. CASE \E reply \in ProbeReplies, score \in Scores \cup {NoScore} : Answered(reply, score)
    BY <1>2, AnswerWithinBudget, AnswerScored DEF SummaryInv
<1>3. CASE Guided \/ Chaos
    <2>1. UNCHANGED <<args, tally, seq>> /\ pc' = "sent" /\ pc = "probing" /\ BudgetLeft
        BY <1>3 DEF Guided, Chaos, Asking
    <2>2. Violated' = Violated /\ BudgetLeft'
        BY <2>1 DEF Violated, BudgetLeft
    <2> QED
        BY <2>1, <2>2 DEF SummaryInv, BudgetInv, BudgetKept, ScoresTrue
<1>4. CASE BudgetSpent
    <2>1. UNCHANGED <<args, tally, seq, raised>> /\ pc' = "closing" /\ pc = "probing" /\ ~BudgetLeft
        BY <1>4 DEF BudgetSpent
    <2>2. Violated' = Violated
        BY <2>1 DEF Violated
    <2>3. tally.attempts < args.maxAttempts => tally.effective >= args.target
        BY <2>1 DEF BudgetLeft, ProberTypes, CommandLine, Tally
    <2>4. tally.attempts < args.maxAttempts /\ Violated = 0
          /\ args.maxAttempts * args.weight < args.target => tally.ok > 0
        BY <2>3, SomethingSucceeded DEF SummaryInv, BudgetInv, BudgetKept
    <2> QED
        BY <2>1, <2>2, <2>3, <2>4 DEF SummaryInv, BudgetInv, BudgetKept, ScoresTrue
<1>5. CASE (\E reply \in SeedReplies : Replay(reply)) \/ SeedReplayed \/ Restart
           \/ UNCHANGED proberVars
    <2>1. UNCHANGED <<args, tally, seq, raised>>
          /\ (pc' = pc \/ (pc = "replaying" /\ pc' = "probing"))
        BY <1>5 DEF Replay, SeedReplayed, Restart, proberVars
    <2>2. Violated' = Violated /\ (BudgetLeft' <=> BudgetLeft)
        BY <2>1 DEF Violated, BudgetLeft
    <2> QED
        BY <2>1, <2>2 DEF SummaryInv, BudgetInv, BudgetKept, ScoresTrue
<1>6. CASE Close \/ StartFails \/ CallFails \/ CloseFails
    <2>1. /\ UNCHANGED <<args, tally, seq>>
          /\ pc' \in {"starting", "done"} \/ (pc' = "closing" /\ raised')
        BY <1>6 DEF Close, StartFails, CallFails, CloseFails
    <2>2. Violated' = Violated
        BY <2>1 DEF Violated
    <2> QED
        BY <2>1, <2>2 DEF SummaryInv, BudgetInv, BudgetKept, ScoresTrue
<1> QED
    BY <1>1, <1>2, <1>3, <1>4, <1>5, <1>6 DEF ProberNext, Progress

\* What a session reports of itself is true: its budget was kept, every attempt was
\* counted for what it was, a run that stopped early on failures that cannot fill the
\* target succeeded in something, and the attack counts as successful exactly when its
\* best score reached the threshold (run_once and its summary).
THEOREM SummaryAlwaysTrue == ProberSpec => []SummaryTrue
<1>1. ProberInit => SummaryInv
    <2> SUFFICES ASSUME ProberInit PROVE SummaryInv
        OBVIOUS
    <2>1. /\ tally = ZeroTally /\ args \in CommandLine /\ pc \in {"done", "starting"}
          /\ args.maxAttempts \in Nat /\ args.weight \in Nat
        BY InvocationsAssumption DEF ProberInit, CommandLine
    <2>2. /\ tally.attempts = 0 /\ tally.ok = 0 /\ tally.rejected = 0 /\ tally.effective = 0
          /\ tally.best = NoScore /\ tally.success = NoId
        BY <2>1 DEF ZeroTally
    <2>3. args.weight * 0 = 0
        BY <2>1
    <2>4. BudgetInv
        BY <2>1, <2>2, <2>3 DEF BudgetInv, BudgetKept, Violated
    <2> QED
        BY <2>2, <2>4 DEF SummaryInv, ScoresTrue
<1>2. ProberTypes /\ SummaryInv => SummaryTrue
    BY DEF SummaryInv, BudgetInv, ScoresTrue, SummaryTrue
<1> QED
    BY <1>1, <1>2, SummaryStep, TypesAlways, PTL DEF ProberSpec

-----------------------------------------------------------------------------
(* Sweeps and their ranking. *)

\* The result of a session names the mutant its job announced, if there is such a one.
Announced(k) ==
    (\E m \in Range(Catalogue(args.jobs[k].trace, args.jobs[k].mutation, args.maxMutants)) :
        m.id = args.jobs[k].mutant)
    => results[k].mutant = args.jobs[k].mutant

\* The sessions that ended have a result each, in the order of the jobs.
SweepInv ==
    /\ Len(results) = IF pc = "done" /\ ~raised THEN Len(args.jobs) ELSE job - 1
    /\ \A k \in DOMAIN results : Announced(k)

LEMMA CloseAnnounces == ASSUME ProberTypes, SweepInv, Close PROVE SweepInv'
<1>1. /\ Job \in Session /\ Len(args.jobs) \in Nat /\ job \in 1 .. Len(args.jobs)
      /\ args \in CommandLine
    BY CloseTyped DEF ProberTypes
<1>2. results \in Seq(SummaryType) /\ Len(results) \in Nat /\ Summary \in SummaryType
    <2>1. Chosen(Job).id \in MutantId
        BY <1>1, ChosenTyped DEF MutantType
    <2>2. results \in Seq(SummaryType)
        BY DEF ProberTypes
    <2>3. Len(results) \in Nat
        BY <2>2, LenProperties
    <2> QED
        BY <2>1, <2>2, <2>3 DEF Summary, SummaryType, ProberTypes, Tally
<1>3. Len(results) = job - 1 /\ pc = "closing"
    BY DEF SweepInv, Close
<1>4. UNCHANGED <<args, raised>>
    BY DEF Close
<1>5. CASE raised
    BY <1>3, <1>4, <1>5 DEF Close, SweepInv, Announced
<1>6. CASE ~raised
    <2>1. results' = Append(results, Summary)
        BY <1>6 DEF Close
    <2>2. /\ Len(results') = job /\ DOMAIN results' = 1 .. job /\ DOMAIN results = 1 .. job - 1
          /\ \A k \in 1 .. job - 1 : results'[k] = results[k]
          /\ results'[job] = Summary
        <3>1. results' \in Seq(SummaryType) /\ Len(results') = Len(results) + 1
              /\ (\A k \in 1 .. Len(results) : results'[k] = results[k])
              /\ results'[Len(results) + 1] = Summary
            BY <1>2, <2>1, AppendProperties
        <3>2. Len(results) + 1 = job
            BY <1>1, <1>3
        <3>3. DOMAIN results' = 1 .. Len(results') /\ DOMAIN results = 1 .. Len(results)
            BY <1>2, <3>1, LenProperties
        <3> QED
            BY <1>3, <3>1, <3>2, <3>3
    <2>3. ASSUME NEW k \in DOMAIN results' PROVE Announced(k)'
        <3>1. CASE k \in 1 .. job - 1
            <4>1. Announced(k) /\ results'[k] = results[k]
                BY <2>2, <3>1 DEF SweepInv
            <4> QED
                BY <1>4, <4>1 DEF Announced
        <3>2. CASE k = job
            <4>1. results'[k].mutant = Chosen(Job).id /\ args.jobs[k] = Job
                BY <2>2, <3>2 DEF Summary, Job
            <4>2. (\E m \in Range(Catalogue(Job.trace, Job.mutation, args.maxMutants)) :
                       m.id = Job.mutant) => Chosen(Job).id = Job.mutant
                BY <1>1, ChosenAsAnnounced
            <4> QED
                BY <1>4, <4>1, <4>2 DEF Announced
        <3> QED
            BY <1>1, <2>2, <2>3, <3>1, <3>2
    <2>4. Len(results') = IF pc' = "done" /\ ~raised' THEN Len(args'.jobs) ELSE job' - 1
        <3>1. CASE job = Len(args.jobs)
            BY <1>4, <1>6, <2>2, <3>1 DEF Close
        <3>2. CASE job # Len(args.jobs)
            BY <1>1, <1>4, <1>6, <2>2, <3>2 DEF Close
        <3> QED
            BY <3>1, <3>2
    <2> QED
        BY <2>3, <2>4 DEF SweepInv
<1> QED
    BY <1>5, <1>6

LEMMA SweepStep == ProberTypes /\ SweepInv /\ [ProberNext]_proberVars => SweepInv'
<1> SUFFICES ASSUME ProberTypes, SweepInv, [ProberNext]_proberVars
             PROVE  SweepInv'
    OBVIOUS
<1>1. CASE Close
    BY <1>1, CloseAnnounces
<1>2. CASE ~Close
    <2>1. UNCHANGED <<args, job, results>>
        BY <1>2 DEF ProberNext, Progress, Start, Replay, SeedReplayed, Guided, Chaos, Answered,
               BudgetSpent, StartFails, CallFails, Restart, CloseFails, proberVars
    <2>2. \/ pc # "done" /\ (pc' # "done" \/ raised')
          \/ UNCHANGED <<pc, raised>>
        BY <1>2 DEF ProberNext, Progress, Start, Replay, SeedReplies, SeedReplayed, Guided, Chaos,
               Asking, ProbeReplies, Answered, BudgetSpent, StartFails, CallFails, Restart,
               CloseFails, proberVars
    <2>3. Len(results') = IF pc' = "done" /\ ~raised' THEN Len(args'.jobs) ELSE job' - 1
        BY <2>1, <2>2 DEF SweepInv
    <2> QED
        BY <2>1, <2>3 DEF SweepInv, Announced
<1> QED
    BY <1>1, <1>2

\* A sweep runs every mutant it announces and reports each under its own name
\* (run_mutant_sweep, run_portfolio_sweep).
LEMMA SweepsAlwaysAnnounced == ProberSpec => []SweepsAnnounced
<1>1. ProberInit => SweepInv
    <2> SUFFICES ASSUME ProberInit PROVE SweepInv
        OBVIOUS
    <2>1. results = <<>> /\ job = 1 /\ Len(results) = 0 /\ DOMAIN results = {}
          /\ raised = FALSE /\ pc = IF args.jobs = <<>> THEN "done" ELSE "starting"
        BY DEF ProberInit
    <2>2. args.jobs = <<>> => Len(args.jobs) = 0
        OBVIOUS
    <2> QED
        BY <2>1, <2>2 DEF SweepInv
<1>2. SweepInv => SweepsAnnounced
    BY DEF SweepInv, SweepsAnnounced, Announced
<1> QED
    BY <1>1, <1>2, SweepStep, TypesAlways, PTL DEF ProberSpec

Succeeded(x) == IF x.success THEN 1 ELSE 0

\* The comparison of two results by numbers.
LEMMA BetterByNumbers ==
    ASSUME NEW a \in SummaryType, NEW b \in SummaryType
    PROVE  /\ Succeeded(a) \in Int /\ Score(a) \in Int /\ a.rejected \in Int
           /\ Better(a, b) <=>
                  \/ Succeeded(a) > Succeeded(b)
                  \/ /\ Succeeded(a) = Succeeded(b)
                     /\ Score(a) > Score(b) \/ (Score(a) = Score(b) /\ a.rejected < b.rejected)
<1>1. /\ a.success \in BOOLEAN /\ b.success \in BOOLEAN
      /\ a.best \in BestScore /\ a.rejected \in Nat
    BY DEF SummaryType
<1>2. Succeeded(a) \in Int /\ Score(a) \in Int /\ a.rejected \in Int
    BY <1>1 DEF Succeeded, Score, BestScore
<1>3. (a.success /\ ~b.success) <=> Succeeded(a) > Succeeded(b)
    BY <1>1 DEF Succeeded
<1>4. a.success = b.success <=> Succeeded(a) = Succeeded(b)
    BY <1>1 DEF Succeeded
<1> QED
    BY <1>2, <1>3, <1>4 DEF Better

LEMMA RankingOrders ==
    ASSUME results \in Seq(SummaryType)
    PROVE  IsFiniteSet(DOMAIN results) /\ StrictOrder(DOMAIN results, Ranking)
<1> DEFINE D == DOMAIN results
           b(x) == Succeeded(results[x])
           v(x) == Score(results[x])
           q(x) == results[x].rejected
           Above(x, y) == b(x) > b(y) \/ (b(x) = b(y) /\ (v(x) > v(y) \/ (v(x) = v(y) /\ q(x) < q(y))))
<1>1. D = 1 .. Len(results) /\ Len(results) \in Nat
    BY LenProperties
<1>2. IsFiniteSet(D) /\ D \subseteq Int
    BY <1>1, FS_Interval
<1>3. \A x \in D : results[x] \in SummaryType
    BY <1>1, ElementOfSeq
<1>4. \A x \in D : b(x) \in Int /\ v(x) \in Int /\ q(x) \in Int
    BY <1>3, BetterByNumbers
<1>5. \A x, y \in D : <<x, y>> \in Ranking <=> Above(x, y) \/ (~Above(y, x) /\ x < y)
    BY <1>3, BetterByNumbers DEF Ranking
<1> HIDE DEF D, b, v, q
<1>6. \A x \in D : <<x, x>> \notin Ranking
    BY <1>2, <1>4, <1>5
<1>7. ASSUME NEW x \in D, NEW y \in D, NEW z \in D,
             <<x, y>> \in Ranking, <<y, z>> \in Ranking
      PROVE  <<x, z>> \in Ranking
    <2>1. Above(x, y) \/ (~Above(y, x) /\ x < y)
        BY <1>5, <1>7
    <2>2. Above(y, z) \/ (~Above(z, y) /\ y < z)
        BY <1>5, <1>7
    <2>3. Above(x, z) \/ (~Above(z, x) /\ x < z)
        BY <1>2, <1>4, <2>1, <2>2
    <2> QED
        BY <1>5, <2>3
<1>8. ASSUME NEW x \in D, NEW y \in D, x # y
      PROVE  <<x, y>> \in Ranking \/ <<y, x>> \in Ranking
    <2>1. x < y \/ y < x
        BY <1>2, <1>8
    <2>2. Above(x, y) \/ (~Above(y, x) /\ x < y) \/ Above(y, x) \/ (~Above(x, y) /\ y < x)
        BY <2>1
    <2> QED
        BY <1>5, <2>2
<1> QED
    BY <1>2, <1>6, <1>7, <1>8 DEF StrictOrder, D

LEMMA RankedOnce ==
    ASSUME results \in Seq(SummaryType), NEW r
    PROVE  Cardinality({n \in DOMAIN Leaderboard : Leaderboard[n] = r})
               = Cardinality({n \in DOMAIN results : results[n] = r})
<1> DEFINE D == DOMAIN results
           N == Cardinality(D)
           order == InOrder(D, Ranking)
           A == {n \in 1 .. N : results[order[n]] = r}
           B == {k \in D : results[k] = r}
           f == [n \in A |-> order[n]]
<1>1. IsFiniteSet(D) /\ N \in Nat /\ order \in Bijection(1 .. N, D) /\ order \in [1 .. N -> D]
    BY RankingOrders, InOrderLists
<1>2. DOMAIN Leaderboard = 1 .. N /\ \A n \in 1 .. N : Leaderboard[n] = results[order[n]]
    BY <1>1 DEF Leaderboard
<1> HIDE DEF D, order, N
<1>3. f \in [A -> B]
    BY <1>1
<1>4. \A m, n \in A : f[m] = f[n] => m = n
    BY <1>1 DEF Bijection, Injection, IsInjective
<1>5. \A k \in B : \E n \in A : f[n] = k
    BY <1>1 DEF Bijection, Surjection
<1> HIDE DEF f
<1>6. f \in Bijection(A, B)
    BY <1>3, <1>4, <1>5 DEF Bijection, Injection, Surjection, IsInjective
<1>7. IsFiniteSet(A)
    <2>1. A \in SUBSET (1 .. N) /\ IsFiniteSet(1 .. N)
        BY <1>1, FS_Interval
    <2> QED
        BY <2>1, FS_Subset
<1>8. Cardinality(B) = Cardinality(A)
    BY <1>6, <1>7, FS_Bijection DEF ExistsBijection
<1>9. {n \in DOMAIN Leaderboard : Leaderboard[n] = r} = A
    BY <1>2
<1> QED
    BY <1>8, <1>9 DEF D

LEMMA RankedDown ==
    ASSUME results \in Seq(SummaryType), NEW i \in DOMAIN Leaderboard,
           NEW j \in DOMAIN Leaderboard, i < j
    PROVE  /\ Leaderboard[j].success => Leaderboard[i].success
           /\ /\ Leaderboard[i].success = Leaderboard[j].success
              /\ Leaderboard[i].best # NoScore /\ Leaderboard[j].best # NoScore
              => Leaderboard[i].best >= Leaderboard[j].best
<1> DEFINE D == DOMAIN results
           N == Cardinality(D)
           order == InOrder(D, Ranking)
           a == Leaderboard[i]
           b == Leaderboard[j]
<1>1. N \in Nat /\ order \in [1 .. N -> D]
      /\ \A m, n \in 1 .. N : m < n => <<order[m], order[n]>> \in Ranking
    BY RankingOrders, InOrderLists
<1>2. DOMAIN Leaderboard = 1 .. N /\ \A n \in 1 .. N : Leaderboard[n] = results[order[n]]
    BY <1>1 DEF Leaderboard
<1>3. D = 1 .. Len(results) /\ \A k \in D : results[k] \in SummaryType
    BY LenProperties, ElementOfSeq
<1> HIDE DEF D, N, order
<1>4. a = results[order[i]] /\ b = results[order[j]] /\ a \in SummaryType /\ b \in SummaryType
    BY <1>1, <1>2, <1>3
<1>5. Better(a, b) \/ ~Better(b, a)
    <2>1. <<order[i], order[j]>> \in Ranking
        BY <1>1, <1>2
    <2>2. Better(results[order[i]], results[order[j]]) \/ ~Better(results[order[j]], results[order[i]])
        BY <2>1 DEF Ranking
    <2> QED
        BY <1>4, <2>2
<1> HIDE DEF a, b
<1>6. ~Better(b, a)
    <2> DEFINE sa == Succeeded(a)
               sb == Succeeded(b)
               va == Score(a)
               vb == Score(b)
               qa == a.rejected
               qb == b.rejected
    <2>1. /\ sa \in Int /\ va \in Int /\ qa \in Int
          /\ Better(a, b) <=> sa > sb \/ (sa = sb /\ (va > vb \/ (va = vb /\ qa < qb)))
        BY <1>4, BetterByNumbers
    <2>2. /\ sb \in Int /\ vb \in Int /\ qb \in Int
          /\ Better(b, a) <=> sb > sa \/ (sb = sa /\ (vb > va \/ (vb = va /\ qb < qa)))
        BY <1>4, BetterByNumbers
    <2> HIDE DEF sa, sb, va, vb, qa, qb
    <2> QED
        BY <1>5, <2>1, <2>2
<1>7. b.success => a.success
    BY <1>4, <1>6 DEF Better, SummaryType
<1>8. a.success = b.success => ~(Score(b) > Score(a))
    BY <1>6 DEF Better
<1>9. a.best # NoScore /\ b.best # NoScore => /\ Score(a) = a.best /\ Score(b) = b.best
                                              /\ a.best \in Int /\ b.best \in Int
    BY <1>4 DEF Score, SummaryType, BestScore
<1>10. a.success = b.success /\ a.best # NoScore /\ b.best # NoScore => a.best >= b.best
    BY <1>8, <1>9
<1> QED
    BY <1>7, <1>10 DEF a, b

\* The board lists every session's result once, from the best to the worst
\* (run_mutant_sweep, the sorting of its rows).
LEMMA RankingAlwaysTrue == ProberSpec => []RankedBestFirst
<1>1. ProberTypes => RankedBestFirst
    <2> SUFFICES ASSUME ProberTypes PROVE RankedBestFirst
        OBVIOUS
    <2>1. results \in Seq(SummaryType)
        BY DEF ProberTypes
    <2> QED
        BY <2>1, RankedOnce, RankedDown DEF RankedBestFirst
<1> QED
    BY <1>1, TypesAlways, PTL

\* A sweep reports what it announced, ranked (run_mutant_sweep, run_portfolio_sweep).
THEOREM SweepsAlwaysRanked == ProberSpec => []SweepsRanked
<1>1. SweepsAnnounced /\ RankedBestFirst => SweepsRanked
    BY DEF SweepsRanked
<1> QED
    BY <1>1, SweepsAlwaysAnnounced, RankingAlwaysTrue, PTL

-----------------------------------------------------------------------------
(* The escrows the prober aims at. *)

\* What appending one escrow does to the list of those the prober knows.
LEMMA OneMoreActive ==
    ASSUME NEW s \in Seq(Int), NEW w \in Int, w \notin Range(s), IsInjective(s)
    PROVE  /\ Range(Append(s, w)) = Range(s) \cup {w}
           /\ IsInjective(Append(s, w))
<1> DEFINE n == Len(s)
           t == Append(s, w)
<1>1. n \in Nat /\ DOMAIN s = 1 .. n
    BY LenProperties
<1>2. t \in Seq(Int) /\ Len(t) = n + 1 /\ (\A i \in 1 .. n : t[i] = s[i]) /\ t[n + 1] = w
    BY AppendProperties
<1>3. DOMAIN t = 1 .. n + 1
    BY <1>2, LenProperties
<1> HIDE DEF n, t
<1>4. \A i \in 1 .. n + 1 : i \in 1 .. n \/ i = n + 1
    BY <1>1
<1>5. n + 1 \in 1 .. n + 1 /\ \A i \in 1 .. n : i \in 1 .. n + 1
    BY <1>1
<1>6. Range(t) = Range(s) \cup {w}
    BY <1>1, <1>2, <1>3, <1>4, <1>5 DEF Range
<1>7. ASSUME NEW i \in 1 .. n + 1, NEW j \in 1 .. n + 1, t[i] = t[j] PROVE i = j
    <2>1. \A k \in 1 .. n : t[k] \in Range(s)
        BY <1>1, <1>2 DEF Range
    <2>2. (i = n + 1) <=> (j = n + 1)
        BY <1>2, <1>4, <1>7, <2>1
    <2>3. CASE i \in 1 .. n /\ j \in 1 .. n
        BY <1>1, <1>2, <1>7, <2>3 DEF IsInjective
    <2> QED
        BY <1>4, <2>2, <2>3
<1>8. IsInjective(t)
    BY <1>3, <1>7 DEF IsInjective
<1> QED
    BY <1>6, <1>8 DEF t

\* A list without repetitions is as long as the set of what is in it.
LEMMA InjectiveLength ==
    ASSUME NEW s \in Seq(Int), IsInjective(s)
    PROVE  Cardinality(Range(s)) = Len(s)
<1>1. Len(s) \in Nat /\ DOMAIN s = 1 .. Len(s)
    BY LenProperties
<1>2. s \in [1 .. Len(s) -> Range(s)]
    BY <1>1 DEF Range
<1>3. s \in Bijection(1 .. Len(s), Range(s))
    BY <1>1, <1>2 DEF Bijection, Injection, Surjection, Range
<1>4. IsFiniteSet(1 .. Len(s)) /\ Cardinality(1 .. Len(s)) = Len(s)
    <2> DEFINE n == Len(s)
    <2>1. IsFiniteSet(1 .. n) /\ Cardinality(1 .. n) = IF 1 > n THEN 0 ELSE n - 1 + 1
        BY <1>1, FS_Interval
    <2> HIDE DEF n
    <2>2. n \in Nat
        BY <1>1 DEF n
    <2>3. (IF 1 > n THEN 0 ELSE n - 1 + 1) = n
        BY <2>2
    <2> QED
        BY <2>1, <2>3 DEF n
<1> QED
    BY <1>3, <1>4, FS_Bijection DEF ExistsBijection

\* The prober's list of escrows against the server's.
Known ==
    /\ Range(active) \subseteq Ids(server)
    /\ IsInjective(active)
    /\ Seed = <<>> => Range(active) = Ids(server) /\ server.clock <= ProbeTime

ActiveInv == server.hosted /\ pc \in {"replaying", "probing", "sent"} => Known

LEMMA MoreIds ==
    ASSUME NEW s \in Server, NEW t \in Server
    PROVE  /\ Len(t.escrows) = Len(s.escrows) => Ids(t) = Ids(s)
           /\ Len(t.escrows) = Len(s.escrows) + 1 =>
                  /\ Ids(t) = Ids(s) \cup {Len(s.escrows)}
                  /\ Len(s.escrows) \notin Ids(s)
           /\ Ids(s) \subseteq Int /\ Len(s.escrows) \in Int
<1> DEFINE m == Len(s.escrows)
           n == Len(t.escrows)
<1>1. m \in Nat /\ n \in Nat
    BY LenProperties DEF Server
<1>2. Ids(s) = 0 .. m - 1 /\ Ids(t) = 0 .. n - 1
    BY DEF Ids
<1> HIDE DEF m, n
<1>3. n = m + 1 => 0 .. n - 1 = (0 .. m - 1) \cup {m}
    BY <1>1
<1>4. m \notin 0 .. m - 1 /\ 0 .. m - 1 \subseteq Int /\ m \in Int
    BY <1>1
<1> QED
    BY <1>2, <1>3, <1>4 DEF m, n

\* An accepted event of the seed that names its escrow makes it known.
LEMMA ReplayKnows ==
    ASSUME ProberTypes, ActiveInv, NEW reply \in SeedReplies, Replay(reply)
    PROVE  ActiveInv'
<1> DEFINE ev == Seed[seed.next]
<1>1. /\ pc = "replaying" /\ seed.next \in 1 .. Len(Seed) /\ ev \in EventType
      /\ ReplyOf(server, ev.time, ev.action, reply)
    BY ReplayTyped
<1>2. UNCHANGED <<args, job, pc, seq>> /\ server' = reply.server
    BY DEF Replay
<1>3. Seed' = Seed
    BY <1>2 DEF Seed, Chosen, Mutants, Job
<1>4. Seed # <<>>
    <2>1. Len(<<>>) = 0 /\ 1 .. 0 = {}
        OBVIOUS
    <2> QED
        BY <1>1, <2>1
<1>5. server'.hosted = server.hosted
    BY <1>1, <1>2 DEF ReplyOf
<1> SUFFICES ASSUME server.hosted PROVE Known'
    BY <1>5 DEF ActiveInv
<1>6. Known
    BY <1>1 DEF ActiveInv
<1>7. server \in Server /\ server' \in Server /\ active \in Seq(Int)
    BY <1>1, <1>2 DEF ReplyOf, ProberTypes
<1>8. Ids(server) \subseteq Ids(server')
    <2>1. Len(server'.escrows) = Len(server.escrows)
          \/ Len(server'.escrows) = Len(server.escrows) + 1
        BY <1>1, <1>2 DEF ReplyOf
    <2> QED
        BY <1>7, <2>1, MoreIds
<1>9. CASE active' = active
    BY <1>3, <1>4, <1>6, <1>8, <1>9 DEF Known
<1>10. CASE active' # active
    <2>1. ev.alias # "" /\ reply.result = "ok" /\ active' = Append(active, reply.id)
          /\ reply.id \notin Range(active)
        BY <1>10 DEF Replay, ActiveAfterSeed
    <2>2. ev.action = "create_escrow"
        BY <1>1, <2>1 DEF EventType
    <2> HIDE DEF ev
    <2>3. reply.id = Len(server.escrows) /\ Len(server'.escrows) = Len(server.escrows) + 1
        BY <1>1, <1>2, <2>1, <2>2 DEF ReplyOf
    <2>4. reply.id \in Int /\ Ids(server') = Ids(server) \cup {reply.id}
        BY <1>7, <2>3, MoreIds
    <2>5. Range(active') = Range(active) \cup {reply.id} /\ IsInjective(active')
        BY <1>6, <1>7, <2>1, <2>4, OneMoreActive DEF Known
    <2> QED
        BY <1>3, <1>4, <1>6, <2>4, <2>5 DEF Known
<1> QED
    BY <1>9, <1>10

\* A probe that creates an escrow makes it known, and the clock is at most the probe's.
LEMMA AnswerKnows ==
    ASSUME ProberTypes, ActiveInv, NEW reply \in ProbeReplies,
           NEW score \in Scores \cup {NoScore}, Answered(reply, score)
    PROVE  ActiveInv'
<1>1. pc = "sent" /\ ReplyOf(server, ProbeTime, probe.action, reply) /\ ProbeTime \in Nat
    BY AnsweredTyped
<1>2. UNCHANGED <<args, job>> /\ server' = reply.server
    BY DEF Answered
<1>3. Seed' = Seed
    BY <1>2 DEF Seed, Chosen, Mutants, Job
<1>4. server'.hosted = server.hosted
    BY <1>1, <1>2 DEF ReplyOf
<1> SUFFICES ASSUME server.hosted, pc' = "probing" PROVE Known'
    BY <1>4 DEF ActiveInv, Answered
<1>5. Known
    BY <1>1 DEF ActiveInv
<1>6. server \in Server /\ server' \in Server /\ active \in Seq(Int) /\ seq \in Nat
    BY <1>1, <1>2 DEF ReplyOf, ProberTypes
<1>7. ProbeTime' = ProbeTime + 10
    <2>1. seq' = seq + 1
        BY DEF Answered
    <2> QED
        BY <1>6, <2>1 DEF ProbeTime
<1>8. server.clock <= ProbeTime => server'.clock <= ProbeTime'
    <2>1. server'.clock \in {server.clock, ProbeTime} /\ server.clock \in Int
        BY <1>1, <1>2, <1>6 DEF ReplyOf, Server
    <2> HIDE DEF ProbeTime
    <2> QED
        BY <1>1, <1>7, <2>1
<1>9. CASE reply.result = "ok" /\ probe.action = "create_escrow"
    <2>1. reply.id = Len(server.escrows) /\ Len(server'.escrows) = Len(server.escrows) + 1
        BY <1>1, <1>2, <1>9 DEF ReplyOf
    <2>2. /\ reply.id \in Int /\ reply.id \notin Ids(server)
          /\ Ids(server') = Ids(server) \cup {reply.id}
        BY <1>6, <2>1, MoreIds
    <2>3. active' = Append(active, reply.id) /\ reply.id \notin Range(active)
        BY <1>5, <1>9, <2>2 DEF Answered, Known
    <2>4. Range(active') = Range(active) \cup {reply.id} /\ IsInjective(active')
        BY <1>5, <1>6, <2>2, <2>3, OneMoreActive DEF Known
    <2> QED
        BY <1>3, <1>5, <1>8, <2>2, <2>4 DEF Known
<1>10. CASE ~(reply.result = "ok" /\ probe.action = "create_escrow")
    <2>1. active' = active
        BY <1>10 DEF Answered
    <2>2. Len(server'.escrows) = Len(server.escrows)
        BY <1>1, <1>2, <1>10 DEF ReplyOf
    <2>3. Ids(server') = Ids(server)
        BY <1>6, <2>2, MoreIds
    <2> QED
        BY <1>3, <1>5, <1>8, <2>1, <2>3 DEF Known
<1> QED
    BY <1>9, <1>10

LEMMA StartKnows == ASSUME Start PROVE ActiveInv'
<1>1. active' = <<>> /\ server' = FreshServer /\ seq' = 0
    BY DEF Start
<1>2. server'.escrows = <<>> /\ server'.clock = 1000
    BY <1>1, FreshTypes
<1>3. Len(<<>>) = 0 /\ DOMAIN <<>> = {} /\ 0 .. 0 - 1 = {}
    OBVIOUS
<1>4. Ids(server') = {}
    BY <1>2, <1>3 DEF Ids
<1>5. Range(active') = {} /\ IsInjective(active')
    BY <1>1, <1>3 DEF Range, IsInjective
<1>6. server'.clock <= ProbeTime'
    BY <1>1, <1>2 DEF ProbeTime
<1> QED
    BY <1>4, <1>5, <1>6 DEF ActiveInv, Known

LEMMA ActiveStep == ProberTypes /\ ActiveInv /\ [ProberNext]_proberVars => ActiveInv'
<1> SUFFICES ASSUME ProberTypes, ActiveInv, [ProberNext]_proberVars
             PROVE  ActiveInv'
    OBVIOUS
<1>1. CASE \E reply \in SeedReplies : Replay(reply)
    BY <1>1, ReplayKnows
<1>2. CASE \E reply \in ProbeReplies, score \in Scores \cup {NoScore} : Answered(reply, score)
    BY <1>2, AnswerKnows
<1>3. CASE Start
    BY <1>3, StartKnows
<1>4. CASE SeedReplayed \/ Guided \/ Chaos \/ UNCHANGED proberVars
    <2>1. UNCHANGED <<args, job, active, seq, server>>
          /\ (pc' \in {"replaying", "probing", "sent"} => pc \in {"replaying", "probing", "sent"})
        BY <1>4 DEF SeedReplayed, Guided, Chaos, Asking, proberVars
    <2>2. Seed' = Seed /\ ProbeTime' = ProbeTime
        BY <2>1 DEF Seed, Chosen, Mutants, Job, ProbeTime
    <2> QED
        BY <2>1, <2>2 DEF ActiveInv, Known
<1>5. CASE BudgetSpent \/ CallFails \/ Restart \/ Close \/ CloseFails \/ StartFails
    <2>1. pc' \notin {"replaying", "probing", "sent"} \/ ~server'.hosted
        BY <1>5 DEF BudgetSpent, CallFails, Restart, Close, CloseFails, StartFails, Gone
    <2> QED
        BY <2>1 DEF ActiveInv
<1> QED
    BY <1>1, <1>2, <1>3, <1>4, <1>5 DEF ProberNext, Progress

\* The prober aims at escrows that exist, at each of them as often as at any other, and
\* without a seed at all of them with no probe from the server's past (active_ids).
THEOREM ActiveIdsAlwaysExist == ProberSpec => []ActiveIdsExist
<1>1. ProberInit => ActiveInv
    BY DEF ProberInit, ActiveInv
<1>2. ProberTypes /\ ActiveInv => ActiveIdsExist
    BY InjectiveLength DEF ActiveInv, Known, ActiveIdsExist, ProberTypes
<1> QED
    BY <1>1, <1>2, ActiveStep, TypesAlways, PTL DEF ProberSpec

=============================================================================
