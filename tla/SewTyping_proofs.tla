-------------------------- MODULE SewTyping_proofs --------------------------
(***************************************************************************)
(* First the arithmetic: what the fee, net amount and slash formulas are    *)
(* bounded by, for every amount and every rate; and the sums the ledgers    *)
(* are stated with, for every finite set.                                   *)
(*                                                                          *)
(* Then type correctness of the contract model, for any addresses, tokens,  *)
(* contexts, orders and bounds.  TypeOK is not inductive as it stands: a     *)
(* slash is taken from the resolver a decision or a slash names, so the      *)
(* proof carries along that such a name is an address and never nil.        *)
(***************************************************************************)
EXTENDS SewProperties, Functions, FiniteSetTheorems, TLAPS

-----------------------------------------------------------------------------
(* The arithmetic of SewTypes and the sums. *)

\* A rate of at most 100% takes a part of the amount: the fee of create-escrow,
\* the bond cut and the fee-on-transfer tax never exceed what they are taken
\* from (payoffs.clj, compute-fee).
LEMMA FeeIsAPart ==
    ASSUME NEW amount \in Nat, NEW bps \in Bps
    PROVE  /\ ComputeFee(amount, bps) \in Nat
           /\ ComputeFee(amount, bps) <= amount
<1> DEFINE p == amount * bps
<1>1. bps \in Nat /\ bps <= 10000
    BY DEF Bps, FeeDenominator
<1>2. p \in Nat /\ p <= amount * 10000
    BY <1>1, SMT
<1> HIDE DEF p
<1>3. p \div 10000 \in Nat /\ p \div 10000 <= amount
    BY <1>2, SMT
<1> QED
    BY <1>3 DEF p, ComputeFee, FeeDenominator

\* The 50/30/20 split of a slash pays out exactly the slash less the bounty the
\* two outer parts fund, and the retained part is never negative (payoffs.clj).
LEMMA SplitIsExact ==
    ASSUME NEW amount \in Nat, NEW bounty \in Nat
    PROVE  LET split == SlashSplit(amount, bounty)
           IN  /\ split \in [insurance : Int, protocol : Int, retained : Nat]
               /\ split.insurance + split.protocol + split.retained
                      = amount - 2 * (bounty \div 2)
<1> DEFINE i == (amount * 50) \div 100
           p == (amount * 30) \div 100
           h == bounty \div 2
<1>1. i \in Nat /\ p \in Nat /\ h \in Nat /\ i + p <= amount
    BY SMT
<1> HIDE DEF i, p, h
<1>2. /\ i - h \in Int /\ p - h \in Int /\ amount - i - p \in Nat
      /\ (i - h) + (p - h) + (amount - i - p) = amount - 2 * h
    BY <1>1, SMT
<1>3. SlashSplit(amount, bounty) =
          [insurance |-> i - h, protocol |-> p - h, retained |-> amount - i - p]
    BY DEF SlashSplit, i, p, h
<1> QED
    BY <1>2, <1>3 DEF h

\* Crediting an account leaves every account a natural number, whoever is
\* credited: an address without an account is simply not entered.
LEMMA CreditKeepsNat ==
    ASSUME NEW D, NEW f \in [D -> Nat], NEW a, NEW n \in Nat
    PROVE  [f EXCEPT ![a] = @ + n] \in [D -> Nat]
<1>1. CASE a \in D
    BY <1>1
<1>2. CASE a \notin D
    BY <1>2
<1> QED
    BY <1>1, <1>2

-----------------------------------------------------------------------------
(* Sums over finite sets. *)

\* Two forms of induction that name no predicate, from the library's well-founded
\* orders: a set of numbers has a least element, and a set of subsets of a finite
\* set a smallest one.  A proof applies them to the set of counterexamples.
LEMMA LeastOf ==
    ASSUME NEW B \in SUBSET Nat, B # {}
    PROVE  \E n \in B : \A m \in B : n <= m
<1>1. IsWellFoundedOn(OpToRel(<, Nat), Nat)
    BY NatLessThanWellFounded, Zenon
<1>2. PICK n \in B : \A m \in B : <<m, n>> \notin OpToRel(<, Nat)
    BY <1>1, WFMin, Zenon
<1>3. \A m \in B : ~(m < n)
    BY <1>2 DEF OpToRel
<1> QED
    BY <1>3

LEMMA SmallestOf ==
    ASSUME NEW S, IsFiniteSet(S), NEW B \in SUBSET (SUBSET S), B # {}
    PROVE  \E T \in B : \A U \in B : U \subseteq T => U = T
<1>1. B \subseteq FiniteSubsetsOf(S)
    BY FS_FiniteSubsetsOfFinite
<1>2. PICK T \in B : \A U \in B : <<U, T>> \notin StrictSubsetOrdering(S)
    BY <1>1, FS_StrictSubsetOrderingWellFounded, WFMin, Zenon
<1> QED
    BY <1>2 DEF StrictSubsetOrdering

\* The element the fold of a sum takes next, what it adds, and its table of sums.
Taken(s) == CHOOSE x \in s : TRUE

SumRow(f, g, s) == IF s = {} THEN 0 ELSE f[Taken(s)] + g[s \ {Taken(s)}]

SumsOf(f, S) == CHOOSE g : g = [s \in SUBSET S |-> SumRow(f, g, s)]

\* SumFunctionOnSet is the fold of the community modules: one table of the sums over
\* all subsets.
LEMMA SumUnfold ==
    ASSUME NEW f, NEW S
    PROVE  SumFunctionOnSet(f, S) = SumsOf(f, S)[S]
BY DEF SumFunctionOnSet, FoldFunctionOnSet, MapThenFoldSet, SumsOf, SumRow, Taken

LEMMA TakenIn == ASSUME NEW s, s # {} PROVE Taken(s) \in s
BY DEF Taken

SumsUpTo(f, g, S, n) ==
    /\ g = [s \in SUBSET S |-> g[s]]
    /\ \A s \in SUBSET S : Cardinality(s) <= n => g[s] = SumRow(f, g, s)

LEMMA SubsetCounts ==
    ASSUME NEW S, IsFiniteSet(S), NEW s \in SUBSET S
    PROVE  /\ Cardinality(s) \in Nat /\ Cardinality(s) <= Cardinality(S)
           /\ (Cardinality(s) = 0) <=> (s = {})
           /\ s # {} => /\ s \ {Taken(s)} \in SUBSET S
                        /\ Cardinality(s \ {Taken(s)}) = Cardinality(s) - 1
<1>1. IsFiniteSet(s)
    BY FS_Subset
<1>2. s # {} => Cardinality(s \ {Taken(s)}) = Cardinality(s) - 1
    BY <1>1, FS_RemoveElement, TakenIn
<1> QED
    BY <1>1, <1>2, FS_Subset, FS_EmptySet, FS_CardinalityType

\* The recursion has a solution: a table that is right up to size n - 1 is made right
\* up to size n.
LEMMA SumsGrow ==
    ASSUME NEW f, NEW S, IsFiniteSet(S), NEW n \in Nat, NEW h,
           n = 0 \/ SumsUpTo(f, h, S, n - 1)
    PROVE  \E g : SumsUpTo(f, g, S, n)
<1> DEFINE g == [s \in SUBSET S |-> IF Cardinality(s) = n THEN SumRow(f, h, s) ELSE h[s]]
<1>1. ASSUME NEW s \in SUBSET S, Cardinality(s) <= n
      PROVE  g[s] = SumRow(f, g, s)
    <2>1. SumRow(f, g, s) = SumRow(f, h, s)
        BY <1>1, SubsetCounts DEF SumRow
    <2>2. CASE Cardinality(s) = n
        BY <2>1, <2>2
    <2>3. CASE Cardinality(s) # n
        <3>1. Cardinality(s) \in Nat
            BY SubsetCounts
        <3>2. n # 0 /\ Cardinality(s) <= n - 1
            BY <1>1, <2>3, <3>1
        <3>3. h[s] = SumRow(f, h, s)
            BY <3>2 DEF SumsUpTo
        <3> QED
            BY <2>1, <2>3, <3>3
    <2> QED
        BY <2>2, <2>3
<1>2. SumsUpTo(f, g, S, n)
    BY <1>1 DEF SumsUpTo
<1> HIDE DEF g
<1> QED
    BY <1>2

LEMMA SumsExist ==
    ASSUME NEW f, NEW S, IsFiniteSet(S)
    PROVE  \E g : g = [s \in SUBSET S |-> SumRow(f, g, s)]
<1> DEFINE bad == {n \in Nat : ~\E g : SumsUpTo(f, g, S, n)}
<1>1. bad = {}
    <2> SUFFICES ASSUME bad # {} PROVE FALSE
        OBVIOUS
    <2>1. bad \in SUBSET Nat
        OBVIOUS
    <2>2. \A n \in Nat : n \notin bad => \E g : SumsUpTo(f, g, S, n)
        OBVIOUS
    <2>3. \A n \in bad : ~\E g : SumsUpTo(f, g, S, n)
        OBVIOUS
    <2> HIDE DEF bad
    <2>4. PICK n \in bad : \A m \in bad : n <= m
        BY <2>1, LeastOf
    <2>5. n \in Nat
        BY <2>1
    <2>6. n # 0 => n - 1 \in Nat /\ n - 1 \notin bad
        BY <2>4, <2>5
    <2>7. \E h : n = 0 \/ SumsUpTo(f, h, S, n - 1)
        BY <2>2, <2>6
    <2> QED
        BY <2>3, <2>5, <2>7, SumsGrow
<1>2. PICK g : SumsUpTo(f, g, S, Cardinality(S))
    BY <1>1, FS_CardinalityType
<1>3. \A s \in SUBSET S : g[s] = SumRow(f, g, s)
    BY <1>2, SubsetCounts DEF SumsUpTo
<1>4. g = [s \in SUBSET S |-> g[s]]
    BY <1>2 DEF SumsUpTo
<1> QED
    BY <1>3, <1>4

LEMMA SumsRecur ==
    ASSUME NEW f, NEW S, IsFiniteSet(S)
    PROVE  \A s \in SUBSET S : SumsOf(f, S)[s] = SumRow(f, SumsOf(f, S), s)
<1>1. SumsOf(f, S) = [s \in SUBSET S |-> SumRow(f, SumsOf(f, S), s)]
    BY SumsExist DEF SumsOf
<1> QED
    BY <1>1

\* A sum depends on the terms it adds and on nothing else, not even on the set whose
\* table it is read from.
LEMMA SumsAgree ==
    ASSUME NEW f, NEW g, NEW S, NEW R, IsFiniteSet(S), IsFiniteSet(R),
           NEW T \in SUBSET (S \cap R), \A x \in T : f[x] = g[x]
    PROVE  SumsOf(f, S)[T] = SumsOf(g, R)[T]
<1> DEFINE F == SumsOf(f, S)
           G == SumsOf(g, R)
           bad == {U \in SUBSET T : F[U] # G[U]}
<1> SUFFICES ASSUME bad # {} PROVE FALSE
    BY DEF bad
<1>1. IsFiniteSet(T)
    BY FS_Subset
<1>2. PICK U \in bad : \A V \in bad : V \subseteq U => V = U
    <2>1. bad \in SUBSET (SUBSET T)
        OBVIOUS
    <2> HIDE DEF bad
    <2> QED
        BY <1>1, <2>1, SmallestOf
<1>3. U \in SUBSET T /\ U \in SUBSET S /\ U \in SUBSET R
    BY <1>2
<1>4. F[U] = SumRow(f, F, U) /\ G[U] = SumRow(g, G, U)
    BY <1>3, SumsRecur
<1>5. U # {}
    BY <1>2, <1>4 DEF SumRow
<1> DEFINE x == Taken(U)
<1>6. x \in U /\ f[x] = g[x] /\ U \ {x} \in SUBSET T
    BY <1>3, <1>5, TakenIn
<1>7. F[U \ {x}] = G[U \ {x}]
    BY <1>2, <1>6
<1> QED
    BY <1>2, <1>4, <1>6, <1>7 DEF SumRow

\* What the proofs about ledgers cite: the empty sum, sums of equal terms, and the
\* recursion of the fold.
LEMMA SumEmpty == ASSUME NEW f PROVE SumFunctionOnSet(f, {}) = 0
<1>1. IsFiniteSet({})
    BY FS_EmptySet
<1> QED
    BY <1>1, SumUnfold, SumsRecur DEF SumRow

LEMMA SumSame ==
    ASSUME NEW f, NEW g, NEW S, IsFiniteSet(S), \A x \in S : f[x] = g[x]
    PROVE  SumFunctionOnSet(f, S) = SumFunctionOnSet(g, S)
BY SumUnfold, SumsAgree

LEMMA SumTakesOne ==
    ASSUME NEW f, NEW S, IsFiniteSet(S), S # {}
    PROVE  SumFunctionOnSet(f, S) = f[Taken(S)] + SumFunctionOnSet(f, S \ {Taken(S)})
<1> DEFINE R == S \ {Taken(S)}
<1>1. IsFiniteSet(R)
    BY FS_Subset
<1>2. SumsOf(f, S)[R] = SumsOf(f, R)[R]
    BY <1>1, SumsAgree
<1>3. SumsOf(f, S)[S] = f[Taken(S)] + SumsOf(f, S)[R]
    BY SumsRecur DEF SumRow
<1> QED
    BY <1>2, <1>3, SumUnfold

\* Sums of terms from a set that is closed under addition stay in it.
LEMMA SumIn ==
    ASSUME NEW f, NEW S, IsFiniteSet(S), NEW T, 0 \in T,
           \A i, j \in T : i + j \in T, \A x \in S : f[x] \in T
    PROVE  SumFunctionOnSet(f, S) \in T
<1> DEFINE bad == {U \in SUBSET S : SumFunctionOnSet(f, U) \notin T}
<1> SUFFICES ASSUME bad # {} PROVE FALSE
    OBVIOUS
<1>1. PICK U \in bad : \A V \in bad : V \subseteq U => V = U
    <2>1. bad \in SUBSET (SUBSET S)
        OBVIOUS
    <2> HIDE DEF bad
    <2> QED
        BY <2>1, SmallestOf
<1>2. U \in SUBSET S /\ SumFunctionOnSet(f, U) \notin T
    OBVIOUS
<1>3. SumFunctionOnSet(f, {}) \in T
    BY SumEmpty
<1>4. IsFiniteSet(U) /\ U # {}
    BY <1>2, <1>3, FS_Subset
<1>5. Taken(U) \in U /\ U \ {Taken(U)} \in SUBSET S /\ U \ {Taken(U)} # U
    BY <1>2, <1>4, TakenIn
<1>6. SumFunctionOnSet(f, U \ {Taken(U)}) \in T
    BY <1>1, <1>5
<1>7. f[Taken(U)] \in T
    BY <1>2, <1>5
<1>8. SumFunctionOnSet(f, U) \in T
    BY <1>4, <1>6, <1>7, SumTakesOne
<1> QED
    BY <1>2, <1>8

LEMMA SumInt ==
    ASSUME NEW f, NEW S, IsFiniteSet(S), \A x \in S : f[x] \in Int
    PROVE  SumFunctionOnSet(f, S) \in Int
<1>1. 0 \in Int /\ \A i, j \in Int : i + j \in Int
    OBVIOUS
<1> QED
    BY <1>1, SumIn

\* Any term may be taken out first: the order of the fold does not matter.
LEMMA SumTakes ==
    ASSUME NEW f, NEW S, IsFiniteSet(S), \A x \in S : f[x] \in Int, NEW x \in S
    PROVE  SumFunctionOnSet(f, S) = f[x] + SumFunctionOnSet(f, S \ {x})
<1> DEFINE takes(U, z) == SumFunctionOnSet(f, U) = f[z] + SumFunctionOnSet(f, U \ {z})
           bad == {U \in SUBSET S : \E z \in U : ~takes(U, z)}
<1> SUFFICES ASSUME bad # {} PROVE FALSE
    OBVIOUS
<1>1. PICK U \in bad : \A V \in bad : V \subseteq U => V = U
    <2>1. bad \in SUBSET (SUBSET S)
        OBVIOUS
    <2> HIDE DEF bad
    <2> QED
        BY <2>1, SmallestOf
<1>2. PICK z \in U : ~takes(U, z)
    OBVIOUS
<1>3. \A V \in SUBSET S : V \subseteq U /\ V # U => \A v \in V : takes(V, v)
    BY <1>1
<1>4. U \in SUBSET S /\ IsFiniteSet(U) /\ U # {}
    BY FS_Subset
<1> DEFINE y == Taken(U)
           rest == U \ {y, z}
<1>5. y \in U /\ takes(U, y)
    BY <1>4, TakenIn, SumTakesOne
<1>6. y # z
    BY <1>2, <1>5
<1> HIDE DEF bad, y
<1>7. /\ U \ {y} \in SUBSET S /\ U \ {z} \in SUBSET S
      /\ z \in U \ {y} /\ y \in U \ {z}
      /\ (U \ {y}) \ {z} = rest /\ (U \ {z}) \ {y} = rest
    BY <1>4, <1>5, <1>6
<1>8. takes(U \ {y}, z) /\ takes(U \ {z}, y)
    BY <1>3, <1>5, <1>7
<1>9. f[y] \in Int /\ f[z] \in Int
    BY <1>4, <1>5
<1>10. SumFunctionOnSet(f, rest) \in Int
    <2>1. IsFiniteSet(rest) /\ rest \in SUBSET S
        BY <1>4, FS_Subset
    <2> QED
        BY <2>1, SumInt
<1>11. /\ SumFunctionOnSet(f, U) = f[y] + (f[z] + SumFunctionOnSet(f, rest))
       /\ SumFunctionOnSet(f, U \ {z}) = f[y] + SumFunctionOnSet(f, rest)
    BY <1>5, <1>7, <1>8
<1> HIDE DEF rest
<1>12. takes(U, z)
    BY <1>9, <1>10, <1>11
<1> QED
    BY <1>2, <1>12

\* A sum of naturals is a natural, no smaller than any of its terms.
LEMMA SumNat ==
    ASSUME NEW f, NEW S, IsFiniteSet(S), \A x \in S : f[x] \in Nat
    PROVE  /\ SumFunctionOnSet(f, S) \in Nat
           /\ \A x \in S : f[x] <= SumFunctionOnSet(f, S)
<1>1. 0 \in Nat /\ \A i, j \in Nat : i + j \in Nat
    OBVIOUS
<1>2. SumFunctionOnSet(f, S) \in Nat
    BY <1>1, SumIn
<1>3. ASSUME NEW x \in S
      PROVE  f[x] <= SumFunctionOnSet(f, S)
    <2>1. SumFunctionOnSet(f, S) = f[x] + SumFunctionOnSet(f, S \ {x})
        BY SumTakes
    <2>2. IsFiniteSet(S \ {x})
        BY FS_Subset
    <2>3. f[x] \in Nat /\ SumFunctionOnSet(f, S \ {x}) \in Nat
        BY <1>1, <2>2, SumIn
    <2> QED
        BY <2>1, <2>3
<1> QED
    BY <1>2, <1>3

\* When one element's term or membership changes, the sum changes by exactly that.
LEMMA SumChange ==
    ASSUME NEW D, IsFiniteSet(D), NEW S \in SUBSET D, NEW R \in SUBSET D,
           NEW f, NEW g, NEW x,
           \A y \in S : f[y] \in Int, \A y \in R : g[y] \in Int,
           \A y \in D \ {x} : /\ y \in R <=> y \in S
                              /\ y \in S => g[y] = f[y]
    PROVE  SumFunctionOnSet(g, R) - (IF x \in R THEN g[x] ELSE 0)
               = SumFunctionOnSet(f, S) - (IF x \in S THEN f[x] ELSE 0)
<1>1. R \ {x} = S \ {x} /\ IsFiniteSet(R) /\ IsFiniteSet(S) /\ IsFiniteSet(S \ {x})
    BY FS_Subset
<1>2. SumFunctionOnSet(g, R \ {x}) = SumFunctionOnSet(f, S \ {x})
    BY <1>1, SumSame
<1>3. SumFunctionOnSet(f, S \ {x}) \in Int
    BY <1>1, SumInt
<1>4. x \in S => SumFunctionOnSet(f, S) = f[x] + SumFunctionOnSet(f, S \ {x})
    BY <1>1, SumTakes
<1>5. x \in R => SumFunctionOnSet(g, R) = g[x] + SumFunctionOnSet(g, R \ {x})
    BY <1>1, SumTakes
<1>6. /\ x \notin S => SumFunctionOnSet(f, S) = SumFunctionOnSet(f, S \ {x})
      /\ x \notin R => SumFunctionOnSet(g, R) = SumFunctionOnSet(g, R \ {x})
    <2>1. /\ x \notin S => S \ {x} = S
          /\ x \notin R => R \ {x} = R
        OBVIOUS
    <2> QED
        BY <2>1
<1>7. /\ x \in S => f[x] \in Int
      /\ x \in R => g[x] \in Int
    OBVIOUS
<1> QED
    BY <1>2, <1>3, <1>4, <1>5, <1>6, <1>7

LEMMA SumZero ==
    ASSUME NEW f, NEW S, IsFiniteSet(S), \A x \in S : f[x] = 0
    PROVE  SumFunctionOnSet(f, S) = 0
<1>1. 0 \in {0} /\ \A i, j \in {0} : i + j \in {0}
    OBVIOUS
<1>2. SumFunctionOnSet(f, S) \in {0}
    BY <1>1, SumIn
<1> QED
    BY <1>2

LEMMA WorkflowsFinite == IsFiniteSet(Workflows)
BY WorkflowsAssumption, FS_Interval DEF Workflows

-----------------------------------------------------------------------------
(* The types. *)

\* TypeOK in the groups the actions leave unchanged together.
ClockType == ctx \in Context /\ time \in Nat /\ paused \in BOOLEAN

EscrowType ==
    /\ transfers \in [Workflows -> Transfer]
    /\ customResolver \in [Workflows -> OptAddr]
    /\ rotations \in [Workflows -> Nat]

RoundType ==
    /\ pendingSettlements \in [Workflows -> Settlement]
    /\ disputeTimestamps \in [Workflows -> Nat]
    /\ disputeLevels \in [Workflows -> Levels]
    /\ previousDecisions \in [Workflows -> [Levels -> Decision]]
    /\ challengers \in [Workflows -> [Levels -> OptAddr]]
    /\ lastEscalation \in [Workflows -> Nat]

LedgerType ==
    /\ totalHeld \in [Tokens -> Int]
    /\ totalFees \in [Tokens -> Nat]
    /\ totalReleased \in [Tokens -> Nat]
    /\ totalRefunded \in [Tokens -> Nat]
    /\ claimable \in [ClaimKeys -> [Addr -> Nat]]

BondType ==
    /\ bondBalances \in [Workflows -> [Addr -> Nat]]
    /\ bondFees \in [Tokens -> Nat]
    /\ totalBondsPosted \in [Tokens -> Nat]

StakeType ==
    /\ stakes \in [Addr -> Nat]
    /\ staked \subseteq Addr
    /\ slashTotal \in [Addr -> Nat]
    /\ distribution \in Reserves
    /\ bounties \in [Addr -> Nat]

SlashType ==
    /\ fraudSlashes \in [SlashIds -> Slash]
    /\ custody \in [SlashIds -> Custody]
    /\ forfeited \in Nat
    /\ frozenUntil \in [Addr -> Nat]
    /\ unavailable \subseteq Addr
    /\ evidenceUpdated \in [Workflows -> BOOLEAN]

\* A decision that was taken names who took it.
DecidersNamed ==
    \A w \in Workflows : \A l \in Levels :
        Decided(w, l) => previousDecisions[w][l].resolver \in Addr

\* A slash that was filed names whom it is taken from.
SlashedNamed ==
    \A s \in SlashIds :
        fraudSlashes[s].status # "none" => fraudSlashes[s].resolver \in Addr

TypeInv ==
    /\ ClockType
    /\ EscrowType
    /\ RoundType
    /\ LedgerType
    /\ BondType
    /\ StakeType
    /\ SlashType
    /\ DecidersNamed
    /\ SlashedNamed

-----------------------------------------------------------------------------
(* The primitives keep the types. *)

LEMMA Keys == \A w \in Workflows : IntKey(w) \in ClaimKeys
BY DEF IntKey, ClaimKeys

LEMMA NetIsNat ==
    ASSUME TypeInv, NEW et \in Transfer
    PROVE  NetAmount(et) \in Nat
<1>1. et.afa \in Nat /\ et.token \in Tokens
    BY DEF Transfer
<1>2. ctx.fotBps[et.token] \in Bps
    BY <1>1 DEF TypeInv, ClockType, Context
<1>3. /\ ComputeFee(et.afa, ctx.fotBps[et.token]) \in Nat
      /\ ComputeFee(et.afa, ctx.fotBps[et.token]) <= et.afa
    BY <1>1, <1>2, FeeIsAPart
<1> QED
    BY <1>1, <1>3 DEF NetAmount

LEMMA FinalizeTyped ==
    ASSUME TypeInv, NEW w \in Workflows, NEW et \in Transfer,
           NEW outcome \in EscrowStates, Finalize(w, et, outcome)
    PROVE  /\ transfers' \in [Workflows -> Transfer]
           /\ pendingSettlements' \in [Workflows -> Settlement]
           /\ LedgerType'
<1> DEFINE net == NetAmount(et)
           who == Beneficiary(et, outcome)
<1>1. net \in Nat
    BY NetIsNat
<1>2. et.afa \in Nat /\ et.token \in Tokens
    BY DEF Transfer
<1>3. [et EXCEPT !.state = outcome] \in Transfer
    BY DEF Transfer
<1>4. transfers' \in [Workflows -> Transfer]
    BY <1>3 DEF Finalize, TypeInv, EscrowType
<1>5. NoSettlement \in Settlement
    BY DEF NoSettlement, Settlement
<1>6. pendingSettlements' \in [Workflows -> Settlement]
    BY <1>5 DEF Finalize, TypeInv, RoundType
<1>7. totalHeld' \in [Tokens -> Int]
    BY <1>2 DEF Finalize, SubHeld, TypeInv, LedgerType
<1>8. /\ totalReleased' \in [Tokens -> Nat]
      /\ totalRefunded' \in [Tokens -> Nat]
    BY <1>1, <1>2 DEF Finalize, RecordPaid, TypeInv, LedgerType
<1>9. claimable' \in [ClaimKeys -> [Addr -> Nat]]
    <2>1. claimable' = [claimable EXCEPT ![IntKey(w)][who] = @ + net]
        BY DEF Finalize
    <2>2. claimable \in [ClaimKeys -> [Addr -> Nat]]
        BY DEF TypeInv, LedgerType
    <2>3. claimable[IntKey(w)] \in [Addr -> Nat]
        BY <2>2, Keys
    <2> DEFINE account == [claimable[IntKey(w)] EXCEPT ![who] = @ + net]
    <2>4. account \in [Addr -> Nat]
        BY <1>1, <2>3, CreditKeepsNat
    <2>5. claimable' = [claimable EXCEPT ![IntKey(w)] = account]
        BY <2>1
    <2> HIDE DEF account, net, who
    <2> QED
        BY <2>2, <2>4, <2>5
<1>10. totalFees' \in [Tokens -> Nat]
    BY DEF Finalize, TypeInv, LedgerType
<1> QED
    BY <1>4, <1>6, <1>7, <1>8, <1>9, <1>10 DEF LedgerType

LEMMA PostBondTyped ==
    ASSUME TypeInv, NEW w \in Workflows, NEW who \in Addr, NEW amount \in Nat,
           PostBond(w, who, amount)
    PROVE  LedgerType' /\ BondType'
<1> DEFINE fee == ComputeFee(amount, ctx.appealBondFeeBps)
           token == transfers[w].token
<1>1. ctx.appealBondFeeBps \in Bps
    BY DEF TypeInv, ClockType, Context
<1>2. fee \in Nat /\ amount - fee \in Nat
    BY <1>1, FeeIsAPart
<1>3. token \in Tokens
    BY DEF TypeInv, EscrowType, Transfer
<1>4. /\ bondBalances' = [bondBalances EXCEPT ![w][who] = @ + (amount - fee)]
      /\ bondFees' = [bondFees EXCEPT ![token] = @ + fee]
      /\ totalBondsPosted' = [totalBondsPosted EXCEPT ![token] = @ + amount]
      /\ totalHeld' = [totalHeld EXCEPT ![token] = @ + amount]
      /\ UNCHANGED <<totalFees, totalReleased, totalRefunded, claimable>>
    BY DEF PostBond
<1>5. BondType /\ LedgerType
    BY DEF TypeInv
<1> HIDE DEF fee, token
<1>6. BondType'
    BY <1>2, <1>3, <1>4, <1>5 DEF BondType
<1>7. LedgerType'
    BY <1>3, <1>4, <1>5 DEF LedgerType
<1> QED
    BY <1>6, <1>7

LEMMA CreditTyped ==
    ASSUME NEW reserves \in Reserves, NEW amount \in Nat, NEW bounty \in Nat
    PROVE  Credit(reserves, amount, bounty) \in Reserves
<1> DEFINE split == SlashSplit(amount, bounty)
<1>1. split \in [insurance : Int, protocol : Int, retained : Nat]
    BY SplitIsExact
<1>2. Credit(reserves, amount, bounty) =
          [ insurance |-> reserves.insurance + split.insurance,
            protocol  |-> reserves.protocol + split.protocol,
            retained  |-> reserves.retained + split.retained ]
    BY DEF Credit
<1> HIDE DEF split
<1> QED
    BY <1>1, <1>2 DEF Reserves

LEMMA SlashableBounds ==
    ASSUME TypeInv, NEW r \in Addr, NEW amount \in Nat
    PROVE  /\ Slashable(r, amount) \in Nat
           /\ Slashable(r, amount) <= stakes[r]
BY DEF TypeInv, StakeType, Slashable, Least

LEMMA TakeStakeTyped ==
    ASSUME TypeInv, NEW r \in Addr, NEW amount \in Nat, TakeStake(r, amount)
    PROVE  /\ stakes' \in [Addr -> Nat]
           /\ staked' \subseteq Addr
           /\ slashTotal' \in [Addr -> Nat]
BY SlashableBounds DEF TakeStake, TypeInv, StakeType

LEMMA SlashStakeTyped ==
    ASSUME TypeInv, NEW r \in Addr, NEW amount \in Nat,
           NEW challenger \in OptAddr, NEW bps \in Bps,
           SlashStake(r, amount, challenger, bps)
    PROVE  StakeType'
<1> DEFINE taken  == Slashable(r, amount)
           bounty == ComputeFee(taken, bps)
<1>1. taken \in Nat
    BY SlashableBounds
<1>2. bounty \in Nat
    BY <1>1, FeeIsAPart
<1>3. TakeStake(r, amount)
    BY DEF SlashStake
<1>4. distribution' = Credit(distribution, taken, bounty)
    BY DEF SlashStake
<1>5. bounties' = IF challenger # NoAddr
                  THEN [bounties EXCEPT ![challenger] = @ + bounty]
                  ELSE bounties
    BY DEF SlashStake
<1>6. distribution \in Reserves /\ bounties \in [Addr -> Nat]
    BY DEF TypeInv, StakeType
<1> HIDE DEF taken, bounty
<1>7. distribution' \in Reserves
    BY <1>1, <1>2, <1>4, <1>6, CreditTyped
<1>8. bounties' \in [Addr -> Nat]
    BY <1>2, <1>5, <1>6 DEF OptAddr
<1> QED
    BY <1>3, <1>7, <1>8, TakeStakeTyped DEF StakeType

-----------------------------------------------------------------------------
(* Every action keeps the types. *)

LEMMA GroupsKept ==
    ASSUME TypeInv
    PROVE  /\ UNCHANGED <<ctx, clockVars>> => ClockType'
           /\ UNCHANGED escrowVars => EscrowType'
           /\ UNCHANGED roundVars => RoundType'
           /\ UNCHANGED ledgerVars => LedgerType'
           /\ UNCHANGED bondVars => BondType'
           /\ UNCHANGED stakeVars => StakeType'
           /\ UNCHANGED slashVars => SlashType'
           /\ UNCHANGED previousDecisions => DecidersNamed'
           /\ UNCHANGED fraudSlashes => SlashedNamed'
<1>1. UNCHANGED <<ctx, clockVars>> => ClockType'
    BY DEF TypeInv, ClockType, clockVars
<1>2. UNCHANGED escrowVars => EscrowType'
    BY DEF TypeInv, EscrowType, escrowVars
<1>3. UNCHANGED roundVars => RoundType'
    BY DEF TypeInv, RoundType, roundVars
<1>4. UNCHANGED ledgerVars => LedgerType'
    BY DEF TypeInv, LedgerType, ledgerVars
<1>5. UNCHANGED bondVars => BondType'
    BY DEF TypeInv, BondType, bondVars
<1>6. UNCHANGED stakeVars => StakeType'
    BY DEF TypeInv, StakeType, stakeVars
<1>7. UNCHANGED slashVars => SlashType'
    BY DEF TypeInv, SlashType, slashVars
<1>8. UNCHANGED previousDecisions => DecidersNamed'
    BY DEF TypeInv, DecidersNamed, Decided
<1>9. UNCHANGED fraudSlashes => SlashedNamed'
    BY DEF TypeInv, SlashedNamed
<1> QED
    BY <1>1, <1>2, <1>3, <1>4, <1>5, <1>6, <1>7, <1>8, <1>9

LEMMA InitTyped == Init => TypeInv
<1> SUFFICES ASSUME Init
             PROVE  TypeInv
    OBVIOUS
<1> USE DEF Init, WorldInit
<1>1. ClockType
    BY ContextsAssumption, TimeAssumption DEF ClockType
<1>2. (CHOOSE t \in Tokens : TRUE) \in Tokens
    BY TokensAssumption
<1>3. NoTransfer \in Transfer
    BY <1>2 DEF NoTransfer, Transfer, OptAddr, EscrowStates, PartyStatuses
<1>4. EscrowType
    BY <1>3 DEF EscrowType, OptAddr
<1>5. NoSettlement \in Settlement /\ NoDecision \in Decision
    BY DEF NoSettlement, Settlement, NoDecision, Decision, OptAddr
<1>6. RoundType
    BY <1>5 DEF RoundType, Levels, MaxDisputeLevel, OptAddr
<1>7. LedgerType
    BY DEF LedgerType
<1>8. BondType
    BY DEF BondType
<1>9. StakeType
    BY DEF StakeType, Reserves
<1>10. NoSlash \in Slash /\ NoCustody \in Custody
    BY DEF NoSlash, Slash, SlashStatuses, NoCustody, Custody, OptAddr
<1>11. SlashType
    BY <1>10 DEF SlashType
<1>12. DecidersNamed
    BY DEF DecidersNamed, Decided
<1>13. SlashedNamed
    BY DEF SlashedNamed, NoSlash
<1> QED
    BY <1>1, <1>4, <1>6, <1>7, <1>8, <1>9, <1>11, <1>12, <1>13 DEF TypeInv

LEMMA TickTyped == TypeInv /\ Tick => TypeInv'
<1> SUFFICES ASSUME TypeInv, Tick
             PROVE  TypeInv'
    OBVIOUS
<1>1. ClockType'
    BY DEF Tick, TypeInv, ClockType
<1> QED
    BY <1>1, GroupsKept DEF Tick, TypeInv, roundVars, slashVars

LEMMA SetPausedTyped == \A p \in BOOLEAN : TypeInv /\ SetPaused(p) => TypeInv'
<1> SUFFICES ASSUME NEW p \in BOOLEAN, TypeInv, SetPaused(p)
             PROVE  TypeInv'
    OBVIOUS
<1>1. ClockType'
    BY DEF SetPaused, TypeInv, ClockType
<1> QED
    BY <1>1, GroupsKept DEF SetPaused, TypeInv, roundVars, slashVars

LEMMA WithdrawFeesTyped == \A t \in Tokens : TypeInv /\ WithdrawFees(t) => TypeInv'
<1> SUFFICES ASSUME NEW t \in Tokens, TypeInv, WithdrawFees(t)
             PROVE  TypeInv'
    OBVIOUS
<1>1. LedgerType'
    BY DEF WithdrawFees, TypeInv, LedgerType
<1> QED
    BY <1>1, GroupsKept DEF WithdrawFees, TypeInv, roundVars, slashVars

LEMMA CreateEscrowTyped == \A o \in Order : TypeInv /\ CreateEscrow(o) => TypeInv'
<1> SUFFICES ASSUME NEW o \in Order, TypeInv, CreateEscrow(o)
             PROVE  TypeInv'
    OBVIOUS
<1> DEFINE fee      == ComputeFee(o.amount, ctx.feeBps)
           afa      == o.amount - fee
           resolver == IF o.custom # NoAddr THEN o.custom ELSE ctx.resolver
           et       == [ state |-> "pending", from |-> o.from, to |-> o.to,
                         token |-> o.token, afa |-> afa, fee |-> fee,
                         resolver |-> resolver,
                         autoRelease |-> DelayedTime(ctx.autoReleaseDelay),
                         autoCancel |-> DelayedTime(ctx.autoCancelDelay),
                         senderStatus |-> "none", recipientStatus |-> "none" ]
<1>1. PICK w \in Workflows :
          /\ transfers' = [transfers EXCEPT ![w] = et]
          /\ customResolver' = [customResolver EXCEPT ![w] = o.custom]
          /\ totalHeld' = [totalHeld EXCEPT ![o.token] = @ + afa]
          /\ totalFees' = [totalFees EXCEPT ![o.token] = @ + fee]
          /\ UNCHANGED <<ctx, clockVars, rotations, roundVars, totalReleased,
                         totalRefunded, claimable, bondVars, stakeVars, slashVars>>
    BY DEF CreateEscrow
<1>2. /\ o.from \in Addr /\ o.to \in Addr /\ o.token \in Tokens
      /\ o.amount \in Nat /\ o.custom \in OptAddr
    BY DEF Order
<1>3. /\ ctx.feeBps \in Bps /\ ctx.resolver \in OptAddr
      /\ ctx.autoReleaseDelay \in Nat /\ ctx.autoCancelDelay \in Nat
      /\ time \in Nat
    BY DEF TypeInv, ClockType, Context
<1>4. fee \in Nat /\ afa \in Nat
    BY <1>2, <1>3, FeeIsAPart
<1>5. et \in Transfer
    <2>1. /\ DelayedTime(ctx.autoReleaseDelay) \in Nat
          /\ DelayedTime(ctx.autoCancelDelay) \in Nat
        BY <1>3 DEF DelayedTime
    <2>2. resolver \in OptAddr
        BY <1>2, <1>3
    <2> HIDE DEF fee, afa, resolver
    <2> QED
        BY <1>2, <1>4, <2>1, <2>2
        DEF Transfer, EscrowStates, PartyStatuses, OptAddr
<1> HIDE DEF fee, afa, resolver, et
<1>6. EscrowType'
    BY <1>1, <1>2, <1>5 DEF TypeInv, EscrowType
<1>7. LedgerType'
    BY <1>1, <1>2, <1>4 DEF TypeInv, LedgerType
<1> QED
    BY <1>1, <1>6, <1>7, GroupsKept DEF TypeInv, roundVars, slashVars

LEMMA RaiseDisputeTyped ==
    \A w \in Workflows, a \in Addr : TypeInv /\ RaiseDispute(w, a) => TypeInv'
<1> SUFFICES ASSUME NEW w \in Workflows, NEW a \in Addr, TypeInv, RaiseDispute(w, a)
             PROVE  TypeInv'
    OBVIOUS
<1>1. transfers[w] \in Transfer
    BY DEF TypeInv, EscrowType
<1>2. Raised(transfers[w], a) \in Transfer
    BY <1>1 DEF Raised, Transfer, EscrowStates, PartyStatuses
<1>3. EscrowType'
    BY <1>2 DEF RaiseDispute, TypeInv, EscrowType
<1>4. RoundType'
    BY DEF RaiseDispute, TypeInv, RoundType, ClockType
<1> QED
    BY <1>3, <1>4, GroupsKept DEF RaiseDispute, TypeInv, slashVars

\* A settlement that leaves the rest of the world alone.
LEMMA SettledTyped ==
    ASSUME TypeInv, NEW w \in Workflows, NEW et \in Transfer,
           NEW outcome \in EscrowStates,
           Finalize(w, et, outcome), SettledFromPending
    PROVE  TypeInv'
<1>1. /\ transfers' \in [Workflows -> Transfer]
      /\ pendingSettlements' \in [Workflows -> Settlement]
      /\ LedgerType'
    BY FinalizeTyped
<1>2. EscrowType'
    BY <1>1 DEF SettledFromPending, TypeInv, EscrowType
<1>3. RoundType'
    BY <1>1 DEF SettledFromPending, TypeInv, RoundType
<1> QED
    BY <1>1, <1>2, <1>3, GroupsKept DEF SettledFromPending, TypeInv, slashVars

LEMMA ReleaseTyped ==
    \A w \in Workflows, a \in Addr : TypeInv /\ Release(w, a) => TypeInv'
<1> SUFFICES ASSUME NEW w \in Workflows, NEW a \in Addr, TypeInv, Release(w, a)
             PROVE  TypeInv'
    OBVIOUS
<1>1. transfers[w] \in Transfer
    BY DEF TypeInv, EscrowType
<1> QED
    BY <1>1, SettledTyped DEF Release, EscrowStates

LEMMA AgreeToCancelTyped ==
    ASSUME TypeInv, NEW w \in Workflows, NEW agreed \in Transfer,
           AgreeToCancel(w, agreed)
    PROVE  TypeInv'
<1>1. CASE Finalize(w, agreed, "refunded") /\ SettledFromPending
    BY <1>1, SettledTyped DEF EscrowStates
<1>2. CASE /\ transfers' = [transfers EXCEPT ![w] = agreed]
           /\ UNCHANGED <<ctx, clockVars, customResolver, rotations, roundVars,
                          ledgerVars, bondVars, stakeVars, slashVars>>
    <2>1. EscrowType'
        BY <1>2 DEF TypeInv, EscrowType
    <2> QED
        BY <1>2, <2>1, GroupsKept DEF TypeInv, roundVars, slashVars
<1> QED
    BY <1>1, <1>2 DEF AgreeToCancel

LEMMA CancelTyped ==
    \A w \in Workflows, a \in Addr :
        TypeInv /\ (SenderCancel(w, a) \/ RecipientCancel(w, a)) => TypeInv'
<1> SUFFICES ASSUME NEW w \in Workflows, NEW a \in Addr, TypeInv,
                    SenderCancel(w, a) \/ RecipientCancel(w, a)
             PROVE  TypeInv'
    OBVIOUS
<1>1. transfers[w] \in Transfer
    BY DEF TypeInv, EscrowType
<1>2. /\ [transfers[w] EXCEPT !.senderStatus = "agree-to-cancel"] \in Transfer
      /\ [transfers[w] EXCEPT !.recipientStatus = "agree-to-cancel"] \in Transfer
    BY <1>1 DEF Transfer, PartyStatuses
<1> QED
    BY <1>2, AgreeToCancelTyped DEF SenderCancel, RecipientCancel

LEMMA AutoCancelDisputedTyped ==
    \A w \in Workflows : TypeInv /\ AutoCancelDisputed(w) => TypeInv'
<1> SUFFICES ASSUME NEW w \in Workflows, TypeInv, AutoCancelDisputed(w)
             PROVE  TypeInv'
    OBVIOUS
<1> DEFINE et == transfers[w]
           r  == et.resolver
<1>1. et \in Transfer
    BY DEF TypeInv, EscrowType
<1>2. et.afa \in Nat /\ r \in OptAddr
    BY <1>1 DEF Transfer
<1>3. Finalize(w, et, "refunded")
    BY DEF AutoCancelDisputed
<1>4. /\ transfers' \in [Workflows -> Transfer]
      /\ pendingSettlements' \in [Workflows -> Settlement]
      /\ LedgerType'
    BY <1>1, <1>3, FinalizeTyped DEF EscrowStates
<1>5. EscrowType'
    BY <1>4 DEF AutoCancelDisputed, TypeInv, EscrowType
<1>6. RoundType'
    BY <1>4 DEF AutoCancelDisputed, TypeInv, RoundType
<1>7. distribution \in Reserves /\ bounties' \in [Addr -> Nat]
    BY DEF AutoCancelDisputed, TypeInv, StakeType
<1>8. ASSUME r # NoAddr
      PROVE  StakeType'
    <2>1. r \in Addr
        BY <1>2, <1>8 DEF OptAddr
    <2>2. /\ TakeStake(r, et.afa)
          /\ distribution' = Credit(Credit(distribution, Slashable(r, et.afa), 0), et.afa, 0)
        BY <1>8 DEF AutoCancelDisputed
    <2>3. Slashable(r, et.afa) \in Nat
        BY <1>2, <2>1, SlashableBounds
    <2>4. distribution' \in Reserves
        BY <1>2, <1>7, <2>2, <2>3, CreditTyped
    <2> QED
        BY <1>2, <1>7, <2>1, <2>2, <2>4, TakeStakeTyped DEF StakeType
<1>9. ASSUME r = NoAddr
      PROVE  StakeType'
    <2>1. /\ distribution' = Credit(distribution, et.afa, 0)
          /\ UNCHANGED <<stakes, staked, slashTotal>>
        BY <1>9 DEF AutoCancelDisputed
    <2>2. distribution' \in Reserves
        BY <1>2, <1>7, <2>1, CreditTyped
    <2> QED
        BY <1>7, <2>1, <2>2 DEF TypeInv, StakeType
<1>10. StakeType'
    BY <1>8, <1>9
<1> QED
    BY <1>4, <1>5, <1>6, <1>10, GroupsKept DEF AutoCancelDisputed, TypeInv, slashVars

LEMMA SettlePendingTyped ==
    \A w \in Workflows : TypeInv /\ SettlePending(w) => TypeInv'
<1> SUFFICES ASSUME NEW w \in Workflows, TypeInv, SettlePending(w)
             PROVE  TypeInv'
    OBVIOUS
<1>1. transfers[w] \in Transfer
    BY DEF TypeInv, EscrowType
<1>2. OutcomeOf(pendingSettlements[w].isRelease) \in EscrowStates
    BY DEF OutcomeOf, EscrowStates
<1> QED
    BY <1>1, <1>2, SettledTyped DEF SettlePending

LEMMA AutomateTimedActionsTyped ==
    \A w \in Workflows : TypeInv /\ AutomateTimedActions(w) => TypeInv'
<1> SUFFICES ASSUME NEW w \in Workflows, TypeInv, AutomateTimedActions(w)
             PROVE  TypeInv'
    OBVIOUS
<1>1. transfers[w] \in Transfer
    BY DEF TypeInv, EscrowType
<1> QED
    BY <1>1, SettledTyped, SettlePendingTyped DEF AutomateTimedActions, EscrowStates

LEMMA WindowIsNat == TypeInv => DecisionWindow(ctx) \in Nat /\ ctx.appealWindow \in Nat
BY DEF TypeInv, ClockType, Context, DecisionWindow, Greatest

\* The automated slash of a reversal is taken from the resolver the round below
\* names, which is an address because that round was decided.
LEMMA HandleReversalTyped ==
    ASSUME TypeInv, NEW w \in Workflows, NEW isRelease \in BOOLEAN,
           HandleReversalSlashing(w, isRelease)
    PROVE  /\ fraudSlashes' \in [SlashIds -> Slash]
           /\ SlashedNamed'
           /\ StakeType'
<1> DEFINE round  == disputeLevels[w] - 1
           loser  == previousDecisions[w][round].resolver
           amount == ComputeFee(transfers[w].afa, ctx.reversalSlashBps)
           slash  == [ resolver |-> loser, amount |-> amount, reason |-> "reversal",
                       status |-> "executed", proposedAt |-> time, deadline |-> 0,
                       bondHeld |-> 0 ]
           id     == <<"reversal", w>>
           appealable == [slash EXCEPT !.status = "pending",
                                       !.deadline = time + ctx.appealWindow]
<1>1. id \in SlashIds
    BY DEF SlashIds
<1>2. fraudSlashes \in [SlashIds -> Slash]
    BY DEF TypeInv, SlashType
<1>3. CASE ~Reverses(w, isRelease) \/ UNCHANGED <<fraudSlashes, stakeVars>>
    <2>1. UNCHANGED <<fraudSlashes, stakeVars>>
        BY <1>3 DEF HandleReversalSlashing
    <2> QED
        BY <1>2, <2>1, GroupsKept
<1>4. CASE Reverses(w, isRelease) /\ ~UNCHANGED <<fraudSlashes, stakeVars>>
    <2>1. disputeLevels[w] \in Levels /\ disputeLevels[w] > 0
        BY <1>4 DEF Reverses, TypeInv, RoundType
    <2>2. round \in Levels
        BY <2>1 DEF Levels, MaxDisputeLevel
    <2>3. previousDecisions[w][round] # NoDecision
        BY <1>4 DEF Reverses
    <2>4. loser \in Addr
        BY <2>2, <2>3 DEF TypeInv, DecidersNamed, Decided
    <2>5. challengers[w][round] \in OptAddr
        BY <2>2 DEF TypeInv, RoundType
    <2>6. transfers[w].afa \in Nat
        BY DEF TypeInv, EscrowType, Transfer
    <2>7. ctx.reversalSlashBps \in Bps /\ ctx.bountyBps \in Bps /\ time \in Nat
        BY DEF TypeInv, ClockType, Context
    <2>8. amount \in Nat
        BY <2>6, <2>7, FeeIsAPart
    <2> HIDE DEF round, loser, amount
    <2>9. slash \in Slash /\ appealable \in Slash
        <3>1. slash \in Slash
            BY <2>4, <2>7, <2>8 DEF Slash, SlashStatuses, OptAddr
        <3>2. time + ctx.appealWindow \in Nat
            BY <2>7, WindowIsNat
        <3> HIDE DEF slash
        <3>3. appealable \in Slash
            BY <3>1, <3>2 DEF Slash, SlashStatuses
        <3> QED
            BY <3>1, <3>3
    <2>10. CASE evidenceUpdated[w]
        <3>1. fraudSlashes' = [fraudSlashes EXCEPT ![id] = appealable]
            BY <1>4, <2>10 DEF HandleReversalSlashing, round, loser, amount
        <3>2. UNCHANGED stakeVars
            BY <1>4, <2>10 DEF HandleReversalSlashing
        <3>3. SlashedNamed'
            BY <1>2, <2>4, <3>1 DEF TypeInv, SlashedNamed
        <3> QED
            BY <1>2, <2>9, <3>1, <3>2, <3>3, GroupsKept
    <2>11. CASE ~evidenceUpdated[w]
        <3>1. /\ fraudSlashes' = [fraudSlashes EXCEPT ![id] = slash]
              /\ SlashStake(loser, amount, challengers[w][round], ctx.bountyBps)
            BY <1>4, <2>11 DEF HandleReversalSlashing, round, loser, amount
        <3>2. StakeType'
            BY <2>4, <2>5, <2>7, <2>8, <3>1, SlashStakeTyped
        <3>3. SlashedNamed'
            BY <1>2, <2>4, <3>1 DEF TypeInv, SlashedNamed
        <3> QED
            BY <1>2, <2>9, <3>1, <3>2, <3>3
    <2> QED
        BY <2>10, <2>11
<1> QED
    BY <1>3, <1>4

LEMMA ExecuteResolutionTyped ==
    \A w \in Workflows, a \in Addr, b \in BOOLEAN :
        TypeInv /\ ExecuteResolution(w, a, b) => TypeInv'
<1> SUFFICES ASSUME NEW w \in Workflows, NEW a \in Addr, NEW b \in BOOLEAN,
                    TypeInv, ExecuteResolution(w, a, b)
             PROVE  TypeInv'
    OBVIOUS
<1>1. transfers[w] \in Transfer /\ OutcomeOf(b) \in EscrowStates
    BY DEF TypeInv, EscrowType, OutcomeOf, EscrowStates
<1>2. /\ fraudSlashes' \in [SlashIds -> Slash]
      /\ SlashedNamed'
      /\ StakeType'
    BY HandleReversalTyped DEF ExecuteResolution
<1>3. /\ transfers' \in [Workflows -> Transfer]
      /\ pendingSettlements' \in [Workflows -> Settlement]
      /\ LedgerType'
    <2>1. CASE Finalize(w, transfers[w], OutcomeOf(b))
        BY <1>1, <2>1, FinalizeTyped
    <2>2. CASE ~Finalize(w, transfers[w], OutcomeOf(b))
        <3> DEFINE deferred == [ exists |-> TRUE, isRelease |-> b,
                                 deadline |-> time + DecisionWindow(ctx) ]
        <3>1. /\ pendingSettlements' = [pendingSettlements EXCEPT ![w] = deferred]
              /\ UNCHANGED <<transfers, ledgerVars>>
            BY <2>2 DEF ExecuteResolution
        <3>2. deferred \in Settlement
            BY WindowIsNat DEF Settlement, TypeInv, ClockType
        <3> HIDE DEF deferred
        <3> QED
            BY <3>1, <3>2, GroupsKept DEF TypeInv, EscrowType, RoundType
    <2> QED
        BY <2>1, <2>2
<1>4. EscrowType'
    BY <1>3 DEF ExecuteResolution, TypeInv, EscrowType
<1> DEFINE decision == [resolver |-> a, isRelease |-> b]
<1>5. decision \in Decision
    BY DEF Decision, OptAddr
<1>6. previousDecisions' = [previousDecisions EXCEPT ![w][disputeLevels[w]] = decision]
    BY DEF ExecuteResolution
<1>7. decision.resolver \in Addr
    OBVIOUS
<1> HIDE DEF decision
<1>8. previousDecisions' \in [Workflows -> [Levels -> Decision]]
    BY <1>5, <1>6 DEF TypeInv, RoundType
<1>9. RoundType'
    BY <1>3, <1>8 DEF ExecuteResolution, TypeInv, RoundType
<1>10. DecidersNamed'
    BY <1>6, <1>7 DEF TypeInv, RoundType, DecidersNamed, Decided
<1>11. SlashType'
    BY <1>2 DEF ExecuteResolution, TypeInv, SlashType
<1> QED
    BY <1>2, <1>3, <1>4, <1>9, <1>10, <1>11, GroupsKept DEF ExecuteResolution, TypeInv

LEMMA MoveUpTyped ==
    ASSUME TypeInv, NEW w \in Workflows, NEW a \in Addr, NEW bond \in Nat,
           Appealable(w), MoveUp(w, a, bond),
           challengers' \in [Workflows -> [Levels -> OptAddr]]
    PROVE  TypeInv'
<1> DEFINE next == disputeLevels[w] + 1
<1>1. next \in Levels
    BY DEF Appealable, FinalRound, TypeInv, RoundType, Levels, MaxDisputeLevel
<1>2. ctx.levels[next] \in OptAddr
    BY <1>1 DEF TypeInv, ClockType, Context
<1>3. transfers' = [transfers EXCEPT ![w].resolver = ctx.levels[next]]
    BY DEF MoveUp
<1>4. [transfers[w] EXCEPT !.resolver = ctx.levels[next]] \in Transfer
    BY <1>2 DEF TypeInv, EscrowType, Transfer
<1>5. EscrowType'
    BY <1>3, <1>4 DEF MoveUp, TypeInv, EscrowType
<1>6. NoSettlement \in Settlement
    BY DEF NoSettlement, Settlement
<1>7. RoundType'
    BY <1>1, <1>6 DEF MoveUp, CancelPending, TypeInv, ClockType, RoundType
<1>8. LedgerType' /\ BondType'
    BY PostBondTyped DEF MoveUp
<1> QED
    BY <1>5, <1>7, <1>8, GroupsKept DEF MoveUp, TypeInv, slashVars

LEMMA EscalateDisputeTyped ==
    \A w \in Workflows, a \in Addr : TypeInv /\ EscalateDispute(w, a) => TypeInv'
<1> SUFFICES ASSUME NEW w \in Workflows, NEW a \in Addr, TypeInv, EscalateDispute(w, a)
             PROVE  TypeInv'
    OBVIOUS
<1>1. transfers[w].afa \in Nat /\ ctx.appealBondAmount \in Nat /\ ctx.appealBondBps \in Bps
    BY DEF TypeInv, ClockType, Context, EscrowType, Transfer
<1>2. AppealBond(transfers[w].afa, ctx) \in Nat
    BY <1>1, FeeIsAPart DEF AppealBond
<1>3. challengers' \in [Workflows -> [Levels -> OptAddr]]
    BY DEF EscalateDispute, TypeInv, RoundType
<1> QED
    BY <1>2, <1>3, MoveUpTyped DEF EscalateDispute

LEMMA ChallengeResolutionTyped ==
    \A w \in Workflows, a \in Addr : TypeInv /\ ChallengeResolution(w, a) => TypeInv'
<1> SUFFICES ASSUME NEW w \in Workflows, NEW a \in Addr, TypeInv, ChallengeResolution(w, a)
             PROVE  TypeInv'
    OBVIOUS
<1>1. /\ transfers[w].afa \in Nat /\ ctx.appealBondAmount \in Nat
      /\ ctx.challengeBondBps \in Bps
    BY DEF TypeInv, ClockType, Context, EscrowType, Transfer
<1>2. ChallengeBond(transfers[w].afa, ctx) \in Nat
    BY <1>1, FeeIsAPart DEF ChallengeBond
<1>3. challengers' \in [Workflows -> [Levels -> OptAddr]]
    BY DEF ChallengeResolution, TypeInv, RoundType, OptAddr
<1> QED
    BY <1>2, <1>3, MoveUpTyped DEF ChallengeResolution

LEMMA RotateTyped ==
    \A w \in Workflows, r \in OptAddr : TypeInv /\ RotateDisputeResolver(w, r) => TypeInv'
<1> SUFFICES ASSUME NEW w \in Workflows, NEW r \in OptAddr, TypeInv,
                    RotateDisputeResolver(w, r)
             PROVE  TypeInv'
    OBVIOUS
<1>1. [transfers[w] EXCEPT !.resolver = r] \in Transfer
    BY DEF TypeInv, EscrowType, Transfer, OptAddr
<1>2. EscrowType'
    BY <1>1 DEF RotateDisputeResolver, TypeInv, EscrowType
<1> QED
    BY <1>2, GroupsKept DEF RotateDisputeResolver, TypeInv, roundVars, slashVars

LEMMA UpdateEvidenceTyped == \A w \in Workflows : TypeInv /\ UpdateEvidence(w) => TypeInv'
<1> SUFFICES ASSUME NEW w \in Workflows, TypeInv, UpdateEvidence(w)
             PROVE  TypeInv'
    OBVIOUS
<1>1. SlashType'
    BY DEF UpdateEvidence, TypeInv, SlashType
<1> QED
    BY <1>1, GroupsKept DEF UpdateEvidence, TypeInv, roundVars

LEMMA StakeActionTyped == \A r \in Stakers : TypeInv /\ StakeAction(r) => TypeInv'
<1> SUFFICES ASSUME NEW r \in Stakers, TypeInv, StakeAction(r)
             PROVE  TypeInv'
    OBVIOUS
<1>1. r \in Addr
    BY SlashingAssumption
<1>2. PICK amount \in StakeAmounts : RegisterStake(r, amount) \/ WithdrawStake(r, amount)
    BY DEF StakeAction
<1>3. amount \in Nat
    BY SlashingAssumption
<1>4. CASE RegisterStake(r, amount)
    <2>1. StakeType'
        BY <1>1, <1>3, <1>4 DEF RegisterStake, TypeInv, StakeType
    <2> QED
        BY <1>4, <2>1, GroupsKept DEF RegisterStake, TypeInv, roundVars, slashVars
<1>5. CASE WithdrawStake(r, amount)
    <2>1. StakeType'
        BY <1>1, <1>3, <1>5 DEF WithdrawStake, TypeInv, StakeType
    <2> QED
        BY <1>5, <2>1, GroupsKept DEF WithdrawStake, TypeInv, roundVars, slashVars
<1> QED
    BY <1>2, <1>4, <1>5

LEMMA ProposeFraudSlashTyped ==
    \A w \in Workflows, r \in Stakers, n \in SlashAmounts :
        TypeInv /\ ProposeFraudSlash(w, r, n) => TypeInv'
<1> SUFFICES ASSUME NEW w \in Workflows, NEW r \in Stakers, NEW n \in SlashAmounts,
                    TypeInv, ProposeFraudSlash(w, r, n)
             PROVE  TypeInv'
    OBVIOUS
<1> DEFINE slash == [ resolver |-> r, amount |-> n, reason |-> "fraud",
                      status |-> "pending", proposedAt |-> time,
                      deadline |-> time + ctx.appealWindow, bondHeld |-> 0 ]
           id    == <<"fraud", w>>
<1>1. r \in Addr /\ n \in Nat /\ time \in Nat
    BY SlashingAssumption DEF TypeInv, ClockType
<1>2. slash \in Slash
    BY <1>1, WindowIsNat DEF Slash, SlashStatuses, OptAddr
<1>3. fraudSlashes' = [fraudSlashes EXCEPT ![id] = slash]
    BY DEF ProposeFraudSlash
<1>4. slash.resolver \in Addr
    BY <1>1
<1> HIDE DEF slash
<1>5. SlashType'
    BY <1>2, <1>3 DEF ProposeFraudSlash, TypeInv, SlashType
<1>6. SlashedNamed'
    BY <1>3, <1>4 DEF TypeInv, SlashType, SlashedNamed
<1> QED
    BY <1>5, <1>6, GroupsKept DEF ProposeFraudSlash, TypeInv, roundVars

LEMMA AppealSlashTyped ==
    \A s \in SlashIds, a \in Addr : TypeInv /\ AppealSlash(s, a) => TypeInv'
<1> SUFFICES ASSUME NEW s \in SlashIds, NEW a \in Addr, TypeInv, AppealSlash(s, a)
             PROVE  TypeInv'
    OBVIOUS
<1> DEFINE bond  == ctx.appealBondAmount
           slash == fraudSlashes[s]
           now   == [slash EXCEPT !.status = "appealed",
                                  !.bondHeld = IF bond > 0 THEN bond ELSE @]
           kept  == [held |-> TRUE, resolver |-> a, amount |-> bond]
<1>1. slash \in Slash /\ slash.status = "pending" /\ bond \in Nat
    BY DEF AppealSlash, TypeInv, SlashType, ClockType, Context
<1>2. now \in Slash
    BY <1>1 DEF Slash, SlashStatuses
<1>3. fraudSlashes' = [fraudSlashes EXCEPT ![s] = now]
    BY DEF AppealSlash
<1>4. now.resolver \in Addr
    BY <1>1 DEF TypeInv, SlashedNamed, Slash
<1>5. kept \in Custody
    BY <1>1 DEF Custody, OptAddr
<1>6. custody' = custody \/ custody' = [custody EXCEPT ![s] = kept]
    BY DEF AppealSlash
<1> HIDE DEF now, kept
<1>7. SlashType'
    BY <1>2, <1>3, <1>5, <1>6 DEF AppealSlash, TypeInv, SlashType
<1>8. SlashedNamed'
    BY <1>3, <1>4 DEF TypeInv, SlashType, SlashedNamed
<1> QED
    BY <1>7, <1>8, GroupsKept DEF AppealSlash, TypeInv, roundVars

LEMMA ResolveAppealTyped ==
    \A s \in SlashIds, upheld \in BOOLEAN : TypeInv /\ ResolveAppeal(s, upheld) => TypeInv'
<1> SUFFICES ASSUME NEW s \in SlashIds, NEW upheld \in BOOLEAN, TypeInv,
                    ResolveAppeal(s, upheld)
             PROVE  TypeInv'
    OBVIOUS
<1> DEFINE slash == fraudSlashes[s]
           bond  == slash.bondHeld
           who   == IF custody[s].held THEN custody[s].resolver ELSE slash.resolver
           key   == IntKey(s[2])
<1>1. slash \in Slash /\ slash.status = "appealed"
    BY DEF ResolveAppeal, TypeInv, SlashType
<1>2. bond \in Nat
    BY <1>1 DEF Slash
<1>3. Ruled(slash, upheld) \in Slash /\ Ruled(slash, upheld).resolver = slash.resolver
    BY <1>1 DEF Ruled, Slash, SlashStatuses
<1>4. slash.resolver \in Addr
    BY <1>1 DEF TypeInv, SlashedNamed
<1>5. NoCustody \in Custody
    BY DEF NoCustody, Custody, OptAddr
<1>6. fraudSlashes' = [fraudSlashes EXCEPT ![s] = Ruled(slash, upheld)]
    BY DEF ResolveAppeal
<1>7. key \in ClaimKeys
    <2>1. s[2] \in Workflows
        BY DEF SlashIds
    <2> QED
        BY <2>1, Keys
<1>8. /\ claimable' \in [ClaimKeys -> [Addr -> Nat]]
      /\ distribution' \in Reserves
      /\ forfeited' \in Nat
    <2>1. /\ claimable \in [ClaimKeys -> [Addr -> Nat]]
          /\ distribution \in Reserves
          /\ forfeited \in Nat
        BY DEF TypeInv, LedgerType, StakeType, SlashType
    <2>2. CASE upheld
        <3> DEFINE account == [claimable[key] EXCEPT ![who] = @ + bond]
        <3>1. account \in [Addr -> Nat]
            BY <1>2, <1>7, <2>1, CreditKeepsNat
        <3>2. /\ claimable' = [claimable EXCEPT ![key] = account]
              /\ UNCHANGED <<distribution, forfeited>>
            BY <2>2 DEF ResolveAppeal
        <3> HIDE DEF account, key
        <3> QED
            BY <2>1, <3>1, <3>2
    <2>3. CASE ~upheld
        <3>1. /\ distribution' = [distribution EXCEPT !.insurance = @ + bond]
              /\ forfeited' = forfeited + bond
              /\ UNCHANGED claimable
            BY <2>3 DEF ResolveAppeal
        <3> HIDE DEF bond
        <3> QED
            BY <1>2, <2>1, <3>1 DEF Reserves
    <2> QED
        BY <2>2, <2>3
<1>9. LedgerType'
    BY <1>8 DEF ResolveAppeal, TypeInv, LedgerType
<1>10. StakeType'
    BY <1>8 DEF ResolveAppeal, TypeInv, StakeType
<1>11. SlashType'
    BY <1>3, <1>5, <1>6, <1>8 DEF ResolveAppeal, TypeInv, SlashType
<1>12. SlashedNamed'
    BY <1>3, <1>4, <1>6 DEF TypeInv, SlashType, SlashedNamed
<1> QED
    BY <1>9, <1>10, <1>11, <1>12, GroupsKept DEF ResolveAppeal, TypeInv, roundVars

LEMMA ExecuteFraudSlashTyped ==
    \A s \in SlashIds : TypeInv /\ ExecuteFraudSlash(s) => TypeInv'
<1> SUFFICES ASSUME NEW s \in SlashIds, TypeInv, ExecuteFraudSlash(s)
             PROVE  TypeInv'
    OBVIOUS
<1> DEFINE slash == fraudSlashes[s]
           r     == slash.resolver
<1>1. slash \in Slash /\ slash.status = "pending"
    BY DEF ExecuteFraudSlash, Collectable, TypeInv, SlashType
<1>2. r \in Addr /\ slash.amount \in Nat
    BY <1>1 DEF TypeInv, SlashedNamed, Slash
<1>3. StakeType'
    <2>1. SlashStake(r, slash.amount, NoAddr, 0)
        BY DEF ExecuteFraudSlash
    <2>2. NoAddr \in OptAddr /\ 0 \in Bps
        BY DEF OptAddr, Bps, FeeDenominator
    <2> QED
        BY <1>2, <2>1, <2>2, SlashStakeTyped
<1>4. fraudSlashes' = [fraudSlashes EXCEPT ![s].status = "executed"]
    BY DEF ExecuteFraudSlash
<1>5. [slash EXCEPT !.status = "executed"] \in Slash
    BY <1>1 DEF Slash, SlashStatuses
<1>6. frozenUntil' \in [Addr -> Nat] /\ unavailable' \subseteq Addr
    BY <1>2, SlashingAssumption
    DEF ExecuteFraudSlash, Freeze, TypeInv, ClockType, SlashType
<1>7. SlashType'
    BY <1>4, <1>5, <1>6 DEF ExecuteFraudSlash, TypeInv, SlashType
<1>8. SlashedNamed'
    BY <1>1, <1>2, <1>4 DEF TypeInv, SlashType, SlashedNamed
<1> QED
    BY <1>3, <1>7, <1>8, GroupsKept DEF ExecuteFraudSlash, TypeInv, roundVars

-----------------------------------------------------------------------------

LEMMA NextTyped == TypeInv /\ [Next]_vars => TypeInv'
<1> SUFFICES ASSUME TypeInv, [Next]_vars
             PROVE  TypeInv'
    OBVIOUS
<1>1. CASE Tick
    BY <1>1, TickTyped
<1>2. CASE \E o \in Orders : CreateEscrow(o)
    BY <1>2, OrdersAssumption, CreateEscrowTyped
<1>3. ASSUME NEW w \in Workflows, NEW a \in Addr, PartyAction(w, a)
      PROVE  TypeInv'
    BY <1>3, RaiseDisputeTyped, ReleaseTyped, CancelTyped, EscalateDisputeTyped,
       ChallengeResolutionTyped DEF PartyAction
<1>4. ASSUME NEW w \in Workflows, NEW a \in Addr, ResolverAction(w, a)
      PROVE  TypeInv'
    BY <1>4, ExecuteResolutionTyped DEF ResolverAction
<1>5. CASE \E w \in Workflows : UpdateEvidence(w)
    BY <1>5, UpdateEvidenceTyped
<1>6. CASE \E r \in Stakers : StakeAction(r)
    BY <1>6, StakeActionTyped
<1>7. ASSUME NEW s \in SlashIds, SlashAction(s)
      PROVE  TypeInv'
    BY <1>7, AppealSlashTyped, ResolveAppealTyped, ExecuteFraudSlashTyped DEF SlashAction
<1>8. CASE GovernanceAction
    BY <1>8, ProtocolAssumption, RotateTyped, ProposeFraudSlashTyped, SetPausedTyped,
       WithdrawFeesTyped DEF GovernanceAction, OptAddr
<1>9. ASSUME NEW w \in Workflows, KeeperAction(w)
      PROVE  TypeInv'
    BY <1>9, AutomateTimedActionsTyped, AutoCancelDisputedTyped, SettlePendingTyped
    DEF KeeperAction, ExecutePendingSettlement
<1>10. CASE UNCHANGED vars
    BY <1>10, GroupsKept DEF TypeInv, vars, worldVars, roundVars, slashVars
<1> QED
    BY <1>1, <1>2, <1>3, <1>4, <1>5, <1>6, <1>7, <1>8, <1>9, <1>10
    DEF Next, UserAction

LEMMA TypeInvariant == Spec => []TypeInv
<1>1. Init => TypeInv
    BY InitTyped
<1>2. TypeInv /\ [Next]_vars => TypeInv'
    BY NextTyped
<1> QED
    BY <1>1, <1>2, PTL DEF Spec

\* Every variable of the contract model keeps its type in every reachable world:
\* no fee, bond, slash or settlement of the dispatcher ever leaves its range.
THEOREM TypeCorrect == Spec => []TypeOK
<1>1. TypeInv => TypeOK
    BY DEF TypeInv, TypeOK, ClockType, EscrowType, RoundType, LedgerType, BondType,
           StakeType, SlashType
<1> QED
    BY <1>1, TypeInvariant, PTL

=============================================================================
