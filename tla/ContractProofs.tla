---------------------------- MODULE ContractProofs ----------------------------
(***************************************************************************)
(* Theorems about the execution of blocks over the genesis contracts, for  *)
(* any keys, transactions, closings, gas limits and genesis state within   *)
(* ExecAssumption: generated blocks replay (GeneratedBlocksReplay), stakes *)
(* are backed (StakesStayBacked), no Dusk is made or lost                  *)
(* (ValueStaysConserved), and the list of provisioners kept from events    *)
(* agrees with the state (ProvisionersStayAgreed).                         *)
(*                                                                         *)
(* Two numbers describe a state: its wealth (all its Dusk, the deposit of  *)
(* the running transaction included) and its gap (what the stake contract  *)
(* holds beyond the funds of its stakes).  Every contract function has an  *)
(* effect on them, stated by a lemma; the effects of a call add up, a call *)
(* that fails is undone, and so each transaction, each closing and each    *)
(* block has an effect too.  The invariant of a block under construction   *)
(* (SessionOk) also says that replaying its transactions comes to the same *)
(* state, gas and fees.                                                    *)
(*                                                                         *)
(* For the list of provisioners, a key has a weight: its value and, unless *)
(* the value is zero, its eligibility.  A list tracks a map of stakes when *)
(* the weights are the same.  Every contract function is a frame (it       *)
(* leaves stakes and events alone), quiet (it changes no amount) or a      *)
(* shift: one stake changes, and the event it emits, applied to a list     *)
(* that tracks the stakes before, gives one that tracks them after.  A     *)
(* session keeps the list (Kept) when the events so far lead from the list *)
(* of the tip to its stakes, and previous_block_state leads from its       *)
(* stakes back to the tip's.                                               *)
(***************************************************************************)
EXTENDS BlockExecution, FiniteSetTheorems, TLAPS

-----------------------------------------------------------------------------
(* Induction *)

\* Over the numbers up to n, for a set of numbers.
LEMMA UpTo ==
  ASSUME NEW n \in Nat, NEW T, 0 \in T, \A k \in 0..(n - 1) : k \in T => k + 1 \in T
  PROVE  0..n \subseteq T
<1> DEFINE B == (0..n) \ T
<1> SUFFICES ASSUME B # {} PROVE FALSE
  OBVIOUS
<1>1. PICK x \in B : \A y \in B : ~(<<y, x>> \in OpToRel(<, Nat))
  <2>1. B \subseteq Nat
    OBVIOUS
  <2> HIDE DEF B
  <2> QED BY <2>1, NatLessThanWellFounded, WFMin
<1>2. \A y \in B : ~(y < x)
  <2> SUFFICES ASSUME NEW y \in B, y < x PROVE FALSE
    OBVIOUS
  <2> DEFINE p == <<y, x>>
  <2>1. p \in Nat \X Nat /\ p[1] < p[2]
    OBVIOUS
  <2>2. p \in OpToRel(<, Nat)
    <3> HIDE DEF p
    <3> QED BY <2>1 DEF OpToRel
  <2> QED BY <1>1, <2>2
<1>3. x # 0 /\ x - 1 \in 0..(n - 1) /\ x - 1 \notin B
  BY <1>2
<1> QED BY <1>3

\* Over the subsets of a finite set, from the smaller ones to the larger.
LEMMA Subsets ==
  ASSUME NEW S, IsFiniteSet(S), NEW T,
         \A s \in SUBSET S : (\A x \in s : s \ {x} \in T) => s \in T
  PROVE  SUBSET S \subseteq T
<1> DEFINE N == {n \in 0..Cardinality(S) : \A s \in SUBSET S : Cardinality(s) = n => s \in T}
<1>1. Cardinality(S) \in Nat
  BY FS_CardinalityType
<1>2. \A s \in SUBSET S : IsFiniteSet(s) /\ Cardinality(s) \in 0..Cardinality(S)
  BY <1>1, FS_Subset, FS_CardinalityType
<1>3. 0 \in N
  <2>1. ASSUME NEW s \in SUBSET S, Cardinality(s) = 0 PROVE s \in T
    <3>1. s = {}
      BY <1>2, <2>1, FS_EmptySet
    <3> QED BY <3>1
  <2> QED BY <1>1, <2>1
<1>4. ASSUME NEW k \in 0..(Cardinality(S) - 1), k \in N
      PROVE  k + 1 \in N
  <2>1. ASSUME NEW s \in SUBSET S, Cardinality(s) = k + 1 PROVE s \in T
    <3>1. ASSUME NEW x \in s PROVE s \ {x} \in T
      <4>1. IsFiniteSet(s)
        BY <1>2
      <4>2. Cardinality(s \ {x}) = Cardinality(s) - 1
        BY <4>1, FS_RemoveElement
      <4>3. Cardinality(s \ {x}) = k
        BY <1>1, <2>1, <4>2
      <4> QED BY <1>4, <4>3
    <3> QED BY <3>1
  <2> QED BY <1>1, <2>1
<1>5. 0..Cardinality(S) \subseteq N
  <2> HIDE DEF N
  <2> QED BY <1>1, <1>3, <1>4, UpTo
<1> QED BY <1>2, <1>5

-----------------------------------------------------------------------------
(* Sums *)

Pick(s) == CHOOSE x \in s : TRUE

\* The recursion that defines a sum.
SumStep(f, g, s) == IF s = {} THEN 0 ELSE f[Pick(s)] + g[s \ {Pick(s)}]

LEMMA PickIn == \A s : s # {} => Pick(s) \in s
BY DEF Pick

LEMMA SumFunctionExists ==
  ASSUME NEW S, IsFiniteSet(S), NEW f, \A x \in S : f[x] \in Nat
  PROVE  \E g \in [SUBSET S -> Nat] : \A s \in SUBSET S : g[s] = SumStep(f, g, s)
<1> DEFINE Small(n) == {s \in SUBSET S : Cardinality(s) <= n}
           N == {n \in 0..Cardinality(S) :
                   \E g \in [Small(n) -> Nat] : \A s \in Small(n) : g[s] = SumStep(f, g, s)}
<1>1. Cardinality(S) \in Nat
  BY FS_CardinalityType
<1>2. \A s \in SUBSET S : IsFiniteSet(s) /\ Cardinality(s) \in Nat /\ Cardinality(s) <= Cardinality(S)
  BY FS_Subset, FS_CardinalityType
<1>3. 0 \in N
  <2>1. \A s \in Small(0) : s = {}
    BY <1>2, FS_EmptySet
  <2>2. [s \in Small(0) |-> 0] \in [Small(0) -> Nat]
    OBVIOUS
  <2>3. \A s \in Small(0) : [r \in Small(0) |-> 0][s] = SumStep(f, [r \in Small(0) |-> 0], s)
    <3> HIDE DEF Small
    <3> QED BY <2>1 DEF SumStep
  <2>4. \E g \in [Small(0) -> Nat] : \A s \in Small(0) : g[s] = SumStep(f, g, s)
    <3> HIDE DEF Small
    <3> QED BY <2>2, <2>3
  <2>5. 0 \in 0..Cardinality(S)
    BY <1>1
  <2> HIDE DEF Small
  <2> QED BY <2>4, <2>5
<1>4. ASSUME NEW k \in 0..(Cardinality(S) - 1), k \in N
      PROVE  k + 1 \in N
  <2>1. PICK g \in [Small(k) -> Nat] : \A s \in Small(k) : g[s] = SumStep(f, g, s)
    BY <1>4
  <2> DEFINE h == [s \in Small(k + 1) |-> SumStep(f, g, s)]
  <2>2. ASSUME NEW s \in Small(k + 1), s # {}
        PROVE  s \ {Pick(s)} \in Small(k) /\ f[Pick(s)] \in Nat
    <3>1. Pick(s) \in s
      BY <2>2, PickIn
    <3>2. Cardinality(s \ {Pick(s)}) = Cardinality(s) - 1
      BY <1>2, <3>1, FS_RemoveElement
    <3>3. Cardinality(s) \in Nat /\ Cardinality(s) <= k + 1 /\ k \in Nat
      BY <1>1, <1>2, <2>2
    <3> QED BY <3>1, <3>2, <3>3
  <2>3. Small(k) \subseteq Small(k + 1)
    BY <1>1, <1>2
  <2> HIDE DEF Small
  <2>4. h \in [Small(k + 1) -> Nat]
    BY <2>1, <2>2 DEF SumStep
  <2>5. \A s \in Small(k) : h[s] = g[s]
    BY <2>1, <2>3
  <2>6. ASSUME NEW s \in Small(k + 1) PROVE h[s] = SumStep(f, h, s)
    BY <2>2, <2>5 DEF SumStep
  <2>7. k + 1 \in 0..Cardinality(S)
    BY <1>1
  <2> HIDE DEF h
  <2>8. PICK m \in 0..Cardinality(S) : m = k + 1
    BY <2>7
  <2>9. m \in N
    BY <2>4, <2>6, <2>8
  <2> QED BY <2>8, <2>9
<1>5. Cardinality(S) \in N
  <2>1. 0..Cardinality(S) \subseteq N
    <3> HIDE DEF N
    <3> QED BY <1>1, <1>3, <1>4, UpTo
  <2>2. Cardinality(S) \in 0..Cardinality(S)
    BY <1>1
  <2> HIDE DEF N
  <2> QED BY <2>1, <2>2
<1>6. Small(Cardinality(S)) = SUBSET S
  BY <1>2
<1> QED BY <1>5, <1>6

\* The function of SumFunctionOnSet, on all subsets.
Iter(f, S) == CHOOSE g : g = [s \in SUBSET S |-> SumStep(f, g, s)]

LEMMA IterFacts ==
  ASSUME NEW S, IsFiniteSet(S), NEW f, \A x \in S : f[x] \in Nat
  PROVE  /\ SumFunctionOnSet(f, S) = Iter(f, S)[S]
         /\ \A s \in SUBSET S : Iter(f, S)[s] = SumStep(f, Iter(f, S), s)
         /\ \A s \in SUBSET S : Iter(f, S)[s] \in Nat
<1> DEFINE Def(g) == [s \in SUBSET S |-> SumStep(f, g, s)]
<1>1. \E g : g = Def(g)
  <2>1. PICK g \in [SUBSET S -> Nat] : \A s \in SUBSET S : g[s] = SumStep(f, g, s)
    BY SumFunctionExists
  <2>2. g = Def(g)
    BY <2>1
  <2> QED BY <2>2
<1>2. Iter(f, S) = CHOOSE g : g = Def(g)
  BY DEF Iter
<1>3. Iter(f, S) = Def(Iter(f, S))
  <2> HIDE DEF Def
  <2> QED BY <1>1, <1>2
<1>4. \A s \in SUBSET S : Iter(f, S)[s] = SumStep(f, Iter(f, S), s)
  BY <1>3
<1>5. SUBSET S \subseteq {s \in SUBSET S : Iter(f, S)[s] \in Nat}
  <2> DEFINE T == {s \in SUBSET S : Iter(f, S)[s] \in Nat}
  <2>1. ASSUME NEW s \in SUBSET S, \A x \in s : s \ {x} \in T PROVE s \in T
    <3>1. CASE s = {}
      <4>1. Iter(f, S)[s] = 0
        BY <1>4, <3>1 DEF SumStep
      <4> QED BY <4>1
    <3>2. CASE s # {}
      <4>1. Pick(s) \in s /\ f[Pick(s)] \in Nat /\ Iter(f, S)[s \ {Pick(s)}] \in Nat
        BY <2>1, <3>2, PickIn
      <4>2. Iter(f, S)[s] = f[Pick(s)] + Iter(f, S)[s \ {Pick(s)}]
        BY <1>4, <3>2 DEF SumStep
      <4> QED BY <4>1, <4>2
    <3> QED BY <3>1, <3>2
  <2>2. SUBSET S \subseteq T
    <3> HIDE DEF T
    <3> QED BY <2>1, Subsets
  <2> QED BY <2>2
<1>6. SumFunctionOnSet(f, S) = Iter(f, S)[S]
  BY DEF SumFunctionOnSet, FoldFunctionOnSet, MapThenFoldSet, Iter, SumStep, Pick
<1> QED BY <1>4, <1>5, <1>6

LEMMA SumEmpty == \A f : SumFunctionOnSet(f, {}) = 0
<1> TAKE f
<1>1. IsFiniteSet({}) /\ {} \in SUBSET {} /\ \A x \in {} : f[x] \in Nat
  BY FS_EmptySet
<1> QED BY <1>1, IterFacts DEF SumStep

\* The sum over a subset is in the function of the whole set.
LEMMA IterSubset ==
  ASSUME NEW S, IsFiniteSet(S), NEW f, \A x \in S : f[x] \in Nat, NEW U \in SUBSET S
  PROVE  Iter(f, S)[U] = SumFunctionOnSet(f, U)
<1> DEFINE T == {s \in SUBSET U : Iter(f, S)[s] = Iter(f, U)[s]}
<1>1. IsFiniteSet(U) /\ \A x \in U : f[x] \in Nat
  BY FS_Subset
<1>2. /\ \A s \in SUBSET U : Iter(f, U)[s] = SumStep(f, Iter(f, U), s)
      /\ \A s \in SUBSET U : Iter(f, S)[s] = SumStep(f, Iter(f, S), s)
      /\ SumFunctionOnSet(f, U) = Iter(f, U)[U]
  BY <1>1, IterFacts
<1>3. ASSUME NEW s \in SUBSET U, \A x \in s : s \ {x} \in T PROVE s \in T
  <2>1. CASE s = {}
    BY <1>2, <2>1 DEF SumStep
  <2>2. CASE s # {}
    <3>1. Iter(f, S)[s \ {Pick(s)}] = Iter(f, U)[s \ {Pick(s)}]
      BY <1>3, <2>2, PickIn
    <3>2. /\ Iter(f, S)[s] = f[Pick(s)] + Iter(f, S)[s \ {Pick(s)}]
          /\ Iter(f, U)[s] = f[Pick(s)] + Iter(f, U)[s \ {Pick(s)}]
      BY <1>2, <2>2 DEF SumStep
    <3> QED BY <3>1, <3>2
  <2> QED BY <2>1, <2>2
<1>4. SUBSET U \subseteq T
  <2> HIDE DEF T
  <2> QED BY <1>1, <1>3, Subsets
<1> QED BY <1>2, <1>4

LEMMA SumNat ==
  ASSUME NEW S, IsFiniteSet(S), NEW f, \A x \in S : f[x] \in Nat
  PROVE  SumFunctionOnSet(f, S) \in Nat
BY IterFacts

\* Any element may be taken out first.
LEMMA SumRemove ==
  ASSUME NEW S, IsFiniteSet(S), NEW f, \A x \in S : f[x] \in Nat, NEW a \in S
  PROVE  SumFunctionOnSet(f, S) = f[a] + SumFunctionOnSet(f, S \ {a})
<1> DEFINE Sm(U) == SumFunctionOnSet(f, U)
           T == {s \in SUBSET S : \A x \in s : Sm(s) = f[x] + Sm(s \ {x})}
<1>1. ASSUME NEW s \in SUBSET S, s # {}
      PROVE  Sm(s) = f[Pick(s)] + Sm(s \ {Pick(s)})
  <2>1. IsFiniteSet(s) /\ \A x \in s : f[x] \in Nat
    BY FS_Subset
  <2>2. Sm(s) = Iter(f, s)[s] /\ Iter(f, s)[s] = SumStep(f, Iter(f, s), s)
    BY <2>1, IterFacts
  <2>3. Iter(f, s)[s \ {Pick(s)}] = Sm(s \ {Pick(s)})
    BY <2>1, IterSubset
  <2> QED BY <1>1, <2>2, <2>3 DEF SumStep
<1>2. \A s \in SUBSET S : Sm(s) \in Nat
  BY FS_Subset, SumNat
<1> HIDE DEF Sm
<1>3. ASSUME NEW s \in SUBSET S, \A x \in s : s \ {x} \in T PROVE s \in T
  <2> SUFFICES ASSUME NEW x \in s PROVE Sm(s) = f[x] + Sm(s \ {x})
    OBVIOUS
  <2>1. CASE x = Pick(s)
    BY <1>1, <2>1
  <2>2. CASE x # Pick(s)
    <3>1. PICK y \in s : y = Pick(s) /\ y # x
      BY <2>2, PickIn
    <3>2. Sm(s) = f[y] + Sm(s \ {y})
      BY <1>1, <3>1
    <3>3. Sm(s \ {y}) = f[x] + Sm((s \ {y}) \ {x})
      BY <1>3, <3>1
    <3>4. Sm(s \ {x}) = f[y] + Sm((s \ {x}) \ {y})
      BY <1>3, <3>1
    <3>5. (s \ {y}) \ {x} = (s \ {x}) \ {y}
      OBVIOUS
    <3>6. f[x] \in Nat /\ f[y] \in Nat /\ Sm((s \ {x}) \ {y}) \in Nat
      BY <1>2
    <3> QED BY <3>2, <3>3, <3>4, <3>5, <3>6
  <2> QED BY <2>1, <2>2
<1>4. SUBSET S \subseteq T
  <2> HIDE DEF T
  <2> QED BY <1>3, Subsets
<1> QED BY <1>4 DEF Sm

\* A sum depends on the values only.
LEMMA SumSame ==
  ASSUME NEW S, IsFiniteSet(S), NEW f, NEW g,
         \A x \in S : f[x] \in Nat /\ f[x] = g[x]
  PROVE  SumFunctionOnSet(f, S) = SumFunctionOnSet(g, S)
<1> DEFINE T == {s \in SUBSET S : SumFunctionOnSet(f, s) = SumFunctionOnSet(g, s)}
<1>1. ASSUME NEW s \in SUBSET S, \A x \in s : s \ {x} \in T PROVE s \in T
  <2>1. CASE s = {}
    BY <2>1, SumEmpty
  <2>2. CASE s # {}
    <3>1. PICK x \in s : TRUE
      BY <2>2
    <3>2. IsFiniteSet(s) /\ (\A y \in s : f[y] \in Nat) /\ (\A y \in s : g[y] \in Nat)
      BY FS_Subset
    <3>3. /\ SumFunctionOnSet(f, s) = f[x] + SumFunctionOnSet(f, s \ {x})
          /\ SumFunctionOnSet(g, s) = g[x] + SumFunctionOnSet(g, s \ {x})
      BY <3>2, SumRemove
    <3>4. SumFunctionOnSet(f, s \ {x}) = SumFunctionOnSet(g, s \ {x}) /\ f[x] = g[x]
      BY <1>1
    <3> QED BY <3>3, <3>4
  <2> QED BY <2>1, <2>2
<1>2. SUBSET S \subseteq T
  <2> HIDE DEF T
  <2> QED BY <1>1, Subsets
<1> QED BY <1>2

\* One value changes.
LEMMA SumUpdate ==
  ASSUME NEW S, IsFiniteSet(S), NEW f, NEW g, NEW a \in S,
         \A x \in S : f[x] \in Nat, g[a] \in Nat, \A x \in S \ {a} : g[x] = f[x]
  PROVE  SumFunctionOnSet(g, S) = SumFunctionOnSet(f, S) - f[a] + g[a]
<1>1. IsFiniteSet(S \ {a}) /\ \A x \in S : g[x] \in Nat
  BY FS_Subset
<1>2. /\ SumFunctionOnSet(f, S) = f[a] + SumFunctionOnSet(f, S \ {a})
      /\ SumFunctionOnSet(g, S) = g[a] + SumFunctionOnSet(g, S \ {a})
  BY <1>1, SumRemove
<1>3. SumFunctionOnSet(f, S \ {a}) = SumFunctionOnSet(g, S \ {a})
  BY <1>1, SumSame
<1>4. SumFunctionOnSet(f, S \ {a}) \in Nat /\ f[a] \in Nat
  BY <1>1, SumNat
<1> QED BY <1>2, <1>3, <1>4

\* A sum over two parts.
LEMMA SumSplit ==
  ASSUME NEW S, IsFiniteSet(S), NEW f, \A x \in S : f[x] \in Nat, NEW U \in SUBSET S
  PROVE  SumFunctionOnSet(f, S) = SumFunctionOnSet(f, U) + SumFunctionOnSet(f, S \ U)
<1> DEFINE Sm(s) == SumFunctionOnSet(f, s)
           T == {s \in SUBSET U : Sm(S) = Sm(s) + Sm(S \ s)}
<1>1. \A s \in SUBSET S : IsFiniteSet(s) /\ Sm(s) \in Nat
  BY FS_Subset, SumNat
<1>2. \A s \in SUBSET S : \A x \in s : Sm(s) = f[x] + Sm(s \ {x})
  <2> TAKE s \in SUBSET S
  <2> TAKE x \in s
  <2>1. IsFiniteSet(s) /\ \A y \in s : f[y] \in Nat
    BY <1>1
  <2> QED BY <2>1, SumRemove
<1>3. Sm({}) = 0
  BY SumEmpty
<1> HIDE DEF Sm
<1>4. ASSUME NEW s \in SUBSET U, \A x \in s : s \ {x} \in T PROVE s \in T
  <2>1. CASE s = {}
    <3>1. S \ s = S /\ Sm(S) \in Nat
      BY <1>1, <2>1
    <3> QED BY <1>3, <2>1, <3>1
  <2>2. CASE s # {}
    <3>1. PICK x \in s : TRUE
      BY <2>2
    <3>2. Sm(S) = Sm(s \ {x}) + Sm(S \ (s \ {x}))
      BY <1>4
    <3>3. Sm(s) = f[x] + Sm(s \ {x})
      BY <1>2
    <3>4. S \ (s \ {x}) \in SUBSET S /\ x \in S \ (s \ {x}) /\ (S \ (s \ {x})) \ {x} = S \ s
      OBVIOUS
    <3>5. Sm(S \ (s \ {x})) = f[x] + Sm(S \ s)
      BY <1>2, <3>4
    <3>6. f[x] \in Nat /\ Sm(s \ {x}) \in Nat /\ Sm(S \ s) \in Nat
      BY <1>1
    <3> QED BY <3>2, <3>3, <3>5, <3>6
  <2> QED BY <2>1, <2>2
<1>5. SUBSET U \subseteq T
  <2>1. IsFiniteSet(U)
    BY <1>1
  <2> HIDE DEF T
  <2> QED BY <1>4, <2>1, Subsets
<1> QED BY <1>5 DEF Sm

-----------------------------------------------------------------------------
(* What a state is worth *)

Balances(s) == [k \in Keys |-> s.acct[k].balance]
RewardOf(s) == [k \in Keys |-> IF Exists(s, k) THEN s.stakes[k].reward ELSE 0]
FundsOf(s) == [k \in Keys |-> IF Exists(s, k) THEN TotalFunds(s.stakes[k].amount) ELSE 0]
Values(s) == [p \in Unspent(s) |-> s.leaves[p].value]

Accounts(s) == SumFunctionOnSet(Balances(s), Keys)
Contracts(s) == SumFunctionOnSet(s.cbal, ContractIds)
Notes(s) == SumFunctionOnSet(Values(s), Unspent(s))
Rewards(s) == SumFunctionOnSet(RewardOf(s), Keys)

\* The deposit of the transaction that runs, while it is nobody's.
Held(s) == IF s.dep = "available" THEN s.tx.deposit ELSE 0

Wealth(s) == Worth(s) + Held(s)

\* What the stake contract holds beyond the funds of its stakes.
Gap(s) == s.cbal[Stake] - Funds(s)

LEMMA Finite ==
  ASSUME ExecAssumption
  PROVE  /\ IsFiniteSet(Keys) /\ IsFiniteSet(ContractIds)
         /\ \A s : IsState(s) => IsFiniteSet(Unspent(s))
<1>1. IsFiniteSet(Keys)
  BY DEF ExecAssumption
<1>2. IsFiniteSet(ContractIds)
  <2>1. /\ IsFiniteSet({}) /\ IsFiniteSet({} \cup {Stake})
        /\ IsFiniteSet({} \cup {Stake} \cup {TransferId})
        /\ IsFiniteSet({} \cup {Stake} \cup {TransferId} \cup {"alice"})
        /\ IsFiniteSet({} \cup {Stake} \cup {TransferId} \cup {"alice"} \cup {"bob"})
        /\ IsFiniteSet({} \cup {Stake} \cup {TransferId} \cup {"alice"} \cup {"bob"} \cup {"charlie"})
    BY FS_EmptySet, FS_AddElement
  <2>2. ContractIds = {} \cup {Stake} \cup {TransferId} \cup {"alice"} \cup {"bob"} \cup {"charlie"}
    BY DEF ContractIds
  <2> QED BY <2>1, <2>2
<1>3. ASSUME NEW s, IsState(s) PROVE IsFiniteSet(Unspent(s))
  <2>1. Len(s.leaves) \in Nat
    BY <1>3 DEF IsState
  <2>2. PICK n \in Int : n = Len(s.leaves) /\ 1 \in Int
    BY <2>1
  <2>3. IsFiniteSet(1..n)
    BY <2>2, FS_Interval
  <2>4. Unspent(s) \subseteq 1..n
    BY <2>2 DEF Unspent
  <2> QED BY <2>3, <2>4, FS_Subset
<1> QED BY <1>1, <1>2, <1>3

LEMMA SeqElement ==
  ASSUME NEW S, NEW q \in Seq(S), NEW n \in 1..Len(q)
  PROVE  q[n] \in S
OBVIOUS

LEMMA WorthParts ==
  ASSUME ExecAssumption, NEW s, IsState(s)
  PROVE  /\ Worth(s) = Accounts(s) + Contracts(s) + Notes(s) + Rewards(s)
         /\ Funds(s) = SumFunctionOnSet(FundsOf(s), Keys)
         /\ \A k \in Keys : Balances(s)[k] \in Nat /\ RewardOf(s)[k] \in Nat /\ FundsOf(s)[k] \in Nat
         /\ \A p \in Unspent(s) : Values(s)[p] \in Nat
         /\ Accounts(s) \in Nat /\ Contracts(s) \in Nat /\ Notes(s) \in Nat /\ Rewards(s) \in Nat
         /\ Funds(s) \in Nat /\ Held(s) \in Nat /\ s.cbal[Stake] \in Nat
<1>1. DOMAIN s.cbal = ContractIds /\ \A c \in ContractIds : s.cbal[c] \in Nat
  BY DEF IsState
<1>2. \A k \in Keys : Balances(s)[k] \in Nat
  BY DEF IsState, Balances
<1>3. ASSUME NEW k \in Keys PROVE RewardOf(s)[k] \in Nat /\ FundsOf(s)[k] \in Nat
  <2>1. Exists(s, k) => s.stakes[k] \in Entries
    BY DEF IsState, Exists
  <2> QED BY <2>1 DEF RewardOf, FundsOf, TotalFunds, Entries, Amounts
<1>4. \A p \in Unspent(s) : Values(s)[p] \in Nat
  <2> SUFFICES ASSUME NEW p \in Unspent(s) PROVE Values(s)[p] \in Nat
    OBVIOUS
  <2>1. p \in 1..Len(s.leaves) /\ s.leaves \in Seq([owner : Keys \cup {NoKey}, value : Nat])
    BY DEF IsState, Unspent
  <2>2. s.leaves[p] \in [owner : Keys \cup {NoKey}, value : Nat]
    BY <2>1, SeqElement
  <2> QED BY <2>2 DEF Values
<1>5. Worth(s) = Accounts(s) + Contracts(s) + Notes(s) + Rewards(s)
  BY <1>1 DEF Worth, Accounts, Contracts, Notes, Rewards, SumFunction, Balances, Values, RewardOf
<1>6. Funds(s) = SumFunctionOnSet(FundsOf(s), Keys)
  BY DEF Funds, FundsOf, SumFunction
<1>7. Accounts(s) \in Nat /\ Contracts(s) \in Nat /\ Notes(s) \in Nat /\ Rewards(s) \in Nat
      /\ SumFunctionOnSet(FundsOf(s), Keys) \in Nat
  BY <1>1, <1>2, <1>3, <1>4, Finite, SumNat DEF Accounts, Contracts, Notes, Rewards
<1>8. Held(s) \in Nat /\ s.cbal[Stake] \in Nat
  BY DEF IsState, Held, ContractIds
<1> QED BY <1>2, <1>3, <1>4, <1>5, <1>6, <1>7, <1>8

\* What a contract call does to a state, unless it fails: it makes dw Dusk and
\* leaves the stake contract with dg more than its stakes.
Effect(s, t, dw, dg) ==
  /\ IsState(t) /\ t.tx = s.tx /\ t.height = s.height
  /\ t.err = "none" => /\ s.err = "none"
                   /\ Wealth(t) = Wealth(s) + dw /\ Gap(t) = Gap(s) + dg

LEMMA Parts ==
  ASSUME ExecAssumption, NEW s, IsState(s)
  PROVE  Wealth(s) \in Nat /\ Gap(s) \in Int
BY WorthParts DEF Wealth, Gap

LEMMA AddAccountEffect ==
  ASSUME ExecAssumption, NEW s, IsState(s), NEW k \in Keys, NEW v \in Nat
  PROVE  /\ Effect(s, AddAccount(s, k, v), v, 0)
         /\ AddAccount(s, k, v).stakes = s.stakes /\ AddAccount(s, k, v).err = s.err
         /\ AddAccount(s, k, v).dep = s.dep
<1> DEFINE acct == [s.acct EXCEPT ![k] = [s.acct[k] EXCEPT !.balance = s.acct[k].balance + v]]
           t == AddAccount(s, k, v)
<1>1. t = [s EXCEPT !.acct = acct]
  BY DEF AddAccount
<1>2. acct \in [Keys -> [nonce : Nat, balance : Nat]]
  <2>1. s.acct \in [Keys -> [nonce : Nat, balance : Nat]]
    BY DEF IsState
  <2>2. s.acct[k] \in [nonce : Nat, balance : Nat] /\ s.acct[k].balance + v \in Nat
    BY <2>1
  <2>3. [s.acct[k] EXCEPT !.balance = s.acct[k].balance + v] \in [nonce : Nat, balance : Nat]
    BY <2>2
  <2> QED BY <2>1, <2>3
<1>3. /\ t.acct = acct /\ t.err = s.err /\ t.height = s.height /\ t.tx = s.tx /\ t.dep = s.dep
      /\ t.cbal = s.cbal /\ t.leaves = s.leaves /\ t.nulls = s.nulls /\ t.roots = s.roots
      /\ t.stakes = s.stakes /\ DOMAIN t = DOMAIN s
  BY <1>1 DEF IsState
<1> HIDE DEF t
<1>4. IsState(t)
  BY <1>2, <1>3 DEF IsState
<1>5. Accounts(t) = Accounts(s) + v
  <2>1. /\ Balances(t)[k] = Balances(s)[k] + v /\ Balances(s)[k] \in Nat
        /\ \A j \in Keys \ {k} : Balances(t)[j] = Balances(s)[j]
    BY <1>3, WorthParts DEF Balances, IsState
  <2>2. Accounts(t) = Accounts(s) - Balances(s)[k] + Balances(t)[k]
    <3>1. /\ IsFiniteSet(Keys) /\ Balances(t)[k] \in Nat
          /\ \A j \in Keys : Balances(s)[j] \in Nat
      BY <1>4, WorthParts, Finite
    <3> QED BY <2>1, <3>1, SumUpdate DEF Accounts
  <2> QED BY <2>1, <2>2, WorthParts
<1>6. Contracts(t) = Contracts(s) /\ Notes(t) = Notes(s) /\ Rewards(t) = Rewards(s)
      /\ Funds(t) = Funds(s) /\ Held(t) = Held(s)
  BY <1>3 DEF Contracts, Notes, Rewards, Funds, Held, Values, Unspent, RewardOf, Exists
<1>7. Wealth(t) = Wealth(s) + v /\ Gap(t) = Gap(s) + 0
  BY <1>3, <1>4, <1>5, <1>6, WorthParts DEF Wealth, Gap
<1> QED BY <1>3, <1>4, <1>7 DEF Effect, t

LEMMA Trans ==
  ASSUME ExecAssumption, NEW s, IsState(s), NEW t, NEW u,
         NEW a \in Int, NEW b \in Int, NEW c \in Int, NEW d \in Int,
         Effect(s, t, a, b), Effect(t, u, c, d)
  PROVE  Effect(s, u, a + c, b + d)
<1>1. PICK w \in Int, g \in Int : w = Wealth(s) /\ g = Gap(s)
  BY Parts
<1>2. (w + a) + c = w + (a + c) /\ (g + b) + d = g + (b + d)
  BY <1>1
<1> QED BY <1>1, <1>2 DEF Effect

\* A call that fails has any effect: it will be undone.
LEMMA Fails ==
  ASSUME NEW s, NEW t, NEW a, NEW b, NEW c, NEW d, Effect(s, t, a, b), t.err # "none"
  PROVE  Effect(s, t, c, d)
BY DEF Effect

LEMMA NoEffect ==
  ASSUME ExecAssumption, NEW s, IsState(s)
  PROVE  Effect(s, s, 0, 0)
<1>1. Wealth(s) + 0 = Wealth(s) /\ Gap(s) + 0 = Gap(s)
  BY Parts
<1> QED BY <1>1 DEF Effect

LEMMA PanicEffect ==
  ASSUME NEW s, IsState(s), NEW a, NEW b
  PROVE  Effect(s, Panic(s), a, b) /\ Panic(s).err = "panic" /\ Panic(s).stakes = s.stakes
<1> DEFINE t == Panic(s)
<1>1. /\ t.err = "panic" /\ t.height = s.height /\ t.tx = s.tx /\ t.dep = s.dep /\ t.acct = s.acct
      /\ t.cbal = s.cbal /\ t.leaves = s.leaves /\ t.nulls = s.nulls /\ t.roots = s.roots
      /\ t.stakes = s.stakes /\ DOMAIN t = DOMAIN s
  BY DEF IsState, Panic
<1> HIDE DEF t
<1>2. IsState(t)
  BY <1>1 DEF IsState
<1> QED BY <1>1, <1>2 DEF Effect, t

LEMMA RequireEffect ==
  ASSUME ExecAssumption, NEW s, IsState(s), NEW cond
  PROVE  /\ Effect(s, Require(s, cond), 0, 0)
         /\ Require(s, cond).stakes = s.stakes
         /\ Require(s, cond).err = "none" => Require(s, cond) = s /\ (s.err = "none" /\ cond)
BY NoEffect, PanicEffect DEF Require

\* The balance of a contract becomes n.
LEMMA ContractEffect ==
  ASSUME ExecAssumption, NEW s, IsState(s), NEW c \in ContractIds, NEW n \in Nat, NEW t,
         t = [s EXCEPT !.cbal = [s.cbal EXCEPT ![c] = n]]
  PROVE  /\ Effect(s, t, n - s.cbal[c], IF c = Stake THEN n - s.cbal[c] ELSE 0)
         /\ t.stakes = s.stakes /\ t.err = s.err /\ t.dep = s.dep /\ t.cbal[c] = n
<1> DEFINE cbal == [s.cbal EXCEPT ![c] = n]
<1>1. s.cbal \in [ContractIds -> Nat] /\ cbal \in [ContractIds -> Nat]
  BY DEF IsState
<1>2. /\ t.cbal = cbal /\ t.err = s.err /\ t.height = s.height /\ t.tx = s.tx /\ t.dep = s.dep
      /\ t.acct = s.acct /\ t.leaves = s.leaves /\ t.nulls = s.nulls /\ t.roots = s.roots
      /\ t.stakes = s.stakes /\ DOMAIN t = DOMAIN s
  BY DEF IsState
<1>3. IsState(t)
  BY <1>1, <1>2 DEF IsState
<1>4. Contracts(t) = Contracts(s) - s.cbal[c] + n
  <2>1. t.cbal[c] = n /\ t.cbal[c] \in Nat /\ \A d \in ContractIds \ {c} : t.cbal[d] = s.cbal[d]
    BY <1>1, <1>2
  <2>2. IsFiniteSet(ContractIds) /\ \A d \in ContractIds : s.cbal[d] \in Nat
    BY <1>1, Finite
  <2>3. Contracts(t) = Contracts(s) - s.cbal[c] + t.cbal[c]
    <3>1. PICK f, g : f = s.cbal /\ g = t.cbal
      OBVIOUS
    <3>2. /\ IsFiniteSet(ContractIds) /\ \A d \in ContractIds : f[d] \in Nat
      BY <2>2, <3>1
    <3>3. g[c] \in Nat /\ \A d \in ContractIds \ {c} : g[d] = f[d]
      BY <2>1, <3>1
    <3>4. SumFunctionOnSet(g, ContractIds) = SumFunctionOnSet(f, ContractIds) - f[c] + g[c]
      BY <3>2, <3>3, SumUpdate
    <3> QED BY <3>1, <3>4 DEF Contracts
  <2> QED BY <2>1, <2>3
<1>5. Accounts(t) = Accounts(s) /\ Notes(t) = Notes(s) /\ Rewards(t) = Rewards(s)
      /\ Funds(t) = Funds(s) /\ Held(t) = Held(s)
  BY <1>2 DEF Accounts, Notes, Rewards, Funds, Held, Values, Unspent, RewardOf, Exists, Balances
<1>6. s.cbal[c] \in Nat /\ t.cbal[c] = n /\ (c # Stake => t.cbal[Stake] = s.cbal[Stake])
  BY <1>1, <1>2 DEF ContractIds
<1>7. Wealth(t) = Wealth(s) + (n - s.cbal[c])
  BY <1>3, <1>4, <1>5, <1>6, WorthParts DEF Wealth
<1>8. Gap(t) = Gap(s) + (IF c = Stake THEN n - s.cbal[c] ELSE 0)
  BY <1>3, <1>5, <1>6, WorthParts DEF Gap
<1> QED BY <1>2, <1>3, <1>6, <1>7, <1>8 DEF Effect

LEMMA AddContractEffect ==
  ASSUME ExecAssumption, NEW s, IsState(s), NEW c \in ContractIds, NEW v \in Nat
  PROVE  /\ Effect(s, AddContract(s, c, v), v, IF c = Stake THEN v ELSE 0)
         /\ AddContract(s, c, v).stakes = s.stakes /\ AddContract(s, c, v).err = s.err
         /\ AddContract(s, c, v).dep = s.dep
<1>1. PICK b \in Nat : b = s.cbal[c]
  BY DEF IsState
<1>2. AddContract(s, c, v) = [s EXCEPT !.cbal = [s.cbal EXCEPT ![c] = b + v]]
  BY <1>1 DEF AddContract
<1>3. b + v \in Nat /\ (b + v) - b = v
  BY <1>1
<1> QED BY <1>1, <1>2, <1>3, ContractEffect

LEMMA SubContractEffect ==
  ASSUME ExecAssumption, NEW s, IsState(s), NEW c \in ContractIds, NEW v \in Nat, s.cbal[c] >= v
  PROVE  /\ Effect(s, SubContract(s, c, v), -v, IF c = Stake THEN -v ELSE 0)
         /\ SubContract(s, c, v).stakes = s.stakes /\ SubContract(s, c, v).err = s.err
         /\ SubContract(s, c, v).dep = s.dep
<1>1. PICK b \in Nat : b = s.cbal[c]
  BY DEF IsState
<1>2. ~(s.cbal[c] < v) /\ b - v \in Nat /\ (b - v) - b = -v
  BY <1>1
<1>3. SubContract(s, c, v) = [s EXCEPT !.cbal = [s.cbal EXCEPT ![c] = b - v]]
  BY <1>1, <1>2 DEF SubContract
<1> QED BY <1>1, <1>2, <1>3, ContractEffect

\* The deposit becomes somebody's.
LEMMA TakenEffect ==
  ASSUME ExecAssumption, NEW s, IsState(s), NEW t, t = [s EXCEPT !.dep = "taken"]
  PROVE  Effect(s, t, -Held(s), 0) /\ t.stakes = s.stakes /\ t.err = s.err
<1>1. /\ t.dep = "taken" /\ t.err = s.err /\ t.height = s.height /\ t.tx = s.tx
      /\ t.acct = s.acct /\ t.leaves = s.leaves /\ t.nulls = s.nulls /\ t.roots = s.roots
      /\ t.stakes = s.stakes /\ t.cbal = s.cbal /\ DOMAIN t = DOMAIN s
  BY DEF IsState
<1>2. IsState(t)
  BY <1>1 DEF IsState
<1>3. /\ Accounts(t) = Accounts(s) /\ Notes(t) = Notes(s) /\ Rewards(t) = Rewards(s)
      /\ Funds(t) = Funds(s) /\ Contracts(t) = Contracts(s) /\ Held(t) = 0
  BY <1>1 DEF Accounts, Notes, Rewards, Funds, Held, Values, Unspent, RewardOf, Exists, Balances, Contracts
<1>4. Wealth(t) = Wealth(s) + (-Held(s)) /\ Gap(t) = Gap(s) + 0
  BY <1>1, <1>2, <1>3, WorthParts DEF Wealth, Gap
<1> QED BY <1>1, <1>2, <1>4 DEF Effect

LEMMA PushNoteEffect ==
  ASSUME ExecAssumption, NEW s, IsState(s), NEW o \in Keys \cup {NoKey}, NEW v \in Nat,
         NEW clear \in BOOLEAN
  PROVE  /\ Effect(s, PushNote(s, o, v, clear), v, 0)
         /\ PushNote(s, o, v, clear).stakes = s.stakes /\ PushNote(s, o, v, clear).err = s.err
         /\ PushNote(s, o, v, clear).dep = s.dep
<1>1. CASE clear /\ v = 0
  <2>1. PushNote(s, o, v, clear) = s
    BY <1>1 DEF PushNote
  <2> QED BY <1>1, <2>1, NoEffect
<1>2. CASE ~(clear /\ v = 0)
  <2> DEFINE note == [owner |-> o, value |-> v]
             t == PushNote(s, o, v, clear)
             R == [owner : Keys \cup {NoKey}, value : Nat]
  <2>1. t = [s EXCEPT !.leaves = Append(s.leaves, note)]
    BY <1>2 DEF PushNote
  <2>2. PICK n \in Nat : n = Len(s.leaves)
    BY DEF IsState
  <2>3. s.leaves \in Seq(R) /\ note \in R
    BY DEF IsState
  <2> HIDE DEF note, R
  <2>4. /\ Append(s.leaves, note) \in Seq(R) /\ Len(Append(s.leaves, note)) = n + 1
        /\ Append(s.leaves, note)[n + 1] = note
        /\ \A p \in 1..n : Append(s.leaves, note)[p] = s.leaves[p]
    BY <2>2, <2>3
  <2>5. /\ t.leaves = Append(s.leaves, note) /\ t.dep = s.dep /\ t.err = s.err
        /\ t.height = s.height /\ t.tx = s.tx /\ t.acct = s.acct /\ t.nulls = s.nulls
        /\ t.roots = s.roots /\ t.stakes = s.stakes /\ t.cbal = s.cbal /\ DOMAIN t = DOMAIN s
    BY <2>1 DEF IsState
  <2> HIDE DEF t
  <2>6. IsState(t)
    <3>1. s.nulls \subseteq 1..(n + 1)
      BY <2>2 DEF IsState
    <3>2. s.roots \in Seq(Nat) /\ \A j \in DOMAIN s.roots : s.roots[j] <= n + 1
      BY <2>2 DEF IsState
    <3> QED BY <2>4, <2>5, <3>1, <3>2 DEF IsState, R
  <2>7. Notes(t) = Notes(s) + v
    <3>1. n + 1 \notin Unspent(s) /\ Unspent(t) = Unspent(s) \cup {n + 1}
      BY <2>2, <2>4, <2>5 DEF Unspent, IsState
    <3>2. Values(t)[n + 1] = v /\ \A p \in Unspent(s) : Values(t)[p] = Values(s)[p]
      <4>1. \A p \in Unspent(s) : p \in 1..n
        BY <2>2 DEF Unspent
      <4> QED BY <2>4, <2>5, <3>1, <4>1 DEF Values, note
    <3>3. IsFiniteSet(Unspent(t)) /\ \A p \in Unspent(t) : Values(t)[p] \in Nat
      BY <2>6, Finite, WorthParts
    <3>4. Notes(t) = Values(t)[n + 1] + SumFunctionOnSet(Values(t), Unspent(t) \ {n + 1})
      BY <3>1, <3>3, SumRemove DEF Notes
    <3>5. Unspent(t) \ {n + 1} = Unspent(s)
      BY <3>1
    <3>6. SumFunctionOnSet(Values(t), Unspent(s)) = Notes(s)
      <4>1. IsFiniteSet(Unspent(s)) /\ \A p \in Unspent(s) : Values(s)[p] \in Nat
        BY Finite, WorthParts
      <4> QED BY <3>2, <4>1, SumSame DEF Notes
    <3>7. Notes(s) \in Nat
      BY WorthParts
    <3> QED BY <3>2, <3>4, <3>5, <3>6, <3>7
  <2>8. /\ Accounts(t) = Accounts(s) /\ Rewards(t) = Rewards(s) /\ Held(t) = Held(s)
        /\ Funds(t) = Funds(s) /\ Contracts(t) = Contracts(s)
    BY <2>5 DEF Accounts, Rewards, Funds, Held, RewardOf, Exists, Balances, Contracts
  <2>9. Wealth(t) = Wealth(s) + v /\ Gap(t) = Gap(s) + 0
    <3>1. Wealth(t) = Wealth(s) + v
      BY <2>6, <2>7, <2>8, WorthParts DEF Wealth
    <3>2. Gap(t) = Gap(s) + 0
      BY <2>5, <2>8, WorthParts DEF Gap
    <3> QED BY <3>1, <3>2
  <2> QED BY <2>5, <2>6, <2>9 DEF Effect, t
<1> QED BY <1>1, <1>2

-----------------------------------------------------------------------------
(* The transfer contract *)

IsWithdraw(w) == w.value \in Nat /\ w.to \in Keys /\ w.phoenix \in BOOLEAN

LEMMA MintWithdrawalEffect ==
  ASSUME ExecAssumption, NEW s, IsState(s), NEW w, IsWithdraw(w)
  PROVE  /\ Effect(s, MintWithdrawal(s, w), w.value, 0)
         /\ MintWithdrawal(s, w).stakes = s.stakes
         /\ MintWithdrawal(s, w).err = "none" => MintWithdrawal(s, w).dep = s.dep
<1>1. CASE ~TokenMatches(s.tx, w)
  <2>1. MintWithdrawal(s, w) = Panic(s)
    BY <1>1 DEF MintWithdrawal
  <2> QED BY <2>1, PanicEffect
<1>2. CASE TokenMatches(s.tx, w) /\ w.phoenix
  <2>1. MintWithdrawal(s, w) = PushNote(s, w.to, w.value, TRUE)
    BY <1>2 DEF MintWithdrawal
  <2>2. w.to \in Keys \cup {NoKey} /\ w.value \in Nat /\ TRUE \in BOOLEAN
    BY DEF IsWithdraw
  <2> QED BY <2>1, <2>2, PushNoteEffect
<1>3. CASE TokenMatches(s.tx, w) /\ ~w.phoenix
  <2>1. MintWithdrawal(s, w) = AddAccount(s, w.to, w.value)
    BY <1>3 DEF MintWithdrawal
  <2>2. PICK k \in Keys, v \in Nat : k = w.to /\ v = w.value
    BY DEF IsWithdraw
  <2>3. /\ Effect(s, AddAccount(s, k, v), v, 0)
        /\ AddAccount(s, k, v).stakes = s.stakes /\ AddAccount(s, k, v).dep = s.dep
    BY AddAccountEffect
  <2>4. MintWithdrawal(s, w) = AddAccount(s, k, v)
    BY <2>1, <2>2
  <2> QED BY <2>2, <2>3, <2>4
<1> QED BY <1>1, <1>2, <1>3

\* A call that begins with a check: it fails there, or goes on from s.
LEMMA Checked ==
  ASSUME ExecAssumption, NEW s, IsState(s), NEW r, r \in {s, Panic(s)}, NEW t, NEW u, NEW a, NEW b,
         t = (IF r.err = "none" THEN u ELSE r),
         r.err = "none" => Effect(s, u, a, b) /\ u.stakes = s.stakes
  PROVE  /\ Effect(s, t, a, b) /\ t.stakes = s.stakes
         /\ t.err = "none" => t = u /\ r.err = "none"
<1>1. CASE r.err = "none"
  BY <1>1
<1>2. CASE r.err # "none"
  <2>1. t = r /\ t.err # "none"
    BY <1>2
  <2>2. CASE r = s
    <3>1. Effect(s, t, 0, 0)
      BY <2>1, <2>2, NoEffect
    <3> QED BY <2>1, <2>2, <3>1, Fails
  <2>3. CASE r = Panic(s)
    BY <2>1, <2>3, PanicEffect
  <2> QED BY <2>2, <2>3
<1> QED BY <1>1, <1>2

LEMMA WithdrawEffect ==
  ASSUME ExecAssumption, NEW s, IsState(s), NEW c \in ContractIds, NEW w, IsWithdraw(w)
  PROVE  /\ Effect(s, Withdraw(s, c, w), 0, IF c = Stake THEN -w.value ELSE 0)
         /\ Withdraw(s, c, w).stakes = s.stakes
<1> DEFINE cond == w.contract = c /\ s.cbal[c] >= w.value
           r == Require(s, cond)
           u == MintWithdrawal(SubContract(r, c, w.value), w)
           g == IF c = Stake THEN -w.value ELSE 0
<1>1. Withdraw(s, c, w) = IF r.err = "none" THEN u ELSE r
  BY DEF Withdraw, Then
<1>0. r \in {s, Panic(s)} /\ (r.err = "none" => r = s /\ cond)
  BY PanicEffect DEF Require
<1>2. ASSUME r.err = "none"
      PROVE  Effect(s, u, 0, g) /\ u.stakes = s.stakes
  <2>1. r = s /\ cond
    BY <1>0, <1>2
  <2> HIDE DEF r
  <2> DEFINE t == SubContract(s, c, w.value)
  <2>2. w.value \in Nat /\ -w.value \in Int /\ g \in Int /\ 0 \in Int
    BY DEF IsWithdraw
  <2>3. Effect(s, t, -w.value, g) /\ t.stakes = s.stakes
    BY <2>1, <2>2, SubContractEffect
  <2> HIDE DEF t
  <2>4. Effect(t, MintWithdrawal(t, w), w.value, 0) /\ MintWithdrawal(t, w).stakes = t.stakes
    BY <2>3, MintWithdrawalEffect DEF Effect
  <2>5. Effect(s, MintWithdrawal(t, w), -w.value + w.value, g + 0)
    <3> HIDE DEF g
    <3> QED BY <2>2, <2>3, <2>4, Trans
  <2>6. -w.value + w.value = 0 /\ g + 0 = g
    BY <2>2
  <2> QED BY <2>1, <2>3, <2>4, <2>5, <2>6 DEF t
<1> HIDE DEF r, u
<1> QED BY <1>0, <1>1, <1>2, Checked

LEMMA MintEffect ==
  ASSUME ExecAssumption, NEW s, IsState(s), NEW w, IsWithdraw(w)
  PROVE  /\ Effect(s, Mint(s, Stake, w), w.value, 0)
         /\ Mint(s, Stake, w).stakes = s.stakes
<1> DEFINE cond == Stake = Stake /\ w.contract = Stake
           r == Require(s, cond)
           u == MintWithdrawal(r, w)
<1>1. Mint(s, Stake, w) = IF r.err = "none" THEN u ELSE r
  BY DEF Mint, Then
<1>0. r \in {s, Panic(s)} /\ (r.err = "none" => r = s /\ cond)
  BY PanicEffect DEF Require
<1>2. ASSUME r.err = "none"
      PROVE  Effect(s, u, w.value, 0) /\ u.stakes = s.stakes
  <2>1. r = s /\ cond
    BY <1>0, <1>2
  <2> HIDE DEF r
  <2> QED BY <2>1, MintWithdrawalEffect
<1> HIDE DEF r, u
<1> QED BY <1>0, <1>1, <1>2, Checked

LEMMA ConvertEffect ==
  ASSUME ExecAssumption, NEW s, IsState(s), NEW w, IsWithdraw(w)
  PROVE  /\ Effect(s, Convert(s, TransferId, w), 0, 0)
         /\ Convert(s, TransferId, w).stakes = s.stakes
<1> DEFINE cond == /\ TransferId = TransferId /\ w.contract = TransferId
                   /\ s.dep = "available" /\ w.value = s.tx.deposit
           r == Require(s, cond)
           u == [MintWithdrawal(r, w) EXCEPT !.dep = "taken"]
<1>1. Convert(s, TransferId, w) = IF r.err = "none" THEN u ELSE r
  BY DEF Convert, Then
<1>0. r \in {s, Panic(s)} /\ (r.err = "none" => r = s /\ cond)
  BY PanicEffect DEF Require
<1>2. ASSUME r.err = "none"
      PROVE  Effect(s, u, 0, 0) /\ u.stakes = s.stakes
  <2>1. r = s /\ cond
    BY <1>0, <1>2
  <2> HIDE DEF r
  <2> DEFINE t == MintWithdrawal(s, w)
  <2>2. w.value \in Nat
    BY DEF IsWithdraw
  <2>3. Effect(s, t, w.value, 0) /\ t.stakes = s.stakes /\ (t.err = "none" => t.dep = s.dep)
    BY MintWithdrawalEffect
  <2>4. u = [t EXCEPT !.dep = "taken"]
    BY <2>1
  <2> HIDE DEF t, u
  <2>5. IsState(t) /\ t.tx = s.tx
    BY <2>3 DEF Effect
  <2>6. Effect(t, u, -Held(t), 0) /\ u.stakes = t.stakes /\ u.err = t.err
    BY <2>4, <2>5, TakenEffect
  <2>7. CASE t.err = "none"
    <3>1. Held(t) = w.value
      BY <2>1, <2>3, <2>5, <2>7 DEF Held
    <3>2. Effect(t, u, -w.value, 0)
      BY <2>6, <3>1
    <3>3. w.value \in Int /\ -w.value \in Int /\ 0 \in Int /\ w.value + -w.value = 0 /\ 0 + 0 = 0
      BY <2>2
    <3>4. Effect(s, u, w.value + -w.value, 0 + 0)
      BY <2>3, <3>2, <3>3, Trans
    <3> QED BY <2>3, <2>6, <3>3, <3>4
  <2>8. CASE t.err # "none"
    BY <2>3, <2>6, <2>8 DEF Effect
  <2> QED BY <2>7, <2>8
<1> HIDE DEF r, u
<1> QED BY <1>0, <1>1, <1>2, Checked

LEMMA DepositEffect ==
  ASSUME ExecAssumption, NEW s, IsState(s), NEW c \in ContractIds, NEW v \in Nat
  PROVE  /\ Effect(s, Deposit(s, c, v), 0, IF c = Stake THEN v ELSE 0)
         /\ Deposit(s, c, v).stakes = s.stakes
<1> DEFINE cond == s.dep = "available" /\ v = s.tx.deposit /\ c = s.tx.call.contract
           r == Require(s, cond)
           u == [AddContract(r, c, v) EXCEPT !.dep = "taken"]
           g == IF c = Stake THEN v ELSE 0
<1>1. Deposit(s, c, v) = IF r.err = "none" THEN u ELSE r
  BY DEF Deposit, Then
<1>0. r \in {s, Panic(s)} /\ (r.err = "none" => r = s /\ cond)
  BY PanicEffect DEF Require
<1>2. ASSUME r.err = "none"
      PROVE  Effect(s, u, 0, g) /\ u.stakes = s.stakes
  <2>1. r = s /\ cond
    BY <1>0, <1>2
  <2> HIDE DEF r
  <2> DEFINE t == AddContract(s, c, v)
  <2>2. Effect(s, t, v, g) /\ t.stakes = s.stakes /\ t.dep = s.dep
    BY AddContractEffect
  <2>3. u = [t EXCEPT !.dep = "taken"]
    BY <2>1
  <2> HIDE DEF t, u
  <2>4. IsState(t) /\ t.tx = s.tx
    BY <2>2 DEF Effect
  <2>5. Effect(t, u, -Held(t), 0) /\ u.stakes = t.stakes
    BY <2>3, <2>4, TakenEffect
  <2>6. Held(t) = v
    BY <2>1, <2>2, <2>4 DEF Held
  <2>7. v \in Int /\ -v \in Int /\ 0 \in Int /\ g \in Int /\ v + -v = 0 /\ g + 0 = g
    OBVIOUS
  <2>8. Effect(s, u, v + -v, g + 0)
    <3> HIDE DEF g
    <3> QED BY <2>2, <2>5, <2>6, <2>7, Trans
  <2> QED BY <2>2, <2>5, <2>7, <2>8
<1> HIDE DEF r, u
<1> QED BY <1>0, <1>1, <1>2, Checked

LEMMA ContractToContractEffect ==
  ASSUME ExecAssumption, NEW s, IsState(s), NEW c \in ContractIds, NEW to \in ContractIds,
         NEW v \in Nat
  PROVE  /\ Effect(s, ContractToContract(s, c, to, v), 0,
                   (IF c = Stake THEN -v ELSE 0) + (IF to = Stake THEN v ELSE 0))
         /\ ContractToContract(s, c, to, v).stakes = s.stakes
<1> DEFINE cond == c # TransferId /\ s.cbal[c] >= v
           r == Require(s, cond)
           u == AddContract(SubContract(r, c, v), to, v)
           g == IF c = Stake THEN -v ELSE 0
           h == IF to = Stake THEN v ELSE 0
<1>1. ContractToContract(s, c, to, v) = IF r.err = "none" THEN u ELSE r
  BY DEF ContractToContract, Then
<1>0. r \in {s, Panic(s)} /\ (r.err = "none" => r = s /\ cond)
  BY PanicEffect DEF Require
<1>2. ASSUME r.err = "none"
      PROVE  Effect(s, u, 0, g + h) /\ u.stakes = s.stakes
  <2>1. r = s /\ cond
    BY <1>0, <1>2
  <2> HIDE DEF r
  <2> DEFINE t == SubContract(s, c, v)
  <2>2. Effect(s, t, -v, g) /\ t.stakes = s.stakes
    BY <2>1, SubContractEffect
  <2> HIDE DEF t
  <2>3. Effect(t, AddContract(t, to, v), v, h) /\ AddContract(t, to, v).stakes = t.stakes
    BY <2>2, AddContractEffect DEF Effect
  <2>4. v \in Int /\ -v \in Int /\ g \in Int /\ h \in Int /\ -v + v = 0
    OBVIOUS
  <2>5. Effect(s, AddContract(t, to, v), -v + v, g + h)
    <3> HIDE DEF g, h
    <3> QED BY <2>2, <2>3, <2>4, Trans
  <2> QED BY <2>1, <2>2, <2>3, <2>4, <2>5 DEF t
<1> HIDE DEF r, u, g, h
<1>3. /\ Effect(s, ContractToContract(s, c, to, v), 0, g + h)
      /\ ContractToContract(s, c, to, v).stakes = s.stakes
  BY <1>0, <1>1, <1>2, Checked
<1> QED BY <1>3 DEF g, h

LEMMA MintToContractEffect ==
  ASSUME ExecAssumption, NEW s, IsState(s), NEW to \in ContractIds, NEW v \in Nat
  PROVE  /\ Effect(s, MintToContract(s, Stake, to, v), v, IF to = Stake THEN v ELSE 0)
         /\ MintToContract(s, Stake, to, v).stakes = s.stakes
<1> DEFINE cond == Stake = Stake
           r == Require(s, cond)
           u == AddContract(r, to, v)
           g == IF to = Stake THEN v ELSE 0
<1>1. MintToContract(s, Stake, to, v) = IF r.err = "none" THEN u ELSE r
  BY DEF MintToContract, Then
<1>0. r \in {s, Panic(s)} /\ (r.err = "none" => r = s /\ cond)
  BY PanicEffect DEF Require
<1>2. ASSUME r.err = "none"
      PROVE  Effect(s, u, v, g) /\ u.stakes = s.stakes
  <2>1. r = s /\ cond
    BY <1>0, <1>2
  <2> HIDE DEF r
  <2> QED BY <2>1, AddContractEffect
<1> HIDE DEF r, u
<1> QED BY <1>0, <1>1, <1>2, Checked

LEMMA ContractToAccountEffect ==
  ASSUME ExecAssumption, NEW s, IsState(s), NEW c \in ContractIds, c # Stake, NEW to \in Keys,
         NEW v \in Nat
  PROVE  Effect(s, ContractToAccount(s, c, to, v), 0, 0)
<1> DEFINE cond == c # TransferId /\ s.cbal[c] >= v
           r == Require(s, cond)
           u == AddAccount(SubContract(r, c, v), to, v)
<1>1. ContractToAccount(s, c, to, v) = IF r.err = "none" THEN u ELSE r
  BY DEF ContractToAccount, Then
<1>0. r \in {s, Panic(s)} /\ (r.err = "none" => r = s /\ cond)
  BY PanicEffect DEF Require
<1>2. ASSUME r.err = "none"
      PROVE  Effect(s, u, 0, 0) /\ u.stakes = s.stakes
  <2>1. r = s /\ cond
    BY <1>0, <1>2
  <2> HIDE DEF r
  <2> DEFINE t == SubContract(s, c, v)
  <2>2. Effect(s, t, -v, 0) /\ t.stakes = s.stakes
    BY <2>1, SubContractEffect
  <2> HIDE DEF t
  <2>3. Effect(t, AddAccount(t, to, v), v, 0) /\ AddAccount(t, to, v).stakes = t.stakes
    BY <2>2, AddAccountEffect DEF Effect
  <2>4. v \in Int /\ -v \in Int /\ 0 \in Int /\ -v + v = 0 /\ 0 + 0 = 0
    OBVIOUS
  <2>5. Effect(s, AddAccount(t, to, v), -v + v, 0 + 0)
    BY <2>2, <2>3, <2>4, Trans
  <2> QED BY <2>1, <2>2, <2>3, <2>4, <2>5 DEF t
<1> HIDE DEF r, u
<1> QED BY <1>0, <1>1, <1>2, Checked

-----------------------------------------------------------------------------
(* The stake contract *)

StakeReward(e) == IF e # NoStake THEN e.reward ELSE 0
StakeFunds(e) == IF e # NoStake THEN TotalFunds(e.amount) ELSE 0

LEMMA EntryTypes ==
  \A e \in {NoStake} \cup Entries : StakeReward(e) \in Nat /\ StakeFunds(e) \in Nat
BY DEF StakeReward, StakeFunds, Entries, Amounts, TotalFunds

LEMMA NoStakeEntry == NoStake \notin Entries /\ StakeReward(NoStake) = 0 /\ StakeFunds(NoStake) = 0
<1>1. NoStake \notin Entries
  <2>1. DOMAIN NoStake = {"owner"} /\ \A e \in Entries : "amount" \in DOMAIN e
    BY DEF NoStake, Entries
  <2> QED BY <2>1
<1> QED BY <1>1 DEF StakeReward, StakeFunds

\* The entry of a key becomes e.
LEMMA StakeEffect ==
  ASSUME ExecAssumption, NEW s, IsState(s), NEW k \in Keys, NEW e \in {NoStake} \cup Entries, NEW t,
         t = [s EXCEPT !.stakes = [s.stakes EXCEPT ![k] = e]]
  PROVE  /\ Effect(s, t, StakeReward(e) - StakeReward(s.stakes[k]),
                         StakeFunds(s.stakes[k]) - StakeFunds(e))
         /\ t.stakes[k] = e /\ t.err = s.err /\ t.dep = s.dep
<1>1. s.stakes \in [Keys -> {NoStake} \cup Entries]
  BY DEF IsState
<1>2. /\ t.stakes = [s.stakes EXCEPT ![k] = e] /\ t.err = s.err /\ t.height = s.height /\ t.tx = s.tx
      /\ t.dep = s.dep /\ t.acct = s.acct /\ t.leaves = s.leaves /\ t.nulls = s.nulls
      /\ t.roots = s.roots /\ t.cbal = s.cbal /\ DOMAIN t = DOMAIN s
  BY DEF IsState
<1>3. /\ t.stakes \in [Keys -> {NoStake} \cup Entries] /\ t.stakes[k] = e
      /\ \A j \in Keys \ {k} : t.stakes[j] = s.stakes[j]
  BY <1>1, <1>2
<1>4. IsState(t)
  BY <1>2, <1>3 DEF IsState
<1>5. \A j \in Keys : /\ RewardOf(s)[j] = StakeReward(s.stakes[j])
                       /\ RewardOf(t)[j] = StakeReward(t.stakes[j])
                       /\ FundsOf(s)[j] = StakeFunds(s.stakes[j])
                       /\ FundsOf(t)[j] = StakeFunds(t.stakes[j])
  BY DEF RewardOf, FundsOf, StakeReward, StakeFunds, Exists
<1>6. PICK a \in Nat, b \in Nat, c \in Nat, d \in Nat :
        /\ a = StakeReward(s.stakes[k]) /\ b = StakeReward(e)
        /\ c = StakeFunds(s.stakes[k]) /\ d = StakeFunds(e)
  BY <1>1, EntryTypes
<1>7. Rewards(t) = Rewards(s) - a + b
  <2>1. PICK f, g : f = RewardOf(s) /\ g = RewardOf(t)
    OBVIOUS
  <2>2. IsFiniteSet(Keys) /\ \A j \in Keys : f[j] \in Nat
    BY <2>1, WorthParts, Finite
  <2>3. g[k] \in Nat /\ g[k] = b /\ f[k] = a /\ \A j \in Keys \ {k} : g[j] = f[j]
    <3>1. \A j \in Keys : f[j] = StakeReward(s.stakes[j]) /\ g[j] = StakeReward(t.stakes[j])
      BY <1>5, <2>1
    <3>2. \A j \in Keys \ {k} : g[j] = f[j]
      BY <1>3, <3>1
    <3> QED BY <1>3, <1>6, <3>1, <3>2
  <2>4. SumFunctionOnSet(g, Keys) = SumFunctionOnSet(f, Keys) - f[k] + g[k]
    BY <2>2, <2>3, SumUpdate
  <2> QED BY <2>1, <2>3, <2>4 DEF Rewards
<1>8. Funds(t) = Funds(s) - c + d
  <2>1. PICK f, g : f = FundsOf(s) /\ g = FundsOf(t)
    OBVIOUS
  <2>2. IsFiniteSet(Keys) /\ \A j \in Keys : f[j] \in Nat
    BY <2>1, WorthParts, Finite
  <2>3. g[k] \in Nat /\ g[k] = d /\ f[k] = c /\ \A j \in Keys \ {k} : g[j] = f[j]
    <3>1. \A j \in Keys : f[j] = StakeFunds(s.stakes[j]) /\ g[j] = StakeFunds(t.stakes[j])
      BY <1>5, <2>1
    <3>2. \A j \in Keys \ {k} : g[j] = f[j]
      BY <1>3, <3>1
    <3> QED BY <1>3, <1>6, <3>1, <3>2
  <2>4. SumFunctionOnSet(g, Keys) = SumFunctionOnSet(f, Keys) - f[k] + g[k]
    BY <2>2, <2>3, SumUpdate
  <2>5. Funds(s) = SumFunctionOnSet(f, Keys) /\ Funds(t) = SumFunctionOnSet(g, Keys)
    BY <1>4, <2>1, WorthParts
  <2> QED BY <2>3, <2>4, <2>5
<1>9. /\ Accounts(t) = Accounts(s) /\ Notes(t) = Notes(s) /\ Contracts(t) = Contracts(s)
      /\ Held(t) = Held(s)
  BY <1>2 DEF Accounts, Notes, Held, Values, Unspent, Balances, Contracts
<1>10. Wealth(t) = Wealth(s) + (b - a)
  BY <1>4, <1>7, <1>9, WorthParts DEF Wealth
<1>11. Gap(t) = Gap(s) + (c - d)
  BY <1>2, <1>4, <1>8, WorthParts DEF Gap
<1> QED BY <1>2, <1>3, <1>4, <1>6, <1>10, <1>11 DEF Effect

\* The parts of a state that are worth nothing.
LEMMA NeutralEffect ==
  ASSUME ExecAssumption, NEW s, IsState(s), NEW v, NEW t,
         \/ t = [s EXCEPT !.events = v] \/ t = [s EXCEPT !.prev = v]
         \/ t = [s EXCEPT !.deployed = v]
  PROVE  Effect(s, t, 0, 0) /\ t.stakes = s.stakes /\ t.err = s.err /\ t.dep = s.dep
<1>1. /\ t.stakes = s.stakes /\ t.err = s.err /\ t.height = s.height /\ t.tx = s.tx
      /\ t.dep = s.dep /\ t.acct = s.acct /\ t.leaves = s.leaves /\ t.nulls = s.nulls
      /\ t.roots = s.roots /\ t.cbal = s.cbal /\ DOMAIN t = DOMAIN s
  BY DEF IsState
<1>2. IsState(t)
  BY <1>1 DEF IsState
<1>3. Wealth(t) = Wealth(s) /\ Gap(t) = Gap(s)
  BY <1>1 DEF Wealth, Worth, Gap, Unspent, Exists, Held, Funds
<1>4. Wealth(s) + 0 = Wealth(s) /\ Gap(s) + 0 = Gap(s)
  BY Parts
<1> QED BY <1>1, <1>2, <1>3, <1>4 DEF Effect

LEMMA EmitEffect ==
  ASSUME ExecAssumption, NEW s, IsState(s), NEW ev
  PROVE  Effect(s, Emit(s, ev), 0, 0) /\ Emit(s, ev).stakes = s.stakes /\ Emit(s, ev).err = s.err
         /\ Emit(s, ev).dep = s.dep
<1>1. PICK v, t : v = Append(s.events, ev) /\ t = Emit(s, ev)
  OBVIOUS
<1>2. t = [s EXCEPT !.events = v]
  BY <1>1 DEF Emit
<1>3. Effect(s, t, 0, 0) /\ t.stakes = s.stakes /\ t.err = s.err /\ t.dep = s.dep
  BY <1>2, NeutralEffect
<1> QED BY <1>1, <1>3

LEMMA RememberEffect ==
  ASSUME ExecAssumption, NEW s, IsState(s), NEW k, NEW e
  PROVE  Effect(s, Remember(s, k, e), 0, 0) /\ Remember(s, k, e).stakes = s.stakes
         /\ Remember(s, k, e).err = s.err /\ Remember(s, k, e).dep = s.dep
<1>1. Remember(s, k, e) = s \/ Remember(s, k, e) = [s EXCEPT !.prev = Put(s.prev, k, e)]
  BY DEF Remember
<1> QED BY <1>1, NeutralEffect, NoEffect

StakeEvent(k, v) == [topic |-> "stake", key |-> k, value |-> v]
UnstakeEvent(k, v) == [topic |-> "unstake", key |-> k, value |-> v]
SlashEvent(k, v, until) == [topic |-> "slash", key |-> k, value |-> v, until |-> until]

LEMMA Epochs ==
  ASSUME ExecAssumption, NEW h \in Nat
  PROVE  NextEpoch(h) \in Nat /\ EligibilityFrom(h) \in Nat
<1>1. PICK e \in Nat : e = Epoch /\ e > 0
  BY DEF ExecAssumption
<1>2. h % e \in 0..(e - 1)
  BY <1>1
<1> QED BY <1>1, <1>2 DEF NextEpoch, EligibilityFrom

\* An entry after a change of its amount, in the form of the contract.
LEMMA NewEntry ==
  ASSUME NEW e \in Entries, NEW a \in Amounts
  PROVE  /\ [e EXCEPT !.amount = a] \in Entries
         /\ [e EXCEPT !.amount = a].amount = a /\ [e EXCEPT !.amount = a].reward = e.reward
         /\ StakeReward([e EXCEPT !.amount = a]) = e.reward
         /\ StakeFunds([e EXCEPT !.amount = a]) = a.value + a.locked
<1>1. /\ [e EXCEPT !.amount = a] \in Entries
      /\ [e EXCEPT !.amount = a].amount = a /\ [e EXCEPT !.amount = a].reward = e.reward
  BY DEF Entries
<1>2. [e EXCEPT !.amount = a] # NoStake
  BY <1>1, NoStakeEntry
<1> QED BY <1>1, <1>2 DEF StakeReward, StakeFunds, TotalFunds

LEMMA OldEntry ==
  ASSUME NEW e \in Entries
  PROVE  /\ e # NoStake /\ StakeReward(e) = e.reward /\ StakeFunds(e) = e.amount.value + e.amount.locked
         /\ e.amount \in Amounts /\ e.reward \in Nat /\ e.faults \in Nat
         /\ e.amount.value \in Nat /\ e.amount.locked \in Nat /\ e.amount.eligibility \in Nat
         /\ e.amount.some \in BOOLEAN /\ (~e.amount.some => e.amount.value = 0 /\ e.amount.locked = 0)
<1>1. e # NoStake
  BY NoStakeEntry
<1>2. /\ e.amount \in Amounts /\ e.reward \in Nat /\ e.faults \in Nat
  BY DEF Entries
<1>3. /\ e.amount.value \in Nat /\ e.amount.locked \in Nat /\ e.amount.eligibility \in Nat
      /\ e.amount.some \in BOOLEAN /\ (~e.amount.some => e.amount.value = 0 /\ e.amount.locked = 0)
  BY <1>2 DEF Amounts
<1> QED BY <1>1, <1>2, <1>3 DEF StakeReward, StakeFunds, TotalFunds

\* The entry of k becomes e.
Moved(s, k, e) == [s EXCEPT !.stakes = [s.stakes EXCEPT ![k] = e]]

\* The amount of an entry, if it has one.
Standing(e) == IF e # NoStake /\ e.amount.some THEN e.amount ELSE NoAmount

MapEntries == {NoStake} \cup Entries

LEMMA StandingType ==
  ASSUME NEW e \in MapEntries
  PROVE  /\ Standing(e).value \in Nat /\ Standing(e).locked \in Nat
         /\ Standing(e).eligibility \in Nat /\ Standing(e).some \in BOOLEAN
         /\ e # NoStake => Standing(e).value = e.amount.value
<1>1. CASE e # NoStake /\ e.amount.some
  <2>1. e \in Entries
    BY <1>1 DEF MapEntries
  <2> QED BY <1>1, <2>1, OldEntry DEF Standing
<1>2. CASE ~(e # NoStake /\ e.amount.some)
  <2>1. Standing(e) = NoAmount
    BY <1>2 DEF Standing
  <2>2. e # NoStake => e.amount.value = 0
    BY <1>2, OldEntry DEF MapEntries
  <2> QED BY <2>1, <2>2 DEF NoAmount
<1> QED BY <1>1, <1>2

\* What a stake becomes when v is added: n of it counts, the rest is locked.
LEMMA AddedEntry ==
  ASSUME ExecAssumption, NEW s, s.height \in Nat, NEW k, NEW e \in Entries, e = s.stakes[k], NEW v \in Nat
  PROVE  \E f \in Entries, n \in Nat :
           /\ AddToStake(s, k, v) = Emit(Moved(s, k, f), StakeEvent(k, n))
           /\ StakeReward(f) = StakeReward(e) /\ StakeFunds(f) = StakeFunds(e) + v
           /\ f.amount.some /\ f.amount.value = e.amount.value + n
           /\ f.amount.eligibility = IF e.amount.some THEN e.amount.eligibility ELSE EligibilityFrom(s.height)
<1>1. ASSUME NEW c \in Amounts, NEW n \in Nat,
             AddToStake(s, k, v) = Emit([s EXCEPT !.stakes[k].amount = c], StakeEvent(k, n)),
             c.some, c.value + c.locked = e.amount.value + e.amount.locked + v,
             c.value = e.amount.value + n,
             c.eligibility = IF e.amount.some THEN e.amount.eligibility ELSE EligibilityFrom(s.height)
      PROVE  \E f \in Entries, m \in Nat :
               /\ AddToStake(s, k, v) = Emit(Moved(s, k, f), StakeEvent(k, m))
               /\ StakeReward(f) = StakeReward(e) /\ StakeFunds(f) = StakeFunds(e) + v
               /\ f.amount.some /\ f.amount.value = e.amount.value + m
               /\ f.amount.eligibility = IF e.amount.some THEN e.amount.eligibility ELSE EligibilityFrom(s.height)
  <2>1. PICK f : f = [e EXCEPT !.amount = c]
    OBVIOUS
  <2>2. f \in Entries /\ f.amount = c /\ StakeReward(f) = e.reward /\ StakeFunds(f) = c.value + c.locked
    BY <2>1, NewEntry
  <2>3. StakeReward(e) = e.reward /\ StakeFunds(e) = e.amount.value + e.amount.locked
    BY OldEntry
  <2>4. [s EXCEPT !.stakes[k].amount = c] = Moved(s, k, f)
    BY <2>1 DEF Moved
  <2> QED BY <1>1, <2>2, <2>3, <2>4
<1>2. /\ e.amount \in Amounts /\ e.amount.value \in Nat /\ e.amount.locked \in Nat
      /\ e.amount.some \in BOOLEAN /\ (~e.amount.some => e.amount.value = 0 /\ e.amount.locked = 0)
  BY OldEntry
<1> DEFINE locked == IF s.height >= e.amount.eligibility THEN v \div 10 ELSE 0
           a == [e.amount EXCEPT !.locked = e.amount.locked + locked,
                                 !.value = e.amount.value + v - locked]
           b == Amount(v, EligibilityFrom(s.height))
<1>3. locked \in Nat /\ locked <= v
  OBVIOUS
<1>5. CASE e.amount.some
  <2>1. PICK n \in Nat : n = v - locked
    BY <1>3
  <2>2. /\ a \in Amounts /\ a.value + a.locked = e.amount.value + e.amount.locked + v
        /\ a.some /\ a.value = e.amount.value + n /\ a.eligibility = e.amount.eligibility
    <3>1. /\ e.amount \in [value : Nat, locked : Nat, eligibility : Nat, some : BOOLEAN]
      BY <1>2 DEF Amounts
    <3>2. PICK i \in Nat, j \in Nat : /\ i = e.amount.locked + locked /\ j = e.amount.value + v - locked
                                       /\ i + j = e.amount.value + e.amount.locked + v
                                       /\ j = e.amount.value + n
      <4>1. PICK m \in Nat, w \in Nat, x \in Nat : m = e.amount.value /\ w = e.amount.locked /\ x = locked /\ x <= v
        BY <1>2, <1>3
      <4>2. w + x \in Nat /\ m + v - x \in Nat /\ (w + x) + (m + v - x) = m + w + v /\ m + v - x = m + (v - x)
        BY <4>1
      <4> HIDE DEF locked
      <4> QED BY <2>1, <4>1, <4>2
    <3>3. a = [e.amount EXCEPT !.locked = i, !.value = j]
      BY <3>2
    <3>4. /\ a \in [value : Nat, locked : Nat, eligibility : Nat, some : BOOLEAN]
          /\ a.some = e.amount.some /\ a.value = j /\ a.locked = i
          /\ a.eligibility = e.amount.eligibility
      <4> HIDE DEF a
      <4> QED BY <3>1, <3>3
    <3>5. a \in Amounts
      <4> HIDE DEF a
      <4> QED BY <1>5, <3>4 DEF Amounts
    <3> HIDE DEF a
    <3> QED BY <1>5, <3>2, <3>4, <3>5
  <2>3. AddToStake(s, k, v) = Emit([s EXCEPT !.stakes[k].amount = a], StakeEvent(k, n))
    <3> DEFINE amount == s.stakes[k].amount
               lock == IF s.height >= amount.eligibility THEN v \div 10 ELSE 0
    <3>1. AddToStake(s, k, v)
            = Emit([s EXCEPT !.stakes[k].amount = [amount EXCEPT !.locked = @ + lock, !.value = @ + v - lock]],
                   [topic |-> "stake", key |-> k, value |-> v - lock])
      BY <1>5, Zenon DEF AddToStake
    <3>2. amount = e.amount /\ lock = locked
      OBVIOUS
    <3>3. [amount EXCEPT !.locked = @ + lock, !.value = @ + v - lock] = a
      <4> HIDE DEF amount, lock
      <4> QED BY <3>2
    <3>4. [topic |-> "stake", key |-> k, value |-> v - lock] = StakeEvent(k, n)
      BY <2>1, <3>2 DEF StakeEvent
    <3> QED BY <3>1, <3>3, <3>4, Zenon
  <2> HIDE DEF a, locked
  <2> QED BY <1>1, <1>5, <2>2, <2>3
<1>6. CASE ~e.amount.some
  <2>1. /\ b \in Amounts /\ b.value + b.locked = v /\ b.some /\ b.value = v
        /\ b.eligibility = EligibilityFrom(s.height)
    <3>1. EligibilityFrom(s.height) \in Nat
      BY Epochs
    <3> QED BY <3>1 DEF Amount, Amounts
  <2>2. AddToStake(s, k, v) = Emit([s EXCEPT !.stakes[k].amount = b], StakeEvent(k, v))
    BY <1>6 DEF AddToStake, StakeEvent
  <2> HIDE DEF b
  <2>3. b.value + b.locked = e.amount.value + e.amount.locked + v /\ b.value = e.amount.value + v
    BY <1>2, <1>6, <2>1
  <2> QED BY <1>1, <1>6, <2>1, <2>2, <2>3
<1> QED BY <1>2, <1>5, <1>6

LEMMA AddToStakeEffect ==
  ASSUME ExecAssumption, NEW s, IsState(s), NEW k \in Keys, s.stakes[k] \in Entries, NEW v \in Nat
  PROVE  Effect(s, AddToStake(s, k, v), 0, -v)
<1>1. PICK e \in Entries : e = s.stakes[k]
  OBVIOUS
<1>2. s.height \in Nat
  BY DEF IsState
<1>3. PICK f \in Entries, n \in Nat :
        /\ AddToStake(s, k, v) = Emit(Moved(s, k, f), StakeEvent(k, n))
        /\ StakeReward(f) = StakeReward(e) /\ StakeFunds(f) = StakeFunds(e) + v
  BY <1>1, <1>2, AddedEntry
<1>4. PICK t, ev : t = Moved(s, k, f) /\ ev = StakeEvent(k, n)
  OBVIOUS
<1>5. Effect(s, t, StakeReward(f) - StakeReward(s.stakes[k]), StakeFunds(s.stakes[k]) - StakeFunds(f))
  BY <1>4, StakeEffect DEF Moved
<1>6. StakeReward(f) - StakeReward(s.stakes[k]) = 0 /\ StakeFunds(s.stakes[k]) - StakeFunds(f) = -v
  <2>1. PICK r \in Nat, m \in Nat : r = StakeReward(e) /\ m = StakeFunds(e)
    BY EntryTypes
  <2>2. r - r = 0 /\ m - (m + v) = -v
    OBVIOUS
  <2> QED BY <1>1, <1>3, <2>1, <2>2
<1>7. Effect(s, t, 0, -v)
  BY <1>5, <1>6
<1>8. Effect(t, Emit(t, ev), 0, 0)
  BY <1>7, EmitEffect DEF Effect
<1>9. 0 \in Int /\ -v \in Int /\ 0 + 0 = 0 /\ -v + 0 = -v
  OBVIOUS
<1>10. Effect(s, Emit(t, ev), 0 + 0, -v + 0)
  BY <1>7, <1>8, <1>9, Trans
<1> QED BY <1>3, <1>4, <1>9, <1>10

LEMMA EmptyEntry ==
  ASSUME NEW o \in Keys \cup ContractIds
  PROVE  /\ EmptyStake(o) \in Entries /\ StakeReward(EmptyStake(o)) = 0 /\ StakeFunds(EmptyStake(o)) = 0
         /\ EmptyStake(o).amount = NoAmount
<1>1. EmptyStake(o) \in Entries /\ EmptyStake(o).reward = 0 /\ EmptyStake(o).amount = NoAmount
  BY DEF EmptyStake, Entries, NoAmount, Amounts
<1>2. PICK e \in Entries : e = EmptyStake(o)
  BY <1>1
<1>3. StakeReward(e) = e.reward /\ StakeFunds(e) = e.amount.value + e.amount.locked
  BY OldEntry
<1>4. e.amount.value = 0 /\ e.amount.locked = 0
  BY <1>1, <1>2 DEF NoAmount
<1> QED BY <1>1, <1>2, <1>3, <1>4

\* An entry, or its absence, as a member of the map.
LEMMA EntryIn ==
  ASSUME NEW s, IsState(s), NEW k \in Keys
  PROVE  /\ Exists(s, k) => s.stakes[k] \in Entries
         /\ ~Exists(s, k) => StakeReward(s.stakes[k]) = 0 /\ StakeFunds(s.stakes[k]) = 0
BY DEF IsState, Exists, StakeReward, StakeFunds

LEMMA LoadEffect ==
  ASSUME ExecAssumption, NEW s, IsState(s), NEW k \in Keys, NEW o \in Keys \cup ContractIds
  PROVE  /\ Effect(s, Load(s, k, o), 0, 0) /\ Load(s, k, o).err = s.err
         /\ Load(s, k, o).stakes[k] \in Entries
<1>1. CASE Exists(s, k)
  BY <1>1, EntryIn, NoEffect DEF Load
<1>2. CASE ~Exists(s, k)
  <2>1. PICK e \in {NoStake} \cup Entries : e \in Entries /\ e = EmptyStake(o) /\ StakeReward(e) = 0 /\ StakeFunds(e) = 0
    BY EmptyEntry
  <2> DEFINE t == [s EXCEPT !.stakes = [s.stakes EXCEPT ![k] = e]]
  <2>2. t = Load(s, k, o)
    BY <1>2, <2>1 DEF Load
  <2>4. /\ Effect(s, t, StakeReward(e) - StakeReward(s.stakes[k]),
                        StakeFunds(s.stakes[k]) - StakeFunds(e))
        /\ t.err = s.err
    BY StakeEffect
  <2>7. t.stakes[k] = e
    BY DEF IsState
  <2> HIDE DEF t
  <2>5. StakeReward(e) - StakeReward(s.stakes[k]) = 0 /\ StakeFunds(s.stakes[k]) - StakeFunds(e) = 0
    BY <1>2, <2>1, EntryIn
  <2>6. Effect(s, t, 0, 0)
    BY <2>4, <2>5
  <2> QED BY <2>1, <2>2, <2>4, <2>6, <2>7
<1> QED BY <1>1, <1>2

\* The entry of a stake that is taken from: it goes when nothing is left.
LEMMA LeftEntry ==
  ASSUME NEW e \in Entries
  PROVE  LET f == IF ~e.amount.some /\ e.reward = 0 THEN NoStake ELSE e IN
         /\ f \in {NoStake} \cup Entries /\ StakeReward(f) = e.reward
         /\ StakeFunds(f) = e.amount.value + e.amount.locked
<1>1. CASE ~e.amount.some /\ e.reward = 0
  <2>1. e.amount.value = 0 /\ e.amount.locked = 0
    BY <1>1, OldEntry
  <2> QED BY <1>1, <2>1, NoStakeEntry
<1>2. CASE ~(~e.amount.some /\ e.reward = 0)
  BY <1>2, OldEntry
<1> QED BY <1>1, <1>2

\* What an entry becomes when v is taken: n from the value, the rest from the
\* locked part.
LEMMA TakenEntry ==
  ASSUME NEW s, NEW k, s.stakes[k] \in Entries, NEW v \in Nat,
         s.stakes[k].amount.some, v <= TotalFunds(s.stakes[k].amount)
  PROVE  \E g \in MapEntries, y \in Nat :
           /\ TakeFromStake(s, k, v) = Emit(Moved(s, k, g), UnstakeEvent(k, y))
           /\ StakeReward(g) = StakeReward(s.stakes[k]) /\ StakeFunds(g) = StakeFunds(s.stakes[k]) - v
           /\ y <= s.stakes[k].amount.value /\ Standing(g).value = s.stakes[k].amount.value - y
           /\ Standing(g).value # 0 => Standing(g).eligibility = s.stakes[k].amount.eligibility
<1>1. PICK e \in Entries : e = s.stakes[k]
  OBVIOUS
<1>2. PICK m \in Nat, n \in Nat : m = e.amount.value /\ n = e.amount.locked /\ v <= m + n
  BY <1>1, OldEntry DEF TotalFunds
<1> DEFINE x == IF v > m THEN m ELSE v
           left == [e.amount EXCEPT !.value = @ - x, !.locked = @ - (v - x)]
           c == IF TotalFunds(left) = 0 THEN NoAmount ELSE left
           f == [e EXCEPT !.amount = c]
           g == IF ~f.amount.some /\ f.reward = 0 THEN NoStake ELSE f
           t == [s EXCEPT !.stakes = [s.stakes EXCEPT ![k] = g]]
<1>3. TakeFromStake(s, k, v) = Emit(t, [topic |-> "unstake", key |-> k, value |-> x])
  <2> DEFINE amount == s.stakes[k].amount
             y == IF v > amount.value THEN amount.value ELSE v
             l == [amount EXCEPT !.value = @ - y, !.locked = @ - (v - y)]
             h == [s.stakes[k] EXCEPT !.amount = IF TotalFunds(l) = 0 THEN NoAmount ELSE l]
  <2>1. TakeFromStake(s, k, v)
          = Emit([s EXCEPT !.stakes[k] = IF ~h.amount.some /\ h.reward = 0 THEN NoStake ELSE h],
                 [topic |-> "unstake", key |-> k, value |-> y])
    BY Zenon DEF TakeFromStake
  <2>2. amount = e.amount /\ y = x
    BY <1>1, <1>2
  <2>3. l = left
    <3> HIDE DEF amount, y, x
    <3> QED BY <2>2
  <2>4. h = f
    <3> HIDE DEF l, left
    <3> QED BY <1>1, <2>3
  <2> HIDE DEF h, f
  <2> QED BY <2>1, <2>2, <2>4, Zenon
<1>4. /\ left \in Amounts /\ left.value + left.locked = (m + n) - v /\ left.some
      /\ left.value = m - x /\ left.eligibility = e.amount.eligibility
  <2>1. e.amount \in [value : Nat, locked : Nat, eligibility : Nat, some : BOOLEAN]
    BY OldEntry DEF Amounts
  <2>2. PICK i \in Nat, j \in Nat : i = m - x /\ j = n - (v - x) /\ i + j = (m + n) - v
    BY <1>2
  <2>3. left = [e.amount EXCEPT !.value = i, !.locked = j]
    BY <1>2, <2>1, <2>2
  <2>4. /\ left \in [value : Nat, locked : Nat, eligibility : Nat, some : BOOLEAN]
        /\ left.some = e.amount.some /\ left.value = i /\ left.locked = j
        /\ left.eligibility = e.amount.eligibility
    <3> HIDE DEF left
    <3> QED BY <2>1, <2>3
  <2> HIDE DEF left
  <2> QED BY <1>1, <2>2, <2>4 DEF Amounts
<1> HIDE DEF left
<1>5. /\ c \in Amounts /\ c.value + c.locked = (m + n) - v /\ c.value = m - x
      /\ (c.some \/ c = NoAmount) /\ (c.value # 0 => c.some /\ c.eligibility = e.amount.eligibility)
  <2>1. NoAmount \in Amounts /\ NoAmount.value + NoAmount.locked = 0 /\ NoAmount.value = 0
    BY DEF NoAmount, Amounts
  <2>2. TotalFunds(left) = 0 => left.value = 0
    BY <1>4 DEF TotalFunds, Amounts
  <2> QED BY <1>4, <2>1, <2>2 DEF TotalFunds
<1> HIDE DEF c
<1>6. f \in Entries /\ f.amount = c /\ f.reward = e.reward
  BY <1>5, NewEntry
<1> HIDE DEF f
<1>7. g \in {NoStake} \cup Entries /\ StakeReward(g) = e.reward /\ StakeFunds(g) = (m + n) - v
  BY <1>5, <1>6, LeftEntry
<1> HIDE DEF g
<1>8. Standing(g).value = m - x /\ (Standing(g).value # 0 => Standing(g).eligibility = e.amount.eligibility)
  <2>1. CASE ~f.amount.some /\ f.reward = 0
    BY <1>5, <1>6, <2>1 DEF Standing, g, NoAmount
  <2>2. CASE ~(~f.amount.some /\ f.reward = 0)
    BY <1>5, <1>6, <2>2, OldEntry DEF Standing, g, NoAmount
  <2> QED BY <2>1, <2>2
<1>9. StakeReward(e) = e.reward /\ StakeFunds(e) = m + n
  BY <1>2, OldEntry
<1>10. x \in Nat /\ x <= m
  OBVIOUS
<1> HIDE DEF x
<1>11. TakeFromStake(s, k, v) = Emit(Moved(s, k, g), UnstakeEvent(k, x))
  BY <1>3 DEF UnstakeEvent, Moved
<1> QED BY <1>1, <1>2, <1>7, <1>8, <1>9, <1>10, <1>11 DEF MapEntries

LEMMA TakeFromStakeEffect ==
  ASSUME ExecAssumption, NEW s, IsState(s), NEW k \in Keys, s.stakes[k] \in Entries, NEW v \in Nat,
         s.stakes[k].amount.some, v <= TotalFunds(s.stakes[k].amount)
  PROVE  Effect(s, TakeFromStake(s, k, v), 0, v) /\ TakeFromStake(s, k, v).err = s.err
<1>1. PICK g \in MapEntries, y \in Nat :
        /\ TakeFromStake(s, k, v) = Emit(Moved(s, k, g), UnstakeEvent(k, y))
        /\ StakeReward(g) = StakeReward(s.stakes[k]) /\ StakeFunds(g) = StakeFunds(s.stakes[k]) - v
  BY TakenEntry
<1>2. PICK t, ev : t = Moved(s, k, g) /\ ev = UnstakeEvent(k, y)
  OBVIOUS
<1>3. /\ Effect(s, t, StakeReward(g) - StakeReward(s.stakes[k]), StakeFunds(s.stakes[k]) - StakeFunds(g))
      /\ t.err = s.err
  BY <1>2, StakeEffect DEF MapEntries, Moved
<1>4. StakeReward(g) - StakeReward(s.stakes[k]) = 0 /\ StakeFunds(s.stakes[k]) - StakeFunds(g) = v
  <2>1. PICK r \in Nat, n \in Nat : r = StakeReward(s.stakes[k]) /\ n = StakeFunds(s.stakes[k])
    BY EntryTypes
  <2>2. r - r = 0 /\ n - (n - v) = v
    OBVIOUS
  <2> QED BY <1>1, <2>1, <2>2
<1>5. Effect(s, t, 0, v)
  BY <1>3, <1>4
<1>6. Effect(t, Emit(t, ev), 0, 0) /\ Emit(t, ev).err = t.err
  BY <1>5, EmitEffect DEF Effect
<1>7. 0 \in Int /\ v \in Int /\ 0 + 0 = 0 /\ v + 0 = v
  OBVIOUS
<1>8. Effect(s, Emit(t, ev), 0 + 0, v + 0)
  BY <1>5, <1>6, <1>7, Trans
<1> QED BY <1>1, <1>2, <1>3, <1>6, <1>7, <1>8

LEMMA TakeRewardEffect ==
  ASSUME ExecAssumption, NEW s, IsState(s), NEW k \in Keys, s.stakes[k] \in Entries, NEW v \in Nat,
         v <= s.stakes[k].reward
  PROVE  Effect(s, TakeReward(s, k, v), -v, 0)
<1>1. PICK e \in Entries : e = s.stakes[k]
  OBVIOUS
<1>2. PICK r \in Nat, n \in Nat : r = e.reward /\ n = StakeFunds(e) /\ r - v \in Nat
  BY <1>1, OldEntry, EntryTypes
<1> DEFINE f == [e EXCEPT !.reward = r - v]
           g == IF ~f.amount.some /\ f.reward = 0 THEN NoStake ELSE f
           t == [s EXCEPT !.stakes = [s.stakes EXCEPT ![k] = g]]
<1>3. TakeReward(s, k, v) = t
  BY <1>1, <1>2 DEF TakeReward
<1>4. f \in Entries /\ f.amount = e.amount /\ f.reward = r - v
  BY <1>2 DEF Entries
<1> HIDE DEF f
<1>5. g \in {NoStake} \cup Entries /\ StakeReward(g) = r - v /\ StakeFunds(g) = n
  BY <1>2, <1>4, LeftEntry, OldEntry
<1> HIDE DEF g
<1>6. Effect(s, t, StakeReward(g) - StakeReward(s.stakes[k]), StakeFunds(s.stakes[k]) - StakeFunds(g))
  BY <1>5, StakeEffect
<1> HIDE DEF t
<1>7. StakeReward(g) - StakeReward(s.stakes[k]) = -v /\ StakeFunds(s.stakes[k]) - StakeFunds(g) = 0
  <2>1. StakeReward(e) = r
    BY <1>2, OldEntry
  <2>2. (r - v) - r = -v /\ n - n = 0
    OBVIOUS
  <2> QED BY <1>1, <1>2, <1>5, <2>1, <2>2
<1> QED BY <1>3, <1>6, <1>7

LEMMA RewardKeyEffect ==
  ASSUME ExecAssumption, NEW s, IsState(s), NEW k \in Keys, NEW v \in Nat
  PROVE  Effect(s, RewardKey(s, k, v), v, 0) /\ RewardKey(s, k, v).err = s.err
         /\ RewardKey(s, k, v).dep = s.dep
<1>1. CASE Exists(s, k)
  <2>1. PICK e \in Entries : e = s.stakes[k]
    BY <1>1, EntryIn
  <2>2. PICK r \in Nat : r = e.reward
    BY OldEntry
  <2> DEFINE f == [e EXCEPT !.reward = r + v, !.faults = 0]
             t == [s EXCEPT !.stakes = [s.stakes EXCEPT ![k] = f]]
  <2>3. RewardKey(s, k, v) = t
    <3>1. [e EXCEPT !.reward = @ + v, !.faults = 0] = f
      BY <2>2
    <3> QED BY <1>1, <2>1, <3>1, Zenon DEF RewardKey
  <2>4. f \in Entries /\ f.amount = e.amount /\ f.reward = r + v
    <3>1. PICK n \in Nat : n = r + v
      OBVIOUS
    <3>2. f = [e EXCEPT !.reward = n, !.faults = 0]
      BY <3>1
    <3> HIDE DEF f
    <3> QED BY <3>1, <3>2 DEF Entries
  <2> HIDE DEF f
  <2>5. f \in {NoStake} \cup Entries /\ StakeReward(f) = r + v /\ StakeFunds(f) = StakeFunds(e)
        /\ StakeReward(e) = r /\ StakeFunds(e) \in Nat
    BY <2>2, <2>4, OldEntry
  <2>6. /\ Effect(s, t, StakeReward(f) - StakeReward(s.stakes[k]), StakeFunds(s.stakes[k]) - StakeFunds(f))
        /\ t.err = s.err /\ t.dep = s.dep
    BY <2>5, StakeEffect
  <2> HIDE DEF t
  <2>7. PICK n \in Nat : n = StakeFunds(e)
    BY <2>5
  <2>8. StakeReward(f) - StakeReward(s.stakes[k]) = v /\ StakeFunds(s.stakes[k]) - StakeFunds(f) = 0
    <3>1. (r + v) - r = v /\ n - n = 0
      OBVIOUS
    <3> QED BY <2>1, <2>5, <2>7, <3>1
  <2> QED BY <2>3, <2>6, <2>8
<1>2. CASE ~Exists(s, k)
  <2>1. PICK e \in Entries : e = EmptyStake(k) /\ StakeFunds(e) = 0 /\ e.amount = NoAmount
    BY EmptyEntry
  <2> DEFINE f == [e EXCEPT !.reward = v]
             t == [s EXCEPT !.stakes = [s.stakes EXCEPT ![k] = f]]
  <2>2. RewardKey(s, k, v) = t
    BY <1>2, <2>1 DEF RewardKey
  <2>3. f \in Entries /\ f.amount = e.amount /\ f.reward = v
    BY DEF Entries
  <2> HIDE DEF f
  <2>4. f \in {NoStake} \cup Entries /\ StakeReward(f) = v /\ StakeFunds(f) = 0
    BY <2>1, <2>3, OldEntry
  <2>5. /\ Effect(s, t, StakeReward(f) - StakeReward(s.stakes[k]), StakeFunds(s.stakes[k]) - StakeFunds(f))
        /\ t.err = s.err /\ t.dep = s.dep
    BY <2>4, StakeEffect
  <2> HIDE DEF t
  <2>6. StakeReward(f) - StakeReward(s.stakes[k]) = v /\ StakeFunds(s.stakes[k]) - StakeFunds(f) = 0
    <3>1. StakeReward(s.stakes[k]) = 0 /\ StakeFunds(s.stakes[k]) = 0
      BY <1>2, EntryIn
    <3> QED BY <2>4, <3>1
  <2> QED BY <2>2, <2>5, <2>6
<1> QED BY <1>1, <1>2

LEMMA MinPair ==
  ASSUME NEW a \in Nat, NEW b \in Nat
  PROVE  Min({a, b}) \in Nat /\ Min({a, b}) <= a /\ Min({a, b}) <= b
<1> DEFINE P(x) == x \in {a, b} /\ \A y \in {a, b} : x <= y
<1>1. \E x : P(x)
  <2>1. P(a) \/ P(b)
    OBVIOUS
  <2> QED BY <2>1
<1>2. Min({a, b}) = CHOOSE x : P(x)
  BY DEF Min
<1>3. P(CHOOSE x : P(x))
  <2> HIDE DEF P
  <2> QED BY <1>1
<1> QED BY <1>2, <1>3

\* What slash does to a stake with an amount: x is locked, and once the warnings
\* are used up the event says so.
LEMMA SlashedEntry ==
  ASSUME ExecAssumption, NEW s, s.height \in Nat, NEW k, s.stakes[k] \in Entries, s.stakes[k].amount.some
  PROVE  \E f \in Entries, x \in Nat, until \in Nat :
           /\ \/ Slash(s, k) = Remember(Emit(Moved(s, k, f), SlashEvent(k, x, until)), k, s.stakes[k])
              \/ /\ Slash(s, k) = Remember(Moved(s, k, f), k, s.stakes[k])
                 /\ x = 0 /\ until = s.stakes[k].amount.eligibility
           /\ StakeReward(f) = StakeReward(s.stakes[k]) /\ StakeFunds(f) = StakeFunds(s.stakes[k])
           /\ f.amount.some /\ x <= s.stakes[k].amount.value
           /\ f.amount.value = s.stakes[k].amount.value - x /\ f.amount.eligibility = until
<1> DEFINE faults    == s.stakes[k].faults + 1
           effective == IF faults > Warnings THEN faults - Warnings ELSE 0
           amount    == s.stakes[k].amount
           until     == IF effective > 0 THEN NextEpoch(s.height) + effective * Epoch
                        ELSE amount.eligibility
           toSlash   == Min({(amount.value \div 100) * effective * 10, amount.value})
           slashed   == [amount EXCEPT !.value = @ - toSlash, !.locked = @ + toSlash,
                                       !.eligibility = until]
           t         == [s EXCEPT !.stakes[k] = [@ EXCEPT !.faults = faults, !.amount = slashed]]
           event     == [topic |-> "slash", key |-> k, value |-> toSlash, until |-> until]
<1>1. Slash(s, k) = IF ~Exists(s, k) THEN Panic(s)
                    ELSE IF ~amount.some THEN s
                    ELSE Remember(IF effective > 0 THEN Emit(t, event) ELSE t, k, s.stakes[k])
  BY Zenon DEF Slash
<1>2. PICK e \in Entries : e = s.stakes[k]
  OBVIOUS
<1>3. Exists(s, k) /\ amount.some
  BY OldEntry DEF Exists
<1>4. faults \in Nat /\ effective \in Nat /\ amount \in Amounts /\ amount.value \in Nat
      /\ amount.locked \in Nat /\ amount.eligibility \in Nat
  BY <1>2, OldEntry DEF ExecAssumption
<1>5. until \in Nat
  <2>1. NextEpoch(s.height) \in Nat /\ Epoch \in Nat
    BY Epochs DEF ExecAssumption
  <2> HIDE DEF effective, amount
  <2> QED BY <1>4, <2>1
<1>6. /\ toSlash \in Nat /\ toSlash <= amount.value
      /\ effective = 0 => toSlash = 0 /\ until = amount.eligibility
  <2> HIDE DEF effective, amount
  <2>1. PICK d \in Nat : d = (amount.value \div 100) * effective * 10 /\ (effective = 0 => d = 0)
    <3>1. amount.value \div 100 \in Nat
      BY <1>4
    <3>2. PICK y \in Nat : y = amount.value \div 100
      BY <3>1
    <3>3. y * effective * 10 \in Nat /\ y * 0 * 10 = 0
      BY <1>4
    <3> QED BY <3>2, <3>3
  <2>2. toSlash \in Nat /\ toSlash <= d /\ toSlash <= amount.value
    BY <1>4, <2>1, MinPair
  <2> HIDE DEF toSlash
  <2> QED BY <2>1, <2>2
<1> HIDE DEF faults, until, toSlash
<1>7. /\ slashed \in Amounts /\ slashed.value + slashed.locked = amount.value + amount.locked
      /\ slashed.some /\ slashed.value = amount.value - toSlash /\ slashed.eligibility = until
  <2> HIDE DEF amount
  <2>1. amount \in [value : Nat, locked : Nat, eligibility : Nat, some : BOOLEAN]
    BY <1>4 DEF Amounts
  <2>2. PICK m \in Nat, n \in Nat : m = amount.value - toSlash /\ n = amount.locked + toSlash
                                     /\ m + n = amount.value + amount.locked
    BY <1>4, <1>6
  <2>3. slashed = [amount EXCEPT !.value = m, !.locked = n, !.eligibility = until]
    BY <2>1, <2>2
  <2> HIDE DEF slashed
  <2>4. /\ slashed \in [value : Nat, locked : Nat, eligibility : Nat, some : BOOLEAN]
        /\ slashed.value = m /\ slashed.locked = n /\ slashed.some = amount.some
        /\ slashed.eligibility = until
    BY <1>5, <2>1, <2>3
  <2> QED BY <1>3, <2>2, <2>4 DEF Amounts
<1> HIDE DEF slashed
<1> DEFINE f == [e EXCEPT !.faults = faults, !.amount = slashed]
<1>8. t = Moved(s, k, f)
  BY <1>2 DEF Moved
<1>9. f \in Entries /\ f.amount = slashed /\ f.reward = e.reward
  BY <1>4, <1>7 DEF Entries
<1> HIDE DEF f, t
<1>10. StakeReward(f) = StakeReward(e) /\ StakeFunds(f) = StakeFunds(e)
  <2>1. StakeFunds(f) = f.amount.value + f.amount.locked /\ StakeReward(f) = f.reward
        /\ StakeFunds(e) = e.amount.value + e.amount.locked /\ StakeReward(e) = e.reward
    BY <1>9, OldEntry
  <2> QED BY <1>2, <1>7, <1>9, <2>1
<1>11. PICK u : u = (IF effective > 0 THEN Emit(t, event) ELSE t)
  OBVIOUS
<1>12. Slash(s, k) = Remember(u, k, s.stakes[k])
  BY <1>1, <1>3, <1>11, Zenon
<1>13. event = SlashEvent(k, toSlash, until)
  BY DEF SlashEvent
<1> HIDE DEF event
<1>14. u = Emit(t, event) \/ (u = t /\ toSlash = 0 /\ until = amount.eligibility)
  <2> HIDE DEF effective
  <2> QED BY <1>4, <1>6, <1>11
<1> HIDE DEF effective
<1> QED BY <1>2, <1>5, <1>6, <1>7, <1>8, <1>9, <1>10, <1>12, <1>13, <1>14

LEMMA SlashEffect ==
  ASSUME ExecAssumption, NEW s, IsState(s), NEW k \in Keys
  PROVE  /\ Effect(s, Slash(s, k), 0, 0)
         /\ Slash(s, k).err = "none" => Slash(s, k).dep = s.dep
<1>1. CASE ~Exists(s, k)
  <2>1. Slash(s, k) = Panic(s)
    BY <1>1, Zenon DEF Slash
  <2> QED BY <2>1, PanicEffect
<1>2. CASE Exists(s, k) /\ ~s.stakes[k].amount.some
  <2>1. Slash(s, k) = s
    BY <1>2, Zenon DEF Slash
  <2> QED BY <2>1, NoEffect
<1>3. CASE Exists(s, k) /\ s.stakes[k].amount.some
  <2>1. s.stakes[k] \in Entries /\ s.height \in Nat
    BY <1>3, EntryIn DEF IsState
  <2>2a. PICK f \in Entries, x \in Nat, until \in Nat :
           /\ \/ Slash(s, k) = Remember(Emit(Moved(s, k, f), SlashEvent(k, x, until)), k, s.stakes[k])
              \/ Slash(s, k) = Remember(Moved(s, k, f), k, s.stakes[k])
           /\ StakeReward(f) = StakeReward(s.stakes[k]) /\ StakeFunds(f) = StakeFunds(s.stakes[k])
    BY <1>3, <2>1, SlashedEntry
  <2>2b. PICK t : t = Moved(s, k, f)
    OBVIOUS
  <2>2. PICK u : /\ Slash(s, k) = Remember(u, k, s.stakes[k])
                 /\ u = Emit(t, SlashEvent(k, x, until)) \/ u = t
    BY <2>2a, <2>2b
  <2>3. /\ Effect(s, t, StakeReward(f) - StakeReward(s.stakes[k]), StakeFunds(s.stakes[k]) - StakeFunds(f))
        /\ t.err = s.err /\ t.dep = s.dep
    BY <2>2b, StakeEffect DEF Moved
  <2>4. StakeReward(f) - StakeReward(s.stakes[k]) = 0 /\ StakeFunds(s.stakes[k]) - StakeFunds(f) = 0
    BY <2>1, <2>2a, EntryTypes
  <2>5. Effect(s, t, 0, 0) /\ IsState(t)
    BY <2>3, <2>4 DEF Effect
  <2>6. PICK ev : ev = SlashEvent(k, x, until)
    OBVIOUS
  <2>7. Effect(t, u, 0, 0) /\ u.dep = t.dep
    BY <2>2, <2>5, <2>6, EmitEffect, NoEffect
  <2>8. PICK o : o = s.stakes[k]
    OBVIOUS
  <2>9. Effect(u, Remember(u, k, o), 0, 0) /\ Remember(u, k, o).dep = u.dep
    <3>1. IsState(u)
      BY <2>7 DEF Effect
    <3> QED BY <3>1, RememberEffect
  <2>10. 0 \in Int /\ 0 + 0 = 0
    OBVIOUS
  <2>11. Effect(s, u, 0, 0)
    BY <2>5, <2>7, <2>10, Trans
  <2>12. Effect(s, Remember(u, k, o), 0, 0)
    BY <2>9, <2>10, <2>11, Trans
  <2> QED BY <2>2, <2>3, <2>7, <2>8, <2>9, <2>12
<1> QED BY <1>1, <1>2, <1>3

LEMMA EffectState ==
  ASSUME NEW s, NEW t, NEW a, NEW b, Effect(s, t, a, b)
  PROVE  IsState(t)
BY DEF Effect

\* A call that goes on from t unless t failed.
LEMMA Sequel ==
  ASSUME ExecAssumption, NEW s, IsState(s), NEW t, NEW u, NEW v,
         NEW a \in Int, NEW b \in Int, NEW c \in Int, NEW d \in Int,
         Effect(s, t, a, b), v = (IF t.err = "none" THEN u ELSE t), t.err = "none" => Effect(t, u, c, d)
  PROVE  /\ Effect(s, v, a + c, b + d)
         /\ v.err = "none" => v = u /\ t.err = "none"
<1>1. CASE t.err = "none"
  <2>1. v = u /\ Effect(t, u, c, d)
    BY <1>1
  <2> QED BY <1>1, <2>1, Trans
<1>2. CASE t.err # "none"
  <2>1. v = t
    BY <1>2
  <2>2. PICK x, y : x = a + c /\ y = b + d
    OBVIOUS
  <2>3. Effect(s, t, x, y)
    BY <1>2, Fails
  <2> QED BY <1>2, <2>1, <2>2, <2>3
<1> QED BY <1>1, <1>2

LEMMA StakedEffect ==
  ASSUME ExecAssumption, NEW s, IsState(s), NEW k \in Keys, s.stakes[k] \in Entries, NEW v \in Nat,
         NEW old
  PROVE  Effect(s, Remember(AddToStake(s, k, v), k, old), 0, -v)
<1>1. PICK t : t = AddToStake(s, k, v)
  OBVIOUS
<1>2. Effect(s, t, 0, -v)
  BY <1>1, AddToStakeEffect
<1>3. Effect(t, Remember(t, k, old), 0, 0)
  BY <1>2, RememberEffect, EffectState
<1>4. 0 \in Int /\ -v \in Int /\ 0 + 0 = 0 /\ -v + 0 = -v
  OBVIOUS
<1>5. Effect(s, Remember(t, k, old), 0 + 0, -v + 0)
  BY <1>2, <1>3, <1>4, Trans
<1> QED BY <1>1, <1>4, <1>5

LEMMA UnstakedEffect ==
  ASSUME ExecAssumption, NEW s, IsState(s), NEW k \in Keys, s.stakes[k] \in Entries, NEW v \in Nat,
         s.stakes[k].amount.some, v <= TotalFunds(s.stakes[k].amount), NEW old
  PROVE  Effect(s, Remember(TakeFromStake(s, k, v), k, old), 0, v)
<1>1. PICK t : t = TakeFromStake(s, k, v)
  OBVIOUS
<1>2. Effect(s, t, 0, v)
  BY <1>1, TakeFromStakeEffect
<1>3. Effect(t, Remember(t, k, old), 0, 0)
  BY <1>2, RememberEffect, EffectState
<1>4. 0 \in Int /\ v \in Int /\ 0 + 0 = 0 /\ v + 0 = v
  OBVIOUS
<1>5. Effect(s, Remember(t, k, old), 0 + 0, v + 0)
  BY <1>2, <1>3, <1>4, Trans
<1> QED BY <1>1, <1>4, <1>5

LEMMA StakeLoadedEffect ==
  ASSUME ExecAssumption, NEW s, IsState(s), NEW k \in Keys, NEW o \in Keys \cup ContractIds, NEW v
  PROVE  /\ Effect(s, StakeLoaded(s, k, o, v), 0, 0)
         /\ StakeLoaded(s, k, o, v).stakes[k] \in Entries
<1>1. PICK t : t = Load(s, k, o)
  OBVIOUS
<1>2. Effect(s, t, 0, 0) /\ t.stakes[k] \in Entries /\ IsState(t)
  BY <1>1, LoadEffect, EffectState
<1>3. StakeLoaded(s, k, o, v) \in {t, Panic(t)}
  BY <1>1 DEF StakeLoaded, Require
<1>4. Effect(t, Panic(t), 0, 0) /\ Panic(t).stakes = t.stakes
  BY <1>2, PanicEffect
<1>5. 0 \in Int /\ 0 + 0 = 0
  OBVIOUS
<1>6. Effect(s, Panic(t), 0, 0)
  BY <1>2, <1>4, <1>5, Trans
<1> QED BY <1>2, <1>3, <1>4, <1>6

LEMMA StakeAccountEffect ==
  ASSUME ExecAssumption, NEW s, IsState(s), NEW k \in Keys, NEW v \in Nat
  PROVE  Effect(s, StakeAccount(s, k, v), 0, 0)
<1>1. PICK r : r = StakeLoaded(s, k, k, v)
  OBVIOUS
<1>2. PICK t : t = (IF r.err = "none" THEN Deposit(r, Stake, v) ELSE r)
  OBVIOUS
<1>3. PICK u : u = (IF t.err = "none" THEN Remember(AddToStake(t, k, v), k, s.stakes[k]) ELSE t)
  OBVIOUS
<1>4. StakeAccount(s, k, v) = u
  BY <1>1, <1>2, <1>3, Zenon DEF StakeAccount, Then
<1>5. Effect(s, r, 0, 0) /\ r.stakes[k] \in Entries /\ IsState(r)
  <2>1. k \in Keys \cup ContractIds
    OBVIOUS
  <2>2. Effect(s, r, 0, 0) /\ r.stakes[k] \in Entries
    BY <1>1, <2>1, StakeLoadedEffect
  <2> QED BY <2>2, EffectState
<1>6. /\ Effect(r, Deposit(r, Stake, v), 0, v) /\ Deposit(r, Stake, v).stakes = r.stakes
  BY <1>5, DepositEffect DEF ContractIds
<1>7. 0 \in Int /\ v \in Int /\ -v \in Int /\ 0 + 0 = 0 /\ 0 + v = v /\ v + -v = 0
  OBVIOUS
<1>8. Effect(s, t, 0, v) /\ (t.err = "none" => t.stakes = r.stakes)
  <2>1. Effect(s, t, 0 + 0, 0 + v) /\ (t.err = "none" => t = Deposit(r, Stake, v))
    BY <1>2, <1>5, <1>6, <1>7, Sequel
  <2> QED BY <1>6, <1>7, <2>1
<1>9. t.err = "none" => Effect(t, Remember(AddToStake(t, k, v), k, s.stakes[k]), 0, -v)
  <2>1. PICK old : old = s.stakes[k]
    OBVIOUS
  <2>2. t.err = "none" => t.stakes[k] \in Entries /\ IsState(t)
    BY <1>5, <1>8 DEF Effect
  <2>3. t.err = "none" => Effect(t, Remember(AddToStake(t, k, v), k, old), 0, -v)
    BY <2>2, StakedEffect
  <2> QED BY <2>1, <2>3
<1>10. Effect(s, u, 0 + 0, v + -v)
  <2>1. PICK x : x = Remember(AddToStake(t, k, v), k, s.stakes[k])
    OBVIOUS
  <2>2. u = (IF t.err = "none" THEN x ELSE t) /\ (t.err = "none" => Effect(t, x, 0, -v))
    BY <1>3, <1>9, <2>1
  <2> QED BY <1>7, <1>8, <2>2, Sequel
<1> QED BY <1>4, <1>7, <1>10

LEMMA StakeForContractEffect ==
  ASSUME ExecAssumption, NEW s, IsState(s), NEW k \in Keys, NEW c \in ContractIds, NEW v \in Nat
  PROVE  Effect(s, StakeForContract(s, k, c, v), 0, -v)
<1>1. PICK t : t = StakeLoaded(s, k, c, v)
  OBVIOUS
<1>2. PICK u : u = (IF t.err = "none" THEN Remember(AddToStake(t, k, v), k, s.stakes[k]) ELSE t)
  OBVIOUS
<1>3. StakeForContract(s, k, c, v) = u
  BY <1>1, <1>2, Zenon DEF StakeForContract, Then
<1>4. Effect(s, t, 0, 0) /\ t.stakes[k] \in Entries /\ IsState(t)
  <2>1. c \in Keys \cup ContractIds
    OBVIOUS
  <2>2. Effect(s, t, 0, 0) /\ t.stakes[k] \in Entries
    BY <1>1, <2>1, StakeLoadedEffect
  <2> QED BY <2>2, EffectState
<1>5. Effect(t, Remember(AddToStake(t, k, v), k, s.stakes[k]), 0, -v)
  <2>1. PICK old : old = s.stakes[k]
    OBVIOUS
  <2>2. Effect(t, Remember(AddToStake(t, k, v), k, old), 0, -v)
    BY <1>4, StakedEffect
  <2> QED BY <2>1, <2>2
<1>6. 0 \in Int /\ -v \in Int /\ 0 + 0 = 0 /\ 0 + -v = -v
  OBVIOUS
<1>7. Effect(s, u, 0 + 0, 0 + -v)
  <2>1. PICK x : x = Remember(AddToStake(t, k, v), k, s.stakes[k])
    OBVIOUS
  <2>2. u = (IF t.err = "none" THEN x ELSE t) /\ (t.err = "none" => Effect(t, x, 0, -v))
    BY <1>2, <1>5, <2>1
  <2> QED BY <1>4, <1>6, <2>2, Sequel
<1> QED BY <1>3, <1>6, <1>7

LEMMA UnstakeEffect ==
  ASSUME ExecAssumption, NEW s, IsState(s), NEW k \in Keys, NEW w, IsWithdraw(w)
  PROVE  Effect(s, Unstake(s, k, w), 0, 0)
<1> DEFINE left == TotalFunds(s.stakes[k].amount) - w.value
<1>1. PICK r : r = Require(s, CanUnstake(s, k, k, w.value))
  OBVIOUS
<1>2. PICK t : t = (IF r.err = "none" THEN Withdraw(r, Stake, w) ELSE r)
  OBVIOUS
<1>3. PICK u : u = (IF t.err = "none" THEN Require(t, left = 0 \/ left >= MinStake) ELSE t)
  OBVIOUS
<1>4. PICK x : x = (IF u.err = "none" THEN Remember(TakeFromStake(u, k, w.value), k, s.stakes[k]) ELSE u)
  OBVIOUS
<1>5. Unstake(s, k, w) = x
  BY <1>1, <1>2, <1>3, <1>4, Zenon DEF Unstake, Then
<1>6. r \in {s, Panic(s)} /\ (r.err = "none" => r = s /\ CanUnstake(s, k, k, w.value))
  BY <1>1, PanicEffect DEF Require
<1>7. PICK v \in Nat : v = w.value /\ -v \in Int /\ -v + 0 = -v /\ -v + v = 0
  BY DEF IsWithdraw
<1>8. Effect(s, t, 0, -v) /\ t.stakes = s.stakes /\ (t.err = "none" => r.err = "none")
  <2>1. Effect(s, Withdraw(s, Stake, w), 0, -v) /\ Withdraw(s, Stake, w).stakes = s.stakes
    BY <1>7, WithdrawEffect DEF ContractIds
  <2>2. PICK y : y = Withdraw(r, Stake, w)
    OBVIOUS
  <2>3. r.err = "none" => Effect(s, y, 0, -v) /\ y.stakes = s.stakes
    BY <1>6, <2>1, <2>2
  <2>4. t = (IF r.err = "none" THEN y ELSE r)
    BY <1>2, <2>2
  <2> QED BY <1>6, <2>3, <2>4, Checked
<1>9. u \in {t, Panic(t)} /\ (u.err = "none" => u = t)
  <2>1. IsState(t)
    BY <1>8 DEF Effect
  <2> QED BY <1>3, <2>1, PanicEffect DEF Require
<1>10. Effect(s, u, 0, -v)
  <2>1. u.err = "none" \/ u.err # "none"
    OBVIOUS
  <2>2. IsState(t)
    BY <1>8 DEF Effect
  <2>3. Effect(t, Panic(t), 0, 0)
    BY <2>2, PanicEffect
  <2>4. 0 \in Int /\ 0 + 0 = 0
    OBVIOUS
  <2>5. Effect(s, Panic(t), 0 + 0, -v + 0)
    BY <1>7, <1>8, <2>3, <2>4, Trans
  <2> QED BY <1>7, <1>8, <1>9, <2>4, <2>5
<1>11. u.err = "none" => Effect(u, Remember(TakeFromStake(u, k, w.value), k, s.stakes[k]), 0, v)
  <2> SUFFICES ASSUME u.err = "none" PROVE Effect(u, Remember(TakeFromStake(u, k, w.value), k, s.stakes[k]), 0, v)
    OBVIOUS
  <2>1. PICK old : old = s.stakes[k]
    OBVIOUS
  <2>2. u = t /\ r.err = "none" /\ u.stakes = s.stakes
    BY <1>8, <1>9
  <2>3. Exists(s, k) /\ s.stakes[k].amount.some /\ v <= TotalFunds(s.stakes[k].amount)
    BY <1>6, <1>7, <2>2 DEF CanUnstake
  <2>4. u.stakes[k] \in Entries /\ u.stakes[k].amount.some /\ v <= TotalFunds(u.stakes[k].amount)
    BY <2>2, <2>3, EntryIn
  <2>5. IsState(u)
    BY <1>10 DEF Effect
  <2>6. Effect(u, Remember(TakeFromStake(u, k, v), k, old), 0, v)
    BY <2>4, <2>5, UnstakedEffect
  <2> QED BY <1>7, <2>1, <2>6
<1>12. 0 \in Int /\ v \in Int /\ 0 + 0 = 0
  OBVIOUS
<1>13. Effect(s, x, 0 + 0, -v + v)
  BY <1>4, <1>7, <1>10, <1>11, <1>12, Sequel
<1> QED BY <1>5, <1>7, <1>12, <1>13

LEMMA UnstakeForContractEffect ==
  ASSUME ExecAssumption, NEW s, IsState(s), NEW k \in Keys, NEW w, IsWithdraw(w),
         NEW c \in ContractIds, c = w.contract, c # Stake
  PROVE  Effect(s, UnstakeForContract(s, k, w), 0, 0)
<1>1. PICK r : r = Require(s, CanUnstake(s, k, c, w.value))
  OBVIOUS
<1>2. PICK t : t = (IF r.err = "none" THEN ContractToContract(r, Stake, c, w.value) ELSE r)
  OBVIOUS
<1>3. PICK u : u = (IF t.err = "none" THEN Withdraw(t, c, w) ELSE t)
  OBVIOUS
<1>4. PICK x : x = (IF u.err = "none" THEN Remember(TakeFromStake(u, k, w.value), k, s.stakes[k]) ELSE u)
  OBVIOUS
<1>5. UnstakeForContract(s, k, w) = x
  BY <1>1, <1>2, <1>3, <1>4, Zenon DEF UnstakeForContract, Then
<1>6. r \in {s, Panic(s)} /\ (r.err = "none" => r = s /\ CanUnstake(s, k, c, w.value))
  BY <1>1, PanicEffect DEF Require
<1>7. PICK v \in Nat : v = w.value /\ -v \in Int /\ -v + 0 = -v /\ -v + v = 0
  BY DEF IsWithdraw
<1>8. Effect(s, t, 0, -v) /\ t.stakes = s.stakes /\ (t.err = "none" => r.err = "none")
  <2>1. Stake \in ContractIds
    BY DEF ContractIds
  <2>2. PICK y : y = ContractToContract(s, Stake, c, v)
    OBVIOUS
  <2>3. /\ Effect(s, y, 0, (IF Stake = Stake THEN -v ELSE 0) + (IF c = Stake THEN v ELSE 0))
        /\ y.stakes = s.stakes
    BY <2>1, <2>2, ContractToContractEffect
  <2>4. (IF Stake = Stake THEN -v ELSE 0) + (IF c = Stake THEN v ELSE 0) = -v
    BY <1>7
  <2>5. r.err = "none" => Effect(s, y, 0, -v) /\ y.stakes = s.stakes
    BY <2>3, <2>4
  <2>6. t = (IF r.err = "none" THEN y ELSE r)
    BY <1>2, <1>6, <1>7, <2>2
  <2> QED BY <1>6, <2>5, <2>6, Checked
<1>9. 0 \in Int /\ v \in Int /\ 0 + 0 = 0
  OBVIOUS
<1>10. Effect(s, u, 0, -v) /\ (u.err = "none" => t.err = "none" /\ u.stakes = t.stakes)
  <2>1. IsState(t)
    BY <1>8, EffectState
  <2>2. PICK y : y = Withdraw(t, c, w)
    OBVIOUS
  <2>3. Effect(t, y, 0, 0) /\ y.stakes = t.stakes
    BY <2>1, <2>2, WithdrawEffect
  <2>4. u = (IF t.err = "none" THEN y ELSE t) /\ (t.err = "none" => Effect(t, y, 0, 0))
    BY <1>3, <2>2, <2>3
  <2>5. Effect(s, u, 0 + 0, -v + 0) /\ (u.err = "none" => u = y /\ t.err = "none")
    BY <1>7, <1>8, <1>9, <2>4, Sequel
  <2> QED BY <1>7, <1>9, <2>3, <2>5
<1>11. u.err = "none" => Effect(u, Remember(TakeFromStake(u, k, w.value), k, s.stakes[k]), 0, v)
  <2> SUFFICES ASSUME u.err = "none" PROVE Effect(u, Remember(TakeFromStake(u, k, w.value), k, s.stakes[k]), 0, v)
    OBVIOUS
  <2>1. PICK old : old = s.stakes[k]
    OBVIOUS
  <2>2. r.err = "none" /\ u.stakes = s.stakes
    BY <1>8, <1>10
  <2>3. Exists(s, k) /\ s.stakes[k].amount.some /\ v <= TotalFunds(s.stakes[k].amount)
    BY <1>6, <1>7, <2>2 DEF CanUnstake
  <2>4. u.stakes[k] \in Entries /\ u.stakes[k].amount.some /\ v <= TotalFunds(u.stakes[k].amount)
    BY <2>2, <2>3, EntryIn
  <2>5. IsState(u)
    BY <1>10, EffectState
  <2>6. Effect(u, Remember(TakeFromStake(u, k, v), k, old), 0, v)
    BY <2>4, <2>5, UnstakedEffect
  <2> QED BY <1>7, <2>1, <2>6
<1>12. Effect(s, x, 0 + 0, -v + v)
  BY <1>4, <1>7, <1>9, <1>10, <1>11, Sequel
<1> QED BY <1>5, <1>7, <1>9, <1>12

LEMMA WithdrawRewardEffect ==
  ASSUME ExecAssumption, NEW s, IsState(s), NEW k \in Keys, NEW w, IsWithdraw(w)
  PROVE  Effect(s, WithdrawReward(s, k, w), 0, 0)
<1>1. PICK r : r = Require(s, CanCollect(s, k, k, w.value))
  OBVIOUS
<1>2. PICK t : t = (IF r.err = "none" THEN Mint(r, Stake, w) ELSE r)
  OBVIOUS
<1>3. PICK x : x = (IF t.err = "none" THEN TakeReward(t, k, w.value) ELSE t)
  OBVIOUS
<1>4. WithdrawReward(s, k, w) = x
  BY <1>1, <1>2, <1>3, Zenon DEF WithdrawReward, Then
<1>5. r \in {s, Panic(s)} /\ (r.err = "none" => r = s /\ CanCollect(s, k, k, w.value))
  BY <1>1, PanicEffect DEF Require
<1>6. PICK v \in Nat : v = w.value /\ -v \in Int /\ v \in Int /\ v + -v = 0 /\ 0 + 0 = 0 /\ 0 \in Int
  BY DEF IsWithdraw
<1>7. Effect(s, t, v, 0) /\ t.stakes = s.stakes /\ (t.err = "none" => r.err = "none")
  <2>1. PICK y : y = Mint(s, Stake, w)
    OBVIOUS
  <2>2. r.err = "none" => Effect(s, y, v, 0) /\ y.stakes = s.stakes
    BY <1>6, <2>1, MintEffect
  <2>3. t = (IF r.err = "none" THEN y ELSE r)
    BY <1>2, <1>5, <2>1
  <2> QED BY <1>5, <2>2, <2>3, Checked
<1>8. t.err = "none" => Effect(t, TakeReward(t, k, w.value), -v, 0)
  <2> SUFFICES ASSUME t.err = "none" PROVE Effect(t, TakeReward(t, k, w.value), -v, 0)
    OBVIOUS
  <2>1. Exists(s, k) /\ v <= s.stakes[k].reward
    BY <1>5, <1>6, <1>7 DEF CanCollect
  <2>2. t.stakes[k] \in Entries /\ v <= t.stakes[k].reward
    BY <1>7, <2>1, EntryIn
  <2>3. IsState(t)
    BY <1>7, EffectState
  <2>4. Effect(t, TakeReward(t, k, v), -v, 0)
    BY <2>2, <2>3, TakeRewardEffect
  <2> QED BY <1>6, <2>4
<1>9. Effect(s, x, v + -v, 0 + 0)
  BY <1>3, <1>6, <1>7, <1>8, Sequel
<1> QED BY <1>4, <1>6, <1>9

LEMMA WithdrawRewardForContractEffect ==
  ASSUME ExecAssumption, NEW s, IsState(s), NEW k \in Keys, NEW w, IsWithdraw(w),
         NEW c \in ContractIds, c = w.contract, c # Stake
  PROVE  Effect(s, WithdrawRewardForContract(s, k, w), 0, 0)
<1>1. PICK r : r = Require(s, CanCollect(s, k, c, w.value))
  OBVIOUS
<1>2. PICK t : t = (IF r.err = "none" THEN MintToContract(r, Stake, c, w.value) ELSE r)
  OBVIOUS
<1>3. PICK u : u = (IF t.err = "none" THEN Withdraw(t, c, w) ELSE t)
  OBVIOUS
<1>4. PICK x : x = (IF u.err = "none" THEN TakeReward(u, k, w.value) ELSE u)
  OBVIOUS
<1>5. WithdrawRewardForContract(s, k, w) = x
  BY <1>1, <1>2, <1>3, <1>4, Zenon DEF WithdrawRewardForContract, Then
<1>6. r \in {s, Panic(s)} /\ (r.err = "none" => r = s /\ CanCollect(s, k, c, w.value))
  BY <1>1, PanicEffect DEF Require
<1>7. PICK v \in Nat : v = w.value /\ -v \in Int /\ v \in Int /\ v + 0 = v /\ v + -v = 0
                        /\ 0 + 0 = 0 /\ 0 \in Int
  BY DEF IsWithdraw
<1>8. Effect(s, t, v, 0) /\ t.stakes = s.stakes /\ (t.err = "none" => r.err = "none")
  <2>1. PICK y : y = MintToContract(s, Stake, c, v)
    OBVIOUS
  <2>2. r.err = "none" => Effect(s, y, v, 0) /\ y.stakes = s.stakes
    BY <2>1, MintToContractEffect
  <2>3. t = (IF r.err = "none" THEN y ELSE r)
    BY <1>2, <1>6, <1>7, <2>1
  <2> QED BY <1>6, <2>2, <2>3, Checked
<1>9. Effect(s, u, v, 0) /\ (u.err = "none" => t.err = "none" /\ u.stakes = t.stakes)
  <2>1. IsState(t)
    BY <1>8, EffectState
  <2>2. PICK y : y = Withdraw(t, c, w)
    OBVIOUS
  <2>3. Effect(t, y, 0, 0) /\ y.stakes = t.stakes
    BY <2>1, <2>2, WithdrawEffect
  <2>4. u = (IF t.err = "none" THEN y ELSE t) /\ (t.err = "none" => Effect(t, y, 0, 0))
    BY <1>3, <2>2, <2>3
  <2>5. Effect(s, u, v + 0, 0 + 0) /\ (u.err = "none" => u = y /\ t.err = "none")
    BY <1>7, <1>8, <2>4, Sequel
  <2> QED BY <1>7, <2>3, <2>5
<1>10. u.err = "none" => Effect(u, TakeReward(u, k, w.value), -v, 0)
  <2> SUFFICES ASSUME u.err = "none" PROVE Effect(u, TakeReward(u, k, w.value), -v, 0)
    OBVIOUS
  <2>1. Exists(s, k) /\ v <= s.stakes[k].reward
    BY <1>6, <1>7, <1>8, <1>9 DEF CanCollect
  <2>2. u.stakes[k] \in Entries /\ v <= u.stakes[k].reward
    BY <1>8, <1>9, <2>1, EntryIn
  <2>3. IsState(u)
    BY <1>9, EffectState
  <2>4. Effect(u, TakeReward(u, k, v), -v, 0)
    BY <2>2, <2>3, TakeRewardEffect
  <2> QED BY <1>7, <2>4
<1>11. Effect(s, x, v + -v, 0 + 0)
  BY <1>4, <1>7, <1>9, <1>10, Sequel
<1> QED BY <1>5, <1>7, <1>11

-----------------------------------------------------------------------------
(* Calls and deployments *)

LEMMA CallFields ==
  ASSUME NEW call, IsCall(call)
  PROVE  /\ call.value \in Nat /\ call.contract \in ContractIds \cup {"none"}
         /\ call.contract # "none" => call.to \in Keys /\ \A s, c : IsWithdraw(WithdrawOf(s, call, c))
         /\ call.contract \in {Stake, "charlie"} => call.key \in Keys
         /\ call.contract = "none" \/ call.contract = TransferId
            \/ /\ call.contract \in {Stake, "charlie"}
               /\ call.fn = "stake" \/ call.fn = "unstake" \/ call.fn = "withdraw"
            \/ /\ call.contract = "alice"
               /\ call.fn \in {"deposit", "withdraw", "contract_to_account", "contract_to_contract"}
<1>1. /\ call.value \in Nat /\ call.contract \in ContractIds \cup {"none"} /\ call.phoenix \in BOOLEAN
  BY DEF IsCall
<1>2. PICK c, f : c = call.contract /\ f = call.fn /\ <<c, f>> \in Callable
  BY DEF IsCall
<1>3. /\ c = "none" \/ c = TransferId
            \/ /\ c \in {Stake, "charlie"} /\ f \in {"stake", "unstake", "withdraw"}
            \/ /\ c = "alice"
               /\ f \in {"deposit", "withdraw", "contract_to_account", "contract_to_contract"}
  BY <1>2 DEF Callable
<1>4. \A s, d : /\ WithdrawOf(s, call, d).value = call.value /\ WithdrawOf(s, call, d).to = call.to
                /\ WithdrawOf(s, call, d).phoenix = call.phoenix
  BY DEF WithdrawOf
<1>5. call.contract # "none" => call.to \in Keys
  BY DEF IsCall
<1>6. call.contract \in {Stake, "charlie"} => call.key \in Keys
  BY DEF IsCall
<1> QED BY <1>1, <1>2, <1>3, <1>4, <1>5, <1>6 DEF IsWithdraw

LEMMA AliceCallEffect ==
  ASSUME ExecAssumption, NEW s, IsState(s), NEW call, IsCall(call), call.contract = "alice"
  PROVE  Effect(s, AliceCall(s, call), 0, 0)
<1>1. /\ "alice" \in ContractIds /\ "bob" \in ContractIds /\ "alice" # Stake /\ "bob" # Stake
  BY DEF ContractIds, Stake
<1>2. PICK v \in Nat, k \in Keys : v = call.value /\ k = call.to
  BY CallFields
<1>3. PICK w : w = WithdrawOf(s, call, "alice") /\ IsWithdraw(w)
  BY CallFields
<1>4. call.fn \in {"deposit", "withdraw", "contract_to_account", "contract_to_contract"}
  BY CallFields DEF TransferId, Stake
<1>5. CASE call.fn = "deposit"
  <2>1. AliceCall(s, call) = Deposit(s, "alice", v)
    BY <1>2, <1>5 DEF AliceCall
  <2>2. Effect(s, Deposit(s, "alice", v), 0, 0)
    BY <1>1, DepositEffect
  <2> QED BY <2>1, <2>2
<1>6. CASE call.fn = "withdraw"
  <2>1. AliceCall(s, call) = Withdraw(s, "alice", w)
    BY <1>3, <1>6 DEF AliceCall
  <2>2. Effect(s, Withdraw(s, "alice", w), 0, 0)
    BY <1>1, <1>3, WithdrawEffect
  <2> QED BY <2>1, <2>2
<1>7. CASE call.fn = "contract_to_account"
  <2>1. AliceCall(s, call) = ContractToAccount(s, "alice", k, v)
    BY <1>2, <1>7 DEF AliceCall
  <2> QED BY <1>1, <2>1, ContractToAccountEffect
<1>8. CASE call.fn = "contract_to_contract"
  <2>1. AliceCall(s, call) = ContractToContract(s, "alice", "bob", v)
    BY <1>2, <1>8 DEF AliceCall
  <2>2. Effect(s, ContractToContract(s, "alice", "bob", v), 0,
               (IF "alice" = Stake THEN -v ELSE 0) + (IF "bob" = Stake THEN v ELSE 0))
    BY <1>1, ContractToContractEffect
  <2>3. (IF "alice" = Stake THEN -v ELSE 0) + (IF "bob" = Stake THEN v ELSE 0) = 0
    BY <1>1
  <2> QED BY <2>1, <2>2, <2>3
<1> QED BY <1>4, <1>5, <1>6, <1>7, <1>8

LEMMA CharlieCallEffect ==
  ASSUME ExecAssumption, NEW s, IsState(s), NEW call, IsCall(call), call.contract = "charlie"
  PROVE  Effect(s, CharlieCall(s, call), 0, 0)
<1>1. "charlie" \in ContractIds /\ Stake \in ContractIds /\ "charlie" # Stake
  BY DEF ContractIds, Stake
<1>2. PICK v \in Nat, k \in Keys : v = call.value /\ k = call.key
  BY CallFields
<1>3. PICK w : w = WithdrawOf(s, call, "charlie") /\ IsWithdraw(w) /\ w.contract = "charlie"
  <2>1. WithdrawOf(s, call, "charlie").contract = "charlie"
    BY DEF WithdrawOf
  <2> QED BY <2>1, CallFields
<1>4. call.fn = "stake" \/ call.fn = "unstake" \/ call.fn = "withdraw"
  BY CallFields DEF TransferId, Stake
<1>5. CASE call.fn = "stake"
  <2>1. PICK t : t = Deposit(s, "charlie", v)
    OBVIOUS
  <2>2. PICK u : u = (IF t.err = "none" THEN ContractToContract(t, "charlie", Stake, v) ELSE t)
    OBVIOUS
  <2>3. PICK x : x = (IF u.err = "none" THEN StakeForContract(u, k, "charlie", v) ELSE u)
    OBVIOUS
  <2>4. CharlieCall(s, call)
          = Then(Then(Deposit(s, "charlie", call.value),
                      LAMBDA z : ContractToContract(z, "charlie", Stake, call.value)),
                 LAMBDA z : StakeForContract(z, call.key, "charlie", call.value))
    BY <1>5 DEF CharlieCall
  <2>5. CharlieCall(s, call) = x
    BY <1>2, <2>1, <2>2, <2>3, <2>4, Zenon DEF Then
  <2>6. Effect(s, t, 0, 0)
    BY <1>1, <2>1, DepositEffect
  <2>7. PICK y : y = ContractToContract(t, "charlie", Stake, v)
    OBVIOUS
  <2>8. Effect(t, y, 0, v)
    <3>1. IsState(t)
      BY <2>6, EffectState
    <3>2. Effect(t, y, 0, (IF "charlie" = Stake THEN -v ELSE 0) + (IF Stake = Stake THEN v ELSE 0))
      BY <1>1, <2>7, <3>1, ContractToContractEffect
    <3>3. (IF "charlie" = Stake THEN -v ELSE 0) + (IF Stake = Stake THEN v ELSE 0) = v
      BY <1>1
    <3> QED BY <3>2, <3>3
  <2>9. 0 \in Int /\ v \in Int /\ -v \in Int /\ 0 + 0 = 0 /\ 0 + v = v /\ v + -v = 0
    OBVIOUS
  <2>10. Effect(s, u, 0, v)
    <3>1. u = (IF t.err = "none" THEN y ELSE t) /\ (t.err = "none" => Effect(t, y, 0, v))
      BY <2>2, <2>7, <2>8
    <3>2. Effect(s, u, 0 + 0, 0 + v)
      BY <2>6, <2>9, <3>1, Sequel
    <3> QED BY <2>9, <3>2
  <2>11. PICK z : z = StakeForContract(u, k, "charlie", v)
    OBVIOUS
  <2>12. Effect(u, z, 0, -v)
    <3>1. IsState(u)
      BY <2>10, EffectState
    <3> QED BY <1>1, <2>11, <3>1, StakeForContractEffect
  <2>13. Effect(s, x, 0 + 0, v + -v)
    <3>1. CASE u.err = "none"
      <4>1. x = z
        BY <2>3, <2>11, <3>1
      <4> QED BY <2>9, <2>10, <2>12, <4>1, Trans
    <3>2. CASE u.err # "none"
      <4>1. x = u
        BY <2>3, <3>2
      <4>2. PICK m, n : m = 0 + 0 /\ n = v + -v
        OBVIOUS
      <4>3. Effect(s, u, m, n)
        BY <2>10, <3>2, Fails
      <4> QED BY <4>1, <4>2, <4>3
    <3> QED BY <3>1, <3>2
  <2> QED BY <2>5, <2>9, <2>13
<1>6. CASE call.fn = "unstake"
  <2>1. CharlieCall(s, call) = UnstakeForContract(s, k, w)
    BY <1>2, <1>3, <1>6 DEF CharlieCall
  <2> QED BY <1>1, <1>3, <2>1, UnstakeForContractEffect
<1>7. CASE call.fn = "withdraw"
  <2>1. CharlieCall(s, call) = WithdrawRewardForContract(s, k, w)
    BY <1>2, <1>3, <1>7 DEF CharlieCall
  <2> QED BY <1>1, <1>3, <2>1, WithdrawRewardForContractEffect
<1> QED BY <1>4, <1>5, <1>6, <1>7

\* No call makes or loses Dusk, and the stake contract keeps what its stakes
\* add up to, unless the call fails.
LEMMA CallEffect ==
  ASSUME ExecAssumption, NEW s, IsState(s), NEW call, IsCall(call)
  PROVE  Effect(s, Call(s, call), 0, 0)
<1>1. CASE call.contract = "none"
  <2>1. Call(s, call) = s
    BY <1>1 DEF Call, TransferId, Stake
  <2> QED BY <2>1, NoEffect
<1>2. CASE call.contract = TransferId
  <2>1. PICK w : w = WithdrawOf(s, call, TransferId) /\ IsWithdraw(w)
    BY <1>2, CallFields DEF TransferId
  <2>2. Call(s, call) = Convert(s, TransferId, w)
    BY <1>2, <2>1 DEF Call, TransferId, Stake
  <2> QED BY <2>1, <2>2, ConvertEffect
<1>3. CASE call.contract = Stake
  <2>1. PICK w : w = WithdrawOf(s, call, Stake) /\ IsWithdraw(w)
    BY <1>3, CallFields DEF Stake
  <2>2. PICK v \in Nat, k \in Keys : v = call.value /\ k = call.key
    BY <1>3, CallFields
  <2>3. call.fn = "stake" \/ call.fn = "unstake" \/ call.fn = "withdraw"
    BY <1>3, CallFields DEF TransferId, Stake
  <2>4. CASE call.fn = "stake"
    <3>1. Call(s, call) = StakeAccount(s, k, v)
      BY <1>3, <2>2, <2>4 DEF Call, TransferId, Stake
    <3> QED BY <3>1, StakeAccountEffect
  <2>5. CASE call.fn = "unstake"
    <3>1. Call(s, call) = Unstake(s, k, w)
      BY <1>3, <2>1, <2>2, <2>5 DEF Call, TransferId, Stake
    <3> QED BY <2>1, <3>1, UnstakeEffect
  <2>6. CASE call.fn = "withdraw"
    <3>1. Call(s, call) = WithdrawReward(s, k, w)
      BY <1>3, <2>1, <2>2, <2>6 DEF Call, TransferId, Stake
    <3> QED BY <2>1, <3>1, WithdrawRewardEffect
  <2> QED BY <2>3, <2>4, <2>5, <2>6
<1>4. CASE call.contract = "alice"
  <2>1. Call(s, call) = AliceCall(s, call)
    BY <1>4 DEF Call, TransferId, Stake
  <2> QED BY <1>4, <2>1, AliceCallEffect
<1>5. CASE call.contract = "charlie"
  <2>1. Call(s, call) = CharlieCall(s, call)
    BY <1>5 DEF Call, TransferId, Stake
  <2> QED BY <1>5, <2>1, CharlieCallEffect
<1> QED BY <1>1, <1>2, <1>3, <1>4, <1>5, CallFields

LEMMA DeployEffect ==
  ASSUME ExecAssumption, NEW s, IsState(s), NEW tx
  PROVE  Effect(s, Deploy(s, tx), 0, 0)
<1>1. PICK r : r = Require(s, DeployFits(tx) /\ tx.code \notin s.deployed)
  OBVIOUS
<1>2. PICK u : u = [r EXCEPT !.deployed = r.deployed \cup {tx.code}]
  OBVIOUS
<1>3. Deploy(s, tx) = IF r.err = "none" THEN u ELSE r
  BY <1>1, <1>2 DEF Deploy, Then
<1>4. r \in {s, Panic(s)} /\ (r.err = "none" => r = s)
  BY <1>1, PanicEffect DEF Require
<1>5. r.err = "none" => Effect(s, u, 0, 0) /\ u.stakes = s.stakes
  <2>1. PICK v : v = r.deployed \cup {tx.code}
    OBVIOUS
  <2> SUFFICES ASSUME r.err = "none" PROVE Effect(s, u, 0, 0) /\ u.stakes = s.stakes
    OBVIOUS
  <2>2. u = [s EXCEPT !.deployed = v]
    BY <1>2, <1>4, <2>1
  <2> QED BY <2>2, NeutralEffect
<1> QED BY <1>3, <1>4, <1>5, Checked

-----------------------------------------------------------------------------
(* Spending and refunding *)

LEMMA TxFacts ==
  ASSUME NEW tx, IsTx(tx)
  PROVE  /\ tx.value \in Nat /\ tx.deposit \in Nat /\ tx.limit \in Nat /\ tx.price \in Nat
         /\ tx.used \in Nat /\ tx.bytes \in Nat /\ tx.used <= tx.limit
         /\ tx.sender \in Keys /\ tx.refund \in Keys /\ tx.receiver \in Keys \cup {NoKey}
         /\ tx.limit * tx.price \in Nat
         /\ tx.kind = "moonlight" => tx.nonce \in Nat
         /\ tx.kind # "moonlight" => tx.inputs \subseteq Nat /\ tx.clear \in BOOLEAN
         /\ IsCall(tx.call)
<1>1. /\ tx.value \in Nat /\ tx.deposit \in Nat /\ tx.limit \in Nat /\ tx.price \in Nat
      /\ tx.used \in Nat /\ tx.bytes \in Nat /\ tx.used <= tx.limit
  BY DEF IsTx
<1>2. /\ tx.sender \in Keys /\ tx.refund \in Keys /\ tx.receiver \in Keys \cup {NoKey} /\ IsCall(tx.call)
  BY DEF IsTx
<1>3. /\ tx.kind = "moonlight" => tx.nonce \in Nat
      /\ tx.kind # "moonlight" => tx.inputs \subseteq Nat /\ tx.clear \in BOOLEAN
  BY DEF IsTx
<1>4. tx.limit * tx.price \in Nat
  BY <1>1
<1> QED BY <1>1, <1>2, <1>3, <1>4

\* What a transaction sets aside: its deposit and the price of its limit.
Cost(tx) == tx.deposit + tx.limit * tx.price

\* The account of a key becomes e.
LEMMA AccountEffect ==
  ASSUME ExecAssumption, NEW s, IsState(s), NEW k \in Keys, NEW e \in [nonce : Nat, balance : Nat], NEW t,
         t = [s EXCEPT !.acct = [s.acct EXCEPT ![k] = e]]
  PROVE  Effect(s, t, e.balance - s.acct[k].balance, 0) /\ t.err = s.err
<1>1. s.acct \in [Keys -> [nonce : Nat, balance : Nat]]
  BY DEF IsState
<1>2. /\ t.acct = [s.acct EXCEPT ![k] = e] /\ t.err = s.err /\ t.height = s.height /\ t.tx = s.tx
      /\ t.dep = s.dep /\ t.cbal = s.cbal /\ t.leaves = s.leaves /\ t.nulls = s.nulls
      /\ t.roots = s.roots /\ t.stakes = s.stakes /\ DOMAIN t = DOMAIN s
  BY DEF IsState
<1>3. t.acct \in [Keys -> [nonce : Nat, balance : Nat]]
  BY <1>1, <1>2
<1>4. IsState(t)
  BY <1>2, <1>3 DEF IsState
<1>5. PICK a \in Nat, b \in Nat : a = s.acct[k].balance /\ b = e.balance
  BY <1>1
<1>6. Accounts(t) = Accounts(s) - a + b
  <2>1. PICK f, g : f = Balances(s) /\ g = Balances(t)
    OBVIOUS
  <2>2. IsFiniteSet(Keys) /\ \A j \in Keys : f[j] \in Nat
    BY <2>1, WorthParts, Finite
  <2>3. g[k] \in Nat /\ g[k] = b /\ f[k] = a /\ \A j \in Keys \ {k} : g[j] = f[j]
    BY <1>1, <1>2, <1>5, <2>1 DEF Balances
  <2>4. SumFunctionOnSet(g, Keys) = SumFunctionOnSet(f, Keys) - f[k] + g[k]
    BY <2>2, <2>3, SumUpdate
  <2> QED BY <2>1, <2>3, <2>4 DEF Accounts
<1>7. /\ Contracts(t) = Contracts(s) /\ Notes(t) = Notes(s) /\ Rewards(t) = Rewards(s)
      /\ Funds(t) = Funds(s) /\ Held(t) = Held(s)
  BY <1>2 DEF Contracts, Notes, Rewards, Funds, Held, Values, Unspent, RewardOf, Exists
<1>8. Wealth(t) = Wealth(s) + (b - a)
  BY <1>4, <1>5, <1>6, <1>7, WorthParts DEF Wealth
<1>9. Gap(t) = Gap(s) + 0
  BY <1>2, <1>7, WorthParts DEF Gap
<1> QED BY <1>2, <1>4, <1>5, <1>8, <1>9 DEF Effect

\* Notes are spent.
LEMMA NullsEffect ==
  ASSUME ExecAssumption, NEW s, IsState(s), NEW I \in SUBSET Unspent(s), NEW t,
         t = [s EXCEPT !.nulls = s.nulls \cup I]
  PROVE  /\ Effect(s, t, -SumFunctionOnSet(Values(s), I), 0) /\ t.err = s.err
         /\ SumFunctionOnSet(Values(s), I) \in Nat
<1>1. /\ t.nulls = s.nulls \cup I /\ t.err = s.err /\ t.height = s.height /\ t.tx = s.tx
      /\ t.dep = s.dep /\ t.cbal = s.cbal /\ t.leaves = s.leaves /\ t.acct = s.acct
      /\ t.roots = s.roots /\ t.stakes = s.stakes /\ DOMAIN t = DOMAIN s
  BY DEF IsState
<1>2. s.nulls \cup I \subseteq 1..Len(s.leaves)
  BY DEF IsState, Unspent
<1>3. IsState(t)
  BY <1>1, <1>2 DEF IsState
<1>4. PICK f : f = Values(s)
  OBVIOUS
<1>5. IsFiniteSet(Unspent(s)) /\ \A p \in Unspent(s) : f[p] \in Nat
  BY <1>4, WorthParts, Finite
<1>6. SumFunctionOnSet(f, Unspent(s))
        = SumFunctionOnSet(f, I) + SumFunctionOnSet(f, Unspent(s) \ I)
  BY <1>5, SumSplit
<1>7. Unspent(t) = Unspent(s) \ I
  BY <1>1 DEF Unspent
<1>8. Notes(t) = SumFunctionOnSet(f, Unspent(s) \ I)
  <2>1. \A p \in Unspent(s) \ I : f[p] = Values(t)[p]
    BY <1>1, <1>4, <1>7 DEF Values
  <2>2. IsFiniteSet(Unspent(s) \ I) /\ \A p \in Unspent(s) \ I : f[p] \in Nat
    BY <1>5, FS_Subset
  <2>3. SumFunctionOnSet(f, Unspent(s) \ I) = SumFunctionOnSet(Values(t), Unspent(s) \ I)
    BY <2>1, <2>2, SumSame
  <2> QED BY <1>7, <2>3 DEF Notes
<1>9. PICK x \in Nat : x = SumFunctionOnSet(f, I)
  <2>1. IsFiniteSet(I) /\ \A p \in I : f[p] \in Nat
    BY <1>5, FS_Subset
  <2> QED BY <2>1, SumNat
<1>10. Notes(t) = Notes(s) + (-x)
  <2>1. PICK y \in Nat : y = SumFunctionOnSet(f, Unspent(s) \ I)
    BY <1>3, <1>8, WorthParts
  <2>2. Notes(s) = x + y /\ Notes(t) = y
    BY <1>4, <1>6, <1>8, <1>9, <2>1 DEF Notes
  <2> QED BY <2>2
<1>11. /\ Contracts(t) = Contracts(s) /\ Accounts(t) = Accounts(s) /\ Rewards(t) = Rewards(s)
       /\ Funds(t) = Funds(s) /\ Held(t) = Held(s)
  BY <1>1 DEF Contracts, Accounts, Balances, Rewards, Funds, Held, RewardOf, Exists
<1>12. Wealth(t) = Wealth(s) + (-x)
  BY <1>3, <1>10, <1>11, WorthParts DEF Wealth
<1>13. Gap(t) = Gap(s) + 0
  BY <1>1, <1>11, WorthParts DEF Gap
<1> QED BY <1>1, <1>3, <1>4, <1>9, <1>12, <1>13 DEF Effect

LEMMA SpendMoonlightEffect ==
  ASSUME ExecAssumption, NEW s, IsState(s), NEW tx, IsTx(tx), tx.kind = "moonlight",
         SpendMoonlight(s, tx).err = "none", NEW d \in Nat, d = Cost(tx)
  PROVE  Effect(s, SpendMoonlight(s, tx), -d, 0)
<1> DEFINE total == tx.value + tx.deposit + tx.limit * tx.price
           from  == s.acct[tx.sender]
           to    == IF tx.receiver = NoKey THEN tx.sender ELSE tx.receiver
           e     == [nonce |-> tx.nonce, balance |-> from.balance - total]
           t     == [s EXCEPT !.acct = [s.acct EXCEPT ![tx.sender] = e]]
           bad   == ~tx.sound \/ total > from.balance \/ tx.nonce <= from.nonce
<1>1. SpendMoonlight(s, tx)
        = IF bad THEN Panic(s)
          ELSE IF tx.nonce > from.nonce + 1 THEN [s EXCEPT !.err = "nonce"]
          ELSE AddAccount(t, to, tx.value)
  BY Zenon DEF SpendMoonlight
<1>2. Panic(s).err # "none" /\ [s EXCEPT !.err = "nonce"].err # "none"
  BY DEF Panic, IsState
<1>3. SpendMoonlight(s, tx) = AddAccount(t, to, tx.value) /\ ~(total > from.balance)
  <2> HIDE DEF t, to, e
  <2> QED BY <1>1, <1>2, Zenon
<1>4. PICK k \in Keys, b \in Nat, v \in Nat, m \in Nat :
        k = tx.sender /\ b = from.balance /\ v = tx.value /\ total = v + d /\ m = b - (v + d)
  <2>1. tx.sender \in Keys /\ tx.value \in Nat /\ tx.deposit \in Nat /\ tx.limit * tx.price \in Nat
    BY TxFacts
  <2>2. from.balance \in Nat
    BY <2>1 DEF IsState
  <2>3. PICK g \in Nat, x \in Nat, v \in Nat :
          g = tx.limit * tx.price /\ x = tx.deposit /\ v = tx.value /\ d = x + g
    BY <2>1 DEF Cost
  <2>4. total = v + d
    <3>1. total = v + x + g
      BY <2>3
    <3>2. v + x + g = v + (x + g)
      OBVIOUS
    <3> QED BY <2>3, <3>1, <3>2
  <2>5. from.balance - (v + d) \in Nat
    <3> HIDE DEF total, from
    <3>1. PICK n \in Nat, b \in Nat : n = total /\ b = from.balance /\ n = v + d /\ ~(n > b)
      BY <1>3, <2>2, <2>4
    <3>2. b - (v + d) \in Nat
      BY <3>1
    <3> QED BY <3>1, <3>2
  <2> QED BY <2>1, <2>2, <2>3, <2>4, <2>5
<1>5. to \in Keys
  BY TxFacts
<1> HIDE DEF to
<1>6. Effect(s, t, -(v + d), 0)
  <2>1. e \in [nonce : Nat, balance : Nat] /\ e.balance = m
    <3>1. tx.nonce \in Nat
      BY TxFacts
    <3> HIDE DEF total, from
    <3> QED BY <1>4, <3>1
  <2>2. t = [s EXCEPT !.acct = [s.acct EXCEPT ![k] = e]]
    BY <1>4
  <2>3. s.acct[k].balance = b
    BY <1>4
  <2> HIDE DEF e, t
  <2>4. Effect(s, t, e.balance - s.acct[k].balance, 0)
    BY <2>1, <2>2, AccountEffect
  <2>5. m - b = -(v + d)
    <3>1. m = b - (v + d)
      BY <1>4
    <3> QED BY <3>1
  <2> QED BY <2>1, <2>3, <2>4, <2>5
<1> HIDE DEF t
<1>7. Effect(t, AddAccount(t, to, v), v, 0)
  <2>1. IsState(t)
    BY <1>6, EffectState
  <2> QED BY <1>5, <2>1, AddAccountEffect
<1>8. -(v + d) \in Int /\ v \in Int /\ 0 \in Int /\ -(v + d) + v = -d /\ 0 + 0 = 0
  OBVIOUS
<1>9. Effect(s, AddAccount(t, to, v), -(v + d) + v, 0 + 0)
  BY <1>6, <1>7, <1>8, Trans
<1> QED BY <1>3, <1>4, <1>8, <1>9

LEMMA SpendPhoenixEffect ==
  ASSUME ExecAssumption, NEW s, IsState(s), NEW tx, IsTx(tx), tx.kind # "moonlight",
         SpendPhoenix(s, tx).err = "none", NEW d \in Nat, d = Cost(tx)
  PROVE  Effect(s, SpendPhoenix(s, tx), -d, 0)
<1> DEFINE I == tx.inputs
           t == [s EXCEPT !.nulls = s.nulls \cup I]
           u == PushNote(t, tx.receiver, tx.value, tx.clear)
           x == PushNote(u, tx.sender, Change(s, tx), FALSE)
           bad == \/ ~tx.sound \/ tx.root \notin Range(s.roots)
                  \/ tx.inputs \cap s.nulls # {} \/ ~ProofVerifies(s, tx)
<1>1. SpendPhoenix(s, tx) = IF bad THEN Panic(s) ELSE x
  BY Zenon DEF SpendPhoenix
<1>2. SpendPhoenix(s, tx) = x /\ ~bad
  <2>1. Panic(s).err # "none"
    BY DEF Panic, IsState
  <2> HIDE DEF x, bad
  <2> QED BY <1>1, <2>1, Zenon
<1>3. I \in SUBSET Unspent(s)
  <2>1. PICK n \in DOMAIN s.roots : tx.root = s.roots[n]
    BY <1>2 DEF Range
  <2>2. s.roots[n] \in Nat /\ s.roots[n] <= Len(s.leaves) /\ Len(s.leaves) \in Nat
    <3>1. s.roots \in Seq(Nat) /\ n \in 1..Len(s.roots) /\ Len(s.leaves) \in Nat
          /\ s.roots[n] <= Len(s.leaves)
      BY DEF IsState
    <3>2. s.roots[n] \in Nat
      BY <3>1, SeqElement
    <3> QED BY <3>1, <3>2
  <2>3. PICK r \in Nat, l \in Nat : r = tx.root /\ l = Len(s.leaves) /\ r <= l
    BY <2>1, <2>2
  <2>4. I \subseteq 1..r /\ I \cap s.nulls = {}
    BY <1>2, <2>3 DEF ProofVerifies
  <2>5. 1..r \subseteq 1..l
    BY <2>3
  <2> QED BY <2>3, <2>4, <2>5 DEF Unspent
<1>4. PICK y \in Nat : y = SumFunctionOnSet(Values(s), I)
  BY <1>3, NullsEffect
<1>5. InputValue(s, tx) = y
  <2>1. PICK f, g : f = [p \in I |-> s.leaves[p].value] /\ g = Values(s)
    OBVIOUS
  <2>2. IsFiniteSet(I) /\ \A p \in I : g[p] \in Nat /\ g[p] = f[p]
    <3>1. IsFiniteSet(I)
      BY <1>3, Finite, FS_Subset
    <3>2. \A p \in I : g[p] \in Nat
      BY <1>3, <2>1, WorthParts
    <3>3. \A p \in I : g[p] = f[p]
      BY <1>3, <2>1 DEF Values
    <3> QED BY <3>1, <3>2, <3>3
  <2>3. SumFunctionOnSet(g, I) = SumFunctionOnSet(f, I)
    BY <2>2, SumSame
  <2>4. InputValue(s, tx) = SumFunctionOnSet(f, I)
    BY <2>1 DEF InputValue, SumFunction
  <2> QED BY <1>4, <2>1, <2>3, <2>4
<1>6. PICK v \in Nat, c \in Nat : v = tx.value /\ c = Change(s, tx) /\ c = y - (v + d)
  <2>1. tx.value \in Nat /\ tx.deposit \in Nat /\ tx.limit * tx.price \in Nat
    BY TxFacts
  <2>2. PICK g \in Nat, z \in Nat, v \in Nat :
          g = tx.limit * tx.price /\ z = tx.deposit /\ v = tx.value /\ d = z + g
    BY <2>1 DEF Cost
  <2>3. Change(s, tx) = y - v - z - g
    BY <1>5, <2>2 DEF Change
  <2>4. y >= v + z + g
    BY <1>2, <1>5, <2>2 DEF ProofVerifies
  <2>5. y - v - z - g = y - (v + d) /\ y - (v + d) \in Nat
    <3>1. d = z + g
      BY <2>2
    <3> QED BY <2>4, <3>1
  <2> QED BY <2>2, <2>3, <2>5
<1>7. Effect(s, t, -y, 0)
  BY <1>3, <1>4, NullsEffect
<1> HIDE DEF t
<1>8. Effect(t, u, v, 0)
  <2>1. IsState(t) /\ tx.receiver \in Keys \cup {NoKey} /\ tx.clear \in BOOLEAN
    BY <1>7, EffectState, TxFacts
  <2>2. PICK r \in Keys \cup {NoKey}, b \in BOOLEAN : r = tx.receiver /\ b = tx.clear
    BY <2>1
  <2>3. Effect(t, PushNote(t, r, v, b), v, 0)
    BY <2>1, PushNoteEffect
  <2> QED BY <1>6, <2>2, <2>3
<1> HIDE DEF u
<1>9. Effect(u, x, c, 0)
  <2>1. PICK r \in Keys \cup {NoKey} : r = tx.sender
    BY TxFacts
  <2>2. IsState(u) /\ FALSE \in BOOLEAN
    BY <1>8, EffectState
  <2>3. Effect(u, PushNote(u, r, c, FALSE), c, 0)
    BY <2>2, PushNoteEffect
  <2> QED BY <1>6, <2>1, <2>3
<1> HIDE DEF x
<1>10. PICK m \in Int : m = -y + v /\ m + c = -d /\ -y \in Int /\ v \in Int /\ c \in Int /\ 0 \in Int
                        /\ 0 + 0 = 0
  <2>1. -y + v \in Int /\ (-y + v) + c = -d
    <3>1. c = y - (v + d)
      BY <1>6
    <3> QED BY <3>1
  <2>2. PICK m \in Int : m = -y + v
    BY <2>1
  <2> QED BY <2>1, <2>2
<1>11. Effect(s, u, m, 0)
  <2>1. Effect(s, u, -y + v, 0 + 0)
    BY <1>7, <1>8, <1>10, Trans
  <2> QED BY <1>10, <2>1
<1>12. Effect(s, x, m + c, 0 + 0)
  BY <1>9, <1>10, <1>11, Trans
<1> QED BY <1>2, <1>10, <1>12

MayHold(tx, dep) ==
  dep \in {"none", "available", "taken"} /\ (dep = "available" => tx.deposit \in Nat)
Ongoing(s, tx, dep) == [s EXCEPT !.tx = tx, !.dep = dep]

\* The transaction that runs, and its deposit, change.
LEMMA OngoingEffect ==
  ASSUME ExecAssumption, NEW s, IsState(s), NEW tx, NEW dep, MayHold(tx, dep), NEW t, t = Ongoing(s, tx, dep)
  PROVE  /\ IsState(t) /\ t.tx = tx /\ t.dep = dep /\ t.err = s.err /\ t.height = s.height
         /\ Wealth(t) = Worth(s) + Held(t) /\ Gap(t) = Gap(s) /\ Worth(t) = Worth(s)
<1>1. /\ t.tx = tx /\ t.dep = dep /\ t.err = s.err /\ t.height = s.height
      /\ t.acct = s.acct /\ t.cbal = s.cbal /\ t.leaves = s.leaves /\ t.nulls = s.nulls
      /\ t.roots = s.roots /\ t.stakes = s.stakes /\ DOMAIN t = DOMAIN s
  BY DEF IsState, Ongoing
<1>2. IsState(t)
  BY <1>1 DEF IsState, MayHold
<1>3. Worth(t) = Worth(s) /\ Gap(t) = Gap(s)
  BY <1>1 DEF Worth, Gap, Unspent, Exists, Funds
<1> QED BY <1>1, <1>2, <1>3 DEF Wealth

\* A transaction is spent: what it sets aside is its deposit, which is held,
\* and the price of its limit.
LEMMA SpendEffect ==
  ASSUME ExecAssumption, NEW s, IsState(s), Idle(s), NEW tx, IsTx(tx), NEW t, t = Spend(s, tx),
         t.err = "none", NEW g \in Nat, g = tx.limit * tx.price
  PROVE  /\ IsState(t) /\ t.tx = tx /\ t.height = s.height
         /\ Wealth(t) = Worth(s) - g /\ Gap(t) = Gap(s)
<1>1. PICK r : r = Require(s, tx.price > 0)
  OBVIOUS
<1>2. PICK dep : dep = IF tx.deposit > 0 THEN "available" ELSE "none"
  OBVIOUS
<1>3. PICK u : u = Ongoing(r, tx, dep)
  OBVIOUS
<1>4. PICK x : x = Require(u, tx.deposit > 0 => tx.call.contract # "none")
  OBVIOUS
<1>5. t = IF x.err = "none"
          THEN IF tx.kind = "moonlight" THEN SpendMoonlight(x, tx) ELSE SpendPhoenix(x, tx)
          ELSE x
  BY <1>1, <1>2, <1>3, <1>4, Zenon DEF Spend, PutTransaction, Then, Ongoing
<1>6. x.err = "none"
  BY <1>5
<1>7. r \in {s, Panic(s)}
  BY <1>1 DEF Require
<1>8. IsState(r)
  BY <1>7, PanicEffect, EffectState
<1>9. PICK d \in Nat, c \in Nat : d = tx.deposit /\ c = Cost(tx) /\ c = d + g
  <2>1. tx.deposit \in Nat
    BY TxFacts
  <2>2. PICK d \in Nat : d = tx.deposit
    BY <2>1
  <2>3. Cost(tx) = d + g
    BY <2>2 DEF Cost
  <2>4. d + g \in Nat
    OBVIOUS
  <2> QED BY <2>2, <2>3, <2>4
<1>10. /\ IsState(u) /\ u.tx = tx /\ u.dep = dep /\ u.err = r.err /\ u.height = r.height
       /\ Wealth(u) = Worth(r) + Held(u) /\ Gap(u) = Gap(r)
  <2>1. MayHold(tx, dep)
    BY <1>2, <1>9 DEF MayHold
  <2> QED BY <1>3, <1>8, <2>1, OngoingEffect
<1>11. x = u
  <2>1. x \in {u, Panic(u)}
    BY <1>4 DEF Require
  <2>2. Panic(u).err = "panic"
    BY <1>10, PanicEffect
  <2> QED BY <1>6, <2>1, <2>2
<1>12. r = s
  <2>1. Panic(s).err = "panic"
    BY PanicEffect
  <2> QED BY <1>6, <1>7, <1>10, <1>11, <2>1
<1>13. Held(u) = d
  <2>1. u.tx = tx /\ u.dep = dep
    BY <1>10
  <2>2. d > 0 \/ d = 0
    OBVIOUS
  <2> QED BY <1>2, <1>9, <2>1, <2>2 DEF Held
<1>14. Effect(u, t, -c, 0)
  <2>1. t = (IF tx.kind = "moonlight" THEN SpendMoonlight(u, tx) ELSE SpendPhoenix(u, tx))
    BY <1>5, <1>6, <1>11
  <2>2. CASE tx.kind = "moonlight"
    BY <1>9, <1>10, <2>1, <2>2, SpendMoonlightEffect
  <2>3. CASE tx.kind # "moonlight"
    BY <1>9, <1>10, <2>1, <2>3, SpendPhoenixEffect
  <2> QED BY <2>2, <2>3
<1>15. /\ IsState(t) /\ t.tx = u.tx /\ t.height = u.height
       /\ Wealth(t) = Wealth(u) + (-c) /\ Gap(t) = Gap(u) + 0
  BY <1>14 DEF Effect
<1>16. PICK w \in Nat, z \in Int : w = Worth(s) /\ z = Gap(s)
  BY WorthParts, Parts
<1>17. Wealth(u) = w + d /\ Gap(u) = z
  BY <1>10, <1>12, <1>13, <1>16
<1>18. (w + d) + (-c) = w - g /\ z + 0 = z
  BY <1>9
<1> QED BY <1>10, <1>12, <1>15, <1>16, <1>17, <1>18

\* Gas that was not spent, and a deposit nobody took, are paid back.
LEMMA RefundEffect ==
  ASSUME ExecAssumption, NEW s, IsState(s), NEW tx, IsTx(tx), s.tx = tx, s.err = "none",
         NEW gas \in Nat, gas <= tx.limit, NEW m \in Nat, m = (tx.limit - gas) * tx.price
  PROVE  /\ IsState(Refund(s, gas)) /\ Idle(Refund(s, gas)) /\ Refund(s, gas).height = s.height
         /\ Worth(Refund(s, gas)) = Wealth(s) + m /\ Gap(Refund(s, gas)) = Gap(s)
<1>1. PICK h \in Nat : h = Held(s)
  BY WorthParts
<1>2. PICK v \in Nat : v = m + h
  OBVIOUS
<1>3. PICK p : p = IF tx.kind = "moonlight" THEN AddAccount(s, tx.refund, v)
                   ELSE PushNote(s, tx.refund, v, TRUE)
  OBVIOUS
<1>4. PICK t : t = Ongoing(p, NoOngoing, "none")
  OBVIOUS
<1>5. Refund(s, gas) = t
  <2>1. (tx.limit - gas) * tx.price + (IF s.dep = "available" THEN tx.deposit ELSE 0) = v
    <3>1. (IF s.dep = "available" THEN tx.deposit ELSE 0) = h
      BY <1>1 DEF Held
    <3> QED BY <1>2, <3>1
  <2> QED BY <1>3, <1>4, <2>1, Zenon DEF Refund, Ongoing
<1>6. Effect(s, p, v, 0) /\ p.err = s.err /\ p.dep = s.dep
  <2>1. tx.refund \in Keys /\ tx.refund \in Keys \cup {NoKey} /\ TRUE \in BOOLEAN
    BY TxFacts
  <2>2. PICK k \in Keys : k = tx.refund
    BY <2>1
  <2>3. /\ Effect(s, AddAccount(s, k, v), v, 0) /\ AddAccount(s, k, v).err = s.err
        /\ AddAccount(s, k, v).dep = s.dep
    BY AddAccountEffect
  <2>4. /\ Effect(s, PushNote(s, k, v, TRUE), v, 0) /\ PushNote(s, k, v, TRUE).err = s.err
        /\ PushNote(s, k, v, TRUE).dep = s.dep
    <3>1. k \in Keys \cup {NoKey} /\ TRUE \in BOOLEAN
      OBVIOUS
    <3> QED BY <3>1, PushNoteEffect
  <2>5. p = AddAccount(s, k, v) \/ p = PushNote(s, k, v, TRUE)
    BY <1>3, <2>2
  <2> QED BY <2>3, <2>4, <2>5
<1>7. /\ IsState(p) /\ p.tx = s.tx /\ p.height = s.height
      /\ Wealth(p) = Wealth(s) + v /\ Gap(p) = Gap(s) + 0
  BY <1>6 DEF Effect
<1>8. /\ IsState(t) /\ t.dep = "none" /\ t.err = p.err /\ t.height = p.height
      /\ Gap(t) = Gap(p) /\ Worth(t) = Worth(p)
  <2>0. PICK tx0 : tx0 = NoOngoing
    OBVIOUS
  <2>1. PICK dep : dep = "none"
    OBVIOUS
  <2>2. MayHold(tx0, dep)
    BY <2>1 DEF MayHold
  <2>3. t = Ongoing(p, tx0, dep)
    BY <1>4, <2>0, <2>1
  <2>4. /\ IsState(t) /\ t.dep = dep /\ t.err = p.err /\ t.height = p.height
        /\ Gap(t) = Gap(p) /\ Worth(t) = Worth(p)
    BY <1>7, <2>2, <2>3, OngoingEffect
  <2> QED BY <2>1, <2>4
<1>9. Held(p) = h
  BY <1>1, <1>6, <1>7 DEF Held
<1>10. PICK w \in Nat, z \in Int, x \in Nat : w = Wealth(s) /\ z = Gap(s) /\ x = Worth(p)
  BY <1>7, WorthParts, Parts
<1>11. x + h = w + v
  BY <1>7, <1>9, <1>10 DEF Wealth
<1>12. x = w + m /\ z + 0 = z
  BY <1>2, <1>11
<1>13. Idle(t)
  BY <1>6, <1>8 DEF Idle
<1> QED BY <1>5, <1>7, <1>8, <1>10, <1>12, <1>13

-----------------------------------------------------------------------------
(* execute *)

LEMMA MaxPair ==
  ASSUME NEW a \in Nat, NEW b \in Nat
  PROVE  Max({a, b}) \in Nat
<1> DEFINE P(x) == x \in {a, b} /\ \A y \in {a, b} : x >= y
<1>1. \E x : P(x)
  <2>1. P(a) \/ P(b)
    OBVIOUS
  <2> QED BY <2>1
<1>2. Max({a, b}) = CHOOSE x : P(x)
  BY DEF Max
<1>3. P(CHOOSE x : P(x))
  <2> HIDE DEF P
  <2> QED BY <1>1
<1> QED BY <1>2, <1>3

LEMMA ChargeNat ==
  ASSUME ExecAssumption, NEW tx, IsTx(tx)
  PROVE  DeployCharge(tx, MinDeployPoints) \in Nat
<1>1. PICK b \in Nat, g \in Nat, m \in Nat : b = tx.bytes /\ g = GasPerByte /\ m = MinDeployPoints
  BY TxFacts DEF ExecAssumption
<1>2. b * g \in Nat
  OBVIOUS
<1>3. Max({b * g, m}) \in Nat
  BY <1>2, MaxPair
<1> QED BY <1>1, <1>3 DEF DeployCharge

\* What the execution of a transaction does: it leaves no trace, or it charges
\* gas within the limit and conserves the rest.
Executed(s, tx, e) ==
  /\ e.gas \in Nat
  /\ e.err # "none" => e.s = s
  /\ e.err = "none" => /\ e.gas <= tx.limit /\ e.gas * tx.price \in Nat
                       /\ IsState(e.s) /\ Idle(e.s) /\ e.s.height = s.height
                       /\ Worth(e.s) + e.gas * tx.price = Worth(s) /\ Gap(e.s) = Gap(s)

LEMMA Distribute ==
  ASSUME NEW l \in Nat, NEW g \in Nat, NEW p \in Nat, g <= l
  PROVE  /\ l * p \in Nat /\ g * p \in Nat /\ (l - g) * p \in Nat
         /\ (l - g) * p = l * p - g * p
<1>1. l * p \in Nat /\ g * p \in Nat
  OBVIOUS
<1>2. PICK k \in Nat : k = l - g
  OBVIOUS
<1>3. l = k + g /\ k * p \in Nat
  BY <1>2
<1>4. (k + g) * p = k * p + g * p
  OBVIOUS
<1>5. k * p = l * p - g * p
  BY <1>1, <1>3, <1>4
<1> QED BY <1>1, <1>2, <1>3, <1>5

\* A state with the same wealth as the spent one is refunded.
LEMMA ChargeEffect ==
  ASSUME ExecAssumption, NEW s, IsState(s), NEW tx, IsTx(tx), NEW t, IsState(t), t.tx = tx,
         t.err = "none", t.height = s.height, Gap(t) = Gap(s),
         NEW g \in Nat, g = tx.limit * tx.price, Wealth(t) = Worth(s) - g,
         NEW gas \in Nat, gas <= tx.limit, NEW e, e.err = "none", e.s = Refund(t, gas), e.gas = gas
  PROVE  Executed(s, tx, e)
<1>1. PICK l \in Nat, p \in Nat : l = tx.limit /\ p = tx.price
  BY TxFacts
<1>2. PICK m \in Nat, c \in Nat : m = (l - gas) * p /\ c = gas * p /\ m = l * p - gas * p
  BY <1>1, Distribute
<1>3. /\ IsState(Refund(t, gas)) /\ Idle(Refund(t, gas)) /\ Refund(t, gas).height = t.height
      /\ Worth(Refund(t, gas)) = Wealth(t) + m /\ Gap(Refund(t, gas)) = Gap(t)
  BY <1>1, <1>2, RefundEffect
<1>4. PICK w \in Nat : w = Worth(s)
  BY WorthParts
<1>5. ((w - g) + m) + c = w
  <2>1. m = g - c
    BY <1>1, <1>2
  <2> QED BY <2>1
<1>6. Worth(e.s) + e.gas * tx.price = w
  BY <1>1, <1>2, <1>3, <1>4, <1>5
<1> QED BY <1>1, <1>2, <1>3, <1>4, <1>6 DEF Executed

LEMMA ExecuteEffect ==
  ASSUME ExecAssumption, NEW s, IsState(s), Idle(s), NEW tx, IsTx(tx)
  PROVE  Executed(s, tx, Execute(s, tx))
<1>1. PICK e, t : e = Execute(s, tx) /\ t = Spend(s, tx)
  OBVIOUS
<1>2. CASE ~DeployCheck(tx)
  <2>1. e = [err |-> "panic", s |-> s, gas |-> 0]
    BY <1>1, <1>2 DEF Execute
  <2>2. e.err = "panic" /\ e.s = s /\ e.gas = 0
    BY <2>1
  <2> QED BY <1>1, <2>2 DEF Executed
<1>3. CASE DeployCheck(tx) /\ t.err # "none"
  <2>1. e = [err |-> t.err, s |-> s, gas |-> 0]
    BY <1>1, <1>3 DEF Execute, ExecuteSpent
  <2>2. e.err = t.err /\ e.s = s /\ e.gas = 0
    BY <2>1
  <2> QED BY <1>1, <1>3, <2>2 DEF Executed
<1>4. CASE DeployCheck(tx) /\ t.err = "none"
  <2>1. PICK u : u = IF tx.bytes > 0 THEN Deploy(t, tx) ELSE Call(t, tx.call)
    OBVIOUS
  <2>2. e = Charged(t, u, tx)
    BY <1>1, <1>4, <2>1 DEF Execute, ExecuteSpent
  <2>3. PICK g \in Nat : g = tx.limit * tx.price
    BY TxFacts
  <2>4. /\ IsState(t) /\ t.tx = tx /\ t.height = s.height
        /\ Wealth(t) = Worth(s) - g /\ Gap(t) = Gap(s)
    BY <1>1, <1>4, <2>3, SpendEffect
  <2>5. Effect(t, u, 0, 0)
    <3>1. Effect(t, Deploy(t, tx), 0, 0)
      BY <2>4, DeployEffect
    <3>2. Effect(t, Call(t, tx.call), 0, 0)
      <4>1. PICK call : call = tx.call /\ IsCall(call)
        BY TxFacts
      <4>2. Effect(t, Call(t, call), 0, 0)
        BY <2>4, <4>1, CallEffect
      <4> QED BY <4>1, <4>2
    <3> QED BY <2>1, <3>1, <3>2
  <2>6. CASE u.err # "none"
    <3>1. PICK gas \in Nat : gas = tx.limit
      BY TxFacts
    <3>2. e = [err |-> "none", s |-> Refund(t, gas), gas |-> gas]
      BY <2>2, <2>6, <3>1 DEF Charged
    <3>3. e.err = "none" /\ e.s = Refund(t, gas) /\ e.gas = gas
      BY <3>2
    <3>4. gas <= tx.limit
      BY <3>1
    <3>5. Executed(s, tx, e)
      BY <1>4, <2>3, <2>4, <3>3, <3>4, ChargeEffect
    <3> QED BY <1>1, <3>5
  <2>7. CASE u.err = "none"
    <3>1. PICK gas : gas = tx.used + (IF tx.bytes > 0 THEN DeployCharge(tx, MinDeployPoints) ELSE 0)
      OBVIOUS
    <3>2. e = [err |-> "none", s |-> Refund(u, gas), gas |-> gas]
      BY <2>2, <2>7, <3>1 DEF Charged
    <3>3. e.err = "none" /\ e.s = Refund(u, gas) /\ e.gas = gas
      BY <3>2
    <3>4. gas \in Nat /\ gas <= tx.limit
      <4>1. PICK l \in Nat, a \in Nat, c \in Nat :
              l = tx.limit /\ a = tx.used /\ c = DeployCharge(tx, MinDeployPoints) /\ a <= l
        BY TxFacts, ChargeNat
      <4>2. CASE tx.bytes > 0
        <5>1. DeployFits(tx)
          <6>1. PICK r : r = Require(t, DeployFits(tx) /\ tx.code \notin t.deployed)
            OBVIOUS
          <6>2. u = IF r.err = "none" THEN [r EXCEPT !.deployed = @ \cup {tx.code}] ELSE r
            BY <2>1, <4>2, <6>1 DEF Deploy, Then
          <6>3. r.err = "none"
            BY <2>7, <6>2
          <6>4. Panic(t).err = "panic"
            BY <2>4, PanicEffect
          <6> QED BY <1>4, <6>1, <6>3, <6>4 DEF Require
        <5>2. l - a >= a + c
          BY <4>1, <5>1 DEF DeployFits
        <5>3. gas = a + c
          BY <3>1, <4>1, <4>2
        <5> QED BY <4>1, <5>2, <5>3
      <4>3. CASE ~(tx.bytes > 0)
        <5>1. gas = a + 0
          BY <3>1, <4>1, <4>3
        <5> QED BY <4>1, <5>1
      <4> QED BY <4>2, <4>3
    <3>5. /\ IsState(u) /\ u.tx = tx /\ u.height = s.height
          /\ Wealth(u) = Worth(s) - g /\ Gap(u) = Gap(s)
      <4>1. /\ IsState(u) /\ u.tx = t.tx /\ u.height = t.height
            /\ Wealth(u) = Wealth(t) + 0 /\ Gap(u) = Gap(t) + 0
        BY <2>5, <2>7 DEF Effect
      <4>2. Wealth(t) + 0 = Wealth(t) /\ Gap(t) + 0 = Gap(t)
        BY <2>4, Parts
      <4> QED BY <2>4, <4>1, <4>2
    <3>6. Executed(s, tx, e)
      BY <2>3, <2>7, <3>3, <3>4, <3>5, ChargeEffect
    <3> QED BY <1>1, <3>6
  <2> QED BY <2>6, <2>7
<1> QED BY <1>2, <1>3, <1>4

-----------------------------------------------------------------------------
(* The end of a block *)

\* The recursion that rewards voters, with share for each credit.
VoteStep(base, share, g, V) ==
  IF V = {} THEN base
  ELSE RewardKey(g[V \ {Pick(V)}], Pick(V).key, Pick(V).credits * share)

VoteRec(base, share, S, g) == [V \in SUBSET S |-> VoteStep(base, share, g, V)]

LEMMA VoteFunctionExists ==
  ASSUME NEW S, IsFiniteSet(S), NEW base, NEW share
  PROVE  \E g : g = VoteRec(base, share, S, g)
<1> DEFINE Small(n) == {V \in SUBSET S : Cardinality(V) <= n}
           N == {n \in 0..Cardinality(S) : \E g : g = [V \in Small(n) |-> VoteStep(base, share, g, V)]}
<1>1. Cardinality(S) \in Nat
  BY FS_CardinalityType
<1>2. \A V \in SUBSET S : IsFiniteSet(V) /\ Cardinality(V) \in Nat /\ Cardinality(V) <= Cardinality(S)
  BY FS_Subset, FS_CardinalityType
<1>3. 0 \in N
  <2>1. \A V \in Small(0) : V = {}
    BY <1>2, FS_EmptySet
  <2> HIDE DEF Small
  <2> DEFINE h == [V \in Small(0) |-> base]
  <2>2. h = [V \in Small(0) |-> VoteStep(base, share, h, V)]
    BY <2>1 DEF VoteStep
  <2>3. 0 \in 0..Cardinality(S)
    BY <1>1
  <2> HIDE DEF h
  <2> QED BY <2>2, <2>3
<1>4. ASSUME NEW k \in 0..(Cardinality(S) - 1), k \in N
      PROVE  k + 1 \in N
  <2>1. PICK g : g = [V \in Small(k) |-> VoteStep(base, share, g, V)]
    BY <1>4
  <2> DEFINE h == [V \in Small(k + 1) |-> VoteStep(base, share, g, V)]
  <2>2. ASSUME NEW V \in Small(k + 1), V # {}
        PROVE  V \ {Pick(V)} \in Small(k)
    <3>1. Pick(V) \in V
      BY <2>2, PickIn
    <3>2. Cardinality(V \ {Pick(V)}) = Cardinality(V) - 1
      BY <1>2, <3>1, FS_RemoveElement
    <3>3. Cardinality(V) \in Nat /\ Cardinality(V) <= k + 1 /\ k \in Nat
      BY <1>1, <1>2, <2>2
    <3> QED BY <3>1, <3>2, <3>3
  <2>3. Small(k) \subseteq Small(k + 1)
    BY <1>1, <1>2
  <2> HIDE DEF Small
  <2>4. \A V \in Small(k) : h[V] = g[V]
    BY <2>1, <2>3
  <2>5. ASSUME NEW V \in Small(k + 1) PROVE h[V] = VoteStep(base, share, h, V)
    BY <2>2, <2>4 DEF VoteStep
  <2>6. h = [V \in Small(k + 1) |-> VoteStep(base, share, h, V)]
    <3>1. h = [V \in Small(k + 1) |-> h[V]]
      OBVIOUS
    <3> HIDE DEF h
    <3> QED BY <2>5, <3>1
  <2>7. k + 1 \in 0..Cardinality(S)
    BY <1>1
  <2> HIDE DEF h
  <2>8. PICK m \in 0..Cardinality(S) : m = k + 1
    BY <2>7
  <2>9. m \in N
    BY <2>6, <2>8
  <2> QED BY <2>8, <2>9
<1>5. Cardinality(S) \in N
  <2>1. 0..Cardinality(S) \subseteq N
    <3> HIDE DEF N
    <3> QED BY <1>1, <1>3, <1>4, UpTo
  <2>2. Cardinality(S) \in 0..Cardinality(S)
    BY <1>1
  <2> HIDE DEF N
  <2> QED BY <2>1, <2>2
<1>6. Small(Cardinality(S)) = SUBSET S
  BY <1>2
<1> QED BY <1>5, <1>6 DEF VoteRec

\* The function of the fold over the voters.
VoteFold(s, share, S) == CHOOSE g : g = [V \in SUBSET S |-> VoteStep(s, share, g, V)]

LEMMA VoteFoldFacts ==
  ASSUME NEW S, IsFiniteSet(S), NEW s, NEW share, NEW g, g = VoteFold(s, share, S)
  PROVE  \A V \in SUBSET S : g[V] = VoteStep(s, share, g, V)
<1>1. g = CHOOSE h : h = VoteRec(s, share, S, h)
  BY DEF VoteFold, VoteRec
<1>2. g = VoteRec(s, share, S, g)
  BY <1>1, VoteFunctionExists
<1> QED BY <1>2 DEF VoteRec

\* The rewards of the voters, as CloseBlock folds them.
Voted(s, share, S) == FoldSet(LAMBDA v, t : RewardKey(t, v.key, v.credits * share), s, S)

LEMMA VotedIsFold == \A s, share, S : Voted(s, share, S) = VoteFold(s, share, S)[S]
BY DEF Voted, VoteFold, FoldSet, MapThenFoldSet, VoteStep, Pick

\* Rewarding the voters makes share for each of their credits.
LEMMA VotersEffect ==
  ASSUME ExecAssumption, NEW s, IsState(s), NEW S, IsFiniteSet(S), S \subseteq [key : Keys, credits : Nat],
         NEW share \in Nat, NEW f, f = [v \in S |-> v.credits], NEW t, t = Voted(s, share, S)
  PROVE  Effect(s, t, SumFunctionOnSet(f, S) * share, 0) /\ t.err = s.err /\ t.dep = s.dep
<1>1. PICK g : g = VoteFold(s, share, S)
  OBVIOUS
<1>2. t = g[S]
  BY <1>1, VotedIsFold
<1> DEFINE Done(V, u) == Effect(s, u, SumFunctionOnSet(f, V) * share, 0) /\ u.err = s.err /\ u.dep = s.dep
           T == {V \in SUBSET S : Done(V, g[V])}
<1>3. \A v \in S : f[v] \in Nat /\ f[v] = v.credits /\ v.key \in Keys
  OBVIOUS
<1>4. ASSUME NEW V \in SUBSET S, \A x \in V : V \ {x} \in T PROVE V \in T
  <2>0. g[V] = VoteStep(s, share, g, V)
    BY <1>1, VoteFoldFacts
  <2>1. CASE V = {}
    <3>1. g[V] = s
      BY <2>0, <2>1 DEF VoteStep
    <3>2. SumFunctionOnSet(f, V) * share = 0
      BY <2>1, SumEmpty
    <3>3. Effect(s, s, 0, 0)
      BY NoEffect
    <3> QED BY <3>1, <3>2, <3>3
  <2>2. CASE V # {}
    <3>1. PICK v \in V : v = Pick(V)
      BY <2>2, PickIn
    <3>2. PICK u : u = g[V \ {v}]
      OBVIOUS
    <3>3. PICK k \in Keys, c \in Nat : k = v.key /\ c = v.credits /\ c = f[v]
      BY <1>3
    <3>4. PICK m \in Nat : m = SumFunctionOnSet(f, V \ {v})
      <4>1. IsFiniteSet(V \ {v}) /\ \A x \in V \ {v} : f[x] \in Nat
        BY <1>3, FS_Subset
      <4> QED BY <4>1, SumNat
    <3>5. SumFunctionOnSet(f, V) = c + m
      <4>1. IsFiniteSet(V) /\ \A x \in V : f[x] \in Nat
        BY <1>3, FS_Subset
      <4> QED BY <3>3, <3>4, <4>1, SumRemove
    <3>6. PICK a \in Nat, b \in Nat : a = m * share /\ b = c * share
      OBVIOUS
    <3>7. g[V] = RewardKey(u, k, b)
      BY <2>0, <2>2, <3>1, <3>2, <3>3, <3>6, Zenon DEF VoteStep
    <3>8. Effect(s, u, a, 0) /\ u.err = s.err /\ u.dep = s.dep
      BY <1>4, <3>2, <3>4, <3>6
    <3>9. PICK w : w = RewardKey(u, k, b)
      OBVIOUS
    <3>10. Effect(u, w, b, 0) /\ w.err = u.err /\ w.dep = u.dep
      <4>1. IsState(u)
        BY <3>8, EffectState
      <4> QED BY <3>9, <4>1, RewardKeyEffect
    <3>11. a \in Int /\ b \in Int /\ 0 \in Int /\ 0 + 0 = 0 /\ a + b = (c + m) * share
      <4>1. (c + m) * share = c * share + m * share
        OBVIOUS
      <4> QED BY <3>6, <4>1
    <3>12. Effect(s, w, a + b, 0 + 0)
      BY <3>8, <3>10, <3>11, Trans
    <3>13. Done(V, w)
      <4>1. Effect(s, w, SumFunctionOnSet(f, V) * share, 0)
        BY <3>5, <3>11, <3>12
      <4> QED BY <3>8, <3>10, <4>1
    <3> HIDE DEF Done
    <3> QED BY <3>7, <3>9, <3>13
  <2> QED BY <2>1, <2>2
<1>5. SUBSET S \subseteq T
  <2> HIDE DEF T
  <2> QED BY <1>4, Subsets
<1> QED BY <1>2, <1>5

-----------------------------------------------------------------------------
(* Slashing, replaying, running again and updating go through a sequence *)

\* One element of the sequence, in each of the four.
Advance(m, r, x) ==
  CASE m = "slash" -> Then(r, LAMBDA u : Slash(u, x))
    [] m = "replay" -> ReplayStep(r, Execute(r.s, x), x)
    [] m = "rerun" -> Execute(r, x).s
    [] m = "update" -> UpdateStep(r, x)

ChainStep(m, base, q, t, n) == IF n = 0 THEN base ELSE Advance(m, t[n - 1], q[n])
ChainRec(m, base, q, k, t) == [n \in 0..k |-> ChainStep(m, base, q, t, n)]
ChainFun(m, base, q) == CHOOSE t : t = ChainRec(m, base, q, Len(q), t)
Chain(m, base, q) == ChainFun(m, base, q)[Len(q)]

LEMMA ChainExists ==
  ASSUME NEW m, NEW base, NEW q, NEW l \in Nat
  PROVE  \E t : t = ChainRec(m, base, q, l, t)
<1> DEFINE N == {n \in 0..l : \E t : t = ChainRec(m, base, q, n, t)}
<1>1. 0 \in N
  <2> DEFINE h == [n \in 0..0 |-> base]
  <2>1. h = ChainRec(m, base, q, 0, h)
    BY DEF ChainRec, ChainStep
  <2> HIDE DEF h
  <2> QED BY <2>1
<1>2. ASSUME NEW k \in 0..(l - 1), k \in N
      PROVE  k + 1 \in N
  <2>1. PICK g : g = ChainRec(m, base, q, k, g)
    BY <1>2
  <2>2. PICK j \in 0..l : j = k + 1
    OBVIOUS
  <2> DEFINE h == ChainRec(m, base, q, j, g)
  <2>3. \A n \in 0..k : h[n] = g[n]
    <3> SUFFICES ASSUME NEW n \in 0..k PROVE h[n] = g[n]
      OBVIOUS
    <3>1. n \in 0..j
      BY <2>2
    <3>2. h[n] = ChainStep(m, base, q, g, n)
      BY <3>1 DEF ChainRec
    <3>3. g[n] = ChainStep(m, base, q, g, n)
      BY <2>1 DEF ChainRec
    <3> QED BY <3>2, <3>3
  <2>4. ASSUME NEW n \in 0..j PROVE h[n] = ChainStep(m, base, q, h, n)
    <3>1. h[n] = ChainStep(m, base, q, g, n)
      BY DEF ChainRec
    <3>2. n # 0 => n - 1 \in 0..k
      BY <2>2
    <3> HIDE DEF h
    <3> QED BY <2>3, <3>1, <3>2 DEF ChainStep
  <2>5. h = [n \in 0..j |-> h[n]]
    BY DEF ChainRec
  <2> HIDE DEF h
  <2>6. h = ChainRec(m, base, q, j, h)
    BY <2>4, <2>5 DEF ChainRec
  <2>7. j \in N
    BY <2>6
  <2> QED BY <2>2, <2>7
<1>3. 0..l \subseteq N
  <2> HIDE DEF N
  <2> QED BY <1>1, <1>2, UpTo
<1>4. l \in 0..l
  OBVIOUS
<1> QED BY <1>3, <1>4

LEMMA ChainFacts ==
  ASSUME NEW m, NEW base, NEW q, Len(q) \in Nat, NEW t, t = ChainFun(m, base, q)
  PROVE  \A n \in 0..Len(q) : t[n] = ChainStep(m, base, q, t, n)
<1>1. t = CHOOSE h : h = ChainRec(m, base, q, Len(q), h)
  BY DEF ChainFun
<1>2. t = ChainRec(m, base, q, Len(q), t)
  BY <1>1, ChainExists
<1> QED BY <1>2 DEF ChainRec

LEMMA ChainEmpty == \A m, base : Chain(m, base, <<>>) = base
<1> TAKE m, base
<1>1. PICK t : t = ChainFun(m, base, <<>>)
  OBVIOUS
<1>2. Len(<<>>) = 0 /\ 0 \in Nat /\ 0 \in 0..0
  OBVIOUS
<1>3. t[0] = ChainStep(m, base, <<>>, t, 0)
  BY <1>1, <1>2, ChainFacts
<1> QED BY <1>1, <1>2, <1>3 DEF Chain, ChainStep

LEMMA ChainAppend ==
  ASSUME NEW m, NEW base, NEW S, NEW q \in Seq(S), NEW x \in S
  PROVE  Chain(m, base, Append(q, x)) = Advance(m, Chain(m, base, q), x)
<1>1. PICK r : r = Append(q, x)
  OBVIOUS
<1>2. PICK l \in Nat : l = Len(q) /\ Len(r) = l + 1 /\ r[l + 1] = x /\ \A n \in 1..l : r[n] = q[n]
  BY <1>1
<1>3. PICK t, u : t = ChainFun(m, base, q) /\ u = ChainFun(m, base, r)
  OBVIOUS
<1>4. \A n \in 0..l : t[n] = ChainStep(m, base, q, t, n)
  BY <1>2, <1>3, ChainFacts
<1>5. \A n \in 0..(l + 1) : u[n] = ChainStep(m, base, r, u, n)
  <2>1. Len(r) \in Nat
    BY <1>2
  <2> QED BY <1>2, <1>3, <2>1, ChainFacts
<1> DEFINE T == {n \in 0..l : u[n] = t[n]}
<1>6. 0 \in T
  BY <1>4, <1>5 DEF ChainStep
<1>7. ASSUME NEW k \in 0..(l - 1), k \in T PROVE k + 1 \in T
  <2>1. PICK j \in 1..l : j = k + 1 /\ j \in 0..l /\ j \in 0..(l + 1) /\ j - 1 = k /\ j # 0
    OBVIOUS
  <2>2. t[j] = Advance(m, t[k], q[j]) /\ u[j] = Advance(m, u[k], r[j])
    BY <1>4, <1>5, <2>1 DEF ChainStep
  <2>3. u[j] = t[j]
    BY <1>2, <1>7, <2>1, <2>2
  <2> QED BY <2>1, <2>3
<1>8. u[l] = t[l]
  <2>1. 0..l \subseteq T
    <3> HIDE DEF T
    <3> QED BY <1>6, <1>7, UpTo
  <2> QED BY <2>1
<1>9. PICK j \in 0..(l + 1) : j = l + 1 /\ j # 0 /\ j - 1 = l
  OBVIOUS
<1>10. u[j] = Advance(m, u[l], r[j])
  BY <1>5, <1>9 DEF ChainStep
<1> QED BY <1>1, <1>2, <1>3, <1>8, <1>9, <1>10 DEF Chain

LEMMA SlashChain == \A s, q : SlashAll(s, q) = Chain("slash", s, q)
BY Zenon DEF SlashAll, Chain, ChainFun, ChainRec, ChainStep, Advance

\* What a replay has come to, without an error.
Progress(s, gas, dusk) == [s |-> s, gas |-> gas, dusk |-> dusk, err |-> "none"]

LEMMA ReplayChain == \A s, q : Replayed(s, q) = Chain("replay", Progress(s, BlockGasLimit, 0), q)
<1> TAKE s, q
<1>1. PICK base : base = Progress(s, BlockGasLimit, 0)
  OBVIOUS
<1>2. \A r : (CHOOSE t : t = [n \in 0..Len(q) |->
                IF n = 0 THEN r ELSE ReplayStep(t[n - 1], Execute(t[n - 1].s, q[n]), q[n])])[Len(q)]
             = Chain("replay", r, q)
  BY Zenon DEF Chain, ChainFun, ChainRec, ChainStep, Advance
<1>3. Replayed(s, q) =
        (CHOOSE t : t = [n \in 0..Len(q) |->
           IF n = 0 THEN base ELSE ReplayStep(t[n - 1], Execute(t[n - 1].s, q[n]), q[n])])[Len(q)]
  BY <1>1 DEF Replayed, Progress
<1> QED BY <1>1, <1>2, <1>3

LEMMA RerunChain == \A s, q : Rerun(s, q) = Chain("rerun", s, q)
BY Zenon DEF Rerun, Chain, ChainFun, ChainRec, ChainStep, Advance

\* What the update of a list has come to.
Reading(ok, f, height) == [ok |-> ok, f |-> f, height |-> height]

LEMMA UpdateChain == \A f, q, h : Updates(f, q, h) = Chain("update", Reading(TRUE, f, h), q)
<1> TAKE f, q, h
<1>1. PICK base : base = Reading(TRUE, f, h)
  OBVIOUS
<1>2. \A r : (CHOOSE t : t = [n \in 0..Len(q) |-> IF n = 0 THEN r ELSE UpdateStep(t[n - 1], q[n])])[Len(q)]
             = Chain("update", r, q)
  BY Zenon DEF Chain, ChainFun, ChainRec, ChainStep, Advance
<1>3. Updates(f, q, h) =
        (CHOOSE t : t = [n \in 0..Len(q) |-> IF n = 0 THEN base ELSE UpdateStep(t[n - 1], q[n])])[Len(q)]
  BY <1>1 DEF Updates, Reading
<1> QED BY <1>1, <1>2, <1>3

-----------------------------------------------------------------------------
(* What closing a block makes *)

LEMMA SlashAllEffect ==
  ASSUME ExecAssumption, NEW s, IsState(s), NEW q \in Seq(Keys), NEW t, t = SlashAll(s, q)
  PROVE  Effect(s, t, 0, 0) /\ (t.err = "none" => t.dep = s.dep)
<1>0. PICK l \in Nat : l = Len(q)
  OBVIOUS
<1>1. PICK f : f = ChainFun("slash", s, q)
  OBVIOUS
<1> DEFINE Done(u) == Effect(s, u, 0, 0) /\ (u.err = "none" => u.dep = s.dep)
           T == {n \in 0..l : Done(f[n])}
<1>2. \A n \in 0..l : f[n] = ChainStep("slash", s, q, f, n)
  BY <1>0, <1>1, ChainFacts
<1>3. 0 \in T
  <2>1. f[0] = s
    BY <1>2 DEF ChainStep
  <2>2. Done(s)
    BY NoEffect
  <2> HIDE DEF Done
  <2> QED BY <2>1, <2>2
<1>4. ASSUME NEW k \in 0..(l - 1), k \in T PROVE k + 1 \in T
  <2>1. PICK j \in 1..l : j = k + 1 /\ j \in 0..l /\ j - 1 = k /\ j # 0
    OBVIOUS
  <2>2. PICK u : u = f[k]
    OBVIOUS
  <2>2a. PICK x \in Keys : x = q[j]
    <3>1. q[j] \in Keys
      BY <1>0, SeqElement
    <3> QED BY <3>1
  <2>3. Effect(s, u, 0, 0) /\ (u.err = "none" => u.dep = s.dep)
    BY <1>4, <2>2
  <2>4. PICK v, w : v = Slash(u, x) /\ w = f[j]
    OBVIOUS
  <2>5. w = (IF u.err = "none" THEN v ELSE u)
    BY <1>2, <2>1, <2>2, <2>2a, <2>4 DEF ChainStep, Advance, Then
  <2>6. Effect(u, v, 0, 0) /\ (v.err = "none" => v.dep = u.dep)
    <3>1. IsState(u)
      BY <2>3, EffectState
    <3> QED BY <2>4, <3>1, SlashEffect
  <2>7. 0 \in Int /\ 0 + 0 = 0
    OBVIOUS
  <2>8. /\ Effect(s, w, 0 + 0, 0 + 0)
        /\ w.err = "none" => w = v /\ u.err = "none"
    BY <2>3, <2>5, <2>6, <2>7, Sequel
  <2>9. Done(w)
    BY <2>3, <2>6, <2>7, <2>8
  <2> HIDE DEF Done
  <2> QED BY <2>1, <2>4, <2>9
<1>5. Done(f[l])
  <2>1. 0..l \subseteq T
    <3> HIDE DEF T
    <3> QED BY <1>3, <1>4, UpTo
  <2>2. l \in 0..l
    OBVIOUS
  <2> HIDE DEF Done
  <2> QED BY <2>1, <2>2
<1>6. t = f[l]
  BY <1>0, <1>1, SlashChain DEF Chain
<1> HIDE DEF Done
<1>7. Done(t)
  BY <1>5, <1>6
<1> QED BY <1>7 DEF Done

LEMMA UpdateRootEffect ==
  ASSUME ExecAssumption, NEW s, IsState(s), NEW t, t = UpdateRoot(s)
  PROVE  Effect(s, t, 0, 0) /\ t.err = s.err /\ t.dep = s.dep
<1>0. Len(s.leaves) \in Nat /\ s.roots \in Seq(Nat)
  BY DEF IsState
<1>1. PICK l \in Nat, r \in Seq(Nat) : l = Len(s.leaves) /\ r = s.roots
  BY <1>0
<1>2. \A n \in 1..Len(r) : r[n] <= l
  BY <1>1 DEF IsState
<1>3. PICK all \in Seq(Nat) : all = Append(r, l)
  <2>1. Append(r, l) \in Seq(Nat)
    OBVIOUS
  <2> QED BY <2>1
<1>4. Len(all) = Len(r) + 1 /\ Len(all) \in Nat /\ \A n \in 1..Len(all) : all[n] <= l
  BY <1>2, <1>3
<1>5. Tail(all) \in Seq(Nat) /\ \A n \in 1..Len(Tail(all)) : Tail(all)[n] <= l
  BY <1>4
<1>6. PICK q \in Seq(Nat) : q = (IF Len(all) > MaxRoots THEN Tail(all) ELSE all)
  BY <1>5
<1>7. \A n \in DOMAIN q : q[n] <= l
  BY <1>4, <1>5, <1>6
<1>8. t = [s EXCEPT !.roots = q]
  BY <1>1, <1>3, <1>6 DEF UpdateRoot
<1>9. /\ t.roots = q /\ t.err = s.err /\ t.height = s.height /\ t.tx = s.tx /\ t.dep = s.dep
      /\ t.acct = s.acct /\ t.leaves = s.leaves /\ t.nulls = s.nulls
      /\ t.stakes = s.stakes /\ t.cbal = s.cbal /\ DOMAIN t = DOMAIN s
  BY <1>8 DEF IsState
<1>10. IsState(t)
  BY <1>1, <1>7, <1>9 DEF IsState
<1>11. Wealth(t) = Wealth(s) /\ Gap(t) = Gap(s)
  BY <1>9 DEF Wealth, Worth, Gap, Unspent, Exists, Held, Funds
<1>12. Wealth(s) + 0 = Wealth(s) /\ Gap(s) + 0 = Gap(s)
  BY Parts
<1> QED BY <1>9, <1>10, <1>11, <1>12 DEF Effect

LEMMA ShareOut ==
  ASSUME NEW x \in Nat, NEW b \in Nat, b > 0, NEW a \in Nat, a <= b
  PROVE  x \div b \in Nat /\ a * (x \div b) \in Nat /\ a * (x \div b) <= x
<1>1. PICK d \in Nat, m \in Nat : d = x \div b /\ x = b * d + m
  <2>1. x \div b \in Nat /\ x % b \in Nat /\ x = b * (x \div b) + (x % b)
    OBVIOUS
  <2> QED BY <2>1
<1>2. PICK k \in Nat : b = a + k
  <2>1. b - a \in Nat /\ b = a + (b - a)
    OBVIOUS
  <2> QED BY <2>1
<1>3. (a + k) * d = a * d + k * d
  OBVIOUS
<1>4. a * d \in Nat /\ k * d \in Nat
  OBVIOUS
<1> QED BY <1>1, <1>2, <1>3, <1>4

LEMMA ExtraBounded ==
  ASSUME ExecAssumption, NEW x \in Nat, NEW c \in Nat, c <= Credits
  PROVE  GeneratorExtra(x, c) \in Nat /\ GeneratorExtra(x, c) <= x
<1>1. PICK q \in Nat, n \in Nat : q = Quorum /\ n = Credits /\ q < n
  BY DEF ExecAssumption
<1>2. PICK b \in Nat, a \in Nat : b = n - q /\ b > 0 /\ a = (IF c > q THEN c - q ELSE 0) /\ a <= b
  <2>1. n - q \in Nat /\ n - q > 0 /\ (IF c > q THEN c - q ELSE 0) \in Nat
        /\ (IF c > q THEN c - q ELSE 0) <= n - q
    BY <1>1
  <2> QED BY <2>1
<1>3. a * (x \div b) \in Nat /\ a * (x \div b) <= x
  BY <1>2, ShareOut
<1>4. GeneratorExtra(x, c) = IF c = n THEN x ELSE a * (x \div b)
  BY <1>1, <1>2 DEF GeneratorExtra
<1> QED BY <1>3, <1>4

LEMMA WorthNat == ASSUME ExecAssumption, NEW s, IsState(s) PROVE Worth(s) \in Nat
<1>1. PICK a \in Nat, b \in Nat, c \in Nat, d \in Nat :
        a = Accounts(s) /\ b = Contracts(s) /\ c = Notes(s) /\ d = Rewards(s)
  BY WorthParts
<1>2. Worth(s) = a + b + c + d
  BY <1>1, WorthParts
<1> QED BY <1>2

LEMMA IdleWealth ==
  ASSUME ExecAssumption, NEW s, IsState(s), s.dep # "available"
  PROVE  Wealth(s) = Worth(s) /\ Worth(s) \in Nat
<1>1. Worth(s) \in Nat /\ Held(s) = 0
  BY WorthParts DEF Held
<1> QED BY <1>1 DEF Wealth

\* CloseBlock with its local definitions as parameters.
Closed(s, total, tenth, extra, share, c) ==
  LET s1 == RewardKey(s, c.generator, total - 3 * tenth)
      s2 == RewardKey(s1, DuskKey, tenth)
      s3 == IF extra = 0 THEN s2 ELSE RewardKey(s2, c.generator, extra)
      s4 == Voted(s3, share, c.voters)
      s5 == SlashAll(s4, c.slashed)
  IN IF s5.err = "none" THEN UpdateRoot(s5) ELSE s5

Voters(c) == [v \in c.voters |-> v.credits]

LEMMA CloseBlockClosed ==
  \A s, d, c :
    CloseBlock(s, d, c) =
      IF c.voters # {} /\ SumFunction(Voters(c)) = 0 /\ s.height > 1 THEN Panic(s)
      ELSE Closed(s, Emission + d, (Emission + d) \div 10,
                  GeneratorExtra((Emission + d) \div 10, SumFunction(Voters(c))),
                  VoterShare((Emission + d) \div 10), c)
BY DEF CloseBlock, Closed, Voted, Voters, Then

\* What the rewards add up to.
Made(total, tenth, extra, share, c) ==
  ((total - 3 * tenth) + tenth) + (extra + SumFunction(Voters(c)) * share)

Closes(s, total, tenth, extra, share, c, t, a) ==
  /\ IsState(s) /\ s.dep # "available" /\ IsClosing(c)
  /\ {total, tenth, extra, share, a} \subseteq Nat /\ 3 * tenth <= total
  /\ t = Closed(s, total, tenth, extra, share, c) /\ a = Made(total, tenth, extra, share, c)

LEMMA ClosedEffect ==
  ASSUME ExecAssumption, NEW s, NEW total, NEW tenth, NEW extra, NEW share, NEW c, NEW t, NEW a,
         Closes(s, total, tenth, extra, share, c, t, a)
  PROVE  Effect(s, t, a, 0) /\ (t.err = "none" => t.dep = s.dep)
<1>0. /\ IsState(s) /\ s.dep # "available" /\ IsClosing(c)
      /\ total \in Nat /\ tenth \in Nat /\ extra \in Nat /\ share \in Nat /\ a \in Nat /\ 3 * tenth <= total
      /\ t = Closed(s, total, tenth, extra, share, c) /\ a = Made(total, tenth, extra, share, c)
  BY DEF Closes
<1>1. PICK k \in Keys, d \in Keys : k = c.generator /\ d = DuskKey
  BY <1>0 DEF ExecAssumption, IsClosing
<1>2. PICK x \in Nat : x = total - 3 * tenth
  BY <1>0
<1>3. PICK s1, s2, s3, s4, s5, r :
        /\ s1 = RewardKey(s, k, x) /\ s2 = RewardKey(s1, d, tenth) /\ r = RewardKey(s2, k, extra)
        /\ s3 = (IF extra = 0 THEN s2 ELSE r)
        /\ s4 = Voted(s3, share, c.voters) /\ s5 = SlashAll(s4, c.slashed)
  BY <1>0
<1>4. PICK u : u = UpdateRoot(s5)
  BY <1>0
<1>5. t = (IF s5.err = "none" THEN u ELSE s5)
  BY <1>0, <1>1, <1>2, <1>3, <1>4, Zenon DEF Closed
<1>6. Effect(s, s1, x, 0) /\ s1.err = s.err /\ s1.dep = s.dep
  BY <1>0, <1>3, RewardKeyEffect
<1>7. Effect(s1, s2, tenth, 0) /\ s2.err = s1.err /\ s2.dep = s1.dep
  <2>1. IsState(s1)
    BY <1>0, <1>6, EffectState
  <2> QED BY <1>0, <1>3, <2>1, RewardKeyEffect
<1>8. Effect(s2, s3, extra, 0) /\ s3.err = s2.err /\ s3.dep = s2.dep
  <2>1. IsState(s2)
    BY <1>0, <1>7, EffectState
  <2>2. Effect(s2, r, extra, 0) /\ r.err = s2.err /\ r.dep = s2.dep
    BY <1>0, <1>3, <2>1, RewardKeyEffect
  <2>3. Effect(s2, s2, 0, 0)
    BY <1>0, <2>1, NoEffect
  <2> QED BY <1>0, <1>3, <2>2, <2>3
<1>9. PICK n \in Nat : n = SumFunction(Voters(c)) * share
  <2>1. DOMAIN Voters(c) = c.voters /\ IsFiniteSet(c.voters) /\ \A v \in c.voters : Voters(c)[v] \in Nat
    BY <1>0 DEF IsClosing, Voters
  <2>2. SumFunctionOnSet(Voters(c), c.voters) \in Nat
    BY <1>0, <2>1, SumNat
  <2>3. SumFunction(Voters(c)) = SumFunctionOnSet(Voters(c), c.voters)
    BY <1>0, <2>1 DEF SumFunction
  <2>4. PICK m \in Nat : m = SumFunction(Voters(c))
    BY <1>0, <2>2, <2>3
  <2>5. m * share \in Nat
    BY <1>0
  <2> QED BY <1>0, <2>4, <2>5
<1>10. Effect(s3, s4, n, 0) /\ s4.err = s3.err /\ s4.dep = s3.dep
  <2>1. IsState(s3)
    BY <1>0, <1>8, EffectState
  <2>2. IsFiniteSet(c.voters) /\ c.voters \subseteq [key : Keys, credits : Nat]
    BY <1>0 DEF IsClosing
  <2>3. PICK f : f = Voters(c)
    BY <1>0
  <2>4. f = [v \in c.voters |-> v.credits] /\ DOMAIN f = c.voters
    BY <1>0, <2>3 DEF Voters
  <2>5. SumFunction(f) = SumFunctionOnSet(f, c.voters)
    BY <1>0, <2>4 DEF SumFunction
  <2>6. Effect(s3, s4, SumFunctionOnSet(f, c.voters) * share, 0) /\ s4.err = s3.err /\ s4.dep = s3.dep
    BY <1>0, <1>3, <2>1, <2>2, <2>4, VotersEffect
  <2> QED BY <1>0, <1>9, <2>3, <2>5, <2>6
<1>11. Effect(s4, s5, 0, 0) /\ (s5.err = "none" => s5.dep = s4.dep)
  <2>1. IsState(s4)
    BY <1>0, <1>10, EffectState
  <2>2. c.slashed \in Seq(Keys)
    BY <1>0 DEF IsClosing
  <2> QED BY <1>0, <1>3, <2>1, <2>2, SlashAllEffect
<1>12. Effect(s5, u, 0, 0) /\ u.err = s5.err /\ u.dep = s5.dep
  <2>1. IsState(s5)
    BY <1>0, <1>11, EffectState
  <2> QED BY <1>0, <1>4, <2>1, UpdateRootEffect
<1>13. x \in Int /\ tenth \in Int /\ extra \in Int /\ n \in Int /\ 0 \in Int /\ 0 + 0 = 0
  BY <1>0
<1>14. PICK y \in Int, z \in Int : y = x + tenth /\ z = extra + n
  BY <1>0, <1>13
<1>15. Effect(s, s2, y, 0)
  BY <1>0, <1>6, <1>7, <1>13, <1>14, Trans
<1>16. Effect(s2, s4, z, 0)
  <2>1. IsState(s2)
    BY <1>0, <1>7, EffectState
  <2> QED BY <1>0, <1>8, <1>10, <1>13, <1>14, <2>1, Trans
<1>17. y + z = a /\ a \in Int /\ a + 0 = a
  BY <1>0, <1>2, <1>9, <1>14 DEF Made
<1>18. Effect(s, s4, a, 0)
  BY <1>0, <1>13, <1>15, <1>16, <1>17, Trans
<1>19. Effect(s, s5, a, 0)
  BY <1>0, <1>11, <1>13, <1>17, <1>18, Trans
<1>20. /\ Effect(s, t, a + 0, 0 + 0)
       /\ t.err = "none" => t = u /\ s5.err = "none"
  BY <1>0, <1>5, <1>12, <1>13, <1>17, <1>19, Sequel
<1> QED BY <1>0, <1>6, <1>7, <1>8, <1>10, <1>11, <1>12, <1>13, <1>17, <1>20

\* Closing makes at most the emission, besides giving out what transactions paid.
LEMMA CloseEffect ==
  ASSUME ExecAssumption, NEW s, IsState(s), Idle(s), NEW d \in Nat, NEW c, IsClosing(c),
         NEW t, t = CloseBlock(s, d, c), t.err = "none"
  PROVE  /\ IsState(t) /\ Idle(t) /\ t.height = s.height /\ Gap(t) = Gap(s)
         /\ Worth(t) <= Worth(s) + Emission + d
<1>1. PICK e \in Nat : e = Emission
  BY DEF ExecAssumption
<1>2. PICK total \in Nat, tenth \in Nat : total = e + d /\ tenth = total \div 10 /\ 10 * tenth <= total
  <2>1. e + d \in Nat /\ \A x \in Nat : x \div 10 \in Nat /\ 10 * (x \div 10) <= x
    OBVIOUS
  <2> QED BY <2>1
<1>3. PICK credits \in Nat : credits = SumFunction(Voters(c)) /\ credits <= Credits
  <2>1. DOMAIN Voters(c) = c.voters /\ IsFiniteSet(c.voters) /\ \A v \in c.voters : Voters(c)[v] \in Nat
    BY DEF IsClosing, Voters
  <2>2. SumFunctionOnSet(Voters(c), c.voters) \in Nat
    BY <2>1, SumNat
  <2>3. SumFunction(Voters(c)) \in Nat
    BY <2>1, <2>2 DEF SumFunction
  <2> QED BY <2>3 DEF IsClosing, Voters
<1>4. PICK n \in Nat : n = Credits /\ n > 0
  BY DEF ExecAssumption
<1>5. PICK extra \in Nat : extra = GeneratorExtra(tenth, credits) /\ extra <= tenth
  BY <1>3, ExtraBounded
<1>6. PICK share \in Nat, m \in Nat : share = VoterShare(tenth) /\ m = credits * share /\ m <= tenth
  <2>1. tenth \div n \in Nat /\ credits * (tenth \div n) \in Nat /\ credits * (tenth \div n) <= tenth
    BY <1>3, <1>4, ShareOut
  <2> QED BY <1>4, <2>1 DEF VoterShare
<1>7. PICK a \in Nat : a = ((total - 3 * tenth) + tenth) + (extra + m) /\ a <= total /\ 3 * tenth <= total
  BY <1>2, <1>5, <1>6
<1>8. t = Closed(s, total, tenth, extra, share, c)
  <2>1. t = Panic(s) \/ t = Closed(s, total, tenth, extra, share, c)
    <3>1. total = Emission + d /\ tenth = (Emission + d) \div 10
      BY <1>1, <1>2
    <3> QED BY <1>3, <1>5, <1>6, <3>1, CloseBlockClosed, Zenon
  <2>2. Panic(s).err = "panic"
    BY PanicEffect
  <2> QED BY <2>1, <2>2
<1>9. s.dep # "available" /\ s.err = "none"
  BY DEF Idle
<1>10. Effect(s, t, a, 0) /\ t.dep = s.dep
  <2>1. a = Made(total, tenth, extra, share, c)
    <3>1. PICK v : v = SumFunction(Voters(c)) * share
      OBVIOUS
    <3>2. m = v
      BY <1>3, <1>6, <3>1, Zenon
    <3> QED BY <1>7, <3>1, <3>2 DEF Made
  <2>2. s.dep # "available" /\ 3 * tenth <= total
    BY <1>7, <1>9
  <2>3. Effect(s, t, a, 0) /\ (t.err = "none" => t.dep = s.dep)
    <3>1. Closes(s, total, tenth, extra, share, c, t, a)
      BY <1>8, <2>1, <2>2 DEF Closes
    <3> QED BY <3>1, ClosedEffect
  <2> QED BY <2>3
<1>11. IsState(t) /\ t.height = s.height /\ Wealth(t) = Wealth(s) + a /\ Gap(t) = Gap(s) + 0
  BY <1>10 DEF Effect
<1>12. Wealth(t) = Worth(t) /\ Wealth(s) = Worth(s) /\ Worth(s) \in Nat /\ Gap(s) + 0 = Gap(s)
  BY <1>9, <1>10, <1>11, IdleWealth, Parts
<1>13. Worth(t) <= Worth(s) + Emission + d
  BY <1>1, <1>2, <1>7, <1>11, <1>12
<1>14. Idle(t)
  BY <1>9, <1>10 DEF Idle
<1> QED BY <1>11, <1>12, <1>13, <1>14

LEMMA SessionEffect ==
  ASSUME ExecAssumption, NEW s, IsState(s), Idle(s), NEW t, t = OpenSession(s)
  PROVE  IsState(t) /\ Idle(t) /\ t.height = s.height + 1 /\ Gap(t) = Gap(s) /\ Worth(t) = Worth(s)
<1>1. /\ t.height = s.height + 1 /\ t.dep = s.dep /\ t.err = s.err /\ t.tx = s.tx
      /\ t.acct = s.acct /\ t.leaves = s.leaves /\ t.nulls = s.nulls /\ t.roots = s.roots
      /\ t.stakes = s.stakes /\ t.cbal = s.cbal /\ DOMAIN t = DOMAIN s
  BY DEF OpenSession, OnNewBlock, IsState
<1>2. IsState(t)
  BY <1>1 DEF IsState
<1>3. Worth(t) = Worth(s) /\ Gap(t) = Gap(s)
  BY <1>1 DEF Worth, Gap, Unspent, Exists, Funds
<1> QED BY <1>1, <1>2, <1>3 DEF Idle

-----------------------------------------------------------------------------
(* The transactions wallets build *)

LEMMA BuiltTx ==
  ASSUME NEW s, IsState(s), NEW i, IsTx(i), NEW tx \in Built(s, i)
  PROVE  IsTx(tx)
<1>0. Built(s, i) = IF i.kind = "moonlight"
                    THEN {WithNonce(i, n) : n \in {s.acct[i.sender].nonce + d : d \in {0, 1, 2}}}
                    ELSE {WithNote(i, r, p) : r \in Range(s.roots), p \in 1..Len(s.leaves)}
  BY DEF Built
<1>1. CASE i.kind = "moonlight"
  <2>1. PICK n \in {s.acct[i.sender].nonce + d : d \in {0, 1, 2}} :
          tx = WithNonce(i, n)
    BY <1>0, <1>1
  <2>2. n \in Nat
    <3>1. i.sender \in Keys /\ s.acct \in [Keys -> [nonce : Nat, balance : Nat]]
      BY DEF IsTx, IsState
    <3>2. s.acct[i.sender].nonce \in Nat
      BY <3>1
    <3> QED BY <2>1, <3>2
  <2>3. PICK call : call = [i.call EXCEPT !.token = {n}]
    OBVIOUS
  <2>4. tx = [i EXCEPT !.nonce = n, !.call = call]
    BY <2>1, <2>3 DEF WithNonce
  <2>5. IsCall(call)
    BY <2>2, <2>3 DEF IsTx, IsCall
  <2>6. DOMAIN i = TxFields \cup {"nonce"}
    BY <1>1 DEF IsTx
  <2>7. DOMAIN tx = DOMAIN i /\ \A f \in DOMAIN i \ {"nonce", "call"} : tx[f] = i[f]
    BY <2>4, <2>6
  <2>8. tx.nonce = n /\ tx.call = call
    BY <2>4, <2>6 DEF TxFields
  <2>9. /\ tx.kind = i.kind /\ tx.value = i.value /\ tx.deposit = i.deposit /\ tx.limit = i.limit
        /\ tx.price = i.price /\ tx.used = i.used /\ tx.bytes = i.bytes /\ tx.sender = i.sender
        /\ tx.refund = i.refund /\ tx.receiver = i.receiver /\ "call" \in DOMAIN tx
    BY <2>6, <2>7 DEF TxFields
  <2> QED BY <1>1, <2>2, <2>5, <2>6, <2>7, <2>8, <2>9 DEF IsTx
<1>2. CASE i.kind # "moonlight"
  <2>1. PICK r \in Range(s.roots), p \in 1..Len(s.leaves) :
          tx = WithNote(i, r, p)
    BY <1>0, <1>2
  <2>2. r \in Nat /\ p \in Nat
    <3>1. s.roots \in Seq(Nat) /\ Len(s.leaves) \in Nat
      BY DEF IsState
    <3>2. r \in Nat
      BY <2>1, <3>1 DEF Range
    <3> QED BY <3>1, <3>2
  <2>3. PICK call : call = [i.call EXCEPT !.token = {p}]
    OBVIOUS
  <2>4. tx = [i EXCEPT !.root = r, !.inputs = {p}, !.call = call]
    BY <2>1, <2>3 DEF WithNote
  <2>5. IsCall(call)
    BY <2>2, <2>3 DEF IsTx, IsCall
  <2>6. DOMAIN i = TxFields \cup {"inputs", "root", "clear"} /\ i.kind = "phoenix"
    BY <1>2 DEF IsTx
  <2>7. DOMAIN tx = DOMAIN i /\ \A f \in DOMAIN i \ {"inputs", "root", "call"} : tx[f] = i[f]
    BY <2>4, <2>6
  <2>8. tx.root = r /\ tx.inputs = {p} /\ tx.call = call
    BY <2>4, <2>6 DEF TxFields
  <2>9. /\ tx.kind = i.kind /\ tx.value = i.value /\ tx.deposit = i.deposit /\ tx.limit = i.limit
        /\ tx.price = i.price /\ tx.used = i.used /\ tx.bytes = i.bytes /\ tx.sender = i.sender
        /\ tx.refund = i.refund /\ tx.receiver = i.receiver /\ tx.clear = i.clear /\ "call" \in DOMAIN tx
    BY <2>6, <2>7 DEF TxFields
  <2>10. tx.inputs \subseteq Nat /\ tx.root \in Nat /\ tx.clear \in BOOLEAN
    BY <1>2, <2>2, <2>8, <2>9 DEF IsTx
  <2> QED BY <1>2, <2>5, <2>6, <2>7, <2>8, <2>9, <2>10 DEF IsTx
<1> QED BY <1>1, <1>2

-----------------------------------------------------------------------------
(* Blocks *)

\* The state of a tip: whole, and with no more Dusk than was ever emitted.
StateOk(v) ==
  /\ IsState(v) /\ Idle(v) /\ Gap(v) = 0
  /\ Worth(v) <= Worth(Genesis) + v.height * Emission

Inner(txs) == [i \in DOMAIN txs |-> txs[i].inner]

\* No transaction was charged more than its limit.
WithinLimits(txs) == \E S : txs \in Seq(S) /\ \A x \in S : x.gas <= x.inner.limit

\* A session of a generator on the tip v: what its transactions cost has left
\* the accounts, and a node that replays them comes to the same state.
SessionOk(v, g) ==
  /\ g = [on |-> TRUE, s |-> g.s, txs |-> g.txs, gas |-> g.gas, dusk |-> g.dusk]
  /\ IsState(g.s) /\ Idle(g.s) /\ Gap(g.s) = 0 /\ g.s.height = v.height + 1
  /\ g.gas \in Nat /\ g.dusk \in Nat /\ Worth(g.s) + g.dusk = Worth(v)
  /\ WithinLimits(g.txs)
  /\ Replayed(OpenSession(v), Inner(g.txs)) = Progress(g.s, g.gas, g.dusk)
  /\ Rerun(OpenSession(v), Inner(g.txs)) = g.s

ExecInv ==
  /\ StateOk(vm)
  /\ gen = NoBlock \/ (gen.on = TRUE /\ SessionOk(vm, gen))

LEMMA OpenOk ==
  ASSUME ExecAssumption, NEW v, StateOk(v), NEW g,
         g = [on |-> TRUE, s |-> OpenSession(v), txs |-> <<>>, gas |-> BlockGasLimit, dusk |-> 0]
  PROVE  SessionOk(v, g)
<1>1. PICK s : s = OpenSession(v)
  OBVIOUS
<1>2. /\ g = [on |-> TRUE, s |-> g.s, txs |-> g.txs, gas |-> g.gas, dusk |-> g.dusk]
      /\ g.s = s /\ g.txs = <<>> /\ g.gas = BlockGasLimit /\ g.dusk = 0
  BY <1>1
<1>3. IsState(s) /\ Idle(s) /\ s.height = v.height + 1 /\ Gap(s) = Gap(v) /\ Worth(s) = Worth(v)
  BY <1>1, SessionEffect DEF StateOk
<1>4. Inner(<<>>) = <<>>
  BY DEF Inner
<1>5. Replayed(s, <<>>) = Progress(s, BlockGasLimit, 0) /\ Rerun(s, <<>>) = s
  BY ReplayChain, RerunChain, ChainEmpty
<1>6. WithinLimits(<<>>)
  <2>1. <<>> \in Seq({}) /\ \A x \in {} : x.gas <= x.inner.limit
    OBVIOUS
  <2> QED BY <2>1 DEF WithinLimits
<1>7. Worth(s) \in Nat /\ Worth(s) + 0 = Worth(s) /\ BlockGasLimit \in Nat
  <2>1. BlockGasLimit \in Nat
    BY DEF ExecAssumption
  <2>2. Worth(s) \in Nat
    BY <1>3, WorthParts
  <2> QED BY <2>1, <2>2
<1>8. Gap(v) = 0
  BY DEF StateOk
<1> QED BY <1>1, <1>2, <1>3, <1>4, <1>5, <1>6, <1>7, <1>8 DEF SessionOk

LEMMA InnerAppend ==
  ASSUME NEW S, NEW q \in Seq(S), NEW x \in S
  PROVE  /\ Inner(q) \in Seq({y.inner : y \in S})
         /\ Inner(Append(q, x)) = Append(Inner(q), x.inner)
<1>1. PICK T : T = {y.inner : y \in S}
  OBVIOUS
<1>2. Inner(q) \in Seq(T)
  <2>1. \A n \in 1..Len(q) : q[n] \in S
    OBVIOUS
  <2>2. Len(q) \in Nat /\ DOMAIN q = 1..Len(q)
    OBVIOUS
  <2>3. Inner(q) \in [1..Len(q) -> T]
    BY <1>1, <2>1, <2>2 DEF Inner
  <2> QED BY <2>2, <2>3
<1>3. PICK r : r = Inner(q)
  OBVIOUS
<1>4. x.inner \in T
  BY <1>1
<1>5. PICK l \in Nat : l = Len(q) /\ DOMAIN q = 1..l /\ Len(r) = l /\ \A n \in 1..l : r[n] = q[n].inner
  <2>1. Len(q) \in Nat /\ DOMAIN q = 1..Len(q)
    OBVIOUS
  <2>2. DOMAIN r = 1..Len(q) /\ \A n \in 1..Len(q) : r[n] = q[n].inner
    BY <1>3, <2>1 DEF Inner
  <2>3. Len(r) = Len(q)
    BY <1>2, <1>3, <2>1, <2>2
  <2> QED BY <2>1, <2>2, <2>3
<1>6. PICK a : a = Append(q, x)
  OBVIOUS
<1>7. DOMAIN a = 1..(l + 1) /\ a[l + 1] = x /\ \A n \in 1..l : a[n] = q[n]
  BY <1>5, <1>6
<1>8. PICK b : b = Append(r, x.inner)
  OBVIOUS
<1>9. b = [n \in 1..(l + 1) |-> b[n]] /\ b[l + 1] = x.inner /\ \A n \in 1..l : b[n] = r[n]
  BY <1>2, <1>3, <1>4, <1>5, <1>8
<1>10. \A n \in 1..(l + 1) : n = l + 1 \/ n \in 1..l
  OBVIOUS
<1>11. \A n \in 1..(l + 1) : b[n] = a[n].inner
  BY <1>5, <1>7, <1>9, <1>10
<1>12. Inner(a) = b
  BY <1>7, <1>9, <1>11 DEF Inner
<1> QED BY <1>1, <1>2, <1>3, <1>6, <1>8, <1>12

\* A transaction goes into the block.
Extended(g, tx, e) ==
  [g EXCEPT !.s = e.s, !.txs = Append(@, [inner |-> tx, gas |-> e.gas]),
            !.gas = @ - e.gas, !.dusk = @ + e.gas * tx.price]

LEMMA SessionFields ==
  ASSUME NEW s, NEW txs, NEW gas, NEW dusk, NEW g,
         g = [on |-> TRUE, s |-> s, txs |-> txs, gas |-> gas, dusk |-> dusk]
  PROVE  /\ g = [on |-> TRUE, s |-> g.s, txs |-> g.txs, gas |-> g.gas, dusk |-> g.dusk]
         /\ g.s = s /\ g.txs = txs /\ g.gas = gas /\ g.dusk = dusk
OBVIOUS

Updated(g, s, txs, gas, dusk) == [g EXCEPT !.s = s, !.txs = txs, !.gas = gas, !.dusk = dusk]

LEMMA SessionUpdate ==
  ASSUME NEW s, NEW txs, NEW gas, NEW dusk, NEW g,
         g = [on |-> TRUE, s |-> g.s, txs |-> g.txs, gas |-> g.gas, dusk |-> g.dusk],
         NEW h, h = Updated(g, s, txs, gas, dusk)
  PROVE  h = [on |-> TRUE, s |-> s, txs |-> txs, gas |-> gas, dusk |-> dusk]
<1> USE DEF Updated
<1>1. DOMAIN g = {"on", "s", "txs", "gas", "dusk"} /\ g.on = TRUE
  OBVIOUS
<1>2. h = [f \in {"on", "s", "txs", "gas", "dusk"} |-> h[f]]
  BY <1>1
<1>3. h.on = TRUE /\ h.s = s /\ h.txs = txs /\ h.gas = gas /\ h.dusk = dusk
  BY <1>1
<1> QED BY <1>2, <1>3

LEMMA IncludeOk ==
  ASSUME ExecAssumption, NEW v, StateOk(v), NEW g, SessionOk(v, g), NEW tx, IsTx(tx), NEW e, e = Execute(g.s, tx),
         e.err = "none", e.gas <= g.gas, NEW h, h = Extended(g, tx, e)
  PROVE  SessionOk(v, h)
<1>1. /\ g = [on |-> TRUE, s |-> g.s, txs |-> g.txs, gas |-> g.gas, dusk |-> g.dusk]
      /\ IsState(g.s) /\ Idle(g.s) /\ Gap(g.s) = 0 /\ g.s.height = v.height + 1
      /\ g.gas \in Nat /\ g.dusk \in Nat /\ Worth(g.s) + g.dusk = Worth(v)
      /\ WithinLimits(g.txs)
      /\ Replayed(OpenSession(v), Inner(g.txs)) = Progress(g.s, g.gas, g.dusk)
      /\ Rerun(OpenSession(v), Inner(g.txs)) = g.s
  BY DEF SessionOk
<1>2. /\ e.gas \in Nat /\ e.gas <= tx.limit /\ e.gas * tx.price \in Nat
      /\ IsState(e.s) /\ Idle(e.s) /\ e.s.height = g.s.height
      /\ Worth(e.s) + e.gas * tx.price = Worth(g.s) /\ Gap(e.s) = Gap(g.s)
  BY <1>1, ExecuteEffect DEF Executed
<1>3. PICK fee \in Nat, gas \in Nat, limit \in Nat, dusk \in Nat :
        fee = e.gas * tx.price /\ gas = e.gas /\ limit = g.gas /\ dusk = g.dusk
  BY <1>1, <1>2
<1>4. PICK x, txs : x = [inner |-> tx, gas |-> e.gas] /\ txs = Append(g.txs, x)
  OBVIOUS
<1>5. PICK st, ts, left, paid : st = e.s /\ ts = txs /\ left = limit - gas /\ paid = dusk + fee
  OBVIOUS
<1>6. /\ h = [on |-> TRUE, s |-> h.s, txs |-> h.txs, gas |-> h.gas, dusk |-> h.dusk]
      /\ h.s = e.s /\ h.txs = txs /\ h.gas = limit - gas /\ h.dusk = dusk + fee
  <2>1. h = Updated(g, st, ts, left, paid)
    BY <1>3, <1>4, <1>5 DEF Extended, Updated
  <2>2. h = [on |-> TRUE, s |-> st, txs |-> ts, gas |-> left, dusk |-> paid]
    BY <1>1, <2>1, SessionUpdate
  <2> QED BY <1>5, <2>2, SessionFields
<1>7. limit - gas \in Nat /\ dusk + fee \in Nat
  BY <1>3
<1>8. Worth(e.s) + (dusk + fee) = Worth(v)
  <2>1. PICK a \in Nat, b \in Nat : a = Worth(e.s) /\ b = Worth(g.s)
    BY <1>1, <1>2, WorthParts
  <2>2. a + fee = b /\ b + dusk = Worth(v)
    BY <1>1, <1>2, <1>3, <2>1
  <2>3. a + (dusk + fee) = (a + fee) + dusk
    OBVIOUS
  <2> QED BY <2>1, <2>2, <2>3
<1>9. PICK S : g.txs \in Seq(S) /\ \A y \in S : y.gas <= y.inner.limit
  BY <1>1 DEF WithinLimits
<1>10. PICK T : T = S \cup {x}
  OBVIOUS
<1>11. g.txs \in Seq(T) /\ x \in T
  BY <1>9, <1>10
<1>12. WithinLimits(txs)
  <2>1. x.gas <= x.inner.limit
    BY <1>2, <1>4
  <2>2. txs \in Seq(T)
    BY <1>4, <1>11
  <2> QED BY <1>9, <1>10, <2>1, <2>2 DEF WithinLimits
<1>13. PICK q, U : q = Inner(g.txs) /\ U = {y.inner : y \in T}
  OBVIOUS
<1>14. q \in Seq(U) /\ Inner(txs) = Append(q, tx) /\ tx \in U
  <2>1. x.inner = tx
    BY <1>4
  <2> QED BY <1>4, <1>11, <1>13, <2>1, InnerAppend
<1>15. PICK o : o = OpenSession(v)
  OBVIOUS
<1>16. Replayed(o, Inner(txs)) = Progress(e.s, limit - gas, dusk + fee)
  <2>1. PICK r : r = Progress(g.s, limit, dusk)
    OBVIOUS
  <2>2. r.s = g.s /\ r.gas = limit /\ r.dusk = dusk /\ r.err = "none"
    BY <2>1 DEF Progress
  <2>3. Replayed(o, q) = r
    BY <1>1, <1>3, <1>13, <1>15, <2>1
  <2>4. Replayed(o, Inner(txs)) = Advance("replay", r, tx)
    BY <1>14, <2>3, ReplayChain, ChainAppend
  <2>5. Advance("replay", r, tx) = ReplayStep(r, e, tx)
    BY <2>2 DEF Advance
  <2>6. ~(e.err # "none" \/ e.gas > r.gas)
    BY <1>3, <2>2
  <2>7. ReplayStep(r, e, tx) = [s |-> e.s, gas |-> r.gas - e.gas, dusk |-> r.dusk + e.gas * tx.price, err |-> "none"]
    BY <2>2, <2>6, Zenon DEF ReplayStep
  <2>8. r.gas - e.gas = limit - gas /\ r.dusk + e.gas * tx.price = dusk + fee
    BY <1>3, <2>2
  <2> QED BY <2>4, <2>5, <2>7, <2>8 DEF Progress
<1>17. Rerun(o, Inner(txs)) = e.s
  <2>1. Rerun(o, Inner(txs)) = Advance("rerun", g.s, tx)
    BY <1>1, <1>13, <1>14, <1>15, RerunChain, ChainAppend
  <2> QED BY <2>1 DEF Advance
<1> QED BY <1>1, <1>2, <1>6, <1>7, <1>8, <1>12, <1>15, <1>16, <1>17 DEF SessionOk

\* A transaction over the limit of the block changes nothing in the end.
LEMMA RebuiltOk ==
  ASSUME NEW v, NEW g, SessionOk(v, g), NEW h, h = [g EXCEPT !.s = Rerun(OpenSession(v), Inner(g.txs))]
  PROVE  h = g
BY DEF SessionOk

\* A node that replays the block closes it on the same state.
LEMMA ReplaysOk ==
  ASSUME NEW v, NEW g, SessionOk(v, g), NEW c
  PROVE  ReplayEnd(Replayed(OpenSession(v), Inner(g.txs)), c) = CloseBlock(g.s, g.dusk, c)
<1>1. PICK r : r = Progress(g.s, g.gas, g.dusk)
  OBVIOUS
<1>2. r.err = "none" /\ r.s = g.s /\ r.dusk = g.dusk
  BY <1>1 DEF Progress
<1>3. Replayed(OpenSession(v), Inner(g.txs)) = r
  BY <1>1 DEF SessionOk
<1> QED BY <1>2, <1>3 DEF ReplayEnd

LEMMA AcceptOk ==
  ASSUME ExecAssumption, NEW v, StateOk(v), NEW g, SessionOk(v, g), NEW c, IsClosing(c),
         NEW t, t = CloseBlock(g.s, g.dusk, c), t.err = "none", NEW w, w = [t EXCEPT !.events = <<>>]
  PROVE  StateOk(w)
<1>1. /\ IsState(g.s) /\ Idle(g.s) /\ Gap(g.s) = 0 /\ g.s.height = v.height + 1 /\ g.dusk \in Nat
      /\ Worth(g.s) + g.dusk = Worth(v)
  BY DEF SessionOk
<1>2. /\ IsState(t) /\ Idle(t) /\ t.height = g.s.height /\ Gap(t) = Gap(g.s)
      /\ Worth(t) <= Worth(g.s) + Emission + g.dusk
  BY <1>1, CloseEffect
<1>3. /\ w.stakes = t.stakes /\ w.err = t.err /\ w.height = t.height /\ w.tx = t.tx
      /\ w.dep = t.dep /\ w.acct = t.acct /\ w.leaves = t.leaves /\ w.nulls = t.nulls
      /\ w.roots = t.roots /\ w.cbal = t.cbal /\ DOMAIN w = DOMAIN t
  BY <1>2 DEF IsState
<1>4. IsState(w)
  BY <1>2, <1>3 DEF IsState
<1>5. Worth(w) = Worth(t) /\ Gap(w) = Gap(t)
  BY <1>3 DEF Worth, Gap, Unspent, Exists, Funds
<1>6. Idle(w)
  BY <1>2, <1>3 DEF Idle
<1>7. Worth(w) <= Worth(Genesis) + w.height * Emission
  <2>1. PICK a \in Nat, b \in Nat, z \in Nat, d \in Nat, m \in Nat, k \in Nat, x \in Nat :
          /\ a = Worth(t) /\ b = Worth(g.s) /\ z = Worth(Genesis) /\ d = g.dusk
          /\ m = Emission /\ k = v.height /\ x = Worth(v)
    <3>1. IsState(Genesis) /\ Emission \in Nat
      BY DEF ExecAssumption
    <3>2. IsState(v) /\ v.height \in Nat
      BY DEF StateOk, IsState
    <3>3. Worth(t) \in Nat /\ Worth(g.s) \in Nat /\ Worth(Genesis) \in Nat /\ Worth(v) \in Nat
      BY <1>1, <1>2, <3>1, <3>2, WorthNat
    <3> QED BY <1>1, <3>1, <3>2, <3>3
  <2>2. PICK p \in Nat : p = k * m
    OBVIOUS
  <2>3. x <= z + p
    BY <2>1, <2>2 DEF StateOk
  <2>4. b + d = x /\ a <= b + m + d
    BY <1>1, <1>2, <2>1
  <2>5. a <= z + (p + m)
    BY <2>3, <2>4
  <2>6. (k + 1) * m = p + m
    <3>1. (k + 1) * m = k * m + 1 * m /\ 1 * m = m
      OBVIOUS
    <3> QED BY <2>2, <3>1
  <2>7. w.height = k + 1
    BY <1>1, <1>2, <1>3, <2>1
  <2>8. Worth(w) = a
    BY <1>5, <2>1
  <2>9. w.height * Emission = p + m
    BY <2>1, <2>6, <2>7
  <2> QED BY <2>1, <2>5, <2>8, <2>9
<1> QED BY <1>1, <1>2, <1>4, <1>5, <1>6, <1>7 DEF StateOk

-----------------------------------------------------------------------------
(* The theorems *)

LEMMA ExecInitInv == ASSUME ExecAssumption, ExecInit PROVE ExecInv
<1>1. vm = Genesis /\ gen = NoBlock
  BY DEF ExecInit
<1>2. IsState(Genesis) /\ Idle(Genesis) /\ Genesis.cbal[Stake] = Funds(Genesis)
  BY DEF ExecAssumption
<1>3. Gap(Genesis) = 0
  BY <1>2, WorthParts DEF Gap
<1>4. Worth(Genesis) <= Worth(Genesis) + Genesis.height * Emission
  <2>1. PICK a \in Nat, h \in Nat, m \in Nat : a = Worth(Genesis) /\ h = Genesis.height /\ m = Emission
    <3>1. Worth(Genesis) \in Nat
      BY <1>2, WorthNat
    <3>2. Genesis.height \in Nat /\ Emission \in Nat
      BY <1>2 DEF IsState, ExecAssumption
    <3> QED BY <3>1, <3>2
  <2>2. h * m \in Nat
    OBVIOUS
  <2>3. a <= a + h * m
    BY <2>2
  <2> QED BY <2>1, <2>3
<1> QED BY <1>1, <1>2, <1>3, <1>4 DEF ExecInv, StateOk

LEMMA ExecNextInv ==
  ASSUME ExecAssumption, ExecInv, [ExecNext]_execVars
  PROVE  ExecInv'
<1>1. StateOk(vm) /\ (gen = NoBlock \/ (gen.on = TRUE /\ SessionOk(vm, gen)))
  BY DEF ExecInv
<1>2. ASSUME NEW v, NEW g, vm' = v, gen' = g, StateOk(v), g = NoBlock \/ (g.on = TRUE /\ SessionOk(v, g))
      PROVE  ExecInv'
  <2>1. StateOk(vm') /\ (gen' = NoBlock \/ (gen'.on = TRUE /\ SessionOk(vm', gen')))
    BY <1>2
  <2> QED BY <2>1 DEF ExecInv, NoBlock, StateOk, SessionOk
<1>3. gen.on => SessionOk(vm, gen)
  BY <1>1 DEF NoBlock
<1>4. ASSUME vm' = vm, gen' = gen PROVE ExecInv'
  BY <1>1, <1>2, <1>4
<1>5. CASE OpenBlock
  <2>1. PICK g : g = [on |-> TRUE, s |-> OpenSession(vm), txs |-> <<>>, gas |-> BlockGasLimit, dusk |-> 0]
    OBVIOUS
  <2>2. SessionOk(vm, g) /\ g.on = TRUE
    BY <1>1, <2>1, OpenOk
  <2>3. gen' = g /\ vm' = vm
    BY <1>5, <2>1 DEF OpenBlock
  <2> QED BY <1>1, <1>2, <2>2, <2>3
<1>6. CASE gen.on /\ \E i \in Intents : \E tx \in Built(gen.s, i) : TryTransaction(tx)
  <2>1. PICK i \in Intents : \E tx \in Built(gen.s, i) : TryTransaction(tx)
    BY <1>6
  <2>2. PICK tx \in Built(gen.s, i) : TryTransaction(tx)
    BY <2>1
  <2>3. SessionOk(vm, gen)
    BY <1>3, <1>6
  <2>4. IsTx(tx)
    <3>1. IsState(gen.s) /\ IsTx(i)
      BY <2>3 DEF SessionOk, ExecAssumption
    <3> QED BY <3>1, BuiltTx
  <2>5. PICK e : e = Execute(gen.s, tx)
    OBVIOUS
  <2>6. PICK x, y, z : x = Append(gen.txs, [inner |-> tx, gas |-> e.gas]) /\ y = gen.gas - e.gas
                       /\ z = gen.dusk + e.gas * tx.price
    OBVIOUS
  <2>7. PICK g, h : /\ g = [gen EXCEPT !.s = e.s, !.txs = x, !.gas = y, !.dusk = z]
                    /\ h = [gen EXCEPT !.s = Rebuilt(e)]
    OBVIOUS
  <2>8. vm' = vm
    BY <2>2 DEF TryTransaction
  <2>9. \/ e.err = "none" /\ e.gas <= gen.gas /\ gen' = g
        \/ gen' = h
        \/ gen' = gen
    BY <2>2, <2>5, <2>6, <2>7 DEF TryTransaction
  <2>10. CASE e.err = "none" /\ e.gas <= gen.gas /\ gen' = g
    <3>1. g = Extended(gen, tx, e)
      BY <2>6, <2>7 DEF Extended
    <3>2. SessionOk(vm, g)
      BY <1>1, <2>3, <2>4, <2>5, <2>10, <3>1, IncludeOk
    <3>3. g.on = TRUE
      BY <3>2 DEF SessionOk
    <3> QED BY <1>1, <1>2, <2>8, <2>10, <3>2, <3>3
  <2>11. CASE gen' = h
    <3>1. h = [gen EXCEPT !.s = Rerun(OpenSession(vm), Inner(gen.txs))]
      BY <2>7 DEF Rebuilt, Included, Inner
    <3>2. h = gen
      BY <2>3, <3>1, RebuiltOk
    <3> QED BY <1>4, <2>8, <2>11, <3>2
  <2>12. CASE gen' = gen
    BY <1>4, <2>8, <2>12
  <2> QED BY <2>9, <2>10, <2>11, <2>12
<1>7. ASSUME NEW c \in Closings, AcceptTransactions(c) PROVE ExecInv'
  <2>1. SessionOk(vm, gen)
    BY <1>3, <1>7 DEF AcceptTransactions
  <2>2. PICK s : s = Replay(Included, c) /\ s.err = "none" /\ vm' = [s EXCEPT !.events = <<>>]
    BY <1>7 DEF AcceptTransactions
  <2>3. s = CloseBlock(gen.s, gen.dusk, c)
    BY <2>1, <2>2, ReplaysOk DEF Replay, Included, Inner
  <2>4. IsClosing(c)
    BY DEF ExecAssumption
  <2>5. PICK w : w = [s EXCEPT !.events = <<>>]
    OBVIOUS
  <2>6. StateOk(w)
    BY <1>1, <2>1, <2>2, <2>3, <2>4, <2>5, AcceptOk
  <2>7. gen' = NoBlock /\ vm' = w
    BY <1>7, <2>2, <2>5 DEF AcceptTransactions
  <2> QED BY <1>2, <2>6, <2>7
<1>8. ASSUME NEW c \in Closings, GenerationFails(c) PROVE ExecInv'
  <2>1. gen' = NoBlock /\ vm' = vm
    BY <1>8 DEF GenerationFails
  <2> QED BY <1>1, <1>2, <2>1
<1>9. CASE Reload
  BY <1>4, <1>9 DEF Reload
<1>10. CASE UNCHANGED execVars
  BY <1>4, <1>10 DEF execVars
<1> QED BY <1>5, <1>6, <1>7, <1>8, <1>9, <1>10 DEF ExecNext

LEMMA ExecInvariant == ASSUME ExecAssumption PROVE ExecSpec => []ExecInv
<1>1. ExecInit => ExecInv
  BY ExecInitInv
<1>2. ExecInv /\ [ExecNext]_execVars => ExecInv'
  BY ExecNextInv
<1> QED BY <1>1, <1>2, PTL DEF ExecSpec

\* GeneratedBlockReplays in every reachable state: whatever transactions were
\* tried, skipped, discarded or thrown out for their gas (execute_transactions),
\* a node that replays the block (accept) closes it on the generator's state.
THEOREM GeneratedBlocksReplay == ASSUME ExecAssumption PROVE ExecSpec => []GeneratedBlockReplays
<1>1. ExecInv => GeneratedBlockReplays
  <2> SUFFICES ASSUME ExecInv, gen.on, NEW c \in Closings
               PROVE  Replay(Included, c) = CloseBlock(gen.s, gen.dusk, c)
    BY DEF GeneratedBlockReplays
  <2>1. SessionOk(vm, gen)
    BY DEF ExecInv, NoBlock
  <2> QED BY <2>1, ReplaysOk DEF Replay, Included, Inner
<1> QED BY <1>1, ExecInvariant, PTL

\* StakesBacked in every reachable state: in the tip and in every session, the
\* balance of the stake contract is the sum of value and locked part of all
\* stakes (stake, unstake and their variants for contracts, slash, reward).
THEOREM StakesStayBacked == ASSUME ExecAssumption PROVE ExecSpec => []StakesBacked
<1>1. ASSUME NEW s, IsState(s), Gap(s) = 0 PROVE s.cbal[Stake] = Funds(s)
  <2>1. PICK a \in Nat, b \in Nat : a = s.cbal[Stake] /\ b = Funds(s)
    BY <1>1, WorthParts
  <2>2. a - b = 0
    BY <1>1, <2>1 DEF Gap
  <2> QED BY <2>1, <2>2
<1>2. ExecInv => StakesBacked
  <2> SUFFICES ASSUME ExecInv, NEW s \in {vm} \cup (IF gen.on THEN {gen.s} ELSE {})
               PROVE  s.cbal[Stake] = Funds(s)
    BY DEF StakesBacked
  <2>1. CASE s = vm
    BY <1>1, <2>1 DEF ExecInv, StateOk
  <2>2. CASE gen.on /\ s = gen.s
    BY <1>1, <2>2 DEF ExecInv, NoBlock, SessionOk
  <2> QED BY <2>1, <2>2
<1> QED BY <1>2, ExecInvariant, PTL

\* ValueConserved in every reachable state: transactions move Dusk and pay gas
\* within their limit, and rewards add at most the emission of each block
\* (execute, refund, coinbase_value, calc_generator_extra_reward).
THEOREM ValueStaysConserved == ASSUME ExecAssumption PROVE ExecSpec => []ValueConserved
<1>1. ExecInv => TransactionsConserve /\ EmissionBounded
  BY DEF ExecInv, StateOk, SessionOk, NoBlock, TransactionsConserve, EmissionBounded, GenesisWorth
<1>2. ExecInv => GasWithinLimit
  <2> SUFFICES ASSUME ExecInv, gen.on, NEW i \in DOMAIN gen.txs
               PROVE  gen.txs[i].gas <= gen.txs[i].inner.limit
    BY DEF GasWithinLimit
  <2>1. WithinLimits(gen.txs)
    BY DEF ExecInv, NoBlock, SessionOk
  <2>2. PICK S : gen.txs \in Seq(S) /\ \A x \in S : x.gas <= x.inner.limit
    BY <2>1 DEF WithinLimits
  <2>3. gen.txs[i] \in S
    BY <2>2
  <2> QED BY <2>2, <2>3
<1>3. ExecInv => ValueConserved
  BY <1>1, <1>2 DEF ValueConserved
<1> QED BY <1>3, ExecInvariant, PTL

-----------------------------------------------------------------------------
(* Parts of a state no list of provisioners depends on *)

Fields == {"err", "height", "tx", "dep", "events", "acct", "cbal", "leaves", "nulls", "roots",
           "stakes", "prev", "deployed"}

\* A function that leaves the stake contract, its events and the height alone.
Frame(s, t) ==
  /\ DOMAIN s = Fields /\ DOMAIN t = Fields
  /\ t.stakes = s.stakes /\ t.events = s.events /\ t.prev = s.prev /\ t.height = s.height

LEMMA FrameTrans ==
  ASSUME NEW s, NEW t, NEW u, Frame(s, t), Frame(t, u)
  PROVE  Frame(s, u)
BY DEF Frame

LEMMA FrameSame == ASSUME NEW s, DOMAIN s = Fields PROVE Frame(s, s)
BY DEF Frame

LEMMA FrameExcept ==
  ASSUME NEW s, DOMAIN s = Fields, NEW v, NEW t,
         \/ t = [s EXCEPT !.err = v] \/ t = [s EXCEPT !.acct = v] \/ t = [s EXCEPT !.cbal = v]
         \/ t = [s EXCEPT !.leaves = v] \/ t = [s EXCEPT !.nulls = v] \/ t = [s EXCEPT !.roots = v]
         \/ t = [s EXCEPT !.deployed = v] \/ t = [s EXCEPT !.dep = v] \/ t = [s EXCEPT !.tx = v]
  PROVE  Frame(s, t)
BY DEF Frame, Fields

LEMMA PanicFrame == ASSUME NEW s, DOMAIN s = Fields PROVE Frame(s, Panic(s))
BY DEF Frame, Fields, Panic

LEMMA RequireFrame ==
  ASSUME NEW s, DOMAIN s = Fields, NEW cond
  PROVE  /\ Frame(s, Require(s, cond))
         /\ Require(s, cond).err = "none" => Require(s, cond) = s /\ cond
<1>1. Require(s, cond) = s \/ Require(s, cond) = Panic(s)
  BY DEF Require
<1>2. Panic(s).err = "panic"
  BY DEF Panic, Fields
<1> QED BY <1>1, <1>2, PanicFrame, FrameSame DEF Require

\* A call that goes on from t unless t failed.
LEMMA FrameSequel ==
  ASSUME NEW s, NEW t, NEW u, NEW v, Frame(s, t), Frame(t, u), v = (IF t.err = "none" THEN u ELSE t)
  PROVE  Frame(s, v) /\ (v.err = "none" => v = u /\ t.err = "none")
BY FrameTrans

LEMMA AddAccountFrame ==
  ASSUME NEW s, DOMAIN s = Fields, NEW k, NEW n
  PROVE  Frame(s, AddAccount(s, k, n))
<1>1. PICK v : v = [s.acct EXCEPT ![k] = [s.acct[k] EXCEPT !.balance = s.acct[k].balance + n]]
  OBVIOUS
<1>2. AddAccount(s, k, n) = [s EXCEPT !.acct = v]
  BY <1>1 DEF AddAccount
<1> QED BY <1>2, FrameExcept

LEMMA AddContractFrame ==
  ASSUME NEW s, DOMAIN s = Fields, NEW c, NEW n
  PROVE  Frame(s, AddContract(s, c, n))
<1>1. PICK v : v = [s.cbal EXCEPT ![c] = s.cbal[c] + n]
  OBVIOUS
<1>2. AddContract(s, c, n) = [s EXCEPT !.cbal = v]
  BY <1>1 DEF AddContract
<1> QED BY <1>2, FrameExcept

LEMMA SubContractFrame ==
  ASSUME NEW s, DOMAIN s = Fields, NEW c, NEW n
  PROVE  Frame(s, SubContract(s, c, n))
<1>1. PICK v : v = [s.cbal EXCEPT ![c] = s.cbal[c] - n]
  OBVIOUS
<1>2. SubContract(s, c, n) = Panic(s) \/ SubContract(s, c, n) = [s EXCEPT !.cbal = v]
  BY <1>1 DEF SubContract
<1> QED BY <1>2, FrameExcept, PanicFrame

LEMMA PushNoteFrame ==
  ASSUME NEW s, DOMAIN s = Fields, NEW o, NEW n, NEW clear
  PROVE  Frame(s, PushNote(s, o, n, clear))
<1>1. PICK v : v = Append(s.leaves, [owner |-> o, value |-> n])
  OBVIOUS
<1>2. PushNote(s, o, n, clear) = s \/ PushNote(s, o, n, clear) = [s EXCEPT !.leaves = v]
  BY <1>1 DEF PushNote
<1> QED BY <1>2, FrameExcept, FrameSame

LEMMA MintWithdrawalFrame ==
  ASSUME NEW s, DOMAIN s = Fields, NEW w
  PROVE  Frame(s, MintWithdrawal(s, w))
<1>1. \/ MintWithdrawal(s, w) = Panic(s)
      \/ MintWithdrawal(s, w) = PushNote(s, w.to, w.value, TRUE)
      \/ MintWithdrawal(s, w) = AddAccount(s, w.to, w.value)
  BY DEF MintWithdrawal
<1>2. /\ Frame(s, PushNote(s, w.to, w.value, TRUE)) /\ Frame(s, AddAccount(s, w.to, w.value))
      /\ Frame(s, Panic(s))
  BY PushNoteFrame, AddAccountFrame, PanicFrame
<1> QED BY <1>1, <1>2, Zenon

LEMMA FrameDomain == ASSUME NEW s, NEW t, Frame(s, t) PROVE DOMAIN t = Fields
BY DEF Frame

LEMMA WithdrawFrame ==
  ASSUME NEW s, DOMAIN s = Fields, NEW c, NEW w
  PROVE  Frame(s, Withdraw(s, c, w))
<1>1. PICK r : r = Require(s, w.contract = c /\ s.cbal[c] >= w.value)
  OBVIOUS
<1>2. PICK t : t = SubContract(r, c, w.value)
  OBVIOUS
<1>3. PICK u : u = MintWithdrawal(t, w)
  OBVIOUS
<1>4. Withdraw(s, c, w) = (IF r.err = "none" THEN u ELSE r)
  BY <1>1, <1>2, <1>3, Zenon DEF Withdraw, Then
<1>5. Frame(s, r)
  BY <1>1, RequireFrame
<1>6. Frame(r, t)
  BY <1>2, <1>5, FrameDomain, SubContractFrame
<1>7. Frame(t, u)
  BY <1>3, <1>6, FrameDomain, MintWithdrawalFrame
<1> QED BY <1>4, <1>5, <1>6, <1>7, FrameTrans

LEMMA MintFrame ==
  ASSUME NEW s, DOMAIN s = Fields, NEW c, NEW w
  PROVE  Frame(s, Mint(s, c, w))
<1>1. PICK r : r = Require(s, c = Stake /\ w.contract = Stake)
  OBVIOUS
<1>2. PICK u : u = MintWithdrawal(r, w)
  OBVIOUS
<1>3. Mint(s, c, w) = (IF r.err = "none" THEN u ELSE r)
  BY <1>1, <1>2, Zenon DEF Mint, Then
<1>4. Frame(s, r)
  BY <1>1, RequireFrame
<1>5. Frame(r, u)
  BY <1>2, <1>4, FrameDomain, MintWithdrawalFrame
<1> QED BY <1>3, <1>4, <1>5, FrameTrans

LEMMA ConvertFrame ==
  ASSUME NEW s, DOMAIN s = Fields, NEW c, NEW w
  PROVE  Frame(s, Convert(s, c, w))
<1>1. PICK r : r = Require(s, /\ c = TransferId /\ w.contract = TransferId
                              /\ s.dep = "available" /\ w.value = s.tx.deposit)
  OBVIOUS
<1>2. PICK t : t = MintWithdrawal(r, w)
  OBVIOUS
<1>3. PICK u : u = [t EXCEPT !.dep = "taken"]
  OBVIOUS
<1>4. Convert(s, c, w) = (IF r.err = "none" THEN u ELSE r)
  BY <1>1, <1>2, <1>3, Zenon DEF Convert, Then
<1>5. Frame(s, r)
  BY <1>1, RequireFrame
<1>6. Frame(r, t)
  BY <1>2, <1>5, FrameDomain, MintWithdrawalFrame
<1>7. Frame(t, u)
  BY <1>3, <1>6, FrameDomain, FrameExcept
<1> QED BY <1>4, <1>5, <1>6, <1>7, FrameTrans

LEMMA DepositFrame ==
  ASSUME NEW s, DOMAIN s = Fields, NEW c, NEW n
  PROVE  Frame(s, Deposit(s, c, n))
<1>1. PICK r : r = Require(s, s.dep = "available" /\ n = s.tx.deposit /\ c = s.tx.call.contract)
  OBVIOUS
<1>2. PICK t : t = AddContract(r, c, n)
  OBVIOUS
<1>3. PICK u : u = [t EXCEPT !.dep = "taken"]
  OBVIOUS
<1>4. Deposit(s, c, n) = (IF r.err = "none" THEN u ELSE r)
  BY <1>1, <1>2, <1>3, Zenon DEF Deposit, Then
<1>5. Frame(s, r)
  BY <1>1, RequireFrame
<1>6. Frame(r, t)
  BY <1>2, <1>5, FrameDomain, AddContractFrame
<1>7. Frame(t, u)
  BY <1>3, <1>6, FrameDomain, FrameExcept
<1> QED BY <1>4, <1>5, <1>6, <1>7, FrameTrans

LEMMA ContractToContractFrame ==
  ASSUME NEW s, DOMAIN s = Fields, NEW c, NEW to, NEW n
  PROVE  Frame(s, ContractToContract(s, c, to, n))
<1>1. PICK r : r = Require(s, c # TransferId /\ s.cbal[c] >= n)
  OBVIOUS
<1>2. PICK t : t = SubContract(r, c, n)
  OBVIOUS
<1>3. PICK u : u = AddContract(t, to, n)
  OBVIOUS
<1>4. ContractToContract(s, c, to, n) = (IF r.err = "none" THEN u ELSE r)
  BY <1>1, <1>2, <1>3, Zenon DEF ContractToContract, Then
<1>5. Frame(s, r)
  BY <1>1, RequireFrame
<1>6. Frame(r, t)
  BY <1>2, <1>5, FrameDomain, SubContractFrame
<1>7. Frame(t, u)
  BY <1>3, <1>6, FrameDomain, AddContractFrame
<1> QED BY <1>4, <1>5, <1>6, <1>7, FrameTrans

LEMMA MintToContractFrame ==
  ASSUME NEW s, DOMAIN s = Fields, NEW c, NEW to, NEW n
  PROVE  Frame(s, MintToContract(s, c, to, n))
<1>1. PICK r : r = Require(s, c = Stake)
  OBVIOUS
<1>2. PICK u : u = AddContract(r, to, n)
  OBVIOUS
<1>3. MintToContract(s, c, to, n) = (IF r.err = "none" THEN u ELSE r)
  BY <1>1, <1>2, Zenon DEF MintToContract, Then
<1>4. Frame(s, r)
  BY <1>1, RequireFrame
<1>5. Frame(r, u)
  BY <1>2, <1>4, FrameDomain, AddContractFrame
<1> QED BY <1>3, <1>4, <1>5, FrameTrans

LEMMA ContractToAccountFrame ==
  ASSUME NEW s, DOMAIN s = Fields, NEW c, NEW to, NEW n
  PROVE  Frame(s, ContractToAccount(s, c, to, n))
<1>1. PICK r : r = Require(s, c # TransferId /\ s.cbal[c] >= n)
  OBVIOUS
<1>2. PICK t : t = SubContract(r, c, n)
  OBVIOUS
<1>3. PICK u : u = AddAccount(t, to, n)
  OBVIOUS
<1>4. ContractToAccount(s, c, to, n) = (IF r.err = "none" THEN u ELSE r)
  BY <1>1, <1>2, <1>3, Zenon DEF ContractToAccount, Then
<1>5. Frame(s, r)
  BY <1>1, RequireFrame
<1>6. Frame(r, t)
  BY <1>2, <1>5, FrameDomain, SubContractFrame
<1>7. Frame(t, u)
  BY <1>3, <1>6, FrameDomain, AddAccountFrame
<1> QED BY <1>4, <1>5, <1>6, <1>7, FrameTrans

LEMMA OngoingFrame ==
  ASSUME NEW s, DOMAIN s = Fields, NEW tx, NEW dep
  PROVE  Frame(s, Ongoing(s, tx, dep))
BY DEF Frame, Fields, Ongoing

LEMMA SpendMoonlightFrame ==
  ASSUME NEW s, DOMAIN s = Fields, NEW tx
  PROVE  Frame(s, SpendMoonlight(s, tx))
<1>1. PICK v, to : SpendMoonlight(s, tx)
                     \in {Panic(s), [s EXCEPT !.err = "nonce"], AddAccount([s EXCEPT !.acct = v], to, tx.value)}
  <2> DEFINE total == tx.value + tx.deposit + tx.limit * tx.price
             from  == s.acct[tx.sender]
             to    == IF tx.receiver = NoKey THEN tx.sender ELSE tx.receiver
             e     == [nonce |-> tx.nonce, balance |-> from.balance - total]
             v     == [s.acct EXCEPT ![tx.sender] = e]
             bad   == ~tx.sound \/ total > from.balance \/ tx.nonce <= from.nonce
  <2>1. SpendMoonlight(s, tx)
          = IF bad THEN Panic(s)
            ELSE IF tx.nonce > from.nonce + 1 THEN [s EXCEPT !.err = "nonce"]
            ELSE AddAccount([s EXCEPT !.acct = v], to, tx.value)
    BY Zenon DEF SpendMoonlight
  <2> HIDE DEF v, to, bad, from
  <2>2. SpendMoonlight(s, tx)
          \in {Panic(s), [s EXCEPT !.err = "nonce"], AddAccount([s EXCEPT !.acct = v], to, tx.value)}
    BY <2>1, Zenon
  <2> QED BY <2>2, Zenon
<1>2. PICK t : t = [s EXCEPT !.acct = v]
  OBVIOUS
<1>3. PICK u : u = [s EXCEPT !.err = "nonce"]
  OBVIOUS
<1>4. Frame(s, t) /\ Frame(s, u) /\ Frame(s, Panic(s))
  BY <1>2, <1>3, FrameExcept, PanicFrame
<1>5. Frame(s, AddAccount(t, to, tx.value))
  BY <1>4, FrameDomain, FrameTrans, AddAccountFrame
<1> QED BY <1>1, <1>2, <1>3, <1>4, <1>5, Zenon

LEMMA SpendPhoenixFrame ==
  ASSUME NEW s, DOMAIN s = Fields, NEW tx
  PROVE  Frame(s, SpendPhoenix(s, tx))
<1>1. PICK n, t : n = s.nulls \cup tx.inputs /\ t = [s EXCEPT !.nulls = n]
  OBVIOUS
<1>2. PICK u : u = PushNote(t, tx.receiver, tx.value, tx.clear)
  OBVIOUS
<1>3. PICK x : x = PushNote(u, tx.sender, Change(s, tx), FALSE)
  OBVIOUS
<1>4. SpendPhoenix(s, tx) \in {Panic(s), x}
  BY <1>1, <1>2, <1>3, Zenon DEF SpendPhoenix
<1>5. Frame(s, t) /\ Frame(s, Panic(s))
  BY <1>1, FrameExcept, PanicFrame
<1>6. Frame(t, u)
  BY <1>2, <1>5, FrameDomain, PushNoteFrame
<1>7. Frame(u, x)
  BY <1>3, <1>6, FrameDomain, PushNoteFrame
<1> QED BY <1>4, <1>5, <1>6, <1>7, FrameTrans

LEMMA SpendFrame ==
  ASSUME NEW s, DOMAIN s = Fields, NEW tx
  PROVE  Frame(s, Spend(s, tx))
<1>1. PICK r : r = Require(s, tx.price > 0)
  OBVIOUS
<1>2. PICK dep : dep = IF tx.deposit > 0 THEN "available" ELSE "none"
  OBVIOUS
<1>3. PICK u : u = Ongoing(r, tx, dep)
  OBVIOUS
<1>4. PICK x : x = Require(u, tx.deposit > 0 => tx.call.contract # "none")
  OBVIOUS
<1>5. Spend(s, tx) \in {SpendMoonlight(x, tx), SpendPhoenix(x, tx), x}
  BY <1>1, <1>2, <1>3, <1>4, Zenon DEF Spend, PutTransaction, Then, Ongoing
<1>6. Frame(s, r)
  BY <1>1, RequireFrame
<1>7. Frame(r, u)
  BY <1>3, <1>6, FrameDomain, OngoingFrame
<1>8. Frame(u, x)
  BY <1>4, <1>7, FrameDomain, RequireFrame
<1>9. Frame(s, x)
  BY <1>6, <1>7, <1>8, FrameTrans
<1>10. Frame(x, SpendMoonlight(x, tx)) /\ Frame(x, SpendPhoenix(x, tx))
  BY <1>9, FrameDomain, SpendMoonlightFrame, SpendPhoenixFrame
<1> QED BY <1>5, <1>9, <1>10, FrameTrans

LEMMA RefundFrame ==
  ASSUME NEW s, DOMAIN s = Fields, NEW gas
  PROVE  Frame(s, Refund(s, gas))
<1>1. PICK v : v = (s.tx.limit - gas) * s.tx.price + (IF s.dep = "available" THEN s.tx.deposit ELSE 0)
  OBVIOUS
<1>2. PICK p : p = IF s.tx.kind = "moonlight" THEN AddAccount(s, s.tx.refund, v)
                   ELSE PushNote(s, s.tx.refund, v, TRUE)
  OBVIOUS
<1>3. Refund(s, gas) = Ongoing(p, NoOngoing, "none")
  BY <1>1, <1>2, Zenon DEF Refund, Ongoing
<1>4. Frame(s, AddAccount(s, s.tx.refund, v)) /\ Frame(s, PushNote(s, s.tx.refund, v, TRUE))
  BY AddAccountFrame, PushNoteFrame
<1>5. Frame(s, p)
  BY <1>2, <1>4
<1>6. Frame(p, Ongoing(p, NoOngoing, "none"))
  BY <1>5, FrameDomain, OngoingFrame
<1> QED BY <1>3, <1>5, <1>6, FrameTrans

LEMMA DeployFrame ==
  ASSUME NEW s, DOMAIN s = Fields, NEW tx
  PROVE  Frame(s, Deploy(s, tx))
<1>1. PICK r : r = Require(s, DeployFits(tx) /\ tx.code \notin s.deployed)
  OBVIOUS
<1>2. PICK v, u : v = r.deployed \cup {tx.code} /\ u = [r EXCEPT !.deployed = v]
  OBVIOUS
<1>3. Deploy(s, tx) = (IF r.err = "none" THEN u ELSE r)
  BY <1>1, <1>2, Zenon DEF Deploy, Then
<1>4. Frame(s, r)
  BY <1>1, RequireFrame
<1>5. Frame(r, u)
  BY <1>2, <1>4, FrameDomain, FrameExcept
<1> QED BY <1>3, <1>4, <1>5, FrameTrans

LEMMA UpdateRootFrame ==
  ASSUME NEW s, DOMAIN s = Fields
  PROVE  Frame(s, UpdateRoot(s))
<1>1. PICK v : UpdateRoot(s) = [s EXCEPT !.roots = v]
  BY DEF UpdateRoot
<1>2. PICK t : t = UpdateRoot(s)
  OBVIOUS
<1> QED BY <1>1, <1>2, FrameExcept

-----------------------------------------------------------------------------
(* Lists of provisioners *)

\* A provisioner without value is as good as absent.
Weight(value, since) == IF value # 0 THEN [value |-> value, since |-> since]
                        ELSE [value |-> 0, since |-> 0]
WeightOf(e) == Weight(Standing(e).value, Standing(e).eligibility)
Seat(f, k) == IF k \in DOMAIN f THEN Weight(f[k].value, f[k].since) ELSE Weight(0, 0)

IsList(f) == DOMAIN f \subseteq Keys /\ \A k \in DOMAIN f : f[k] \in [value : Nat, since : Nat]

\* The list f says what the stakes say, except of the keys in E.
Tracks(f, stakes, E) == IsList(f) /\ \A k \in Keys \ E : Seat(f, k) = WeightOf(stakes[k])

LEMMA WeightFacts ==
  ASSUME NEW a \in Nat, NEW b \in Nat, NEW c \in Nat, NEW d \in Nat
  PROVE  Weight(a, b) = Weight(c, d) <=> (a = 0 /\ c = 0) \/ (a = c /\ b = d)
BY DEF Weight

\* g is f but for the key k.
Others(f, g, k) == \A j \in Keys \ {k} : Seat(g, j) = Seat(f, j)

LEMMA ApplyStake ==
  ASSUME ExecAssumption, NEW f, IsList(f), NEW k \in Keys, NEW v \in Nat, NEW h \in Nat,
         EventFits(f, StakeEvent(k, v)), NEW g, g = ApplyEvent(f, StakeEvent(k, v), h)
  PROVE  /\ IsList(g) /\ Others(f, g, k) /\ k \in DOMAIN g
         /\ k \in DOMAIN f => /\ f[k].value # 0 /\ g[k].value = f[k].value + v
                              /\ g[k].since = f[k].since
         /\ k \notin DOMAIN f => g[k].value = v /\ g[k].since = EligibilityFrom(h)
<1>1. PICK ev : ev = StakeEvent(k, v)
  OBVIOUS
<1>2. ev.topic = "stake" /\ ev.key = k /\ ev.value = v
  BY <1>1 DEF StakeEvent
<1>3. CASE k \in DOMAIN f
  <2>1. f[k].value # 0
    BY <1>1, <1>2, <1>3 DEF EventFits, Members
  <2>2. PICK x \in [value : Nat, since : Nat] : x = f[k]
    BY <1>3 DEF IsList
  <2>3. PICK y \in [value : Nat, since : Nat] : y = [x EXCEPT !.value = x.value + v]
    <3>1. x.value + v \in Nat
      BY <2>2
    <3> QED BY <2>2, <3>1
  <2>4. g = [f EXCEPT ![k] = y]
    <3>1. g = [f EXCEPT ![k].value = @ + v]
      BY <1>1, <1>2, <1>3 DEF ApplyEvent, Members
    <3> QED BY <2>2, <2>3, <3>1
  <2>5. DOMAIN g = DOMAIN f /\ g[k] = y /\ \A j \in DOMAIN f \ {k} : g[j] = f[j]
    BY <1>3, <2>4
  <2>6. IsList(g)
    BY <2>5 DEF IsList
  <2>7. Others(f, g, k)
    BY <2>5 DEF Others, Seat
  <2>8. y.value = x.value + v /\ y.since = x.since
    BY <2>2, <2>3
  <2> QED BY <1>3, <2>1, <2>2, <2>5, <2>6, <2>7, <2>8
<1>4. CASE k \notin DOMAIN f
  <2>1. EligibilityFrom(h) \in Nat
    BY Epochs
  <2>2. PICK y \in [value : Nat, since : Nat] : y = [value |-> v, since |-> EligibilityFrom(h)]
    BY <2>1
  <2>3. g = Put(f, k, y)
    BY <1>1, <1>2, <1>4, <2>2 DEF ApplyEvent, Members
  <2>4. DOMAIN g = DOMAIN f \cup {k} /\ g[k] = y /\ \A j \in DOMAIN f \ {k} : g[j] = f[j]
    BY <2>3 DEF Put
  <2>5. IsList(g)
    BY <2>4 DEF IsList
  <2>6. Others(f, g, k)
    BY <2>4 DEF Others, Seat
  <2> QED BY <1>4, <2>2, <2>4, <2>5, <2>6
<1> QED BY <1>3, <1>4

LEMMA ApplyUnstake ==
  ASSUME NEW f, IsList(f), NEW k \in Keys, NEW v \in Nat, NEW h,
         EventFits(f, UnstakeEvent(k, v)), NEW g, g = ApplyEvent(f, UnstakeEvent(k, v), h)
  PROVE  /\ IsList(g) /\ Others(f, g, k) /\ k \in DOMAIN f
         /\ f[k].value = v => k \notin DOMAIN g
         /\ f[k].value # v => /\ k \in DOMAIN g /\ g[k].value = f[k].value - v
                              /\ g[k].since = f[k].since
<1>1. PICK ev : ev = UnstakeEvent(k, v)
  OBVIOUS
<1>2. ev.topic = "unstake" /\ ev.key = k /\ ev.value = v
  BY <1>1 DEF UnstakeEvent
<1>3. k \in DOMAIN f /\ f[k].value >= v
  BY <1>1, <1>2 DEF EventFits, Members
<1>4. g = IF f[k].value = v THEN Without(f, k) ELSE [f EXCEPT ![k].value = @ - v]
  BY <1>1, <1>2 DEF ApplyEvent, Members
<1>5. CASE f[k].value = v
  <2>1. DOMAIN g = DOMAIN f \ {k} /\ \A j \in DOMAIN f \ {k} : g[j] = f[j]
    BY <1>4, <1>5 DEF Without
  <2>2. IsList(g)
    BY <2>1 DEF IsList
  <2>3. Others(f, g, k)
    BY <2>1 DEF Others, Seat
  <2> QED BY <1>3, <1>5, <2>1, <2>2, <2>3
<1>6. CASE f[k].value # v
  <2>1. PICK x \in [value : Nat, since : Nat] : x = f[k]
    BY <1>3 DEF IsList
  <2>2. PICK y \in [value : Nat, since : Nat] : y = [x EXCEPT !.value = x.value - v]
    <3>1. x.value - v \in Nat
      BY <1>3, <2>1
    <3> QED BY <2>1, <3>1
  <2>3. g = [f EXCEPT ![k] = y]
    BY <1>4, <1>6, <2>1, <2>2
  <2>4. DOMAIN g = DOMAIN f /\ g[k] = y /\ \A j \in DOMAIN f \ {k} : g[j] = f[j]
    BY <1>3, <2>3
  <2>5. IsList(g)
    BY <2>4 DEF IsList
  <2>6. Others(f, g, k)
    BY <2>4 DEF Others, Seat
  <2>7. y.value = x.value - v /\ y.since = x.since
    BY <2>1, <2>2
  <2> QED BY <1>3, <1>6, <2>1, <2>4, <2>5, <2>6, <2>7
<1> QED BY <1>5, <1>6

LEMMA ApplySlash ==
  ASSUME NEW f, IsList(f), NEW k \in Keys, NEW v \in Nat, NEW until \in Nat, NEW h,
         EventFits(f, SlashEvent(k, v, until)), NEW g, g = ApplyEvent(f, SlashEvent(k, v, until), h)
  PROVE  /\ IsList(g) /\ Others(f, g, k) /\ k \in DOMAIN f /\ k \in DOMAIN g
         /\ g[k].value = (IF f[k].value <= v THEN 0 ELSE f[k].value - v) /\ g[k].since = until
<1>1. PICK ev : ev = SlashEvent(k, v, until)
  OBVIOUS
<1>2. ev.topic = "slash" /\ ev.key = k /\ ev.value = v /\ ev.until = until
  BY <1>1 DEF SlashEvent
<1>3. k \in DOMAIN f
  BY <1>1, <1>2 DEF EventFits, Members
<1>4. PICK x \in [value : Nat, since : Nat] : x = f[k]
  BY <1>3 DEF IsList
<1>5. PICK n \in Nat : n = IF x.value <= v THEN 0 ELSE x.value - v
  <2>1. (IF x.value <= v THEN 0 ELSE x.value - v) \in Nat
    BY <1>4
  <2> QED BY <2>1
<1>6. PICK y \in [value : Nat, since : Nat] : y = [value |-> n, since |-> until]
  OBVIOUS
<1>7. g = [f EXCEPT ![k] = y]
  <2>1. g = [f EXCEPT ![k] = [value |-> IF f[k].value <= v THEN 0 ELSE f[k].value - v, since |-> until]]
    BY <1>1, <1>2 DEF ApplyEvent, Members
  <2> QED BY <1>4, <1>5, <1>6, <2>1
<1>8. DOMAIN g = DOMAIN f /\ g[k] = y /\ \A j \in DOMAIN f \ {k} : g[j] = f[j]
  BY <1>3, <1>7
<1>9. IsList(g)
  BY <1>8 DEF IsList
<1>10. Others(f, g, k)
  BY <1>8 DEF Others, Seat
<1> QED BY <1>3, <1>4, <1>5, <1>6, <1>8, <1>9, <1>10

\* The stakes p and q but for the key k, and any list that tracks p and fits
\* the event, tracks q after it.
Carries(p, q, ev, h, E) ==
  \A f : Tracks(f, p, E) /\ EventFits(f, ev) => Tracks(ApplyEvent(f, ev, h), q, E)

LEMMA TracksMove ==
  ASSUME NEW f, NEW g, NEW p, NEW q, NEW E, NEW k, Tracks(f, p, E), IsList(g), Others(f, g, k),
         \A j \in Keys \ {k} : q[j] = p[j], k \in Keys \ E => Seat(g, k) = WeightOf(q[k])
  PROVE  Tracks(g, q, E)
BY DEF Tracks, Others

\* What the list says of a key it tracks.
LEMMA TracksKey ==
  ASSUME NEW f, NEW p, NEW E, NEW k \in Keys \ E, Tracks(f, p, E), p[k] \in MapEntries
  PROVE  /\ k \in DOMAIN f => /\ f[k].value \in Nat /\ f[k].since \in Nat
                              /\ \/ f[k].value = 0 /\ Standing(p[k]).value = 0
                                 \/ /\ f[k].value = Standing(p[k]).value
                                    /\ f[k].since = Standing(p[k]).eligibility
         /\ k \notin DOMAIN f => Standing(p[k]).value = 0
<1>1. PICK a \in Nat, b \in Nat : a = Standing(p[k]).value /\ b = Standing(p[k]).eligibility
  BY StandingType
<1>2. Seat(f, k) = Weight(a, b)
  BY <1>1 DEF Tracks, WeightOf
<1>3. ASSUME k \in DOMAIN f
      PROVE  f[k].value \in Nat /\ f[k].since \in Nat
             /\ ((f[k].value = 0 /\ a = 0) \/ (f[k].value = a /\ f[k].since = b))
  <2>1. PICK c \in Nat, d \in Nat : c = f[k].value /\ d = f[k].since
    BY <1>3 DEF Tracks, IsList
  <2>2. Weight(c, d) = Weight(a, b)
    BY <1>2, <1>3, <2>1 DEF Seat
  <2> QED BY <2>1, <2>2, WeightFacts
<1>4. ASSUME k \notin DOMAIN f PROVE a = 0
  <2>1. Weight(0, 0) = Weight(a, b)
    BY <1>2, <1>4 DEF Seat
  <2> QED BY <2>1, WeightFacts
<1> QED BY <1>1, <1>3, <1>4

\* What the list must say of it.
LEMMA SeatIs ==
  ASSUME NEW g, NEW k, NEW e \in MapEntries,
         \/ /\ k \in DOMAIN g /\ g[k].value \in Nat /\ g[k].since \in Nat
            /\ \/ g[k].value = 0 /\ Standing(e).value = 0
               \/ g[k].value = Standing(e).value /\ g[k].since = Standing(e).eligibility
         \/ k \notin DOMAIN g /\ Standing(e).value = 0
  PROVE  Seat(g, k) = WeightOf(e)
<1>1. PICK a \in Nat, b \in Nat : a = Standing(e).value /\ b = Standing(e).eligibility
  BY StandingType
<1>2. CASE k \in DOMAIN g
  <2>1. PICK c \in Nat, d \in Nat : c = g[k].value /\ d = g[k].since
    BY <1>2
  <2>2. (c = 0 /\ a = 0) \/ (c = a /\ d = b)
    BY <1>1, <1>2, <2>1
  <2>3. Weight(c, d) = Weight(a, b)
    BY <2>2, WeightFacts
  <2> QED BY <1>1, <1>2, <2>1, <2>3 DEF Seat, WeightOf
<1>3. CASE k \notin DOMAIN g
  <2>1. a = 0
    BY <1>1, <1>3
  <2>2. Weight(0, 0) = Weight(a, b)
    BY <2>1, WeightFacts
  <2> QED BY <1>1, <1>3, <2>2 DEF Seat, WeightOf
<1> QED BY <1>2, <1>3

LEMMA StakeCarries ==
  ASSUME ExecAssumption, NEW p, NEW q, NEW k \in Keys, NEW E, NEW v \in Nat, NEW h \in Nat,
         p[k] \in MapEntries, q[k] \in MapEntries, \A j \in Keys \ {k} : q[j] = p[j],
         k \notin E =>
           \/ /\ Standing(p[k]).value # 0 /\ Standing(q[k]).value = Standing(p[k]).value + v
              /\ Standing(q[k]).eligibility = Standing(p[k]).eligibility
           \/ /\ Standing(p[k]).value = 0 /\ Standing(q[k]).value = v
              /\ Standing(q[k]).eligibility = EligibilityFrom(h)
  PROVE  Carries(p, q, StakeEvent(k, v), h, E)
<1> SUFFICES ASSUME NEW f, Tracks(f, p, E), EventFits(f, StakeEvent(k, v))
             PROVE  Tracks(ApplyEvent(f, StakeEvent(k, v), h), q, E)
  BY DEF Carries
<1>1. PICK g : g = ApplyEvent(f, StakeEvent(k, v), h)
  OBVIOUS
<1>2. IsList(f)
  BY DEF Tracks
<1>3. /\ IsList(g) /\ Others(f, g, k) /\ k \in DOMAIN g
      /\ k \in DOMAIN f => /\ f[k].value # 0 /\ g[k].value = f[k].value + v
                           /\ g[k].since = f[k].since
      /\ k \notin DOMAIN f => g[k].value = v /\ g[k].since = EligibilityFrom(h)
  BY <1>1, <1>2, ApplyStake
<1>4. ASSUME k \notin E PROVE Seat(g, k) = WeightOf(q[k])
  <2>1. /\ k \in DOMAIN f => \/ f[k].value = 0 /\ Standing(p[k]).value = 0
                             \/ /\ f[k].value = Standing(p[k]).value
                                /\ f[k].since = Standing(p[k]).eligibility
        /\ k \notin DOMAIN f => Standing(p[k]).value = 0
    BY <1>4, TracksKey
  <2>2. g[k].value \in Nat /\ g[k].since \in Nat
    BY <1>3 DEF IsList
  <2>3. g[k].value = Standing(q[k]).value /\ g[k].since = Standing(q[k]).eligibility
    BY <1>3, <1>4, <2>1
  <2> QED BY <1>3, <2>2, <2>3, SeatIs
<1>5. Tracks(g, q, E)
  BY <1>3, <1>4, TracksMove
<1> QED BY <1>1, <1>5

LEMMA UnstakeCarries ==
  ASSUME NEW p, NEW q, NEW k \in Keys, NEW E, NEW v \in Nat, NEW h,
         p[k] \in MapEntries, q[k] \in MapEntries, \A j \in Keys \ {k} : q[j] = p[j],
         v <= Standing(p[k]).value, Standing(q[k]).value = Standing(p[k]).value - v,
         Standing(q[k]).value # 0 => Standing(q[k]).eligibility = Standing(p[k]).eligibility
  PROVE  Carries(p, q, UnstakeEvent(k, v), h, E)
<1> SUFFICES ASSUME NEW f, Tracks(f, p, E), EventFits(f, UnstakeEvent(k, v))
             PROVE  Tracks(ApplyEvent(f, UnstakeEvent(k, v), h), q, E)
  BY DEF Carries
<1>1. PICK g : g = ApplyEvent(f, UnstakeEvent(k, v), h)
  OBVIOUS
<1>2. IsList(f)
  BY DEF Tracks
<1>3. /\ IsList(g) /\ Others(f, g, k) /\ k \in DOMAIN f
      /\ f[k].value = v => k \notin DOMAIN g
      /\ f[k].value # v => /\ k \in DOMAIN g /\ g[k].value = f[k].value - v
                          /\ g[k].since = f[k].since
  BY <1>1, <1>2, ApplyUnstake
<1>4. ASSUME k \notin E PROVE Seat(g, k) = WeightOf(q[k])
  <2>1. PICK a \in Nat, b \in Nat, c \in Nat, d \in Nat :
          /\ a = f[k].value /\ b = f[k].since
          /\ c = Standing(p[k]).value /\ d = Standing(p[k]).eligibility
    BY <1>2, <1>3, StandingType DEF IsList
  <2>2. (a = 0 /\ c = 0) \/ (a = c /\ b = d)
    BY <1>3, <1>4, <2>1, TracksKey
  <2>3. CASE a = v
    <3>1. k \notin DOMAIN g /\ Standing(q[k]).value = 0
      BY <1>3, <2>1, <2>2, <2>3
    <3> QED BY <3>1, SeatIs
  <2>4. CASE a # v
    <3>1. /\ k \in DOMAIN g /\ g[k].value = a - v /\ g[k].since = b
          /\ Standing(q[k]).value = a - v /\ Standing(q[k]).eligibility = b
      BY <1>3, <2>1, <2>2, <2>4
    <3>2. g[k].value \in Nat /\ g[k].since \in Nat
      BY <1>3, <3>1 DEF IsList
    <3> QED BY <3>1, <3>2, SeatIs
  <2> QED BY <2>3, <2>4
<1>5. Tracks(g, q, E)
  BY <1>3, <1>4, TracksMove
<1> QED BY <1>1, <1>5

LEMMA SlashCarries ==
  ASSUME NEW p, NEW q, NEW k \in Keys, NEW E, NEW v \in Nat, NEW until \in Nat, NEW h,
         p[k] \in MapEntries, q[k] \in MapEntries, \A j \in Keys \ {k} : q[j] = p[j],
         v <= Standing(p[k]).value, Standing(q[k]).value = Standing(p[k]).value - v,
         Standing(q[k]).eligibility = until
  PROVE  Carries(p, q, SlashEvent(k, v, until), h, E)
<1> SUFFICES ASSUME NEW f, Tracks(f, p, E), EventFits(f, SlashEvent(k, v, until))
             PROVE  Tracks(ApplyEvent(f, SlashEvent(k, v, until), h), q, E)
  BY DEF Carries
<1>1. PICK g : g = ApplyEvent(f, SlashEvent(k, v, until), h)
  OBVIOUS
<1>2. IsList(f)
  BY DEF Tracks
<1>3. /\ IsList(g) /\ Others(f, g, k) /\ k \in DOMAIN f /\ k \in DOMAIN g
      /\ g[k].value = (IF f[k].value <= v THEN 0 ELSE f[k].value - v) /\ g[k].since = until
  BY <1>1, <1>2, ApplySlash
<1>4. ASSUME k \notin E PROVE Seat(g, k) = WeightOf(q[k])
  <2>1. PICK a \in Nat, c \in Nat : a = f[k].value /\ c = Standing(p[k]).value
    BY <1>2, <1>3, StandingType DEF IsList
  <2>2. a = c
    BY <1>3, <1>4, <2>1, TracksKey
  <2>3. g[k].value = Standing(q[k]).value
    BY <1>3, <2>1, <2>2
  <2>4. g[k].value \in Nat
    BY <1>3 DEF IsList
  <2> QED BY <1>3, <2>3, <2>4, SeatIs
<1>5. Tracks(g, q, E)
  BY <1>3, <1>4, TracksMove
<1> QED BY <1>1, <1>5

-----------------------------------------------------------------------------
(* What a session keeps *)

\* A state with an entry, or none, for every key.
Whole(s) == DOMAIN s = Fields /\ s.height \in Nat /\ s.stakes \in [Keys -> MapEntries]

IsSeq(q) == \E S : q \in Seq(S)

\* An update that has come to r has a list that tracks p, if all events fitted.
Reads(r, h, p, E) ==
  DOMAIN r = {"ok", "f", "height"} /\ r.height = h /\ (r.ok => Tracks(r.f, p, E))

\* The list f0 updated with the events of s tracks its stakes.
Follows(f0, s, E) ==
  IsSeq(s.events) /\ Reads(Updates(f0, s.events, s.height), s.height, s.stakes, E)

\* previous_block_state has what the stakes b were, of every key that changed.
PrevOk(b, s) ==
  /\ DOMAIN s.prev \subseteq Keys
  /\ \A k \in DOMAIN s.prev : s.prev[k] \in MapEntries /\ WeightOf(s.prev[k]) = WeightOf(b[k])
  /\ \A k \in Keys \ DOMAIN s.prev : WeightOf(s.stakes[k]) = WeightOf(b[k])

Kept(f0, b, E, s) == Whole(s) /\ Follows(f0, s, E) /\ PrevOk(b, s)

\* No stake outside E was left with locked funds only.
NoneEmptied(s, E) ==
  \A k \in Keys \ E : Standing(s.stakes[k]).some => Standing(s.stakes[k]).value # 0

LEMMA WholeState == ASSUME NEW s, IsState(s) PROVE Whole(s)
BY DEF IsState, Whole, Fields, MapEntries

LEMMA EmptiedIs ==
  ASSUME NEW s, NEW E
  PROVE  NoneEmptied(s, E) <=> LockedOnly(s) \subseteq E
<1>1. \A k : Standing(s.stakes[k]).some /\ Standing(s.stakes[k]).value = 0
             <=> Exists(s, k) /\ s.stakes[k].amount.some /\ s.stakes[k].amount.value = 0
  <2>1. NoAmount.some = FALSE
    BY DEF NoAmount
  <2> QED BY <2>1 DEF Standing, Exists
<1> QED BY <1>1 DEF NoneEmptied, LockedOnly

LEMMA TracksSame ==
  ASSUME NEW f, NEW p, NEW q, NEW E, Tracks(f, p, E), \A k \in Keys : WeightOf(q[k]) = WeightOf(p[k])
  PROVE  Tracks(f, q, E)
BY DEF Tracks

LEMMA TracksMore ==
  ASSUME NEW f, NEW p, NEW E, NEW D, Tracks(f, p, E), E \subseteq D
  PROVE  Tracks(f, p, D)
BY DEF Tracks

LEMMA KeptMore ==
  ASSUME NEW f0, NEW b, NEW E, NEW D, NEW s, Kept(f0, b, E, s), E \subseteq D
  PROVE  Kept(f0, b, D, s)
<1>1. \A f : Tracks(f, s.stakes, E) => Tracks(f, s.stakes, D)
  BY TracksMore
<1> QED BY <1>1 DEF Kept, Follows, Reads

\* One more event.
LEMMA ReadsStep ==
  ASSUME NEW r, NEW h, NEW p, NEW q, NEW E, NEW ev, Reads(r, h, p, E), Carries(p, q, ev, h, E)
  PROVE  Reads(UpdateStep(r, ev), h, q, E)
<1>1. PICK u, g : u = UpdateStep(r, ev) /\ g = ApplyEvent(r.f, ev, r.height)
  OBVIOUS
<1>2. DOMAIN r = {"ok", "f", "height"} /\ r.height = h
  BY DEF Reads
<1>3. CASE r.ok /\ EventFits(r.f, ev)
  <2>1. u = [r EXCEPT !.f = g]
    BY <1>1, <1>3, Zenon DEF UpdateStep
  <2>2. DOMAIN u = {"ok", "f", "height"} /\ u.height = h /\ u.f = g
    BY <1>2, <2>1
  <2>3. Tracks(g, q, E)
    BY <1>1, <1>2, <1>3 DEF Reads, Carries
  <2> QED BY <1>1, <2>2, <2>3 DEF Reads
<1>4. CASE ~(r.ok /\ EventFits(r.f, ev))
  <2>1. u = [r EXCEPT !.ok = FALSE]
    BY <1>1, <1>4, Zenon DEF UpdateStep
  <2>2. DOMAIN u = {"ok", "f", "height"} /\ u.height = h /\ ~u.ok
    BY <1>2, <2>1
  <2> QED BY <1>1, <2>2 DEF Reads
<1> QED BY <1>3, <1>4

LEMMA FollowsAppend ==
  ASSUME NEW f0, NEW s, NEW E, Follows(f0, s, E), NEW ev, NEW p, Carries(s.stakes, p, ev, s.height, E)
  PROVE  /\ IsSeq(Append(s.events, ev))
         /\ Reads(Updates(f0, Append(s.events, ev), s.height), s.height, p, E)
<1>1. PICK S : s.events \in Seq(S)
  BY DEF Follows, IsSeq
<1>2. PICK T : T = S \cup {ev}
  OBVIOUS
<1>3. PICK q \in Seq(T) : q = s.events /\ ev \in T
  BY <1>1, <1>2
<1>4. Append(q, ev) \in Seq(T)
  BY <1>3
<1>5. PICK r : r = Updates(f0, q, s.height)
  OBVIOUS
<1>6. Reads(r, s.height, s.stakes, E)
  BY <1>3, <1>5 DEF Follows
<1>7. Updates(f0, Append(q, ev), s.height) = UpdateStep(r, ev)
  <2>1. PICK base : base = Reading(TRUE, f0, s.height)
    OBVIOUS
  <2>2. Chain("update", base, q) = r
    BY <1>5, <2>1, UpdateChain
  <2>3. Chain("update", base, Append(q, ev)) = Advance("update", r, ev)
    BY <1>3, <2>2, ChainAppend
  <2>4. Advance("update", r, ev) = UpdateStep(r, ev)
    BY DEF Advance
  <2> QED BY <2>1, <2>3, <2>4, UpdateChain
<1>8. IsSeq(Append(s.events, ev))
  BY <1>3, <1>4 DEF IsSeq
<1>9. Reads(UpdateStep(r, ev), s.height, p, E)
  BY <1>6, ReadsStep
<1> QED BY <1>3, <1>7, <1>8, <1>9

\* A step that changes the weight of no key.
Quiet(s, t) ==
  /\ Whole(t) /\ t.height = s.height /\ t.prev = s.prev /\ t.events = s.events
  /\ \A k \in Keys : Standing(t.stakes[k]) = Standing(s.stakes[k])

LEMMA QuietTrans == ASSUME NEW s, NEW t, NEW u, Quiet(s, t), Quiet(t, u) PROVE Quiet(s, u)
BY DEF Quiet

LEMMA QuietSame == ASSUME NEW s, Whole(s) PROVE Quiet(s, s)
BY DEF Quiet

LEMMA FrameQuiet == ASSUME NEW s, NEW t, Whole(s), Frame(s, t) PROVE Quiet(s, t)
BY DEF Quiet, Frame, Whole

LEMMA QuietKept ==
  ASSUME NEW f0, NEW b, NEW E, NEW s, NEW t, Kept(f0, b, E, s), Quiet(s, t)
  PROVE  Kept(f0, b, E, t)
<1>1. \A k \in Keys : WeightOf(t.stakes[k]) = WeightOf(s.stakes[k])
  BY DEF Quiet, WeightOf
<1>2. Follows(f0, t, E)
  <2>1. \A f : Tracks(f, s.stakes, E) => Tracks(f, t.stakes, E)
    BY <1>1, TracksSame
  <2>2. t.events = s.events /\ t.height = s.height /\ Follows(f0, s, E)
    BY DEF Quiet, Kept
  <2> QED BY <2>1, <2>2 DEF Follows, Reads
<1>3. PrevOk(b, t)
  BY <1>1 DEF PrevOk, Quiet, Kept
<1> QED BY <1>2, <1>3 DEF Kept, Quiet

LEMMA QuietEmptied ==
  ASSUME NEW E, NEW s, NEW t, NoneEmptied(s, E), Quiet(s, t)
  PROVE  NoneEmptied(t, E)
BY DEF NoneEmptied, Quiet

\* A step that changes the stake of k, and says so in an event.
Shift(s, t, k, E) ==
  /\ Whole(t) /\ t.height = s.height /\ t.prev = s.prev
  /\ \A j \in Keys \ {k} : t.stakes[j] = s.stakes[j]
  /\ \/ t.events = s.events /\ WeightOf(t.stakes[k]) = WeightOf(s.stakes[k])
     \/ \E ev : t.events = Append(s.events, ev) /\ Carries(s.stakes, t.stakes, ev, s.height, E)

LEMMA ShiftFollows ==
  ASSUME NEW f0, NEW E, NEW s, NEW t, NEW k, Follows(f0, s, E), Shift(s, t, k, E)
  PROVE  Follows(f0, t, E)
<1>1. CASE t.events = s.events /\ WeightOf(t.stakes[k]) = WeightOf(s.stakes[k])
  <2>1. \A j \in Keys : WeightOf(t.stakes[j]) = WeightOf(s.stakes[j])
    BY <1>1 DEF Shift
  <2>2. \A f : Tracks(f, s.stakes, E) => Tracks(f, t.stakes, E)
    BY <2>1, TracksSame
  <2>3. t.height = s.height
    BY DEF Shift
  <2> QED BY <1>1, <2>2, <2>3 DEF Follows, Reads
<1>2. ASSUME NEW ev, t.events = Append(s.events, ev), Carries(s.stakes, t.stakes, ev, s.height, E)
      PROVE  Follows(f0, t, E)
  <2>1. PICK p, q : p = t.stakes /\ q = Append(s.events, ev)
    OBVIOUS
  <2>2. Carries(s.stakes, p, ev, s.height, E)
    BY <1>2, <2>1
  <2>3. IsSeq(q) /\ Reads(Updates(f0, q, s.height), s.height, p, E)
    BY <2>1, <2>2, FollowsAppend
  <2>4. t.events = q /\ t.stakes = p /\ t.height = s.height
    BY <1>2, <2>1 DEF Shift
  <2> HIDE <1>2
  <2> QED BY <2>3, <2>4 DEF Follows
<1> QED BY <1>1, <1>2 DEF Shift

LEMMA ShiftKept ==
  ASSUME NEW f0, NEW b, NEW E, NEW s, NEW t, NEW k \in Keys, NEW old \in MapEntries,
         Kept(f0, b, E, s), Shift(s, t, k, E), WeightOf(old) = WeightOf(s.stakes[k])
  PROVE  Kept(f0, b, E, Remember(t, k, old))
<1>1. /\ Whole(t) /\ t.height = s.height /\ t.prev = s.prev
      /\ \A j \in Keys \ {k} : t.stakes[j] = s.stakes[j]
  BY DEF Shift
<1>2. Follows(f0, t, E)
  BY ShiftFollows DEF Kept
<1>3. PrevOk(b, s)
  BY DEF Kept
<1>4. CASE k \in DOMAIN t.prev
  <2>1. Remember(t, k, old) = t
    BY <1>4 DEF Remember
  <2>2. PrevOk(b, t)
    BY <1>1, <1>3, <1>4 DEF PrevOk
  <2> QED BY <1>1, <1>2, <2>1, <2>2 DEF Kept
<1>5. CASE k \notin DOMAIN t.prev
  <2>1. PICK u, r : u = Remember(t, k, old) /\ r = Put(t.prev, k, old)
    OBVIOUS
  <2>2. u = [t EXCEPT !.prev = r]
    BY <1>5, <2>1 DEF Remember
  <2>3. /\ DOMAIN u = DOMAIN t /\ u.prev = r /\ u.height = t.height /\ u.stakes = t.stakes
        /\ u.events = t.events
    BY <1>1, <2>2 DEF Whole, Fields
  <2>4. DOMAIN r = DOMAIN s.prev \cup {k} /\ r[k] = old /\ \A j \in DOMAIN s.prev : j # k => r[j] = s.prev[j]
    BY <1>1, <2>1 DEF Put
  <2>5. PrevOk(b, u)
    <3>1. DOMAIN u.prev \subseteq Keys
      BY <1>3, <2>3, <2>4 DEF PrevOk
    <3>2. WeightOf(s.stakes[k]) = WeightOf(b[k])
      BY <1>1, <1>3, <1>5 DEF PrevOk
    <3>3. \A j \in DOMAIN u.prev : u.prev[j] \in MapEntries /\ WeightOf(u.prev[j]) = WeightOf(b[j])
      BY <1>3, <2>3, <2>4, <3>2 DEF PrevOk
    <3>4. \A j \in Keys \ DOMAIN u.prev : WeightOf(u.stakes[j]) = WeightOf(b[j])
      BY <1>1, <1>3, <2>3, <2>4 DEF PrevOk
    <3> QED BY <3>1, <3>3, <3>4 DEF PrevOk
  <2>6. Whole(u) /\ Follows(f0, u, E)
    BY <1>1, <1>2, <2>3 DEF Whole, Follows
  <2> QED BY <2>1, <2>5, <2>6 DEF Kept
<1> QED BY <1>4, <1>5

-----------------------------------------------------------------------------
(* The stake contract, seen from the list *)

LEMMA MovedWhole ==
  ASSUME NEW s, Whole(s), NEW k \in Keys, NEW e \in MapEntries, NEW t, t = Moved(s, k, e)
  PROVE  /\ Whole(t) /\ t.height = s.height /\ t.prev = s.prev /\ t.events = s.events
         /\ t.stakes[k] = e /\ \A j \in Keys \ {k} : t.stakes[j] = s.stakes[j]
<1>1. PICK p : p = [s.stakes EXCEPT ![k] = e]
  OBVIOUS
<1>2. p \in [Keys -> MapEntries] /\ p[k] = e /\ \A j \in Keys \ {k} : p[j] = s.stakes[j]
  BY <1>1 DEF Whole
<1>3. /\ t.stakes = p /\ t.height = s.height /\ t.prev = s.prev /\ t.events = s.events
      /\ DOMAIN t = DOMAIN s
  BY <1>1 DEF Moved, Whole, Fields
<1> QED BY <1>2, <1>3 DEF Whole

LEMMA MovedQuiet ==
  ASSUME NEW s, Whole(s), NEW k \in Keys, NEW e \in MapEntries, Standing(e) = Standing(s.stakes[k])
  PROVE  Quiet(s, Moved(s, k, e))
<1>1. PICK t : t = Moved(s, k, e)
  OBVIOUS
<1>2. /\ Whole(t) /\ t.height = s.height /\ t.prev = s.prev /\ t.events = s.events
      /\ t.stakes[k] = e /\ \A j \in Keys \ {k} : t.stakes[j] = s.stakes[j]
  BY <1>1, MovedWhole
<1>3. Quiet(s, t)
  BY <1>2 DEF Quiet
<1> QED BY <1>1, <1>3

LEMMA EmitWhole ==
  ASSUME NEW s, Whole(s), NEW ev, NEW t, t = Emit(s, ev)
  PROVE  /\ Whole(t) /\ t.height = s.height /\ t.prev = s.prev /\ t.stakes = s.stakes
         /\ t.events = Append(s.events, ev)
<1>1. PICK v : v = Append(s.events, ev)
  OBVIOUS
<1>2. t = [s EXCEPT !.events = v]
  BY <1>1 DEF Emit
<1>3. /\ t.height = s.height /\ t.prev = s.prev /\ t.stakes = s.stakes /\ t.events = v
      /\ DOMAIN t = DOMAIN s
  BY <1>2 DEF Whole, Fields
<1> QED BY <1>1, <1>3 DEF Whole

\* The entry of k becomes e, and the event carries it.
LEMMA EmitShift ==
  ASSUME NEW s, Whole(s), NEW k \in Keys, NEW e \in MapEntries, NEW ev, NEW E,
         \A q : q[k] = e /\ (\A j \in Keys \ {k} : q[j] = s.stakes[j])
                  => Carries(s.stakes, q, ev, s.height, E)
  PROVE  Shift(s, Emit(Moved(s, k, e), ev), k, E)
<1>1. PICK t, u : t = Moved(s, k, e) /\ u = Emit(t, ev)
  OBVIOUS
<1>2. /\ Whole(t) /\ t.height = s.height /\ t.prev = s.prev /\ t.events = s.events
      /\ t.stakes[k] = e /\ \A j \in Keys \ {k} : t.stakes[j] = s.stakes[j]
  BY <1>1, MovedWhole
<1>3. /\ Whole(u) /\ u.height = t.height /\ u.prev = t.prev /\ u.stakes = t.stakes
      /\ u.events = Append(t.events, ev)
  BY <1>1, <1>2, EmitWhole
<1>4. Carries(s.stakes, u.stakes, ev, s.height, E)
  BY <1>2, <1>3
<1>5. Shift(s, u, k, E)
  BY <1>2, <1>3, <1>4 DEF Shift
<1> QED BY <1>1, <1>5

\* An entry with an amount, and one without.
LEMMA StandingIs ==
  ASSUME NEW e \in Entries
  PROVE  /\ e \in MapEntries
         /\ Standing(e).value = e.amount.value
         /\ e.amount.some => Standing(e) = e.amount
         /\ ~e.amount.some => Standing(e) = NoAmount
BY OldEntry DEF Standing, MapEntries, NoAmount

LEMMA AddShift ==
  ASSUME ExecAssumption, NEW s, Whole(s), NEW k \in Keys, s.stakes[k] \in Entries, NEW v \in Nat,
         NEW E, NoneEmptied(s, E)
  PROVE  Shift(s, AddToStake(s, k, v), k, E)
<1>1. PICK e \in Entries, h \in Nat : e = s.stakes[k] /\ h = s.height
  BY DEF Whole
<1>2. PICK f \in Entries, n \in Nat :
        /\ AddToStake(s, k, v) = Emit(Moved(s, k, f), StakeEvent(k, n))
        /\ f.amount.some /\ f.amount.value = e.amount.value + n
        /\ f.amount.eligibility = IF e.amount.some THEN e.amount.eligibility ELSE EligibilityFrom(h)
  BY <1>1, AddedEntry
<1>3. /\ e \in MapEntries /\ f \in MapEntries /\ Standing(f) = f.amount
      /\ Standing(e).value = e.amount.value /\ e.amount.value \in Nat
  BY <1>2, StandingIs, OldEntry
<1>4. k \notin E =>
        \/ /\ Standing(e).value # 0 /\ Standing(f).value = Standing(e).value + n
           /\ Standing(f).eligibility = Standing(e).eligibility
        \/ /\ Standing(e).value = 0 /\ Standing(f).value = n
           /\ Standing(f).eligibility = EligibilityFrom(h)
  <2>1. CASE e.amount.some
    <3>1. Standing(e) = e.amount
      BY <2>1, StandingIs
    <3>2. k \notin E => Standing(e).value # 0
      BY <1>1, <2>1, <3>1 DEF NoneEmptied
    <3> QED BY <1>2, <1>3, <2>1, <3>1, <3>2
  <2>2. CASE ~e.amount.some
    <3>1. e.amount.value = 0
      BY <2>2, OldEntry
    <3> QED BY <1>2, <1>3, <2>2, <3>1
  <2> QED BY <2>1, <2>2
<1>5. PICK ev : ev = StakeEvent(k, n)
  OBVIOUS
<1>6. ASSUME NEW q, q[k] = f, \A j \in Keys \ {k} : q[j] = s.stakes[j]
      PROVE  Carries(s.stakes, q, ev, h, E)
  <2>1. PICK p : p = s.stakes
    OBVIOUS
  <2>2. p[k] = e
    BY <1>1, <2>1
  <2>3. Carries(p, q, StakeEvent(k, n), h, E)
    BY <1>3, <1>4, <1>6, <2>1, <2>2, StakeCarries
  <2> QED BY <1>5, <2>1, <2>3
<1>7. Shift(s, Emit(Moved(s, k, f), ev), k, E)
  BY <1>1, <1>3, <1>6, EmitShift
<1> QED BY <1>2, <1>5, <1>7

LEMMA TakeShift ==
  ASSUME NEW s, Whole(s), NEW k \in Keys, s.stakes[k] \in Entries, NEW v \in Nat,
         s.stakes[k].amount.some, v <= TotalFunds(s.stakes[k].amount), NEW E
  PROVE  Shift(s, TakeFromStake(s, k, v), k, E)
<1>1. PICK e \in Entries : e = s.stakes[k]
  OBVIOUS
<1>2. PICK g \in MapEntries, y \in Nat :
        /\ TakeFromStake(s, k, v) = Emit(Moved(s, k, g), UnstakeEvent(k, y))
        /\ y <= e.amount.value /\ Standing(g).value = e.amount.value - y
        /\ Standing(g).value # 0 => Standing(g).eligibility = e.amount.eligibility
  BY <1>1, TakenEntry
<1>3. e \in MapEntries /\ Standing(e) = e.amount
  BY <1>1, StandingIs
<1>4. PICK ev : ev = UnstakeEvent(k, y)
  OBVIOUS
<1>5. ASSUME NEW q, q[k] = g, \A j \in Keys \ {k} : q[j] = s.stakes[j]
      PROVE  Carries(s.stakes, q, ev, s.height, E)
  <2>1. PICK p : p = s.stakes
    OBVIOUS
  <2>2. p[k] = e
    BY <1>1, <2>1
  <2>3. Carries(p, q, UnstakeEvent(k, y), s.height, E)
    BY <1>2, <1>3, <1>5, <2>1, <2>2, UnstakeCarries
  <2> QED BY <1>4, <2>1, <2>3
<1>6. Shift(s, Emit(Moved(s, k, g), ev), k, E)
  BY <1>5, EmitShift
<1> QED BY <1>2, <1>4, <1>6

LEMMA SlashKept ==
  ASSUME ExecAssumption, NEW f0, NEW b, NEW E, NEW s, Kept(f0, b, E, s), NEW k \in Keys
  PROVE  Kept(f0, b, E, Slash(s, k))
<1>0. Whole(s) /\ s.stakes[k] \in MapEntries /\ s.height \in Nat /\ DOMAIN s = Fields
  BY DEF Kept, Whole
<1>1. CASE ~Exists(s, k)
  <2>1. Slash(s, k) = Panic(s)
    BY <1>1, Zenon DEF Slash
  <2> QED BY <1>0, <2>1, PanicFrame, FrameQuiet, QuietKept
<1>2. CASE Exists(s, k) /\ ~s.stakes[k].amount.some
  <2>1. Slash(s, k) = s
    BY <1>2, Zenon DEF Slash
  <2> QED BY <2>1
<1>3. CASE Exists(s, k) /\ s.stakes[k].amount.some
  <2>1. PICK e \in Entries : e = s.stakes[k]
    BY <1>0, <1>3 DEF MapEntries, Exists
  <2>2. PICK f \in Entries, x \in Nat, until \in Nat :
          /\ \/ Slash(s, k) = Remember(Emit(Moved(s, k, f), SlashEvent(k, x, until)), k, s.stakes[k])
             \/ /\ Slash(s, k) = Remember(Moved(s, k, f), k, s.stakes[k])
                /\ x = 0 /\ until = e.amount.eligibility
          /\ f.amount.some /\ x <= e.amount.value
          /\ f.amount.value = e.amount.value - x /\ f.amount.eligibility = until
    BY <1>0, <1>3, <2>1, SlashedEntry
  <2>3. e \in MapEntries /\ Standing(e) = e.amount /\ f \in MapEntries /\ Standing(f) = f.amount
    BY <1>3, <2>1, <2>2, StandingIs
  <2>4. PICK ev : ev = SlashEvent(k, x, until)
    OBVIOUS
  <2>5. ASSUME NEW q, q[k] = f, \A j \in Keys \ {k} : q[j] = s.stakes[j]
        PROVE  Carries(s.stakes, q, ev, s.height, E)
    <3>1. PICK p : p = s.stakes
      OBVIOUS
    <3>2. p[k] = e
      BY <2>1, <3>1
    <3>3. Carries(p, q, SlashEvent(k, x, until), s.height, E)
      BY <2>2, <2>3, <2>5, <3>1, <3>2, SlashCarries
    <3> QED BY <2>4, <3>1, <3>3
  <2>6. Shift(s, Emit(Moved(s, k, f), ev), k, E)
    BY <1>0, <2>3, <2>5, EmitShift
  <2>7. ASSUME x = 0, until = e.amount.eligibility PROVE Shift(s, Moved(s, k, f), k, E)
    <3>1. PICK t : t = Moved(s, k, f)
      OBVIOUS
    <3>1a. PICK g \in MapEntries : g = f
      BY <2>3
    <3>2. /\ Whole(t) /\ t.height = s.height /\ t.prev = s.prev /\ t.events = s.events
          /\ t.stakes[k] = f /\ \A j \in Keys \ {k} : t.stakes[j] = s.stakes[j]
      BY <1>0, <3>1, <3>1a, MovedWhole
    <3>3. Standing(f).value = Standing(e).value /\ Standing(f).eligibility = Standing(e).eligibility
      <4>1. e.amount.value \in Nat
        BY OldEntry
      <4> QED BY <2>2, <2>3, <2>7, <4>1
    <3>4. WeightOf(t.stakes[k]) = WeightOf(s.stakes[k])
      BY <2>1, <3>2, <3>3 DEF WeightOf
    <3>5. Shift(s, t, k, E)
      BY <3>2, <3>4 DEF Shift
    <3> QED BY <3>1, <3>5
  <2>8. PICK old \in MapEntries : old = s.stakes[k]
    BY <1>0
  <2>9. \A u : Shift(s, u, k, E) => Kept(f0, b, E, Remember(u, k, old))
    BY <2>8, ShiftKept
  <2> QED BY <2>2, <2>4, <2>6, <2>7, <2>8, <2>9
<1> QED BY <1>1, <1>2, <1>3

LEMMA LoadQuiet ==
  ASSUME NEW s, Whole(s), NEW k \in Keys, NEW o \in Keys \cup ContractIds
  PROVE  Quiet(s, Load(s, k, o)) /\ Load(s, k, o).stakes[k] \in Entries
<1>1. CASE Exists(s, k)
  <2>1. s.stakes[k] \in Entries
    BY <1>1 DEF Whole, MapEntries, Exists
  <2> QED BY <1>1, <2>1, QuietSame DEF Load
<1>2. CASE ~Exists(s, k)
  <2>1. PICK e \in Entries : e = EmptyStake(o) /\ e.amount = NoAmount
    BY EmptyEntry
  <2>2. Load(s, k, o) = Moved(s, k, e)
    BY <1>2, <2>1 DEF Load, Moved
  <2>3. Standing(e) = NoAmount
    BY <2>1 DEF Standing
  <2>4. Standing(s.stakes[k]) = NoAmount
    BY <1>2 DEF Standing, Exists
  <2>5. Moved(s, k, e).stakes[k] = e
    BY MovedWhole DEF MapEntries
  <2> QED BY <2>2, <2>3, <2>4, <2>5, MovedQuiet DEF MapEntries
<1> QED BY <1>1, <1>2

LEMMA TakeRewardQuiet ==
  ASSUME NEW s, Whole(s), NEW k \in Keys, s.stakes[k] \in Entries, NEW v \in Nat, v <= s.stakes[k].reward
  PROVE  Quiet(s, TakeReward(s, k, v))
<1>1. PICK e \in Entries : e = s.stakes[k]
  OBVIOUS
<1>2. PICK r \in Nat : r = e.reward - v
  <2>1. e.reward \in Nat /\ v <= e.reward
    BY <1>1, OldEntry
  <2> QED BY <2>1
<1>3. PICK f : f = [e EXCEPT !.reward = r]
  OBVIOUS
<1>4. f \in Entries /\ f.amount = e.amount
  BY <1>3 DEF Entries
<1>5. PICK g : g = IF f.reward = 0 /\ ~f.amount.some THEN NoStake ELSE f
  OBVIOUS
<1>6. TakeReward(s, k, v) = Moved(s, k, g)
  BY <1>1, <1>2, <1>3, <1>5 DEF TakeReward, Moved
<1>7. Standing(g) = Standing(e)
  <2>1. e # NoStake /\ f # NoStake
    BY <1>4, OldEntry
  <2> QED BY <1>4, <1>5, <2>1 DEF Standing
<1>8. g \in MapEntries
  BY <1>4, <1>5 DEF MapEntries
<1> QED BY <1>1, <1>6, <1>7, <1>8, MovedQuiet

LEMMA RewardKeyQuiet ==
  ASSUME NEW s, Whole(s), NEW k \in Keys, NEW v \in Nat
  PROVE  Quiet(s, RewardKey(s, k, v))
<1>1. CASE Exists(s, k)
  <2>1. PICK e \in Entries : e = s.stakes[k]
    BY <1>1 DEF Whole, MapEntries, Exists
  <2>2. PICK r \in Nat : r = e.reward + v
    BY OldEntry
  <2>3. PICK f : f = [e EXCEPT !.reward = r, !.faults = 0]
    OBVIOUS
  <2>4. f \in Entries /\ f.amount = e.amount
    BY <2>3 DEF Entries
  <2>5. RewardKey(s, k, v) = Moved(s, k, f)
    <3>1. [e EXCEPT !.reward = @ + v, !.faults = 0] = f
      BY <2>2, <2>3
    <3> QED BY <1>1, <2>1, <3>1, Zenon DEF RewardKey, Moved
  <2>6. Standing(f) = Standing(e)
    BY <2>4, OldEntry DEF Standing
  <2> QED BY <2>1, <2>4, <2>5, <2>6, MovedQuiet DEF MapEntries
<1>2. CASE ~Exists(s, k)
  <2>1. PICK e \in Entries : e = EmptyStake(k) /\ e.amount = NoAmount
    BY EmptyEntry
  <2>2. PICK f : f = [e EXCEPT !.reward = v]
    OBVIOUS
  <2>3. f \in Entries /\ f.amount = NoAmount
    BY <2>1, <2>2 DEF Entries
  <2>4. RewardKey(s, k, v) = Moved(s, k, f)
    BY <1>2, <2>1, <2>2 DEF RewardKey, Moved
  <2>5. Standing(f) = NoAmount
    BY <2>3 DEF Standing
  <2>6. Standing(s.stakes[k]) = NoAmount
    BY <1>2 DEF Standing, Exists
  <2> QED BY <2>3, <2>4, <2>5, <2>6, MovedQuiet DEF MapEntries
<1> QED BY <1>1, <1>2

-----------------------------------------------------------------------------
(* Calls, seen from the list *)

LEMMA StakedKept ==
  ASSUME ExecAssumption, NEW f0, NEW b, NEW E, NEW s, Kept(f0, b, E, s), NoneEmptied(s, E), NEW t,
         Quiet(s, t), NEW k \in Keys, t.stakes[k] \in Entries, NEW v \in Nat
  PROVE  Kept(f0, b, E, Remember(AddToStake(t, k, v), k, s.stakes[k]))
<1>1. Kept(f0, b, E, t) /\ NoneEmptied(t, E) /\ Whole(t)
  BY QuietKept, QuietEmptied DEF Quiet
<1>2. PICK u : u = AddToStake(t, k, v) /\ Shift(t, u, k, E)
  BY <1>1, AddShift
<1>3. PICK old \in MapEntries : old = s.stakes[k]
  BY DEF Kept, Whole
<1>4. WeightOf(old) = WeightOf(t.stakes[k])
  BY <1>3 DEF Quiet, WeightOf
<1>5. Kept(f0, b, E, Remember(u, k, old))
  BY <1>1, <1>2, <1>4, ShiftKept
<1> QED BY <1>2, <1>3, <1>5

LEMMA UnstakedKept ==
  ASSUME NEW f0, NEW b, NEW E, NEW s, Kept(f0, b, E, s), NEW t, Frame(s, t),
         NEW k \in Keys, NEW o, NEW v \in Nat, CanUnstake(s, k, o, v)
  PROVE  Kept(f0, b, E, Remember(TakeFromStake(t, k, v), k, s.stakes[k]))
<1>1. Quiet(s, t) /\ t.stakes = s.stakes
  BY FrameQuiet DEF Kept, Frame
<1>2. Kept(f0, b, E, t) /\ Whole(t)
  BY <1>1, QuietKept DEF Quiet
<1>3. PICK old \in MapEntries : old = s.stakes[k]
  BY DEF Kept, Whole
<1>4. /\ t.stakes[k] \in Entries /\ t.stakes[k].amount.some
      /\ v <= TotalFunds(t.stakes[k].amount)
  BY <1>1, <1>3 DEF CanUnstake, Exists, MapEntries
<1>5. PICK u : u = TakeFromStake(t, k, v) /\ Shift(t, u, k, E)
  BY <1>2, <1>4, TakeShift
<1>6. WeightOf(old) = WeightOf(t.stakes[k])
  BY <1>1, <1>3
<1>7. Kept(f0, b, E, Remember(u, k, old))
  BY <1>2, <1>5, <1>6, ShiftKept
<1> QED BY <1>3, <1>5, <1>7

LEMMA CollectedQuiet ==
  ASSUME NEW s, Whole(s), NEW t, Frame(s, t), NEW k \in Keys, NEW o, NEW v \in Nat,
         CanCollect(s, k, o, v)
  PROVE  Quiet(s, TakeReward(t, k, v))
<1>1. Quiet(s, t) /\ t.stakes = s.stakes /\ Whole(t)
  BY FrameQuiet DEF Frame, Quiet
<1>2. t.stakes[k] \in Entries /\ v <= t.stakes[k].reward
  BY <1>1 DEF CanCollect, Exists, MapEntries, Whole
<1>3. Quiet(t, TakeReward(t, k, v))
  BY <1>1, <1>2, TakeRewardQuiet
<1> QED BY <1>1, <1>3, QuietTrans

LEMMA StakeLoadedQuiet ==
  ASSUME NEW s, Whole(s), NEW k \in Keys, NEW o \in Keys \cup ContractIds, NEW v
  PROVE  Quiet(s, StakeLoaded(s, k, o, v)) /\ StakeLoaded(s, k, o, v).stakes[k] \in Entries
<1>1. PICK t : t = Load(s, k, o)
  OBVIOUS
<1>2. Quiet(s, t) /\ t.stakes[k] \in Entries /\ Whole(t)
  BY <1>1, LoadQuiet DEF Quiet
<1>3. StakeLoaded(s, k, o, v) = t \/ StakeLoaded(s, k, o, v) = Panic(t)
  BY <1>1 DEF StakeLoaded, Require
<1>4. Frame(t, Panic(t))
  BY <1>2, PanicFrame DEF Whole
<1>5. Quiet(s, Panic(t)) /\ Panic(t).stakes = t.stakes
  BY <1>2, <1>4, FrameQuiet, QuietTrans DEF Frame
<1> QED BY <1>2, <1>3, <1>5

LEMMA StakeAccountKept ==
  ASSUME ExecAssumption, NEW f0, NEW b, NEW E, NEW s, Kept(f0, b, E, s), NoneEmptied(s, E),
         NEW k \in Keys, NEW v \in Nat
  PROVE  Kept(f0, b, E, StakeAccount(s, k, v))
<1>1. PICK r : r = StakeLoaded(s, k, k, v)
  OBVIOUS
<1>2. PICK t : t = (IF r.err = "none" THEN Deposit(r, Stake, v) ELSE r)
  OBVIOUS
<1>3. PICK u : u = (IF t.err = "none" THEN Remember(AddToStake(t, k, v), k, s.stakes[k]) ELSE t)
  OBVIOUS
<1>4. StakeAccount(s, k, v) = u
  BY <1>1, <1>2, <1>3, Zenon DEF StakeAccount, Then
<1>5. Whole(s)
  BY DEF Kept
<1>6. Quiet(s, r) /\ r.stakes[k] \in Entries /\ Whole(r)
  <2>1. k \in Keys \cup ContractIds
    OBVIOUS
  <2> QED BY <1>1, <1>5, <2>1, StakeLoadedQuiet DEF Quiet
<1>7. Frame(r, t)
  BY <1>2, <1>6, DepositFrame, FrameSame DEF Whole
<1>8. Quiet(s, t) /\ t.stakes[k] \in Entries
  BY <1>6, <1>7, FrameQuiet, QuietTrans DEF Frame
<1>9. Kept(f0, b, E, Remember(AddToStake(t, k, v), k, s.stakes[k])) /\ Kept(f0, b, E, t)
  BY <1>8, StakedKept, QuietKept
<1> QED BY <1>3, <1>4, <1>9

LEMMA StakeForContractKept ==
  ASSUME ExecAssumption, NEW f0, NEW b, NEW E, NEW s, Kept(f0, b, E, s), NoneEmptied(s, E),
         NEW k \in Keys, NEW c \in ContractIds, NEW v \in Nat
  PROVE  Kept(f0, b, E, StakeForContract(s, k, c, v))
<1>1. PICK t : t = StakeLoaded(s, k, c, v)
  OBVIOUS
<1>2. PICK u : u = (IF t.err = "none" THEN Remember(AddToStake(t, k, v), k, s.stakes[k]) ELSE t)
  OBVIOUS
<1>3. StakeForContract(s, k, c, v) = u
  BY <1>1, <1>2, Zenon DEF StakeForContract, Then
<1>4. Whole(s)
  BY DEF Kept
<1>5. Quiet(s, t) /\ t.stakes[k] \in Entries
  <2>1. c \in Keys \cup ContractIds
    OBVIOUS
  <2> QED BY <1>1, <1>4, <2>1, StakeLoadedQuiet
<1>6. Kept(f0, b, E, Remember(AddToStake(t, k, v), k, s.stakes[k])) /\ Kept(f0, b, E, t)
  BY <1>5, StakedKept, QuietKept
<1> QED BY <1>2, <1>3, <1>6

LEMMA FrameKept ==
  ASSUME NEW f0, NEW b, NEW E, NEW s, Kept(f0, b, E, s), NEW t, Frame(s, t)
  PROVE  Kept(f0, b, E, t)
BY FrameQuiet, QuietKept DEF Kept

LEMMA UnstakeKept ==
  ASSUME NEW f0, NEW b, NEW E, NEW s, Kept(f0, b, E, s), NEW k \in Keys, NEW w, IsWithdraw(w)
  PROVE  Kept(f0, b, E, Unstake(s, k, w))
<1> DEFINE left == TotalFunds(s.stakes[k].amount) - w.value
<1>1. PICK r : r = Require(s, CanUnstake(s, k, k, w.value))
  OBVIOUS
<1>2. PICK t : t = (IF r.err = "none" THEN Withdraw(r, Stake, w) ELSE r)
  OBVIOUS
<1>3. PICK u : u = (IF t.err = "none" THEN Require(t, left = 0 \/ left >= MinStake) ELSE t)
  OBVIOUS
<1>4. PICK x : x = (IF u.err = "none" THEN Remember(TakeFromStake(u, k, w.value), k, s.stakes[k]) ELSE u)
  OBVIOUS
<1>5. Unstake(s, k, w) = x
  BY <1>1, <1>2, <1>3, <1>4, Zenon DEF Unstake, Then
<1> HIDE DEF left
<1>6. PICK v \in Nat : v = w.value
  BY DEF IsWithdraw
<1>7. Frame(s, r) /\ (r.err = "none" => CanUnstake(s, k, k, v))
  BY <1>1, <1>6, RequireFrame DEF Kept, Whole
<1>8. Frame(s, t) /\ (t.err = "none" => r.err = "none")
  <2>1. Frame(r, Withdraw(r, Stake, w))
    BY <1>7, FrameDomain, WithdrawFrame
  <2> QED BY <1>2, <1>7, <2>1, FrameSequel
<1>9. Frame(s, u) /\ (u.err = "none" => t.err = "none")
  <2>1. Frame(t, Require(t, left = 0 \/ left >= MinStake))
    BY <1>8, FrameDomain, RequireFrame
  <2> QED BY <1>3, <1>8, <2>1, FrameSequel
<1>10. Kept(f0, b, E, u)
  BY <1>9, FrameKept
<1>11. u.err = "none" => Kept(f0, b, E, Remember(TakeFromStake(u, k, v), k, s.stakes[k]))
  BY <1>7, <1>8, <1>9, UnstakedKept
<1> QED BY <1>4, <1>5, <1>6, <1>10, <1>11

LEMMA UnstakeForContractKept ==
  ASSUME NEW f0, NEW b, NEW E, NEW s, Kept(f0, b, E, s), NEW k \in Keys, NEW w, IsWithdraw(w)
  PROVE  Kept(f0, b, E, UnstakeForContract(s, k, w))
<1>1. PICK r : r = Require(s, CanUnstake(s, k, w.contract, w.value))
  OBVIOUS
<1>2. PICK t : t = (IF r.err = "none" THEN ContractToContract(r, Stake, w.contract, w.value) ELSE r)
  OBVIOUS
<1>3. PICK u : u = (IF t.err = "none" THEN Withdraw(t, w.contract, w) ELSE t)
  OBVIOUS
<1>4. PICK x : x = (IF u.err = "none" THEN Remember(TakeFromStake(u, k, w.value), k, s.stakes[k]) ELSE u)
  OBVIOUS
<1>5. UnstakeForContract(s, k, w) = x
  BY <1>1, <1>2, <1>3, <1>4, Zenon DEF UnstakeForContract, Then
<1>6. PICK v \in Nat : v = w.value
  BY DEF IsWithdraw
<1>7. Frame(s, r) /\ (r.err = "none" => CanUnstake(s, k, w.contract, v))
  BY <1>1, <1>6, RequireFrame DEF Kept, Whole
<1>8. Frame(s, t) /\ (t.err = "none" => r.err = "none")
  <2>1. Frame(r, ContractToContract(r, Stake, w.contract, w.value))
    BY <1>7, FrameDomain, ContractToContractFrame
  <2> QED BY <1>2, <1>7, <2>1, FrameSequel
<1>9. Frame(s, u) /\ (u.err = "none" => t.err = "none")
  <2>1. Frame(t, Withdraw(t, w.contract, w))
    BY <1>8, FrameDomain, WithdrawFrame
  <2> QED BY <1>3, <1>8, <2>1, FrameSequel
<1>10. Kept(f0, b, E, u)
  BY <1>9, FrameKept
<1>11. u.err = "none" => Kept(f0, b, E, Remember(TakeFromStake(u, k, v), k, s.stakes[k]))
  BY <1>7, <1>8, <1>9, UnstakedKept
<1> QED BY <1>4, <1>5, <1>6, <1>10, <1>11

LEMMA WithdrawRewardKept ==
  ASSUME NEW f0, NEW b, NEW E, NEW s, Kept(f0, b, E, s), NEW k \in Keys, NEW w, IsWithdraw(w)
  PROVE  Kept(f0, b, E, WithdrawReward(s, k, w))
<1>1. PICK r : r = Require(s, CanCollect(s, k, k, w.value))
  OBVIOUS
<1>2. PICK t : t = (IF r.err = "none" THEN Mint(r, Stake, w) ELSE r)
  OBVIOUS
<1>3. PICK x : x = (IF t.err = "none" THEN TakeReward(t, k, w.value) ELSE t)
  OBVIOUS
<1>4. WithdrawReward(s, k, w) = x
  BY <1>1, <1>2, <1>3, Zenon DEF WithdrawReward, Then
<1>5. PICK v \in Nat : v = w.value
  BY DEF IsWithdraw
<1>6. Whole(s)
  BY DEF Kept
<1>7. Frame(s, r) /\ (r.err = "none" => CanCollect(s, k, k, v))
  BY <1>1, <1>5, <1>6, RequireFrame DEF Whole
<1>8. Frame(s, t) /\ (t.err = "none" => r.err = "none")
  <2>1. Frame(r, Mint(r, Stake, w))
    BY <1>7, FrameDomain, MintFrame
  <2> QED BY <1>2, <1>7, <2>1, FrameSequel
<1>9. Kept(f0, b, E, t)
  BY <1>8, FrameKept
<1>10. t.err = "none" => Kept(f0, b, E, TakeReward(t, k, v))
  BY <1>6, <1>7, <1>8, CollectedQuiet, QuietKept
<1> QED BY <1>3, <1>4, <1>5, <1>9, <1>10

LEMMA WithdrawRewardForContractKept ==
  ASSUME NEW f0, NEW b, NEW E, NEW s, Kept(f0, b, E, s), NEW k \in Keys, NEW w, IsWithdraw(w)
  PROVE  Kept(f0, b, E, WithdrawRewardForContract(s, k, w))
<1>1. PICK r : r = Require(s, CanCollect(s, k, w.contract, w.value))
  OBVIOUS
<1>2. PICK t : t = (IF r.err = "none" THEN MintToContract(r, Stake, w.contract, w.value) ELSE r)
  OBVIOUS
<1>3. PICK u : u = (IF t.err = "none" THEN Withdraw(t, w.contract, w) ELSE t)
  OBVIOUS
<1>4. PICK x : x = (IF u.err = "none" THEN TakeReward(u, k, w.value) ELSE u)
  OBVIOUS
<1>5. WithdrawRewardForContract(s, k, w) = x
  BY <1>1, <1>2, <1>3, <1>4, Zenon DEF WithdrawRewardForContract, Then
<1>6. PICK v \in Nat : v = w.value
  BY DEF IsWithdraw
<1>7. Whole(s)
  BY DEF Kept
<1>8. Frame(s, r) /\ (r.err = "none" => CanCollect(s, k, w.contract, v))
  BY <1>1, <1>6, <1>7, RequireFrame DEF Whole
<1>9. Frame(s, t) /\ (t.err = "none" => r.err = "none")
  <2>1. Frame(r, MintToContract(r, Stake, w.contract, w.value))
    BY <1>8, FrameDomain, MintToContractFrame
  <2> QED BY <1>2, <1>8, <2>1, FrameSequel
<1>10. Frame(s, u) /\ (u.err = "none" => t.err = "none")
  <2>1. Frame(t, Withdraw(t, w.contract, w))
    BY <1>9, FrameDomain, WithdrawFrame
  <2> QED BY <1>3, <1>9, <2>1, FrameSequel
<1>11. Kept(f0, b, E, u)
  BY <1>10, FrameKept
<1>12. u.err = "none" => Kept(f0, b, E, TakeReward(u, k, v))
  BY <1>7, <1>8, <1>9, <1>10, CollectedQuiet, QuietKept
<1> QED BY <1>4, <1>5, <1>6, <1>11, <1>12

LEMMA AliceCallFrame ==
  ASSUME NEW s, DOMAIN s = Fields, NEW call, IsCall(call), call.contract = "alice"
  PROVE  Frame(s, AliceCall(s, call))
<1>1. call.fn \in {"deposit", "withdraw", "contract_to_account", "contract_to_contract"}
  BY CallFields DEF TransferId, Stake
<1>2. \/ AliceCall(s, call) = Deposit(s, "alice", call.value)
      \/ AliceCall(s, call) = Withdraw(s, "alice", WithdrawOf(s, call, "alice"))
      \/ AliceCall(s, call) = ContractToAccount(s, "alice", call.to, call.value)
      \/ AliceCall(s, call) = ContractToContract(s, "alice", "bob", call.value)
  BY <1>1 DEF AliceCall
<1>3. /\ Frame(s, Deposit(s, "alice", call.value))
      /\ Frame(s, Withdraw(s, "alice", WithdrawOf(s, call, "alice")))
      /\ Frame(s, ContractToAccount(s, "alice", call.to, call.value))
      /\ Frame(s, ContractToContract(s, "alice", "bob", call.value))
  BY DepositFrame, WithdrawFrame, ContractToAccountFrame, ContractToContractFrame
<1> QED BY <1>2, <1>3, Zenon

LEMMA CharlieCallKept ==
  ASSUME ExecAssumption, NEW f0, NEW b, NEW E, NEW s, Kept(f0, b, E, s), NoneEmptied(s, E),
         NEW call, IsCall(call), call.contract = "charlie"
  PROVE  Kept(f0, b, E, CharlieCall(s, call))
<1>1. "charlie" \in ContractIds /\ Whole(s) /\ DOMAIN s = Fields
  BY DEF ContractIds, Kept, Whole
<1>2. PICK v \in Nat, k \in Keys : v = call.value /\ k = call.key
  BY CallFields
<1>3. PICK w : w = WithdrawOf(s, call, "charlie") /\ IsWithdraw(w)
  BY CallFields
<1>4. call.fn = "stake" \/ call.fn = "unstake" \/ call.fn = "withdraw"
  BY CallFields DEF TransferId, Stake
<1>5. CASE call.fn = "stake"
  <2>1. PICK t : t = Deposit(s, "charlie", v)
    OBVIOUS
  <2>2. PICK u : u = (IF t.err = "none" THEN ContractToContract(t, "charlie", Stake, v) ELSE t)
    OBVIOUS
  <2>3. PICK x : x = (IF u.err = "none" THEN StakeForContract(u, k, "charlie", v) ELSE u)
    OBVIOUS
  <2>4. CharlieCall(s, call)
          = Then(Then(Deposit(s, "charlie", call.value),
                      LAMBDA z : ContractToContract(z, "charlie", Stake, call.value)),
                 LAMBDA z : StakeForContract(z, call.key, "charlie", call.value))
    BY <1>5 DEF CharlieCall
  <2>5. CharlieCall(s, call) = x
    BY <1>2, <2>1, <2>2, <2>3, <2>4, Zenon DEF Then
  <2>6. Frame(s, t)
    BY <1>1, <2>1, DepositFrame
  <2>7. Frame(s, u)
    <3>1. Frame(t, ContractToContract(t, "charlie", Stake, v))
      BY <2>6, FrameDomain, ContractToContractFrame
    <3> QED BY <2>2, <2>6, <3>1, FrameSequel
  <2>8. Kept(f0, b, E, u) /\ NoneEmptied(u, E)
    BY <1>1, <2>7, FrameKept, FrameQuiet, QuietEmptied
  <2>9. Kept(f0, b, E, StakeForContract(u, k, "charlie", v))
    BY <1>1, <2>8, StakeForContractKept
  <2> QED BY <2>3, <2>5, <2>8, <2>9
<1>6. CASE call.fn = "unstake"
  <2>1. CharlieCall(s, call) = UnstakeForContract(s, k, w)
    BY <1>2, <1>3, <1>6 DEF CharlieCall
  <2> QED BY <1>3, <2>1, UnstakeForContractKept
<1>7. CASE call.fn = "withdraw"
  <2>1. CharlieCall(s, call) = WithdrawRewardForContract(s, k, w)
    BY <1>2, <1>3, <1>7 DEF CharlieCall
  <2> QED BY <1>3, <2>1, WithdrawRewardForContractKept
<1> QED BY <1>4, <1>5, <1>6, <1>7

LEMMA CallKept ==
  ASSUME ExecAssumption, NEW f0, NEW b, NEW E, NEW s, Kept(f0, b, E, s), NoneEmptied(s, E),
         NEW call, IsCall(call)
  PROVE  Kept(f0, b, E, Call(s, call))
<1>0. DOMAIN s = Fields
  BY DEF Kept, Whole
<1>1. CASE call.contract = "none"
  <2>1. Call(s, call) = s
    BY <1>1 DEF Call, TransferId, Stake
  <2> QED BY <2>1
<1>2. CASE call.contract = TransferId
  <2>1. PICK w : w = WithdrawOf(s, call, TransferId)
    OBVIOUS
  <2>2. Call(s, call) = Convert(s, TransferId, w)
    BY <1>2, <2>1 DEF Call, TransferId, Stake
  <2> QED BY <1>0, <2>2, ConvertFrame, FrameKept
<1>3. CASE call.contract = Stake
  <2>1. PICK w : w = WithdrawOf(s, call, Stake) /\ IsWithdraw(w)
    BY <1>3, CallFields DEF Stake
  <2>2. PICK v \in Nat, k \in Keys : v = call.value /\ k = call.key
    BY <1>3, CallFields
  <2>3. call.fn = "stake" \/ call.fn = "unstake" \/ call.fn = "withdraw"
    BY <1>3, CallFields DEF TransferId, Stake
  <2>4. CASE call.fn = "stake"
    <3>1. Call(s, call) = StakeAccount(s, k, v)
      BY <1>3, <2>2, <2>4 DEF Call, TransferId, Stake
    <3> QED BY <3>1, StakeAccountKept
  <2>5. CASE call.fn = "unstake"
    <3>1. Call(s, call) = Unstake(s, k, w)
      BY <1>3, <2>1, <2>2, <2>5 DEF Call, TransferId, Stake
    <3> QED BY <2>1, <3>1, UnstakeKept
  <2>6. CASE call.fn = "withdraw"
    <3>1. Call(s, call) = WithdrawReward(s, k, w)
      BY <1>3, <2>1, <2>2, <2>6 DEF Call, TransferId, Stake
    <3> QED BY <2>1, <3>1, WithdrawRewardKept
  <2> QED BY <2>3, <2>4, <2>5, <2>6
<1>4. CASE call.contract = "alice"
  <2>1. Call(s, call) = AliceCall(s, call)
    BY <1>4 DEF Call, TransferId, Stake
  <2> QED BY <1>0, <1>4, <2>1, AliceCallFrame, FrameKept
<1>5. CASE call.contract = "charlie"
  <2>1. Call(s, call) = CharlieCall(s, call)
    BY <1>5 DEF Call, TransferId, Stake
  <2> QED BY <1>5, <2>1, CharlieCallKept
<1> QED BY <1>1, <1>2, <1>3, <1>4, <1>5, CallFields

\* Whatever comes of a transaction, the list can follow.
LEMMA ExecuteKept ==
  ASSUME ExecAssumption, NEW f0, NEW b, NEW E, NEW s, Kept(f0, b, E, s), NoneEmptied(s, E),
         NEW tx, IsTx(tx)
  PROVE  Kept(f0, b, E, Execute(s, tx).s)
<1>1. PICK e, t : e = Execute(s, tx) /\ t = Spend(s, tx)
  OBVIOUS
<1>2. CASE ~DeployCheck(tx)
  <2>1. e = [err |-> "panic", s |-> s, gas |-> 0]
    BY <1>1, <1>2 DEF Execute
  <2>2. e.s = s
    BY <2>1
  <2> QED BY <1>1, <2>2
<1>3. CASE DeployCheck(tx) /\ t.err # "none"
  <2>1. e = [err |-> t.err, s |-> s, gas |-> 0]
    BY <1>1, <1>3 DEF Execute, ExecuteSpent
  <2>2. e.s = s
    BY <2>1
  <2> QED BY <1>1, <2>2
<1>4. CASE DeployCheck(tx) /\ t.err = "none"
  <2>1. PICK u : u = IF tx.bytes > 0 THEN Deploy(t, tx) ELSE Call(t, tx.call)
    OBVIOUS
  <2>2. e = Charged(t, u, tx)
    BY <1>1, <1>4, <2>1 DEF Execute, ExecuteSpent
  <2>3. Whole(s) /\ Frame(s, t)
    BY <1>1, SpendFrame DEF Kept, Whole
  <2>4. Kept(f0, b, E, t) /\ NoneEmptied(t, E) /\ DOMAIN t = Fields
    BY <2>3, FrameKept, FrameQuiet, QuietEmptied, FrameDomain
  <2>5. Kept(f0, b, E, u) /\ DOMAIN u = Fields
    <3>1. Kept(f0, b, E, Deploy(t, tx))
      BY <2>4, DeployFrame, FrameKept
    <3>2. Kept(f0, b, E, Call(t, tx.call))
      <4>1. PICK call : call = tx.call /\ IsCall(call)
        BY TxFacts
      <4>2. Kept(f0, b, E, Call(t, call))
        BY <2>4, <4>1, CallKept
      <4> QED BY <4>1, <4>2
    <3> QED BY <2>1, <3>1, <3>2 DEF Kept, Whole
  <2>6. PICK gas : e.s = Refund(t, gas) \/ e.s = Refund(u, gas)
    <3>1. PICK gas : e = [err |-> "none", s |-> Refund(IF u.err # "none" THEN t ELSE u, gas), gas |-> gas]
      BY <2>2, Zenon DEF Charged
    <3>2. e.s = Refund(IF u.err # "none" THEN t ELSE u, gas)
      BY <3>1
    <3>3. e.s = Refund(t, gas) \/ e.s = Refund(u, gas)
      BY <3>2, Zenon
    <3> QED BY <3>3
  <2>7. Kept(f0, b, E, Refund(t, gas)) /\ Kept(f0, b, E, Refund(u, gas))
    BY <2>4, <2>5, RefundFrame, FrameKept
  <2> QED BY <1>1, <2>6, <2>7
<1> QED BY <1>2, <1>3, <1>4

-----------------------------------------------------------------------------
(* The end of a block, seen from the list *)

LEMMA VotersQuiet ==
  ASSUME NEW s, Whole(s), NEW S, IsFiniteSet(S), S \subseteq [key : Keys, credits : Nat],
         NEW share \in Nat
  PROVE  Quiet(s, Voted(s, share, S))
<1>1. PICK g : g = VoteFold(s, share, S)
  OBVIOUS
<1>2. Voted(s, share, S) = g[S]
  BY <1>1, VotedIsFold
<1> DEFINE T == {V \in SUBSET S : Quiet(s, g[V])}
<1>3. ASSUME NEW V \in SUBSET S, \A x \in V : V \ {x} \in T PROVE V \in T
  <2>1. g[V] = VoteStep(s, share, g, V)
    BY <1>1, VoteFoldFacts
  <2>2. CASE V = {}
    <3>1. g[V] = s
      BY <2>1, <2>2 DEF VoteStep
    <3> QED BY <3>1, QuietSame
  <2>3. CASE V # {}
    <3>1. PICK v \in V : v = Pick(V)
      BY <2>3, PickIn
    <3>2. PICK u : u = g[V \ {v}]
      OBVIOUS
    <3>3. PICK k \in Keys, c \in Nat : k = v.key /\ c = v.credits
      OBVIOUS
    <3>4. PICK a \in Nat : a = c * share
      OBVIOUS
    <3>5. g[V] = RewardKey(u, k, a)
      BY <2>1, <2>3, <3>1, <3>2, <3>3, <3>4, Zenon DEF VoteStep
    <3>6. Quiet(s, u)
      BY <1>3, <3>2
    <3>7. Quiet(u, RewardKey(u, k, a))
      BY <3>6, RewardKeyQuiet DEF Quiet
    <3> QED BY <3>5, <3>6, <3>7, QuietTrans
  <2> QED BY <2>2, <2>3
<1>4. SUBSET S \subseteq T
  <2> HIDE DEF T
  <2> QED BY <1>3, Subsets
<1> QED BY <1>2, <1>4

LEMMA SlashAllKept ==
  ASSUME ExecAssumption, NEW f0, NEW b, NEW E, NEW s, Kept(f0, b, E, s), NEW q \in Seq(Keys)
  PROVE  Kept(f0, b, E, SlashAll(s, q))
<1>1. PICK l \in Nat : l = Len(q)
  OBVIOUS
<1>2. PICK f : f = ChainFun("slash", s, q)
  OBVIOUS
<1> DEFINE T == {n \in 0..l : Kept(f0, b, E, f[n])}
<1>3. \A n \in 0..l : f[n] = ChainStep("slash", s, q, f, n)
  BY <1>1, <1>2, ChainFacts
<1>4. 0 \in T
  <2>1. f[0] = s
    BY <1>3 DEF ChainStep
  <2> QED BY <2>1
<1>5. ASSUME NEW k \in 0..(l - 1), k \in T PROVE k + 1 \in T
  <2>1. PICK j \in 1..l : j = k + 1 /\ j \in 0..l /\ j - 1 = k /\ j # 0
    OBVIOUS
  <2>2. PICK u : u = f[k]
    OBVIOUS
  <2>3. PICK x \in Keys : x = q[j]
    <3>1. q[j] \in Keys
      BY <1>1, SeqElement
    <3> QED BY <3>1
  <2>4. f[j] = u \/ f[j] = Slash(u, x)
    BY <1>3, <2>1, <2>2, <2>3 DEF ChainStep, Advance, Then
  <2>5. Kept(f0, b, E, u) /\ Kept(f0, b, E, Slash(u, x))
    BY <1>5, <2>2, SlashKept
  <2> QED BY <2>1, <2>4, <2>5
<1>6. Kept(f0, b, E, f[l])
  <2>1. 0..l \subseteq T
    <3> HIDE DEF T
    <3> QED BY <1>4, <1>5, UpTo
  <2>2. l \in 0..l
    OBVIOUS
  <2> QED BY <2>1, <2>2
<1>7. SlashAll(s, q) = f[l]
  BY <1>1, <1>2, SlashChain DEF Chain
<1> QED BY <1>6, <1>7

LEMMA ClosedKept ==
  ASSUME ExecAssumption, NEW f0, NEW b, NEW E, NEW s, Kept(f0, b, E, s), NEW c, IsClosing(c),
         NEW total \in Nat, NEW tenth \in Nat, NEW extra \in Nat, NEW share \in Nat, 3 * tenth <= total
  PROVE  Kept(f0, b, E, Closed(s, total, tenth, extra, share, c))
<1>1. PICK k \in Keys, d \in Keys : k = c.generator /\ d = DuskKey
  BY DEF ExecAssumption, IsClosing
<1>2. PICK x \in Nat : x = total - 3 * tenth
  OBVIOUS
<1>3. PICK s1, s2, s3, s4, s5, r :
        /\ s1 = RewardKey(s, k, x) /\ s2 = RewardKey(s1, d, tenth) /\ r = RewardKey(s2, k, extra)
        /\ s3 = (IF extra = 0 THEN s2 ELSE r)
        /\ s4 = Voted(s3, share, c.voters) /\ s5 = SlashAll(s4, c.slashed)
  OBVIOUS
<1>4. Closed(s, total, tenth, extra, share, c) = (IF s5.err = "none" THEN UpdateRoot(s5) ELSE s5)
  BY <1>1, <1>2, <1>3, Zenon DEF Closed
<1>5. Quiet(s, s1) /\ Whole(s1)
  BY <1>3, RewardKeyQuiet DEF Kept, Quiet
<1>6. Quiet(s, s2) /\ Whole(s2)
  <2>1. Quiet(s1, s2)
    BY <1>3, <1>5, RewardKeyQuiet
  <2> QED BY <1>5, <2>1, QuietTrans DEF Quiet
<1>7. Quiet(s, s3) /\ Whole(s3)
  <2>1. Quiet(s2, r)
    BY <1>3, <1>6, RewardKeyQuiet
  <2>2. Quiet(s, r)
    BY <1>6, <2>1, QuietTrans
  <2> QED BY <1>3, <1>6, <2>2 DEF Quiet
<1>8. Quiet(s, s4)
  <2>1. IsFiniteSet(c.voters) /\ c.voters \subseteq [key : Keys, credits : Nat]
    BY DEF IsClosing
  <2>2. Quiet(s3, s4)
    BY <1>3, <1>7, <2>1, VotersQuiet
  <2> QED BY <1>7, <2>2, QuietTrans
<1>9. Kept(f0, b, E, s5)
  <2>1. c.slashed \in Seq(Keys)
    BY DEF IsClosing
  <2>2. Kept(f0, b, E, s4)
    BY <1>8, QuietKept
  <2> QED BY <1>3, <2>1, <2>2, SlashAllKept
<1>10. Kept(f0, b, E, UpdateRoot(s5))
  BY <1>9, UpdateRootFrame, FrameKept DEF Kept, Whole
<1> QED BY <1>4, <1>9, <1>10

LEMMA CloseKept ==
  ASSUME ExecAssumption, NEW f0, NEW b, NEW E, NEW s, Kept(f0, b, E, s), NEW d \in Nat,
         NEW c, IsClosing(c)
  PROVE  Kept(f0, b, E, CloseBlock(s, d, c))
<1>1. PICK e \in Nat : e = Emission
  BY DEF ExecAssumption
<1>2. PICK total \in Nat, tenth \in Nat : total = e + d /\ tenth = total \div 10 /\ 3 * tenth <= total
  <2>1. e + d \in Nat /\ \A x \in Nat : x \div 10 \in Nat /\ 3 * (x \div 10) <= x
    OBVIOUS
  <2> QED BY <2>1
<1>3. PICK credits \in Nat : credits = SumFunction(Voters(c)) /\ credits <= Credits
  <2>1. DOMAIN Voters(c) = c.voters /\ IsFiniteSet(c.voters) /\ \A v \in c.voters : Voters(c)[v] \in Nat
    BY DEF IsClosing, Voters
  <2>2. SumFunctionOnSet(Voters(c), c.voters) \in Nat
    BY <2>1, SumNat
  <2>3. SumFunction(Voters(c)) \in Nat
    BY <2>1, <2>2 DEF SumFunction
  <2> QED BY <2>3 DEF IsClosing, Voters
<1>4. PICK n \in Nat : n = Credits /\ n > 0
  BY DEF ExecAssumption
<1>5. PICK extra \in Nat : extra = GeneratorExtra(tenth, credits)
  BY <1>3, ExtraBounded
<1>6. PICK share \in Nat : share = VoterShare(tenth)
  <2>1. tenth \div n \in Nat
    BY <1>4
  <2> QED BY <1>4, <2>1 DEF VoterShare
<1>7. \/ CloseBlock(s, d, c) = Panic(s)
      \/ CloseBlock(s, d, c) = Closed(s, total, tenth, extra, share, c)
  <2>1. total = Emission + d /\ tenth = (Emission + d) \div 10
    BY <1>1, <1>2
  <2> QED BY <1>3, <1>5, <1>6, <2>1, CloseBlockClosed, Zenon
<1>8. Kept(f0, b, E, Panic(s))
  BY PanicFrame, FrameKept DEF Kept, Whole
<1>9. Kept(f0, b, E, Closed(s, total, tenth, extra, share, c))
  BY <1>2, ClosedKept
<1> QED BY <1>7, <1>8, <1>9

-----------------------------------------------------------------------------
(* The lists of the acceptor *)

LEMMA QueryTracks ==
  ASSUME NEW p, p \in [Keys -> MapEntries], NEW E
  PROVE  Tracks(Query(p), p, E)
<1>1. PICK f : f = Query(p)
  OBVIOUS
<1>2. DOMAIN f = {k \in Keys : p[k] # NoStake}
  BY <1>1 DEF Query
<1>3. ASSUME NEW k \in DOMAIN f
      PROVE  /\ f[k] \in [value : Nat, since : Nat] /\ p[k] \in Entries
             /\ f[k].value = p[k].amount.value /\ f[k].since = p[k].amount.eligibility
  <2>1. k \in Keys /\ p[k] \in Entries
    BY <1>2 DEF MapEntries
  <2>2. f[k] = [value |-> p[k].amount.value, since |-> p[k].amount.eligibility]
    BY <1>1, <1>2 DEF Query
  <2>3. p[k].amount.value \in Nat /\ p[k].amount.eligibility \in Nat
    BY <2>1, OldEntry
  <2> QED BY <2>1, <2>2, <2>3
<1>4. ASSUME NEW k \in Keys PROVE Seat(f, k) = WeightOf(p[k])
  <2>1. p[k] \in MapEntries
    OBVIOUS
  <2>2. CASE k \in DOMAIN f
    <3>1. PICK e \in Entries : e = p[k]
      BY <1>3, <2>2
    <3>2. f[k].value = e.amount.value /\ f[k].since = e.amount.eligibility
          /\ f[k].value \in Nat /\ f[k].since \in Nat
      BY <1>3, <2>2, <3>1
    <3>3. e.amount.some \/ e.amount.value = 0
      BY DEF Entries, Amounts
    <3>4. \/ f[k].value = 0 /\ Standing(e).value = 0
          \/ f[k].value = Standing(e).value /\ f[k].since = Standing(e).eligibility
      BY <3>2, <3>3, StandingIs
    <3>5. Seat(f, k) = WeightOf(e)
      BY <2>1, <2>2, <3>1, <3>2, <3>4, SeatIs
    <3> QED BY <3>1, <3>5
  <2>3. CASE k \notin DOMAIN f
    <3>1. p[k] = NoStake
      BY <1>2, <2>3
    <3>2. Standing(p[k]).value = 0
      BY <3>1 DEF Standing, NoAmount
    <3>3. PICK e \in MapEntries : e = p[k]
      BY <2>1
    <3> QED BY <2>3, <3>2, <3>3, SeatIs
  <2> QED BY <2>2, <2>3
<1>5. IsList(f)
  BY <1>2, <1>3 DEF IsList
<1> QED BY <1>1, <1>4, <1>5 DEF Tracks

LEMMA ChangesTrack ==
  ASSUME NEW b, b \in [Keys -> MapEntries], NEW v, Whole(v), PrevOk(b, v), NEW E
  PROVE  Tracks(ApplyChanges(Query(v.stakes), v.prev), b, E)
<1>1. PICK f, c : f = Query(v.stakes) /\ c = v.prev
  OBVIOUS
<1>2. Tracks(f, v.stakes, {})
  BY <1>1, QueryTracks DEF Whole
<1>3. PICK g : g = ApplyChanges(f, c)
  OBVIOUS
<1>4. /\ DOMAIN g = (DOMAIN f \cup DOMAIN c) \ {k \in DOMAIN c : c[k] = NoStake}
      /\ \A k \in DOMAIN g :
           g[k] = IF k \in DOMAIN c
                  THEN [value |-> c[k].amount.value, since |-> c[k].amount.eligibility] ELSE f[k]
  BY <1>3 DEF ApplyChanges, Members
<1>5. /\ DOMAIN c \subseteq Keys
      /\ \A k \in DOMAIN c : c[k] \in MapEntries /\ WeightOf(c[k]) = WeightOf(b[k])
      /\ \A k \in Keys \ DOMAIN c : WeightOf(v.stakes[k]) = WeightOf(b[k])
  BY <1>1 DEF PrevOk
<1>6. IsList(f) /\ \A k \in Keys : Seat(f, k) = WeightOf(v.stakes[k])
  BY <1>2 DEF Tracks
<1>7. ASSUME NEW k \in DOMAIN c
      PROVE  (k \in DOMAIN g => g[k] \in [value : Nat, since : Nat]) /\ Seat(g, k) = WeightOf(b[k])
  <2>1. PICK e \in MapEntries : e = c[k] /\ WeightOf(e) = WeightOf(b[k])
    BY <1>5
  <2>2. CASE e = NoStake
    <3>1. k \notin DOMAIN g /\ Standing(e).value = 0
      BY <1>4, <2>1, <2>2 DEF Standing, NoAmount
    <3>2. Seat(g, k) = WeightOf(e)
      BY <3>1, SeatIs
    <3> QED BY <2>1, <3>1, <3>2
  <2>3. CASE e # NoStake
    <3>1. PICK d \in Entries : d = e
      BY <2>3 DEF MapEntries
    <3>2. k \in DOMAIN g /\ g[k] = [value |-> d.amount.value, since |-> d.amount.eligibility]
      BY <1>4, <2>1, <2>3, <3>1
    <3>3. d.amount.value \in Nat /\ d.amount.eligibility \in Nat
      BY OldEntry
    <3>4. /\ g[k] \in [value : Nat, since : Nat]
          /\ g[k].value = d.amount.value /\ g[k].since = d.amount.eligibility
          /\ g[k].value \in Nat /\ g[k].since \in Nat
      BY <3>2, <3>3
    <3>5. d.amount.some \/ d.amount.value = 0
      BY DEF Entries, Amounts
    <3>6. \/ g[k].value = 0 /\ Standing(d).value = 0
          \/ g[k].value = Standing(d).value /\ g[k].since = Standing(d).eligibility
      BY <3>4, <3>5, StandingIs
    <3>7. Seat(g, k) = WeightOf(e)
      BY <3>1, <3>2, <3>4, <3>6, SeatIs
    <3> QED BY <2>1, <3>4, <3>7
  <2> QED BY <2>2, <2>3
<1>8. ASSUME NEW k \in Keys, k \notin DOMAIN c
      PROVE  (k \in DOMAIN g => g[k] \in [value : Nat, since : Nat]) /\ Seat(g, k) = WeightOf(b[k])
  <2>1. (k \in DOMAIN g <=> k \in DOMAIN f) /\ (k \in DOMAIN g => g[k] = f[k])
    BY <1>4, <1>8
  <2>2. Seat(g, k) = Seat(f, k)
    BY <2>1 DEF Seat
  <2> QED BY <1>5, <1>6, <1>8, <2>1, <2>2 DEF IsList
<1>9. DOMAIN g \subseteq Keys
  BY <1>4, <1>5, <1>6 DEF IsList
<1>10. Tracks(g, b, E)
  BY <1>7, <1>8, <1>9 DEF Tracks, IsList
<1> QED BY <1>1, <1>3, <1>10

LEMMA NoUpdate == \A f, h : Updates(f, <<>>, h) = Reading(TRUE, f, h)
BY UpdateChain, ChainEmpty

LEMMA OpenKept ==
  ASSUME NEW v, Whole(v), NEW f, NEW E, Tracks(f, v.stakes, E), NEW s, s = OpenSession(v)
  PROVE  Kept(f, v.stakes, E, s) /\ s.stakes = v.stakes
<1>1. /\ DOMAIN s = Fields /\ s.height = v.height + 1 /\ s.stakes = v.stakes
      /\ s.events = <<>> /\ s.prev = <<>>
  BY DEF OpenSession, OnNewBlock, Whole, Fields
<1>2. Whole(s)
  BY <1>1 DEF Whole
<1>3. IsSeq(s.events)
  <2>1. <<>> \in Seq({})
    OBVIOUS
  <2> QED BY <1>1, <2>1 DEF IsSeq
<1>4. PICK h : h = s.height
  OBVIOUS
<1>5. Updates(f, s.events, s.height) = Reading(TRUE, f, h)
  BY <1>1, <1>4, NoUpdate
<1>6. Reads(Reading(TRUE, f, h), h, s.stakes, E)
  BY <1>1 DEF Reads, Reading
<1>7. Follows(f, s, E)
  BY <1>3, <1>4, <1>5, <1>6 DEF Follows
<1>8. PrevOk(v.stakes, s)
  <2>1. DOMAIN s.prev = {}
    BY <1>1
  <2> QED BY <1>1, <2>1 DEF PrevOk
<1> QED BY <1>1, <1>2, <1>7, <1>8 DEF Kept

LEMMA UpdateTracks ==
  ASSUME NEW p, NEW b, NEW E, NEW s, Kept(p.current, b, E, s), NEW q, q = SelectiveUpdate(p, s)
  PROVE  Tracks(q.current, s.stakes, E) /\ q.prev = p.current
<1>1. PICK f, r : f = p.current /\ r = Updates(f, s.events, s.height)
  OBVIOUS
<1>2. r.ok => Tracks(r.f, s.stakes, E)
  BY <1>1 DEF Kept, Follows, Reads
<1>3. Tracks(Query(s.stakes), s.stakes, E)
  BY QueryTracks DEF Kept, Whole
<1>4. CASE s.events = <<>>
  <2>1. q = [current |-> f, prev |-> f]
    BY <1>1, <1>4 DEF SelectiveUpdate
  <2>2. PICK h : h = s.height
    OBVIOUS
  <2>3. r = Reading(TRUE, f, h)
    BY <1>1, <1>4, <2>2, NoUpdate
  <2>4. r.ok = TRUE /\ r.f = f
    BY <2>3 DEF Reading
  <2> QED BY <1>1, <1>2, <2>1, <2>4
<1>5. CASE s.events # <<>>
  <2>1. PICK g : g = IF r.ok THEN r.f ELSE Query(s.stakes)
    OBVIOUS
  <2>2. q = [current |-> g, prev |-> f]
    BY <1>1, <1>5, <2>1 DEF SelectiveUpdate
  <2>3. Tracks(g, s.stakes, E)
    BY <1>2, <1>3, <2>1
  <2> QED BY <1>1, <2>2, <2>3
<1> QED BY <1>4, <1>5

\* Two lists that say what the same stakes say extract the same committees.
Restriction(f, E) == [k \in DOMAIN f \ E |-> f[k]]

LEMMA ExtractsAlike ==
  ASSUME ExecAssumption, NEW f, NEW g, NEW p, NEW E, Tracks(f, p, E), Tracks(g, p, E), NEW round
  PROVE  Eligible(Restriction(f, E), round) \subseteq Eligible(Restriction(g, E), round)
<1>1. PICK x, y : x = Restriction(f, E) /\ y = Restriction(g, E)
  OBVIOUS
<1>2. /\ DOMAIN x = DOMAIN f \ E /\ \A k \in DOMAIN f \ E : x[k] = f[k]
      /\ DOMAIN y = DOMAIN g \ E /\ \A k \in DOMAIN g \ E : y[k] = g[k]
  BY <1>1 DEF Restriction
<1>3. PICK m \in Nat : m = MinStake /\ m # 0
  BY DEF ExecAssumption
<1>4. ASSUME NEW k \in DOMAIN x, x[k].since <= round, x[k].value >= m
      PROVE  k \in DOMAIN y /\ y[k] = x[k]
  <2>1. k \in DOMAIN f /\ k \in Keys \ E /\ x[k] = f[k] /\ f[k] \in [value : Nat, since : Nat]
    BY <1>2 DEF Tracks, IsList
  <2>2. PICK a \in Nat, c \in Nat : f[k] = [value |-> a, since |-> c] /\ f[k].value = a /\ f[k].since = c
    BY <2>1
  <2>3. a # 0
    BY <1>3, <1>4, <2>1, <2>2
  <2>4. Seat(f, k) = Seat(g, k)
    BY <2>1 DEF Tracks
  <2>5. Seat(f, k) = Weight(a, c)
    BY <2>1, <2>2 DEF Seat
  <2>6. CASE k \in DOMAIN g
    <3>1. PICK d \in Nat, e \in Nat : g[k] = [value |-> d, since |-> e] /\ g[k].value = d /\ g[k].since = e
      BY <2>6 DEF Tracks, IsList
    <3>2. Weight(a, c) = Weight(d, e)
      BY <2>4, <2>5, <2>6, <3>1 DEF Seat
    <3>3. a = d /\ c = e
      BY <2>3, <3>2, WeightFacts
    <3> QED BY <1>2, <2>1, <2>2, <2>6, <3>1, <3>3
  <2>7. CASE k \notin DOMAIN g
    <3>1. Weight(a, c) = Weight(0, 0)
      BY <2>4, <2>5, <2>7 DEF Seat
    <3> QED BY <2>3, <3>1, WeightFacts
  <2> QED BY <2>6, <2>7
<1>5. Eligible(x, round) \subseteq Eligible(y, round)
  BY <1>3, <1>4 DEF Eligible
<1> QED BY <1>1, <1>5

-----------------------------------------------------------------------------
(* The list of provisioners *)

\* The lists p of a tip v say what its stakes, and the stakes bf one block
\* earlier, say; previous_block_state gives the latter back.
ListOk(v, bf, p, E) ==
  /\ bf \in [Keys -> MapEntries]
  /\ LockedOnly(v) \subseteq E
  /\ Tracks(p.current, v.stakes, E) /\ Tracks(p.prev, bf, E)
  /\ v.height = 0 => bf = v.stakes
  /\ v.height # 0 => PrevOk(bf, v)

\* The events of a session lead from the list of the tip to its stakes.
SessionListOk(v, g, p, E) == LockedOnly(g.s) \subseteq E /\ Kept(p.current, v.stakes, E, g.s)

ListInv ==
  /\ ListOk(vm, before, prov, emptied)
  /\ gen.on => SessionListOk(vm, gen, prov, emptied)

LEMMA ListInitInv == ASSUME ExecAssumption, ExecInit PROVE ListInv
<1>1. /\ vm = Genesis /\ before = Genesis.stakes /\ ~gen.on /\ emptied = LockedOnly(Genesis)
      /\ prov.current = Query(Genesis.stakes) /\ prov.prev = Query(Genesis.stakes)
  BY DEF ExecInit, NoBlock
<1>2. Genesis.height = 0 /\ Genesis.stakes \in [Keys -> MapEntries]
  BY WholeState DEF ExecAssumption, Whole
<1>3. Tracks(Query(Genesis.stakes), Genesis.stakes, LockedOnly(Genesis))
  BY <1>2, QueryTracks
<1> QED BY <1>1, <1>2, <1>3 DEF ListInv, ListOk

LEMMA ListMore ==
  ASSUME NEW v, NEW bf, NEW p, NEW E, NEW D, ListOk(v, bf, p, E), E \subseteq D
  PROVE  ListOk(v, bf, p, D)
BY TracksMore DEF ListOk

\* An accepted block: the list goes on from event to event.
LEMMA AcceptList ==
  ASSUME ExecAssumption, NEW v, Whole(v), NEW bf, NEW p, NEW E, ListOk(v, bf, p, E),
         NEW s, Kept(p.current, v.stakes, E, s), s.height # 0, NEW w, w = [s EXCEPT !.events = <<>>],
         NEW q, q = SelectiveUpdate(p, s), NEW D, D = E \cup LockedOnly(s)
  PROVE  ListOk(w, v.stakes, q, D)
<1>1. w.stakes = s.stakes /\ w.height = s.height /\ w.prev = s.prev
  BY DEF Kept, Whole, Fields
<1>2. Tracks(q.current, s.stakes, E) /\ q.prev = p.current
  BY UpdateTracks
<1>3. Tracks(q.current, w.stakes, D) /\ Tracks(q.prev, v.stakes, D)
  BY <1>1, <1>2, TracksMore DEF ListOk
<1>4. LockedOnly(w) = LockedOnly(s)
  BY <1>1 DEF LockedOnly, Exists
<1>5. PrevOk(v.stakes, w)
  BY <1>1 DEF Kept, PrevOk
<1>6. v.stakes \in [Keys -> MapEntries]
  BY DEF Whole
<1> QED BY <1>1, <1>3, <1>4, <1>5, <1>6 DEF ListOk

LEMMA ReloadList ==
  ASSUME NEW v, Whole(v), NEW bf, NEW p, NEW E, ListOk(v, bf, p, E), NEW q, NEW now,
         now = Query(v.stakes), q.current = now,
         q.prev = IF v.height = 0 THEN now ELSE ApplyChanges(now, v.prev)
  PROVE  ListOk(v, bf, q, LockedOnly(v))
<1>1. PICK D : D = LockedOnly(v)
  OBVIOUS
<1>2. Tracks(now, v.stakes, D)
  BY QueryTracks DEF Whole
<1>3. bf \in [Keys -> MapEntries] /\ (v.height = 0 => bf = v.stakes) /\ (v.height # 0 => PrevOk(bf, v))
  BY DEF ListOk
<1>4. Tracks(q.prev, bf, D)
  <2>1. CASE v.height = 0
    BY <1>2, <1>3, <2>1
  <2>2. CASE v.height # 0
    <3>1. Tracks(ApplyChanges(Query(v.stakes), v.prev), bf, D)
      BY <1>3, <2>2, ChangesTrack
    <3> QED BY <2>2, <3>1
  <2> QED BY <2>1, <2>2
<1> QED BY <1>1, <1>2, <1>3, <1>4 DEF ListOk

LEMMA ListNextInv ==
  ASSUME ExecAssumption, ExecInv, ListInv, [ExecNext]_execVars
  PROVE  ListInv'
<1>1. /\ ListOk(vm, before, prov, emptied) /\ Whole(vm) /\ vm.height \in Nat
      /\ gen.on => SessionListOk(vm, gen, prov, emptied) /\ SessionOk(vm, gen)
  <2>1. IsState(vm)
    BY DEF ExecInv, StateOk
  <2> QED BY <2>1, WholeState DEF ListInv, ExecInv, NoBlock, Whole
<1>2. ASSUME NEW v, NEW bf, NEW g, NEW p, NEW E,
             vm' = v, before' = bf, gen' = g, prov' = p, emptied' = E, ListOk(v, bf, p, E),
             g.on => SessionListOk(v, g, p, E)
      PROVE  ListInv'
  <2>1. ListOk(vm', before', prov', emptied') /\ (gen'.on => SessionListOk(vm', gen', prov', emptied'))
    BY <1>2
  <2> QED
    BY <2>1
    DEF ListInv, ListOk, SessionListOk, PrevOk, Tracks, Kept, Follows, Whole, Reads, LockedOnly, Exists
<1>3. CASE OpenBlock
  <2>1. PICK s : s = OpenSession(vm)
    OBVIOUS
  <2>2. PICK g : g = [on |-> TRUE, s |-> s, txs |-> <<>>, gas |-> BlockGasLimit, dusk |-> 0]
    OBVIOUS
  <2>3. Kept(prov.current, vm.stakes, emptied, s) /\ s.stakes = vm.stakes
    BY <1>1, <2>1, OpenKept DEF ListOk
  <2>4. LockedOnly(s) \subseteq emptied
    BY <1>1, <2>3 DEF ListOk, LockedOnly, Exists
  <2>5. SessionListOk(vm, g, prov, emptied)
    BY <2>2, <2>3, <2>4 DEF SessionListOk
  <2>6. gen' = g /\ vm' = vm /\ before' = before /\ prov' = prov /\ emptied' = emptied
    BY <1>3, <2>1, <2>2 DEF OpenBlock
  <2> QED BY <1>1, <1>2, <2>5, <2>6
<1>4. CASE gen.on /\ \E i \in Intents : \E tx \in Built(gen.s, i) : TryTransaction(tx)
  <2>1. PICK i \in Intents : \E tx \in Built(gen.s, i) : TryTransaction(tx)
    BY <1>4
  <2>2. PICK tx \in Built(gen.s, i) : TryTransaction(tx)
    BY <2>1
  <2>3. SessionOk(vm, gen) /\ SessionListOk(vm, gen, prov, emptied)
    BY <1>1, <1>4
  <2>4. IsTx(tx)
    <3>1. IsState(gen.s) /\ IsTx(i)
      BY <2>3 DEF SessionOk, ExecAssumption
    <3> QED BY <3>1, BuiltTx
  <2>5. PICK e : e = Execute(gen.s, tx)
    OBVIOUS
  <2>6. PICK x, y, z : x = Append(gen.txs, [inner |-> tx, gas |-> e.gas]) /\ y = gen.gas - e.gas
                       /\ z = gen.dusk + e.gas * tx.price
    OBVIOUS
  <2>7. PICK g, h : /\ g = [gen EXCEPT !.s = e.s, !.txs = x, !.gas = y, !.dusk = z]
                    /\ h = [gen EXCEPT !.s = Rebuilt(e)]
    OBVIOUS
  <2>8. PICK D : D = emptied \cup LockedOnly(gen'.s)
    OBVIOUS
  <2>9. vm' = vm /\ before' = before /\ prov' = prov /\ emptied' = D
    BY <2>2, <2>8 DEF TryTransaction
  <2>10. gen' = g \/ gen' = h \/ gen' = gen
    BY <2>2, <2>5, <2>6, <2>7 DEF TryTransaction
  <2>11. h = gen
    <3>1. h = [gen EXCEPT !.s = Rerun(OpenSession(vm), Inner(gen.txs))]
      BY <2>7 DEF Rebuilt, Included, Inner
    <3> QED BY <2>3, <3>1, RebuiltOk
  <2>12. Kept(prov.current, vm.stakes, emptied, gen.s) /\ NoneEmptied(gen.s, emptied)
    BY <2>3, EmptiedIs DEF SessionListOk
  <2>13. Kept(prov.current, vm.stakes, emptied, e.s)
    BY <2>4, <2>5, <2>12, ExecuteKept
  <2>14. g.s = e.s
    <3>1. DOMAIN gen = {"on", "s", "txs", "gas", "dusk"}
      BY <2>3 DEF SessionOk
    <3> QED BY <2>7, <3>1
  <2>15. Kept(prov.current, vm.stakes, emptied, gen'.s)
    BY <2>10, <2>11, <2>12, <2>13, <2>14
  <2>16. PICK n : n = gen'
    OBVIOUS
  <2>17. emptied \subseteq D /\ LockedOnly(n.s) \subseteq D
    BY <2>8, <2>16
  <2>18. Kept(prov.current, vm.stakes, D, n.s)
    BY <2>15, <2>16, <2>17, KeptMore
  <2>19. SessionListOk(vm, n, prov, D) /\ ListOk(vm, before, prov, D)
    BY <1>1, <2>17, <2>18, ListMore DEF SessionListOk
  <2> QED BY <1>2, <2>9, <2>16, <2>19
<1>5. ASSUME NEW c \in Closings, AcceptTransactions(c) PROVE ListInv'
  <2>1. SessionOk(vm, gen) /\ SessionListOk(vm, gen, prov, emptied)
    BY <1>1, <1>5 DEF AcceptTransactions
  <2>2. PICK s : /\ s = Replay(Included, c) /\ s.err = "none" /\ vm' = [s EXCEPT !.events = <<>>]
                 /\ prov' = SelectiveUpdate(prov, s) /\ emptied' = emptied \cup LockedOnly(s)
    BY <1>5 DEF AcceptTransactions
  <2>3. s = CloseBlock(gen.s, gen.dusk, c)
    BY <2>1, <2>2, ReplaysOk DEF Replay, Included, Inner
  <2>4. IsClosing(c)
    BY DEF ExecAssumption
  <2>5. gen.dusk \in Nat /\ IsState(gen.s) /\ Idle(gen.s) /\ gen.s.height = vm.height + 1
    BY <2>1 DEF SessionOk
  <2>6. Kept(prov.current, vm.stakes, emptied, s)
    BY <2>1, <2>3, <2>4, <2>5, CloseKept DEF SessionListOk
  <2>7. s.height # 0
    <3>1. s.height = gen.s.height
      BY <2>2, <2>3, <2>4, <2>5, CloseEffect
    <3> QED BY <1>1, <2>5, <3>1
  <2>8. PICK w, q, D : /\ w = [s EXCEPT !.events = <<>>] /\ q = SelectiveUpdate(prov, s)
                       /\ D = emptied \cup LockedOnly(s)
    OBVIOUS
  <2>9. ListOk(w, vm.stakes, q, D)
    BY <1>1, <2>6, <2>7, <2>8, AcceptList
  <2>10. ~gen'.on /\ before' = vm.stakes
    BY <1>5 DEF AcceptTransactions, NoBlock
  <2> QED BY <1>2, <2>2, <2>8, <2>9, <2>10
<1>6. ASSUME NEW c \in Closings, GenerationFails(c) PROVE ListInv'
  <2>1. ~gen'.on /\ vm' = vm /\ before' = before /\ prov' = prov /\ emptied' = emptied
    BY <1>6 DEF GenerationFails, NoBlock
  <2> QED BY <1>1, <1>2, <2>1
<1>7. CASE Reload
  <2>1. PICK now : now = Query(vm.stakes)
    OBVIOUS
  <2>2. PICK old : old = IF vm.height = 0 THEN now ELSE ApplyChanges(now, vm.prev)
    OBVIOUS
  <2>3. PICK q : q = [current |-> now, prev |-> old]
    OBVIOUS
  <2>4. q.current = now /\ q.prev = old
    BY <2>3
  <2>5. ListOk(vm, before, q, LockedOnly(vm))
    BY <1>1, <2>1, <2>2, <2>4, ReloadList
  <2>6. ~gen'.on /\ vm' = vm /\ before' = before /\ prov' = q /\ emptied' = LockedOnly(vm)
    BY <1>7, <2>1, <2>2, <2>3 DEF Reload
  <2> QED BY <1>2, <2>5, <2>6
<1>8. CASE UNCHANGED execVars
  <2>1. gen' = gen /\ vm' = vm /\ before' = before /\ prov' = prov /\ emptied' = emptied
    BY <1>8 DEF execVars
  <2> QED BY <1>1, <1>2, <2>1
<1> QED BY <1>3, <1>4, <1>5, <1>6, <1>7, <1>8 DEF ExecNext

\* ProvisionersAgree in every reachable state: the list the acceptor updates
\* from the stake, unstake and slash events of each block (selective_update)
\* extracts the committees that a list read from the state extracts
\* (query_provisioners), and so does the list of the block before, which a node
\* that restarts rebuilds from previous_block_state (apply_changes), through
\* failed calls, stakes of contracts, suspensions and reloads.
THEOREM ProvisionersStayAgreed == ASSUME ExecAssumption PROVE ExecSpec => []ProvisionersAgree
<1>1. ExecInit => ListInv
  BY ListInitInv
<1>2. ExecInv /\ ListInv /\ [ExecNext]_execVars => ListInv'
  BY ListNextInv
<1>3. ExecInv /\ ListInv => ProvisionersAgree
  <2> SUFFICES ASSUME ExecInv, ListInv PROVE ProvisionersAgree
    OBVIOUS
  <2>1. IsState(vm)
    BY DEF ExecInv, StateOk
  <2>2. /\ Tracks(prov.current, vm.stakes, emptied) /\ Tracks(prov.prev, before, emptied)
        /\ before \in [Keys -> MapEntries] /\ vm.stakes \in [Keys -> MapEntries]
    BY <2>1, WholeState DEF ListInv, ListOk, Whole
  <2>3. Tracks(Query(vm.stakes), vm.stakes, emptied) /\ Tracks(Query(before), before, emptied)
    BY <2>2, QueryTracks
  <2>4. ASSUME NEW f, NEW g, NEW p, Tracks(f, p, emptied), Tracks(g, p, emptied), NEW round
        PROVE  Eligible(Restriction(f, emptied), round) = Eligible(Restriction(g, emptied), round)
    BY <2>4, ExtractsAlike
  <2>5. /\ Eligible(Restriction(prov.current, emptied), vm.height + 1)
             = Eligible(Restriction(Query(vm.stakes), emptied), vm.height + 1)
        /\ Eligible(Restriction(prov.prev, emptied), vm.height)
             = Eligible(Restriction(Query(before), emptied), vm.height)
    BY <2>2, <2>3, <2>4
  <2> QED BY <2>5 DEF ProvisionersAgree, Restriction
<1> QED BY <1>1, <1>2, <1>3, ExecInvariant, PTL DEF ExecSpec
=============================================================================
