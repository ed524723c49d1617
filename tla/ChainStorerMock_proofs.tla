----------------------- MODULE ChainStorerMock_proofs -----------------------
(***************************************************************************)
(* Proofs about ChainStorerMock: the state stays well typed; GetStorer     *)
(* keeps a set of unit types apart exactly when it is SeparatelyRouted,    *)
(* and then units are isolated.                                            *)
(***************************************************************************)
EXTENDS ChainStorerMock, TLAPS

(* GetStorer always names one of the eight fields.                         *)
LEMMA GetStorerType == \A u \in Nat : GetStorer(u) \in Storers
  BY DEF GetStorer, Storers

LEMMA InitTypeOK == Init => TypeOK
  BY ChainStorerMockAssumption DEF Init, TypeOK

LEMMA NextTypeOK == TypeOK /\ [Next]_vars => TypeOK'
<1> SUFFICES ASSUME TypeOK, [Next]_vars PROVE TypeOK'
  OBVIOUS
<1>1. ASSUME NEW u \in UnitTypes, NEW k \in Keys, NEW v \in Vals, Put(u, k, v)
      PROVE TypeOK'
  <2>1. GetStorer(u) \in Storers
    BY GetStorerType, ChainStorerMockAssumption
  <2>2. QED
    BY <1>1, <2>1, ChainStorerMockAssumption DEF Put, TypeOK
<1>2. ASSUME NEW u \in UnitTypes, NEW k \in Keys, Get(u, k)
      PROVE TypeOK'
  <2>1. GetStorer(u) \in Storers
    BY GetStorerType, ChainStorerMockAssumption
  <2>2. QED
    BY <1>2, <2>1, ChainStorerMockAssumption DEF Get, TypeOK
<1>3. ASSUME NEW u \in UnitTypes, NEW ks \in SUBSET Keys, GetAll(u, ks)
      PROVE TypeOK'
  <2>1. GetStorer(u) \in Storers
    BY GetStorerType, ChainStorerMockAssumption
  <2>2. store[GetStorer(u)] \in [Keys -> Vals \cup {Missing}]
    BY <2>1 DEF TypeOK
  <2>3. getAllOut' \in {NotFound} \cup UNION {[ks2 -> Vals] : ks2 \in SUBSET Keys}
    BY <1>3, <2>2 DEF GetAll
  <2>4. QED
    BY <1>3, <2>3, ChainStorerMockAssumption DEF GetAll, TypeOK
<1>4. CASE Finished \/ UNCHANGED vars
  BY <1>4 DEF Finished, vars, TypeOK
<1>5. QED
  BY <1>1, <1>2, <1>3, <1>4 DEF Next

(***************************************************************************)
(* Every reachable state of the chain storer mock is well typed, for any   *)
(* unit types, keys, values and number of calls.                           *)
(***************************************************************************)
THEOREM ChainStorerTypeCorrect == Spec => []TypeOK
  BY InitTypeOK, NextTypeOK, PTL DEF Spec

(* GetStorer sends distinct members of U to distinct storers.             *)
StorersDistinct(U) == \A u1, u2 \in U : GetStorer(u1) = GetStorer(u2) => u1 = u2

(* dataRetriever's numbering: the named unit types are distinct naturals  *)
(* below ShardHdrNonceHashDataUnit.                                        *)
LEMMA NamedUnitFacts ==
  /\ MiniBlockUnit # TransactionUnit /\ MiniBlockUnit # RewardTransactionUnit
  /\ MiniBlockUnit # UnsignedTransactionUnit /\ MiniBlockUnit # TxLogsUnit
  /\ MiniBlockUnit # MetaHdrNonceHashDataUnit
  /\ TransactionUnit # RewardTransactionUnit
  /\ TransactionUnit # UnsignedTransactionUnit /\ TransactionUnit # TxLogsUnit
  /\ TransactionUnit # MetaHdrNonceHashDataUnit
  /\ RewardTransactionUnit # UnsignedTransactionUnit
  /\ RewardTransactionUnit # TxLogsUnit
  /\ RewardTransactionUnit # MetaHdrNonceHashDataUnit
  /\ UnsignedTransactionUnit # TxLogsUnit
  /\ UnsignedTransactionUnit # MetaHdrNonceHashDataUnit
  /\ TxLogsUnit # MetaHdrNonceHashDataUnit
  /\ \A u \in NamedUnitTypes : u \in Nat /\ u < ShardHdrNonceHashDataUnit
<1> DEFINE n == <<MiniBlockUnit, TransactionUnit, RewardTransactionUnit,
                  UnsignedTransactionUnit, TxLogsUnit, MetaHdrNonceHashDataUnit>>
<1>1. \A i, j \in 1..6 : n[i] = n[j] => i = j
  BY ChainStorerMockAssumption
<1>2. \A u \in NamedUnitTypes : u \in Nat /\ u < ShardHdrNonceHashDataUnit
  BY ChainStorerMockAssumption
<1>3. QED
  BY <1>1, <1>2

(* The storer each unit type named in the if-chain reaches.               *)
LEMMA NamedStorerValues ==
  /\ GetStorer(MiniBlockUnit) = "Miniblocks"
  /\ GetStorer(TransactionUnit) = "Transactions"
  /\ GetStorer(RewardTransactionUnit) = "Rewards"
  /\ GetStorer(UnsignedTransactionUnit) = "Unsigned"
  /\ GetStorer(TxLogsUnit) = "Logs"
  /\ GetStorer(MetaHdrNonceHashDataUnit) = "MetaHdrNonce"
  /\ GetStorer(ShardHdrNonceHashDataUnit) = "ShardHdrNonce"
BY ChainStorerMockAssumption, NamedUnitFacts DEF GetStorer, NamedUnitTypes

(* Which unit types reach each storer, by the if-chain's cases.           *)
LEMMA GetStorerCases ==
  ASSUME NEW u \in Nat
  PROVE  /\ GetStorer(u) = "Miniblocks" <=> u = MiniBlockUnit
         /\ GetStorer(u) = "Transactions" <=> u = TransactionUnit
         /\ GetStorer(u) = "Rewards" <=> u = RewardTransactionUnit
         /\ GetStorer(u) = "Unsigned" <=> u = UnsignedTransactionUnit
         /\ GetStorer(u) = "Logs" <=> u = TxLogsUnit
         /\ GetStorer(u) = "ShardHdrNonce" <=> u = ShardHdrNonceHashDataUnit
         /\ GetStorer(u) = "MetaHdrNonce" <=>
              u = MetaHdrNonceHashDataUnit \/ u > ShardHdrNonceHashDataUnit
         /\ GetStorer(u) = "Others" <=>
              u \notin NamedUnitTypes /\ u < ShardHdrNonceHashDataUnit
<1> USE ChainStorerMockAssumption, NamedUnitFacts
<1>1. CASE u \in NamedUnitTypes \cup {ShardHdrNonceHashDataUnit}
  BY <1>1, NamedStorerValues DEF NamedUnitTypes
<1>2. CASE u > ShardHdrNonceHashDataUnit
  BY <1>2 DEF GetStorer, NamedUnitTypes
<1>3. CASE u \notin NamedUnitTypes /\ u < ShardHdrNonceHashDataUnit
  BY <1>3 DEF GetStorer, NamedUnitTypes
<1>4. QED
  BY <1>1, <1>2, <1>3

(* A storer other than MetaHdrNonce that a named unit type reaches is     *)
(* reached by that unit type alone.                                        *)
LEMMA NamedStorerUnique ==
  ASSUME NEW u \in Nat,
         NEW w \in NamedUnitTypes \cup {ShardHdrNonceHashDataUnit},
         GetStorer(w) # "MetaHdrNonce", GetStorer(u) = GetStorer(w)
  PROVE  u = w
<1>1. CASE w = MiniBlockUnit
  BY <1>1, NamedStorerValues, GetStorerCases
<1>2. CASE w = TransactionUnit
  BY <1>2, NamedStorerValues, GetStorerCases
<1>3. CASE w = RewardTransactionUnit
  BY <1>3, NamedStorerValues, GetStorerCases
<1>4. CASE w = UnsignedTransactionUnit
  BY <1>4, NamedStorerValues, GetStorerCases
<1>5. CASE w = TxLogsUnit
  BY <1>5, NamedStorerValues, GetStorerCases
<1>6. CASE w = ShardHdrNonceHashDataUnit
  BY <1>6, NamedStorerValues, GetStorerCases
<1>7. QED
  BY <1>1, <1>2, <1>3, <1>4, <1>5, <1>6, NamedStorerValues DEF NamedUnitTypes

(***************************************************************************)
(* GetStorer keeps the unit types of a set apart exactly when the set is   *)
(* SeparatelyRouted: two types below ShardHdrNonceHashDataUnit outside the *)
(* named ones share Others, two types above it share MetaHdrNonce, and one *)
(* above it shares MetaHdrNonce with MetaHdrNonceHashDataUnit (line 70).   *)
(***************************************************************************)
THEOREM ChainStorerRoutingExact ==
  ASSUME NEW U \in SUBSET Nat
  PROVE  StorersDistinct(U) <=> SeparatelyRouted(U)
<1> DEFINE Named == NamedUnitTypes \cup {ShardHdrNonceHashDataUnit}
<1> USE ChainStorerMockAssumption
<1>1. ASSUME StorersDistinct(U) PROVE SeparatelyRouted(U)
  <2>1. ASSUME NEW u1 \in U \ Named, NEW u2 \in U \ Named,
               u1 < ShardHdrNonceHashDataUnit <=> u2 < ShardHdrNonceHashDataUnit
        PROVE  u1 = u2
    <3>1. CASE u1 < ShardHdrNonceHashDataUnit
      <4>1. GetStorer(u1) = "Others" /\ GetStorer(u2) = "Others"
        BY <2>1, <3>1, GetStorerCases
      <4>2. QED
        BY <4>1, <1>1 DEF StorersDistinct
    <3>2. CASE ~(u1 < ShardHdrNonceHashDataUnit)
      <4>1. u1 > ShardHdrNonceHashDataUnit /\ u2 > ShardHdrNonceHashDataUnit
        BY <2>1, <3>2
      <4>2. GetStorer(u1) = "MetaHdrNonce" /\ GetStorer(u2) = "MetaHdrNonce"
        BY <4>1, GetStorerCases
      <4>3. QED
        BY <4>2, <1>1 DEF StorersDistinct
    <3>3. QED
      BY <3>1, <3>2
  <2>2. ASSUME MetaHdrNonceHashDataUnit \in U, NEW u \in U
        PROVE  u <= ShardHdrNonceHashDataUnit
    <3>1. MetaHdrNonceHashDataUnit \in Nat
      BY NamedUnitFacts DEF NamedUnitTypes
    <3>2. SUFFICES ASSUME u > ShardHdrNonceHashDataUnit PROVE FALSE
      OBVIOUS
    <3>3. GetStorer(u) = "MetaHdrNonce"
          /\ GetStorer(MetaHdrNonceHashDataUnit) = "MetaHdrNonce"
      BY <3>1, <3>2, GetStorerCases
    <3>4. u = MetaHdrNonceHashDataUnit
      BY <2>2, <3>3, <1>1 DEF StorersDistinct
    <3>5. QED
      BY <3>2, <3>4, NamedUnitFacts DEF NamedUnitTypes
  <2>3. QED
    BY <2>1, <2>2 DEF SeparatelyRouted
<1>2. ASSUME SeparatelyRouted(U) PROVE StorersDistinct(U)
  <2> SUFFICES ASSUME NEW u1 \in U, NEW u2 \in U, GetStorer(u1) = GetStorer(u2)
               PROVE  u1 = u2
    BY DEF StorersDistinct
  <2>1. CASE u1 \in Named /\ GetStorer(u1) # "MetaHdrNonce"
    BY <2>1, NamedStorerUnique
  <2>2. CASE u2 \in Named /\ GetStorer(u2) # "MetaHdrNonce"
    BY <2>2, NamedStorerUnique
  <2>3. CASE GetStorer(u1) = "MetaHdrNonce"
    <3>1. u1 = MetaHdrNonceHashDataUnit \/ u1 > ShardHdrNonceHashDataUnit
      BY <2>3, GetStorerCases
    <3>2. u2 = MetaHdrNonceHashDataUnit \/ u2 > ShardHdrNonceHashDataUnit
      BY <2>3, GetStorerCases
    <3>3. MetaHdrNonceHashDataUnit < ShardHdrNonceHashDataUnit
      BY NamedUnitFacts DEF NamedUnitTypes
    <3>4. CASE u1 > ShardHdrNonceHashDataUnit /\ u2 > ShardHdrNonceHashDataUnit
      <4>1. u1 \in U \ Named /\ u2 \in U \ Named
        BY <3>4, NamedUnitFacts
      <4>2. QED
        BY <3>4, <4>1, <1>2 DEF SeparatelyRouted
    <3>5. CASE u1 = MetaHdrNonceHashDataUnit /\ u2 > ShardHdrNonceHashDataUnit
      BY <3>5, <1>2 DEF SeparatelyRouted
    <3>6. CASE u2 = MetaHdrNonceHashDataUnit /\ u1 > ShardHdrNonceHashDataUnit
      BY <3>6, <1>2 DEF SeparatelyRouted
    <3>7. QED
      BY <3>1, <3>2, <3>3, <3>4, <3>5, <3>6
  <2>4. CASE GetStorer(u1) # "MetaHdrNonce" /\ u1 \notin Named /\ u2 \notin Named
    <3>1. GetStorer(u1) = "Others"
      <4>1. u1 # MetaHdrNonceHashDataUnit /\ ~(u1 > ShardHdrNonceHashDataUnit)
        BY <2>4, GetStorerCases
      <4>2. u1 < ShardHdrNonceHashDataUnit
        BY <2>4, <4>1
      <4>3. QED
        BY <2>4, <4>2, GetStorerCases
    <3>2. u1 < ShardHdrNonceHashDataUnit /\ u2 < ShardHdrNonceHashDataUnit
      BY <2>4, <3>1, GetStorerCases
    <3>3. QED
      BY <2>4, <3>2, <1>2 DEF SeparatelyRouted
  <2>5. QED
    BY <2>1, <2>2, <2>3, <2>4
<1>3. QED
  BY <1>1, <1>2

IInv == TypeOK /\ UnitsIsolated

LEMMA NextIsolated ==
  ASSUME StorersDistinct(UnitTypes)
  PROVE  IInv /\ [Next]_vars => UnitsIsolated'
<1> SUFFICES ASSUME IInv, [Next]_vars PROVE UnitsIsolated'
  OBVIOUS
<1>1. ASSUME NEW u \in UnitTypes, NEW k \in Keys, NEW v \in Vals, Put(u, k, v)
      PROVE UnitsIsolated'
  <2> SUFFICES ASSUME NEW u2 \in UnitTypes, NEW k2 \in Keys,
                      written'[u2][k2] # Missing
               PROVE store'[GetStorer(u2)][k2] = written'[u2][k2]
    BY DEF UnitsIsolated
  <2>1. GetStorer(u) \in Storers /\ GetStorer(u2) \in Storers
    BY GetStorerType, ChainStorerMockAssumption
  <2>2. CASE u2 = u /\ k2 = k
    BY <1>1, <2>1, <2>2 DEF Put, IInv, TypeOK
  <2>3. CASE u2 # u
    <3>1. GetStorer(u2) # GetStorer(u)
      BY <2>3 DEF StorersDistinct
    <3>2. store'[GetStorer(u2)][k2] = store[GetStorer(u2)][k2]
      BY <1>1, <2>1, <3>1 DEF Put, IInv, TypeOK
    <3>3. written'[u2][k2] = written[u2][k2]
      BY <1>1, <2>3 DEF Put, IInv, TypeOK
    <3>4. QED
      BY <3>2, <3>3 DEF IInv, UnitsIsolated
  <2>4. CASE u2 = u /\ k2 # k
    <3>1. store'[GetStorer(u2)][k2] = store[GetStorer(u2)][k2]
      BY <1>1, <2>1, <2>4 DEF Put, IInv, TypeOK
    <3>2. written'[u2][k2] = written[u2][k2]
      BY <1>1, <2>4 DEF Put, IInv, TypeOK
    <3>3. QED
      BY <3>1, <3>2 DEF IInv, UnitsIsolated
  <2>5. QED
    BY <2>2, <2>3, <2>4
<1>2. ASSUME NEW u \in UnitTypes, NEW k \in Keys, Get(u, k)
      PROVE UnitsIsolated'
  BY <1>2 DEF Get, IInv, UnitsIsolated
<1>3. ASSUME NEW u \in UnitTypes, NEW ks \in SUBSET Keys, GetAll(u, ks)
      PROVE UnitsIsolated'
  BY <1>3 DEF GetAll, IInv, UnitsIsolated
<1>4. CASE Finished \/ UNCHANGED vars
  BY <1>4 DEF Finished, vars, IInv, UnitsIsolated
<1>5. QED
  BY <1>1, <1>2, <1>3, <1>4 DEF Next

(***************************************************************************)
(* When the test's unit types are SeparatelyRouted, a Get through a unit   *)
(* type returns what the last Put through that unit type stored, whatever  *)
(* was put through the others, for any keys, values and calls; by          *)
(* ChainStorerRoutingExact no other unit set keeps its storers apart, and  *)
(* the violation run shows isolation then fails (units 7 and 19).          *)
(***************************************************************************)
THEOREM ChainStorerUnitsIsolated ==
  ASSUME SeparatelyRouted(UnitTypes)
  PROVE  Spec => []UnitsIsolated
<1>0. StorersDistinct(UnitTypes)
  BY ChainStorerRoutingExact, ChainStorerMockAssumption
<1>1. Init => IInv
  BY InitTypeOK DEF Init, IInv, UnitsIsolated
<1>2. IInv /\ [Next]_vars => IInv'
  BY <1>0, NextTypeOK, NextIsolated DEF IInv
<1>3. IInv => UnitsIsolated
  BY DEF IInv
<1>4. QED
  BY <1>1, <1>2, <1>3, PTL DEF Spec
=============================================================================
