-------------------------- MODULE ChainStorerMock --------------------------
(***************************************************************************)
(* genericMocks.ChainStorerMock (testscommon/genericMocks/                 *)
(* chainStorerMock.go): a chain storer made of eight in-memory storers.    *)
(* GetStorer routes a unit type to one of them; Get, Put and GetAll go     *)
(* through it.  A test drives it from one goroutine, so each call is one   *)
(* step.  The storers are genericMocks.StorerMock maps (outside these      *)
(* sources): Put stores, Get fails on a missing key.  Unit types are the   *)
(* numbers of dataRetriever.UnitType, given as constants.                  *)
(***************************************************************************)
EXTENDS Naturals

CONSTANTS
  UnitTypes,                     \* the unit types the test uses
  TransactionUnit, MiniBlockUnit, RewardTransactionUnit,
  UnsignedTransactionUnit, TxLogsUnit, MetaHdrNonceHashDataUnit,
  ShardHdrNonceHashDataUnit,     \* dataRetriever's named unit types
  Keys, Vals,
  Missing,                       \* a key absent from a storer
  NotFound,                      \* a Get or GetAll error
  MaxOps                         \* calls the test makes

(* dataRetriever numbers the named unit types 0, 1, 6, 5, 11, 7 and 18:    *)
(* distinct, and all but ShardHdrNonceHashDataUnit below it.               *)
NamedUnitTypes == {MiniBlockUnit, TransactionUnit, RewardTransactionUnit,
                   UnsignedTransactionUnit, TxLogsUnit, MetaHdrNonceHashDataUnit}

ASSUME ChainStorerMockAssumption ==
  /\ UnitTypes \subseteq Nat /\ ShardHdrNonceHashDataUnit \in Nat
  /\ NamedUnitTypes \subseteq 0..(ShardHdrNonceHashDataUnit - 1)
  /\ LET n == <<MiniBlockUnit, TransactionUnit, RewardTransactionUnit,
               UnsignedTransactionUnit, TxLogsUnit, MetaHdrNonceHashDataUnit>>
     IN  \A i, j \in 1..6 : n[i] = n[j] => i = j
  /\ MaxOps \in Nat
  /\ Missing \notin Vals /\ NotFound \notin Vals

(* The fields of ChainStorerMock.                                          *)
Storers == {"Miniblocks", "Transactions", "Rewards", "Unsigned", "Logs",
            "MetaHdrNonce", "ShardHdrNonce", "Others"}

VARIABLES
  store,      \* the contents of each field's storer
  written,    \* the last value the test put under each unit and key
  getOut,     \* what the last Get returned
  getAllOut,  \* what the last GetAll returned
  ops

vars == <<store, written, getOut, getAllOut, ops>>

(* GetStorer: the named unit types first, then every type above            *)
(* ShardHdrNonceHashDataUnit to MetaHdrNonce, the rest to Others.  The     *)
(* named types are distinct, so at most one case applies.                  *)
\* Mutant: the ShardHdrNonceHashDataUnit case is missing.
GetStorer_noShardNonceCase(u) ==
  CASE u = MiniBlockUnit -> "Miniblocks"
    [] u = TransactionUnit -> "Transactions"
    [] u = RewardTransactionUnit -> "Rewards"
    [] u = UnsignedTransactionUnit -> "Unsigned"
    [] u = TxLogsUnit -> "Logs"
    [] u = MetaHdrNonceHashDataUnit -> "MetaHdrNonce"
    [] u > ShardHdrNonceHashDataUnit -> "MetaHdrNonce"
    [] OTHER -> "Others"

GetStorer(u) ==
  CASE u = MiniBlockUnit -> "Miniblocks"
    [] u = TransactionUnit -> "Transactions"
    [] u = RewardTransactionUnit -> "Rewards"
    [] u = UnsignedTransactionUnit -> "Unsigned"
    [] u = TxLogsUnit -> "Logs"
    [] u = MetaHdrNonceHashDataUnit -> "MetaHdrNonce"
    [] u = ShardHdrNonceHashDataUnit -> "ShardHdrNonce"
    [] u > ShardHdrNonceHashDataUnit -> "MetaHdrNonce"
    [] OTHER -> "Others"

(* NewChainStorerMock: eight empty storers.                                *)
Init ==
  /\ store = [s \in Storers |-> [k \in Keys |-> Missing]]
  /\ written = [u \in UnitTypes |-> [k \in Keys |-> Missing]]
  /\ getOut = NotFound
  /\ getAllOut = NotFound
  /\ ops = 0

(* Put(unitType, key, value) == GetStorer(unitType).Put(key, value)        *)
Put(u, k, v) ==
  /\ ops < MaxOps
  /\ store' = [store EXCEPT ![GetStorer(u)][k] = v]
  /\ written' = [written EXCEPT ![u][k] = v]
  /\ ops' = ops + 1
  /\ UNCHANGED <<getOut, getAllOut>>

(* Get(unitType, key) == GetStorer(unitType).Get(key)                      *)
Get(u, k) ==
  /\ ops < MaxOps
  /\ getOut' = IF store[GetStorer(u)][k] = Missing THEN NotFound
               ELSE store[GetStorer(u)][k]
  /\ ops' = ops + 1
  /\ UNCHANGED <<store, written, getAllOut>>

(* GetAll: one storer, a Get per key; the first error is returned and the  *)
(* values read so far are dropped.                                         *)
GetAll(u, ks) ==
  LET s == store[GetStorer(u)]
  IN /\ ops < MaxOps
     /\ getAllOut' = IF \E k \in ks : s[k] = Missing THEN NotFound
                     ELSE [k \in ks |-> s[k]]
     /\ ops' = ops + 1
     /\ UNCHANGED <<store, written, getOut>>

(* The test has made all its calls.                                        *)
Finished == ops = MaxOps /\ UNCHANGED vars

Next ==
  \/ \E u \in UnitTypes, k \in Keys :
       \/ \E v \in Vals : Put(u, k, v)
       \/ Get(u, k)
  \/ \E u \in UnitTypes, ks \in SUBSET Keys : GetAll(u, ks)
  \/ Finished

Spec == Init /\ [][Next]_vars

-----------------------------------------------------------------------------
TypeOK ==
  /\ store \in [Storers -> [Keys -> Vals \cup {Missing}]]
  /\ written \in [UnitTypes -> [Keys -> Vals \cup {Missing}]]
  /\ getOut \in Vals \cup {NotFound}
  /\ getAllOut \in {NotFound} \cup UNION {[ks -> Vals] : ks \in SUBSET Keys}
  /\ ops \in 0..MaxOps

(***************************************************************************)
(* The sets of unit types GetStorer's if-chain keeps apart, in terms of    *)
(* dataRetriever's numbering: besides the named types, at most one type    *)
(* below ShardHdrNonceHashDataUnit (they all fall to Others) and at most   *)
(* one above it (they all fall to MetaHdrNonce), and none above it when    *)
(* MetaHdrNonceHashDataUnit itself is used.                                *)
(***************************************************************************)
SeparatelyRouted(U) ==
  LET Unnamed == U \ (NamedUnitTypes \cup {ShardHdrNonceHashDataUnit})
  IN  /\ \A u1, u2 \in Unnamed :
           (u1 < ShardHdrNonceHashDataUnit <=> u2 < ShardHdrNonceHashDataUnit)
             => u1 = u2
      /\ MetaHdrNonceHashDataUnit \in U =>
           \A u \in U : u <= ShardHdrNonceHashDataUnit

(***************************************************************************)
(* A chain storer keeps its units apart: what the test last put under a    *)
(* unit type and key is what a Get of that unit type and key returns,      *)
(* whatever it put under other unit types.  GetStorer's routing has to     *)
(* send distinct unit types to distinct storers for this to hold.          *)
(***************************************************************************)
UnitsIsolated ==
  \A u \in UnitTypes, k \in Keys :
    written[u][k] # Missing => store[GetStorer(u)][k] = written[u][k]
=============================================================================
