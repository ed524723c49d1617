--------------------------- MODULE StorerAbstract ---------------------------
(***************************************************************************)
(* What a storer promises its callers, every operation atomic.  The store  *)
(* is a map from the keys put so far to their values, as a Go map is.  Put *)
(* stores a value; Get returns the stored value or reports the key         *)
(* missing; RangeKeys hands the handler pairs that were all in the map at  *)
(* one instant (any subset of them, since the handler may stop early and   *)
(* the map iteration order is random).                                     *)
(***************************************************************************)
CONSTANTS Clients, Keys, Vals, NotFound

VARIABLES
  kv,         \* the map: its domain is the keys stored
  lastGet,    \* per client, what its last Get returned
  lastRange   \* per client, the pairs its last RangeKeys handed out

(* The key-value pairs of the map m.                                       *)
Entries(m) == {<<k, m[k]>> : k \in DOMAIN m}

Init ==
  /\ kv = [k \in {} |-> NotFound]
  /\ lastGet = [c \in Clients |-> NotFound]
  /\ lastRange = [c \in Clients |-> {}]

Put(k, v) ==
  /\ kv' = [x \in DOMAIN kv \cup {k} |-> IF x = k THEN v ELSE kv[x]]
  /\ UNCHANGED <<lastGet, lastRange>>

Get(c, k) ==
  /\ lastGet' = [lastGet EXCEPT ![c] = IF k \in DOMAIN kv THEN kv[k]
                                                         ELSE NotFound]
  /\ UNCHANGED <<kv, lastRange>>

RangeKeys(c) ==
  /\ \E S \in SUBSET Entries(kv) : lastRange' = [lastRange EXCEPT ![c] = S]
  /\ UNCHANGED <<kv, lastGet>>

Next ==
  \/ \E k \in Keys, v \in Vals : Put(k, v)
  \/ \E c \in Clients : \/ \E k \in Keys : Get(c, k)
                        \/ RangeKeys(c)

Spec == Init /\ [][Next]_<<kv, lastGet, lastRange>>
=============================================================================
