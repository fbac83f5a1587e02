--------------------------- MODULE ResponseStore ---------------------------
(***************************************************************************)
(* The session's retained settlements: the responses of recent invokes,    *)
(* oldest first, kept so that a result produced while the client was away  *)
(* can still be handed to the connection that reattaches.                  *)
(*                                                                         *)
(* A settlement is the wire id it answers and the invoke whose handler     *)
(* produced it, which stands for the encoded result.                       *)
(***************************************************************************)
EXTENDS Integers, Sequences, FiniteSets

CONSTANT MaxResponses  \* ceiling on the number of settlements retained

ASSUME StoreAssumption == MaxResponses \in Nat

VARIABLE retained  \* the settlements, in the order they were recorded

(* evict(): the oldest go until the ceiling holds.                         *)
NewestOf(s) ==
  IF Len(s) > MaxResponses THEN SubSeq(s, Len(s) - MaxResponses + 1, Len(s)) ELSE s

(* The retained settlements at these positions, in order.                  *)
Rank(at, i) == Cardinality({j \in at : j <= i})

Picked(at) ==
  [k \in 1 .. Cardinality(at) |-> retained[CHOOSE i \in at : Rank(at, i) = k]]

(* The entries left when every entry for this id is deleted.               *)
Without(id) == Picked({i \in DOMAIN retained : retained[i].id # id})

InitStore == retained = <<>>

(* record(response): an id recorded again moves to the back.               *)
RecordResponse(r) == retained' = NewestOf(Append(Without(r.id), r))

(* The oldest settlement passes its TTL.  The code drops it when it is     *)
(* next looked up or pruned; get() answers as if it were gone already.     *)
AgeOut ==
  /\ retained # <<>>
  /\ retained' = Tail(retained)

Retained(id) == \E i \in DOMAIN retained : retained[i].id = id

(* The retained settlements for these ids.                                 *)
SettlementsOf(ids) == Picked({i \in DOMAIN retained : retained[i].id \in ids})
=============================================================================
