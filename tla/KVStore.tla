------------------------------ MODULE KVStore -------------------------------
(***************************************************************************)
(* What the B-tree promises its callers: a map from keys to payloads with  *)
(* one operation at a time.  A call is accepted (Call), takes effect in    *)
(* exactly one step, and leaves its answer in res.  Inserting a key that   *)
(* is already present is a caller error that ends the process, so callers  *)
(* remove first.                                                           *)
(***************************************************************************)
EXTENDS KeyOrder

CONSTANTS Key,          \* keys the callers use
          Val,          \* payloads
          NoVal,        \* "no payload": a missing key
          Limits        \* how many records a scan may ask for, at least one

VARIABLES map,          \* the stored map: NoVal for a missing key
          req,          \* the operation in progress
          res           \* the answer of the last operation

kvVars == <<map, req, res>>

Op(kind, key, val, limit) ==
    [kind |-> kind, key |-> key, val |-> val, limit |-> limit]

NoOp == Op("none", << >>, NoVal, 0)

Ops ==
    {Op("insert", k, v, 0) : k \in Key, v \in Val}
      \cup {Op(kind, k, NoVal, 0) : kind \in {"remove", "lookup"}, k \in Key}
      \cup {Op(kind, k, NoVal, n) : kind \in {"scan", "scandesc"}, k \in Key, n \in Limits}

(* An operation that has ended the process keeps its key.                  *)
Aborted(o) == [o EXCEPT !.kind = "aborted"]

Answer(found, val, recs) == [found |-> found, val |-> val, recs |-> recs]
NoAnswer == Answer(FALSE, NoVal, << >>)

KVInit ==
    /\ map = [k \in Key |-> NoVal]
    /\ req = NoOp
    /\ res = NoAnswer

Call ==
    /\ req = NoOp
    /\ req' \in Ops
    /\ res' = NoAnswer
    /\ UNCHANGED map

Return(kind, answer) ==
    /\ req.kind = kind
    /\ req' = NoOp
    /\ res' = answer

Insert ==
    /\ Return("insert", NoAnswer)
    /\ map[req.key] = NoVal
    /\ map' = [map EXCEPT ![req.key] = req.val]

InsertDuplicate ==
    /\ req.kind = "insert"
    /\ map[req.key] # NoVal
    /\ req' = Aborted(req)
    /\ UNCHANGED <<map, res>>

Remove ==
    /\ Return("remove", Answer(map[req.key] # NoVal, NoVal, << >>))
    /\ map' = [map EXCEPT ![req.key] = NoVal]

Lookup ==
    /\ Return("lookup", Answer(map[req.key] # NoVal, map[req.key], << >>))
    /\ UNCHANGED map

(* recs lists entries of the map in the order of the scan, starting with   *)
(* the first one at or after the start key and skipping none.  It ends     *)
(* with the last entry there is, or when the caller's limit is reached.    *)
IsScan(recs, o, Before(_, _)) ==
    LET reach(k) == k = o.key \/ Before(o.key, k)
        listed   == {recs[i].key : i \in DOMAIN recs}
    IN  /\ \A i \in DOMAIN recs :
               /\ reach(recs[i].key)
               /\ map[recs[i].key] # NoVal
               /\ recs[i].val = map[recs[i].key]
        /\ \A i, j \in DOMAIN recs : i < j => Before(recs[i].key, recs[j].key)
        /\ \A k \in Key \ listed :
               map[k] # NoVal /\ reach(k) =>
                   Len(recs) = o.limit /\ Before(recs[o.limit].key, k)

Scan ==
    /\ \/ Return("scan", Answer(FALSE, NoVal, res'.recs)) /\ IsScan(res'.recs, req, Less)
       \/ /\ Return("scandesc", Answer(FALSE, NoVal, res'.recs))
          /\ IsScan(res'.recs, req, LAMBDA a, b : Less(b, a))
    /\ UNCHANGED map

Clear ==
    /\ req = NoOp
    /\ map' = [k \in Key |-> NoVal]
    /\ res' = NoAnswer
    /\ UNCHANGED req

KVNext ==
    \/ Call
    \/ Insert
    \/ InsertDuplicate
    \/ Remove
    \/ Lookup
    \/ Scan
    \/ Clear

KVSpec == KVInit /\ [][KVNext]_kvVars

=============================================================================
