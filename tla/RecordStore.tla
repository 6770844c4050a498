---------------------------- MODULE RecordStore ----------------------------
(***************************************************************************)
(* What a record file promises its callers (spec.md 4.3, 8): a map from    *)
(* rids to records, and the kind and rid of the last call that returned.   *)
(*   insert_record(buf)  puts the record at a rid that holds none;         *)
(*   delete_record(rid)  leaves no record at rid (deleting a missing       *)
(*                       record is allowed, spec.md 8);                    *)
(*   update_record and insert_record(rid, buf) replace the record at rid   *)
(*                       if there is one (neither sets the slot's bit).    *)
(* Calls that fail (a null page, a bad slot, a full page) are not calls    *)
(* that returned normally and leave the map as it was: they are stuttering *)
(* steps.                                                                  *)
(***************************************************************************)
CONSTANTS
    Rids,       \* the rids a file of the model's size can hold
    Vals,       \* record payloads
    NoRecord    \* the value of a rid with no record

ASSUME NoRecord \notin Vals

VARIABLES
    records,    \* rid -> record
    lastCall    \* the last call that returned normally

TypeOK == records \in [Rids -> Vals \cup {NoRecord}]

Init == records = [r \in Rids |-> NoRecord] /\ lastCall = <<"none">>

Insert(r, v) ==
    /\ records[r] = NoRecord
    /\ records' = [records EXCEPT ![r] = v]
    /\ lastCall' = <<"insert", r>>

Delete(r) ==
    /\ records' = [records EXCEPT ![r] = NoRecord]
    /\ lastCall' = <<"delete", r>>

Write(r, v) ==
    /\ records' = IF records[r] = NoRecord THEN records
                  ELSE [records EXCEPT ![r] = v]
    /\ lastCall' = <<"write", r>>

Next ==
    \E r \in Rids :
        \/ Delete(r)
        \/ \E v \in Vals : Insert(r, v) \/ Write(r, v)

Spec == Init /\ [][Next]_<<records, lastCall>>
=============================================================================
