---------------------------- MODULE MachineStore ----------------------------
(***************************************************************************)
(* Machine implements Store: the refinement mapping, and the statement.    *)
(***************************************************************************)
EXTENDS Machine

(* A record as a caller sees it: state, arrival order, key, lease, schedule. *)
recordOf(it, k) ==
  [state |-> it.state, pos |-> it.seq, key |-> IF it.state = "absent" THEN NoKey ELSE k,
   token |-> it.token, until |-> it.until, next |-> it.next]

records == [id \in Ids |-> recordOf(items[id], KeyOf[id])]

tokens == [id \in Ids |-> Len(grants[id])]

Ended == {"acked", "kept", "refunded"}

ended == [id \in Ids |-> {n \in 1..Len(grants[id]) : grants[id][n].status \in Ended}]

Abstract == INSTANCE Store WITH rec <- records, last <- seq, issued <- tokens, settled <- ended

(* The state machine with its indexes, wake-up times, limits, reservations   *)
(* and two-step leases does nothing that the Store interface does not allow: *)
(* a record is handed out only when it is due and the oldest of its key,     *)
(* under a token never used before; only the holder of the present token     *)
(* moves or removes it; and nothing else changes what callers can see.       *)
Implements == Abstract!StoreSpec
=============================================================================
