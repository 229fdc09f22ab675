---------------------------- MODULE RecordStore ----------------------------
(***************************************************************************)
(* What the record manager promises, without pages, slots or offsets: a    *)
(* file that maps record identifiers to contents.  An identifier is given  *)
(* out once, keeps the contents it was inserted with until it is deleted,  *)
(* and is never given out again while the file exists.                     *)
(***************************************************************************)
CONSTANTS
  RIDs, Contents,
  Never,  \* what an identifier that was not given out yet holds
  Gone    \* what the identifier of a deleted record holds

VARIABLES
  exists,  \* is there a file
  record   \* record[rid]: its contents, Never or Gone

vars == <<exists, record>>
Live == {rid \in RIDs : record[rid] \in Contents}

Init ==
  /\ exists = FALSE
  /\ record = [rid \in RIDs |-> Never]

Create ==
  /\ ~ exists
  /\ exists' = TRUE
  /\ UNCHANGED record

Destroy ==
  /\ exists
  /\ exists' = FALSE
  /\ record' = [rid \in RIDs |-> Never]

Insert(rid) ==
  /\ exists
  /\ record[rid] = Never
  /\ \E c \in Contents : record' = [record EXCEPT ![rid] = c]
  /\ UNCHANGED exists

Delete(rid) ==
  /\ rid \in Live
  /\ record' = [record EXCEPT ![rid] = Gone]
  /\ UNCHANGED exists

Next == Create \/ Destroy \/ \E rid \in RIDs : Insert(rid) \/ Delete(rid)

Spec == Init /\ [][Next]_vars
=============================================================================
