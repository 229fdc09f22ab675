----------------------------- MODULE PoolIndex -----------------------------
(***************************************************************************)
(* What BufOps takes the buffer list and the hash table for: a sequence of *)
(* frames, last asked for first, and a map from pages to frames.  Its      *)
(* steps are what the calls of buf.c do to the two, in the operators of    *)
(* BufOps.                                                                 *)
(***************************************************************************)
CONSTANTS Fds, Pages, Frames, MaxBufs, NULL

VARIABLES
  list,  \* the frames in use
  hash   \* hash[k]: the frame that holds page k, or NULL

\* Files and contents have no part in this.
Ops == INSTANCE BufOps
  WITH Files <- {NULL}, Data <- {NULL}, Zeros <- NULL, Junk <- NULL, Absent <- NULL, Faults <- {}

vars == <<list, hash>>
Keys == Fds \X Pages

Init ==
  /\ list = <<>>
  /\ hash = [k \in Keys |-> NULL]

\* A page that is buffered is asked for.
Ask(k) ==
  /\ hash[k] # NULL
  /\ list' = Ops!MoveToHead(list, hash[k])
  /\ UNCHANGED hash

\* A page comes into a frame of its own.
Enter(k, f) ==
  /\ hash[k] = NULL /\ \A i \in DOMAIN list : list[i] # f
  /\ list' = Ops!PFbufLinkHead(list, f)
  /\ hash' = [hash EXCEPT ![k] = f]

\* A page comes into the frame of another.
Replace(old, k) ==
  /\ hash[old] # NULL /\ hash[k] = NULL
  /\ list' = Ops!MoveToHead(list, hash[old])
  /\ hash' = [hash EXCEPT ![old] = NULL, ![k] = hash[old]]

\* A page goes, and its frame with it.
Lose(k) ==
  /\ hash[k] # NULL
  /\ list' = Ops!PFbufUnlink(list, hash[k])
  /\ hash' = [hash EXCEPT ![k] = NULL]

Next ==
  \E k \in Keys :
    \/ Ask(k) \/ Lose(k)
    \/ \E f \in Frames : Enter(k, f)
    \/ \E old \in Keys : Replace(old, k)

Spec == Init /\ [][Next]_vars
=============================================================================
