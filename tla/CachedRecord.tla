---------------------------- MODULE CachedRecord ----------------------------
(***************************************************************************)
(* What UserBusinessService promises about the copies of a profile, with   *)
(* Redis, the handlers and their calls out of sight: every copy was taken  *)
(* from the row or from another copy.  A profile that neither the row nor  *)
(* any copy holds cannot come back but by a write, and what a read answers *)
(* is the row or one of the copies at that moment.  Nothing is promised    *)
(* about when copies go.                                                   *)
(***************************************************************************)
CONSTANTS
  Readers,
  Updates,   \* the profiles that writes may leave in the row
  Original,  \* the profile that is there at first
  Gone,      \* the row of a deleted user
  None       \* no profile

VARIABLES
  row,
  copies,   \* the profiles in the cache or on their way into it
  served    \* served[r]: what read r was answered, None before

TypeOK ==
  /\ row \in Updates \cup {Original, Gone}
  /\ copies \subseteq Updates \cup {Original}
  /\ served \in [Readers -> Updates \cup {Original, None}]

Init ==
  /\ row = Original
  /\ copies = {}
  /\ served = [r \in Readers |-> None]

Available == (copies \cup {row}) \ {Gone}

\* A deleted user is not written again.
Write ==
  /\ row # Gone
  /\ row' \in Updates \cup {Gone}
  /\ UNCHANGED <<copies, served>>

CopyOrDrop ==
  /\ copies' \in SUBSET Available
  /\ UNCHANGED <<row, served>>

\* The copy that is answered may be dropped, or the last of its kind to stay.
Serve(r) ==
  /\ served[r] = None
  /\ \E v \in Available : served' = [served EXCEPT ![r] = v]
  /\ copies' \in SUBSET Available
  /\ UNCHANGED row

Next == Write \/ CopyOrDrop \/ \E r \in Readers : Serve(r)

Spec == Init /\ [][Next]_<<row, copies, served>>

=============================================================================
