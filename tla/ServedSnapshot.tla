--------------------------- MODULE ServedSnapshot ---------------------------
(***************************************************************************)
(* What the service promises about a project whose files change under it:  *)
(* one snapshot of the project is current; a request takes the current one *)
(* when it begins, and everything it answers, and every event that records *)
(* an answer, comes from that one snapshot until the request ends.         *)
(* Serving is shown to implement this specification.                       *)
(***************************************************************************)
EXTENDS Sequences

CONSTANTS Requests, Snapshots, NoSnapshot

VARIABLES
    current,    \* the snapshot a request that begins now would take
    pinned,     \* [Requests -> the snapshot the request is served from]
    log         \* the answers, oldest first: who asked, answered from what

vars == <<current, pinned, log>>

Init ==
    /\ current \in Snapshots \cup {NoSnapshot}
    /\ pinned = [r \in Requests |-> NoSnapshot]
    /\ log = << >>

\* The service moves to another snapshot, or starts.
Publish == current' \in Snapshots /\ UNCHANGED <<pinned, log>>

\* A request begins; it may be the one that makes the service look at the files.
Begin(r) ==
    /\ pinned[r] = NoSnapshot
    /\ current' \in Snapshots
    /\ pinned' = [pinned EXCEPT ![r] = current']
    /\ UNCHANGED log

Answer(r) ==
    /\ pinned[r] # NoSnapshot
    /\ log' = Append(log, [who |-> r, from |-> pinned[r], recorded |-> pinned[r]])
    /\ UNCHANGED <<current, pinned>>

End(r) ==
    /\ pinned[r] # NoSnapshot
    /\ pinned' = [pinned EXCEPT ![r] = NoSnapshot]
    /\ UNCHANGED <<current, log>>

\* A cancelled request records its last statement and ends.
AnswerAndEnd(r) ==
    /\ pinned[r] # NoSnapshot
    /\ log' = Append(log, [who |-> r, from |-> pinned[r], recorded |-> pinned[r]])
    /\ pinned' = [pinned EXCEPT ![r] = NoSnapshot]
    /\ UNCHANGED current

Next == Publish \/ \E r \in Requests : Begin(r) \/ Answer(r) \/ End(r) \/ AnswerAndEnd(r)

Spec == Init /\ [][Next]_vars
=============================================================================
