----------------------------- MODULE RegionLock -----------------------------
(***************************************************************************)
(* What the README promises of claims ("synchronization based on           *)
(* reader-writer access"), with no list, mutex or sleeping: a claim is     *)
(* granted when no other handle has been granted one that overlaps it and  *)
(* either of the two is for writing.  A handle may give up any of its      *)
(* claims at any time.                                                     *)
(***************************************************************************)
EXTENDS Integers

CONSTANT Handles     \* the open ipm_memory objects

VARIABLE granted     \* the claims each handle has been granted

Overlap(c, d) ==
    /\ c.offset < d.offset + d.size
    /\ d.offset < c.offset + c.size

Conflict(c, d) == (c.access = "RW" \/ d.access = "RW") /\ Overlap(c, d)

Init == granted = [h \in Handles |-> {}]

Grant(h, c) ==
    /\ \A g \in Handles \ {h} : \A d \in granted[g] : ~ Conflict(c, d)
    /\ granted' = [granted EXCEPT ![h] = @ \cup {c}]

Drop(h, D) == granted' = [granted EXCEPT ![h] = @ \ D]

\* Any claim may be granted: the one that is new in granted'[h].
Next ==
    \E h \in Handles :
        \/ \E c \in granted'[h] : Grant(h, c)
        \/ \E D \in SUBSET granted[h] : Drop(h, D)

Spec == Init /\ [][Next]_granted
=============================================================================
