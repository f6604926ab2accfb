---------------------------- MODULE OutputStream ----------------------------
(***************************************************************************)
(* What job_output and terminal_output promise to a client that keeps      *)
(* asking with the cursor of the last answer: the bytes the child wrote,   *)
(* in order, each of them exactly once, and in the place of every byte     *)
(* that was dropped a gap that was reported.  OutputBuffer implements it.  *)
(***************************************************************************)
EXTENDS Naturals, Sequences

CONSTANTS Byte,     \* what a child may write
          Lost      \* the place of a byte that was reported as dropped

VARIABLES produced, \* every byte the child has written
          received  \* what the client knows of them: one entry per cursor

vars == <<produced, received>>

Init == produced = <<>> /\ received = <<>>

Produce == /\ produced' \in Seq(Byte)
           /\ Len(produced) <= Len(produced')
           /\ \A i \in 1..Len(produced) : produced'[i] = produced[i]
           /\ UNCHANGED received

\* An answer reports a gap and then carries bytes from where the gap ends.
Extends(old, new) ==
    /\ Len(old) <= Len(new)
    /\ Len(new) <= Len(produced)
    /\ \A i \in 1..Len(old) : new[i] = old[i]
    /\ \A i \in (Len(old) + 1)..Len(new) : new[i] \in {Lost, produced[i]}
    /\ \A i \in (Len(old) + 1)..Len(new), j \in (Len(old) + 1)..Len(new) :
          i < j /\ new[j] = Lost => new[i] = Lost

Receive == /\ received' \in Seq(Byte \cup {Lost})
           /\ Extends(received, received')
           /\ UNCHANGED produced

Next == Produce \/ Receive

Spec == Init /\ [][Next]_vars
=============================================================================
