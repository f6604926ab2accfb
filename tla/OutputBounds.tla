---------------------------- MODULE OutputBounds ----------------------------
(* The parameters of OutputBuffer and what is assumed of them. *)
EXTENDS Naturals

CONSTANTS Byte,      \* the bytes a child may write
          Lost,      \* a byte that was reported as dropped
          Retained,  \* output_limit_bytes of the record
          MaxBytes,  \* bound: the child writes at most so many bytes
          MaxChunk   \* bound: one read of the pipe returns at most so many

ASSUME CapacityAssumption == Retained \in Nat \ {0}
ASSUME BoundsAssumption == MaxBytes \in Nat /\ MaxChunk \in Nat
ASSUME LostAssumption == Lost \notin Byte
=============================================================================
