---------------------------- MODULE EventPolicy ----------------------------
(***************************************************************************)
(* What the two buses of crates/ptr-events share: the names consumers      *)
(* register under and the limits of policy.rs, each of which may be unset. *)
(***************************************************************************)
EXTENDS Integers

CONSTANTS
    Consumer,  \* names consumers register under
    NoLimit,   \* a limit that is None
    MaxTick    \* bound on the logical clock

Limit == Nat \cup {NoLimit}

Exceeds(value, limit) == limit # NoLimit /\ value > limit
=============================================================================
