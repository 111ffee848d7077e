----------------------------- MODULE MCExecWire -----------------------------
(* Model-checking instance of ExecWire: alice has a keyed and a keyless     *)
(* intent; bob uses alice's key for an action of his own, sends one request *)
(* to the wrong endpoint and one frame that does not decode.                *)
EXTENDS ExecWire

CONSTANTS alice, bob, keyed, keyless, same, stray, garbled, k

IntentPeer == [x \in {keyed, keyless, same, stray, garbled} |-> IF x \in {same, stray, garbled} THEN bob ELSE alice]
IntentKey == [x \in {keyed, keyless, same, stray, garbled} |-> IF x \in {keyed, same} THEN k ELSE NoKey]
=============================================================================
