------------------------------- MODULE Ledger --------------------------------
(***************************************************************************)
(* What a validator's ledger promises to the owners of coins and votes,    *)
(* whatever is submitted, however blocks are made and whenever the node is *)
(* stopped: an output is spent at most once, by the key that owns it, and  *)
(* only in a later block than its own; nothing that was recorded changes.  *)
(***************************************************************************)

VARIABLES
    outputs,      \* outpoint -> [value, spendPkey], of every output recorded
    authority     \* outpoint -> the key that signed for it, of every output spent

vars == <<outputs, authority>>

Init == DOMAIN outputs = {} /\ DOMAIN authority = {}

Extends(old, new) ==
    /\ DOMAIN old \subseteq DOMAIN new
    /\ \A x \in DOMAIN old : new[x] = old[x]

\* A block records any new outputs, and spends some of those that were there.
AppendBlock ==
    /\ Extends(outputs, outputs')
    /\ Extends(authority, authority')
    /\ \A o \in DOMAIN authority' \ DOMAIN authority :
        o \in DOMAIN outputs /\ authority'[o] = outputs[o].spendPkey

\* A node that is started over an empty database begins again.
Forget == DOMAIN outputs' = {} /\ DOMAIN authority' = {}

Next == AppendBlock \/ Forget

Spec == Init /\ [][Next]_vars
=============================================================================
