---------------------------- MODULE ScopedConfig ----------------------------
(***************************************************************************)
(* What the configuration promises its users: deep binding.  There are     *)
(* settings of the session and, on top of them, scopes that bind some of   *)
(* the keys for as long as they are open.  A key reads as its innermost    *)
(* binding; setting it changes that binding and nothing under it.          *)
(***************************************************************************)
EXTENDS Naturals, Sequences

CONSTANTS Keys, Values, Default

VARIABLES base,     \* the settings outside every scope
          scopes    \* the bindings of each open scope, the innermost last

vars == <<base, scopes>>

Bindings == UNION {[bound -> Values] : bound \in SUBSET Keys}

\* The number of the innermost scope that binds the key; 0 is the session.
Innermost(key) ==
    LET binding == {n \in DOMAIN scopes : key \in DOMAIN scopes[n]}
    IN  IF binding = {} THEN 0 ELSE CHOOSE n \in binding : \A m \in binding : m <= n

Get(key) == IF Innermost(key) = 0 THEN base[key] ELSE scopes[Innermost(key)][key]

\* New values for some keys, each to its innermost binding.
Assign(new) ==
    /\ base' = [key \in Keys |-> IF key \in DOMAIN new /\ Innermost(key) = 0
                                 THEN new[key] ELSE base[key]]
    /\ scopes' = [n \in DOMAIN scopes |->
                     [key \in DOMAIN scopes[n] |->
                         IF key \in DOMAIN new /\ Innermost(key) = n
                         THEN new[key] ELSE scopes[n][key]]]

Open(bindings) == scopes' = Append(scopes, bindings) /\ UNCHANGED base

Close ==
    /\ scopes # <<>>
    /\ scopes' = SubSeq(scopes, 1, Len(scopes) - 1)
    /\ UNCHANGED base

Init == base = Default /\ scopes = <<>>

Next ==
    \/ \E key \in Keys, value \in Values : Assign([bound \in {key} |-> value])
    \/ Assign(Default)
    \/ Close
    \/ Len(scopes') > Len(scopes) /\ \E bindings \in Bindings : Open(bindings)

Spec == Init /\ [][Next]_vars

=============================================================================
