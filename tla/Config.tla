------------------------------- MODULE Config -------------------------------
(***************************************************************************)
(* kloppy.config: the settings of the process, and config_context, which   *)
(* changes some of them for a with statement.                              *)
(*                                                                         *)
(* A context remembers the values it found, not a scope of its own: what   *)
(* the settings read as inside and after it follows from the order in      *)
(* which contexts are entered and left.                                    *)
(***************************************************************************)
EXTENDS Naturals, Sequences

CONSTANTS
    Keys,          \* CONFIG_KEYS
    UnknownKey,    \* a key that is not one of them
    Values,
    Default,       \* _default_config
    Settings,      \* the pairs of a key and a value set_config may be called with
    Arguments,     \* the sequences of pairs config_context may be called with
    MaxContexts,   \* bound on the contexts open at once
    Nested         \* contexts are left in the reverse order they were entered

ASSUME ConfigAssumption ==
    /\ UnknownKey \notin Keys
    /\ Default \in [Keys -> Values]
    /\ Settings \subseteq (Keys \cup {UnknownKey}) \X Values
    /\ Arguments \subseteq Seq((Keys \cup {UnknownKey}) \X Values)
    /\ MaxContexts \in Nat
    /\ Nested \in BOOLEAN

VARIABLES config,     \* the dictionary
          contexts,   \* the open contexts, each its dictionary undo
          raised      \* the error the last call raised, or "none"

configVars == <<config, contexts>>

ConfigInit == config = Default /\ contexts = <<>>

Fail(error) == raised' = error

Quietly == raised' = "none"

----------------------------------------------------------------------------
\* config with the values of new for the keys it has

Overlay(new, settings) ==
    [key \in Keys |-> IF key \in DOMAIN new THEN new[key] ELSE settings[key]]

set_config(key, value) ==
    /\ IF key \in Keys THEN config' = [config EXCEPT ![key] = value] /\ Quietly
       ELSE Fail("KeyError") /\ UNCHANGED config
    /\ UNCHANGED contexts

reset_config == config' = Overlay(Default, config) /\ Quietly /\ UNCHANGED contexts

get_config(key) == config[key]

\* The keys of the pairs, and the last value each is given.
KeysOf(pairs) == {pairs[n][1] : n \in DOMAIN pairs}

ValueOf(pairs, key) ==
    LET last == CHOOSE n \in DOMAIN pairs :
                    /\ pairs[n][1] = key
                    /\ \A m \in DOMAIN pairs : pairs[m][1] = key => m <= n
    IN  pairs[last][2]

\* Fault: undo is filled while the keys are set, so that a key named twice is
\* remembered with the first of its new values
RememberedLate(pairs) ==
    [key \in KeysOf(pairs) |->
        LET named == {n \in DOMAIN pairs : pairs[n][1] = key}
        IN  IF \E n, m \in named : n < m
            THEN pairs[CHOOSE n \in named : \A m \in named : n <= m][2]
            ELSE config[key]]

\* undo: what the named keys are set to before any of them is changed
RememberedFirst(pairs) == [key \in KeysOf(pairs) |-> config[key]]

\* config_context up to its yield.  get_config raises for an unknown key before
\* the first one is set.
EnterContext(pairs) ==
    /\ Len(contexts) < MaxContexts
    /\ IF pairs = <<>> THEN Fail("ValueError") /\ UNCHANGED configVars
       ELSE IF ~ KeysOf(pairs) \subseteq Keys THEN Fail("KeyError") /\ UNCHANGED configVars
       ELSE /\ contexts' = Append(contexts, RememberedFirst(pairs))
            /\ config' = Overlay([key \in KeysOf(pairs) |-> ValueOf(pairs, key)], config)
            /\ Quietly

Without(n) == [m \in 1 .. Len(contexts) - 1 |-> contexts[IF m < n THEN m ELSE m + 1]]

\* The finally clause of a context, when its body ended or raised.
ExitContext(n) ==
    /\ n \in DOMAIN contexts
    /\ Nested => n = Len(contexts)
    /\ contexts' = Without(n)
    /\ config' = Overlay(contexts[n], config)
    /\ Quietly

ConfigNext ==
    \/ \E setting \in Settings : set_config(setting[1], setting[2])
    \/ reset_config
    \/ \E pairs \in Arguments : EnterContext(pairs)
    \/ \E n \in DOMAIN contexts : ExitContext(n)

----------------------------------------------------------------------------
\* The scopes the remembered values stand for.

\* What key was bound to by the contexts up to the n-th: the next one that
\* binds it remembers that, or the dictionary still holds it.
Under(n, key) ==
    LET later == {m \in DOMAIN contexts : m > n /\ key \in DOMAIN contexts[m]}
    IN  IF later = {} THEN config[key]
        ELSE contexts[CHOOSE m \in later : \A o \in later : m <= o][key]

Scoped == INSTANCE ScopedConfig WITH
    base   <- [key \in Keys |-> Under(0, key)],
    scopes <- [n \in DOMAIN contexts |->
                  [key \in DOMAIN contexts[n] |-> Under(n, key)]]

\* The settings are deep bindings: whatever is set, reset, entered and left, and
\* in whatever order a context names its keys, a key reads as its innermost
\* binding and the settings outside a context come back untouched when it is
\* left (config_context).
ScopedSpec == Scoped!Spec

=============================================================================
