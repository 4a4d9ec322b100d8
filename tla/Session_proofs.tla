----------------------------- MODULE Session_proofs -----------------------------
(***************************************************************************)
(* Proofs about a session: its settings and what it stores.                *)
(*                                                                         *)
(* The settings are deep bindings, whatever keys and values there are, and *)
(* however many contexts are open, as long as they are left in the reverse *)
(* order they were entered.  What a scope binds is not in the state: it is *)
(* what the next context that binds the key remembers, or what the         *)
(* dictionary holds.  The lemmas say which of the two, before and after a  *)
(* step.                                                                   *)
(*                                                                         *)
(* No data is torn, and only the cache makes a read stale, whatever is     *)
(* stored, read, written and published, in whatever order, and whatever    *)
(* the settings are changed to in between.  A content that was handed over *)
(* once goes on to be whole because the chunks of an output are counted    *)
(* only while it is open; it names only outputs that were opened, so that  *)
(* no later one can give it a meaning.                                     *)
(***************************************************************************)
EXTENDS Session, FiniteLemmas, SequenceTheorems

----------------------------------------------------------------------------
(***************************************************************************)
(* The settings.                                                           *)
(***************************************************************************)

Bindings == UNION {[bound -> Values] : bound \in SUBSET Keys}

\* The dictionary has a value for every key, and what a context remembers is
\* values for some of them.
ConfigTyped == config \in [Keys -> Values] /\ contexts \in Seq(Bindings)

----------------------------------------------------------------------------
\* Sequences that differ in their last element

\* A function on an initial segment of the numbers is a sequence of its values.
LEMMA SegmentIsSeq ==
    ASSUME NEW n \in Nat, NEW s, s = [m \in 1 .. n |-> s[m]],
           NEW S, \A m \in 1 .. n : s[m] \in S
    PROVE  s \in Seq(S) /\ Len(s) = n
<1>1. s \in [1 .. n -> S]
  <2>1. [m \in 1 .. n |-> s[m]] \in [1 .. n -> S]
    OBVIOUS
  <2> QED BY <2>1, Zenon
<1> QED BY <1>1

\* A sequence that goes on another by one element, and one that leaves out the last.
LEMMA Appended ==
    ASSUME NEW n \in Nat, NEW s, NEW t,
           s = [m \in 1 .. n |-> s[m]], t = [m \in 1 .. (n + 1) |-> t[m]],
           \A m \in 1 .. n : t[m] = s[m]
    PROVE  t = Append(s, t[n + 1]) /\ Len(t) > Len(s)
<1> DEFINE R == {t[m] : m \in 1 .. (n + 1)}
<1>1. (\A m \in 1 .. n : s[m] \in R) /\ (\A m \in 1 .. (n + 1) : t[m] \in R)
  OBVIOUS
<1> HIDE DEF R
<1>2. s \in Seq(R) /\ Len(s) = n
  BY <1>1, SegmentIsSeq
<1>3. t \in Seq(R) /\ Len(t) = n + 1 
  <2>1. n + 1 \in Nat
    OBVIOUS
  <2> QED BY <1>1, <2>1, SegmentIsSeq
<1>4. t[n + 1] \in R
  BY <1>1
<1>5. /\ Append(s, t[n + 1]) \in Seq(R) /\ Len(Append(s, t[n + 1])) = n + 1
      /\ \A m \in 1 .. n : Append(s, t[n + 1])[m] = s[m]
      /\ Append(s, t[n + 1])[n + 1] = t[n + 1]
  BY <1>2, <1>4, AppendProperties
<1>6. \A m \in 1 .. (n + 1) : Append(s, t[n + 1])[m] = t[m]
  <2>1. \A m \in 1 .. (n + 1) : m \in 1 .. n \/ m = n + 1
    OBVIOUS
  <2> QED BY <1>5, <2>1
<1> QED BY <1>2, <1>3, <1>5, <1>6, SeqEqual

LEMMA Shortened ==
    ASSUME NEW n \in Nat, NEW s, NEW t,
           s = [m \in 1 .. (n + 1) |-> s[m]], t = [m \in 1 .. n |-> t[m]],
           \A m \in 1 .. n : t[m] = s[m]
    PROVE  s # <<>> /\ t = SubSeq(s, 1, Len(s) - 1)
<1> DEFINE R == {s[m] : m \in 1 .. (n + 1)}
<1>1. (\A m \in 1 .. n : t[m] \in R) /\ (\A m \in 1 .. (n + 1) : s[m] \in R)
  OBVIOUS
<1> HIDE DEF R
<1>2. t \in Seq(R) /\ Len(t) = n
  BY <1>1, SegmentIsSeq
<1>3. s \in Seq(R) /\ Len(s) = n + 1 
  <2>1. n + 1 \in Nat
    OBVIOUS
  <2> QED BY <1>1, <2>1, SegmentIsSeq
<1>4. /\ SubSeq(s, 1, n) \in Seq(R) /\ Len(SubSeq(s, 1, n)) = n
      /\ \A m \in 1 .. n : SubSeq(s, 1, n)[m] = s[m]
  BY <1>2, <1>3
<1>5. t = SubSeq(s, 1, n)
  BY <1>2, <1>4, SeqEqual
<1>6. s # <<>> /\ Len(s) - 1 = n
  BY <1>3
<1> QED BY <1>5, <1>6

----------------------------------------------------------------------------
\* What lies under a context

\* Under, of any dictionary and any stack of remembered values.
Below(settings, saved, n, key) ==
    LET later == {m \in DOMAIN saved : m > n /\ key \in DOMAIN saved[m]}
    IN  IF later = {} THEN settings[key]
        ELSE saved[CHOOSE m \in later : \A o \in later : m <= o][key]

\* Nothing above n binds the key: the dictionary holds it.
Top(saved, n, key) == \A m \in DOMAIN saved : m > n => key \notin DOMAIN saved[m]

\* m is the next above n that binds the key: it remembers it.
NextAbove(saved, n, key, m) ==
    /\ m \in DOMAIN saved /\ m > n /\ key \in DOMAIN saved[m]
    /\ \A o \in DOMAIN saved : n < o /\ o < m => key \notin DOMAIN saved[o]

LEMMA BelowTop ==
    ASSUME NEW settings, NEW saved, NEW n, NEW key, Top(saved, n, key)
    PROVE  Below(settings, saved, n, key) = settings[key]
BY DEF Below, Top

LEMMA BelowNext ==
    ASSUME NEW settings, NEW saved \in Seq(Bindings), NEW n \in Nat, NEW key,
           NEW m \in Nat, NextAbove(saved, n, key, m)
    PROVE  Below(settings, saved, n, key) = saved[m][key]
<1> DEFINE later == {o \in DOMAIN saved : o > n /\ key \in DOMAIN saved[o]}
<1>1. m \in later /\ later \subseteq Nat /\ \A o \in later : m <= o
  BY DEF NextAbove
<1>2. Below(settings, saved, n, key) =
          IF later = {} THEN settings[key]
          ELSE saved[CHOOSE o \in later : \A l \in later : o <= l][key]
  BY DEF Below
<1> HIDE DEF later
<1>3. \A o \in later : (\A l \in later : o <= l) => o = m
  BY <1>1
<1>4. (CHOOSE o \in later : \A l \in later : o <= l) = m
  BY <1>1, <1>3
<1> QED BY <1>1, <1>2, <1>4

LEMMA TopOrNext ==
    ASSUME NEW saved \in Seq(Bindings), NEW n \in Nat, NEW key
    PROVE  Top(saved, n, key) \/ \E m \in Nat : NextAbove(saved, n, key, m)
<1> DEFINE later == {o \in DOMAIN saved : o > n /\ key \in DOMAIN saved[o]}
<1>1. later \in SUBSET Nat /\ IsFiniteSet(later)
  <2>1. later \in SUBSET Nat /\ \A o \in later : o <= Len(saved)
    OBVIOUS
  <2> QED BY <2>1, FS_BoundedSetOfNaturals
<1>2. CASE later = {}
  BY <1>2 DEF Top
<1>3. CASE later # {}
  <2>1. PICK m \in later : \A o \in later : o >= m
    <3> HIDE DEF later
    <3> QED BY <1>1, <1>3, LeastExists
  <2>2. m \in Nat /\ NextAbove(saved, n, key, m)
    BY <2>1 DEF NextAbove
  <2> QED BY <2>2
<1> QED BY <1>2, <1>3

LEMMA UnderIsBelow ==
    ASSUME NEW n, NEW key
    PROVE  /\ Under(n, key) = Below(config, contexts, n, key)
           /\ Under(n, key)' = Below(config', contexts', n, key)
BY DEF Under, Below

LEMMA UnderTop ==
    ASSUME NEW n, NEW key
    PROVE  /\ Top(contexts, n, key) => Under(n, key) = config[key]
           /\ Top(contexts', n, key) => Under(n, key)' = config'[key]
BY UnderIsBelow, BelowTop

LEMMA UnderNext ==
    ASSUME NEW n \in Nat, NEW key, NEW m \in Nat,
           contexts \in Seq(Bindings), contexts' \in Seq(Bindings)
    PROVE  /\ NextAbove(contexts, n, key, m) => Under(n, key) = contexts[m][key]
           /\ NextAbove(contexts', n, key, m) => Under(n, key)' = contexts'[m][key]
<1>1. NextAbove(contexts', n, key, m) =>
          Below(config', contexts', n, key) = contexts'[m][key]
  BY BelowNext
<1> QED BY <1>1, UnderIsBelow, BelowNext

\* The innermost scope that binds a key is the one with nothing above it.
Bound(n, key) == n = 0 \/ (n \in DOMAIN contexts /\ key \in DOMAIN contexts[n])

LEMMA InnermostIsTop ==
    ASSUME ConfigTyped, NEW key
    PROVE  /\ Scoped!Innermost(key) \in Nat
           /\ Bound(Scoped!Innermost(key), key)
           /\ Top(contexts, Scoped!Innermost(key), key)
<1> DEFINE binding == {n \in DOMAIN contexts : key \in DOMAIN contexts[n]}
<1>1. Scoped!Innermost(key) = IF binding = {} THEN 0
                              ELSE CHOOSE n \in binding : \A m \in binding : m <= n
  <2> DEFINE scopes == [n \in DOMAIN contexts |->
                           [k \in DOMAIN contexts[n] |-> Under(n, k)]]
         bound == {n \in DOMAIN scopes : key \in DOMAIN scopes[n]}
  <2>1. bound = binding
    OBVIOUS
  <2>2. Scoped!Innermost(key) = IF bound = {} THEN 0
                                ELSE CHOOSE n \in bound : \A m \in bound : m <= n
    BY DEF Scoped!Innermost
  <2> HIDE DEF bound, binding
  <2> QED BY <2>1, <2>2
<1>2. binding \in SUBSET Nat /\ IsFiniteSet(binding)
  <2>1. binding \in SUBSET Nat /\ \A o \in binding : o <= Len(contexts)
    BY DEF ConfigTyped
  <2>2. Len(contexts) \in Nat
    BY DEF ConfigTyped
  <2> QED BY <2>1, <2>2, FS_BoundedSetOfNaturals
<1>3. CASE binding = {}
  BY <1>1, <1>3 DEF Top, Bound
<1>4. CASE binding # {}
  <2>1. /\ Scoped!Innermost(key) \in binding
        /\ \A m \in binding : m <= Scoped!Innermost(key)
    <3> HIDE DEF binding
    <3> QED BY <1>1, <1>2, <1>4, GreatestExists
  <2>2. \A m \in DOMAIN contexts : m \in Nat
    BY DEF ConfigTyped
  <2> QED BY <2>1, <2>2 DEF Top, Bound
<1> QED BY <1>3, <1>4

LEMMA TopIsInnermost ==
    ASSUME ConfigTyped, NEW key, NEW n \in Nat, Bound(n, key)
    PROVE  Top(contexts, n, key) <=> Scoped!Innermost(key) = n
<1>1. \A m \in DOMAIN contexts : m \in Nat /\ m > 0
  BY DEF ConfigTyped
<1> QED BY <1>1, InnermostIsTop DEF Top, Bound

----------------------------------------------------------------------------
\* Setting and resetting

\* New values change what a key is bound to where it is innermost, and only there.
LEMMA OverlayUnder ==
    ASSUME ConfigTyped, NEW new, NEW key \in Keys, NEW n \in Nat, Bound(n, key),
           config' = Overlay(new, config), contexts' = contexts
    PROVE  Under(n, key)' = IF key \in DOMAIN new /\ Scoped!Innermost(key) = n
                            THEN new[key] ELSE Under(n, key)
<1> contexts \in Seq(Bindings)
  BY DEF ConfigTyped
<1>1. CASE Top(contexts, n, key)
  <2>1. Under(n, key)' = config'[key] /\ Under(n, key) = config[key]
    BY <1>1, UnderTop
  <2>2. config'[key] = IF key \in DOMAIN new THEN new[key] ELSE config[key]
    BY DEF Overlay
  <2>3. Scoped!Innermost(key) = n
    BY <1>1, TopIsInnermost
  <2> QED BY <2>1, <2>2, <2>3
<1>2. CASE ~ Top(contexts, n, key)
  <2>1. PICK m \in Nat : NextAbove(contexts, n, key, m)
    BY <1>2, TopOrNext
  <2>2. Under(n, key)' = contexts[m][key] /\ Under(n, key) = contexts[m][key]
    BY <2>1, UnderNext
  <2>3. Scoped!Innermost(key) # n
    BY <1>2, TopIsInnermost
  <2> QED BY <2>2, <2>3
<1> QED BY <1>1, <1>2

LEMMA AssignRefines ==
    ASSUME ConfigTyped, NEW new,
           config' = Overlay(new, config), contexts' = contexts
    PROVE  Scoped!Assign(new)
<1>1. \A n \in DOMAIN contexts : n \in Nat /\ contexts[n] \in Bindings
  BY DEF ConfigTyped
<1>2. [key \in Keys |-> Under(0, key)]'
        = [key \in Keys |-> IF key \in DOMAIN new /\ Scoped!Innermost(key) = 0
                            THEN new[key] ELSE [k \in Keys |-> Under(0, k)][key]]
  <2>1. \A key \in Keys : Under(0, key)' = IF key \in DOMAIN new /\ Scoped!Innermost(key) = 0
                                           THEN new[key] ELSE Under(0, key)
    BY OverlayUnder DEF Bound
  <2> QED BY <2>1
<1>3. \A n \in DOMAIN contexts : \A key \in DOMAIN contexts[n] :
        Under(n, key)' = IF key \in DOMAIN new /\ Scoped!Innermost(key) = n
                         THEN new[key] ELSE Under(n, key)
  BY <1>1, OverlayUnder DEF Bound, Bindings
<1> QED BY <1>2, <1>3 DEF Scoped!Assign

----------------------------------------------------------------------------
\* Entering a context

\* config_context sets a key to one of the values it is called with.
LEMMA ValueOfPairs ==
    ASSUME NEW pairs \in Arguments, KeysOf(pairs) \subseteq Keys, NEW key \in KeysOf(pairs)
    PROVE  ValueOf(pairs, key) \in Values
<1> DEFINE named == {n \in DOMAIN pairs : pairs[n][1] = key}
<1>1. pairs \in Seq((Keys \cup {UnknownKey}) \X Values)
  BY ConfigAssumption DEF ConfigAssumption
<1>2. named \in SUBSET Nat /\ IsFiniteSet(named) /\ named # {}
  <2>1. named \in SUBSET Nat /\ \A o \in named : o <= Len(pairs)
    BY <1>1
  <2>2. Len(pairs) \in Nat
    BY <1>1
  <2>3. named # {}
    BY DEF KeysOf
  <2> HIDE DEF named
  <2> QED BY <2>1, <2>2, <2>3, FS_BoundedSetOfNaturals
<1>3. PICK n \in named : \A m \in named : m <= n
  <2> HIDE DEF named
  <2> QED BY <1>2, GreatestExists
<1>4. \E o \in DOMAIN pairs : pairs[o][1] = key /\ \A m \in DOMAIN pairs : pairs[m][1] = key => m <= o
  BY <1>3
<1>5. \E o \in DOMAIN pairs : ValueOf(pairs, key) = pairs[o][2]
  BY <1>4 DEF ValueOf
<1>6. \A o \in DOMAIN pairs : pairs[o][2] \in Values
  BY <1>1
<1> QED BY <1>5, <1>6

\* The bindings that a context with these pairs opens.
PairsBind(pairs) == [key \in KeysOf(pairs) |-> ValueOf(pairs, key)]

LEMMA PairsAreBindings ==
    ASSUME NEW pairs \in Arguments, KeysOf(pairs) \subseteq Keys
    PROVE  PairsBind(pairs) \in Bindings /\ DOMAIN PairsBind(pairs) = KeysOf(pairs)
<1>1. PairsBind(pairs) \in [KeysOf(pairs) -> Values]
  BY ValueOfPairs DEF PairsBind
<1> QED BY <1>1 DEF Bindings

\* A new context leaves every binding under it as it was: it remembers the value of
\* a key it binds, and the dictionary keeps that of a key it does not.
LEMMA EnterUnder ==
    ASSUME ConfigTyped, NEW new \in Bindings,
           contexts' = Append(contexts, [key \in DOMAIN new |-> config[key]]),
           config' = Overlay(new, config),
           NEW key \in Keys, NEW n \in Nat, Bound(n, key)
    PROVE  Under(n, key)' = Under(n, key)
<1> DEFINE saved == [k \in DOMAIN new |-> config[k]]
           last == Len(contexts) + 1
<1>1. /\ contexts \in Seq(Bindings) /\ saved \in Bindings /\ contexts' \in Seq(Bindings)
      /\ DOMAIN saved = DOMAIN new
  <2>1. saved \in Bindings
    BY DEF ConfigTyped, Bindings
  <2> QED BY <2>1 DEF ConfigTyped
<1>2. /\ last \in Nat /\ DOMAIN contexts = 1 .. (last - 1) /\ DOMAIN contexts' = 1 .. last
      /\ contexts'[last] = saved
      /\ \A m \in DOMAIN contexts : contexts'[m] = contexts[m]
  BY <1>1
<1>3. n < last
  BY <1>2 DEF Bound
<1>4. \A k \in Keys : k \in DOMAIN new => saved[k] = config[k]
  OBVIOUS
<1> HIDE DEF saved, last
<1>5. CASE Top(contexts, n, key) /\ key \in DOMAIN new
  <2>1. NextAbove(contexts', n, key, last)
    BY <1>1, <1>2, <1>3, <1>5 DEF NextAbove, Top
  <2>2. Under(n, key)' = saved[key]
    BY <1>1, <1>2, <2>1, UnderNext
  <2> QED BY <1>4, <1>5, <2>2, UnderTop
<1>6. CASE Top(contexts, n, key) /\ key \notin DOMAIN new
  <2>1. Top(contexts', n, key)
    BY <1>1, <1>2, <1>6 DEF Top
  <2>2. config'[key] = config[key]
    BY <1>6 DEF Overlay
  <2> QED BY <1>6, <2>1, <2>2, UnderTop
<1>7. CASE ~ Top(contexts, n, key)
  <2>1. PICK m \in Nat : NextAbove(contexts, n, key, m)
    BY <1>1, <1>7, TopOrNext
  <2>2. NextAbove(contexts', n, key, m) /\ contexts'[m] = contexts[m]
    BY <1>2, <2>1 DEF NextAbove
  <2>3. Under(n, key) = contexts[m][key] /\ Under(n, key)' = contexts'[m][key]
    BY <1>1, <2>1, <2>2, UnderNext
  <2> QED BY <2>2, <2>3
<1> QED BY <1>5, <1>6, <1>7

LEMMA EnterRefines ==
    ASSUME ConfigTyped, NEW new \in Bindings,
           contexts' = Append(contexts, [key \in DOMAIN new |-> config[key]]),
           config' = Overlay(new, config)
    PROVE  Scoped!Next
<1> DEFINE saved == [k \in DOMAIN new |-> config[k]]
           scopes == [n \in DOMAIN contexts |-> [key \in DOMAIN contexts[n] |-> Under(n, key)]]
<1> PICK last \in Nat : last = Len(contexts) + 1
  BY DEF ConfigTyped
<1>1. /\ contexts \in Seq(Bindings) /\ saved \in Bindings /\ contexts' \in Seq(Bindings)
      /\ DOMAIN saved = DOMAIN new /\ DOMAIN new \subseteq Keys
  <2>1. saved \in Bindings /\ DOMAIN new \subseteq Keys
    BY DEF ConfigTyped, Bindings
  <2> QED BY <2>1 DEF ConfigTyped
<1>2. /\ last - 1 \in Nat /\ DOMAIN contexts = 1 .. (last - 1) /\ DOMAIN contexts' = 1 .. last
      /\ contexts'[last] = saved
      /\ \A m \in DOMAIN contexts : contexts'[m] = contexts[m] /\ m # last
  BY <1>1
<1>3. [key \in Keys |-> Under(0, key)]' = [key \in Keys |-> Under(0, key)]
  <2>1. \A key \in Keys : Under(0, key)' = Under(0, key)
    BY EnterUnder DEF Bound
  <2> QED BY <2>1
<1>4. \A n \in DOMAIN contexts : \A key \in DOMAIN contexts[n] : Under(n, key)' = Under(n, key)
  <2>1. \A n \in DOMAIN contexts : n \in Nat /\ contexts[n] \in Bindings
    BY <1>1
  <2> QED BY <2>1, EnterUnder DEF Bound, Bindings
<1>5. \A key \in DOMAIN new : Under(last, key)' = new[key]
  <2> SUFFICES ASSUME NEW key \in DOMAIN new PROVE Under(last, key)' = new[key]
    OBVIOUS
  <2>1. Top(contexts', last, key)
    BY <1>2 DEF Top
  <2>2. config'[key] = new[key]
    BY <1>1 DEF Overlay
  <2> QED BY <2>1, <2>2, UnderTop
<1>6. /\ scopes' = Append(scopes, new) /\ Len(scopes') > Len(scopes)
  <2>1. /\ scopes = [n \in 1 .. (last - 1) |-> scopes[n]]
        /\ scopes' = [n \in 1 .. last |-> scopes'[n]]
    BY <1>2
  <2>2. \A n \in 1 .. (last - 1) : scopes'[n] = scopes[n]
    BY <1>2, <1>4
  <2>3. scopes'[last] = new
    <3>1. scopes'[last] = [key \in DOMAIN new |-> Under(last, key)']
      BY <1>1, <1>2
    <3>2. new = [key \in DOMAIN new |-> new[key]]
      BY DEF Bindings
    <3> QED BY <1>5, <3>1, <3>2
  <2> HIDE DEF scopes
  <2> QED BY <1>2, <2>1, <2>2, <2>3, Appended
<1> QED BY <1>3, <1>6 DEF Scoped!Next, Scoped!Open, Scoped!Bindings, Bindings

----------------------------------------------------------------------------
\* Leaving a context

\* Leaving the last context leaves every binding under it as it was: the dictionary
\* gets back the value of a key it bound, and keeps that of a key it did not.
LEMMA ExitUnder ==
    ASSUME ConfigTyped, NEW last \in Nat, last = Len(contexts), last > 0,
           contexts' \in Seq(Bindings), DOMAIN contexts' = 1 .. (last - 1),
           \A m \in 1 .. (last - 1) : contexts'[m] = contexts[m],
           config' = Overlay(contexts[last], config),
           NEW key \in Keys, NEW n \in Nat, n < last
    PROVE  Under(n, key)' = Under(n, key)
<1>1. /\ contexts \in Seq(Bindings) /\ DOMAIN contexts = 1 .. last
      /\ \A m \in DOMAIN contexts : m \in DOMAIN contexts' \/ m = last
  BY DEF ConfigTyped
<1>2. CASE Top(contexts', n, key) /\ key \in DOMAIN contexts[last]
  <2>1. NextAbove(contexts, n, key, last)
    BY <1>1, <1>2 DEF NextAbove, Top
  <2>2. Under(n, key) = contexts[last][key]
    BY <1>1, <2>1, UnderNext
  <2>3. config'[key] = contexts[last][key]
    BY <1>2 DEF Overlay
  <2> QED BY <1>2, <2>2, <2>3, UnderTop
<1>3. CASE Top(contexts', n, key) /\ key \notin DOMAIN contexts[last]
  <2>1. Top(contexts, n, key)
    BY <1>1, <1>3 DEF Top
  <2>2. config'[key] = config[key]
    BY <1>3 DEF Overlay
  <2> QED BY <1>3, <2>1, <2>2, UnderTop
<1>4. CASE ~ Top(contexts', n, key)
  <2>1. PICK m \in Nat : NextAbove(contexts', n, key, m)
    BY <1>4, TopOrNext
  <2>2. NextAbove(contexts, n, key, m) /\ contexts'[m] = contexts[m]
    BY <1>1, <2>1 DEF NextAbove
  <2>3. Under(n, key) = contexts[m][key] /\ Under(n, key)' = contexts'[m][key]
    BY <1>1, <2>1, <2>2, UnderNext
  <2> QED BY <2>2, <2>3
<1> QED BY <1>2, <1>3, <1>4

\* What is left when a context is: the others, in their order.
LEMMA WithoutTyped ==
    ASSUME ConfigTyped, NEW n \in DOMAIN contexts
    PROVE  /\ Without(n) \in Seq(Bindings)
           /\ DOMAIN Without(n) = 1 .. (Len(contexts) - 1)
           /\ n = Len(contexts) => \A m \in DOMAIN Without(n) : Without(n)[m] = contexts[m]
<1>1. /\ contexts \in Seq(Bindings) /\ Len(contexts) \in Nat /\ n \in 1 .. Len(contexts)
      /\ \A m \in 1 .. Len(contexts) : contexts[m] \in Bindings
  BY DEF ConfigTyped
<1>2. Len(contexts) - 1 \in Nat
  BY <1>1
<1>3. \A m \in 1 .. (Len(contexts) - 1) : Without(n)[m] \in Bindings
  BY <1>1 DEF Without
<1>4. Without(n) = [m \in 1 .. (Len(contexts) - 1) |-> Without(n)[m]]
  BY DEF Without
<1>5. Without(n) \in Seq(Bindings)
  BY <1>2, <1>3, <1>4, SegmentIsSeq
<1>6. n = Len(contexts) => \A m \in 1 .. (Len(contexts) - 1) : Without(n)[m] = contexts[m]
  BY <1>1 DEF Without
<1> QED BY <1>4, <1>5, <1>6

LEMMA ExitRefines ==
    ASSUME ConfigTyped, Nested, NEW n \in DOMAIN contexts, ExitContext(n)
    PROVE  Scoped!Next
<1> DEFINE scopes == [m \in DOMAIN contexts |-> [key \in DOMAIN contexts[m] |-> Under(m, key)]]
<1> PICK last \in Nat : last = Len(contexts)
  BY DEF ConfigTyped
<1>1. /\ last > 0 /\ last - 1 \in Nat /\ last - 1 + 1 = last
      /\ DOMAIN contexts = 1 .. last /\ contexts \in Seq(Bindings)
  BY DEF ConfigTyped
<1>2. /\ contexts' \in Seq(Bindings) /\ DOMAIN contexts' = 1 .. (last - 1)
      /\ \A m \in 1 .. (last - 1) : contexts'[m] = contexts[m]
      /\ config' = Overlay(contexts[last], config)
  BY WithoutTyped DEF ExitContext
<1>3. [key \in Keys |-> Under(0, key)]' = [key \in Keys |-> Under(0, key)]
  <2>1. \A key \in Keys : Under(0, key)' = Under(0, key)
    BY <1>1, <1>2, ExitUnder
  <2> QED BY <2>1
<1>4. \A m \in 1 .. (last - 1) : \A key \in DOMAIN contexts[m] : Under(m, key)' = Under(m, key)
  <2> SUFFICES ASSUME NEW m \in 1 .. (last - 1), NEW key \in DOMAIN contexts[m]
               PROVE  Under(m, key)' = Under(m, key)
    OBVIOUS
  <2>1. m \in Nat /\ m < last /\ contexts[m] \in Bindings
    BY <1>1
  <2>2. key \in Keys
    BY <2>1 DEF Bindings
  <2> QED BY <1>1, <1>2, <2>1, <2>2, ExitUnder
<1>5. scopes # <<>> /\ scopes' = SubSeq(scopes, 1, Len(scopes) - 1)
  <2> PICK left \in Nat : left = last - 1
    BY <1>1
  <2>1. /\ scopes = [m \in 1 .. (left + 1) |-> scopes[m]]
        /\ scopes' = [m \in 1 .. left |-> scopes'[m]]
    BY <1>1, <1>2
  <2>2. \A m \in 1 .. left : scopes'[m] = scopes[m]
    BY <1>1, <1>2, <1>4
  <2> HIDE DEF scopes
  <2>3. \A s, t :
            (/\ s = [m \in 1 .. (left + 1) |-> s[m]]
             /\ t = [m \in 1 .. left |-> t[m]]
             /\ \A m \in 1 .. left : t[m] = s[m])
            => s # <<>> /\ t = SubSeq(s, 1, Len(s) - 1)
    BY Shortened
  <2> QED BY <2>1, <2>2, <2>3, Zenon
<1> QED BY <1>3, <1>5 DEF Scoped!Next, Scoped!Close

----------------------------------------------------------------------------
\* A session

\* A call on a dataset or on storage leaves the settings alone.
LEMMA SettingsSteps == ASSUME [Next]_vars PROVE [ConfigNext]_configVars
<1>1. CASE Configure
  BY <1>1 DEF Configure
<1>2. CASE UseStorage
  BY <1>2 DEF UseStorage
<1>3. CASE UseDataset
  BY <1>3 DEF UseDataset, Load, TransformToSystem, TransformToDimensions, TransformToOpposite,
              ChangeTo
<1>4. CASE UNCHANGED vars
  BY <1>4 DEF vars, configVars
<1> QED BY <1>1, <1>2, <1>3, <1>4 DEF Next

LEMMA OverlayTyped ==
    ASSUME NEW settings \in [Keys -> Values], NEW new \in Bindings
    PROVE  Overlay(new, settings) \in [Keys -> Values]
BY DEF Overlay, Bindings

LEMMA NextTyped == ASSUME ConfigTyped, [ConfigNext]_configVars PROVE ConfigTyped'
<1> USE DEF ConfigTyped
<1>1. ASSUME NEW setting \in Settings, set_config(setting[1], setting[2]) PROVE ConfigTyped'
  <2>1. setting[2] \in Values
    BY ConfigAssumption DEF ConfigAssumption
  <2> QED BY <1>1, <2>1 DEF set_config
<1>2. CASE reset_config
  <2>1. Default \in Bindings
    BY ConfigAssumption DEF ConfigAssumption, Bindings
  <2> QED BY <1>2, <2>1, OverlayTyped DEF reset_config
<1>3. ASSUME NEW pairs \in Arguments, EnterContext(pairs) PROVE ConfigTyped'
  <2>1. CASE UNCHANGED configVars
    BY <2>1 DEF configVars
  <2>2. CASE /\ KeysOf(pairs) \subseteq Keys
             /\ contexts' = Append(contexts, RememberedFirst(pairs))
             /\ config' = Overlay(PairsBind(pairs), config)
    <3>1. RememberedFirst(pairs) \in Bindings
      BY <2>2 DEF RememberedFirst, Bindings
    <3>2. PairsBind(pairs) \in Bindings
      BY <2>2, PairsAreBindings
    <3> QED BY <2>2, <3>1, <3>2, OverlayTyped
  <2> QED BY <1>3, <2>1, <2>2 DEF EnterContext, PairsBind
<1>4. ASSUME NEW n \in DOMAIN contexts, ExitContext(n) PROVE ConfigTyped'
  <2>1. contexts[n] \in Bindings
    OBVIOUS
  <2> QED BY <1>4, <2>1, OverlayTyped, WithoutTyped DEF ExitContext
<1>5. CASE UNCHANGED configVars
  BY <1>5 DEF configVars
<1> QED BY <1>1, <1>2, <1>3, <1>4, <1>5 DEF ConfigNext

LEMMA AlwaysTyped == Spec => []ConfigTyped
<1>1. Init => ConfigTyped
  BY ConfigAssumption DEF Init, ConfigInit, ConfigTyped, ConfigAssumption
<1>2. ConfigTyped /\ [Next]_vars => ConfigTyped'
  BY NextTyped, SettingsSteps
<1> QED BY <1>1, <1>2, PTL DEF Spec

LEMMA InitRefines == ConfigInit => Scoped!Init
<1> SUFFICES ASSUME ConfigInit PROVE Scoped!Init
  OBVIOUS
<1>1. \A key \in Keys : Under(0, key) = config[key]
  BY UnderTop DEF ConfigInit, Top
<1>2. [key \in Keys |-> Under(0, key)] = Default
  BY <1>1, ConfigAssumption DEF ConfigInit, ConfigAssumption
<1> QED BY <1>2 DEF Scoped!Init, ConfigInit

LEMMA StepRefines ==
    ASSUME Nested, ConfigTyped, [ConfigNext]_configVars
    PROVE  [Scoped!Next]_(Scoped!vars)
<1>1. ASSUME NEW setting \in Settings, set_config(setting[1], setting[2])
      PROVE  [Scoped!Next]_(Scoped!vars)
  <2>1. CASE setting[1] \in Keys
    <3> DEFINE new == [bound \in {setting[1]} |-> setting[2]]
    <3>1. config' = Overlay(new, config) /\ contexts' = contexts
      BY <1>1, <2>1 DEF set_config, Overlay, ConfigTyped
    <3>2. setting[2] \in Values
      BY ConfigAssumption DEF ConfigAssumption
    <3>3. Scoped!Assign(new)
      BY <3>1, AssignRefines
    <3> QED BY <2>1, <3>2, <3>3 DEF Scoped!Next
  <2>2. CASE setting[1] \notin Keys
    <3>1. UNCHANGED configVars
      BY <1>1, <2>2 DEF set_config, configVars
    <3> QED BY <3>1 DEF Scoped!vars, configVars, Under
  <2> QED BY <2>1, <2>2
<1>2. CASE reset_config
  BY <1>2, AssignRefines DEF reset_config, Scoped!Next
<1>3. ASSUME NEW pairs \in Arguments, EnterContext(pairs)
      PROVE  [Scoped!Next]_(Scoped!vars)
  <2>1. CASE UNCHANGED configVars
    BY <2>1 DEF Scoped!vars, configVars, Under
  <2>2. CASE /\ KeysOf(pairs) \subseteq Keys
             /\ contexts' = Append(contexts, RememberedFirst(pairs))
             /\ config' = Overlay(PairsBind(pairs), config)
    <3>1. PairsBind(pairs) \in Bindings /\ DOMAIN PairsBind(pairs) = KeysOf(pairs)
      BY <2>2, PairsAreBindings
    <3> QED BY <2>2, <3>1, EnterRefines DEF RememberedFirst
  <2> QED BY <1>3, <2>1, <2>2 DEF EnterContext, PairsBind
<1>4. ASSUME NEW n \in DOMAIN contexts, ExitContext(n)
      PROVE  [Scoped!Next]_(Scoped!vars)
  BY <1>4, ExitRefines
<1>5. CASE UNCHANGED configVars
  BY <1>5 DEF Scoped!vars, configVars, Under
<1> QED BY <1>1, <1>2, <1>3, <1>4, <1>5 DEF ConfigNext

\* The settings of a session are deep bindings, for any keys and values and any
\* depth of contexts, when each context is left before those around it, as with
\* statements are (config_context, set_config, reset_config).
THEOREM SettingsAreScoped == ASSUME Nested PROVE Spec => ScopedSpec
<1>1. Init => Scoped!Init
  BY InitRefines DEF Init
<1>2. ConfigTyped /\ [Next]_vars => [Scoped!Next]_(Scoped!vars)
  BY SettingsSteps, StepRefines
<1> QED BY <1>1, <1>2, AlwaysTyped, PTL DEF Spec, ScopedSpec, Scoped!Spec

----------------------------------------------------------------------------
(***************************************************************************)
(* What is stored.                                                         *)
(***************************************************************************)

Output == [url : Urls, mode : {"rb", "wb", "ab"}, length : Nat, open : BOOLEAN]

\* What OfWholeOutputs says of the chunk at i, for any outputs.
WholeAt(made, content, i) ==
    LET n == content[i][1]
        k == content[i][2]
        first == i - k + 1
        size == IF n = 0 THEN 1 ELSE made[n].length
    IN  /\ first >= 1 /\ first + size - 1 <= Len(content)
        /\ \A j \in 1 .. size : content[first + j - 1] = <<n, j>>
        /\ n # 0 => ~ made[n].open

WholeIn(made, content) == \A i \in DOMAIN content : WholeAt(made, content, i)

\* A sequence of chunks of outputs that were opened, and of whole ones.
Typed(made, content) == content \in Seq((0 .. Len(made)) \X Nat)

Sound(made, content) ==
    /\ Typed(made, content)
    /\ WholeIn(made, content)

StorageInv ==
    /\ outputs \in Seq(Output)
    /\ \A place \in DOMAIN files : Sound(outputs, files[place])
    /\ \A place \in DOMAIN cache : Sound(outputs, cache[place])
    /\ \A n \in DOMAIN streams : Sound(outputs, streams[n].content)

LEMMA SoundIsWhole == StorageInv => OutputsAreWhole
BY DEF StorageInv, Sound, WholeIn, WholeAt, OutputsAreWhole, OfWholeOutputs

----------------------------------------------------------------------------
\* Contents

LEMMA EmptySound == ASSUME NEW made PROVE Sound(made, <<>>)
BY DEF Sound, Typed, WholeIn

\* What is whole stays so when the outputs that are closed stay as they are.
LEMMA SoundKept ==
    ASSUME NEW made \in Seq(Output), NEW later \in Seq(Output), Len(later) >= Len(made),
           \A n \in DOMAIN made : ~ made[n].open => later[n] = made[n],
           NEW content, Sound(made, content)
    PROVE  Sound(later, content)
<1>1. Typed(later, content)
  <2>1. (0 .. Len(made)) \X Nat \subseteq (0 .. Len(later)) \X Nat
    OBVIOUS
  <2> QED BY <2>1, SeqMonotonic DEF Sound, Typed
<1>2. WholeIn(later, content)
  <2> SUFFICES ASSUME NEW i \in DOMAIN content
               PROVE  content[i][1] # 0 => later[content[i][1]] = made[content[i][1]]
    BY DEF Sound, WholeIn, WholeAt
  <2>1. content[i][1] \in 0 .. Len(made)
    BY DEF Sound, Typed
  <2>2. content[i][1] # 0 => ~ made[content[i][1]].open
    BY DEF Sound, WholeIn, WholeAt
  <2> QED BY <2>1, <2>2
<1> QED BY <1>1, <1>2 DEF Sound

\* content holds part from an offset on.
Holds(content, offset, part) ==
    /\ Len(content) \in Nat /\ offset \in Nat /\ offset + Len(part) <= Len(content)
    /\ \A x \in 1 .. Len(part) : content[offset + x] = part[x]

LEMMA ChunkTyped ==
    ASSUME NEW made \in Seq(Output), NEW part, Typed(made, part), NEW i \in DOMAIN part
    PROVE  /\ Len(part) \in Nat /\ DOMAIN part = 1 .. Len(part)
           /\ \E n \in 0 .. Len(made), k \in Nat : part[i] = <<n, k>>
<1>1. part[i] \in (0 .. Len(made)) \X Nat
  BY DEF Typed
<1>2. \E n \in 0 .. Len(made), k \in Nat : part[i] = <<n, k>>
  BY <1>1
<1> QED BY <1>2 DEF Typed

\* A chunk is as whole in a longer content that holds the content at an offset.
LEMMA WholeWithin ==
    ASSUME NEW made \in Seq(Output), NEW part, Typed(made, part),
           NEW content, NEW offset \in Nat, Holds(content, offset, part),
           NEW i \in DOMAIN part, WholeAt(made, part, i)
    PROVE  WholeAt(made, content, offset + i)
<1>1. PICK n \in 0 .. Len(made), k \in Nat : part[i] = <<n, k>>
  BY ChunkTyped
<1>2. PICK length \in Nat : length = Len(part) /\ DOMAIN part = 1 .. length
  BY ChunkTyped
<1>3. i \in Nat /\ i >= 1 /\ i <= length
  BY <1>2
<1>4. PICK size : size = IF n = 0 THEN 1 ELSE made[n].length
  OBVIOUS
<1>5. size \in Nat
  <2>1. n = 0 \/ made[n] \in Output
    OBVIOUS
  <2> QED BY <1>4, <2>1 DEF Output
<1>6. /\ i - k + 1 >= 1 /\ i - k + 1 + size - 1 <= length
      /\ \A j \in 1 .. size : part[i - k + 1 + j - 1] = <<n, j>>
      /\ n # 0 => ~ made[n].open
  BY <1>1, <1>2, <1>4 DEF WholeAt
<1>7. content[offset + i] = <<n, k>> /\ Len(content) \in Nat /\ offset + length <= Len(content)
  BY <1>1, <1>2, <1>3 DEF Holds
<1>8. ASSUME NEW j \in 1 .. size
      PROVE  content[(offset + i) - k + 1 + j - 1] = <<n, j>>
  <2>1. i - k + 1 + j - 1 \in 1 .. length
    BY <1>3, <1>5, <1>6
  <2>2. (offset + i) - k + 1 + j - 1 = offset + (i - k + 1 + j - 1)
    BY <1>3, <1>5
  <2>3. content[offset + (i - k + 1 + j - 1)] = part[i - k + 1 + j - 1]
    BY <1>2, <2>1 DEF Holds
  <2> QED BY <1>6, <2>2, <2>3
<1>9. (offset + i) - k + 1 >= 1 /\ (offset + i) - k + 1 + size - 1 <= Len(content)
  <2>1. i - k + 1 >= 1 /\ i - k + 1 + size - 1 <= length
    BY <1>6
  <2>2. PICK top \in Nat : top = Len(content)
    BY <1>7
  <2>3. offset + length <= top
    BY <1>7, <2>2
  <2>4. (offset + i) - k + 1 >= 1 /\ (offset + i) - k + 1 + size - 1 <= top
    BY <1>3, <1>5, <2>1, <2>3
  <2> QED BY <2>2, <2>4
<1>10. content[offset + i][1] = n /\ content[offset + i][2] = k
  BY <1>7
<1>11. n # 0 => ~ made[n].open
  BY <1>6
<1> QED BY <1>4, <1>8, <1>9, <1>10, <1>11 DEF WholeAt

\* One content after the other.
LEMMA SoundAppended ==
    ASSUME NEW made \in Seq(Output), NEW a, NEW b, Sound(made, a), Sound(made, b)
    PROVE  Sound(made, a \o b)
<1>1. Typed(made, a) /\ Typed(made, b) /\ WholeIn(made, a) /\ WholeIn(made, b)
  BY DEF Sound
<1>2. /\ Len(a) \in Nat /\ DOMAIN a = 1 .. Len(a) /\ Len(b) \in Nat /\ DOMAIN b = 1 .. Len(b)
      /\ Typed(made, a \o b) /\ Len(a \o b) = Len(a) + Len(b)
      /\ DOMAIN (a \o b) = 1 .. (Len(a) + Len(b))
  BY <1>1 DEF Typed
<1>3. Holds(a \o b, 0, a) /\ Holds(a \o b, Len(a), b)
  BY <1>1, <1>2 DEF Holds, Typed
<1>4. \A i \in DOMAIN a : WholeAt(made, a \o b, 0 + i)
  BY <1>1, <1>3, WholeWithin DEF WholeIn
<1>5. \A i \in DOMAIN b : WholeAt(made, a \o b, Len(a) + i)
  BY <1>1, <1>2, <1>3, WholeWithin DEF WholeIn
<1>6. ASSUME NEW i \in 1 .. (Len(a) + Len(b)) PROVE WholeAt(made, a \o b, i)
  <2>1. CASE i \in DOMAIN a
    BY <1>4, <2>1, <1>2
  <2>2. CASE i \notin DOMAIN a
    <3>1. i - Len(a) \in DOMAIN b /\ Len(a) + (i - Len(a)) = i
      BY <1>2, <2>2
    <3> QED BY <1>5, <3>1
  <2> QED BY <2>1, <2>2
<1> QED BY <1>2, <1>6 DEF Sound, WholeIn

----------------------------------------------------------------------------
\* Reading

LEMMA ContentSound == ASSUME StorageInv, NEW url PROVE Sound(outputs, Content(url))
<1>1. Sound(outputs, Stored(url))
  BY EmptySound DEF StorageInv, Stored
<1> QED BY <1>1 DEF StorageInv, Content, InCache

\* What is read, and what the cache gets of it, is whole; nothing is stored.
LEMMA ReadSound ==
    ASSUME StorageInv, NEW inputs, OpenEach(inputs)
    PROVE  StorageInv'
<1>1. PICK urls : read_to_stream(urls)
  BY DEF OpenEach
<1>2. files' = files /\ outputs' = outputs
  BY DEF OpenEach
<1>3. \A url : Sound(outputs, Content(url))
  BY ContentSound
<1>4. PICK fetched : cache' = [place \in DOMAIN cache \cup fetched |->
                                 IF place \in fetched THEN Content(place[2]) ELSE cache[place]]
  BY <1>1 DEF read_to_stream
<1>5. \A place \in DOMAIN cache' : Sound(outputs', cache'[place])
  BY <1>2, <1>3, <1>4 DEF StorageInv
<1>6. \A n \in DOMAIN streams' : Sound(outputs', streams'[n].content)
  BY <1>1, <1>2, ContentSound DEF read_to_stream
<1> QED BY <1>2, <1>5, <1>6 DEF StorageInv

----------------------------------------------------------------------------
\* Writing

\* A step that leaves the closed outputs as they are, and stores nothing torn.
LEMMA WriteSound ==
    ASSUME StorageInv, outputs' \in Seq(Output), Len(outputs') >= Len(outputs),
           \A n \in DOMAIN outputs : ~ outputs[n].open => outputs'[n] = outputs[n],
           files' = files \/ \E url, content : Sound(outputs', content) /\ Store(url, content),
           UNCHANGED <<cache, streams>>
    PROVE  StorageInv'
<1>1. \A content : Sound(outputs, content) => Sound(outputs', content)
  BY SoundKept DEF StorageInv
<1>2. \A at \in DOMAIN files : Sound(outputs', files[at])
  BY <1>1 DEF StorageInv
<1>3. \A at \in DOMAIN files' : Sound(outputs', files'[at])
  <2>1. CASE files' = files
    BY <1>2, <2>1
  <2>2. ASSUME NEW url, NEW content, Sound(outputs', content), Store(url, content)
        PROVE  \A at \in DOMAIN files' : Sound(outputs', files'[at])
    BY <1>2, <2>2 DEF Store
  <2> QED BY <2>1, <2>2
<1> QED BY <1>1, <1>3 DEF StorageInv

LEMMA OpenForWritingSound ==
    ASSUME StorageInv, NEW input \in Inputs, NEW mode \in {"wb", "ab"},
           OpenForWriting(input, mode)
    PROVE  StorageInv'
<1> DEFINE opened == [url |-> input.url, mode |-> mode, length |-> 0, open |-> TRUE]
<1>1. opened \in Output
  BY StorageAssumption DEF StorageAssumption, Input, Output
<1>2. outputs' = outputs \/ outputs' = Append(outputs, opened)
  BY DEF OpenForWriting
<1> HIDE DEF opened
<1>3. /\ outputs' \in Seq(Output) /\ Len(outputs') >= Len(outputs)
      /\ \A n \in DOMAIN outputs : outputs'[n] = outputs[n]
  BY <1>1, <1>2 DEF StorageInv
<1> QED BY <1>3, WriteSound DEF OpenForWriting

LEMMA WriteChunkSound ==
    ASSUME StorageInv, NEW n \in DOMAIN outputs, Write(n)
    PROVE  StorageInv'
<1>1. outputs[n] \in Output
  BY DEF StorageInv
<1> DEFINE longer == [outputs[n] EXCEPT !.length = @ + 1]
<1>2. longer \in Output
  BY <1>1 DEF Output
<1>3. outputs' = [outputs EXCEPT ![n] = longer] /\ outputs[n].open
  BY DEF Write
<1> HIDE DEF longer
<1>4. /\ outputs' \in Seq(Output) /\ Len(outputs') >= Len(outputs)
      /\ \A m \in DOMAIN outputs : ~ outputs[m].open => outputs'[m] = outputs[m]
  BY <1>2, <1>3 DEF StorageInv
<1> QED BY <1>4, WriteSound DEF Write

\* All chunks of an output make a whole, once it is closed.
LEMMA ChunksSound ==
    ASSUME NEW made \in Seq(Output), NEW n \in DOMAIN made, ~ made[n].open,
           NEW length, length = made[n].length
    PROVE  Sound(made, [k \in 1 .. length |-> <<n, k>>])
<1> DEFINE chunks == [k \in 1 .. length |-> <<n, k>>]
<1>1. length \in Nat /\ n \in 1 .. Len(made)
  <2>1. made[n] \in Output /\ n \in 1 .. Len(made)
    OBVIOUS
  <2> QED BY <2>1 DEF Output
<1>2. Typed(made, chunks) /\ Len(chunks) = length /\ DOMAIN chunks = 1 .. length
  <2>1. \A k \in 1 .. length : chunks[k] \in (0 .. Len(made)) \X Nat
    BY <1>1
  <2> QED BY <1>1, <2>1 DEF Typed
<1>3. ASSUME NEW i \in 1 .. length PROVE WholeAt(made, chunks, i)
  <2>1. chunks[i][1] = n /\ chunks[i][2] = i
    OBVIOUS
  <2>2. \A j \in 1 .. length : i - i + 1 + j - 1 = j /\ chunks[j] = <<n, j>>
    BY <1>1
  <2> HIDE DEF chunks
  <2> QED BY <1>1, <1>2, <2>1, <2>2 DEF WholeAt
<1> QED BY <1>2, <1>3 DEF Sound, WholeIn

LEMMA CloseOutputSound ==
    ASSUME StorageInv, NEW n \in DOMAIN outputs, CloseOutput(n)
    PROVE  StorageInv'
<1> DEFINE closed == [outputs[n] EXCEPT !.open = FALSE]
<1>1. outputs[n] \in Output /\ outputs[n].open
  BY DEF StorageInv, CloseOutput
<1>2. closed \in Output /\ closed.length = outputs[n].length /\ ~ closed.open
  BY <1>1 DEF Output
<1>3. outputs' = [outputs EXCEPT ![n] = closed]
  BY DEF CloseOutput
<1> HIDE DEF closed
<1>4. /\ outputs' \in Seq(Output) /\ Len(outputs') = Len(outputs) /\ n \in DOMAIN outputs'
      /\ outputs'[n] = closed
      /\ \A m \in DOMAIN outputs : ~ outputs[m].open => outputs'[m] = outputs[m]
  BY <1>1, <1>2, <1>3 DEF StorageInv
<1>5. Sound(outputs', Chunks(n))
  BY <1>2, <1>4, ChunksSound DEF Chunks
<1>6. \A url : Sound(outputs', Stored(url) \o Chunks(n))
  <2>1. \A url : Sound(outputs, Stored(url))
    BY EmptySound DEF StorageInv, Stored
  <2>2. \A url : Sound(outputs', Stored(url))
    BY <1>4, <2>1, SoundKept DEF StorageInv
  <2> QED BY <1>4, <1>5, <2>2, SoundAppended
<1>7. files' = files \/ \E url, content : Sound(outputs', content) /\ Store(url, content)
  <2>1. CASE write_from_stream(outputs[n].url, outputs[n].mode, Chunks(n))
    BY <1>5, <1>6, <2>1 DEF write_from_stream
  <2> QED BY <2>1 DEF CloseOutput
<1>8. Len(outputs') >= Len(outputs) /\ UNCHANGED <<cache, streams>>
  BY <1>4 DEF CloseOutput, StorageInv
<1> QED BY <1>4, <1>7, <1>8, WriteSound

LEMMA PublishSound ==
    ASSUME StorageInv, NEW url \in Urls, Publish(url)
    PROVE  StorageInv'
<1> DEFINE published == [url |-> url, mode |-> "wb", length |-> 1, open |-> FALSE]
<1>1. published \in Output /\ ~ published.open /\ published.length = 1
  BY DEF Output
<1>2. outputs' = Append(outputs, published)
  BY DEF Publish
<1> HIDE DEF published
<1>3. PICK last \in Nat : last = Len(outputs) + 1
  BY DEF StorageInv
<1>4. /\ outputs' \in Seq(Output) /\ Len(outputs') >= Len(outputs) /\ last \in DOMAIN outputs'
      /\ outputs'[last] = published
      /\ \A m \in DOMAIN outputs : outputs'[m] = outputs[m]
  BY <1>1, <1>2, <1>3 DEF StorageInv
<1>5. Sound(outputs', [k \in 1 .. 1 |-> <<last, k>>])
  BY <1>1, <1>4, ChunksSound
<1>6. [k \in 1 .. 1 |-> <<last, k>>] = <<<<last, 1>>>>
  OBVIOUS
<1>7. Store(url, <<<<last, 1>>>>) /\ UNCHANGED <<cache, streams>>
  BY <1>3 DEF Publish
<1> QED BY <1>4, <1>5, <1>6, <1>7, WriteSound

----------------------------------------------------------------------------
\* A session

\* The settings and the dataset do not enter into it.
LEMMA StorageUnchanged == ASSUME StorageInv, UNCHANGED storageVars PROVE StorageInv'
BY DEF StorageInv, storageVars

LEMMA NextSound == ASSUME StorageInv, [Next]_vars PROVE StorageInv'
<1>1. CASE Configure
  BY <1>1, StorageUnchanged DEF Configure
<1>2. ASSUME NEW input \in Inputs, NEW mode \in {"rb", "wb", "ab"}, OpenInPlace(input, mode)
      PROVE  StorageInv'
  BY <1>2, StorageUnchanged DEF OpenInPlace
<1>3. ASSUME NEW input \in Inputs, OpenForReading(input) PROVE StorageInv'
  BY <1>3, ReadSound DEF OpenForReading
<1>4. ASSUME NEW items \in Lists, ReadEach(items) PROVE StorageInv'
  BY <1>4, ReadSound DEF ReadEach
<1>5. ASSUME NEW call \in Calls, Load(call) PROVE StorageInv'
  BY <1>5, ReadSound DEF Load
<1>6. CASE UseStorage
  BY <1>2, <1>3, <1>4, <1>6, OpenForWritingSound, WriteChunkSound, CloseOutputSound,
     PublishSound DEF UseStorage
<1>7. CASE UseDataset
  BY <1>5, <1>7, StorageUnchanged DEF UseDataset, TransformToSystem, TransformToDimensions,
                                     TransformToOpposite, ChangeTo
<1>8. CASE UNCHANGED vars
  BY <1>8, StorageUnchanged DEF vars, storageVars
<1> QED BY <1>1, <1>6, <1>7, <1>8 DEF Next

LEMMA InitSound == Init => StorageInv
<1> SUFFICES ASSUME Init PROVE StorageInv
  OBVIOUS
<1>1. /\ outputs = <<>> /\ cache = [place \in {} |-> <<>>] /\ streams = <<>>
      /\ files = [place \in Published |-> <<<<0, 1>>>>]
  BY DEF Init, StorageInit
<1>2. Sound(outputs, <<<<0, 1>>>>)
  <2>1. WholeAt(outputs, <<<<0, 1>>>>, 1)
    BY DEF WholeAt
  <2>2. Typed(outputs, <<<<0, 1>>>>)
    <3>1. <<0, 1>> \in (0 .. Len(outputs)) \X Nat
      BY <1>1
    <3> QED BY <3>1 DEF Typed
  <2> QED BY <2>1, <2>2 DEF Sound, WholeIn
<1> QED BY <1>1, <1>2 DEF StorageInv

\* No torn data: what is stored, cached or was read is made of whole outputs,
\* whichever outputs were open at the same time and whatever was read in between
\* (_write_context_manager, FSSpecAdapter).
THEOREM NothingTorn == Spec => []OutputsAreWhole
<1>1. StorageInv /\ [Next]_vars => StorageInv'
  BY NextSound
<1> QED BY <1>1, InitSound, SoundIsWhole, PTL DEF Spec

\* Only the cache makes a read stale: a content other than the one stored now was in
\* the cache the settings name now, and its URL is one of a server.
LEMMA ReadFreshOrCached ==
    ASSUME NEW inputs, OpenEach(inputs), NEW n \in DOMAIN streams',
           streams'[n].content # Stored(streams'[n].url)
    PROVE  /\ Scheme[streams'[n].url] \in Remote
           /\ Entry(streams'[n].url) \in DOMAIN cache
           /\ cache[Entry(streams'[n].url)] = streams'[n].content
<1>1. PICK urls : read_to_stream(urls)
  BY DEF OpenEach
<1>2. streams'[n].content = Content(streams'[n].url)
  BY <1>1 DEF read_to_stream
<1> QED BY <1>2 DEF Content, InCache, Cached

\* Only the cache makes a read stale (FileAdapter and ZipAdapter read without it, S3
\* and HTTP through it), whatever was written, published and read before.
THEOREM ReadsFresh == Spec => StaleOnlyFromCache
<1> DEFINE Fresh == \A n \in DOMAIN streams' :
                        streams' # streams /\ streams'[n].content # Stored(streams'[n].url) =>
                            /\ Scheme[streams'[n].url] \in Remote
                            /\ Entry(streams'[n].url) \in DOMAIN cache
                            /\ cache[Entry(streams'[n].url)] = streams'[n].content
<1>1. ASSUME [Next]_vars PROVE [Fresh]_<<streams>>
  <2> DEFINE Read == \E inputs : OpenEach(inputs)
  <2>1. UNCHANGED streams \/ Read
    <3>1. CASE Configure
      BY <3>1 DEF Configure, storageVars
    <3>2. ASSUME NEW input, OpenForReading(input) PROVE Read
      BY <3>2 DEF OpenForReading
    <3>3. ASSUME NEW items, ReadEach(items) PROVE Read
      BY <3>3 DEF ReadEach
    <3>4. ASSUME NEW call, Load(call) PROVE Read
      BY <3>4 DEF Load
    <3> HIDE DEF Read
    <3>5. CASE UseStorage
      BY <3>2, <3>3, <3>5 DEF UseStorage, OpenInPlace, OpenForWriting, Write, CloseOutput,
                              Publish, storageVars
    <3>6. CASE UseDataset
      BY <3>4, <3>6 DEF UseDataset, TransformToSystem, TransformToDimensions,
                        TransformToOpposite, ChangeTo, storageVars
    <3>7. CASE UNCHANGED vars
      BY <3>7 DEF vars, storageVars
    <3> QED BY <1>1, <3>1, <3>5, <3>6, <3>7 DEF Next
  <2>2. ASSUME NEW inputs, OpenEach(inputs) PROVE Fresh
    BY <2>2, ReadFreshOrCached
  <2> QED BY <2>1, <2>2
<1> QED BY <1>1, PTL DEF Spec, StaleOnlyFromCache
=================================================================================
