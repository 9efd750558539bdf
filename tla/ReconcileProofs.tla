-------------------------- MODULE ReconcileProofs --------------------------
(***************************************************************************)
(* What the matching of Reconcile computes, and what a reconciliation of    *)
(* MCReconcile does, for stores and lists of machines of any length.  The   *)
(* recursion over the store is unfolded with the least-number principle.    *)
(***************************************************************************)
EXTENDS MCReconcile, SequenceLemmas

\* Machines are told apart by their ids.
Distinct(actual) ==
    /\ \A m, n \in DOMAIN actual : actual[m].id = actual[n].id => m = n
    /\ \A n \in DOMAIN actual : actual[n].id # NoProfile

\* Connections are records with the fields that the matching reads or sets.
Records(stored) ==
    \A i \in DOMAIN stored : {"label", "target", "profile"} \subseteq DOMAIN stored[i]

Reserved(stored, actual) == UNION {ById(stored, actual, k) : k \in DOMAIN stored}

\* The machines that connection i may fall back on, and the one it takes, when
\* those before it took pair.
Free(stored, actual, pair, i) ==
    {n \in DOMAIN actual \ Reserved(stored, actual) :
        /\ SameSetting(stored[i], actual[n])
        /\ \A k \in 1 .. i - 1 : n \notin pair[k]}

Take(stored, actual, pair, i) ==
    IF ById(stored, actual, i) # {} THEN ById(stored, actual, i)
    ELSE {n \in Free(stored, actual, pair, i) :
            \A m \in Free(stored, actual, pair, i) : n <= m}

\* pair is the matching of the first n connections.
Matches(stored, actual, n, pair) ==
    pair = [i \in 1 .. n |-> Take(stored, actual, pair, i)]

-----------------------------------------------------------------------------
(* The recursion is well defined *)

\* What a connection takes depends on those before it only.
LEMMA TakeLooksBack ==
    ASSUME NEW stored, NEW actual, NEW i, NEW f, NEW g,
           \A k \in 1 .. i - 1 : f[k] = g[k]
    PROVE  Take(stored, actual, f, i) = Take(stored, actual, g, i)
<1>1. Free(stored, actual, f, i) = Free(stored, actual, g, i)
  BY DEF Free
<1> QED
  BY <1>1 DEF Take

LEMMA MatchingExists ==
    ASSUME NEW stored, NEW actual, NEW length \in Nat
    PROVE  \E pair : Matches(stored, actual, length, pair)
<1> DEFINE Missing == {n \in Nat : ~ \E pair : Matches(stored, actual, n, pair)}
<1>1. SUFFICES Missing = {}
  OBVIOUS
<1>2. SUFFICES ASSUME Missing # {} PROVE FALSE
  OBVIOUS
<1>3. PICK n \in Missing : \A k \in Missing : n <= k
  <2>1. Missing \subseteq Nat
    OBVIOUS
  <2> HIDE DEF Missing
  <2> QED
    BY <1>2, <2>1, HasLeast
<1>4. CASE n = 0
  <2>1. PICK empty : empty = [i \in 1 .. 0 |-> {}]
    OBVIOUS
  <2>2. Matches(stored, actual, 0, empty)
    BY <2>1 DEF Matches
  <2> QED
    BY <1>4, <2>2
<1>5. CASE n # 0
  <2>1. n \in Nat /\ n - 1 \in Nat /\ n - 1 \notin Missing
    BY <1>3, <1>5
  <2>2. PICK f : Matches(stored, actual, n - 1, f)
    BY <2>1
  <2>3. PICK g : g = [i \in 1 .. n |-> IF i = n THEN Take(stored, actual, f, n) ELSE f[i]]
    OBVIOUS
  <2>4. ASSUME NEW i \in 1 .. n PROVE g[i] = Take(stored, actual, g, i)
    <3>1. \A k \in 1 .. i - 1 : f[k] = g[k]
      BY <2>1, <2>3
    <3>2. Take(stored, actual, f, i) = Take(stored, actual, g, i)
      BY <3>1, TakeLooksBack
    <3>3. CASE i = n
      BY <2>3, <3>2, <3>3
    <3>4. CASE i # n
      <4>1. i \in 1 .. n - 1
        BY <2>1, <3>4
      <4>2. g[i] = f[i] /\ f[i] = Take(stored, actual, f, i)
        BY <2>2, <2>3, <3>4, <4>1 DEF Matches
      <4> QED
        BY <3>2, <4>2
    <3> QED
      BY <3>3, <3>4
  <2>5. Matches(stored, actual, n, g)
    BY <2>3, <2>4 DEF Matches
  <2> QED
    BY <1>3, <2>5
<1> QED
  BY <1>4, <1>5

\* Pairing satisfies the equation it is defined by.
LEMMA PairingUnfolds ==
    ASSUME NEW S, NEW stored \in Seq(S), NEW actual
    PROVE  Pairing(stored, actual) =
              [i \in DOMAIN stored |-> Take(stored, actual, Pairing(stored, actual), i)]
<1>1. Len(stored) \in Nat /\ DOMAIN stored = 1 .. Len(stored)
  OBVIOUS
<1>2. \E pair : pair = [i \in DOMAIN stored |-> Take(stored, actual, pair, i)]
  <2>1. PICK pair : Matches(stored, actual, Len(stored), pair)
    BY <1>1, MatchingExists
  <2>2. pair = [i \in DOMAIN stored |-> Take(stored, actual, pair, i)]
    BY <1>1, <2>1 DEF Matches
  <2> QED
    BY <2>2
<1>3. Pairing(stored, actual) =
        CHOOSE pair : pair = [i \in DOMAIN stored |-> Take(stored, actual, pair, i)]
  BY DEF Pairing, Take, Free, Reserved
<1> QED
  BY <1>2, <1>3

-----------------------------------------------------------------------------
(* What the matching is *)

LEMMA IdHeldOnce ==
    ASSUME NEW S, NEW stored \in Seq(S), NEW T, NEW actual \in Seq(T), Distinct(actual),
           NEW i \in DOMAIN stored
    PROVE  /\ ById(stored, actual, i) \subseteq DOMAIN actual
           /\ \A m, n \in ById(stored, actual, i) : m = n
           /\ \A k \in DOMAIN stored :
                i # k => ById(stored, actual, i) \cap ById(stored, actual, k) = {}
<1>1. DOMAIN stored = 1 .. Len(stored) /\ Len(stored) \in Nat
  OBVIOUS
<1>2. ById(stored, actual, i) \subseteq DOMAIN actual
  BY DEF ById
<1>3. \A m, n \in ById(stored, actual, i) : m = n
  BY DEF ById, Distinct
<1>4. ASSUME NEW k \in DOMAIN stored, i # k,
             NEW n \in ById(stored, actual, i), n \in ById(stored, actual, k)
      PROVE  FALSE
  <2>1. stored[i].profile = actual[n].id /\ stored[k].profile = actual[n].id
    BY <1>4 DEF ById
  <2>2. i < k \/ k < i
    BY <1>1, <1>4
  <2>3. CASE i < k
    <3>1. i \in 1 .. k - 1
      BY <1>1, <2>3
    <3> QED
      BY <1>4, <2>1, <3>1 DEF ById
  <2>4. CASE k < i
    <3>1. k \in 1 .. i - 1
      BY <1>1, <2>4
    <3> QED
      BY <1>4, <2>1, <3>1 DEF ById
  <2> QED
    BY <2>2, <2>3, <2>4
<1> QED
  BY <1>2, <1>3, <1>4

\* A fallback takes a machine that nobody holds by its endpoint id and that no
\* earlier connection took.
LEMMA FallbackIsFree ==
    ASSUME NEW S, NEW stored \in Seq(S), NEW T, NEW actual \in Seq(T),
           NEW i \in DOMAIN stored, ById(stored, actual, i) = {},
           NEW n \in Pairing(stored, actual)[i]
    PROVE  /\ n \in DOMAIN actual
           /\ \A k \in DOMAIN stored : n \notin ById(stored, actual, k)
           /\ SameSetting(stored[i], actual[n])
           /\ \A k \in 1 .. i - 1 : n \notin Pairing(stored, actual)[k]
           /\ \A m \in Pairing(stored, actual)[i] : m = n
<1> DEFINE pair == Pairing(stored, actual)
<1>1. pair[i] = Take(stored, actual, pair, i)
  BY PairingUnfolds
<1> HIDE DEF pair
<1>2. pair[i] = {m \in Free(stored, actual, pair, i) :
                    \A k \in Free(stored, actual, pair, i) : m <= k}
  BY <1>1 DEF Take
<1>3. n \in pair[i]
  BY DEF pair
<1>4. n \in Free(stored, actual, pair, i)
  BY <1>2, <1>3
<1>5. Free(stored, actual, pair, i) \subseteq Nat
  BY DEF Free
<1>6. \A m \in pair[i] : m = n
  BY <1>2, <1>3, <1>5
<1>7. /\ n \in DOMAIN actual
      /\ \A k \in DOMAIN stored : n \notin ById(stored, actual, k)
      /\ SameSetting(stored[i], actual[n])
      /\ \A k \in 1 .. i - 1 : n \notin pair[k]
  BY <1>4 DEF Free, Reserved
<1> QED
  BY <1>6, <1>7 DEF pair

\* A connection that holds its machine by the endpoint id pairs with it: no
\* fallback of another takes it.
THEOREM HolderPairs ==
    ASSUME NEW S, NEW stored \in Seq(S), NEW actual,
           NEW i \in DOMAIN stored, ById(stored, actual, i) # {}
    PROVE  Pairing(stored, actual)[i] = ById(stored, actual, i)
<1>1. Pairing(stored, actual)[i] = Take(stored, actual, Pairing(stored, actual), i)
  BY PairingUnfolds
<1> QED
  BY <1>1 DEF Take

\* The matching is one to one: a connection pairs with at most one machine and
\* no machine pairs with two connections.
THEOREM PairsOneToOne ==
    ASSUME NEW S, NEW stored \in Seq(S), NEW T, NEW actual \in Seq(T), Distinct(actual),
           NEW i \in DOMAIN stored, NEW n \in Pairing(stored, actual)[i]
    PROVE  /\ n \in DOMAIN actual
           /\ \A m \in Pairing(stored, actual)[i] : m = n
           /\ \A k \in DOMAIN stored : n \in Pairing(stored, actual)[k] => k = i
<1> DEFINE pair == Pairing(stored, actual)
<1>1. DOMAIN stored = 1 .. Len(stored) /\ Len(stored) \in Nat
  OBVIOUS
<1>2. n \in DOMAIN actual /\ \A m \in pair[i] : m = n
  <2>1. CASE ById(stored, actual, i) # {}
    BY <2>1, HolderPairs, IdHeldOnce
  <2>2. CASE ById(stored, actual, i) = {}
    BY <2>2, FallbackIsFree
  <2> QED
    BY <2>1, <2>2
<1>3. ASSUME NEW j \in DOMAIN stored, NEW k \in DOMAIN stored, j < k,
             n \in pair[j], n \in pair[k]
      PROVE  FALSE
  <2>1. j \in 1 .. k - 1
    BY <1>1, <1>3
  <2>2. CASE ById(stored, actual, k) = {}
    BY <1>3, <2>1, <2>2, FallbackIsFree
  <2>3. CASE ById(stored, actual, k) # {} /\ ById(stored, actual, j) = {}
    <3>1. n \in ById(stored, actual, k)
      BY <1>3, <2>3, HolderPairs
    <3> QED
      BY <1>3, <2>3, <3>1, FallbackIsFree
  <2>4. CASE ById(stored, actual, k) # {} /\ ById(stored, actual, j) # {}
    <3>1. n \in ById(stored, actual, k) /\ n \in ById(stored, actual, j)
      BY <1>3, <2>4, HolderPairs
    <3> QED
      BY <1>1, <1>3, <3>1, IdHeldOnce
  <2> QED
    BY <2>2, <2>3, <2>4
<1>4. ASSUME NEW k \in DOMAIN stored, n \in pair[k] PROVE k = i
  <2>1. n \in pair[i]
    OBVIOUS
  <2>2. ~ (k < i) /\ ~ (i < k)
    BY <1>3, <1>4, <2>1
  <2> QED
    BY <1>1, <2>2
<1> QED
  BY <1>2, <1>4

-----------------------------------------------------------------------------
(* What it makes of the store *)

\* The endpoint id that a connection gets is that of the machine it paired with.
LEMMA PairedProfile ==
    ASSUME NEW S, NEW stored \in Seq(S), NEW T, NEW actual \in Seq(T),
           Distinct(actual), Records(stored), NEW i \in DOMAIN stored
    PROVE  /\ \A n \in Pairing(stored, actual)[i] :
                Paired(stored, actual)[i].profile = actual[n].id
           /\ Pairing(stored, actual)[i] = {} =>
                Paired(stored, actual)[i].profile = NoProfile
           /\ Paired(stored, actual)[i].label = stored[i].label
           /\ Paired(stored, actual)[i].target = stored[i].target
           /\ DOMAIN Paired(stored, actual)[i] = DOMAIN stored[i]
<1> DEFINE pair == Pairing(stored, actual)
           profile == IF pair[i] = {} THEN NoProfile
                      ELSE actual[CHOOSE n \in pair[i] : TRUE].id
<1>1. Paired(stored, actual)[i] = [stored[i] EXCEPT !.profile = profile]
  BY DEF Paired
<1>2. {"label", "target", "profile"} \subseteq DOMAIN stored[i]
  BY DEF Records
<1>3. \A n \in pair[i] : profile = actual[n].id
  BY PairsOneToOne
<1>4. pair[i] = {} => profile = NoProfile
  OBVIOUS
<1> HIDE DEF profile, pair
<1>5. /\ Paired(stored, actual)[i].profile = profile
      /\ Paired(stored, actual)[i].label = stored[i].label
      /\ Paired(stored, actual)[i].target = stored[i].target
      /\ DOMAIN Paired(stored, actual)[i] = DOMAIN stored[i]
  BY <1>1, <1>2
<1> QED
  BY <1>3, <1>4, <1>5 DEF pair

\* Claims after a reconciliation are of machines that exist, and no two
\* connections claim the same one, whatever the store held before.
THEOREM ClaimsExistOnce ==
    ASSUME NEW S, NEW stored \in Seq(S), NEW T, NEW actual \in Seq(T),
           Distinct(actual), Records(stored), NEW i \in DOMAIN stored,
           Paired(stored, actual)[i].profile # NoProfile
    PROVE  /\ \E n \in DOMAIN actual : Paired(stored, actual)[i].profile = actual[n].id
           /\ \A k \in DOMAIN stored :
                Paired(stored, actual)[k].profile = Paired(stored, actual)[i].profile
                    => k = i
<1>1. PICK n \in Pairing(stored, actual)[i] : TRUE
  BY PairedProfile
<1>2. n \in DOMAIN actual /\ Paired(stored, actual)[i].profile = actual[n].id
  BY PairedProfile, PairsOneToOne
<1>3. ASSUME NEW k \in DOMAIN stored,
             Paired(stored, actual)[k].profile = Paired(stored, actual)[i].profile
      PROVE  k = i
  <2>1. PICK m \in Pairing(stored, actual)[k] : TRUE
    BY <1>3, PairedProfile
  <2>2. m \in DOMAIN actual /\ Paired(stored, actual)[k].profile = actual[m].id
    BY PairedProfile, PairsOneToOne
  <2>3. m = n
    BY <1>2, <1>3, <2>2 DEF Distinct
  <2> QED
    BY <1>1, <2>1, <2>3, PairsOneToOne
<1> QED
  BY <1>2, <1>3

\* A connection keeps the machine whose endpoint id it holds, unless one
\* before it claimed the same.
THEOREM HolderKeeps ==
    ASSUME NEW S, NEW stored \in Seq(S), NEW T, NEW actual \in Seq(T),
           Distinct(actual), Records(stored), NEW i \in DOMAIN stored,
           NEW n \in DOMAIN actual, stored[i].profile = actual[n].id,
           \A k \in 1 .. i - 1 : stored[k].profile # stored[i].profile
    PROVE  Paired(stored, actual)[i].profile = stored[i].profile
<1>1. n \in ById(stored, actual, i)
  BY DEF ById, Distinct
<1>2. n \in Pairing(stored, actual)[i]
  BY <1>1, HolderPairs
<1> QED
  BY <1>2, PairedProfile

\* A connection is left without a machine only if every machine with its target
\* and label was taken by another.
THEOREM FallbackIsExhaustive ==
    ASSUME NEW S, NEW stored \in Seq(S), NEW T, NEW actual \in Seq(T),
           NEW i \in DOMAIN stored, Pairing(stored, actual)[i] = {},
           NEW n \in DOMAIN actual, SameSetting(stored[i], actual[n])
    PROVE  \E k \in DOMAIN stored : n \in Pairing(stored, actual)[k]
<1> DEFINE pair == Pairing(stored, actual)
<1>1. pair[i] = Take(stored, actual, pair, i)
  BY PairingUnfolds
<1>2. ById(stored, actual, i) = {}
  BY HolderPairs
<1>3. SUFFICES ASSUME \A k \in DOMAIN stored : n \notin pair[k] PROVE FALSE
  OBVIOUS
<1>4. \A k \in DOMAIN stored : n \notin ById(stored, actual, k)
  BY <1>3, HolderPairs
<1>5. 1 .. i - 1 \subseteq DOMAIN stored
  OBVIOUS
<1>6. n \in Free(stored, actual, pair, i)
  BY <1>3, <1>4, <1>5 DEF Free, Reserved
<1>7. Free(stored, actual, pair, i) \subseteq Nat
  BY DEF Free
<1>8. PICK least \in Free(stored, actual, pair, i) :
        \A m \in Free(stored, actual, pair, i) : least <= m
  BY <1>6, <1>7, HasLeast
<1>9. least \in pair[i]
  BY <1>1, <1>2, <1>8 DEF Take
<1> QED
  BY <1>9

\* A machine that no connection claims afterwards, which is then adopted, is a
\* stranger: no connection of its target and label is left disconnected.
THEOREM AdoptedIsStranger ==
    ASSUME NEW S, NEW stored \in Seq(S), NEW T, NEW actual \in Seq(T),
           Distinct(actual), Records(stored), NEW n \in DOMAIN actual,
           \A k \in DOMAIN stored : Paired(stored, actual)[k].profile # actual[n].id,
           NEW i \in DOMAIN stored, Paired(stored, actual)[i].profile = NoProfile
    PROVE  ~ SameSetting(Paired(stored, actual)[i], actual[n])
<1>1. \A k \in DOMAIN stored : n \notin Pairing(stored, actual)[k]
  BY PairedProfile
<1>2. Pairing(stored, actual)[i] = {}
  <2>1. ASSUME NEW m \in Pairing(stored, actual)[i] PROVE FALSE
    BY PairedProfile, PairsOneToOne DEF Distinct
  <2> QED
    BY <2>1
<1>3. ~ SameSetting(stored[i], actual[n])
  BY <1>1, <1>2, FallbackIsExhaustive
<1> QED
  BY <1>3, PairedProfile DEF SameSetting

\* A second reconciliation of the same store and machines corrects nothing, so
\* the poll settles: what it wrote is what it would write again.
THEOREM ReconcilesOnce ==
    ASSUME NEW S, NEW stored \in Seq(S), NEW T, NEW actual \in Seq(T),
           Distinct(actual), Records(stored)
    PROVE  Paired(Paired(stored, actual), actual) = Paired(stored, actual)
<1> DEFINE pair == Pairing(stored, actual)
           settled == Paired(stored, actual)
           R == {settled[i] : i \in DOMAIN stored}
<1>1. /\ DOMAIN settled = DOMAIN stored
      /\ DOMAIN stored = 1 .. Len(stored)
      /\ Len(stored) \in Nat
  BY DEF Paired
<1>2. settled \in Seq(R)
  <2>1. \A i \in 1 .. Len(stored) : settled[i] \in R
    BY <1>1
  <2>2. settled = [i \in DOMAIN stored |-> settled[i]]
    BY DEF Paired
  <2> HIDE DEF settled, R
  <2>3. settled \in [1 .. Len(stored) -> R]
    BY <1>1, <2>1, <2>2
  <2> QED
    BY <1>1, <2>3
<1>3. Records(settled)
  BY <1>1, PairedProfile DEF Records
<1>4. ASSUME NEW i \in DOMAIN stored PROVE ById(settled, actual, i) = pair[i]
  <2>1. ASSUME NEW n \in pair[i] PROVE n \in ById(settled, actual, i)
    <3>1. n \in DOMAIN actual /\ settled[i].profile = actual[n].id
      BY PairedProfile, PairsOneToOne
    <3>2. settled[i].profile # NoProfile
      BY <3>1 DEF Distinct
    <3>3. \A k \in 1 .. i - 1 : k \in DOMAIN stored /\ k # i
      BY <1>1
    <3>4. \A k \in 1 .. i - 1 : settled[k].profile # actual[n].id
      BY <3>1, <3>2, <3>3, ClaimsExistOnce
    <3> HIDE DEF settled, pair
    <3> QED
      BY <3>1, <3>2, <3>4 DEF ById
  <2>2. ASSUME NEW n \in ById(settled, actual, i) PROVE n \in pair[i]
    <3>1. n \in DOMAIN actual /\ settled[i].profile = actual[n].id
          /\ settled[i].profile # NoProfile
      BY <2>2 DEF ById
    <3>2. PICK m \in pair[i] : TRUE
      BY <3>1, PairedProfile
    <3>3. m \in DOMAIN actual /\ settled[i].profile = actual[m].id
      BY <3>2, PairedProfile, PairsOneToOne
    <3>4. m = n
      BY <3>1, <3>3 DEF Distinct
    <3> QED
      BY <3>2, <3>4
  <2> QED
    BY <2>1, <2>2
<1>5. ASSUME NEW i \in DOMAIN stored PROVE Pairing(settled, actual)[i] = pair[i]
  <2>1. CASE pair[i] # {}
    BY <1>1, <1>2, <1>4, <2>1, HolderPairs
  <2>2. CASE pair[i] = {}
    <3>1. SUFFICES ASSUME NEW n \in Pairing(settled, actual)[i] PROVE FALSE
      BY <2>2
    <3>2. ById(settled, actual, i) = {}
      BY <1>4, <2>2
    <3>3. /\ n \in DOMAIN actual
          /\ \A k \in DOMAIN settled : n \notin ById(settled, actual, k)
          /\ SameSetting(settled[i], actual[n])
      BY <1>1, <1>2, <3>2, FallbackIsFree
    <3>4. SameSetting(stored[i], actual[n])
      BY <3>3, PairedProfile DEF SameSetting
    <3>5. PICK k \in DOMAIN stored : n \in pair[k]
      BY <2>2, <3>3, <3>4, FallbackIsExhaustive
    <3> QED
      BY <1>1, <1>4, <3>3, <3>5
  <2> QED
    BY <2>1, <2>2
<1>6. ASSUME NEW i \in DOMAIN stored
      PROVE  Paired(settled, actual)[i].profile = settled[i].profile
  <2>1. CASE pair[i] = {}
    BY <1>1, <1>2, <1>3, <1>5, <2>1, PairedProfile, SMTT(30)
  <2>2. CASE pair[i] # {}
    <3>1. PICK n \in pair[i] : TRUE
      BY <2>2
    <3>2. settled[i].profile = actual[n].id
      BY <3>1, PairedProfile
    <3>3. Paired(settled, actual)[i].profile = actual[n].id
      BY <1>1, <1>2, <1>3, <1>5, <3>1, PairedProfile
    <3> QED
      BY <3>2, <3>3
  <2> QED
    BY <2>1, <2>2
<1>7. ASSUME NEW i \in DOMAIN stored
      PROVE  Paired(settled, actual)[i] = settled[i]
  <2> DEFINE profile == IF Pairing(settled, actual)[i] = {} THEN NoProfile
                        ELSE actual[CHOOSE n \in Pairing(settled, actual)[i] : TRUE].id
  <2>1. Paired(settled, actual)[i] = [settled[i] EXCEPT !.profile = profile]
    BY <1>1 DEF Paired
  <2>2. settled[i] = [stored[i] EXCEPT !.profile = settled[i].profile]
    <3> DEFINE own == IF pair[i] = {} THEN NoProfile
                      ELSE actual[CHOOSE n \in pair[i] : TRUE].id
    <3>1. settled[i] = [stored[i] EXCEPT !.profile = own]
      BY DEF Paired
    <3>2. "profile" \in DOMAIN stored[i]
      BY DEF Records
    <3> HIDE DEF own, settled
    <3> QED
      BY <3>1, <3>2
  <2>3. "profile" \in DOMAIN settled[i]
    BY <1>1, <1>3 DEF Records
  <2>4. Paired(settled, actual)[i].profile = settled[i].profile
    BY <1>6
  <2> HIDE DEF settled, profile
  <2>5. profile = settled[i].profile
    BY <2>1, <2>3, <2>4
  <2> QED
    BY <2>1, <2>2, <2>3, <2>5
<1>8. /\ Paired(settled, actual) = [i \in DOMAIN stored |-> Paired(settled, actual)[i]]
      /\ settled = [i \in DOMAIN stored |-> settled[i]]
  BY <1>1 DEF Paired
<1> HIDE DEF settled
<1>9. Paired(settled, actual) = settled
  BY <1>7, <1>8
<1> QED
  BY <1>9 DEF settled

-----------------------------------------------------------------------------
(* What it writes *)

\* The matched records only differ from the stored ones in their endpoint ids.
LEMMA PairedRecord ==
    ASSUME NEW S, NEW stored \in Seq(S), NEW T, NEW actual \in Seq(T),
           Distinct(actual), Records(stored), NEW i \in DOMAIN stored
    PROVE  /\ Paired(stored, actual)[i] =
                [stored[i] EXCEPT !.profile = Paired(stored, actual)[i].profile]
           /\ \/ Paired(stored, actual)[i].profile = NoProfile
              \/ \E n \in DOMAIN actual : Paired(stored, actual)[i].profile = actual[n].id
<1> DEFINE pair == Pairing(stored, actual)
           profile == IF pair[i] = {} THEN NoProfile
                      ELSE actual[CHOOSE n \in pair[i] : TRUE].id
<1>1. Paired(stored, actual)[i] = [stored[i] EXCEPT !.profile = profile]
  BY DEF Paired
<1>2. \A n \in pair[i] : n \in DOMAIN actual
  BY PairsOneToOne
<1> HIDE DEF pair
<1>3. profile = NoProfile \/ \E n \in DOMAIN actual : profile = actual[n].id
  BY <1>2
<1>4. "profile" \in DOMAIN stored[i]
  BY DEF Records
<1> HIDE DEF profile
<1>5. Paired(stored, actual)[i].profile = profile
  BY <1>1, <1>4
<1> QED
  BY <1>1, <1>3, <1>5

\* Only matched records are put back.
LEMMA CorrectsPaired ==
    ASSUME NEW S, NEW stored \in Seq(S), NEW actual, NEW R,
           \A i \in DOMAIN stored : Paired(stored, actual)[i] \in R
    PROVE  /\ Paired(stored, actual) \in Seq(R)
           /\ DOMAIN Paired(stored, actual) = DOMAIN stored
           /\ Corrections(stored, actual) \in Seq(R)
           /\ \A n \in DOMAIN Corrections(stored, actual) : \E i \in DOMAIN stored :
                Corrections(stored, actual)[n] = Paired(stored, actual)[i]
<1>1. PICK paired : paired = Paired(stored, actual)
  OBVIOUS
<1>2. DOMAIN stored = 1 .. Len(stored) /\ Len(stored) \in Nat
  OBVIOUS
<1>3. DOMAIN paired = DOMAIN stored /\ paired = [i \in DOMAIN stored |-> paired[i]]
  BY <1>1 DEF Paired
<1>4. paired \in [1 .. Len(stored) -> R]
  BY <1>1, <1>2, <1>3
<1>5. paired \in Seq(R)
  BY <1>2, <1>4, SeqDef
<1>6. PICK P : P = {i \in DOMAIN paired : paired[i] \notin {stored[k] : k \in DOMAIN stored}}
  OBVIOUS
<1>7. P \subseteq DOMAIN paired
  BY <1>6
<1>8. Corrections(stored, actual) = At(paired, P)
  BY <1>1, <1>6 DEF Corrections
<1>9. /\ At(paired, P) \in Seq(R)
      /\ \A n \in DOMAIN At(paired, P) : Nth(P, n) \in P /\ At(paired, P)[n] = paired[Nth(P, n)]
  BY <1>5, <1>7, AtKeeps
<1> QED
  BY <1>1, <1>3, <1>5, <1>7, <1>8, <1>9

\* Each of them once.
LEMMA CorrectsOnce ==
    ASSUME NEW S, NEW stored \in Seq(S), NEW actual,
           \A i, k \in DOMAIN stored :
                Paired(stored, actual)[i].id = Paired(stored, actual)[k].id => i = k
    PROVE  \A m, n \in DOMAIN Corrections(stored, actual) :
                Corrections(stored, actual)[m].id = Corrections(stored, actual)[n].id => m = n
<1>1. PICK paired, R : paired = Paired(stored, actual) /\ R = {paired[i] : i \in DOMAIN stored}
  OBVIOUS
<1>2. paired \in Seq(R) /\ DOMAIN paired = DOMAIN stored
  BY <1>1, CorrectsPaired
<1>3. PICK P : P = {i \in DOMAIN paired : paired[i] \notin {stored[k] : k \in DOMAIN stored}}
  OBVIOUS
<1>4. P \subseteq DOMAIN paired
  BY <1>3
<1>5. PICK corrected : corrected = At(paired, P) /\ corrected = Corrections(stored, actual)
  BY <1>1, <1>3 DEF Corrections
<1>6. /\ \A n \in DOMAIN corrected : Nth(P, n) \in P /\ corrected[n] = paired[Nth(P, n)]
      /\ \A m, n \in DOMAIN corrected : Nth(P, m) = Nth(P, n) => m = n
  <2>1. /\ \A n \in DOMAIN At(paired, P) :
              Nth(P, n) \in P /\ At(paired, P)[n] = paired[Nth(P, n)]
        /\ \A m, n \in DOMAIN At(paired, P) : Nth(P, m) = Nth(P, n) => m = n
    BY <1>2, <1>4, AtKeeps
  <2> QED
    BY <1>5, <2>1
<1>7. \A m, n \in DOMAIN corrected : corrected[m].id = corrected[n].id => m = n
  BY <1>1, <1>2, <1>4, <1>6
<1> QED
  BY <1>5, <1>7

\* Each machine that nothing paired with is adopted, once, under its own id and
\* with the setting that herdr holds; no other is.
THEOREM AdoptsUnclaimed ==
    ASSUME NEW S, NEW stored \in Seq(S), NEW T, NEW actual \in Seq(T),
           Distinct(actual), Records(stored)
    PROVE  LET adopted == Adoptions(stored, actual)
           IN  /\ DOMAIN adopted = 1 .. Len(adopted) /\ Len(adopted) \in Nat
               /\ \A a \in DOMAIN adopted :
                    /\ \E n \in DOMAIN actual :
                        adopted[a] = [id |-> NoId, label |-> actual[n].label,
                                      target |-> actual[n].target,
                                      session |-> actual[n].session,
                                      profile |-> actual[n].id]
                    /\ \A i \in DOMAIN stored :
                        Paired(stored, actual)[i].profile # adopted[a].profile
                    /\ \A b \in DOMAIN adopted :
                        adopted[a].profile = adopted[b].profile => a = b
               /\ \A n \in DOMAIN actual :
                    \/ \E i \in DOMAIN stored :
                        Paired(stored, actual)[i].profile = actual[n].id
                    \/ \E a \in DOMAIN adopted : adopted[a].profile = actual[n].id
<1>1. PICK paired : paired = Paired(stored, actual)
  OBVIOUS
<1>2. PICK taken : taken = {paired[i].profile : i \in DOMAIN stored}
  OBVIOUS
<1>3. PICK P : P = {n \in DOMAIN actual : actual[n].id \notin taken}
  OBVIOUS
<1>4. PICK unclaimed : unclaimed = At(actual, P)
  OBVIOUS
<1>5. PICK adopted : adopted = Adoptions(stored, actual)
  OBVIOUS
<1>6. adopted = [n \in DOMAIN unclaimed |->
            [id |-> NoId, label |-> unclaimed[n].label,
             target |-> unclaimed[n].target, session |-> unclaimed[n].session,
             profile |-> unclaimed[n].id]]
  BY <1>1, <1>2, <1>3, <1>4, <1>5 DEF Adoptions
<1>7. P \subseteq DOMAIN actual /\ \A n \in P : actual[n].id \notin taken
  BY <1>3
<1>8. /\ unclaimed \in Seq(T)
      /\ \A n \in DOMAIN unclaimed : Nth(P, n) \in P /\ unclaimed[n] = actual[Nth(P, n)]
      /\ \A i \in P : \E n \in DOMAIN unclaimed : Nth(P, n) = i /\ unclaimed[n] = actual[i]
      /\ \A m, n \in DOMAIN unclaimed : Nth(P, m) = Nth(P, n) => m = n
  BY <1>4, <1>7, AtKeeps
<1>9. DOMAIN unclaimed = 1 .. Len(unclaimed) /\ Len(unclaimed) \in Nat
  BY <1>8
<1>10. DOMAIN adopted = 1 .. Len(adopted) /\ Len(adopted) \in Nat
  <2>1. DOMAIN adopted = 1 .. Len(unclaimed)
    BY <1>6, <1>9
  <2>2. PICK Q : Q = {adopted[a] : a \in 1 .. Len(unclaimed)}
    OBVIOUS
  <2>3. adopted = [a \in 1 .. Len(unclaimed) |-> adopted[a]]
    BY <1>6, <1>9, <2>1
  <2>4. adopted \in [1 .. Len(unclaimed) -> Q]
    BY <2>2, <2>3
  <2>5. adopted \in Seq(Q)
    BY <1>9, <2>4, SeqDef
  <2> QED
    BY <2>5
<1>11. ASSUME NEW a \in DOMAIN adopted
       PROVE  /\ \E n \in DOMAIN actual :
                    adopted[a] = [id |-> NoId, label |-> actual[n].label,
                                  target |-> actual[n].target,
                                  session |-> actual[n].session,
                                  profile |-> actual[n].id]
              /\ \A i \in DOMAIN stored : paired[i].profile # adopted[a].profile
              /\ \A b \in DOMAIN adopted : adopted[a].profile = adopted[b].profile => a = b
  <2>1. a \in DOMAIN unclaimed
    BY <1>6
  <2>2. /\ Nth(P, a) \in DOMAIN actual /\ unclaimed[a] = actual[Nth(P, a)]
        /\ actual[Nth(P, a)].id \notin taken
    BY <1>7, <1>8, <2>1
  <2>3. adopted[a] = [id |-> NoId, label |-> unclaimed[a].label,
                      target |-> unclaimed[a].target, session |-> unclaimed[a].session,
                      profile |-> unclaimed[a].id]
    BY <1>6, <2>1
  <2>4. \A i \in DOMAIN stored : paired[i].profile # adopted[a].profile
    BY <1>2, <2>2, <2>3
  <2>5. ASSUME NEW b \in DOMAIN adopted, adopted[a].profile = adopted[b].profile
        PROVE  a = b
    <3>1. b \in DOMAIN unclaimed
      BY <1>6
    <3>2. Nth(P, b) \in DOMAIN actual /\ unclaimed[b] = actual[Nth(P, b)]
      BY <1>7, <1>8, <3>1
    <3>3. adopted[b].profile = unclaimed[b].id
      BY <1>6, <3>1
    <3>4. actual[Nth(P, a)].id = actual[Nth(P, b)].id
      BY <2>2, <2>3, <2>5, <3>2, <3>3
    <3>5. Nth(P, a) = Nth(P, b)
      BY <2>2, <3>2, <3>4 DEF Distinct
    <3> QED
      BY <1>8, <2>1, <3>1, <3>5
  <2> QED
    BY <2>2, <2>3, <2>4, <2>5
<1>12. ASSUME NEW n \in DOMAIN actual
       PROVE  \/ \E i \in DOMAIN stored : paired[i].profile = actual[n].id
              \/ \E a \in DOMAIN adopted : adopted[a].profile = actual[n].id
  <2>1. CASE n \in P
    <3>1. PICK a \in DOMAIN unclaimed : unclaimed[a] = actual[n]
      BY <1>8, <2>1
    <3>2. a \in DOMAIN adopted /\ adopted[a].profile = unclaimed[a].id
      BY <1>6, <3>1
    <3> QED
      BY <3>1, <3>2
  <2>2. CASE n \notin P
    BY <1>2, <1>3, <2>2
  <2> QED
    BY <2>1, <2>2
<1> QED
  BY <1>1, <1>5, <1>10, <1>11, <1>12

-----------------------------------------------------------------------------
(* Reconciled once, then once more *)

Machine == [id : Nat \ {0}, label : Labels, target : Targets, session : Sessions]

Connection == [id : Nat \ {0}, label : Labels, target : Targets, session : Sessions,
               profile : (Nat \ {0}) \cup {NoProfile}]

\* Every machine is claimed, and every claim is of one machine that exists, made
\* once.
Claimed(stored, actual) ==
    /\ \A n \in DOMAIN actual : \E i \in DOMAIN stored : stored[i].profile = actual[n].id
    /\ \A i \in DOMAIN stored : stored[i].profile # NoProfile =>
        \E n \in DOMAIN actual : actual[n].id = stored[i].profile
    /\ \A i, k \in DOMAIN stored :
        stored[i].profile # NoProfile /\ stored[k].profile = stored[i].profile => i = k

\* Then nothing is corrected and nothing is adopted.
LEMMA ClaimedStays ==
    ASSUME NEW stored \in Seq(Connection), NEW T, NEW actual \in Seq(T),
           Distinct(actual), Claimed(stored, actual)
    PROVE  Paired(stored, actual) = stored /\ Adoptions(stored, actual) = <<>>
<1>1. DOMAIN stored = 1 .. Len(stored) /\ Len(stored) \in Nat
  OBVIOUS
<1>11. \A i \in DOMAIN stored : stored[i] \in Connection
  BY ElementOfSeq
<1>12. Records(stored)
  BY <1>11 DEF Records, Connection
<1>2. ASSUME NEW i \in DOMAIN stored
      PROVE  Paired(stored, actual)[i].profile = stored[i].profile
  <2>1. CASE stored[i].profile # NoProfile
    <3>1. PICK n \in DOMAIN actual : stored[i].profile = actual[n].id
      BY <2>1 DEF Claimed
    <3>2. \A k \in 1 .. i - 1 : k \in DOMAIN stored /\ k # i
      BY <1>1
    <3>3. \A k \in 1 .. i - 1 : stored[k].profile # stored[i].profile
      BY <2>1, <3>2 DEF Claimed
    <3> QED
      BY <1>12, <3>1, <3>3, HolderKeeps
  <2>2. CASE stored[i].profile = NoProfile
    <3>1. ById(stored, actual, i) = {}
      BY <2>2 DEF ById
    <3>2. ASSUME NEW n \in Pairing(stored, actual)[i] PROVE FALSE
      <4>1. /\ n \in DOMAIN actual
            /\ \A k \in DOMAIN stored : n \notin ById(stored, actual, k)
        BY <3>1, FallbackIsFree
      <4>2. PICK k \in DOMAIN stored : stored[k].profile = actual[n].id
        BY <4>1 DEF Claimed
      <4>3. stored[k].profile # NoProfile
        BY <4>1, <4>2 DEF Distinct
      <4>4. \A j \in 1 .. k - 1 : j \in DOMAIN stored /\ j # k
        BY <1>1
      <4>5. \A j \in 1 .. k - 1 : stored[j].profile # actual[n].id
        BY <4>2, <4>3, <4>4 DEF Claimed
      <4>6. n \in ById(stored, actual, k)
        BY <4>1, <4>2, <4>3, <4>5 DEF ById
      <4> QED
        BY <4>1, <4>6
    <3>3. Pairing(stored, actual)[i] = {}
      BY <3>2
    <3> QED
      BY <1>12, <2>2, <3>3, PairedProfile
  <2> QED
    BY <2>1, <2>2
<1>3. PICK paired : paired = Paired(stored, actual)
  OBVIOUS
<1>4. paired = [i \in DOMAIN stored |-> paired[i]]
  BY <1>3 DEF Paired
<1>5. ASSUME NEW i \in DOMAIN stored PROVE paired[i] = stored[i]
  <2>1. PICK c, p : c = stored[i] /\ p = paired[i]
    OBVIOUS
  <2>2. p = [c EXCEPT !.profile = p.profile]
    BY <1>3, <1>12, <2>1, PairedRecord
  <2>3. p.profile = c.profile
    BY <1>2, <1>3, <2>1
  <2>4. c \in Connection
    BY <1>11, <2>1
  <2>5. [c EXCEPT !.profile = c.profile] = c
    BY <2>4 DEF Connection
  <2> QED
    BY <2>1, <2>2, <2>3, <2>5
<1>6. paired = stored
  BY <1>1, <1>4, <1>5
<1>7. PICK adopted : adopted = Adoptions(stored, actual)
  OBVIOUS
<1>8. /\ DOMAIN adopted = 1 .. Len(adopted) /\ Len(adopted) \in Nat
      /\ \A a \in DOMAIN adopted :
            /\ \E n \in DOMAIN actual : adopted[a].profile = actual[n].id
            /\ \A i \in DOMAIN stored : paired[i].profile # adopted[a].profile
  BY <1>3, <1>7, <1>12, AdoptsUnclaimed
<1>9. DOMAIN adopted = {}
  BY <1>6, <1>8 DEF Claimed
<1>10. adopted = <<>>
  <2>1. adopted = [a \in DOMAIN adopted |-> adopted[a]]
    BY <1>7 DEF Adoptions
  <2> QED
    BY <1>9, <2>1
<1> QED
  BY <1>3, <1>6, <1>7, <1>10

\* Both lists are of records, whatever their fields hold; and once reconciled,
\* they agree.
IInv ==
    /\ machines \in Seq(Machine)
    /\ \A m, n \in DOMAIN machines : machines[m].id = machines[n].id => m = n
    /\ connections \in Seq(Connection)
    /\ before # connections => Claimed(connections, machines)

LEMMA Lists ==
    ASSUME IInv
    PROVE  /\ Distinct(machines) /\ Records(connections)
           /\ \A n \in DOMAIN machines : machines[n] \in Machine
           /\ \A i \in DOMAIN connections : connections[i] \in Connection
<1>1. \A n \in DOMAIN machines : machines[n] \in Machine
  BY ElementOfSeq DEF IInv
<1>2. \A i \in DOMAIN connections : connections[i] \in Connection
  BY ElementOfSeq DEF IInv
<1>3. \A n \in DOMAIN machines : machines[n].id # NoProfile
  BY <1>1, IdsAssumption DEF Machine
<1> QED
  BY <1>1, <1>2, <1>3 DEF IInv, Distinct, Records, Connection

\* What a reconciliation leaves of the connections it found, and what it appends.
LEMMA Applied ==
    ASSUME IInv, NEW after, after = Apply,
           NEW paired, paired = Paired(connections, machines),
           NEW adopted, adopted = Adoptions(connections, machines)
    PROVE  /\ after \in Seq(Connection)
           /\ Len(connections) \in Nat /\ DOMAIN connections = 1 .. Len(connections)
           /\ Len(adopted) \in Nat /\ DOMAIN adopted = 1 .. Len(adopted)
           /\ DOMAIN after = 1 .. Len(connections) + Len(adopted)
           /\ \A i \in DOMAIN connections : after[i] = paired[i]
           /\ \A a \in DOMAIN adopted :
                after[Len(connections) + a] = [adopted[a] EXCEPT !.id = Len(connections) + a]
           /\ \A a \in DOMAIN adopted : \E n \in DOMAIN machines :
                adopted[a] = [id |-> NoId, label |-> machines[n].label,
                              target |-> machines[n].target,
                              session |-> machines[n].session,
                              profile |-> machines[n].id]
<1>1. /\ connections \in Seq(Connection) /\ machines \in Seq(Machine)
      /\ Distinct(machines) /\ Records(connections)
      /\ \A n \in DOMAIN machines : machines[n] \in Machine
      /\ \A i \in DOMAIN connections : connections[i] \in Connection
  BY Lists DEF IInv
<1>2. Len(connections) \in Nat /\ DOMAIN connections = 1 .. Len(connections)
  BY <1>1
<1>13. /\ DOMAIN adopted = 1 .. Len(adopted) /\ Len(adopted) \in Nat
       /\ \A a \in DOMAIN adopted :
            /\ \E n \in DOMAIN machines :
                adopted[a] = [id |-> NoId, label |-> machines[n].label,
                              target |-> machines[n].target,
                              session |-> machines[n].session,
                              profile |-> machines[n].id]
            /\ \A i \in DOMAIN connections :
                Paired(connections, machines)[i].profile # adopted[a].profile
            /\ \A b \in DOMAIN adopted : adopted[a].profile = adopted[b].profile => a = b
  BY <1>1, AdoptsUnclaimed
<1>3. /\ DOMAIN adopted = 1 .. Len(adopted) /\ Len(adopted) \in Nat
      /\ \A a \in DOMAIN adopted : \E n \in DOMAIN machines :
            adopted[a] = [id |-> NoId, label |-> machines[n].label,
                          target |-> machines[n].target,
                          session |-> machines[n].session,
                          profile |-> machines[n].id]
  BY <1>13
<1>4. ASSUME NEW i \in DOMAIN connections PROVE paired[i] \in Connection
  <2>1. PICK c : c = connections[i] /\ c \in Connection
    BY <1>1
  <2>2. PICK p : p = paired[i]
    OBVIOUS
  <2>3. /\ p = [c EXCEPT !.profile = p.profile]
        /\ p.profile = NoProfile \/ \E n \in DOMAIN machines : p.profile = machines[n].id
    BY <1>1, <2>1, <2>2, PairedRecord
  <2>4. \A n \in DOMAIN machines : machines[n].id \in Nat \ {0}
    BY <1>1 DEF Machine
  <2>5. p.profile \in (Nat \ {0}) \cup {NoProfile}
    BY <2>3, <2>4
  <2>6. PICK profile : profile = p.profile
    OBVIOUS
  <2>7. p = [c EXCEPT !.profile = profile] /\ profile \in (Nat \ {0}) \cup {NoProfile}
    BY <2>3, <2>5, <2>6
  <2>8. p \in Connection
    BY <2>1, <2>7 DEF Connection
  <2> QED
    BY <2>2, <2>8
<1>5. paired \in Seq(Connection) /\ Len(paired) = Len(connections)
  <2>1. paired \in Seq(Connection) /\ DOMAIN paired = DOMAIN connections
    BY <1>1, <1>4, CorrectsPaired
  <2> QED
    BY <1>2, <2>1
<1>6. PICK new : new = [a \in DOMAIN adopted |->
                            [adopted[a] EXCEPT !.id = Len(connections) + a]]
  OBVIOUS
<1>7. ASSUME NEW a \in DOMAIN adopted PROVE new[a] \in Connection
  <2>1. PICK n \in DOMAIN machines :
            adopted[a] = [id |-> NoId, label |-> machines[n].label,
                          target |-> machines[n].target,
                          session |-> machines[n].session,
                          profile |-> machines[n].id]
    BY <1>3
  <2>2. PICK machine, id : machine = machines[n] /\ id = Len(connections) + a
    OBVIOUS
  <2>3. machine \in Machine /\ id \in Nat \ {0}
    BY <1>1, <1>2, <1>3, <2>2
  <2>4. new[a] = [id |-> id, label |-> machine.label, target |-> machine.target,
                  session |-> machine.session, profile |-> machine.id]
    BY <1>6, <2>1, <2>2
  <2> QED
    BY <2>3, <2>4 DEF Machine, Connection
<1>8. new \in Seq(Connection) /\ Len(new) = Len(adopted)
  <2>1. new \in [1 .. Len(adopted) -> Connection]
    BY <1>3, <1>6, <1>7
  <2> QED
    BY <1>3, <2>1, SeqDef
<1>9. after = paired \o new
  BY <1>6 DEF Apply
<1>10. /\ after \in Seq(Connection) /\ Len(after) = Len(paired) + Len(new)
       /\ \A i \in 1 .. Len(paired) : after[i] = paired[i]
       /\ \A i \in 1 .. Len(new) : after[Len(paired) + i] = new[i]
  <2>1. after \in Seq(Connection)
    BY <1>5, <1>8, <1>9, ConcatProperties
  <2>2. /\ Len(after) = Len(paired) + Len(new)
        /\ \A i \in 1 .. Len(paired) : after[i] = paired[i]
        /\ \A i \in Len(paired) + 1 .. Len(paired) + Len(new) :
                after[i] = new[i - Len(paired)]
    <3>1. paired \in Seq(Connection) /\ new \in Seq(Connection)
      BY <1>5, <1>8
    <3> QED
      BY <1>9, <3>1, ConcatProperties
  <2>3. \A i \in 1 .. Len(new) : /\ Len(paired) + i \in Len(paired) + 1 .. Len(paired) + Len(new)
                                 /\ (Len(paired) + i) - Len(paired) = i
    BY <1>2, <1>3, <1>5, <1>8
  <2> QED
    BY <2>1, <2>2, <2>3
<1>11. DOMAIN after = 1 .. Len(connections) + Len(adopted)
  BY <1>5, <1>8, <1>10
<1>12. \A a \in DOMAIN adopted :
         after[Len(connections) + a] = [adopted[a] EXCEPT !.id = Len(connections) + a]
  BY <1>3, <1>5, <1>6, <1>8, <1>10
<1> QED
  BY <1>2, <1>3, <1>5, <1>10, <1>11, <1>12

\* After it, the store and the list agree.
LEMMA AppliedClaims ==
    ASSUME IInv, NEW after, after = Apply,
           NEW paired, paired = Paired(connections, machines),
           NEW adopted, adopted = Adoptions(connections, machines)
    PROVE  /\ Claimed(after, machines)
           /\ \A i \in DOMAIN after : i \notin DOMAIN connections =>
                \E a \in DOMAIN adopted : \E n \in DOMAIN machines :
                    /\ i = Len(connections) + a
                    /\ after[i].profile = adopted[a].profile
                    /\ after[i].profile = machines[n].id
                    /\ SameSetting(after[i], machines[n])
<1>1. /\ after \in Seq(Connection)
      /\ Len(connections) \in Nat /\ DOMAIN connections = 1 .. Len(connections)
      /\ Len(adopted) \in Nat /\ DOMAIN adopted = 1 .. Len(adopted)
      /\ DOMAIN after = 1 .. Len(connections) + Len(adopted)
      /\ \A i \in DOMAIN connections : after[i] = paired[i]
      /\ \A a \in DOMAIN adopted :
            after[Len(connections) + a] = [adopted[a] EXCEPT !.id = Len(connections) + a]
      /\ \A a \in DOMAIN adopted : \E n \in DOMAIN machines :
            adopted[a] = [id |-> NoId, label |-> machines[n].label,
                          target |-> machines[n].target,
                          session |-> machines[n].session,
                          profile |-> machines[n].id]
  BY Applied
<1>2. /\ connections \in Seq(Connection) /\ machines \in Seq(Machine)
      /\ Distinct(machines) /\ Records(connections)
  BY Lists DEF IInv
<1>3. /\ \A a \in DOMAIN adopted :
            /\ \A i \in DOMAIN connections : paired[i].profile # adopted[a].profile
            /\ \A b \in DOMAIN adopted : adopted[a].profile = adopted[b].profile => a = b
      /\ \A n \in DOMAIN machines :
            \/ \E i \in DOMAIN connections : paired[i].profile = machines[n].id
            \/ \E a \in DOMAIN adopted : adopted[a].profile = machines[n].id
  <2>1. /\ DOMAIN adopted = 1 .. Len(adopted) /\ Len(adopted) \in Nat
        /\ \A a \in DOMAIN adopted :
            /\ \E n \in DOMAIN machines :
                adopted[a] = [id |-> NoId, label |-> machines[n].label,
                              target |-> machines[n].target,
                              session |-> machines[n].session,
                              profile |-> machines[n].id]
            /\ \A i \in DOMAIN connections :
                Paired(connections, machines)[i].profile # adopted[a].profile
            /\ \A b \in DOMAIN adopted : adopted[a].profile = adopted[b].profile => a = b
        /\ \A n \in DOMAIN machines :
            \/ \E i \in DOMAIN connections :
                Paired(connections, machines)[i].profile = machines[n].id
            \/ \E a \in DOMAIN adopted : adopted[a].profile = machines[n].id
    BY <1>2, AdoptsUnclaimed
  <2> QED
    BY <2>1
<1>4. ASSUME NEW a \in DOMAIN adopted
      PROVE  /\ Len(connections) + a \in DOMAIN after
             /\ Len(connections) + a \notin DOMAIN connections
             /\ after[Len(connections) + a].profile = adopted[a].profile
             /\ \E n \in DOMAIN machines :
                    /\ after[Len(connections) + a].profile = machines[n].id
                    /\ SameSetting(after[Len(connections) + a], machines[n])
  <2>1. PICK n \in DOMAIN machines :
            adopted[a] = [id |-> NoId, label |-> machines[n].label,
                          target |-> machines[n].target,
                          session |-> machines[n].session,
                          profile |-> machines[n].id]
    BY <1>1
  <2>2. PICK i : i = Len(connections) + a
    OBVIOUS
  <2>3. after[i] = [adopted[a] EXCEPT !.id = i]
    BY <1>1, <2>2
  <2>4. /\ after[i].profile = adopted[a].profile /\ after[i].profile = machines[n].id
        /\ SameSetting(after[i], machines[n])
    BY <2>1, <2>3 DEF SameSetting
  <2>5. i \in DOMAIN after /\ i \notin DOMAIN connections
    BY <1>1, <2>2
  <2> QED
    BY <2>2, <2>4, <2>5
<1>5. ASSUME NEW i \in DOMAIN after, i \notin DOMAIN connections
      PROVE  \E a \in DOMAIN adopted : i = Len(connections) + a
  <2>1. i - Len(connections) \in DOMAIN adopted /\ i = Len(connections) + (i - Len(connections))
    BY <1>1, <1>5
  <2> QED
    BY <2>1
<1>6. \A n \in DOMAIN machines : \E i \in DOMAIN after : after[i].profile = machines[n].id
  <2> TAKE n \in DOMAIN machines
  <2>1. CASE \E i \in DOMAIN connections : paired[i].profile = machines[n].id
    <3>1. \A i \in DOMAIN connections : i \in DOMAIN after
      BY <1>1
    <3> QED
      BY <1>1, <2>1, <3>1
  <2>2. CASE \E a \in DOMAIN adopted : adopted[a].profile = machines[n].id
    BY <1>4, <2>2
  <2> QED
    BY <1>3, <2>1, <2>2
<1>7. ASSUME NEW i \in DOMAIN connections, paired[i].profile # NoProfile
      PROVE  /\ \E n \in DOMAIN machines : paired[i].profile = machines[n].id
             /\ \A k \in DOMAIN connections : paired[k].profile = paired[i].profile => k = i
  <2>1. Paired(connections, machines)[i].profile # NoProfile
    BY <1>7
  <2>2. /\ \E n \in DOMAIN machines :
                Paired(connections, machines)[i].profile = machines[n].id
        /\ \A k \in DOMAIN connections :
                Paired(connections, machines)[k].profile = Paired(connections, machines)[i].profile
                    => k = i
    BY <1>2, <2>1, ClaimsExistOnce
  <2> QED
    BY <2>2
<1>8. \A i \in DOMAIN after : after[i].profile # NoProfile =>
        \E n \in DOMAIN machines : machines[n].id = after[i].profile
  <2> SUFFICES ASSUME NEW i \in DOMAIN after, after[i].profile # NoProfile
               PROVE  \E n \in DOMAIN machines : machines[n].id = after[i].profile
    OBVIOUS
  <2>1. CASE i \in DOMAIN connections
    BY <1>1, <1>7, <2>1
  <2>2. CASE i \notin DOMAIN connections
    BY <1>4, <1>5, <2>2
  <2> QED
    BY <2>1, <2>2
<1>9. ASSUME NEW i \in DOMAIN after, NEW k \in DOMAIN after,
             after[i].profile # NoProfile, after[k].profile = after[i].profile
      PROVE  i = k
  <2>1. CASE i \in DOMAIN connections /\ k \in DOMAIN connections
    BY <1>1, <1>7, <1>9, <2>1
  <2>2. CASE i \in DOMAIN connections /\ k \notin DOMAIN connections
    BY <1>1, <1>3, <1>4, <1>5, <1>9, <2>2
  <2>3. CASE i \notin DOMAIN connections /\ k \in DOMAIN connections
    BY <1>1, <1>3, <1>4, <1>5, <1>9, <2>3
  <2>4. CASE i \notin DOMAIN connections /\ k \notin DOMAIN connections
    BY <1>3, <1>4, <1>5, <1>9, <2>4
  <2> QED
    BY <2>1, <2>2, <2>3, <2>4
<1>10. Claimed(after, machines)
  BY <1>6, <1>8, <1>9 DEF Claimed
<1> QED
  BY <1>4, <1>5, <1>10

LEMMA ReconciliationKeeps ==
    ASSUME IInv, [Next]_mcVars
    PROVE  IInv'
<1>1. CASE Reconciliation
  <2>1. PICK after, paired, adopted :
            /\ after = Apply /\ paired = Paired(connections, machines)
            /\ adopted = Adoptions(connections, machines)
    OBVIOUS
  <2>2. after \in Seq(Connection) /\ Claimed(after, machines)
    BY <2>1, Applied, AppliedClaims
  <2>3. connections' = after /\ machines' = machines
    BY <1>1, <2>1 DEF Reconciliation
  <2>4. Claimed(connections, machines)'
    BY <2>2, <2>3
  <2> QED
    BY <2>2, <2>3, <2>4 DEF IInv
<1>2. CASE UNCHANGED mcVars
  BY <1>2 DEF mcVars, IInv, Claimed
<1> QED
  BY <1>1, <1>2 DEF Next

LEMMA ListedAndStored == Init => IInv
<1> SUFFICES ASSUME Init PROVE IInv
  OBVIOUS
<1>11. PICK n \in 0 .. MaxMachines : \E f \in [1 .. n -> Settings] :
        machines = Numbered(f, [i \in 1 .. n |-> i])
  BY DEF Init
<1>1. PICK f \in [1 .. n -> Settings] : machines = Numbered(f, [i \in 1 .. n |-> i])
  BY <1>11
<1>2. n \in Nat
  BY BoundsAssumption
<1>3. machines = [i \in 1 .. n |-> [id |-> i, label |-> f[i].label,
                                   target |-> f[i].target, session |-> f[i].session]]
  BY <1>1 DEF Numbered
<1>4. ASSUME NEW i \in 1 .. n PROVE machines[i] \in Machine /\ machines[i].id = i
  <2>1. f[i] \in Settings /\ i \in Nat \ {0}
    BY <1>1, <1>2
  <2>2. machines[i] = [id |-> i, label |-> f[i].label,
                       target |-> f[i].target, session |-> f[i].session]
    BY <1>3
  <2> QED
    BY <2>1, <2>2 DEF Settings, Machine
<1>5. machines \in Seq(Machine)
  <2>1. machines \in [1 .. n -> Machine]
    BY <1>3, <1>4
  <2> QED
    BY <1>2, <2>1, SeqDef
<1>12. PICK m \in 0 .. MaxConns : \E g \in [1 .. m -> Settings] :
        \E p \in [1 .. m -> {NoProfile} \cup 1 .. MaxMachines + 1] :
            connections = [i \in 1 .. m |->
                [id |-> i, label |-> g[i].label, target |-> g[i].target,
                 session |-> g[i].session, profile |-> p[i]]]
  BY DEF Init
<1>6. PICK g \in [1 .. m -> Settings], p \in [1 .. m -> {NoProfile} \cup 1 .. MaxMachines + 1] :
        connections = [i \in 1 .. m |->
            [id |-> i, label |-> g[i].label, target |-> g[i].target,
             session |-> g[i].session, profile |-> p[i]]]
  BY <1>12
<1>7. m \in Nat /\ MaxMachines \in Nat
  BY BoundsAssumption
<1>8. ASSUME NEW i \in 1 .. m PROVE connections[i] \in Connection
  <2>1. g[i] \in Settings /\ i \in Nat \ {0} /\ p[i] \in {NoProfile} \cup (Nat \ {0})
    BY <1>6, <1>7
  <2>2. connections[i] = [id |-> i, label |-> g[i].label, target |-> g[i].target,
                          session |-> g[i].session, profile |-> p[i]]
    BY <1>6
  <2> QED
    BY <2>1, <2>2 DEF Settings, Connection
<1>9. connections \in Seq(Connection)
  <2>1. connections \in [1 .. m -> Connection]
    BY <1>6, <1>8
  <2> QED
    BY <1>7, <2>1, SeqDef
<1>10. \A k, i \in DOMAIN machines : machines[k].id = machines[i].id => k = i
  BY <1>3, <1>4
<1> QED
  BY <1>5, <1>9, <1>10 DEF Init, IInv

LEMMA Invariance == Spec => []IInv
BY ListedAndStored, ReconciliationKeeps, PTL DEF Spec

\* One reconciliation makes the store and the list of machines agree, one to one
\* (OneToOne of MCReconcile), whatever was stored and however long both are.
THEOREM AgreesOneToOne == Spec => OneToOne
<1> DEFINE P ==
    /\ \A n \in DOMAIN machines :
        Cardinality({i \in DOMAIN connections' : connections'[i].profile = machines[n].id}) = 1
    /\ \A i \in DOMAIN connections' :
        connections'[i].profile # NoProfile =>
            \E n \in DOMAIN machines : machines[n].id = connections'[i].profile
<1>1. ASSUME IInv, [Next]_mcVars PROVE [P]_mcVars
  <2>1. CASE Reconciliation
    <3>1. PICK after, paired, adopted :
            /\ after = Apply /\ paired = Paired(connections, machines)
            /\ adopted = Adoptions(connections, machines)
      OBVIOUS
    <3>2. Claimed(after, machines)
      BY <1>1, <3>1, AppliedClaims
    <3>3. connections' = after
      BY <2>1, <3>1 DEF Reconciliation
    <3>4. ASSUME NEW n \in DOMAIN machines
          PROVE  Cardinality({i \in DOMAIN after : after[i].profile = machines[n].id}) = 1
      <4>1. PICK j \in DOMAIN after : after[j].profile = machines[n].id
        BY <3>2 DEF Claimed
      <4>2. machines[n].id # NoProfile
        BY <1>1, Lists DEF Distinct
      <4>3. {i \in DOMAIN after : after[i].profile = machines[n].id} = {j}
        BY <3>2, <4>1, <4>2 DEF Claimed
      <4> QED
        BY <4>3, FS_Singleton
    <3>5. \A i \in DOMAIN after : after[i].profile # NoProfile =>
            \E n \in DOMAIN machines : machines[n].id = after[i].profile
      BY <3>2 DEF Claimed
    <3> QED
      BY <3>3, <3>4, <3>5
  <2>2. CASE UNCHANGED mcVars
    BY <2>2
  <2> QED
    BY <1>1, <2>1, <2>2 DEF Next
<1> QED
  BY <1>1, Invariance, PTL DEF Spec, OneToOne

\* A connection that holds a machine by its endpoint id goes on holding it
\* (HoldersKeep of MCReconcile), for stores and lists of any length.
THEOREM KeepsHolders == Spec => HoldersKeep
<1> DEFINE P ==
    \A i \in DOMAIN connections :
        (/\ \E n \in DOMAIN machines : machines[n].id = connections[i].profile
         /\ \A k \in 1 .. i - 1 : connections[k].profile # connections[i].profile)
        => connections'[i].profile = connections[i].profile
<1>1. ASSUME IInv, [Next]_mcVars PROVE [P]_mcVars
  <2>1. CASE Reconciliation
    <3>1. PICK after, paired, adopted :
            /\ after = Apply /\ paired = Paired(connections, machines)
            /\ adopted = Adoptions(connections, machines)
      OBVIOUS
    <3>2. /\ connections' = after
          /\ \A i \in DOMAIN connections : after[i] = paired[i]
      BY <1>1, <2>1, <3>1, Applied DEF Reconciliation
    <3>3. /\ connections \in Seq(Connection) /\ machines \in Seq(Machine)
          /\ Distinct(machines) /\ Records(connections)
      BY <1>1, Lists DEF IInv
    <3>4. ASSUME NEW i \in DOMAIN connections, NEW n \in DOMAIN machines,
                 connections[i].profile = machines[n].id,
                 \A k \in 1 .. i - 1 : connections[k].profile # connections[i].profile
          PROVE  paired[i].profile = connections[i].profile
      <4>1. Paired(connections, machines)[i].profile = connections[i].profile
        BY <3>3, <3>4, HolderKeeps
      <4> QED
        BY <3>1, <4>1
    <3> QED
      BY <3>2, <3>4
  <2>2. CASE UNCHANGED mcVars
    BY <2>2
  <2> QED
    BY <1>1, <2>1, <2>2 DEF Next
<1> HIDE DEF P
<1>2. Spec => [][P]_mcVars
  BY <1>1, Invariance, PTL DEF Spec
<1> QED
  BY <1>2 DEF P, HoldersKeep

\* What is adopted is a stranger to every connection left disconnected
\* (AdoptsOnlyStrangers of MCReconcile), for stores and lists of any length.
THEOREM AdoptsStrangers == Spec => AdoptsOnlyStrangers
<1> DEFINE P ==
    \A a \in DOMAIN connections' \ DOMAIN connections : \A i \in DOMAIN connections :
        connections'[i].profile = NoProfile =>
            ~ SameSetting(connections'[i], connections'[a])
<1>1. ASSUME IInv, [Next]_mcVars PROVE [P]_mcVars
  <2>1. CASE Reconciliation
    <3>1. PICK after, paired, adopted :
            /\ after = Apply /\ paired = Paired(connections, machines)
            /\ adopted = Adoptions(connections, machines)
      OBVIOUS
    <3>2. /\ connections' = after
          /\ \A i \in DOMAIN connections : after[i] = paired[i]
      BY <1>1, <2>1, <3>1, Applied DEF Reconciliation
    <3>3. /\ connections \in Seq(Connection) /\ machines \in Seq(Machine)
          /\ Distinct(machines) /\ Records(connections)
      BY <1>1, Lists DEF IInv
    <3>4. \A a \in DOMAIN adopted : \A k \in DOMAIN connections :
            Paired(connections, machines)[k].profile # adopted[a].profile
      BY <3>1, <3>3, AdoptsUnclaimed
    <3>5. ASSUME NEW a \in DOMAIN after, a \notin DOMAIN connections,
                 NEW i \in DOMAIN connections, after[i].profile = NoProfile,
                 SameSetting(after[i], after[a])
          PROVE  FALSE
      <4>1. PICK b \in DOMAIN adopted, n \in DOMAIN machines :
                /\ after[a].profile = adopted[b].profile
                /\ after[a].profile = machines[n].id
                /\ SameSetting(after[a], machines[n])
        BY <1>1, <3>1, <3>5, AppliedClaims
      <4>2. /\ \A k \in DOMAIN connections :
                    Paired(connections, machines)[k].profile # machines[n].id
            /\ Paired(connections, machines)[i].profile = NoProfile
        <5>1. adopted[b].profile = machines[n].id
          BY <4>1
        <5>2. \A k \in DOMAIN connections :
                Paired(connections, machines)[k].profile # machines[n].id
          BY <3>4, <5>1
        <5>3. Paired(connections, machines)[i] = after[i]
          BY <3>1, <3>2
        <5> QED
          BY <3>5, <5>2, <5>3
      <4>3. ~ SameSetting(Paired(connections, machines)[i], machines[n])
        BY <3>3, <4>2, AdoptedIsStranger
      <4>4. SameSetting(after[i], machines[n])
        BY <3>5, <4>1 DEF SameSetting
      <4> QED
        BY <3>1, <3>2, <4>3, <4>4
    <3> QED
      BY <3>2, <3>5
  <2>2. CASE UNCHANGED mcVars
    BY <2>2
  <2> QED
    BY <1>1, <2>1, <2>2 DEF Next
<1> HIDE DEF P
<1>2. Spec => [][P]_mcVars
  BY <1>1, Invariance, PTL DEF Spec
<1> QED
  BY <1>2 DEF P, AdoptsOnlyStrangers

\* A second reconciliation writes nothing: neither a correction nor an adoption
\* (Settles of MCReconcile), for stores and lists of any length.
THEOREM SettlesOnce == Spec => Settles
<1> DEFINE P == before # connections => connections' = connections
<1>1. ASSUME IInv, [Next]_mcVars PROVE [P]_mcVars
  <2>1. CASE Reconciliation
    <3>1. SUFFICES ASSUME before # connections PROVE connections' = connections
      OBVIOUS
    <3>2. /\ connections \in Seq(Connection) /\ machines \in Seq(Machine)
          /\ Distinct(machines) /\ Claimed(connections, machines)
      BY <1>1, <3>1, Lists DEF IInv
    <3>3. /\ Paired(connections, machines) = connections
          /\ Adoptions(connections, machines) = <<>>
      BY <3>2, ClaimedStays
    <3>4. Apply = connections \o <<>>
      BY <3>3 DEF Apply
    <3>5. connections \o <<>> = connections
      BY <3>2, ConcatEmptySeq
    <3> QED
      BY <2>1, <3>4, <3>5 DEF Reconciliation
  <2>2. CASE UNCHANGED mcVars
    BY <2>2
  <2> QED
    BY <1>1, <2>1, <2>2 DEF Next
<1> HIDE DEF P
<1>2. Spec => [][P]_mcVars
  BY <1>1, Invariance, PTL DEF Spec
<1> QED
  BY <1>2 DEF P, Settles
=============================================================================
