----------------------------- MODULE Reconcile -----------------------------
(***************************************************************************)
(* internal/daemon/connections.go: how the stored connections are matched   *)
(* with the machines that herdr reports.                                    *)
(*                                                                          *)
(* stored is a sequence of records with fields id, label, target, session   *)
(* and profile; actual is a sequence of machines with fields id, label,     *)
(* target and session, as `herdr machine list` returns them.  The matching  *)
(* only reads these two snapshots, so it is a function of them: the writes  *)
(* it decides on (Corrections, then Adoptions) are steps of module Daemon.  *)
(***************************************************************************)
EXTENDS Naturals, Sequences, Subsequences

CONSTANTS
    NoProfile,          \* the empty endpoint id
    NoId                \* the empty connection id: the store assigns one

\* The machine a connection holds by its endpoint id; the first connection in
\* the store's order wins, and at most one index results.
ById(stored, actual, i) ==
    {n \in DOMAIN actual :
        /\ stored[i].profile = actual[n].id
        /\ stored[i].profile # NoProfile
        /\ \A k \in 1 .. i - 1 : stored[k].profile # actual[n].id}

\* The fallback of a connection without such a machine (the session is not
\* compared).
SameSetting(conn, machine) ==
    conn.target = machine.target /\ conn.label = machine.label

\* Mutant: fallbacks are taken before every endpoint id is known.
PairingInOnePass(stored, actual) ==
    LET pair[i \in DOMAIN stored] ==
            LET free == {n \in DOMAIN actual : \A k \in 1 .. i - 1 : n \notin pair[k]}
                mine == ById(stored, actual, i) \cap free
                alike == {n \in free : SameSetting(stored[i], actual[n])}
            IN  IF mine # {} THEN mine
                ELSE {n \in alike : \A m \in alike : n <= m}
    IN  pair

\* Mutant: the machine taken by a fallback is not marked as taken.
PairingReusesFallback(stored, actual) ==
    LET reserved == UNION {ById(stored, actual, k) : k \in DOMAIN stored}
    IN  [i \in DOMAIN stored |->
            LET free == {n \in DOMAIN actual \ reserved :
                            SameSetting(stored[i], actual[n])}
            IN  IF ById(stored, actual, i) # {} THEN ById(stored, actual, i)
                ELSE {n \in free : \A m \in free : n <= m}]

\* Index of the machine each connection pairs with, as a set of at most one:
\* every endpoint id is reserved before the first fallback looks for a machine
\* that nobody took.
Pairing(stored, actual) ==
    LET reserved == UNION {ById(stored, actual, k) : k \in DOMAIN stored}
        pair[i \in DOMAIN stored] ==
            LET free == {n \in DOMAIN actual \ reserved :
                            /\ SameSetting(stored[i], actual[n])
                            /\ \A k \in 1 .. i - 1 : n \notin pair[k]}
            IN  IF ById(stored, actual, i) # {} THEN ById(stored, actual, i)
                ELSE {n \in free : \A m \in free : n <= m}
    IN  pair

\* Mutant: an endpoint id is recorded but never cleared.
PairedKeepsDead(stored, actual) ==
    LET pair == Pairing(stored, actual)
    IN  [i \in DOMAIN stored |->
            [stored[i] EXCEPT !.profile =
                IF pair[i] = {} THEN @ ELSE actual[CHOOSE n \in pair[i] : TRUE].id]]

\* Mutant: pairing also copies the setting that herdr holds.
PairedCopiesSetting(stored, actual) ==
    LET pair == Pairing(stored, actual)
    IN  [i \in DOMAIN stored |->
            IF pair[i] = {} THEN [stored[i] EXCEPT !.profile = NoProfile]
            ELSE LET machine == actual[CHOOSE n \in pair[i] : TRUE]
                 IN  [stored[i] EXCEPT !.profile = machine.id,
                            !.label = machine.label, !.target = machine.target]]

\* The connections with the endpoint id of the machine they paired with.
Paired(stored, actual) ==
    LET pair == Pairing(stored, actual)
    IN  [i \in DOMAIN stored |->
            [stored[i] EXCEPT !.profile =
                IF pair[i] = {} THEN NoProfile
                ELSE actual[CHOOSE n \in pair[i] : TRUE].id]]

\* The records put back into the store: those whose endpoint id changed.
Corrections(stored, actual) ==
    LET paired == Paired(stored, actual)
    IN  At(paired, {i \in DOMAIN paired : paired[i] \notin {stored[k] : k \in DOMAIN stored}})

\* Mutant: a machine is adopted unless an endpoint id matched.
AdoptionsOfUnmatchedIds(stored, actual) ==
    LET known == {stored[i].profile : i \in DOMAIN stored}
        unclaimed == At(actual, {n \in DOMAIN actual : actual[n].id \notin known})
    IN  [n \in DOMAIN unclaimed |->
            [id |-> NoId, label |-> unclaimed[n].label,
             target |-> unclaimed[n].target, session |-> unclaimed[n].session,
             profile |-> unclaimed[n].id]]

\* Mutant: an adopted connection is stored without its endpoint id.
AdoptionsWithoutProfile(stored, actual) ==
    LET paired == Paired(stored, actual)
        taken == {paired[i].profile : i \in DOMAIN stored}
        unclaimed == At(actual, {n \in DOMAIN actual : actual[n].id \notin taken})
    IN  [n \in DOMAIN unclaimed |->
            [id |-> NoId, label |-> unclaimed[n].label,
             target |-> unclaimed[n].target, session |-> unclaimed[n].session,
             profile |-> NoProfile]]

\* The new connections put for the machines that paired with nothing.
Adoptions(stored, actual) ==
    LET paired == Paired(stored, actual)
        taken == {paired[i].profile : i \in DOMAIN stored}
        unclaimed == At(actual, {n \in DOMAIN actual : actual[n].id \notin taken})
    IN  [n \in DOMAIN unclaimed |->
            [id |-> NoId, label |-> unclaimed[n].label,
             target |-> unclaimed[n].target, session |-> unclaimed[n].session,
             profile |-> unclaimed[n].id]]
=============================================================================
