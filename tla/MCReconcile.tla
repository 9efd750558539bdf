---------------------------- MODULE MCReconcile ----------------------------
(***************************************************************************)
(* The matching of Reconcile on every small store and every small list of   *)
(* machines: reconciled once, undisturbed, then once more.                  *)
(***************************************************************************)
EXTENDS Reconcile

CONSTANTS
    Labels, Targets, Sessions,
    MaxConns,           \* how many connections the store holds initially
    MaxMachines         \* how many machines herdr reports

\* An empty id is none that is ever assigned.
ASSUME IdsAssumption == NoProfile \notin Nat \ {0} /\ NoId \notin Nat \ {0}

ASSUME BoundsAssumption == MaxConns \in Nat /\ MaxMachines \in Nat

VARIABLES
    connections,        \* the store's connections
    machines,           \* what herdr reports
    before              \* the store as it was before the last reconciliation

mcVars == <<connections, machines, before>>

\* Machine ids are 1, 2, ...; the endpoint id MaxMachines + 1 is of a machine
\* that is gone.
Settings == [label : Labels, target : Targets, session : Sessions]

Numbered(f, ids) ==
    [i \in DOMAIN f |-> [id |-> ids[i], label |-> f[i].label,
                         target |-> f[i].target, session |-> f[i].session]]

Init ==
    /\ \E n \in 0 .. MaxMachines : \E f \in [1 .. n -> Settings] :
        machines = Numbered(f, [i \in 1 .. n |-> i])
    /\ \E n \in 0 .. MaxConns : \E f \in [1 .. n -> Settings] :
       \E p \in [1 .. n -> {NoProfile} \cup 1 .. MaxMachines + 1] :
        connections = [i \in 1 .. n |->
            [id |-> i, label |-> f[i].label, target |-> f[i].target,
             session |-> f[i].session, profile |-> p[i]]]
    /\ before = connections

\* The store after all writes of one reconciliation succeeded: corrections
\* replace their record, adoptions are appended under a fresh id.
Apply ==
    LET adopted == Adoptions(connections, machines)
    IN  Paired(connections, machines) \o
        [n \in DOMAIN adopted |-> [adopted[n] EXCEPT !.id = Len(connections) + n]]

Reconciliation ==
    /\ before' = connections
    /\ connections' = Apply
    /\ UNCHANGED machines

Next == Reconciliation

Spec == Init /\ [][Next]_mcVars

-----------------------------------------------------------------------------
\* After a reconciliation the store and herdr agree one to one: each machine is
\* claimed by exactly one connection and each claim is of a machine that
\* exists.  (docs/design.md 4; daemon.go:50-51)
OneToOne == [][
    /\ \A n \in DOMAIN machines :
        Cardinality({i \in DOMAIN connections' : connections'[i].profile = machines[n].id}) = 1
    /\ \A i \in DOMAIN connections' :
        connections'[i].profile # NoProfile =>
            \E n \in DOMAIN machines : machines[n].id = connections'[i].profile]_mcVars

\* A connection whose machine still exists keeps it, unless an earlier one
\* claimed the same: no fallback takes it (connections.go:19-20).
HoldersKeep == [][
    \A i \in DOMAIN connections :
        (/\ \E n \in DOMAIN machines : machines[n].id = connections[i].profile
         /\ \A k \in 1 .. i - 1 : connections[k].profile # connections[i].profile)
        => connections'[i].profile = connections[i].profile]_mcVars

\* No machine is adopted beside a disconnected connection of the same target
\* and label that it would have paired with.
AdoptsOnlyStrangers == [][
    \A a \in DOMAIN connections' \ DOMAIN connections : \A i \in DOMAIN connections :
        connections'[i].profile = NoProfile =>
            ~ SameSetting(connections'[i], connections'[a])]_mcVars

\* Reconciling again what a reconciliation left changes nothing, so the poll
\* every two seconds neither rewrites the file nor adopts again.
Settles == [][before # connections => connections' = connections]_mcVars
=============================================================================
