------------------------------ MODULE AltMints ------------------------------
(***************************************************************************)
(* The map of tracked stonk.fun mints (database/alt_mints.rs): loaded at   *)
(* start, refreshed by a background task while the CPMM handler reads it.  *)
(* A refresh drops the mints that left the scope, then writes every row of *)
(* the new scope over the old one; each DashMap operation is atomic.       *)
(***************************************************************************)
EXTENDS Naturals

CONSTANTS TrackedMints,  \* mints alt_mints may hold
          Infos,         \* values of AltMintInfo, as far as handlers see them
          Absent,        \* no row
          MaxAltChanges  \* bound: how often alt_mints changes

ASSUME AltAssumption == MaxAltChanges \in Nat /\ Absent \notin Infos

VARIABLES
    altDb,       \* mint -> its row of alt_mints in scope, or Absent
    altMints,    \* the shared DashMap
    apc,         \* the refresh task: "idle", "retain", "insert"
    fresh,       \* the rows it fetched
    todo,        \* the mints of fresh it has still to insert
    altChanges,  \* bound counter
    before       \* history: the map when the refresh began

avars == <<altDb, altMints, apc, fresh, todo, altChanges, before>>

AltMap == [TrackedMints -> Infos \cup {Absent}]

Rows(f) == {m \in TrackedMints : f[m] # Absent}

\* load_alt_mints, before the stream starts.
AInit == /\ altDb \in AltMap
         /\ altMints = altDb /\ fresh = altDb /\ before = altDb
         /\ apc = "idle" /\ todo = {} /\ altChanges = 0

\* External: a mint enters or leaves the scope, or its row changes.
ChangeAltDb ==
    /\ altChanges < MaxAltChanges
    /\ altChanges' = altChanges + 1
    /\ \E m \in TrackedMints, i \in Infos \cup {Absent} :
          altDb[m] # i /\ altDb' = [altDb EXCEPT ![m] = i]
    /\ UNCHANGED <<altMints, apc, fresh, todo, before>>

\* refresh_alt_mints: the query.  When it fails the map is left as it was.
Fetch ==
    /\ apc = "idle"
    /\ fresh' = altDb /\ before' = altMints
    /\ apc' = "retain"
    /\ UNCHANGED <<altDb, altMints, todo, altChanges>>

\* Mutant: the map is cleared before it is filled.
RetainNothing ==
    /\ apc = "retain"
    /\ LET gone == Rows(altMints) IN
       \/ /\ \E m \in gone : altMints' = [altMints EXCEPT ![m] = Absent]
          /\ UNCHANGED <<apc, todo>>
       \/ /\ gone = {}
          /\ apc' = "insert" /\ todo' = Rows(fresh)
          /\ UNCHANGED altMints
    /\ UNCHANGED <<altDb, fresh, altChanges, before>>

\* map.retain(keep.contains), one shard at a time.
Retain ==
    /\ apc = "retain"
    /\ LET gone == Rows(altMints) \ Rows(fresh) IN
       \/ /\ \E m \in gone : altMints' = [altMints EXCEPT ![m] = Absent]
          /\ UNCHANGED <<apc, todo>>
       \/ /\ gone = {}
          /\ apc' = "insert" /\ todo' = Rows(fresh)
          /\ UNCHANGED altMints
    /\ UNCHANGED <<altDb, fresh, altChanges, before>>

\* for (mint, info) in fresh: map.insert(mint, info)
InsertInfo ==
    /\ apc = "insert"
    /\ \/ \E m \in todo : /\ altMints' = [altMints EXCEPT ![m] = fresh[m]]
                          /\ todo' = todo \ {m}
                          /\ UNCHANGED apc
       \/ /\ todo = {}
          /\ apc' = "idle"
          /\ UNCHANGED <<altMints, todo>>
    /\ UNCHANGED <<altDb, fresh, altChanges, before>>

ANext == ChangeAltDb \/ Fetch \/ Retain \/ InsertInfo

(* "Replace the map contents atomically per key": during a refresh a       *)
(* reader finds the old row of a mint or the new one, never a third state; *)
(* a mint that stays in scope is never missing.                            *)
AtomicPerKey ==
    /\ \A m \in TrackedMints : altMints[m] \in {before[m], fresh[m]}
    /\ apc = "idle" => altMints = fresh

=============================================================================
