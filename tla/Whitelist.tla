----------------------------- MODULE Whitelist -----------------------------
(***************************************************************************)
(* The set of whitelisted mints (database/whitelist.rs): loaded at start,  *)
(* refreshed by a background task while handlers read it.  The set is a    *)
(* DashSet: every insert, removal and lookup is atomic, but clear() works  *)
(* shard by shard and the whole refresh is not one step.                   *)
(***************************************************************************)
EXTENDS Naturals

CONSTANTS Mints,       \* mints of all_mints
          MaxChanges   \* bound: how often all_mints changes

ASSUME ChangesAssumption == MaxChanges \in Nat

VARIABLES
    allMints,    \* the mints all_mints has with whitelisted = true
    whitelist,   \* the shared DashSet
    wpc,         \* the refresh task: "idle", "clear", "insert"
    rows,        \* the mints its query returned and it has not inserted yet
    changes,     \* bound counter
    \* History, read by properties only:
    loaded,      \* what the last query returned
    prev         \* what the query before it returned

wvars == <<allMints, whitelist, wpc, rows, changes, loaded, prev>>

\* load_whitelist, before the stream starts.
WInit == /\ allMints \in SUBSET Mints
         /\ whitelist = allMints /\ loaded = allMints /\ prev = allMints
         /\ wpc = "idle" /\ rows = {} /\ changes = 0

\* External: some other service edits all_mints.
ChangeMints ==
    /\ changes < MaxChanges
    /\ changes' = changes + 1
    /\ allMints' \in SUBSET Mints \ {allMints}
    /\ UNCHANGED <<whitelist, wpc, rows, loaded, prev>>

\* refresh_whitelist: the query.  When it fails the set is left as it was.
QueryMints ==
    /\ wpc = "idle"
    /\ rows' = allMints /\ loaded' = allMints /\ prev' = loaded
    /\ wpc' = "clear"
    /\ UNCHANGED <<allMints, whitelist, changes>>

\* whitelist.clear(), one shard at a time.
Clear ==
    /\ wpc = "clear"
    /\ \/ /\ \E m \in whitelist : whitelist' = whitelist \ {m}
          /\ UNCHANGED wpc
       \/ /\ whitelist = {}
          /\ wpc' = "insert"
          /\ UNCHANGED whitelist
    /\ UNCHANGED <<allMints, rows, changes, loaded, prev>>

\* for row in &rows: whitelist.insert(row.get(0))
Insert ==
    /\ wpc = "insert"
    /\ \/ \E m \in rows : /\ whitelist' = whitelist \cup {m}
                          /\ rows' = rows \ {m}
                          /\ UNCHANGED wpc
       \/ /\ rows = {}
          /\ wpc' = "idle"
          /\ UNCHANGED <<whitelist, rows>>
    /\ UNCHANGED <<allMints, changes, loaded, prev>>

WNext == ChangeMints \/ QueryMints \/ Clear \/ Insert

=============================================================================
