---------------------------- MODULE BlockchainDB ----------------------------
(***************************************************************************)
(* The key-value store of the node (src/src/storage/leveldb.cpp).  A key   *)
(* prefix ("b:", "h:", ...) is a table, and a store gives each table its   *)
(* partial function from keys to values.                                   *)
(*                                                                         *)
(* The store has two engines.  With LevelDB a write goes to a log on disk; *)
(* a batch is written with sync = true, a single put without, so what a    *)
(* loss of power leaves is one of the stores since the last batch.  The    *)
(* other engine, a std::map, is used by a build without LevelDB and when   *)
(* LevelDB cannot be opened, and is gone with the process.                 *)
(***************************************************************************)
EXTENDS Naturals, FiniteSets

CONSTANTS Engines,    \* engines open() may end up with, of "leveldb", "memory"
          WritesFail  \* whether LevelDB may refuse a write

VARIABLES opened,  \* the flag every operation tests first
          engine,  \* what open() chose: the handle ldb is null iff "memory"
          disk,    \* the LevelDB store as its readers see it
          stable,  \* the stores a loss of power may leave on disk
          memdb    \* the std::map

dbVars == <<opened, engine, disk, stable, memdb>>

Tables == {"b", "h", "t", "u", "meta"}

None == [x \in {} |-> x]

\* A table is a partial function; values are not constrained here.
IsStore(s) == /\ s = [t \in Tables |-> s[t]]
              /\ \A t \in Tables : s[t] = [k \in DOMAIN s[t] |-> s[t][k]]

DBTypeOK == /\ opened \in BOOLEAN
            /\ engine \in Engines
            /\ IsStore(disk) /\ IsStore(memdb)
            /\ disk \in stable /\ \A s \in stable : IsStore(s)

EmptyStore == [t \in Tables |-> None]

\* DBBatch: the puts, as a store, are applied before the deletions.
Apply(store, puts, dels) ==
  [t \in Tables |->
     [k \in (DOMAIN store[t] \cup DOMAIN puts[t]) \ dels[t] |->
        IF k \in DOMAIN puts[t] THEN puts[t][k] ELSE store[t][k]]]

One(t, k, v) == [EmptyStore EXCEPT ![t] = [x \in {k} |-> v]]

NoDels == [t \in Tables |-> {}]

-----------------------------------------------------------------------------
Init == /\ opened = FALSE /\ engine \in Engines
        /\ disk = EmptyStore /\ stable = {EmptyStore} /\ memdb = EmptyStore

\* open: a LevelDB that cannot be opened leaves the object on its map.
Open == /\ engine' \in Engines
        /\ opened' = TRUE
        /\ UNCHANGED <<disk, stable, memdb>>

\* One write.  No caller looks at the result, so a write to a closed store or
\* one that LevelDB refuses leaves no trace.
Refused == ~opened \/ (engine = "leveldb" /\ WritesFail)

\* Mutant: LevelDB loses the block of a batch and keeps the rest.
TornWrite(puts, dels, sync) ==
  \/ Refused /\ UNCHANGED dbVars
  \/ /\ opened /\ engine = "leveldb"
     /\ disk' = Apply(disk, [puts EXCEPT !["b"] = None], dels)
     /\ stable' = IF sync THEN {disk'} ELSE stable \cup {disk'}
     /\ UNCHANGED <<opened, engine, memdb>>

Write(puts, dels, sync) ==
  \/ Refused /\ UNCHANGED dbVars
  \/ /\ opened /\ engine = "leveldb"
     /\ disk' = Apply(disk, puts, dels)
     /\ stable' = IF sync THEN {disk'} ELSE stable \cup {disk'}
     /\ UNCHANGED <<opened, engine, memdb>>
  \/ /\ opened /\ engine = "memory"
     /\ memdb' = Apply(memdb, puts, dels)
     /\ UNCHANGED <<opened, engine, disk, stable>>

Put(t, k, v)           == Write(One(t, k, v), NoDels, FALSE)
SetMeta(k, v)          == Put("meta", k, v)

\* Mutant: a batch is not forced to disk either.
UnsyncedBatch(puts, dels) == Write(puts, dels, FALSE)

WriteBatch(puts, dels) == Write(puts, dels, TRUE)

\* What get and scan read.
Visible == IF engine = "leveldb" THEN disk ELSE memdb

Has(t, k) == opened /\ k \in DOMAIN Visible[t]

\* The object is destroyed: ~BlockchainDB closes the store and the map goes
\* with the object.  A process that dies does no less: the operating system
\* still writes what LevelDB handed to it.
Close == /\ opened' = FALSE /\ memdb' = EmptyStore
         /\ UNCHANGED <<engine, disk, stable>>

\* The machine loses power.
PowerLoss == /\ opened' = FALSE /\ memdb' = EmptyStore
             /\ disk' \in stable /\ stable' = {disk'}
             /\ UNCHANGED engine
=============================================================================
