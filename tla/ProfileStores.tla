--------------------------- MODULE ProfileStores ----------------------------
(***************************************************************************)
(* The stores a page sees, for one profile and origin: OriginStorage        *)
(* (crates/storage), IndexedDb with its transactions (crates/indexeddb) and *)
(* CacheStorage (crates/cache).  Every key of theirs starts with profile    *)
(* and origin, so stores of different ones share no entry.  A value is told *)
(* by its length and a cached response by a number; the events, which       *)
(* nothing reads back, are left out.                                        *)
(***************************************************************************)
EXTENDS Naturals, Functions, FiniteSetsExt

CONSTANTS LocalSpaces, SessionSpaces,  \* (namespace, kind) pairs
          StorageKeys,                 \* names of entries, each of length 1
          Lengths,                     \* lengths of values
          Quota,                       \* quota_bytes and max_bytes
          Names,                       \* names of databases, object stores and caches
          Pages,                       \* URLs
          MaxGeneration, MaxVersion, MaxEntries  \* bounds

ASSUME StoresAssumption ==
    /\ Quota \in Nat /\ MaxGeneration \in Nat /\ MaxVersion \in Nat /\ MaxEntries \in Nat
    /\ Lengths \subseteq Nat /\ IsFiniteSet(Names)

VARIABLES values,       \* OriginStorage.values
          generations,  \* OriginStorage.generations
          file,         \* Option of the storage last written by to_json
          unmetered,    \* history: namespaces with a write that asked no quota
          databases,    \* name -> Database
          tx,           \* Option of the open Transaction
          caches,       \* name -> HttpCache
          cacheFile     \* Option of the CacheStorageWire last written

storageVars == <<values, generations, file, unmetered>>
dbVars == <<databases, tx>>
cacheVars == <<caches, cacheFile>>
storeVars == <<storageVars, dbVars, cacheVars>>

Put(f, k, v) == [i \in DOMAIN f \cup {k} |-> IF i = k THEN v ELSE f[i]]
Drop(f, k) == Restrict(f, DOMAIN f \ {k})
At(f, k, default) == IF k \in DOMAIN f THEN f[k] ELSE default
Total(f) == MapThenSumSet(LAMBDA k : f[k], DOMAIN f)

StoresInit ==
    /\ values = << >> /\ generations = << >> /\ file = {} /\ unmetered = {}
    /\ databases = << >> /\ tx = {} /\ caches = << >> /\ cacheFile = {}
-----------------------------------------------------------------------------
Contents(space) == At(values, space, << >>)
generation(space) == At(generations, space, 0)

\* An entry of length n and the key's own length, 1, beside the other entries.
Used(space, key, n) == LET others == Drop(Contents(space), key)
                       IN Total(others) + Cardinality(DOMAIN others) + 1 + n

Write(space, content) ==
    /\ generation(space) < MaxGeneration
    /\ values' = Put(values, space, content)
    /\ generations' = Put(generations, space, generation(space) + 1)
    /\ UNCHANGED <<file, dbVars, cacheVars>>

set(space, key, n) ==
    /\ Write(space, Put(Contents(space), key, n))
    /\ unmetered' = unmetered \cup {space}

\* Mutant: what the namespace holds already is not counted.
OnlyTheEntryMetered(space, key, n) ==
    /\ 1 + n <= Quota
    /\ Write(space, Put(Contents(space), key, n))
    /\ UNCHANGED unmetered

set_with_quota(space, key, n) ==
    /\ Used(space, key, n) <= Quota
    /\ Write(space, Put(Contents(space), key, n))
    /\ UNCHANGED unmetered

remove(space, key) ==
    /\ key \in DOMAIN Contents(space)
    /\ Write(space, Drop(Contents(space), key))
    /\ UNCHANGED unmetered

\* Mutant: the destination keeps its own generation.
CloneKeepsGeneration(source, destination) ==
    /\ source \in SessionSpaces \cap DOMAIN values /\ destination \in SessionSpaces
    /\ values' = Put(values, destination, values[source])
    /\ unmetered' = IF source \in unmetered THEN unmetered \cup {destination}
                                            ELSE unmetered \ {destination}
    /\ UNCHANGED <<generations, file, dbVars, cacheVars>>

clone_session_namespace(source, destination) ==
    /\ source \in SessionSpaces \cap DOMAIN values /\ destination \in SessionSpaces
    /\ values' = Put(values, destination, values[source])
    /\ generations' = Put(generations, destination, generation(source))
    /\ unmetered' = IF source \in unmetered THEN unmetered \cup {destination}
                                            ELSE unmetered \ {destination}
    /\ UNCHANGED <<file, dbVars, cacheVars>>

to_json ==
    /\ values # << >>
    /\ file' = {[entries |-> [s \in DOMAIN values \cup DOMAIN generations |->
                                [values |-> Contents(s), generation |-> generation(s)]],
                 unmetered |-> unmetered]}
    /\ UNCHANGED <<values, generations, unmetered, dbVars, cacheVars>>

\* A namespace that was emptied comes back absent, with its generation.
from_json ==
    \E wire \in file :
       LET e == wire.entries
       IN /\ values' = [s \in {s \in DOMAIN e : e[s].values # << >>} |-> e[s].values]
          /\ generations' = [s \in DOMAIN e |-> e[s].generation]
          /\ unmetered' = wire.unmetered
          /\ UNCHANGED <<file, dbVars, cacheVars>>
-----------------------------------------------------------------------------
\* A transaction borrows the database: nothing else happens until it is over.
open(name, version, stores) ==
    LET db == At(databases, name, [version |-> 0, stores |-> << >>])
    IN /\ tx = {}
       /\ databases' = Put(databases, name,
             IF version < db.version THEN db
             ELSE [version |-> Max({version, db.version, 1}),
                   stores |-> [s \in DOMAIN db.stores \cup stores |->
                                 At(db.stores, s, << >>)]])
       /\ UNCHANGED <<tx, storageVars, cacheVars>>

transaction(name) ==
    /\ tx = {} /\ name \in DOMAIN databases
    /\ tx' = {[name |-> name, writes |-> << >>]}
    /\ UNCHANGED <<databases, storageVars, cacheVars>>

\* put of a value of that length, or delete: an empty Option.
put(store, key, value) ==
    \E t \in tx :
       /\ store \in DOMAIN databases[t.name].stores
       /\ tx' = {[t EXCEPT !.writes = Put(@, <<store, key>>, value)]}
       /\ UNCHANGED <<databases, storageVars, cacheVars>>

\* The contents of every object store after the writes.
Proposed(stores, writes) ==
    [s \in DOMAIN stores |->
        LET written == {k \in StorageKeys : <<s, k>> \in DOMAIN writes}
            kept == DOMAIN stores[s] \ written
            added == {k \in written : writes[<<s, k>>] # {}}
        IN [k \in kept \cup added |->
               IF k \in added THEN CHOOSE n \in writes[<<s, k>>] : TRUE ELSE stores[s][k]]]

Bytes(stores) == MapThenSumSet(LAMBDA s : Total(stores[s]), DOMAIN stores)

\* Mutant: the writes are applied until one is over the quota.
CommitSomeWrites ==
    \E t \in tx :
       LET stores == databases[t.name].stores
           proposed == Proposed(stores, t.writes)
           first == [s \in DOMAIN stores |-> IF s = CHOOSE n \in DOMAIN stores : TRUE
                                             THEN proposed[s] ELSE stores[s]]
       IN /\ databases' = IF Bytes(proposed) <= Quota
                          THEN [databases EXCEPT ![t.name].stores = proposed]
                          ELSE IF Bytes(first) <= Quota
                          THEN [databases EXCEPT ![t.name].stores = first] ELSE databases
          /\ tx' = {}
          /\ UNCHANGED <<storageVars, cacheVars>>

\* Over the quota nothing is applied; the transaction is over in any case.
commit ==
    \E t \in tx :
       LET proposed == Proposed(databases[t.name].stores, t.writes)
       IN /\ databases' = IF Bytes(proposed) > Quota THEN databases
                          ELSE [databases EXCEPT ![t.name].stores = proposed]
          /\ tx' = {}
          /\ UNCHANGED <<storageVars, cacheVars>>

\* abort, or a transaction that is dropped.
abort ==
    /\ tx # {} /\ tx' = {}
    /\ UNCHANGED <<databases, storageVars, cacheVars>>
-----------------------------------------------------------------------------
with_capacity(n) == [values |-> << >>, max_entries |-> Max({n, 1})]

\* HttpCache::put grows the cache instead of evicting.
Grown(cache, page, response) ==
    LET full == page \notin DOMAIN cache.values
                /\ Cardinality(DOMAIN cache.values) >= cache.max_entries
    IN [values |-> Put(cache.values, page, response),
        max_entries |-> IF full
                        THEN Max({cache.max_entries * 2, Cardinality(DOMAIN cache.values) + 1})
                        ELSE cache.max_entries]

CacheFrame == UNCHANGED <<storageVars, dbVars>>

open_cache(name, n) ==
    /\ caches' = IF name \in DOMAIN caches THEN caches ELSE Put(caches, name, with_capacity(n))
    /\ UNCHANGED cacheFile /\ CacheFrame

put_response(name, page, response) ==
    /\ name \in DOMAIN caches
    /\ caches' = [caches EXCEPT ![name] = Grown(@, page, response)]
    /\ UNCHANGED cacheFile /\ CacheFrame

delete_response(name, page) ==
    /\ name \in DOMAIN caches
    /\ caches' = [caches EXCEPT ![name].values = Drop(@, page)]
    /\ UNCHANGED cacheFile /\ CacheFrame

delete_cache(name) ==
    /\ caches' = Drop(caches, name)
    /\ UNCHANGED cacheFile /\ CacheFrame

save_caches == cacheFile' = {caches} /\ UNCHANGED caches /\ CacheFrame

\* Every cache is made with its recorded capacity and filled by put.
Refill(cache) ==
    MapThenFoldSet(LAMBDA page, c : Grown(c, page, cache.values[page]),
                   with_capacity(cache.max_entries),
                   LAMBDA page : page, LAMBDA S : CHOOSE page \in S : TRUE,
                   DOMAIN cache.values)

restore_caches ==
    \E wire \in cacheFile :
       /\ caches' = [name \in DOMAIN wire |-> Refill(wire[name])]
       /\ UNCHANGED cacheFile /\ CacheFrame
-----------------------------------------------------------------------------
StorageNext ==
    \/ \E s \in LocalSpaces \cup SessionSpaces, k \in StorageKeys :
          \/ \E n \in Lengths : set(s, k, n) \/ set_with_quota(s, k, n)
          \/ remove(s, k)
    \/ \E s, d \in SessionSpaces : clone_session_namespace(s, d)
    \/ to_json
    \/ from_json

DatabaseNext ==
    \/ \E d \in Names, v \in 0..MaxVersion, S \in SUBSET Names : open(d, v, S)
    \/ \E d \in Names : transaction(d)
    \/ \E s \in Names, k \in StorageKeys, v \in {{}} \cup {{n} : n \in Lengths} : put(s, k, v)
    \/ commit
    \/ abort

CacheNext ==
    \/ \E c \in Names :
          \/ \E n \in 0..MaxEntries : open_cache(c, n)
          \/ \E p \in Pages, r \in Lengths : put_response(c, p, r)
          \/ \E p \in Pages : delete_response(c, p)
          \/ delete_cache(c)
    \/ save_caches
    \/ restore_caches

(* Readers take a generation for the version of a namespace's contents: they *)
(* change with the next generation, except that a clone brings the source's  *)
(* contents with the source's generation and a restore those of the file,    *)
(* which both may lie behind.                                                *)
GenerationTells ==
    \A s \in LocalSpaces \cup SessionSpaces :
       Contents(s)' # Contents(s) =>
          \/ generation(s)' = generation(s) + 1
          \/ s \in SessionSpaces /\ \E source \in SessionSpaces :
                Contents(s)' = Contents(source) /\ generation(s)' = generation(source)
          \/ \E wire \in file :
                /\ generation(s)' = At(wire.entries, s, [generation |-> 0]).generation
                /\ Contents(s)' = At(wire.entries, s, [values |-> << >>]).values

(* No store outgrows its limit: a namespace written only under a quota stays *)
(* within it through rewrites, clones and restores; a database never holds   *)
(* more than its quota, whatever its transactions put and delete; a cache    *)
(* has room for all its entries, also when it is read back.                  *)
StoresWithinLimits ==
    /\ \A s \in DOMAIN values \ unmetered :
          Total(values[s]) + Cardinality(DOMAIN values[s]) <= Quota
    /\ \A d \in DOMAIN databases : Bytes(databases[d].stores) <= Quota
    /\ \A c \in DOMAIN caches :
          Cardinality(DOMAIN caches[c].values) <= caches[c].max_entries

(* What a transaction changes in a database it changes as a whole, at its    *)
(* end: every write of it is in effect then and nothing else is different;   *)
(* versions do not go down and object stores do not disappear.               *)
TransactionsAreAtomic ==
    \A d \in DOMAIN databases :
       LET old == databases[d]  new == databases'[d]
       IN /\ new.version >= old.version /\ DOMAIN old.stores \subseteq DOMAIN new.stores
          /\ \A s \in DOMAIN old.stores : new.stores[s] # old.stores[s] =>
                \E t \in tx : /\ t.name = d /\ tx' = {}
                              /\ new.stores = Proposed(old.stores, t.writes)

(* A store changes under a new generation and a database at the end of a     *)
(* transaction, never half (set, clone_session_namespace, commit).           *)
StoresChangeWhole == [][GenerationTells /\ TransactionsAreAtomic]_storeVars
=============================================================================
