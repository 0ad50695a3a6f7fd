--------------------------- MODULE SourceCaches ---------------------------
(***************************************************************************)
(* The caches of prepared sources: the server's SourceCache                *)
(* (server/src/source_cache.rs), hot maps in front of a directory, and the *)
(* browser's WebSourceCache (client/src/source_cache.rs), a map in front   *)
(* of an IndexedDB database.                                               *)
(*                                                                         *)
(* Every server session opens its own cache on the same default directory, *)
(* and the clones of one cache share its maps: workers of one process and  *)
(* of several run here, one lock section or file operation at a time.  A   *)
(* process may end at any point; what it left in the directory stays.      *)
(***************************************************************************)
EXTENDS Cues, FiniteSetsExt

CONSTANTS
    Workers,        \* threads that resolve sources
    Caches,         \* opened caches; the clones of one are one
    Prepared,       \* the prepared sources
    MaxHot,         \* max_hot_entries, memory_cache_entries
    MaxBytes,       \* max_object_material_bytes
    DedupEnabled,   \* optimizations.dedup_enabled
    InMemoryOnly,   \* in_memory_only
    CleanupOnDrop,  \* cleanup_on_drop
    MaxClock,       \* bound: seconds that pass
    MaxCalls,       \* bound: calls of resolve_source
    MaxRestarts     \* bound: processes that end

ASSUME CacheBounds == /\ MaxHot \in Nat \ {0}
                      /\ MaxBytes \in Nat
                      /\ {DedupEnabled, InMemoryOnly, CleanupOnDrop} \subseteq BOOLEAN

VARIABLES
    cacheOf,         \* the cache a worker holds a clone of
    kind,            \* "server" or "web": what the caches are
    hot_descriptors, \* per cache: descriptors in insertion order
    hot_objects,     \* per cache: cached objects in insertion order
    counted,         \* per cache: object_material_bytes
    sparse_index,    \* per cache
    content,         \* on disk: descriptor files by source hash
    material,        \* on disk: object files by storage key
    records,         \* on disk: the second copies under objects/
    directories,     \* on disk: whether the directories that `new` makes are there
    worker,          \* per worker: where it is in resolve_source
    clock, restarts, \* seconds passed, processes ended
    calls, users     \* sources asked for, workers that asked

maps == <<hot_descriptors, hot_objects, counted, sparse_index>>
disk == <<content, material, records, directories>>
bounds == <<cacheOf, kind, clock, restarts>>
cacheVars == <<maps, disk, worker, bounds, calls, users>>

(***************************************************************************)
(* The insertion-ordered maps.                                             *)
(***************************************************************************)
Entry(id, value) == [id |-> id, value |-> value]

Find(map, id) == {i \in DOMAIN map : map[i].id = id}

\* IndexMap::insert: a key that is there keeps its place.
map_insert(map, id, value) ==
    IF Find(map, id) = {} THEN Append(map, Entry(id, value))
    ELSE [i \in DOMAIN map |-> IF map[i].id = id THEN Entry(id, value) ELSE map[i]]

evict_if_over_capacity(map) ==
    IF Len(map) > MaxHot THEN SubSeq(map, Len(map) - MaxHot + 1, Len(map)) ELSE map

map_remove(map, id) ==
    IF Find(map, id) = {} THEN map ELSE RemoveAt(map, CHOOSE i \in Find(map, id) : TRUE)

ValueOf(map, id) == map[CHOOSE i \in DOMAIN map : map[i].id = id].value

(***************************************************************************)
(* Cached objects and files.                                               *)
(***************************************************************************)
KeyOf(source) ==
    storage_key(object_cache_key_from_bytes(source.descriptor, source.canonical_bytes))

cached_chpmt_object(source) ==
    [descriptor |-> source.descriptor, exact_bytes |-> source.canonical_bytes]

\* fs::write empties the file before it writes it.
TornFile == [whole |-> FALSE, len |-> 0]

WholeFile(value, len) == [whole |-> TRUE, len |-> len, value |-> value, at |-> clock]

Put(files, id, file) == [f \in DOMAIN files \union {id} |-> IF f = id THEN file ELSE files[f]]

Delete(files, id) == [f \in DOMAIN files \ {id} |-> files[f]]

DiskBytes == MapThenSumSet(LAMBDA id : material[id].len, DOMAIN material)

SaturatingSub(a, b) == IF a < b THEN 0 ELSE a - b

(***************************************************************************)
(* Workers.                                                                *)
(***************************************************************************)
NoResult == [done |-> FALSE]

Idle(result) == [pc |-> "idle", result |-> result]

\* What resolve_source returned: an error or the object, and for which source.
Ok(source, cached, hit) ==
    [done |-> TRUE, ok |-> TRUE, source |-> source, cached |-> cached, hit |-> hit]
Err(source) == [done |-> TRUE, ok |-> FALSE, source |-> source]

At(pc, source) == [pc |-> pc, source |-> source]

Go(w, state) == worker' = [worker EXCEPT ![w] = state]

Return(w, result) == Go(w, Idle(result))

Hot(w) == hot_objects[cacheOf[w]]

SetHot(w, map) == hot_objects' = [hot_objects EXCEPT ![cacheOf[w]] = map]

SetDescriptors(w, map) == hot_descriptors' = [hot_descriptors EXCEPT ![cacheOf[w]] = map]

Source(w) == worker[w].source

InitWith(which) ==
    /\ kind = which
    /\ cacheOf \in [Workers -> Caches]
    /\ hot_descriptors = [c \in Caches |-> <<>>]
    /\ hot_objects = [c \in Caches |-> <<>>]
    /\ counted = [c \in Caches |-> 0]
    /\ sparse_index = [c \in Caches |-> {}]
    /\ content = <<>>
    /\ material = <<>>
    /\ records = {} /\ directories = TRUE
    /\ worker = [w \in Workers |-> Idle(NoResult)]
    /\ clock = 0 /\ restarts = 0 /\ calls = 0 /\ users = {}

CachesInit == \E which \in {"server", "web"} : InitWith(which)

\* lookup_or_materialize: the key, and the look into the hot map.
resolve_source(w, s) ==
    /\ worker[w].pc = "idle"
    /\ calls < MaxCalls /\ calls' = calls + 1
    /\ users' = users \union {w}
    /\ IF ~DedupEnabled
       THEN Return(w, Ok(s, cached_chpmt_object(s), FALSE))
       ELSE IF Find(Hot(w), KeyOf(s)) # {}
       THEN Return(w, Ok(s, ValueOf(Hot(w), KeyOf(s)), TRUE))
       ELSE Go(w, At(IF kind = "web" THEN "get" ELSE IF InMemoryOnly THEN "store" ELSE "exists", s))
    /\ UNCHANGED <<maps, disk, bounds>>

\* lookup_predictive_material: path.exists.
lookup_exists(w) ==
    /\ worker[w].pc = "exists"
    /\ Go(w, At(IF KeyOf(Source(w)) \in DOMAIN material THEN "read" ELSE "store", Source(w)))
    /\ UNCHANGED <<maps, disk, bounds, calls, users>>

\* Reading and decoding the file: a file that is gone or torn is an error.
\* The object is promoted to the hot map, its descriptor without eviction.
lookup_predictive_material(w) ==
    /\ worker[w].pc = "read"
    /\ LET s == Source(w)
           key == KeyOf(s)
       IN IF key \in DOMAIN material /\ material[key].whole
          THEN LET cached == material[key].value
               IN /\ SetHot(w, evict_if_over_capacity(map_insert(Hot(w), key, cached)))
                  /\ SetDescriptors(w, map_insert(hot_descriptors[cacheOf[w]],
                                                  cached.descriptor.source_hash, cached.descriptor))
                  /\ Return(w, Ok(s, cached, TRUE))
          ELSE Return(w, Err(s)) /\ UNCHANGED <<hot_objects, hot_descriptors>>
    /\ UNCHANGED <<counted, sparse_index, disk, bounds, calls, users>>

\* store_source: the hot descriptor, then its file, emptied and written.  A
\* file is made only where its directory is.
store_source(w) ==
    /\ worker[w].pc = "store" /\ kind = "server"
    /\ LET d == Source(w).descriptor
       IN /\ SetDescriptors(w, evict_if_over_capacity(
                map_insert(hot_descriptors[cacheOf[w]], d.source_hash, d)))
          /\ content' = IF InMemoryOnly \/ ~directories THEN content
                        ELSE Put(content, d.source_hash, TornFile)
    /\ IF InMemoryOnly \/ directories THEN Go(w, At("hot", Source(w))) ELSE Return(w, Err(Source(w)))
    /\ UNCHANGED <<hot_objects, counted, sparse_index, material, records, directories, bounds, calls, users>>

\* The descriptor's file is whole, unless it was removed while it was written
\* (the write goes through to the removed file); the object enters the hot map.
store_hot(w) ==
    /\ worker[w].pc = "hot"
    /\ LET s == Source(w)
           d == s.descriptor
       IN /\ content' = IF InMemoryOnly \/ ~directories THEN content
                        ELSE Put(content, d.source_hash, WholeFile(d, d.byte_len))
          /\ SetHot(w, evict_if_over_capacity(map_insert(Hot(w), KeyOf(s), cached_chpmt_object(s))))
          /\ IF InMemoryOnly THEN Return(w, Ok(s, cached_chpmt_object(s), FALSE))
             ELSE Go(w, At("open", s))
    /\ UNCHANGED <<hot_descriptors, counted, sparse_index, material, records, directories, bounds, calls, users>>

\* The object's file: its length so far, then it is emptied.
store_open(w) ==
    /\ worker[w].pc = "open"
    /\ LET key == KeyOf(Source(w))
           previous == IF key \in DOMAIN material THEN material[key].len ELSE 0
       IN IF directories
          THEN /\ material' = Put(material, key, TornFile)
               /\ Go(w, [pc |-> "write", source |-> Source(w), previous |-> previous])
          ELSE material' = material /\ Return(w, Err(Source(w)))
    /\ UNCHANGED <<maps, content, records, directories, bounds, calls, users>>

\* The object's file is whole, unless it was removed meanwhile; its second copy
\* and its index entry follow, whose directories are made first.
store_write(w) ==
    /\ worker[w].pc = "write"
    /\ LET s == Source(w)
           key == KeyOf(s)
       IN /\ material' = IF ~directories THEN material
                         ELSE Put(material, key, WholeFile(cached_chpmt_object(s), s.descriptor.byte_len))
          /\ records' = records \union {key}
          /\ sparse_index' = [sparse_index EXCEPT ![cacheOf[w]] = index_insert(@,
                IndexEntry(key, s.descriptor.kind, "exact_state",
                           derive_sparse_cue(s.descriptor.kind, s.canonical_bytes)))]
          /\ Go(w, [worker[w] EXCEPT !.pc = "count"])
    /\ UNCHANGED <<hot_descriptors, hot_objects, counted, content, directories, bounds, calls, users>>

store_count(w) ==
    /\ worker[w].pc = "count"
    /\ counted' = [counted EXCEPT ![cacheOf[w]] =
                      SaturatingSub(@, worker[w].previous) + Source(w).descriptor.byte_len]
    /\ Go(w, At("prune", Source(w)))
    /\ UNCHANGED <<hot_descriptors, hot_objects, sparse_index, disk, bounds, calls, users>>

Stored(w) == Ok(Source(w), cached_chpmt_object(Source(w)), FALSE)

\* prune_predictive_object_material_if_needed: the counter is read, then the
\* directory; files that cannot be decoded are passed over.
prune_read(w) ==
    /\ worker[w].pc = "prune"
    /\ IF counted[cacheOf[w]] <= MaxBytes
       THEN Return(w, Stored(w))
       ELSE Go(w, [pc |-> "scan", source |-> Source(w), total |-> counted[cacheOf[w]]])
    /\ UNCHANGED <<maps, disk, bounds, calls, users>>

\* The files in some order of last access, the order of a tie the directory's.
prune_scan(w) ==
    /\ worker[w].pc = "scan" /\ directories
    /\ LET files == {f \in DOMAIN material : material[f].whole}
       IN \E todo \in SetToSeqs(files) :
            /\ \A i \in 1 .. Len(todo) - 1 : material[todo[i]].at <= material[todo[i + 1]].at
            /\ Go(w, [pc |-> "remove", source |-> Source(w), total |-> worker[w].total,
                      todo |-> [i \in DOMAIN todo |-> [file |-> todo[i], len |-> material[todo[i]].len]]])
    /\ UNCHANGED <<maps, disk, bounds, calls, users>>

\* read_dir of a directory that was removed.
prune_scan_fails(w) ==
    /\ worker[w].pc = "scan" /\ ~directories
    /\ Return(w, Err(Source(w)))
    /\ UNCHANGED <<maps, disk, bounds, calls, users>>

\* One file goes, from the hot map too; a file that is gone ends the call.
prune_remove(w) ==
    /\ worker[w].pc = "remove"
    /\ worker[w].todo # <<>> /\ worker[w].total > MaxBytes
    /\ LET next == Head(worker[w].todo)
       IN /\ SetHot(w, map_remove(Hot(w), next.file))
          /\ IF next.file \in DOMAIN material
             THEN /\ material' = Delete(material, next.file)
                  /\ Go(w, [worker[w] EXCEPT !.todo = Tail(@), !.total = SaturatingSub(@, next.len)])
             ELSE material' = material /\ Return(w, Err(Source(w)))
    /\ UNCHANGED <<hot_descriptors, counted, sparse_index, content, records, directories, bounds, calls, users>>

\* Faulty: the counter keeps the total from before the files were removed.
FaultyPruneEnd(w) ==
    /\ worker[w].pc = "remove"
    /\ worker[w].todo = <<>> \/ worker[w].total <= MaxBytes
    /\ Return(w, Stored(w))
    /\ UNCHANGED <<maps, disk, bounds, calls, users>>

prune_end(w) ==
    /\ worker[w].pc = "remove"
    /\ worker[w].todo = <<>> \/ worker[w].total <= MaxBytes
    /\ counted' = [counted EXCEPT ![cacheOf[w]] = worker[w].total]
    /\ Return(w, Stored(w))
    /\ UNCHANGED <<hot_descriptors, hot_objects, sparse_index, disk, bounds, calls, users>>

\* lookup_object_material_descriptor: the hot descriptor, or the file's.
lookup_source(w, s) ==
    /\ worker[w].pc = "idle" /\ kind = "server"
    /\ LET hash == s.descriptor.source_hash
           map == hot_descriptors[cacheOf[w]]
       IN /\ Find(map, hash) = {} /\ ~InMemoryOnly /\ hash \in DOMAIN content
          /\ content[hash].whole
          /\ SetDescriptors(w, evict_if_over_capacity(map_insert(map, hash, content[hash].value)))
    /\ UNCHANGED <<hot_objects, counted, sparse_index, disk, worker, bounds, calls, users>>

(***************************************************************************)
(* The browser's cache.  Every request to the database may fail; what was  *)
(* put before stays.  The map makes room by dropping any one entry.        *)
(***************************************************************************)
\* The maps that may result: at capacity any entry goes, whichever the hash
\* map lists first, even when the key is there already.
insert_object_memory(map, id, value) ==
    IF Len(map) >= MaxHot
    THEN {map_insert(map_remove(map, map[i].id), id, value) : i \in DOMAIN map}
    ELSE {map_insert(map, id, value)}

\* A request to the database fails and its error is returned.
request_fails(w) ==
    /\ kind = "web" /\ worker[w].pc \in {"get", "store", "put"}
    /\ Return(w, Err(Source(w)))
    /\ UNCHANGED <<maps, disk, bounds, calls, users>>

lookup_object_material(w) ==
    /\ worker[w].pc = "get"
    /\ LET s == Source(w)
           key == KeyOf(s)
       IN IF key \in DOMAIN material
          THEN /\ \E new \in insert_object_memory(Hot(w), key, material[key].value) : SetHot(w, new)
               /\ Return(w, Ok(s, material[key].value, TRUE))
          ELSE Go(w, At("store", s)) /\ UNCHANGED hot_objects
    /\ UNCHANGED <<hot_descriptors, counted, sparse_index, disk, bounds, calls, users>>

\* store_chpmt_object: the descriptor, the object, the index, the map.
put_descriptor(w) ==
    /\ worker[w].pc = "store" /\ kind = "web"
    /\ LET d == Source(w).descriptor
       IN content' = Put(content, d.source_hash, WholeFile(d, d.byte_len))
    /\ Go(w, At("put", Source(w)))
    /\ UNCHANGED <<maps, material, records, directories, bounds, calls, users>>

put_object(w) ==
    /\ worker[w].pc = "put"
    /\ LET s == Source(w)
           key == KeyOf(s)
       IN /\ material' = Put(material, key, WholeFile(cached_chpmt_object(s), s.descriptor.byte_len))
          /\ sparse_index' = [sparse_index EXCEPT ![cacheOf[w]] = index_insert(@,
                IndexEntry(key, s.descriptor.kind, "exact_state",
                           derive_sparse_cue(s.descriptor.kind, s.canonical_bytes)))]
          /\ \E new \in insert_object_memory(Hot(w), key, cached_chpmt_object(s)) : SetHot(w, new)
          /\ Return(w, Stored(w))
    /\ UNCHANGED <<hot_descriptors, counted, content, records, directories, bounds, calls, users>>

(***************************************************************************)
(* Processes end, with their workers wherever they are, and are opened     *)
(* again: SourceCache::new makes the directories and counts nothing that   *)
(* is on disk.                                                             *)
(***************************************************************************)
crash(c) ==
    /\ restarts < MaxRestarts
    /\ restarts' = restarts + 1
    /\ hot_descriptors' = [hot_descriptors EXCEPT ![c] = <<>>]
    /\ hot_objects' = [hot_objects EXCEPT ![c] = <<>>]
    /\ counted' = [counted EXCEPT ![c] = 0]
    /\ sparse_index' = [sparse_index EXCEPT ![c] = {}]
    /\ worker' = [w \in Workers |-> IF cacheOf[w] = c THEN Idle(NoResult) ELSE worker[w]]
    /\ directories' = TRUE
    /\ UNCHANGED <<content, material, records, cacheOf, kind, clock, calls, users>>

\* Some clone of a cache is dropped, a temporary one too, wherever the workers
\* are: the tree of files goes, and what the other clones hold in memory stays.
drop_clone ==
    /\ kind = "server" /\ CleanupOnDrop
    /\ content' = <<>> /\ material' = <<>> /\ records' = {} /\ directories' = FALSE
    /\ UNCHANGED <<maps, worker, bounds, calls, users>>

tick ==
    /\ clock < MaxClock
    /\ clock' = clock + 1
    /\ UNCHANGED <<maps, disk, worker, cacheOf, kind, restarts, calls, users>>

Step(w) ==
    \/ \E s \in Prepared : resolve_source(w, s) \/ lookup_source(w, s)
    \/ lookup_exists(w) \/ lookup_predictive_material(w)
    \/ store_source(w) \/ store_hot(w) \/ store_open(w) \/ store_write(w) \/ store_count(w)
    \/ prune_read(w) \/ prune_scan(w) \/ prune_scan_fails(w) \/ prune_remove(w) \/ prune_end(w)
    \/ request_fails(w) \/ lookup_object_material(w) \/ put_descriptor(w) \/ put_object(w)

CachesNext == \/ \E w \in Workers : Step(w)
        \/ \E c \in Caches : crash(c)
        \/ drop_clone \/ tick

CachesSpec == CachesInit /\ [][CachesNext]_cacheVars

(***************************************************************************)
(* Properties.                                                             *)
(***************************************************************************)
\* A hit is as good as a miss (lookup_or_materialize): whatever was evicted,
\* promoted, pruned, left torn by a crash or stored by another process, a
\* resolved source has the canonical bytes and the hash of the source asked
\* for, and a source that normalises to the same text shares its object.
ResolvedIsExact ==
    \A w \in Workers :
        LET r == worker[w].result
        IN worker[w].pc = "idle" /\ r.done /\ r.ok =>
            /\ r.cached.exact_bytes = r.source.canonical_bytes
            /\ r.cached.descriptor.source_hash = r.source.descriptor.source_hash

\* One thread in one process that opened an empty directory.
Alone == Cardinality(users) <= 1 /\ restarts = 0

\* A cache that has the directory to itself (prune_predictive_object_material_if_needed):
\* between two calls its object files are within the maximum and its counter is
\* what they hold, no lookup meets a torn file and no prune a file that is gone,
\* so that every source resolves.  Once a clone was dropped that takes the
\* directory with it (Drop for SourceCache), only the maximum is kept: the counter
\* may say more than is there, and what the hot map does not have is an error.
AloneIsSound ==
    kind = "server" /\ Alone /\ (\A w \in Workers : worker[w].pc = "idle") =>
        /\ DiskBytes <= MaxBytes
        /\ \A w \in users : ~InMemoryOnly => counted[cacheOf[w]] >= DiskBytes
        /\ directories =>
             /\ \A w \in users : ~InMemoryOnly => counted[cacheOf[w]] = DiskBytes
             /\ \A w \in Workers : worker[w].result.done => worker[w].result.ok

=============================================================================
