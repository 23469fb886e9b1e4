---------------------------- MODULE ModelCatalog ----------------------------
(***************************************************************************)
(* The catalog of a provider's models: requests that find a list in the    *)
(* memory or fetch it, one at a time per key, the copy on disk that a      *)
(* thread writes, and the credentials whose change drops the lists.        *)
(*                                                                         *)
(* Source: src/src/services/model_catalog.py, api/routes/models.py,        *)
(* api/routes/tools.py, api/routes/config.py.                              *)
(*                                                                         *)
(* A list is the account it was fetched with; so is what is stored.        *)
(***************************************************************************)
EXTENDS Naturals, FiniteSets

CONSTANTS
    Accounts,      \* credentials a user may save for the provider
    Lookups,       \* requests for the models that run at once
    MaxEntries,    \* MODEL_CACHE_MAX_ENTRIES
    CatalogEnv     \* what happens: "restart"

ASSUME CatalogAssumption == MaxEntries \in Nat \ {0} /\ IsFiniteSet(Accounts)

VARIABLES
    scope,      \* whose credentials: the worker's, or those of a tool
    keyed,      \* the credentials are an API key; those of AWS are not, and have no fingerprint
    saved,      \* the credentials in the settings
    memory,     \* _memory: per fingerprint the list and whether its time has not run out
    cacheFile,  \* the cache file
    lookup,     \* what each request does
    writer      \* the thread of _persist: its step, and the entries it has read

catalogVars == <<scope, keyed, saved, memory, cacheFile, lookup, writer>>

\* The list of account a, for a key that has one.
Entry == [of : Accounts, fresh : BOOLEAN]
Prints == Accounts \cup {"anon"}
\* _fingerprint of the API key.
Fingerprint(a) == IF keyed THEN a ELSE "anon"
Caches == UNION {[P -> Entry] : P \in SUBSET Prints}

NoLookup == [pc |-> "idle", of |-> CHOOSE a \in Accounts : TRUE, force |-> FALSE]

CatalogTypeOK ==
    /\ scope \in {"global", "tool"} /\ keyed \in BOOLEAN /\ saved \in Accounts
    /\ memory \in Caches /\ cacheFile \in Caches
    /\ lookup \in [Lookups -> [pc : {"idle", "lock", "fetch", "persist", "write"}, of : Accounts, force : BOOLEAN]]
    /\ writer \in [pc : {"none", "start", "replace"}, read : Caches]

CatalogInit ==
    /\ scope \in {"global", "tool"} /\ keyed \in BOOLEAN /\ saved \in Accounts
    /\ memory = <<>> /\ cacheFile = <<>>
    /\ lookup = [r \in Lookups |-> NoLookup]
    /\ writer = [pc |-> "none", read |-> <<>>]

-----------------------------------------------------------------------------
LockOf(r) == Fingerprint(lookup[r].of)
IsFresh(p) == p \in DOMAIN memory /\ memory[p].fresh
\* _LockMap: the requests of a key that are past its lock.
Holds(r) == lookup[r].pc \in {"fetch", "persist", "write"}
LockFree(r) == \A q \in Lookups : Holds(q) => LockOf(q) # LockOf(r)

\* list_models reads the credentials; a fresh list is answered at once, unless a refresh is
\* forced.
Lookup(r) ==
    /\ lookup[r].pc = "idle"
    /\ \E force \in BOOLEAN :
         /\ force \/ ~IsFresh(Fingerprint(saved))
         /\ lookup' = [lookup EXCEPT ![r] = [pc |-> "lock", of |-> saved, force |-> force]]
    /\ UNCHANGED <<scope, keyed, saved, memory, cacheFile, writer>>

\* Mutant: what was fetched while the request waited is not looked at.
RecheckNever(r) == FALSE
\* Inside the lock the memory is looked at again.
Recheck(r) == ~lookup[r].force /\ IsFresh(LockOf(r))
Locked(r) ==
    /\ lookup[r].pc = "lock" /\ LockFree(r)
    /\ lookup' = IF Recheck(r) THEN [lookup EXCEPT ![r] = NoLookup]
                 ELSE [lookup EXCEPT ![r].pc = "fetch"]
    /\ UNCHANGED <<scope, keyed, saved, memory, cacheFile, writer>>

\* The provider answers: the list is stored, and other entries dropped down to the limit
\* (the oldest; any here).  A failure is answered with the fallback, and stores nothing.
Fetched(r) ==
    /\ lookup[r].pc = "fetch"
    /\ \/ /\ \E P \in SUBSET (DOMAIN memory \cup {LockOf(r)}) :
               /\ LockOf(r) \in P
               /\ Cardinality(P) = IF Cardinality(DOMAIN memory \cup {LockOf(r)}) > MaxEntries THEN MaxEntries
                                   ELSE Cardinality(DOMAIN memory \cup {LockOf(r)})
               /\ memory' = [p \in P |-> IF p = LockOf(r) THEN [of |-> lookup[r].of, fresh |-> TRUE] ELSE memory[p]]
          /\ lookup' = [lookup EXCEPT ![r].pc = "persist"]
       \/ lookup' = [lookup EXCEPT ![r] = NoLookup] /\ UNCHANGED memory
    /\ UNCHANGED <<scope, keyed, saved, cacheFile, writer>>

\* _persist: one thread at a time.
Persist(r) ==
    /\ lookup[r].pc = "persist" /\ writer.pc = "none"
    /\ lookup' = [lookup EXCEPT ![r].pc = "write"]
    /\ writer' = [pc |-> "start", read |-> <<>>]
    /\ UNCHANGED <<scope, keyed, saved, memory, cacheFile>>
\* _write_disk_sync in the thread: the entries are read, and the file replaced later.
WriterReads ==
    /\ writer.pc = "start"
    /\ writer' = [pc |-> "replace", read |-> memory]
    /\ UNCHANGED <<scope, keyed, saved, memory, cacheFile, lookup>>
\* The temporary file may be gone, or the disk full: a warning.
WriterReplaces ==
    /\ writer.pc = "replace"
    /\ cacheFile' \in {cacheFile, writer.read}
    /\ writer' = [pc |-> "none", read |-> <<>>]
    /\ lookup' = [r \in Lookups |-> IF lookup[r].pc = "write" THEN NoLookup ELSE lookup[r]]
    /\ UNCHANGED <<scope, keyed, saved, memory>>

\* MODEL_CACHE_TTL_SECONDS have passed, for an entry in the memory and on disk.
Expires(p) ==
    /\ p \in DOMAIN memory /\ memory[p].fresh
    /\ memory' = [memory EXCEPT ![p].fresh = FALSE]
    /\ cacheFile' = IF p \in DOMAIN cacheFile THEN [cacheFile EXCEPT ![p].fresh = FALSE] ELSE cacheFile
    /\ UNCHANGED <<scope, keyed, saved, lookup, writer>>

\* invalidate: the entries of the scope are dropped, and the file written if there was any.
Invalidated ==
    /\ memory' = <<>>
    /\ cacheFile' = IF memory = <<>> THEN cacheFile ELSE <<>>
\* update_config: the file, the settings, and the lists of the provider, in one step.
SaveGlobal(a) ==
    /\ scope = "global"
    /\ saved' = a /\ Invalidated
    /\ UNCHANGED <<scope, keyed, lookup, writer>>
\* update_tool_settings: so for the scope of a tool, when a key of its provider changes.
SaveTool(a) ==
    /\ scope = "tool"
    /\ saved' = a /\ Invalidated
    /\ UNCHANGED <<scope, keyed, lookup, writer>>

\* The worker restarts: _load_disk.
CatalogRestarts ==
    /\ "restart" \in CatalogEnv
    /\ memory' = cacheFile
    /\ lookup' = [r \in Lookups |-> NoLookup]
    /\ writer' = [pc |-> "none", read |-> <<>>]
    /\ UNCHANGED <<scope, keyed, saved, cacheFile>>

CatalogNext ==
    \/ \E r \in Lookups : Lookup(r) \/ Locked(r) \/ Fetched(r) \/ Persist(r)
    \/ WriterReads \/ WriterReplaces \/ CatalogRestarts
    \/ \E p \in Prints : Expires(p)
    \/ \E a \in Accounts : SaveGlobal(a) \/ SaveTool(a)

CatalogSpec == CatalogInit /\ [][CatalogNext]_catalogVars

(***************************************************************************)
(* Properties                                                              *)
(***************************************************************************)
\* Requests that come together ask the provider once: one that waited for another's answer
\* takes it, as long as it is fresh and nothing was dropped, and two never ask at once
\* ("concurrent fetches for the same key are deduplicated", model_catalog.py:493).
Deduplicated ==
    [][\A r \in Lookups :
         lookup[r].pc # "fetch" /\ lookup'[r].pc = "fetch"
           => /\ ~lookup[r].force => ~IsFresh(LockOf(r))
              /\ \A q \in Lookups \ {r} : lookup[q].pc = "fetch" => LockOf(q) # LockOf(r)]_catalogVars

(***************************************************************************)
(* Claims of the repository that the code does not keep (README, section 6).*)
(***************************************************************************)
\* "swapping API keys produces fresh fetches without leaking the previous user's catalog"
\* (model_catalog.py:492): credentials without a fingerprint share a key, under which a
\* fetch that was under way stores its list after the drop.
OwnCatalog == IsFresh(Fingerprint(saved)) => memory[Fingerprint(saved)].of = saved
=============================================================================
