---------------------------- MODULE ProjectKeys ----------------------------
(***************************************************************************)
(* The data-encryption keys of one project: dek/dek.go and the table       *)
(* project_encryption_keys.                                                *)
(*                                                                         *)
(* A key is a random value kept, wrapped, in a row with its version. One   *)
(* row is active; what an earlier version sealed is opened with the row of *)
(* that version. Every server process caches the active key for a while,   *)
(* so it may go on sealing with a key another process has retired.         *)
(*                                                                         *)
(* The operations are the steps between two awaits; the module that uses   *)
(* the keys says who takes them.                                           *)
(***************************************************************************)
EXTENDS Naturals, FiniteSets

CONSTANTS Procs,           \* server processes, each with a cache
          MaxVersion       \* bound on the versions a rotation creates

ASSUME VersionAssumption == MaxVersion \in Nat \ {0}

VARIABLES keys,            \* rows of project_encryption_keys
          minted,          \* random keys generated so far
          cache            \* each process's cached active key, or NoKey

keyVars == <<keys, minted, cache>>

Key   == [version : Nat, dek : Nat]
NoKey == [version |-> 0, dek |-> 0]
KeyRow == [version : Nat, dek : Nat, status : {"active", "retired"}]

KeysTypeOK ==
  /\ keys \in SUBSET KeyRow
  /\ minted \in Nat
  /\ cache \in [Procs -> Key]

KeysInit ==
  /\ keys = {} /\ minted = 0
  /\ cache = [p \in Procs |-> NoKey]

Active       == {k \in keys : k.status = "active"}
HasVersion(v) == \E k \in keys : k.version = v
KeyOf(row)   == [version |-> row.version, dek |-> row.dek]

-----------------------------------------------------------------------------
\* Broken: as if the check made before were enough.
InsertFirstKeyBlind ==
  /\ minted' = minted + 1
  /\ keys' = keys \cup {[version |-> 1, dek |-> minted + 1,
                         status |-> "active"]}
  /\ UNCHANGED cache

\* EnsureProjectKey, after it has seen no active key: the INSERT of version 1
\* does nothing if another caller has inserted it.
InsertFirstKey ==
  /\ minted' = minted + 1
  /\ keys' = IF HasVersion(1) THEN keys
             ELSE keys \cup {[version |-> 1, dek |-> minted + 1,
                              status |-> "active"]}
  /\ UNCHANGED cache

Retired(rows, v) ==
  {IF k.version = v THEN [k EXCEPT !.status = "retired"] ELSE k : k \in rows}

\* RotateProjectKey's transaction, for the active version read before: it is
\* retired and the next one inserted, or, when that one exists, neither.
RotateFrom(v) ==
  /\ v < MaxVersion
  /\ minted' = minted + 1
  /\ keys' = IF HasVersion(v + 1) THEN keys
             ELSE Retired(keys, v) \cup
                    {[version |-> v + 1, dek |-> minted + 1,
                      status |-> "active"]}
  /\ UNCHANGED cache

\* The rotating process forgets its cached key; the others keep theirs.
DropCached(p) ==
  /\ cache' = [cache EXCEPT ![p] = NoKey]
  /\ UNCHANGED <<keys, minted>>

\* setCached, with the key Unwrap read before.
SetCached(p, key) ==
  /\ cache' = [cache EXCEPT ![p] = key]
  /\ UNCHANGED <<keys, minted>>

\* The cached key has become older than cacheTTL.
Expire(p) ==
  /\ cache[p] # NoKey
  /\ DropCached(p)

\* UnwrapVersion: the row of that version holds the key that sealed it.
Opens(key) == \E k \in keys : k.version = key.version /\ k.dek = key.dek

\* Broken: as if what was sealed were always opened with the active key.
OpensWithActive(key) == \E k \in Active : k.dek = key.dek

-----------------------------------------------------------------------------
\* However creations and rotations of the key interleave, in whichever
\* processes, no version has two keys and at most one is active, so that a
\* version names one key and Unwrap reads one row.
OneActiveKey ==
  /\ Cardinality(Active) <= 1
  /\ \A j, k \in keys : j.version = k.version => j = k
=============================================================================
