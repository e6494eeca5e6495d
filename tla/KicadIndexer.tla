---------------------------- MODULE KicadIndexer ----------------------------
(***************************************************************************)
(* An indexer of the KiCad libraries over its life (KicadSymbolIndexer in  *)
(* kicad_index.py): snapshots are built one after another, in any order    *)
(* and at any revision, and each build starts from the cache of the last   *)
(* one that succeeded.                                                     *)
(***************************************************************************)
EXTENDS KicadIndex

CONSTANTS
  Paths,       \* of the files of a snapshot
  Contents,    \* of a file, as told apart by their SHA-256
  LibraryOf,   \* the library a file belongs to: its directory, or the file itself
  Allowed,     \* the libraries that are indexed
  Revisions    \* of the repository; 0 is none

VARIABLES
  indexCache,  \* what the indexer keeps of the last build that succeeded
  lastBuild    \* the last snapshot and what came of it

indexerVars == <<indexCache, lastBuild>>

\* Two records with one id (KicadSymbolIndex.__post_init__): files of one
\* library that have symbols of one name, or a file that has two.
Clashes(cache) ==
  \E p, q \in DOMAIN cache.libraries :
    /\ LibraryOf[p] = LibraryOf[q]
    /\ \E i \in DOMAIN cache.libraries[p].symbols, j \in DOMAIN cache.libraries[q].symbols :
         /\ <<p, i>> # <<q, j>>
         /\ cache.libraries[p].symbols[i].name = cache.libraries[q].symbols[j].name

\* What the caller of build gets: the records, or an error.
ResultOf(cache) ==
  [duplicate |-> Clashes(cache), records |-> IF Clashes(cache) THEN {} ELSE IndexOf(cache)]

Sources(files) == [p \in {q \in DOMAIN files : LibraryOf[q] \in Allowed} |-> files[p]]

Snapshots == UNION {[P -> Contents] : P \in SUBSET Paths}

IndexerInit ==
  /\ indexCache = NoCache
  /\ lastBuild = [files |-> << >>, revision |-> 0, result |-> ResultOf(NoCache)]

\* The index is constructed before the cache is replaced: a build that fails
\* leaves the cache of the one before.
Build(files, revision) ==
  LET cache == Rebuilt(indexCache, Sources(files), revision) IN
  /\ indexCache' = IF Clashes(cache) THEN indexCache ELSE cache
  /\ lastBuild' = [files |-> files, revision |-> revision, result |-> ResultOf(cache)]

IndexerNext == \E files \in Snapshots, revision \in Revisions : Build(files, revision)

IndexerSpec == IndexerInit /\ [][IndexerNext]_indexerVars

\* Whatever was built before, moved, renamed, removed, put back or refused, a
\* build gives what a new indexer would make of the snapshot, and fails exactly
\* where that would (KicadSymbolIndexer.build).
IncrementalIndexIsFresh ==
  lastBuild.result
    = ResultOf(Rebuilt(NoCache, Sources(lastBuild.files), lastBuild.revision))
=============================================================================
