----------------------------- MODULE KicadIndex -----------------------------
(***************************************************************************)
(* The index of the KiCad symbol libraries (kicad_index.py, kicad.py): it  *)
(* is built again for every snapshot, and a library with the same content  *)
(* is not parsed again.  A library is its content, and Parsed[content] its *)
(* symbols; a content that cannot be parsed has none and leaves a warning. *)
(***************************************************************************)
EXTENDS Naturals, SequencesExt

CONSTANT Parsed

NoCache == [libraries |-> << >>, revision |-> 0]

\* A mutant of Rebuilt: a library that was indexed is not read again.
RebuiltByPath(cache, snapshot, revision) ==
  LET kept == DOMAIN snapshot \cap DOMAIN cache.libraries IN
  [revision |-> revision,
   libraries |-> [p \in DOMAIN snapshot |->
     [content |-> snapshot[p],
      symbols |-> IF p \in kept THEN cache.libraries[p].symbols ELSE Parsed[snapshot[p]]]]]

\* build.  snapshot is a function from paths to contents.
Rebuilt(cache, snapshot, revision) ==
  LET kept == {p \in DOMAIN snapshot \cap DOMAIN cache.libraries :
                 cache.libraries[p].content = snapshot[p]}
      records(p) == IF p \in kept THEN cache.libraries[p].symbols ELSE Parsed[snapshot[p]]
  IN
  IF cache.revision = revision
     /\ DOMAIN snapshot = DOMAIN cache.libraries /\ kept = DOMAIN snapshot
    THEN cache
  ELSE [revision |-> revision,
        libraries |-> [p \in DOMAIN snapshot |->
                         [content |-> snapshot[p], symbols |-> records(p)]]]

\* The records of a library: a library that is reused gets the new revision.
Stamped(cache, p) ==
  {[path |-> p, symbol |-> symbol, revision |-> cache.revision] :
     symbol \in ToSet(cache.libraries[p].symbols)}

IndexOf(cache) == UNION {Stamped(cache, p) : p \in DOMAIN cache.libraries}
=============================================================================
