-------------------------------- MODULE Profile --------------------------------
(***************************************************************************)
(* What a JSFX is tested in: the profile that assemble_profile             *)
(* (provision/base.py) builds for a launch, with a copy of the plug-in     *)
(* caches and the subject's files.  The developer completes the project's  *)
(* cache, if there is one, at some time before; plug-ins change at any     *)
(* time.                                                                   *)
(***************************************************************************)
EXTENDS PluginCache, Dependencies

CONSTANT
  Worlds      \* what there is at first: [tree, warm, user, disk]

(* A file is no directory of another one, and its path leads straight down. *)
IsTree(files) ==
  /\ Subject \in DOMAIN files
  /\ \A file \in DOMAIN files :
       /\ file \in Seq(Names \ {".."}) /\ file # <<>>
       /\ \A other \in DOMAIN files : IsPrefix(file, other) => file = other
       /\ files[file] \in [refs : Seq(Seq(Names) \ {<<>>}), source : BOOLEAN,
                           readable : BOOLEAN]

ASSUME WorldAssumption ==
  \A world \in Worlds :
    /\ IsTree(world.tree) /\ world.warm \in CacheFile /\ world.user \in CacheFile
    /\ world.disk \in Disk

VARIABLES
  phase,      \* "idle", "walk", "assemble", "launch", "missing", "raised", "launched"
  user,       \* the cache file of the user's own REAPER, NoFile: none
  seed,       \* the cache file of the profile, NoFile: none
  scanned     \* what REAPER scanned when it came up

vars == <<cacheVars, tree, walkVars, phase, user, seed, scanned>>

Init ==
  /\ \E world \in Worlds :
       /\ tree = world.tree /\ warm = world.warm
       /\ user = world.user /\ disk = world.disk
  /\ WalkInit
  /\ completed = NoFile /\ before = NoFile /\ changes = 0
  /\ phase = "idle" /\ seed = NoFile /\ scanned = {}

CompleteCache ==
  /\ phase = "idle" /\ Complete
  /\ UNCHANGED <<tree, walkVars, phase, user, seed, scanned>>

Change ==
  /\ phase # "launched" /\ ChangeDisk
  /\ UNCHANGED <<tree, walkVars, phase, user, seed, scanned>>

StartWalk ==
  /\ phase = "idle" /\ phase' = "walk"
  /\ UNCHANGED <<cacheVars, tree, walkVars, user, seed, scanned>>

Walk ==
  /\ phase = "walk"
  /\ Miss \/ Follow \/ Return
  /\ UNCHANGED <<cacheVars, tree, phase, user, seed, scanned>>

(* A missing reference is named, and nothing is launched. *)
EndWalk ==
  /\ phase = "walk" /\ Walked
  /\ phase' = IF missing = {} THEN "assemble" ELSE "missing"
  /\ UNCHANGED <<cacheVars, tree, walkVars, user, seed, scanned>>

(* The project's cache directory before the user's: it may be there, and   *)
(* have no file.                                                           *)
Sources == IF warm # NoFile THEN {warm} ELSE {NoFile, user}

(* Caches and files are copied; a file that cannot be read raises.         *)
Assemble ==
  /\ phase = "assemble"
  /\ phase' = IF \A i \in DOMAIN Copies : tree[Copies[i].file].readable
               THEN "launch" ELSE "raised"
  /\ seed' \in Sources
  /\ UNCHANGED <<cacheVars, tree, walkVars, user, scanned>>

(* REAPER comes up and scans what the profile's cache does not know.       *)
Launch ==
  /\ phase = "launch" /\ phase' = "launched"
  /\ scanned' = Scanned(seed)
  /\ UNCHANGED <<cacheVars, tree, walkVars, user, seed>>

Next == CompleteCache \/ Change \/ StartWalk \/ Walk \/ EndWalk \/ Assemble \/ Launch

Spec == Init /\ [][Next]_vars

-----------------------------------------------------------------------------
(* Properties *)

(* Every variable keeps to its type; the walk is never deeper than the     *)
(* files it has seen.                                                      *)
TypeOK ==
  /\ CacheTypeOK
  /\ phase \in {"idle", "walk", "assemble", "launch", "missing", "raised", "launched"}
  /\ user \in CacheFile /\ seed \in CacheFile
  /\ seen \subseteq DOMAIN tree /\ Len(stack) <= Cardinality(seen)
  /\ \A i \in DOMAIN deps : deps[i].file \in DOMAIN tree
  /\ scanned \subseteq Dirs \X Keys

(* Bundles of one key with different mtimes, and keys with an entry        *)
(* outside of [vstcache] before the completion, where REAPER does not look. *)
Twins(k) == \E d, e \in Dirs : completed[d][k] # completed[e][k]
                               /\ {completed[d][k], completed[e][k]} \subseteq Stamps
Orphaned(k) == \E i \in Entries(before) :
                 before[i].name = k /\ SectionOf(before, i) # "vstcache"

(* With a completed cache REAPER scans nothing that was there when it was  *)
(* completed and has not changed since: whatever sections, rich, stale or  *)
(* foreign entries the file had, a protected plug-in cannot hang the       *)
(* launch.  Twins, orphaned keys and bundles that cannot be stat'ed are    *)
(* excepted.                                                               *)
KnownIsNotScanned ==
  (phase = "launched" /\ completed # NoFile /\ warm # NoFile) =>
    \A p \in scanned :
      LET d == p[1] k == p[2]
      IN completed[d][k] # disk[d][k] \/ disk[d][k] = Broken \/ Twins(k) \/ Orphaned(k)

(* A key with two entries in [vstcache], and a [vstcache] in two parts.     *)
Twice(file, k) ==
  \E i, j \in Entries(file) :
    /\ i # j /\ file[i].name = k /\ file[j].name = k
    /\ SectionOf(file, i) = "vstcache" /\ SectionOf(file, j) = "vstcache"
Split(file) == \E i, j \in DOMAIN file : i # j /\ file[i] = VstCache /\ file[j] = VstCache

(* Completing a cache touches nothing but the entries of plug-ins that     *)
(* changed: all other lines keep their order, their section and what       *)
(* REAPER had recorded in them, and no key gets a second entry in          *)
(* [vstcache], unless that section was in two parts.                       *)
Kept(file, keys) ==
  LET kept[n \in 0..Len(file)] ==
        IF n = 0 THEN <<>>
        ELSE IF file[n].name \in keys THEN kept[n - 1] ELSE Append(kept[n - 1], file[n])
  IN kept[Len(file)]
RewriteKeepsRest ==
  [][(warm # warm' /\ warm # NoFile) =>
       LET stale == {k \in Keys : Differing(warm, k) # {}}
       IN /\ IsPrefix(Kept(warm, stale), Kept(warm', stale))
          /\ \A i \in DOMAIN Kept(warm', stale) :
               i > Len(Kept(warm, stale)) => Kept(warm', stale)[i] = VstCache
          /\ \A k \in Keys : Twice(warm', k) => Twice(warm, k) \/ Split(warm)]_vars

(* A file installed in two places: referred to through the name of the     *)
(* subject's own directory, and without.  Only one was walked.             *)
Aliased(file) ==
  \E i, j \in DOMAIN Copies : Copies[i].file = file /\ Copies[j].file = file
                              /\ Place(Copies[i]) # Place(Copies[j])

(* A directory beside the subject's has the name of the one the subject is *)
(* installed in: its files meet the subject's there.                       *)
Namesake == \E i \in DOMAIN deps : IsPrefix(<<"..", Last(Root)>>, deps[i].rel)

(* A subject that is launched finds in the profile the very files it finds *)
(* at home: every reference of every installed source file leads to the    *)
(* copy of what it leads to there.  Excepted are a walk that met its       *)
(* bound, files it does not take for source, aliases and namesakes.        *)
ResolvesAlike ==
  phase = "launched" => \A i \in DOMAIN Copies :
    LET copy == Copies[i]
    IN \/ Len(deps) >= MaxDeps
       \/ ~tree[copy.file].source
       \/ Aliased(copy.file)
       \/ Namesake
       \/ \A n \in DOMAIN tree[copy.file].refs :
            LET ref == tree[copy.file].refs[n]
                place == Normal(Front(Place(copy)), ref)
            IN place \in DOMAIN Installed /\ Installed[place] = Target(copy.file, ref)

=============================================================================
