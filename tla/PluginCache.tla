------------------------------ MODULE PluginCache ------------------------------
(***************************************************************************)
(* The VST scan cache of REAPER and its completion                         *)
(* (provision/plugin_cache.py).  REAPER scans a plug-in unless the         *)
(* [vstcache] section has its key with its present mtime; a protected      *)
(* plug-in hangs a scan.  So every plug-in in the scan directories is      *)
(* given an entry.                                                         *)
(*                                                                         *)
(* A cache file is a sequence of lines, section headers and entries.  An   *)
(* entry of REAPER's own is rich (size, id, display name); one that was    *)
(* synthesised is bare.  The key is the name of the bundle, so bundles of  *)
(* one name in two directories share it.                                   *)
(***************************************************************************)
EXTENDS SequencesExt

CONSTANTS
  Keys,        \* names of bundles
  Dirs,        \* scan directories, 1..n in the order they are scanned
  Stamps,      \* mtimes
  None,        \* no such bundle
  Broken,      \* a bundle that cannot be stat'ed
  MaxChanges   \* plug-ins installed, updated or removed

VARIABLES
  disk,        \* disk[d][k]: the mtime of bundle k in directory d
  warm,        \* the cache file of the project, NoFile: none
  completed,   \* history: the disk at the last completion, NoFile: none
  before,      \* history: the file before the last completion
  changes      \* how often the disk has changed

cacheVars == <<disk, warm, completed, before, changes>>

NoFile == <<None>>

Section(name) == [section |-> TRUE, name |-> name, stamp |-> None, rich |-> FALSE]
Entry(k, stamp) == [section |-> FALSE, name |-> k, stamp |-> stamp, rich |-> FALSE]
VstCache == Section("vstcache")

Line == {Section(name) : name \in {"vstcache", "xvst3_compat"}}
        \cup [section : {FALSE}, name : Keys, stamp : Stamps, rich : BOOLEAN]
CacheFile == {NoFile} \cup Seq(Line)
Disk == [Dirs -> [Keys -> Stamps \cup {None, Broken}]]

(* A bundle has not the name of a section. *)
ASSUME CacheAssumption ==
  /\ Dirs \subseteq Nat /\ IsFiniteSet(Dirs) /\ IsFiniteSet(Keys)
  /\ (Keys \cup {None}) \cap {"vstcache", "xvst3_compat"} = {} /\ None \notin Line
  /\ {None, Broken} \cap Stamps = {}
  /\ MaxChanges \in Nat

CacheTypeOK ==
  /\ disk \in Disk /\ completed \in Disk \cup {NoFile}
  /\ warm \in CacheFile /\ before \in CacheFile
  /\ changes \in 0..MaxChanges

Entries(file) == {i \in DOMAIN file : ~file[i].section}

-----------------------------------------------------------------------------
(* complete_cache *)

(* The stamp of a key, in whatever section: the last line wins. *)
Existing(file, k) ==
  LET at == {i \in Entries(file) : file[i].name = k}
  IN IF at = {} THEN None ELSE file[Max(at)].stamp

(* Directories with a bundle k whose mtime the file does not have. *)
Differing(file, k) ==
  {d \in Dirs : disk[d][k] \in Stamps /\ disk[d][k] # Existing(file, k)}

(* The entries to write: of two bundles with one key the later directory's. *)
Upserts(file) ==
  [k \in {k \in Keys : Differing(file, k) # {}} |-> disk[Max(Differing(file, k))][k]]

Inserts(pending) == SetToSeq({Entry(k, pending[k]) : k \in DOMAIN pending})

(* One line of _write_entries: a header ends the section before it, and    *)
(* what is pending goes in front of it; a pending key is replaced in place, *)
(* in whatever section it is.                                              *)
MutWriteLine(acc, line) ==
  IF line.section
  THEN [out     |-> acc.out \o (IF acc.inside THEN Inserts(acc.pending) ELSE <<>>)
                    \o <<line>>,
        pending |-> IF acc.inside THEN <<>> ELSE acc.pending,
        inside  |-> line = VstCache,
        seen    |-> acc.seen \/ line = VstCache]
  ELSE IF line.name \in DOMAIN acc.pending
  THEN [acc EXCEPT !.out = Append(@, Entry(line.name, acc.pending[line.name]))]
  ELSE [acc EXCEPT !.out = Append(@, line)]
WriteLine(acc, line) ==
  IF line.section
  THEN [out     |-> acc.out \o (IF acc.inside THEN Inserts(acc.pending) ELSE <<>>)
                    \o <<line>>,
        pending |-> IF acc.inside THEN <<>> ELSE acc.pending,
        inside  |-> line = VstCache,
        seen    |-> acc.seen \/ line = VstCache]
  ELSE IF line.name \in DOMAIN acc.pending
  THEN [acc EXCEPT !.out = Append(@, Entry(line.name, acc.pending[line.name])),
                   !.pending = Restrict(@, DOMAIN @ \ {line.name})]
  ELSE [acc EXCEPT !.out = Append(@, line)]

MutWriteEntries(file, upserts) == file \o Inserts(upserts)
WriteEntries(file, upserts) ==
  LET begin == [out |-> <<>>, pending |-> upserts, inside |-> FALSE, seen |-> FALSE]
      acc[n \in 0..Len(file)] == IF n = 0 THEN begin ELSE WriteLine(acc[n - 1], file[n])
      end == acc[Len(file)]
  IN end.out \o (IF DOMAIN end.pending # {} /\ ~end.seen THEN <<VstCache>> ELSE <<>>)
             \o Inserts(end.pending)

(* Without a file, or with nothing to write, it is left alone. *)
Completed(file) ==
  IF file = NoFile \/ DOMAIN Upserts(file) = {}
  THEN file ELSE WriteEntries(file, Upserts(file))

Complete ==
  /\ warm' = Completed(warm)
  /\ completed' = disk /\ before' = warm
  /\ UNCHANGED <<disk, changes>>

-----------------------------------------------------------------------------
(* The user installs, updates or removes a plug-in. *)
ChangeDisk ==
  /\ changes < MaxChanges /\ changes' = changes + 1
  /\ \E d \in Dirs, k \in Keys, stamp \in Stamps \cup {None} :
       /\ stamp # disk[d][k]
       /\ disk' = [disk EXCEPT ![d][k] = stamp]
  /\ UNCHANGED <<warm, completed, before>>

(* What REAPER scans: each bundle whose key and mtime [vstcache] lacks.    *)
SectionOf(file, i) ==
  LET above == {j \in 1..i : file[j].section}
  IN IF above = {} THEN None ELSE file[Max(above)].name

Knows(file, k, stamp) ==
  file # NoFile /\ \E i \in Entries(file) :
    file[i].name = k /\ file[i].stamp = stamp /\ SectionOf(file, i) = "vstcache"

Scanned(file) ==
  {p \in Dirs \X Keys :
     disk[p[1]][p[2]] # None /\ ~Knows(file, p[2], disk[p[1]][p[2]])}

=============================================================================
