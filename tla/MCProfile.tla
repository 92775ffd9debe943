------------------------------- MODULE MCProfile -------------------------------
(***************************************************************************)
(* Small trees and caches.  A tree is tried with one cache and a cache     *)
(* with one tree: walk and cache do not meet.                              *)
(***************************************************************************)
EXTENDS Profile

CONSTANTS a, b, t1, t2

MCNames == {"..", "/", "Effects", "ReaProof", "home", "fx", "lib", "shared",
            "s", "a", "b", "c", "d", "gone"}
MCSubject == <<"home", "fx", "s">>
A == <<"home", "fx", "lib", "a">>
B == <<"home", "fx", "lib", "b">>
C == <<"home", "shared", "c">>
D == <<"d">>
E == <<"home", "ReaProof", "s">>

File(refs) == [refs |-> refs, source |-> TRUE, readable |-> TRUE]

(* What the subject and its libraries may refer to. *)
OfSubject == {<<"lib", "a">>, <<"..", "shared", "c">>, <<"..", "fx", "lib", "a">>,
              <<"lib", "..", "lib", "b">>, <<"..", "..", "d">>, <<"gone">>,
              <<"/", "home", "shared", "c">>, <<"..", "ReaProof", "s">>}
OfA == {<<"b">>, <<"..", "s">>, <<"..", "..", "shared", "c">>, <<"..", "..", "..", "d">>}
OfC == {<<"..", "fx", "lib", "a">>, <<"..", "fx", "lib", "b">>}

AtMost(refs, n) == UNION {[1..k -> refs] : k \in 0..n}

ATree(s, as, flag, ofB, ofC) ==
  (MCSubject :> File(s)) @@ (A :> [refs |-> as, source |-> flag # "inc", readable |-> flag # "locked"])
  @@ (B :> File(ofB)) @@ (C :> File(ofC)) @@ (D :> File(<<>>))
  @@ (E :> File(<<>>))

MCTrees ==
  {ATree(s, as, flag, ofB, ofC) :
     s \in AtMost(OfSubject, 2), as \in AtMost(OfA, 1), flag \in {"source", "inc", "locked"},
     ofB \in {<<>>, <<<<"a">>>>}, ofC \in AtMost(OfC, 1)}

PlainTree == ATree(<<>>, <<>>, "source", <<>>, <<>>)

Rich(k, stamp) == [section |-> FALSE, name |-> k, stamp |-> stamp, rich |-> TRUE]
Compat == Section("xvst3_compat")

MCCaches ==
  {NoFile, <<>>, <<VstCache>>, <<VstCache, Rich(a, t1)>>,
   <<VstCache, Rich(a, t1), Entry(b, t2)>>, <<VstCache, Rich(a, t2), Compat>>,
   <<Compat, VstCache>>, <<Compat>>, <<VstCache, Compat, Entry(a, t1)>>,
   <<VstCache, Rich(b, t1), Compat, VstCache>>, <<VstCache, Compat, VstCache, Entry(a, t1)>>,
   <<VstCache, Entry(a, t1), Entry(a, t2)>>}

MCUserCaches == {NoFile, <<VstCache, Rich(a, t1), Rich(b, t1)>>}

MCDisks == [{1, 2} -> [{a, b} -> {None, Broken, t1, t2}]]

NoDisk == [d \in Dirs |-> [k \in Keys |-> None]]

MCWorlds ==
  [tree : MCTrees, warm : {NoFile}, user : {NoFile}, disk : {NoDisk}] \cup
  [tree : {PlainTree}, warm : MCCaches, user : MCUserCaches, disk : MCDisks]

(* The plug-ins stay as they are where the walk is tried. *)
MCNext == Next /\ (tree = PlainTree \/ (changes' = 0 /\ completed' = completed))

MCSpec == Init /\ [][MCNext]_vars

=============================================================================
