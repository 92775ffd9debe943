------------------------------ MODULE Dependencies ------------------------------
(***************************************************************************)
(* The files a JSFX refers to (collect_dependencies in                     *)
(* runner/jsfxtest.py) and their installation beside it in the profile     *)
(* (install_jsfx in provision/base.py).  The walk is a depth-first search; *)
(* its recursion is the variable `stack`.                                  *)
(*                                                                         *)
(* A path is a sequence of names; a reference is one that may begin with   *)
(* ".."; "/" in front makes it absolute.                                   *)
(***************************************************************************)
EXTENDS SequencesExt

CONSTANTS
  Names,      \* of files and directories
  Subject,    \* the path of the JSFX
  MaxDeps     \* _max

ASSUME WalkAssumption ==
  /\ {"..", "/", "Effects", "ReaProof"} \subseteq Names
  /\ Subject \in Seq(Names) \ {<<>>} /\ MaxDeps \in Nat

VARIABLES
  tree,       \* the files: path -> [refs, source, readable]
  stack,      \* calls of walk that have not returned: [file, dir, refs]
  seen, deps, missing

walkVars == <<stack, seen, deps, missing>>

(* os.path.normpath(os.path.join(dir, ref)) *)
Descend(path, name) ==
  IF name = ".." /\ path # <<>> /\ Last(path) # ".." THEN Front(path)
                                                     ELSE Append(path, name)
Normal(dir, ref) ==
  LET path[n \in 0..Len(ref)] == IF n = 0 THEN dir ELSE Descend(path[n - 1], ref[n])
  IN path[Len(ref)]

Absolute(ref) == Head(ref) = "/"

(* f.parent / ref *)
Target(file, ref) == IF Absolute(ref) THEN Tail(ref) ELSE Normal(Front(file), ref)

(* More than one level above the subject's directory. *)
TooHigh(rel) == Len(rel) > 1 /\ rel[1] = ".." /\ rel[2] = ".."

Frame(file, dir) == [file |-> file, dir |-> dir, refs |-> tree[file].refs]

WalkInit ==
  /\ stack = <<Frame(Subject, <<>>)>>
  /\ seen = {Subject} /\ deps = <<>> /\ missing = {}

Top == Last(stack)
Ref == Head(Top.refs)
Rel == Normal(Top.dir, Ref)
Found == ~Absolute(Ref) /\ ~TooHigh(Rel) /\ Target(Top.file, Ref) \in DOMAIN tree

Rest == [stack EXCEPT ![Len(stack)].refs = Tail(@)]

Miss ==
  /\ stack # <<>> /\ Top.refs # <<>> /\ ~Found
  /\ missing' = missing \cup {Ref} /\ stack' = Rest
  /\ UNCHANGED <<seen, deps>>

(* The bound is looked at when a file is entered, and silently. *)
MutEnters(file) == Len(deps') < MaxDeps
Enters(file) == file \notin seen /\ Len(deps') < MaxDeps

MutDirname(rel) == <<>>
Dirname(rel) == Front(rel)

(* The file is recorded; a source file is walked, unless it was before.    *)
Follow ==
  /\ stack # <<>> /\ Top.refs # <<>> /\ Found
  /\ LET file == Target(Top.file, Ref)
     IN /\ deps' = Append(deps, [file |-> file, rel |-> Rel])
        /\ IF tree[file].source /\ Enters(file)
           THEN /\ seen' = seen \cup {file}
                /\ stack' = IF tree[file].readable
                            THEN Append(Rest, Frame(file, Dirname(Rel))) ELSE Rest
           ELSE stack' = Rest /\ UNCHANGED seen
  /\ UNCHANGED missing

Return ==
  /\ stack # <<>> /\ Top.refs = <<>>
  /\ stack' = Front(stack)
  /\ UNCHANGED <<seen, deps, missing>>

Walked == stack = <<>>

-----------------------------------------------------------------------------
(* Installation *)

Root == <<"Effects", "ReaProof">>

Copies == <<[file |-> Subject, rel |-> <<Last(Subject)>>]>> \o deps

Place(copy) == Normal(Root, copy.rel)

(* What is installed at a place: of two copies the later. *)
Installed ==
  [place \in {Place(Copies[i]) : i \in DOMAIN Copies} |->
     Copies[Max({i \in DOMAIN Copies : Place(Copies[i]) = place})].file]

=============================================================================
