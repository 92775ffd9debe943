----------------------------- MODULE RepoBattery -----------------------------
(***************************************************************************)
(* The repository battery (runner/repotest.py): the index's own check, the *)
(* packages that carry a ReaPack header, and for each of them, up to a     *)
(* cap, the battery of a JSFX or a script, as step names of its own.       *)
(*                                                                         *)
(* traits  noindex (no reapack-index)                                      *)
(* flaws   index, rootfiles (packages at the root are never indexed)       *)
(***************************************************************************)
EXTENDS Battery

CONSTANT MaxPackages

ASSUME PackageAssumption == MaxPackages \in Nat \ {0}

VARIABLES
  given,      \* what the command was given
  packages    \* the repository's packages, in order

repoVars == <<given, packages>>

MutCapped == Len(packages)
(* run_list: the first packages. *)
Capped == IF Len(packages) > MaxPackages THEN MaxPackages ELSE Len(packages)

CheckIndex ==
  /\ step = "index"
  /\ \/ Has("noindex") /\ Add("index", "skipped") /\ UNCHANGED mishaps /\ Go("packages")
     \/ ~Has("noindex") /\ Mishap("slow tool") /\ Raise /\ UNCHANGED results
     \/ /\ ~Has("noindex") /\ UNCHANGED mishaps /\ Go("packages")
        /\ Add("index", IF Flawed("index") THEN "failed" ELSE "passed")
  /\ UNCHANGED <<subject, package, engine, repoVars>>

PackageCap ==
  IF Len(packages) > MaxPackages THEN {<<"budget", "skipped">>} ELSE {}

(* discover_packages, and what is left out. *)
DiscoverPackages ==
  /\ step = "packages"
  /\ LET layout == IF Flawed("rootfiles") THEN {<<"layout", "failed">>} ELSE {}
     IN IF packages = <<>>
        THEN AddAll(layout \cup {<<"discovery", "failed">>}) /\ Emit
        ELSE /\ AddAll(layout \cup {<<"discovery", "passed">>} \cup PackageCap)
             /\ Go("next package")
  /\ UNCHANGED <<subject, package, engine, mishaps, repoVars>>

NextPackage ==
  /\ step = "next package" /\ package < Capped
  /\ package' = package + 1
  /\ subject' = packages[package']
  /\ Go("static")
  /\ UNCHANGED <<results, engine, mishaps, repoVars>>

(* The verdict on a package: one that was skipped altogether has passed.   *)
Worst ==
  IF \E r \in results : r[1] = package /\ r[3] = "failed" THEN "failed" ELSE "passed"

PackageTested ==
  /\ step = "packaged"
  /\ Add("package", Worst)
  /\ Go("next package")
  /\ UNCHANGED <<subject, package, engine, mishaps, repoVars>>

RepoTested ==
  /\ step = "next package" /\ package = Capped
  /\ subject' = given /\ package' = 0
  /\ step' = "emitted"
  /\ UNCHANGED <<results, engine, mishaps, repoVars>>

RepoStep ==
  /\ given.kind = "repo"
  /\ \/ CheckIndex \/ DiscoverPackages \/ NextPackage \/ PackageTested \/ RepoTested

=============================================================================
