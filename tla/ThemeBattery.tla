----------------------------- MODULE ThemeBattery -----------------------------
(***************************************************************************)
(* The theme battery (runner/themetest.py): lint of the zip, then in a     *)
(* REAPER a capture of the main window, the load of the theme, and a       *)
(* second capture.  "Visibly applied" is that enough of it has changed.    *)
(*                                                                         *)
(* traits  bare (a .ReaperTheme: nothing to lint)                          *)
(* flaws   badzip, badmember (a member that cannot be read), rejected,     *)
(*         inactive, unpainted                                             *)
(***************************************************************************)
EXTENDS OfflineRender

(* lint_theme_zip; the .ReaperTheme member is read outside of its try.     *)
Lint ==
  /\ step = "lint"
  /\ \/ Has("bare") /\ Add("structure", "skipped") /\ Go("capture")
     \/ ~Has("bare") /\ Flawed("badzip") /\ Add("structure", "failed") /\ Emit
     \/ ~Has("bare") /\ Flawed("badmember") /\ Raise /\ UNCHANGED results
     \/ /\ ~Has("bare") /\ ~Flawed("badzip") /\ ~Flawed("badmember")
        /\ Add("structure", "passed") /\ Go("capture")
  /\ UNCHANGED <<subject, package, engine, mishaps, renderVars, loopVars>>

(* REAPER comes up and its main window is captured. *)
Capture ==
  /\ step = "capture"
  /\ \/ OpenSession /\ Go("open") /\ UNCHANGED mishaps
     \/ Mishap("no capture") /\ Raise /\ UNCHANGED engine
  /\ UNCHANGED <<subject, package, results, renderVars, loopVars>>

(* The theme REAPER names is the subject. *)
Readback == ~Flawed("inactive")

OpenTheme ==
  /\ step = "open"
  /\ IF ~Flawed("rejected") /\ Readback
     THEN Add("load", "passed") /\ Go("paint") /\ UNCHANGED engine
     ELSE Add("load", "failed") /\ Emit /\ CloseSession
  /\ UNCHANGED <<subject, package, mishaps, renderVars, loopVars>>

(* Captures of different sizes count as changed altogether.                *)
Visible == (~Flawed("unpainted") /\ ~Flawed("inactive")) \/ "resized" \in mishaps'

Paint ==
  /\ step = "paint"
  /\ UNCHANGED mishaps \/ Mishap("resized")
  /\ AddAll({<<"paint", IF Visible THEN "passed" ELSE "failed">>,
             <<"layouts", "passed">>})
  /\ Emit /\ CloseSession
  /\ UNCHANGED <<subject, package, renderVars, loopVars>>

ThemeRaises ==
  /\ \/ EvalRaises({"open", "paint"}) /\ UNCHANGED renderVars
     \/ NoSession({"capture"})
  /\ UNCHANGED loopVars

ThemeStep ==
  /\ subject.kind = "theme"
  /\ \/ Lint \/ Capture \/ OpenTheme \/ Paint \/ ThemeRaises

=============================================================================
