----------------------------- MODULE MCTestCommand -----------------------------
(***************************************************************************)
(* The subjects TLC tries the command on: for each battery, the traits     *)
(* that matter together, and but for two at most one flaw, so that a       *)
(* verdict is about that flaw.                                             *)
(***************************************************************************)
EXTENDS TestCommand

Of(kind, traits, flaws) ==
  UNION {LET may == flaws \cap Defects([kind |-> kind, traits |-> t])
         IN [kind : {kind}, traits : {t}, flaws : {{}} \cup {{f} : f \in may}] : t \in traits}

MCJsfx ==
  Of("jsfx", {{"sliders"}, {"sliders", "initshows"}, {"sliders", "deaf"},
              {"sliders", "initshows", "serialize"}, {"nojs", "silent"}},
     {"missing", "compile", "params", "leaks", "sick", "stalls", "varies", "param1",
      "param2"}) \cup
  Of("jsfx", {{"sliders", "serialize", "prevchunk", "noaudio"}, {"serialize", "noaudio"}},
     {"volatile", "wedges", "halfread", "oldstate"}) \cup
  Of("jsfx", {{"sliders", "initsaves", "serialize", "noaudio"},
              {"sliders", "serialize", "nopayload", "noaudio"},
              {"sliders", "serialize", "oddblock", "noaudio"},
              {"sliders", "deaf", "serialize", "noaudio"},
              {"sliders", "nochannel", "noaudio"}},
     {"volatile", "wedges", "halfread", "oldstate", "leaks"}) \cup
  Of("jsfx", {{"sliders", "quick"}, {"sliders", "nosweep"}}, {"leaks", "sick", "param1"}) \cup
  {[kind |-> "jsfx", traits |-> {"sliders", "serialize", "noaudio"},
    flaws |-> {"volatile", "leaks"}]} \cup
  Of("jsfx", {{"midi"}, {"midi", "silent"}, {"midi", "serialize"}},
     {"mute", "varies", "sick", "stalls", "noisy"}) \cup
  Of("jsfx", {{}}, {"noisy"})

MCScript ==
  Of("script", {{"lua"}, {"lua", "ui"}},
     {"lint", "header", "loaderror", "hangs", "defererror", "leaks", "noaction"}) \cup
  Of("script", {{"lua", "ui"}, {"ui"}}, {"nowindow"}) \cup
  Of("script", {{}, {"nopython"}},
     {"header", "loaderror", "hangs", "defererror", "leaks", "noaction"}) \cup
  Of("script", {{"lua", "noheader"}}, {})

MCPlugin ==
  Of("plugin", {{"params"}, {"unknown"}, {"instrument", "silent"}, {"silent"}},
     {"nonconform", "scanhang", "crash", "noload", "sick", "stalls", "noisy", "varies",
      "param1", "param2"}) \cup
  Of("plugin", {{"instrument"}}, {"noisy"}) \cup
  Of("plugin", {{"params", "nosweep"}}, {"param1"}) \cup
  {[kind |-> "plugin", traits |-> {"params"}, flaws |-> {"sick", "stalls"}]}

MCAu ==
  Of("au", {{}, {"registered"}, {"scanned"}, {"many"}, {"noninsertable"}, {"instrument"}},
     {"manifest", "invalid", "noload", "sick", "stalls", "varies"}) \cup
  Of("au", {{"quick"}}, {"noload", "sick"}) \cup
  Of("au", {{"many"}}, {"invalid2"})

MCTheme ==
  Of("theme", {{}}, {"badzip", "badmember", "rejected", "inactive", "unpainted"}) \cup
  Of("theme", {{"bare"}}, {"rejected", "inactive", "unpainted"})

MCSubjects ==
  MCJsfx \cup MCScript \cup MCPlugin \cup MCAu \cup MCTheme \cup
  Of("repo", {{}, {"noindex"}}, {"index", "rootfiles"}) \cup
  Of("absent", {{}}, {})

(* For ResetBlame: the factory reset of a sound subject. *)
MCResets == Of("jsfx", {{"sliders", "initshows"}}, {})

Jsfx(flaws) == [kind |-> "jsfx", traits |-> {"sliders"}, flaws |-> flaws]
Lua(flaws) == [kind |-> "script", traits |-> {"lua"}, flaws |-> flaws]

MCRepos ==
  {<<>>, <<Jsfx({})>>, <<Lua({"loaderror"}), Jsfx({})>>, <<Lua({}), Jsfx({"params"})>>,
   <<Lua({"hangs"}), Jsfx({})>>, <<Jsfx({"sick"})>>, <<Jsfx({}), Jsfx({}), Lua({"lint"})>>}

=============================================================================
