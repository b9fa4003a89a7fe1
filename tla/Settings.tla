------------------------------ MODULE Settings ------------------------------
(***************************************************************************)
(* cmd/lingma-ipc-proxy/main.go, desktop/app.go: where a setting comes     *)
(* from.  The command-line program lays defaults, a file, the environment  *)
(* and its flags over each other.  The desktop app reads one file at start *)
(* and writes its own, in place, at every start and every change.          *)
(*                                                                         *)
(* Settings do not depend on each other, so a configuration is one setting *)
(* here, of one of the kinds the code treats differently: a text (host,    *)
(* model, URLs), a count (port), seconds (timeout), a switch and a list    *)
(* (remote fallback) and a choice (session mode).                          *)
(***************************************************************************)
EXTENDS Integers, SequencesExt

CONSTANTS
  Words,    \* texts, besides none and a blank
  Ports, Seconds,
  Lists     \* of words and blanks

ASSUME SettingsAssumption ==
  /\ Ports \subseteq Nat /\ Seconds \subseteq Int
  /\ Lists \subseteq Seq(Words \cup {"", " "})

VARIABLES
  kind,   \* of the setting looked at
  files,  \* place -> what the file there says
  app,    \* the desktop app: "off" or "on"
  cfg,    \* App.cfg, while it is on
  kept    \* history: <<v>> when the user's last choice v was saved and no crash
          \* has cut off a save since

settingsVars == <<kind, files, app, cfg, kept>>

\* A place before the app's own file stands for the program's, the current and
\* the home directory, all of which the app looks in first.
Places == {"current", "currentLegacy", "own", "ownLegacy"}

\* What a file can say; "", 0, and <<>> is what is read for a missing key.
Values == [text |-> {"", " "} \cup Words, count |-> {0} \cup Ports, seconds |-> {0} \cup Seconds,
           switch |-> {"", "on", "off"}, list |-> {<<>>} \cup Lists,
           choice |-> {"", "auto", "reuse", "odd"}]

\* What the settings page can send.
PageValues == [Values EXCEPT !.seconds = {n \in @ : n >= 0}, !.switch = {"on", "off"}, !.choice = {"auto", "reuse"}]

Default == [text |-> "d", count |-> 9, seconds |-> 0, switch |-> "on",
            list |-> <<"d", "e">>, choice |-> "auto"]

File(state, value) == [state |-> state, value |-> value]
Absent == File("absent", Default[kind])
Torn == File("torn", Default[kind])  \* not JSON: the program died writing it
Whole(value) == File("whole", value)

-----------------------------------------------------------------------------
(* main.go *)

Trim(text) == IF text = " " THEN "" ELSE text

cleanStringSlice(values) ==
  FoldLeft(LAMBDA out, v : IF Trim(v) = "" \/ Contains(out, v) THEN out ELSE Append(out, v), <<>>, values)

Parsed(value) ==
  CASE kind \in {"text", "choice"} -> Trim(value)
    [] kind = "list" -> cleanStringSlice(value)
    [] OTHER -> value

Invalid(value) == kind = "choice" /\ value = "odd"

\* Whether a file says anything about the setting.
Says(value) ==
  CASE kind \in {"text", "choice"} -> Trim(value) # ""
    [] kind = "count" -> value > 0
    [] kind = "seconds" -> value >= 0
    [] kind = "switch" -> value # ""
    [] kind = "list" -> value # <<>>

overlayFileConfig(value, file) == IF Says(file) THEN Parsed(file) ELSE value

\* A variable is unset, <<>>, or set, <<v>>; a list is set as one string.
EnvSays(env) == env # <<>> /\ Says(env[1]) /\ (kind = "list" => env[1] # <<" ">>)
overlayEnvConfig(value, env) == IF EnvSays(env) THEN Parsed(env[1]) ELSE value

FirstPresent(paths) ==
  LET i == SelectInSeq(paths, LAMBDA p : files[p].state # "absent")
  IN  IF i = 0 THEN <<>> ELSE <<paths[i]>>

resolveConfigPath(arg, env) ==
  IF arg # <<>> THEN arg
  ELSE IF env # <<>> THEN env
  ELSE FirstPresent(<<"current", "currentLegacy">>)

\* Mutant: the file is laid over the environment.
loadConfigFileLast(arg, envPath, env, flag) ==
  LET path == resolveConfigPath(arg, envPath)
      readable == path = <<>> \/ files[path[1]].state = "whole"
      laid == overlayEnvConfig(Default[kind], env)
      filed == IF path = <<>> \/ ~readable THEN laid ELSE overlayFileConfig(laid, files[path[1]].value)
      value == IF flag = <<>> THEN filed ELSE Parsed(flag[1])
  IN  [starts |-> readable /\ ~Invalid(filed) /\ ~Invalid(laid) /\ ~Invalid(value), value |-> value]

\* With --config or LINGMA_PROXY_CONFIG at `arg` or `envPath`, the setting's
\* variable at `env` and its flag at `flag`.  A flag counts as given, whatever it
\* says; an invalid layer stops the program even when a higher one replaces it.
loadConfig(arg, envPath, env, flag) ==
  LET path == resolveConfigPath(arg, envPath)
      readable == path = <<>> \/ files[path[1]].state = "whole"
      filed == IF path = <<>> \/ ~readable THEN Default[kind]
               ELSE overlayFileConfig(Default[kind], files[path[1]].value)
      laid == overlayEnvConfig(filed, env)
      value == IF flag = <<>> THEN laid ELSE Parsed(flag[1])
  IN  [starts |-> /\ readable
                  /\ ~Invalid(filed) /\ ~Invalid(laid) /\ ~Invalid(value)
                  /\ kind = "choice" => value # "",
       value  |-> value]

-----------------------------------------------------------------------------
(* app.go *)

\* Mutant: a switch is a bool, not a pointer to one.
AppSaysIfOn(value) ==
  IF kind \in {"text", "choice"} THEN value # "" ELSE Says(value) /\ (kind = "switch" => value = "on")

\* The app takes texts and choices as they are, a blank one too.
AppSays(value) == IF kind \in {"text", "choice"} THEN value # "" ELSE Says(value)

\* The first file there is; one that is not JSON leaves the defaults.
defaultConfig ==
  LET path == FirstPresent(<<"current", "currentLegacy", "own", "ownLegacy">>)
      file == IF path = <<>> THEN Absent ELSE files[path[1]]
  IN  IF file.state # "whole" \/ ~AppSays(file.value) THEN Default[kind]
      ELSE IF kind = "list" THEN cleanStringSlice(file.value)
      ELSE file.value

\* What the service makes of the setting.
Effective(value) ==
  IF kind = "list" /\ cleanStringSlice(value) = <<>> THEN Default.list
  ELSE IF kind = "list" THEN cleanStringSlice(value)
  ELSE value

\* Written, not written, or cut off with the app.
saveConfig(value, choice) ==
  \/ /\ files' = [files EXCEPT !.own = Whole(value)]
     /\ app' = "on" /\ cfg' = value /\ kept' = choice
  \/ /\ UNCHANGED files
     /\ app' = "on" /\ cfg' = value
     /\ kept' = IF choice = kept THEN kept ELSE <<>>
  \/ /\ files' = [files EXCEPT !.own = Torn]
     /\ app' = "off" /\ cfg' = Default[kind] /\ kept' = <<>>

startup == app = "off" /\ saveConfig(defaultConfig, kept) /\ UNCHANGED kind

UpdateConfig ==
  /\ app = "on"
  /\ \E value \in PageValues[kind] : saveConfig(value, <<value>>)
  /\ UNCHANGED kind

Quit ==
  /\ app = "on"
  /\ app' = "off" /\ cfg' = Default[kind]
  /\ UNCHANGED <<kind, files, kept>>

SettingsInit ==
  /\ kind \in DOMAIN Values
  /\ files \in [Places -> {Absent, Torn} \cup {Whole(v) : v \in Values[kind]}]
  /\ app = "off" /\ cfg = Default[kind] /\ kept = <<>>

SettingsNext == startup \/ UpdateConfig \/ Quit

SettingsSpec == SettingsInit /\ [][SettingsNext]_settingsVars

-----------------------------------------------------------------------------
(* Properties *)

Cleared(value) ==
  CASE kind = "text" -> value = "" [] kind = "count" -> value = 0
    [] kind = "list" -> value = <<>> [] OTHER -> FALSE

\* What the user chose last on the settings page is what the app serves while it
\* is on and what every later start serves, however many starts and failed saves
\* come between: unless a file the app looks at first is in the way, or a save
\* was cut off.  Only a setting that was cleared comes back as its default.
SavedSurvives ==
  LET first == files.current.state # "absent" \/ files.currentLegacy.state # "absent"
      expected == IF Cleared(kept[1]) THEN Default[kind] ELSE Effective(kept[1])
  IN  kept # <<>> /\ ~first =>
        IF app = "off" THEN Effective(defaultConfig) = expected
        ELSE Effective(cfg) \in {Effective(kept[1]), expected}

\* Of flag, environment and file the highest that gives the setting decides, and
\* what the layers below it say makes no difference, but that an invalid or
\* unreadable one keeps the program from starting.  Started beside the app with
\* the app's own file, it serves what the app does, but that it ignores a blank
\* text and refuses an odd choice, which the app takes.
Precedence ==
  LET Optional(values) == {<<>>} \cup {<<v>> : v \in values}
      flags == Optional(Values[kind] \ (IF kind = "switch" THEN {""} ELSE {}))
      own == loadConfig(<<"own">>, <<>>, <<>>, <<>>)
      blank == kind \in {"text", "choice"} /\ Trim(cfg) = ""
  IN  app = "on" =>
      /\ \A arg \in Optional(Places), env \in Optional(Values[kind]), flag \in flags :
           LET path == resolveConfigPath(arg, <<>>)
               file == IF path = <<>> THEN Absent ELSE files[path[1]]
               given == flag
                          \o (IF EnvSays(env) THEN env ELSE <<>>)
                          \o (IF file.state = "whole" /\ Says(file.value) THEN <<file.value>> ELSE <<>>)
               r == loadConfig(arg, <<>>, env, flag)
           IN  /\ r.starts => r.value = IF given = <<>> THEN Default[kind] ELSE Parsed(given[1])
               /\ r.starts <=> /\ path = <<>> \/ file.state = "whole"
                               /\ \A i \in DOMAIN given : ~Invalid(given[i])
                               /\ kind = "choice" => flag # <<"">>
      /\ files.own = Whole(cfg) =>
           /\ own.starts <=> ~Invalid(cfg)
           /\ own.starts => Effective(own.value) =
                IF blank \/ Cleared(cfg) THEN Default[kind] ELSE Effective(cfg)
=============================================================================
