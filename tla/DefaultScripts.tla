------------------------------ MODULE DefaultScripts ------------------------------
(***************************************************************************)
(* Config and the part of Script that uses it: which script a new device gets, *)
(* and where the files of scripts are looked for each time one is loaded.      *)
(***************************************************************************)
EXTENDS Naturals, SequencesExt

CONSTANTS
  Environments,    \* values of XDG_CONFIG_HOME and HOME, where they are set
  Configurations,  \* config.json by place: absent, or its kind and entries
  FileNames,       \* of scripts
  Absolute,        \* those that begin with a slash
  Disks,           \* by place and name: "absent", "file" or "unreadable"
  InputDevices     \* their driver, name and serial

NoName == ""  \* an empty file name, or an empty path
Throws == "throws"  \* a JSON value that is not a string, a number or a boolean
RuleNames == {"driver", "name", "serial"}
Places == {"user", "etc", "root"}

ASSUME DefaultScriptsAssumption ==
  /\ Absolute \subseteq FileNames /\ NoName \notin FileNames
  /\ \A d \in InputDevices : DOMAIN d = RuleNames
  /\ \A d \in Disks : d \in [Places -> [FileNames -> {"absent", "file", "unreadable"}]]
  /\ \A c \in Configurations :
       /\ DOMAIN c = {"user", "etc"}
       /\ \A p \in DOMAIN c : c[p].entries \in Seq(ToSet(c[p].entries))

VARIABLES
  env,       \* the daemon's environment
  config,    \* the configuration file at each place
  disk,      \* the scripts' files
  phase,     \* "start", "ready" or "died": an exception ends the daemon
  rules,     \* default_scripts
  device,    \* of the Script object, a sequence of 0 or 1
  filename,  \* Script::_filename
  isSet,     \* history: D-Bus has set it
  search,    \* the file that is being looked for, a sequence of 0 or 1
  loaded     \* history: what the last load and its import opened

ruleVars == <<env, config, phase, rules>>
scriptFileVars == <<ruleVars, disk, device, filename, isSet, search, loaded>>
--------------------------------------------------------------------------------
(* setUserConfigPath: an empty XDG_CONFIG_HOME hides HOME.                    *)
UserConfigPath ==
  IF "XDG_CONFIG_HOME" \in DOMAIN env THEN env["XDG_CONFIG_HOME"]
  ELSE IF "HOME" \in DOMAIN env THEN env["HOME"] ELSE NoName

(* getConfigFilePath looks at the user's place, then at the system's.          *)
FirstPlace(name) ==
  IF name \in Absolute THEN "root" ELSE IF UserConfigPath # NoName THEN "user" ELSE "etc"

(* missed is a history: the user had no such file, at some time since the search *)
(* began.                                                                   *)
Search(name) ==
  [name |-> name, place |-> FirstPlace(name), found |-> name \in Absolute,
   missed |-> disk["user"][name] = "absent"]
--------------------------------------------------------------------------------
ScriptFileInit ==
  /\ env \in Environments /\ config \in Configurations /\ disk \in Disks
  /\ phase = "start" /\ rules = << >>
  /\ device = << >> /\ filename = NoName /\ isSet = FALSE /\ search = << >> /\ loaded = << >>

(* isMember of what is neither an object nor null, and asString of a list,      *)
(* throw.                                                                   *)
Invalid(e) ==
  \/ e.kind = "scalar"
  \/ e.kind = "object" /\ "file" \in DOMAIN e.props
       /\ \E k \in DOMAIN e.props \cap (RuleNames \cup {"file"}) : e.props[k] = Throws

(* Plausible mistake: what an entry without a file has put into the table stays *)
(* there, with an empty name and without rules.                             *)
AddEntry_KeepsIncomplete(e, table) ==
  Append(table,
         IF e.kind = "object" /\ "file" \in DOMAIN e.props
         THEN [file |-> e.props["file"],
               rules |-> [k \in RuleNames \cap DOMAIN e.props |-> e.props[k]]]
         ELSE [file |-> NoName, rules |-> << >>])

AddEntry(e, table) ==
  IF e.kind = "object" /\ "file" \in DOMAIN e.props
  THEN Append(table, [file |-> e.props["file"],
                      rules |-> [k \in RuleNames \cap DOMAIN e.props |-> e.props[k]]])
  ELSE table

(* A file that exists hides those of later places, readable or not.            *)
ConfigPath ==
  IF UserConfigPath # NoName /\ config["user"].kind # "absent" THEN <<"user">>
  ELSE IF config["etc"].kind # "absent" THEN <<"etc">> ELSE << >>

(* What loadConfig goes through: nothing, unless the file is found and is an   *)
(* object whose default_scripts is an array.                                *)
Entries ==
  IF ConfigPath = << >> \/ config[ConfigPath[1]].kind # "object" THEN << >>
  ELSE config[ConfigPath[1]].entries

(* default_scripts after the first k entries.                                *)
RulesAfter[k \in 0 .. Len(Entries)] ==
  IF k = 0 THEN << >> ELSE AddEntry(Entries[k], RulesAfter[k - 1])

(* loadConfig, whose result main ignores.                                    *)
LoadConfig ==
  /\ phase = "start"
  /\ IF \E k \in DOMAIN Entries : Invalid(Entries[k])
     THEN phase' = "died" /\ UNCHANGED rules
     ELSE /\ phase' = "ready"
          /\ rules' = RulesAfter[Len(Entries)]
  /\ UNCHANGED <<env, config, disk, device, filename, isSet, search, loaded>>

Matching(d) ==
  {k \in DOMAIN rules : \A rule \in DOMAIN rules[k].rules : rules[k].rules[rule] = d[rule]}

(* Script::Script: the first entry whose rules match.                        *)
NewScript(d) ==
  /\ phase = "ready" /\ device = << >>
  /\ device' = <<d>>
  /\ filename' = IF Matching(d) = {} THEN NoName ELSE rules[Min(Matching(d))].file
  /\ isSet' = FALSE /\ loaded' = << >>
  /\ UNCHANGED <<ruleVars, disk, search>>

(* run, up to getScriptObject. An empty name finds a directory, which has no    *)
(* contents.                                                                *)
LoadScript ==
  /\ device # << >> /\ search = << >>
  /\ search' = IF filename = NoName THEN << >> ELSE <<Search(filename)>>
  /\ loaded' = << >>
  /\ UNCHANGED <<ruleVars, disk, device, filename, isSet>>

ImportScript(name) ==
  /\ Len(loaded) = 1 /\ search = << >>
  /\ search' = <<Search(name)>>
  /\ UNCHANGED <<ruleVars, disk, device, filename, isSet, loaded>>

(* fileExists, for one place. Without a file the load or the import fails.      *)
TestFile ==
  /\ search # << >>
  /\ LET s == search[1] IN
       /\ ~ s.found
       /\ search' =
            IF disk[s.place][s.name] # "absent" THEN <<[s EXCEPT !.found = TRUE]>>
            ELSE IF s.place = "user" THEN <<[s EXCEPT !.place = "etc"]>> ELSE << >>
  /\ UNCHANGED <<ruleVars, disk, device, filename, isSet, loaded>>

(* The file is opened later, and may have changed or gone: the load or the       *)
(* import fails when it does not open.                                       *)
OpenFile ==
  /\ search # << >>
  /\ LET s == search[1] IN
       /\ s.found
       /\ loaded' = IF disk[s.place][s.name] = "file" THEN Append(loaded, s) ELSE loaded
  /\ search' = << >>
  /\ UNCHANGED <<ruleVars, disk, device, filename, isSet>>

(* on_set_property: the thread of the old script has ended.                   *)
SetFile(name) ==
  /\ device # << >> /\ search = << >>
  /\ filename' = name /\ isSet' = TRUE /\ loaded' = << >>
  /\ UNCHANGED <<ruleVars, disk, device, search>>

RemoveScript ==
  /\ device # << >> /\ search = << >>
  /\ device' = << >> /\ filename' = NoName /\ isSet' = FALSE /\ loaded' = << >>
  /\ UNCHANGED <<ruleVars, disk, search>>

(* The user installs, hides or removes files, whatever runs.                  *)
FilesChange(d) ==
  /\ phase = "ready" /\ disk # d
  /\ disk' = d
  /\ search' = [k \in DOMAIN search |->
       [search[k] EXCEPT !.missed = @ \/ d["user"][search[k].name] = "absent"]]
  /\ UNCHANGED <<ruleVars, device, filename, isSet, loaded>>

ScriptFileNext ==
  \/ LoadConfig \/ LoadScript \/ TestFile \/ OpenFile \/ RemoveScript
  \/ \E d \in InputDevices : NewScript(d)
  \/ \E name \in FileNames : ImportScript(name) \/ SetFile(name)
  \/ \E d \in Disks : FilesChange(d)

ScriptFileSpec == ScriptFileInit /\ [][ScriptFileNext]_scriptFileVars
--------------------------------------------------------------------------------
(* An entry of the file applies to a device: it names a script, and none of its *)
(* properties contradicts the device.                                       *)
Applies(e, d) ==
  /\ e.kind = "object" /\ "file" \in DOMAIN e.props
  /\ \A rule \in DOMAIN e.props \cap RuleNames : e.props[rule] = d[rule]

(* A device has the script of the first entry of the user's config.json, or of  *)
(* the system's when the user has none, that applies to it, and no script when  *)
(* none does: an entry that is incomplete, or of no use, never stands in the    *)
(* way of a later one.                                                      *)
FirstRuleDecides ==
  device # << >> /\ ~ isSet =>
    LET given == config[IF UserConfigPath # NoName /\ config["user"].kind # "absent"
                        THEN "user" ELSE "etc"]
        fit == IF given.kind = "object"
               THEN {k \in DOMAIN given.entries : Applies(given.entries[k], device[1])} ELSE {}
    IN  \/ fit = {} /\ filename = NoName
        \/ \E k \in fit : filename = given.entries[k].props["file"] /\ \A j \in fit : k <= j

(* A script and what it imports are, each, the user's file unless the user had  *)
(* none at some time since it was looked for, although files come and go        *)
(* between the load and an import, and between the tests for a file and its     *)
(* opening: the system's file is only what the user has not replaced.          *)
Due(o) ==
  /\ o.name \in Absolute <=> o.place = "root"
  /\ o.place = "user" => UserConfigPath # NoName
  /\ o.place = "etc" => UserConfigPath = NoName \/ o.missed

UsersFileFirst == \A k \in DOMAIN loaded : Due(loaded[k])

(* Both.                                                                    *)
ScriptsAsConfigured == FirstRuleDecides /\ UsersFileFirst
================================================================================
