----------------------------- MODULE MCScriptInputs -----------------------------
(***************************************************************************)
(* What a script is told and works with: a Steam controller with a pad, a      *)
(* trigger, a button and a sensor, a HID++ 2.0 mouse, a Wii remote or a kernel  *)
(* device; or a Remapper, an EventFilter, a DBusProxy or the classes of its    *)
(* context; or the file it is in, or a mouse's profile. One of them is used.    *)
(***************************************************************************)
EXTENDS SteamReports, HIDPP20Reports, WiimoteEvents, EventReports,
        Remapper, EventFilter, DBusCalls, ClassRegistry, DefaultScripts,
        TemporaryProfile, TLC

VARIABLE used

(* Reports of the controller: x and y are axes of its pad, ax and ay parts of  *)
(* its sensor, which feels the finger move; the trigger clicks its button. y   *)
(* and ay only make large moves, x and ax small ones too.                    *)
ReportValues ==
  {("x" :> m) @@ ("ax" :> m) @@ ("y" :> n) @@ ("ay" :> n) @@ ("t" :> 3 * b) @@ ("b" :> b) :
     m \in 0 .. 3, n \in {0, 2}, b \in {0, 1}}

(* Remapper: a click whose rules are for two ranges of the touch's level, the  *)
(* second of them for a click that is itself high enough, and a touch.        *)
Rule(src, mods, mult, div, off, def) ==
  [source |-> src, modifiers |-> mods, mult |-> mult, div |-> div, offset |-> off, default |-> def]
Between(a, b) == [min |-> a, max |-> b]
TouchAndClick == -1 .. 1
RemapRules ==
  { Rule("click", "touch" :> Between(1, 2), 1, 1, 0, 0),
    Rule("click", ("touch" :> Between(-2, 0)) @@ ("click" :> Between(-1, 2)), -1, 1, 0, 5),
    Rule("touch", << >>, 1, 2, 1, 0) }

(* EventFilter: keys, an event with a code but without a value, and an event   *)
(* with neither.                                                            *)
KeyEvent(c, v) == ("type" :> 1) @@ ("code" :> c) @@ ("value" :> v)
FilteredEvents ==
  {KeyEvent(c, v) : c \in {1, 2, 3}, v \in {0, 1}}
  \cup {("type" :> 2) @@ ("code" :> c) @@ ("x" :> x) : c \in {1, 2}, x \in {0, 5}}
  \cup {("type" :> 2) @@ ("x" :> 5)}
AddCall(c, t, p, a, b) == [call |-> c, type |-> t, prop |-> p, min |-> a, max |-> b]
FilterRules ==
  { AddCall("type", 2, "", 0, 0), AddCall("code", 1, "", 1, 1),
    AddCall("codeRange", 1, "", 2, 3), AddCall("prop", 1, "value", 1, 1),
    AddCall("propRange", 2, "x", 4, 5) }

(* DBusProxy: a number with every sequence of up to five tokens, and values of  *)
(* every kind, alone and in pairs, with right and wrong signatures.           *)
Arg(sig, value) == [sig |-> sig, value |-> value]
SignatureTokens == {"i", "a", "(", ")", "{", "}"}
Signatures == UNION {[1 .. n -> SignatureTokens] : n \in 0 .. 5}
K == String(<<"k">>)
Numbered(n) == Array([k \in 1 .. n |-> Number(k)])
TypedArgs ==
  { Arg(<<"i">>, Number(-8)), Arg(<<"i">>, Number(3)), Arg(<<"u">>, Number(7)),
    Arg(<<"x">>, Number(-9)), Arg(<<"x">>, Number(3)), Arg(<<"b">>, Boolean(TRUE)),
    Arg(<<"s">>, K), Arg(<<"s">>, Number(1)), Arg(<<"h">>, Number(1)),
    Arg(<<"v">>, Array(<<String(<<"i">>), Number(2)>>)),
    Arg(<<"v">>, Array(<<String(<<"a", "i">>), Numbered(1)>>)),
    Arg(<<"v">>, Array(<<String(<<"a">>), Numbered(0)>>)), Arg(<<"v">>, Array(<<K>>)),
    Arg(<<"a", "i">>, Numbered(0)), Arg(<<"a", "i">>, Numbered(1)), Arg(<<"a", "i">>, Numbered(3)),
    Arg(<<"a", "a", "i">>, Array(<<Numbered(1), Numbered(0), Numbered(1)>>)),
    Arg(<<"(", "a", "i", "s", ")">>, Array(<<Numbered(1), K>>)),
    Arg(<<"(", "i", "s", ")">>, Array(<<Number(1), K>>)), Arg(<<"(", "i", "s", ")">>, Numbered(1)),
    Arg(<<"(", "i", ")">>, Numbered(2)), Arg(<<"(", "(", "i", ")", "v", ")">>,
        Array(<<Numbered(1), Array(<<String(<<"s">>), K>>)>>)),
    Arg(<<"a", "{", "s", "v", "}">>,
        Object(<< Property(K, Array(<<String(<<"s">>), K>>)),
                  Property(String(<<"l">>), Array(<<String(<<"i">>), Number(1)>>)) >>)),
    Arg(<<"a", "{", "s", "i", "}">>, Object(<<Property(Number(1), Number(1))>>)),
    Arg(<<"a", "{", "s", "i", "}">>, Object(<<Property(K, Number(2))>>)),
    Arg(<<"{", "s", "i", "}">>, Object(<<Property(K, Number(2))>>)) }
Calls ==
  {<<Arg(s, Number(1))>> : s \in Signatures} \cup {<<a>> : a \in TypedArgs}
  \cup {<<a, b>> : a, b \in TypedArgs}

(* Configuration: up to two entries of every kind in the user's file, one in the *)
(* system's; two scripts with relative names and one with an absolute one.        *)
Pair(driver, serial) == ("driver" :> driver) @@ ("name" :> "pad") @@ ("serial" :> serial)
TwoDevices == {Pair("event", "1"), Pair("wiimote", "2")}
HomeAndXdg == {<< >>, "HOME" :> "/home", ("HOME" :> "/home") @@ ("XDG_CONFIG_HOME" :> "")}
Props == {"file" :> "a.js", ("file" :> "b.js") @@ ("driver" :> "event"),
          ("file" :> "/c.js") @@ ("serial" :> "2") @@ ("name" :> "pad"),
          ("driver" :> "wiimote") @@ ("name" :> Throws), ("file" :> "b.js") @@ ("name" :> Throws)}
Entry(kind, props) == [kind |-> kind, props |-> props]
EntryKinds == {Entry("object", p) : p \in Props} \cup {Entry("scalar", << >>)}
File(kind, entries) == [kind |-> kind, entries |-> entries]
ConfigFiles(most) ==
  {File(kind, << >>) : kind \in {"absent", "unparsable"}}
  \cup {File("object", e) : e \in UNION {[1 .. n -> EntryKinds] : n \in 0 .. most}}
TwoConfigs ==
  {("user" :> u) @@ ("etc" :> File("object", << Entry("object", "file" :> "b.js") >>)) :
     u \in ConfigFiles(2)}
  \cup {("user" :> File("absent", << >>)) @@ ("etc" :> c) : c \in ConfigFiles(1)}
Scripts(a, b, c) == ("a.js" :> a) @@ ("b.js" :> b) @@ ("/c.js" :> c)
SomeDisks ==
  {("user" :> Scripts(d[1], "absent", "absent")) @@ ("etc" :> Scripts("file", d[2], "absent"))
     @@ ("root" :> Scripts("absent", "absent", "file")) :
     d \in {<<"absent", "absent">>, <<"absent", "file">>, <<"file", "file">>,
            <<"unreadable", "absent">>}}

(* Profile: settings of all types with good and bad values, one of the mode and   *)
(* one of the rest; buttons with up to three properties, codes at their bounds.  *)
General == ("on" :> "Boolean") @@ ("rate" :> "Integer") @@ ("lights" :> "LEDVector")
Mode == ("dpi" :> "Integer") @@ ("axis" :> "Enum")
One(n) == <<"int", <<n>>>>
AskedSettings ==
  {[settings |-> n[1] :> v, modes |-> <<n[2] :> w>>, buttons |-> << >>] :
     n \in {<<"on", "axis">>, <<"rate", "dpi">>, <<"lights", "rate">>},
     v \in {<<"bool", 1>>, <<"int", 2>>, <<"leds", 1>>}, w \in {<<"int", 2>>, <<"string", 1>>}}
AskedButtons ==
  {[settings |-> << >>, modes |-> << >>, buttons |-> b] : b \in
     { << << >>, "key" :> One(1), ("key" :> One(256)) @@ ("special" :> One(0)) >>,
       << ("modifiers" :> One(7)) @@ ("mouse-buttons" :> One(15)),
          ("modifiers" :> One(8)) @@ ("mouse-buttons" :> <<"list", <<0, 16>>>>) >>,
       << "modifiers" :> <<"list", <<33, 2>>>>,
          ("special" :> One(9)) @@ ("mouse-buttons" :> One(-1)) @@ ("key" :> One(0)) >>,
       << ("consumer-control" :> One(9)) @@ ("mouse-buttons" :> One(-32)),
          "consumer-control" :> One(1) >>,
       << "key" :> <<"list", <<1>>>> >> }}
AskedProfiles == AskedSettings \cup AskedButtons
Texts == {<<"Integer", 1>>, <<"Enum", 1>>, <<"Enum", 2>>}

vars == <<used, steamVars, hidVars, wiiVars, evVars, remapVars, filterVars, callVars, classVars,
          scriptFileVars, profileVars>>

(* What is not used rests in one state.                                      *)
Init ==
  /\ used \in {"steamcontroller", "hidpp20", "wiimote", "event",
               "Remapper", "EventFilter", "DBusProxy", "classes", "files", "profile"}
  /\ SteamInit /\ (used # "steamcontroller" => report = CHOOSE r \in Reports : TRUE)
  /\ HidInit /\ (used # "hidpp20" => current = [s \in Settings |-> CHOOSE c \in SettingValues : TRUE])
  /\ WiiInit /\ (used # "wiimote" => plugged = {} /\ tracking = [i \in 1 .. Dots |-> FALSE])
  /\ EvInit /\ (used # "event" => hardware = [c \in EvCodes |-> CHOOSE v \in EvValues : TRUE])
  /\ RemapInit /\ (used # "Remapper" => level = [s \in Sources |-> CHOOSE l \in Levels : TRUE])
  /\ FilterInit /\ (used # "EventFilter" => emitting.event = CHOOSE e \in DeviceEvents : TRUE)
  /\ ClassInit /\ (used # "classes" => declared = [c \in Classes |-> NoClass])
  /\ ProfileInit
  /\ ScriptFileInit /\ (used # "files" =>
       /\ env = CHOOSE e \in Environments : TRUE
       /\ config = CHOOSE c \in Configurations : TRUE
       /\ disk = CHOOSE d \in Disks : TRUE)
  /\ IF used = "DBusProxy" THEN CallInit
     ELSE asked = << >> /\ sent = << >> /\ result = [pending |-> TRUE]

Next ==
  /\ UNCHANGED used
  /\ \/ /\ used = "steamcontroller" /\ SteamNext
        /\ UNCHANGED <<hidVars, wiiVars, evVars, remapVars, filterVars, callVars, classVars,
                       scriptFileVars, profileVars>>
     \/ /\ used = "hidpp20" /\ HidNext
        /\ UNCHANGED <<steamVars, wiiVars, evVars, remapVars, filterVars, callVars, classVars,
                       scriptFileVars, profileVars>>
     \/ /\ used = "wiimote" /\ WiiNext
        /\ UNCHANGED <<steamVars, hidVars, evVars, remapVars, filterVars, callVars, classVars,
                       scriptFileVars, profileVars>>
     \/ /\ used = "event" /\ EvNext
        /\ UNCHANGED <<steamVars, hidVars, wiiVars, remapVars, filterVars, callVars, classVars,
                       scriptFileVars, profileVars>>
     \/ /\ used = "Remapper" /\ RemapNext
        /\ UNCHANGED <<steamVars, hidVars, wiiVars, evVars, filterVars, callVars, classVars,
                       scriptFileVars, profileVars>>
     \/ /\ used = "EventFilter" /\ FilterNext
        /\ UNCHANGED <<steamVars, hidVars, wiiVars, evVars, remapVars, callVars, classVars,
                       scriptFileVars, profileVars>>
     \/ /\ used = "DBusProxy" /\ CallNext
        /\ UNCHANGED <<steamVars, hidVars, wiiVars, evVars, remapVars, filterVars, classVars,
                       scriptFileVars, profileVars>>
     \/ /\ used = "classes" /\ ClassNext
        /\ UNCHANGED <<steamVars, hidVars, wiiVars, evVars, remapVars, filterVars, callVars,
                       scriptFileVars, profileVars>>
     \/ /\ used = "files" /\ ScriptFileNext
        /\ UNCHANGED <<steamVars, hidVars, wiiVars, evVars, remapVars, filterVars, callVars>>
        /\ UNCHANGED <<classVars, profileVars>>
     \/ /\ used = "profile" /\ ProfileNext
        /\ UNCHANGED <<steamVars, hidVars, wiiVars, evVars, remapVars, filterVars, callVars>>
        /\ UNCHANGED <<classVars, scriptFileVars>>

Spec == Init /\ [][Next]_vars
================================================================================
