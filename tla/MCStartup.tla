----------------------------- MODULE MCStartup ------------------------------
(***************************************************************************)
(* An instance of Startup for TLC: a project with a lib, a dist and, on    *)
(* Unix, a file or an empty directory called C:, and five ways for a layer *)
(* to speak.                                                               *)
(***************************************************************************)
EXTENDS Startup

CONSTANTS NoPort

a == <<"a.js">>
lib == <<"lib", "b.js">>
built == <<"dist", "c.js">>
notes == <<"lib", "n.txt">>
types == <<"t.d.ts">>
drive == <<"C:">>

MCDrives == {"C:"}
Js == {a, lib, built, <<"b.js">>, <<"c.js">>, <<"scripts", "a.js">>, drive,
       <<"C:", "a.js">>}
Ts == {types}
Txt == {{notes, <<"n.txt">>}}
MCInclude == {Js, Ts}
MCIgnore == {{<<"dist">>}}
Lib == {{<<"lib">>}}

Tree(files, bare) == [files |-> files, bare |-> bare]
MCTrees == {Tree({a, lib, notes}, {}), Tree({a, built, types}, {drive}), Tree({drive, a}, {}),
            Tree({lib, built, notes}, {<<"dist", "C:">>})}
MCRemotes ==
    {{}, {<<"bbrs", "old.js">>, <<"bbrs", "a.js">>, <<"scripts", "b.js">>, <<"a.js">>, <<"", "c.js">>,
         <<".", "C:", "a.js">>}}

MCSettings == {"source", "destination", "include", "ignore", "port"}
MCPointers == {"port"}
MCZero == [source |-> "", destination |-> <<"">>, include |-> {}, ignore |-> {}, port |-> NoPort]
MCDefaults == [MCZero EXCEPT !.destination = <<"bbrs">>, !.port = "12525"]
MCResolve == [s \in {"", "src", "other", "gone"} |->
                 IF s = "src" THEN "/home/src" ELSE IF s = "other" THEN "/mnt/other"
                 ELSE Invalid]

Says(settings) == [k \in MCSettings |-> IF k \in DOMAIN settings THEN settings[k] ELSE Unset]
MCLayers ==
    {Says([source |-> "src", destination |-> <<"scripts", "">>]),
     Says([source |-> "gone", destination |-> <<"", "x">>, include |-> Txt]),
     Says([destination |-> <<".", "C:">>, ignore |-> Lib]),
     Says([destination |-> <<"">>, include |-> {}, port |-> NoPort]),
     Says([source |-> "other", destination |-> <<"..">>, include |-> Txt])}
=============================================================================
