----------------------------- MODULE MCServers -----------------------------
(***************************************************************************)
(* The HTTP sides of the render server and of the play server, the offline *)
(* render that the first of them calls, and the catalog of plugins both    *)
(* choose from.  A behaviour is of one of them; the others stand still.    *)
(***************************************************************************)
EXTENDS PlayServer, OfflineRender, PatchCatalog

CONSTANTS w1, w2, c1, c2, c3

MCPool == {w1, w2}
MCClients == {c1, c2, c3}

Render == [head |-> "whole", length |-> "fits", body |-> TRUE, method |-> "POST", path |-> "/render", type |-> "text", utf8 |-> TRUE,
           takes |-> TRUE]
Mml == [Render EXCEPT !.path = "/play-mml"]
Deaf == [Render EXCEPT !.takes = FALSE]
MCRequests == {Render, Mml, Deaf, [Render EXCEPT !.head = "empty"], [Mml EXCEPT !.path = "/stop"]}

MCPlugins == {"surge", "tone", "hall"}
MCLatency == [surge |-> 1, tone |-> 2, hall |-> 0]

Ev(d, w, v) == [delta |-> d, what |-> w, value |-> v]
MetaEvents == {Ev(d, "tempo", v) : d \in {0, 1, 2}, v \in {1, 3}} \cup {Ev(0, "meter", 3), Ev(0, "tempo", 0), Ev(1, "tempo", 0)}
NoteEvents == {Ev(d, w, 0) : d \in {0, 1}, w \in {"on", "zero"}} \cup {Ev(2, "off", 0), Ev(2, "other", 0)}
MetaTracks == {<<>>} \cup {<<a>> : a \in MetaEvents} \cup {<<a, b>> : a, b \in MetaEvents}
NoteTracks == {<<a>> : a \in NoteEvents} \cup {<<a, b>> : a, b \in NoteEvents}
Files == {<<m, n>> : m \in MetaTracks, n \in NoteTracks} \cup {<<n, m>> : n \in NoteTracks, m \in {<<a>> : a \in MetaEvents}}

Dry(route, preroll) == [route |-> route, json |-> "none", random |-> FALSE, effects |-> FALSE, elements |-> <<>>, preroll |-> preroll]
El(p, b, k, n) == [plugin |-> p, bypass |-> b, keys |-> k, matches |-> n]
Elements == {El("surge", FALSE, 1, 1), El("tone", FALSE, 1, 1), El("hall", FALSE, 1, 1), El("tone", TRUE, 1, 0), El("odd", FALSE, 1, 1),
             El("hall", FALSE, 1, 2), El("hall", TRUE, 2, 1)}
ElementLists == {<<a>> : a \in Elements} \cup {<<a, b>> : a, b \in Elements}
Wet == {[route |-> r, json |-> "chain", random |-> FALSE, effects |-> e, elements |-> l, preroll |-> p] :
          r \in Routes \ {"smf"}, e \in BOOLEAN, l \in ElementLists, p \in {0, 1}}
Other == {[route |-> r, json |-> j, random |-> b, effects |-> e, elements |-> <<>>, preroll |-> 1] :
          r \in Routes, j \in {"none", "broken", "patch", "noList"}, b \in BOOLEAN, e \in BOOLEAN}
OneFile == <<<<Ev(1, "tempo", 1)>>, <<Ev(0, "on", 0), Ev(2, "off", 0)>>>>
MCJobs == {[file |-> f, ask |-> Dry("smf", p)] : f \in Files, p \in {0, 1}}
            \cup {[file |-> OneFile, ask |-> a] : a \in Wet \cup Other}

\* Roots side by side, in one another and of the same name; a manifest above its root
\* that names a file elsewhere; a file with two answers; a directory that is missing.
Free == <<"C", "Plogue", "Free">>
Sfz == <<"D", "libs", "sfz">>
Bank == <<"D", "libs", "sfz", "Bank">>
Other2 == <<"E", "sfz">>
Factory == <<"C", "Surge", "factory">>
Third == <<"C", "Surge", "third">>
More == <<"D", "more">>
MCUserRoot == Sfz
MCDirectories == {Factory, Third, More, <<"C", "dexed">>, <<"C", "vapor">>}
MCRootOrder == <<Free, Sfz, Bank, Other2>>
MCPatchFiles ==
  {Append(Free, "tone.sfz"), Append(Sfz, "piano.sfz"), Append(Bank, "harp.sfz"), Append(Other2, "piano.sfz"),
   Append(Factory, "a.fxp"), Append(Third, "b.fxp"), Append(More, "c.fxp"), <<"C", "vapor", "v.vvp">>,
   <<"C", "dexed", "bank.syx", "00 brass">>, <<"C", "cells", "take.wav">>}
MCSuffixes ==
  [f \in {"tone.sfz", "piano.sfz", "harp.sfz"} |-> "sfz"] @@ [f \in {"v.vvp"} |-> "vvp"]
    @@ [f \in {"bank.syx"} |-> "cartridge"] @@ [f \in {"take.wav"} |-> "wav"]
MCManifests ==
  {[dir |-> Front(Free), bank |-> "free", elements |-> {Append(Free, "tone.sfz"), Append(Sfz, "piano.sfz"), Append(Free, "gone.sfz")}],
   [dir |-> Bank, bank |-> "harps", elements |-> {Append(Bank, "harp.sfz")}],
   [dir |-> Other2, bank |-> "other", elements |-> {Append(Other2, "piano.sfz")}]}
MCFormOfId == [dexed |-> "cartridge", sforzando |-> "sfz", vaporizer |-> "vvp", surge |-> "state"]
MCFormOfStem ==
  [surge |-> "state", dexed |-> "cartridge", dexed2 |-> "cartridge", sforzando |-> "sfz", vaporizer |-> "vvp", toy |-> "state"]
MCProfile(p, id, d) == [path |-> p, id |-> id, dirs |-> d]
MCBuiltin ==
  ("Surge XT" :> MCProfile(Some("surge"), Some("surge"), Some({Factory, Third})))
    @@ ("Dexed" :> MCProfile(Some("dexed"), Some("dexed"), Some({<<"C", "dexed">>})))
    @@ ("Sforzando" :> MCProfile(Some("sforzando"), Some("sforzando"), None))
    @@ ("Vaporizer2" :> MCProfile(Some("vaporizer"), Some("vaporizer"), None))
MCOwnDirs == [vvp |-> {<<"C", "vapor">>}]
MCNameOrder == <<"DEXED", "Dexed", "Second", "Sforzando", "Surge XT", "Toy", "Vaporizer2", "surge_xt">>
MCNormal == ("Dexed" :> "dexed") @@ ("DEXED" :> "dexed") @@ ("Second" :> "second") @@ ("Sforzando" :> "sforzando")
              @@ ("Surge XT" :> "surgext") @@ ("surge_xt" :> "surgext") @@ ("Toy" :> "toy") @@ ("Vaporizer2" :> "vaporizer2")
Entry(name, p, d) == [name |-> name, over |-> MCProfile(p, None, d)]
MCConfigs ==
  {<<>>, <<Entry("surge_xt", None, Some({Factory, <<"C", "gone">>}))>>, <<Entry("Surge XT", None, Some({Factory, More}))>>,
   <<Entry("DEXED", Some("dexed2"), None)>>, <<Entry("Second", Some("dexed2"), None)>>, <<Entry("Toy", Some("toy"), Some({More}))>>}

VARIABLE part

MCSent(p) ==
  IF p \in {"offline", "catalog"} THEN {[c \in Clients |-> Render]}
  ELSE {[c \in Clients |-> IF c = c1 THEN r ELSE IF p = "render" THEN Render ELSE Mml] : r \in MCRequests}
         \cup IF p = "render" THEN {[c \in Clients |-> IF c = c3 THEN Render ELSE Deaf]} ELSE {}

Init ==
  /\ part \in {"render", "play", "offline", "catalog"}
  /\ request \in MCSent(part)
  /\ PlayInit /\ OfflineInit /\ CatalogInit
  /\ part # "offline" => job.file = OneFile /\ job.ask = Dry("smf", 0)

Acceptor ==
  /\ Running /\ UNCHANGED <<part, offlineVars, catalogVars>>
  /\ (part = "render" /\ AcceptorStep /\ UNCHANGED ipc) \/ (part = "play" /\ PlayAcceptorStep)

Worker(w) ==
  /\ Running /\ UNCHANGED <<part, offlineVars, catalogVars>>
  /\ (part = "render" /\ WorkerStep(w) /\ UNCHANGED ipc) \/ (part = "play" /\ PlayWorkerStep(w))

Next ==
  /\ UNCHANGED part
  /\ \/ part = "render" /\ ServerNext /\ UNCHANGED <<ipc, offlineVars, catalogVars>>
     \/ part = "play" /\ PlayNext /\ UNCHANGED <<offlineVars, catalogVars>>
     \/ part = "offline" /\ OfflineNext /\ UNCHANGED <<playServerVars, catalogVars>>
     \/ part = "catalog" /\ CatalogNext /\ UNCHANGED <<playServerVars, offlineVars>>

\* ServerFairness and PlayFairness, each in its part.
Spec ==
  /\ Init /\ [][Next]_<<part, playServerVars, offlineVars, catalogVars>>
  /\ WF_<<part, playServerVars, offlineVars, catalogVars>>(Acceptor)
  /\ \A w \in Pool : WF_<<part, playServerVars, offlineVars, catalogVars>>(Worker(w))
  /\ WF_<<part, playServerVars, offlineVars, catalogVars>>(part = "play" /\ Running /\ EndsIpc /\ UNCHANGED <<part, offlineVars, catalogVars>>)
=============================================================================
