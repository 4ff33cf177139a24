------------------------------ MODULE HostConfig ------------------------------
(***************************************************************************)
(* Where one host gets its settings from.  The operator keeps ~/.config/    *)
(* kayak/.env, /etc/kayak/secrets.env (root only) and /etc/kayak/host.yaml; *)
(* `levels emit-config --dry-run' runs without privileges and its JSON is   *)
(* piped through kayak-install-runtime-config, which runs as root, to the   *)
(* file PHP reads; `levels render-units' and `levels render-serving' write  *)
(* what systemd, nginx and PHP-FPM read.  Each file is parsed by several    *)
(* programs with rules of their own.                                        *)
(***************************************************************************)
EXTENDS Integers, FiniteSets

CONSTANT MaxEdits   \* bound: changes the operator makes

VARIABLES
    env,        \* ~/.config/kayak/.env
    secrets,    \* TURNSTILE_SECRET in secrets.env, and how the line is written
    hostYaml,
    manifest,    \* what of the dataset the settings depend on
    runtime,    \* /etc/kayak/runtime-config.json
    units,      \* the cutover drop-ins
    serving,    \* nginx root and open_basedir
    gate,       \* the last verdict of validate-config, of what was there then
    edits

cvars == <<env, secrets, hostYaml, manifest, runtime, units, serving, gate, edits>>

Absent == "absent"
Blank == ""

\* TURNSTILE_SECRET=, FETCH_TIMEOUT, SITE_URL, the two names of the map layers'
\* directory, KAYAK_OFFSITE_KEEP; a misspelt name; blank means NAME= and no value.
Envs == [turnstile : {Absent, Blank, "operator"}, siteUrl : {Absent, Blank, "site"},
         timeout : {1, 0}, layers : {Absent, "mine"}, osmb : {Absent, "old"},
         keep : {Absent, "26", "0"}, typo : BOOLEAN]
GoodEnv == [turnstile |-> Absent, siteUrl |-> "site", timeout |-> 1, layers |-> Absent,
            osmb |-> Absent, keep |-> Absent, typo |-> FALSE]
Secrets == [line : {"none", "plain", "export", "quoted", "comment"}, value : {Blank, "secret"}]
HostYamls == {"absent", "empty", "moved", "unparsable", "list", "unknown key", "bad path"}
Datasets == [status : {"scaffold", "publishable"}, readable : BOOLEAN]

-----------------------------------------------------------------------------
(* host.yaml: load_host_config                                             *)

HostLoads(y) == y \in {"absent", "empty", "moved"}

\* The directories a host names; the release is read-only.
HostOf(y) ==
    IF y = "moved"
    THEN [docroot |-> "docroot2", layers |-> "layers2", status |-> "var2", gauges |-> "gauges2"]
    ELSE [docroot |-> "docroot", layers |-> "layers", status |-> "var", gauges |-> "gauges"]
Database == "DB"
ReleaseDataset == "current/dataset"
InRelease == "release"

-----------------------------------------------------------------------------
(* The environment: load_dotenv, KayakConfig                               *)

\* What python-dotenv takes from a line.
DotenvValue(s) == IF s.line \in {"none", "comment"} THEN Absent ELSE s.value

\* .env is loaded first and secrets.env does not override it: a name that .env
\* leaves blank is set.
Turnstile(e, s, root) ==
    IF e.turnstile # Absent \/ ~root THEN e.turnstile ELSE DotenvValue(s)

\* AliasChoices of osmb_dir; without either, a directory of the installation.
LayersDir(e) == IF e.layers # Absent THEN e.layers ELSE IF e.osmb # Absent THEN e.osmb ELSE InRelease

ConfigLoads(e) == e.timeout > 0

\* require_explicit_site_url_for_publishable_dataset; a manifest that cannot be
\* read is somebody else's error.
SiteUrlThere(e, d) == d.status = "publishable" /\ d.readable => e.siteUrl \notin {Absent, Blank}

-----------------------------------------------------------------------------
(* emit-config and its wrapper                                             *)

BuildsJson(e, d, y) == ConfigLoads(e) /\ SiteUrlThere(e, d) /\ d.readable /\ HostLoads(y)

\* model_dump without what is None.
Rendered(e, s, y, root) ==
    [turnstile |-> Turnstile(e, s, root), host |-> HostOf(y)]

\* Slip: only bare KEY=VALUE lines, as the wrapper once did.
WrapperValueBare(s) == IF s.line \in {"none", "comment", "export"} THEN Blank ELSE s.value

\* The wrapper's own reading of secrets.env: export and quotes are taken off.
WrapperValue(s) == IF s.line \in {"none", "comment"} THEN Blank ELSE s.value

\* It fills in what the JSON lacks or has empty.
Merged(json, s) ==
    IF json.turnstile \in {Absent, Blank} /\ WrapperValue(s) # Blank
    THEN [json EXCEPT !.turnstile = WrapperValue(s)] ELSE json

\* turnstile_enabled: PHP asks for a captcha.
Captcha(json) == json.turnstile \notin {Absent, Blank}

\* emit-config --dry-run | kayak-install-runtime-config: a failing render pipes
\* nothing, which is no JSON, and the file stays; mv replaces it whole.
InstallRuntimeConfig ==
    /\ runtime' = IF BuildsJson(env, manifest, hostYaml)
                  THEN [json |-> Merged(Rendered(env, secrets, hostYaml, FALSE), secrets),
                        by |-> "wrapper", of |-> [env |-> env, secrets |-> secrets]]
                  ELSE runtime
    /\ UNCHANGED <<env, secrets, hostYaml, manifest, units, serving, gate, edits>>

\* levels emit-config as root, without the wrapper.
EmitAsRoot ==
    /\ runtime' = IF BuildsJson(env, manifest, hostYaml)
                  THEN [json |-> Rendered(env, secrets, hostYaml, TRUE),
                        by |-> "root", of |-> [env |-> env, secrets |-> secrets]]
                  ELSE runtime
    /\ UNCHANGED <<env, secrets, hostYaml, manifest, units, serving, gate, edits>>

-----------------------------------------------------------------------------
(* render-units and render-serving                                         *)

Unit == {"pipeline", "decimate", "editor-retention", "fetch-osmb", "status", "audit-gauges",
         "editor-bridge-run", "editor-bridge-reconcile"}

\* An Environment= of the drop-in, where there is one.
NotSet == [output |-> Absent, layers |-> Absent, gauges |-> Absent]

\* The map layers relocated for the unit that writes them only.
DropInEnvOnce(u, h) ==
    CASE u = "pipeline" -> [NotSet EXCEPT !.output = h.docroot]
      [] u = "fetch-osmb" -> [NotSet EXCEPT !.layers = h.layers]
      [] u = "audit-gauges" -> [NotSet EXCEPT !.gauges = h.gauges]
      [] OTHER -> NotSet

DropInEnv(u, h) ==
    CASE u = "pipeline" -> [NotSet EXCEPT !.output = h.docroot, !.layers = h.layers]
      [] u = "fetch-osmb" -> [NotSet EXCEPT !.layers = h.layers]
      [] u = "audit-gauges" -> [NotSet EXCEPT !.gauges = h.gauges]
      [] OTHER -> NotSet

\* ReadWritePaths=
Granted(u, h) ==
    CASE u = "pipeline" -> {h.docroot, Database}
      [] u = "fetch-osmb" -> {h.layers}
      [] u = "status" -> {h.status}
      [] u = "audit-gauges" -> {Database, h.gauges}
      [] OTHER -> {Database}

DropIn(u, h) == [dataset |-> ReleaseDataset, env |-> DropInEnv(u, h), granted |-> Granted(u, h),
                 output |-> IF u = "status" THEN h.status ELSE Absent]

RenderUnits ==
    /\ units' = IF HostLoads(hostYaml)
                THEN [of |-> hostYaml, unit |-> [u \in Unit |-> DropIn(u, HostOf(hostYaml))]]
                ELSE units
    /\ UNCHANGED <<env, secrets, hostYaml, manifest, runtime, serving, gate, edits>>

\* render_nginx_root, render_fpm_open_basedir
RenderServing ==
    /\ serving' = IF HostLoads(hostYaml)
                  THEN LET h == HostOf(hostYaml)
                       IN  [of |-> hostYaml, root |-> h.docroot,
                            basedir |-> {h.docroot, "var", Database, "logs", "runtime-config.json"}]
                  ELSE serving
    /\ UNCHANGED <<env, secrets, hostYaml, manifest, runtime, units, gate, edits>>

\* validate-config; the backup knobs go through the same schema.
KnobsOk(e) == e.keep # "0"
ValidateConfig ==
    /\ gate' = [ok  |-> /\ ConfigLoads(env) /\ SiteUrlThere(env, manifest)
                        /\ HostLoads(hostYaml) /\ KnobsOk(env),
                warned |-> env.typo, of |-> <<env, hostYaml, manifest>>]
    /\ UNCHANGED <<env, secrets, hostYaml, manifest, runtime, units, serving, edits>>

-----------------------------------------------------------------------------

NotYet == [of |-> "nothing"]
NoRuntime == [by |-> "nobody"]

ConfigInit ==
    /\ env = GoodEnv /\ secrets \in [line : {"none", "plain"}, value : {"secret"}]
    /\ hostYaml = "absent" /\ manifest = [status |-> "publishable", readable |-> TRUE]
    /\ runtime = NoRuntime /\ units = NotYet /\ serving = NotYet /\ gate = NotYet /\ edits = 0

\* The operator changes one file, the dataset moves on.
Edit ==
    /\ edits < MaxEdits /\ edits' = edits + 1
    /\ \/ env' \in {e \in Envs : Cardinality({f \in DOMAIN e : e[f] # env[f]}) = 1}
          /\ UNCHANGED <<secrets, hostYaml, manifest>>
       \/ secrets' \in Secrets /\ UNCHANGED <<env, hostYaml, manifest>>
       \/ hostYaml' \in HostYamls /\ UNCHANGED <<env, secrets, manifest>>
       \/ manifest' \in Datasets /\ UNCHANGED <<env, secrets, hostYaml>>
    /\ UNCHANGED <<runtime, units, serving, gate>>

ConfigNext == Edit \/ InstallRuntimeConfig \/ EmitAsRoot \/ RenderUnits \/ RenderServing \/ ValidateConfig

ConfigSpec == ConfigInit /\ [][ConfigNext]_cvars

-----------------------------------------------------------------------------
(* What the programs then do                                               *)

\* The drop-in comes after EnvironmentFile=, name by name, and OSMB_DIR is
\* another name than MAP_LAYERS_DIR.
UnitEnv(u) == [env EXCEPT !.layers = IF units.unit[u].env.layers # Absent
                                      THEN units.unit[u].env.layers ELSE @]

\* The directories that the command of a unit writes.
Writes(u) ==
    CASE u = "pipeline" -> {units.unit[u].env.output, Database}
      [] u = "fetch-osmb" -> {LayersDir(UnitEnv(u))}
      [] u = "status" -> {units.unit[u].output}
      [] u = "audit-gauges" -> {Database, units.unit[u].env.gauges}
      [] OTHER -> {Database}

-----------------------------------------------------------------------------
(* Properties                                                              *)

\* Whatever the operator edits between two renders, and in whatever form: what
\* the wrapper installed asks for a captcha whenever secrets.env held a secret
\* (the rendering process cannot read it), and the operator's own value wins
\* (config.py:62-77).
RuntimeAsIntended ==
    runtime # NoRuntime =>
      LET e == runtime.of.env
          s == runtime.of.secrets
      IN  /\ runtime.by = "wrapper" /\ DotenvValue(s) \notin {Absent, Blank} => Captcha(runtime.json)
          /\ e.turnstile = "operator" => runtime.json.turnstile = "operator"

\* Whatever is in the environment file: no unit writes where its sandbox has no
\* grant (or into the read-only release), the pipeline reads the map layers where
\* fetch-osmb puts them, and nginx, PHP-FPM and the pipeline mean one docroot
\* once all were rendered from one host.yaml (host_render.py:59).  What passes
\* validate-config can be rendered, if the dataset itself is sound.
HostAgrees ==
    /\ gate # NotYet /\ gate.ok /\ gate.of[3].readable =>
          BuildsJson(gate.of[1], gate.of[3], gate.of[2])
    /\ units # NotYet =>
          /\ \A u \in Unit : Writes(u) \subseteq units.unit[u].granted
          /\ LayersDir(UnitEnv("pipeline")) = LayersDir(UnitEnv("fetch-osmb"))
    /\ units # NotYet /\ serving # NotYet /\ units.of = serving.of =>
          /\ serving.root = units.unit["pipeline"].env.output
          /\ {serving.root, Database} \subseteq serving.basedir
=============================================================================
