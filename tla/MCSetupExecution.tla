-------------------------- MODULE MCSetupExecution --------------------------
(***************************************************************************)
(* Small instance: a program, a configuration file, a folder with one      *)
(* plugin in it; releases that replace, create, delete and leave alone.    *)
(***************************************************************************)
EXTENDS SetupExecution, TLC

CONSTANTS app, config, plugin, folder

MCFiles == {app, config, plugin}
MCInside == {plugin}

Archive(entries, damaged, default, overrides, slashes) ==
  [payload |-> "archive", entries |-> entries, damaged |-> damaged, default |-> default,
   overrides |-> overrides, slashes |-> slashes, skipCheck |-> FALSE, successCodes |-> {}]

Payload(payload, skipCheck, successCodes) ==
  [payload |-> payload, entries |-> {}, damaged |-> {}, default |-> "CreateOrReplace",
   overrides |-> << >>, slashes |-> "\\", skipCheck |-> skipCheck,
   successCodes |-> successCodes]

MCOverrides ==
  {<< >>, config :> "CreateIfAbsent", plugin :> "CreateIfAbsent",
   config :> "CreateIfAbsent" @@ plugin :> "DeleteIfPresent",
   app :> "CreateOrReplace" @@ folder :> "DeleteIfPresent"}

MCReleases ==
  {Archive(e, {}, d, o, s) :
     e \in {{}, {app, config, plugin}, {app, folder, plugin}, {app, config}},
     d \in Dispositions, o \in MCOverrides, s \in {"\\", "/"}}
  \cup {Archive({app, config}, {config}, "CreateOrReplace", << >>, "\\")}
  \cup {Payload(p, k, c) : p \in {"program", "document"}, k \in BOOLEAN, c \in {{}, {0}, {3010}}}
=============================================================================
