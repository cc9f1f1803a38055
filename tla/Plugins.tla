------------------------------- MODULE Plugins -------------------------------
(***************************************************************************)
(* The plugins of one process: the registry with its manifest and its      *)
(* cache of loaded plugins, the definitions in the database, the packages  *)
(* on disk and one MCP connection whose tools are called like the          *)
(* operations of a plugin.  Administrators edit, switch, synchronise and   *)
(* delete while chats and feeds look plugins up and run them; the registry *)
(* reads the database in the middle of its refresh and of its look-ups.    *)
(***************************************************************************)
EXTENDS Integers, FiniteSets

CONSTANTS Packaged,      \* plugins that are packages on disk
          Uploaded,      \* the ones of them that come and go
          Server,        \* the name of the MCP connection's plugin
          OfferedTools,  \* what the server may offer
          Fed,           \* plugins that may have a feed
          Errands, MaxAltered,
          NoValue

VARIABLES files,       \* packages on disk
          row,         \* plugin_definitions: name -> NoValue, "on", "off"
          connection,
          manifest,    \* name -> NoValue or the operations chats may call
          cache,       \* name -> NoValue or the loaded plugin: the modes of its tools
          feedOf,      \* the feed of a plugin: NoValue, "on", "off"
          errand,      \* what each request is doing
          off,         \* tools known to be switched off
          altered      \* edits so far

pluginVars == <<files, row, connection, manifest, cache, feedOf, errand, off, altered>>

Names == Packaged \cup {Server}
RunOp == "run"
Ops(name) == IF name = Server THEN OfferedTools ELSE {RunOp}
Modes == {"chat", "feed", "off"}
NoModes == [t \in OfferedTools |-> NoValue]
NoConn == [id |-> 0, enabled |-> FALSE, config |-> NoModes]

Idle == [at |-> "idle", kind |-> NoValue, name |-> NoValue, op |-> NoValue, id |-> 0,
         config |-> NoModes, record |-> NoValue, names |-> {}, read |-> TRUE,
         sure |-> FALSE, never |-> FALSE, known |-> FALSE]

Stands(r, step) == errand[r].at = step
Go(r, step) == errand' = [errand EXCEPT ![r].at = step]
Finishes(r) == errand' = [errand EXCEPT ![r] = Idle]
Alter == altered < MaxAltered /\ altered' = altered + 1
loadedPlugins == <<manifest, cache>>

HasConnection == connection.id > 0
Live == HasConnection /\ connection.enabled
On(name) == IF name = Server THEN Live ELSE row[name] = "on"

\* Requests under way when a plugin or a tool is switched on may find it so.
TurnedOn(q) == [r \in Errands |-> [q[r] EXCEPT !.never = FALSE]]
Doubted(q) == [r \in Errands |-> [q[r] EXCEPT !.known = @ /\ q[r].op \in off',
                                              !.sure = @ /\ connection'.config[q[r].op] = "off"]]

-----------------------------------------------------------------------------
(* The registry. *)

\* discover
Discovered == [n \in Names |-> IF n \in files THEN {RunOp} ELSE NoValue]

\* refresh forgets what is loaded, and the connections too until they are read again.
Refreshed == manifest' = Discovered /\ cache' = [n \in Names |-> NoValue]

ChatTools(config) == {t \in OfferedTools : config[t] = "chat"}

\* generate_all_plugin_records
ServerRecord == IF Live THEN ChatTools(connection.config) ELSE NoValue

PluginsInit ==
  /\ files = Packaged
  /\ connection = [id |-> 1, enabled |-> TRUE, config |-> [t \in OfferedTools |-> "chat"]]
  /\ manifest = [Discovered EXCEPT ![Server] = ServerRecord]
  /\ row = [n \in Names |-> IF manifest[n] # NoValue THEN "on" ELSE NoValue]
  /\ cache = [n \in Names |-> NoValue] /\ feedOf = [n \in Names |-> NoValue]
  /\ errand = [r \in Errands |-> Idle] /\ off = {} /\ altered = 0

\* full_refresh: the database is read after the refresh and merged afterwards.  From
\* here on what an edit has switched off is to be seen.
FullRefresh(r) ==
  /\ Stands(r, "refresh")
  /\ Refreshed
  /\ off' = IF errand[r].sure THEN off \cup {errand[r].op} ELSE off
  /\ errand' = [errand EXCEPT ![r] = [Idle EXCEPT !.at = "records"]]
  /\ UNCHANGED <<files, row, connection, feedOf, altered>>

ReadRecords(r, ok) ==
  /\ Stands(r, "records")
  /\ errand' = [errand EXCEPT ![r] = [@ EXCEPT !.at = "merge", !.read = ok,
                                         !.record = IF ok THEN ServerRecord ELSE NoValue]]
  /\ UNCHANGED <<files, row, connection, loadedPlugins, feedOf, off, altered>>

MergeRecords(r) ==
  /\ Stands(r, "merge")
  /\ manifest' = IF errand[r].record # NoValue THEN [manifest EXCEPT ![Server] = errand[r].record] ELSE manifest
  /\ errand' = [errand EXCEPT ![r] = [@ EXCEPT !.at = "rows", !.names = {n \in Names : manifest'[n] # NoValue}]]
  /\ UNCHANGED <<files, row, connection, cache, feedOf, off, altered>>

\* sync writes a row for what has none, a package off and a connection as it is, and
\* deletes the others, but no connection when they could not be read.
Kept(r) == errand[r].names \cup IF errand[r].read THEN {} ELSE {Server}
WriteRows(r, purged) ==
  /\ Stands(r, "rows")
  /\ row' = [n \in Names |->
               IF n \notin Kept(r) THEN IF purged THEN NoValue ELSE row[n]
               ELSE IF row[n] # NoValue \/ n \notin errand[r].names THEN row[n]
               ELSE IF n = Server /\ Live THEN "on" ELSE "off"]
  /\ Finishes(r)
  /\ UNCHANGED <<files, connection, loadedPlugins, feedOf, off, altered>>

\* Any await of a sync may fail.
SyncFails(r) ==
  /\ errand[r].at \in {"records", "merge", "rows"}
  /\ Finishes(r)
  /\ UNCHANGED <<files, row, connection, loadedPlugins, feedOf, off, altered>>

Sync(r) ==
  /\ Stands(r, "idle")
  /\ errand' = [errand EXCEPT ![r] = [@ EXCEPT !.at = "refresh"]]
  /\ UNCHANGED <<files, row, connection, loadedPlugins, feedOf, off, altered>>

\* A process starts with what is on disk and in the database.
Restart ==
  /\ manifest' = [Discovered EXCEPT ![Server] = ServerRecord]
  /\ cache' = [n \in Names |-> NoValue] /\ errand' = [r \in Errands |-> Idle]
  /\ UNCHANGED <<files, row, connection, feedOf, off, altered>>

-----------------------------------------------------------------------------
(* Packages: api/plugins_admin.  They refresh the manifest and not the connections. *)

Upload(p) ==
  /\ p \in Uploaded \ files /\ Alter
  /\ files' = files \cup {p}
  /\ manifest' = [Discovered EXCEPT ![p] = {RunOp}] /\ cache' = [n \in Names |-> NoValue]
  /\ UNCHANGED <<row, connection, feedOf, errand, off>>

DeletePlugin(name) ==
  /\ name \in Uploaded \cup {Server} /\ row[name] # NoValue /\ feedOf[name] = NoValue /\ Alter
  /\ files' = files \ {name} /\ row' = [row EXCEPT ![name] = NoValue]
  /\ manifest' = [Discovered EXCEPT ![name] = NoValue] /\ cache' = [n \in Names |-> NoValue]
  /\ UNCHANGED <<connection, feedOf, errand, off>>

SetPluginEnabled(name, on) ==
  /\ row[name] # NoValue /\ Alter
  /\ row' = [row EXCEPT ![name] = IF on THEN "on" ELSE "off"]
  /\ errand' = IF on THEN TurnedOn(errand) ELSE errand
  /\ UNCHANGED <<files, connection, loadedPlugins, feedOf, off>>

\* A feed is made of a plugin that can be resolved; an administrator switches it.
SetFeed(name, on) ==
  /\ feedOf[name] = NoValue => On(name) /\ manifest[name] # NoValue /\ on
  /\ feedOf[name] # (IF on THEN "on" ELSE "off") /\ Alter
  /\ feedOf' = [feedOf EXCEPT ![name] = IF on THEN "on" ELSE "off"]
  /\ UNCHANGED <<files, row, connection, loadedPlugins, errand, off>>

DeleteFeed(name) ==
  /\ feedOf[name] # NoValue /\ Alter
  /\ feedOf' = [feedOf EXCEPT ![name] = NoValue]
  /\ UNCHANGED <<files, row, connection, loadedPlugins, errand, off>>

-----------------------------------------------------------------------------
(* The connection: McpService.  Every change but the creation ends with a sync. *)

CreateConnection(on) ==
  /\ ~HasConnection /\ Alter
  /\ connection' = [NoConn EXCEPT !.id = altered + 2, !.enabled = on]
  /\ errand' = IF on THEN TurnedOn(errand) ELSE errand
  /\ UNCHANGED <<files, row, loadedPlugins, feedOf, off>>

\* update_connection switches the plugin with the connection.
UpdateConnection(r, on) ==
  /\ Stands(r, "idle") /\ HasConnection /\ Alter
  /\ connection' = [connection EXCEPT !.enabled = on]
  /\ row' = [row EXCEPT ![Server] = IF @ = NoValue THEN NoValue ELSE IF on THEN "on" ELSE "off"]
  /\ LET q == IF on THEN TurnedOn(errand) ELSE errand IN
     errand' = [q EXCEPT ![r] = [Idle EXCEPT !.at = "refresh"]]
  /\ UNCHANGED <<files, loadedPlugins, feedOf, off>>

DeleteConnection(r) ==
  /\ Stands(r, "idle") /\ HasConnection /\ feedOf[Server] = NoValue /\ Alter
  /\ connection' = NoConn /\ row' = [row EXCEPT ![Server] = NoValue] /\ off' = {}
  /\ errand' = Doubted([errand EXCEPT ![r] = [@ EXCEPT !.at = "refresh"]])
  /\ UNCHANGED <<files, loadedPlugins, feedOf>>

\* An edit and a discovery work on the modes they read when they began.
Begin(r, kind) ==
  /\ Stands(r, "idle") /\ HasConnection /\ Alter
  /\ errand' = [errand EXCEPT ![r] = [@ EXCEPT !.at = kind, !.id = connection.id, !.config = connection.config]]
  /\ UNCHANGED <<files, row, connection, loadedPlugins, feedOf, off>>

\* Others that have read the connection and not yet used what they read.
Crossed(r) == \E q \in Errands \ {r} : errand[q].at \in {"edit", "discover", "headers"}

\* update_tool_config
EditTool(r, t, mode) ==
  /\ Stands(r, "edit") /\ errand[r].id = connection.id /\ errand[r].config[t] # NoValue
  /\ connection' = [connection EXCEPT !.config = [errand[r].config EXCEPT ![t] = mode]]
  /\ off' = off \ {t}
  /\ errand' = Doubted([errand EXCEPT ![r] = [Idle EXCEPT !.at = "refresh", !.op = t, !.sure = ~Crossed(r)]])
  /\ UNCHANGED <<files, row, loadedPlugins, feedOf, altered>>

\* The tool is not known, or the connection has been deleted.
EditRefused(r) ==
  /\ Stands(r, "edit") /\ (errand[r].id # connection.id \/ \E t \in OfferedTools : errand[r].config[t] = NoValue)
  /\ Finishes(r)
  /\ UNCHANGED <<files, row, connection, loadedPlugins, feedOf, off, altered>>

\* _merge_discovered_tools keeps the mode of a tool it knows.
Merged(config, tools) ==
  [t \in OfferedTools |-> IF t \notin tools THEN NoValue ELSE IF config[t] = NoValue THEN "chat" ELSE config[t]]

\* sync_connection
Discover(r, tools) ==
  /\ Stands(r, "discover") /\ errand[r].id = connection.id
  /\ connection' = [connection EXCEPT !.config = Merged(errand[r].config, tools)]
  /\ off' = off \cap tools
  /\ errand' = Doubted([errand EXCEPT ![r] = [Idle EXCEPT !.at = "refresh"]])
  /\ UNCHANGED <<files, row, loadedPlugins, feedOf, altered>>

\* The server does not answer, or not with tools: counted, and the tools stay.
DiscoverFails(r) ==
  /\ Stands(r, "discover")
  /\ Finishes(r)
  /\ UNCHANGED <<files, row, connection, loadedPlugins, feedOf, off, altered>>

-----------------------------------------------------------------------------
(* Looking a plugin up and running it. *)

Start(r, kind, name, op) ==
  /\ Stands(r, "idle")
  /\ errand' = [errand EXCEPT ![r] = [@ EXCEPT !.at = "find", !.kind = kind,
                                         !.name = name, !.op = op, !.never = ~On(name),
                                         !.known = name = Server /\ op \in off]]
  /\ UNCHANGED <<files, row, connection, loadedPlugins, feedOf, off, altered>>

\* A chat calls what the manifest lets it call: execute_plugin.
StartChat(r, name, op) == manifest[name] # NoValue /\ op \in manifest[name] /\ Start(r, "chat", name, op)

\* The job of a feed that is on: execute_plugin_record.
StartFeed(r, name, op) == feedOf[name] = "on" /\ Start(r, "feed", name, op)

\* What is not found is refused, and a feed of it is switched off.
Refuse(r) ==
  /\ feedOf' = IF errand[r].kind = "feed" /\ feedOf[errand[r].name] = "on"
                 THEN [feedOf EXCEPT ![errand[r].name] = "off"] ELSE feedOf
  /\ Finishes(r)

\* resolve, which a chat asks when the definition is on.
Find(r) ==
  /\ Stands(r, "find")
  /\ IF errand[r].kind = "chat" /\ row[errand[r].name] # "on" THEN Finishes(r) /\ feedOf' = feedOf
     ELSE IF cache[errand[r].name] # NoValue THEN Go(r, "cached") /\ feedOf' = feedOf
     ELSE IF manifest[errand[r].name] # NoValue THEN Go(r, "load") /\ feedOf' = feedOf
     ELSE Refuse(r)
  /\ UNCHANGED <<files, row, connection, loadedPlugins, off, altered>>

\* McpPluginAdapter.execute: a feed may run what only feeds may, and what chats may.
Callable(r, modes) ==
  errand[r].name = Server => modes[errand[r].op] \in IF errand[r].kind = "feed" THEN {"chat", "feed"} ELSE {"chat"}

CallTool(r, modes) ==
  IF Callable(r, modes)
  THEN errand' = [errand EXCEPT ![r] = [@ EXCEPT !.at = "ran", !.config = NoModes]]
  ELSE Finishes(r)

\* What is cached is asked for again in the database, and then taken from the cache.
EnabledAsCached(name) == TRUE
Enabled(name) == On(name)

TakeCached(r) ==
  /\ Stands(r, "cached") /\ Enabled(errand[r].name) /\ cache[errand[r].name] # NoValue
  /\ CallTool(r, cache[errand[r].name])
  /\ UNCHANGED <<files, row, connection, loadedPlugins, feedOf, off, altered>>

\* A refresh in between leaves nothing to take: a KeyError, and a job is tried again.
CacheGone(r) ==
  /\ Stands(r, "cached") /\ Enabled(errand[r].name) /\ cache[errand[r].name] = NoValue
  /\ Finishes(r)
  /\ UNCHANGED <<files, row, connection, loadedPlugins, feedOf, off, altered>>

Evict(r) ==
  /\ Stands(r, "cached") /\ ~Enabled(errand[r].name)
  /\ cache' = [cache EXCEPT ![errand[r].name] = NoValue] /\ Refuse(r)
  /\ UNCHANGED <<files, row, connection, manifest, off, altered>>

\* A package is loaded and cached at once.
LoadPackage(r) ==
  /\ Stands(r, "load") /\ errand[r].name # Server
  /\ IF On(errand[r].name) /\ errand[r].name \in files
       THEN cache' = [cache EXCEPT ![errand[r].name] = NoModes] /\ CallTool(r, NoModes) /\ feedOf' = feedOf
       ELSE cache' = cache /\ Refuse(r)
  /\ UNCHANGED <<files, row, connection, manifest, off, altered>>

\* Of a connection the headers are read before its adapter is cached.
ReadConnection(r) ==
  /\ Stands(r, "load") /\ errand[r].name = Server
  /\ IF Live
       THEN /\ errand' = [errand EXCEPT ![r] = [@ EXCEPT !.at = "headers", !.config = connection.config]]
            /\ feedOf' = feedOf
       ELSE Refuse(r)
  /\ UNCHANGED <<files, row, connection, loadedPlugins, off, altered>>

CacheAdapter(r) ==
  /\ Stands(r, "headers")
  /\ cache' = [cache EXCEPT ![Server] = errand[r].config] /\ CallTool(r, errand[r].config)
  /\ UNCHANGED <<files, row, connection, manifest, feedOf, off, altered>>

HandsOver(r) ==
  /\ Stands(r, "ran") /\ Finishes(r)
  /\ UNCHANGED <<files, row, connection, loadedPlugins, feedOf, off, altered>>

PluginsNext ==
  \/ Restart
  \/ \E r \in Errands :
       \/ FullRefresh(r) \/ MergeRecords(r) \/ SyncFails(r) \/ Sync(r)
       \/ DeleteConnection(r) \/ Begin(r, "edit") \/ Begin(r, "discover")
       \/ EditRefused(r) \/ DiscoverFails(r)
       \/ Find(r) \/ TakeCached(r) \/ CacheGone(r) \/ Evict(r) \/ LoadPackage(r)
       \/ ReadConnection(r) \/ CacheAdapter(r) \/ HandsOver(r)
       \/ \E ok \in BOOLEAN : ReadRecords(r, ok) \/ WriteRows(r, ok) \/ UpdateConnection(r, ok)
       \/ \E t \in OfferedTools, mode \in Modes : EditTool(r, t, mode)
       \/ \E tools \in SUBSET OfferedTools : Discover(r, tools)
       \/ \E name \in Names : \E op \in Ops(name) : StartChat(r, name, op) \/ StartFeed(r, name, op)
  \/ \E p \in Uploaded : Upload(p)
  \/ \E name \in Names : DeletePlugin(name) \/ \E on \in BOOLEAN : SetPluginEnabled(name, on)
  \/ \E name \in Fed : DeleteFeed(name) \/ \E on \in BOOLEAN : SetFeed(name, on)
  \/ \E on \in BOOLEAN : CreateConnection(on)

PluginsSpec == PluginsInit /\ [][PluginsNext]_pluginVars

-----------------------------------------------------------------------------
(* Properties. *)

\* What is switched off before a call begins and until it ends is not run by it,
\* whatever the registry has in its cache.
OffIsNotRun == \A r \in Errands : Stands(r, "ran") => ~errand[r].never

\* A tool an administrator has switched off, nobody else being about to write or to
\* cache what was read before, is not run by calls begun afterwards until it is
\* switched on again or the server has dropped it: not after a sync of its tools,
\* a refresh or a restart.
EditedToolIsOff == \A r \in Errands : Stands(r, "ran") => ~errand[r].known

\* What is off does not run.
OffStaysOff == OffIsNotRun /\ EditedToolIsOff

\* Not promised: the feed of a plugin that is there and on is left on.  A look-up that
\* falls into a refresh finds no connection, and its feed is switched off.
FeedsStay ==
  [][\A n \in Names : feedOf[n] = "on" /\ feedOf'[n] = "off" /\ altered' = altered => ~On(n)]_pluginVars
=============================================================================
