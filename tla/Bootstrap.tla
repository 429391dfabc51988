------------------------------ MODULE Bootstrap ------------------------------
(***************************************************************************)
(* How an instance obtains its one server.  Every process start runs       *)
(* ensureDefaultServer: read the recorded id and, when there is none,      *)
(* write a server row, a text channel, a voice channel and then the        *)
(* record, each in a statement of its own and outside any transaction.     *)
(* The process may die between two of them, a statement may fail (main     *)
(* then exits), and a statement that reports an error may still have taken *)
(* effect.  The container is started again after every exit.               *)
(*                                                                         *)
(* A uuid is named by the run that drew it, so server ids are run numbers  *)
(* and NoId stands for the empty string.                                   *)
(***************************************************************************)
EXTENDS Naturals

CONSTANT MaxRuns        \* bound: runs of the process; the last one meets no fault

ASSUME MaxRunsAssumption == MaxRuns \in Nat \ {0}

NoId == 0
Runs == 1..MaxRuns
Kinds == {"text", "voice"}

VARIABLES
  run,           \* the current run of the process
  step,          \* where that run is in ensureDefaultServer, or "up", or "exited"
  id,            \* its local variable id, and then the id bound into the routes
  defaultId,     \* settings row "default_server_id"
  serverRows,    \* ids in table servers
  channelRows    \* <<server id, type>> pairs in table channels

rows == <<defaultId, serverRows, channelRows>>
vars == <<run, step, id, rows>>

Steps == {"read", "server", "text", "voice", "record", "up", "exited"}

TypeOK ==
  /\ run \in Runs
  /\ step \in Steps
  /\ id \in Runs \cup {NoId}
  /\ defaultId \in Runs \cup {NoId}
  /\ serverRows \subseteq Runs
  /\ channelRows \subseteq Runs \X Kinds

Init ==
  /\ run = 1
  /\ step = "read"
  /\ id = NoId
  /\ defaultId = NoId
  /\ serverRows = {}
  /\ channelRows = {}

-----------------------------------------------------------------------------
\* A database error: server.New returns it and main exits.
MayFail == run < MaxRuns
Exit == MayFail /\ step' = "exited" /\ UNCHANGED <<run, id>>

GoOn(next) == step' = next /\ UNCHANGED <<run, id>>

ReadDefaultAlwaysCreates ==
  /\ step = "read"
  /\ step' = "server" /\ id' = run
  /\ UNCHANGED <<run, rows>>

ReadDefaultShadowsId ==
  /\ step = "read"
  /\ \/ defaultId # NoId /\ step' = "up" /\ id' = defaultId
     \/ defaultId = NoId /\ step' = "server" /\ UNCHANGED id
  /\ UNCHANGED <<run, rows>>

ReadDefaultNoRowsIsAnError ==
  /\ step = "read"
  /\ \/ defaultId # NoId /\ step' = "up" /\ id' = defaultId
     \/ defaultId = NoId /\ step' = "exited" /\ UNCHANGED id
  /\ UNCHANGED <<run, rows>>

\* SettingsRepo.Get maps a missing row to ""; a found id is served as it is.
ReadDefault ==
  /\ step = "read"
  /\ \/ defaultId # NoId /\ step' = "up" /\ id' = defaultId /\ UNCHANGED run
     \/ defaultId = NoId /\ step' = "server" /\ id' = run /\ UNCHANGED run
     \/ Exit
  /\ UNCHANGED rows

CreateServer ==
  /\ step = "server"
  /\ \/ serverRows' = serverRows \cup {id} /\ GoOn("text")
     \/ serverRows' \in {serverRows, serverRows \cup {id}} /\ Exit
  /\ UNCHANGED <<defaultId, channelRows>>

WithChannel(kind) == channelRows \cup {<<id, kind>>}

CreateTextChannel ==
  /\ step = "text"
  /\ \/ channelRows' = WithChannel("text") /\ GoOn("voice")
     \/ channelRows' \in {channelRows, WithChannel("text")} /\ Exit
  /\ UNCHANGED <<defaultId, serverRows>>

CreateVoiceChannelErrorIgnored ==
  /\ step = "voice"
  /\ channelRows' \in {channelRows, WithChannel("voice")}
  /\ GoOn("record")
  /\ UNCHANGED <<defaultId, serverRows>>

CreateVoiceChannel ==
  /\ step = "voice"
  /\ \/ channelRows' = WithChannel("voice") /\ GoOn("record")
     \/ channelRows' \in {channelRows, WithChannel("voice")} /\ Exit
  /\ UNCHANGED <<defaultId, serverRows>>

RecordDefaultErrorIgnored ==
  /\ step = "record"
  /\ defaultId' \in {defaultId, id}
  /\ GoOn("up")
  /\ UNCHANGED <<serverRows, channelRows>>

RecordDefault ==
  /\ step = "record"
  /\ \/ defaultId' = id /\ GoOn("up")
     \/ defaultId' \in {defaultId, id} /\ Exit
  /\ UNCHANGED <<serverRows, channelRows>>

\* The process dies, while it boots or while it serves.
Crash ==
  /\ step # "exited"
  /\ Exit
  /\ UNCHANGED rows

\* restart: unless-stopped.
Restart ==
  /\ step = "exited"
  /\ run < MaxRuns
  /\ run' = run + 1
  /\ step' = "read"
  /\ id' = NoId
  /\ UNCHANGED rows

\* The next statement of ensureDefaultServer.
Boot == \/ ReadDefault
        \/ CreateServer
        \/ CreateTextChannel
        \/ CreateVoiceChannel
        \/ RecordDefault

Next == Boot \/ Crash \/ Restart

Spec == Init /\ [][Next]_vars

\* A running process goes on to its next statement, and compose restarts it.
FairSpec == Spec /\ WF_vars(Boot) /\ WF_vars(Restart)

-----------------------------------------------------------------------------
\* Whatever run recorded the default id, the server it names has its row and
\* both of its channels: a crash or a failed statement never leaves a recorded
\* server without a channel to join (ensureDefaultServer writes the record last).
DefaultServerComplete ==
  defaultId # NoId => /\ defaultId \in serverRows
                      /\ \A kind \in Kinds : <<defaultId, kind>> \in channelRows

\* A process that serves requests has bound the recorded id into its routes
\* (server.New passes defaultServerID by value).
ServesTheDefault == step = "up" => id = defaultId /\ id # NoId

\* Rows left behind by an unfinished bootstrap are never served again: only the
\* last run that got as far as the server row can hold the recorded id.
AbandonedStayAbandoned ==
  defaultId # NoId => \A s \in serverRows : s <= defaultId

\* Once recorded, the default server is the same for every later run.
DefaultNeverChanges == [][defaultId # NoId => defaultId' = defaultId]_defaultId

\* However the earlier runs ended, the instance ends up serving.
EventuallyServes == <>[](step = "up")
=============================================================================
