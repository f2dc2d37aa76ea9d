---------------------------- MODULE McpLifecycle ----------------------------
(***************************************************************************)
(* The life of the MCP server (mcp/lifecycle.rs, the handle of             *)
(* mcp/server.rs, commands/mcp.rs): a listener with a pool of processor    *)
(* threads, started and stopped by the setting, restarted when its token   *)
(* is rotated or revoked, refused while processors of earlier instances    *)
(* still sit in a body read, over failed reads and writes of the settings  *)
(* and the keychain and a port that another program holds.                 *)
(*                                                                         *)
(* The commands run one after the other on the main thread; the processor  *)
(* threads go on beside them.                                              *)
(*                                                                         *)
(* D_Bug is D with a plausible bug, as in JobQueue.                        *)
(***************************************************************************)
EXTENDS Naturals

CONSTANTS
  McpPort,     \* ports of the setting
  PoolSize,    \* PROCESSOR_POOL_SIZE
  StalledCap,  \* STALLED_PROCESSOR_CAP
  MaxTokens,   \* bound: tokens generated
  MaxOutages   \* bound: failed calls and processes

ASSUME McpAssumption ==
  /\ McpPort # {} /\ PoolSize \in Nat \ {0} /\ StalledCap \in Nat \ {0}
  /\ MaxTokens \in Nat /\ MaxOutages \in Nat

VARIABLES
  mcp,       \* the settings: enabled, port
  token,     \* the bearer token in the keychain, 0 if there is none
  minted,    \* tokens generated so far
  server,    \* McpLifecycle's handle
  mcpError,  \* the last refusal
  bodies,    \* processors of the running server that sit in a body read
  parked,    \* STALLED_PROCESSORS
  taken,     \* ports other programs listen on
  outages,
  \* History variables, read by the properties only.
  refused,   \* the last rotation answered with an error
  unread     \* the start could not read the settings

mcpVars == <<mcp, token, minted, server, mcpError, bodies, parked, taken,
             outages, refused, unread>>

-----------------------------------------------------------------------------
Tokens == 1..MaxTokens
NoServer == [token |-> 0, port |-> 0]
RunsMcp == server # NoServer

Outage == outages < MaxOutages /\ outages' = outages + 1
NoOutage == UNCHANGED outages

\* Of the processors in a body read at a stop, those that do not return
\* within the join timeout are parked.
ParkedAfterStop == IF RunsMcp THEN parked..(parked + bodies) ELSE {parked}

\* ensure_started_with on a stopped server, with the settings and the
\* keychain as they read.
Refusal_PastCap(on, port, key, n) ==
  IF ~on THEN "disabled" ELSE IF n > StalledCap THEN "stalled"
  ELSE IF key = 0 THEN "token" ELSE IF port \in taken THEN "bind" ELSE "none"
Refusal(on, port, key, n) ==
  IF ~on THEN "disabled" ELSE IF n >= StalledCap THEN "stalled"
  ELSE IF key = 0 THEN "token" ELSE IF port \in taken THEN "bind" ELSE "none"

\* An unreadable token refuses like a missing one.
Starts(on, port, key, n) ==
  LET why == Refusal(on, port, key, n) IN
  /\ parked' = n
  /\ bodies' = 0
  /\ \/ /\ server' = IF why = "none" THEN [token |-> key, port |-> port] ELSE NoServer
        /\ mcpError' = IF why = "disabled" THEN "none" ELSE why
        /\ NoOutage
     \/ /\ Outage
        /\ server' = NoServer
        /\ mcpError' \in {"settings"} \cup (IF why \in {"none", "token", "bind"} THEN {"token"} ELSE {})

Stays == UNCHANGED <<server, bodies, parked>>

-----------------------------------------------------------------------------
(* set_mcp_enabled, the port setting. *)

\* Already running: nothing but the error changes.
Enable ==
  /\ mcp' = [mcp EXCEPT !.on = TRUE]
  /\ IF RunsMcp
     THEN Stays /\ \/ mcpError' = "none" /\ NoOutage
                   \/ mcpError' = "settings" /\ Outage
     ELSE Starts(TRUE, mcp.port, token, parked)
  /\ UNCHANGED <<token, minted, taken, refused, unread>>

Disable ==
  /\ mcp' = [mcp EXCEPT !.on = FALSE]
  /\ server' = NoServer /\ bodies' = 0 /\ parked' \in ParkedAfterStop
  /\ mcpError' = "none"
  /\ UNCHANGED <<token, minted, taken, outages, refused, unread>>

\* A running server keeps its port until its next start.
ChangePort ==
  /\ \E p \in McpPort \ {mcp.port} : mcp' = [mcp EXCEPT !.port = p]
  /\ UNCHANGED <<token, minted, server, mcpError, bodies, parked, taken, outages, refused, unread>>

-----------------------------------------------------------------------------
(* regenerate_token_with_restart_impl, revoke_token_with_restart_impl. *)

\* stop, then ensure_started: a running server is always replaced.
Restarts_IfDown(key) ==
  IF RunsMcp THEN Stays /\ mcpError' = "none" /\ NoOutage
  ELSE Starts(mcp.on, mcp.port, key, parked)
Restarts_StopOnly(key) ==
  /\ server' = NoServer /\ bodies' = 0 /\ parked' \in ParkedAfterStop
  /\ mcpError' = "none" /\ NoOutage
Restarts(key) == \E n \in ParkedAfterStop : Starts(mcp.on, mcp.port, key, n)

Regenerate ==
  /\ minted < MaxTokens
  /\ minted' = minted + 1 /\ token' = minted'
  /\ Restarts(token')
  /\ refused' = FALSE
  /\ UNCHANGED <<mcp, taken, unread>>

\* The store fails and the old token stays, or the new one is stored and
\* cannot be read back: no restart in either case.
RegenerateFails ==
  /\ minted < MaxTokens
  /\ Outage
  /\ minted' = minted + 1
  /\ token' \in {token, minted'}
  /\ refused' = TRUE
  /\ UNCHANGED <<mcp, server, mcpError, bodies, parked, taken, unread>>

Revoke ==
  /\ token # 0
  /\ token' = 0
  /\ Restarts(0)
  /\ refused' = FALSE
  /\ UNCHANGED <<mcp, minted, taken, unread>>

-----------------------------------------------------------------------------
(* The processors, other programs, the process. *)

BodyStalls ==
  /\ RunsMcp /\ bodies < PoolSize
  /\ bodies' = bodies + 1
  /\ UNCHANGED <<mcp, token, minted, server, mcpError, parked, taken, outages, refused, unread>>

BodyEnds ==
  /\ bodies > 0
  /\ bodies' = bodies - 1
  /\ UNCHANGED <<mcp, token, minted, server, mcpError, parked, taken, outages, refused, unread>>

ParkedExits ==
  /\ parked > 0
  /\ parked' = parked - 1
  /\ UNCHANGED <<mcp, token, minted, server, mcpError, bodies, taken, outages, refused, unread>>

OtherProgram ==
  /\ \E p \in McpPort : /\ ~(RunsMcp /\ server.port = p)
                        /\ taken' = IF p \in taken THEN taken \ {p} ELSE taken \cup {p}
  /\ UNCHANGED <<mcp, token, minted, server, mcpError, bodies, parked, outages, refused, unread>>

\* The process ends and starts again; settings it cannot read count as
\* disabled.
Reopens ==
  /\ outages < MaxOutages
  /\ \/ mcp.on /\ Starts(TRUE, mcp.port, token, 0) /\ unread' = FALSE
     \/ /\ server' = NoServer /\ mcpError' = "none" /\ bodies' = 0 /\ parked' = 0
        /\ IF mcp.on THEN Outage /\ unread' = TRUE ELSE NoOutage /\ unread' = FALSE
  /\ refused' = FALSE
  /\ UNCHANGED <<mcp, token, minted, taken>>

-----------------------------------------------------------------------------
McpInit ==
  /\ mcp \in [on : {FALSE}, port : McpPort]
  /\ token = 0 /\ minted = 0
  /\ server = NoServer /\ mcpError = "none"
  /\ bodies = 0 /\ parked = 0 /\ taken = {} /\ outages = 0
  /\ refused = FALSE /\ unread = FALSE

McpNext ==
  \/ Enable \/ Disable \/ ChangePort
  \/ Regenerate \/ RegenerateFails \/ Revoke
  \/ BodyStalls \/ BodyEnds \/ ParkedExits \/ OtherProgram \/ Reopens

McpSpec == McpInit /\ [][McpNext]_mcpVars

-----------------------------------------------------------------------------
(* Properties. *)

\* Types; however often the server is restarted over processors that never
\* return, fewer than the cap and one more pool of them are ever parked, and
\* no server has a port that another program holds (the start refusal at
\* STALLED_PROCESSOR_CAP).
McpTypeOK ==
  /\ mcp \in [on : BOOLEAN, port : McpPort]
  /\ token \in {0} \cup Tokens /\ minted \in {0} \cup Tokens
  /\ server \in [token : Tokens, port : McpPort] \cup {NoServer}
  /\ mcpError \in {"none", "settings", "stalled", "token", "bind"}
  /\ bodies \in 0..PoolSize
  /\ parked \in 0..(StalledCap + PoolSize - 1)
  /\ RunsMcp => parked + bodies < StalledCap + PoolSize /\ server.port \notin taken

\* The server runs only while it is enabled, and with the token the keychain
\* holds, unless the last rotation stored a token and answered with an error
\* because it could not read it back (the restart on rotation).
ServesStoredToken == RunsMcp => mcp.on /\ (server.token = token \/ refused)

\* An enabled server that is down says why, unless the start of the process
\* could not read the settings; one that runs shows no error but that of
\* settings it failed to read again (McpStatus::error).
DownIsExplained ==
  /\ mcp.on /\ ~RunsMcp => mcpError # "none" \/ unread
  /\ RunsMcp => mcpError \in {"none", "settings"}

\* What runs, and what is shown of it, is what settings and keychain say.
ServerMatchesSettings == ServesStoredToken /\ DownIsExplained
=============================================================================
