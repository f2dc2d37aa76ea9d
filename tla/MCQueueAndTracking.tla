------------------------- MODULE MCQueueAndTracking -------------------------
(***************************************************************************)
(* Five components in one run, none of whose variables the others share:   *)
(* the job queue, the registry of running work and the view of it, the     *)
(* scheduler, the MCP server, and a fact slot.  part is chosen at the      *)
(* start, and the variables of the others keep their initial values.       *)
(***************************************************************************)
EXTENDS MCJobQueue, ActivityRegistry, Scheduler, McpLifecycle,
        FactSlot

VARIABLE part
partVars == <<part, vars, registryVars, schedVars, mcpVars, factVars>>

\* Values of the scheduler's constants.
Intervals == [f \in Adapter |-> IF f \in Registry THEN 2 ELSE 3]
Jitters == [f \in Adapter |-> IF f \in Registry THEN 0 ELSE 1]

InFlight == Cardinality({w \in Scribe : scribe[w] # Away}) + (IF pull = Rest THEN 0 ELSE 1)

\* The scheduler is run with one source at a time, which share nothing but the
\* settings; the slot with one call in flight, or with the two writers that use
\* no transaction at once, two figures and no call cut short.
InPart ==
  /\ enabled \subseteq CASE part = "feed" -> {"feed"}
                         [] part = "registry" -> {"registry"}
                         [] OTHER -> {}
  /\ part \notin {"feed", "registry"} => poll = 0
  /\ part # "mcp" => mcp.port = 8317
  /\ part = "slot" => InFlight <= 1
  /\ part = "contended" =>
       pull = Rest /\ cuts = 0 /\ 2 \notin {fact.value} \cup {scribe[w].value : w \in Scribe}

PartInit ==
  /\ part \in {"queue", "tracking", "feed", "registry", "mcp", "slot", "contended"}
  /\ Init /\ RegistryInit /\ SchedInit /\ McpInit /\ FactInit
  /\ InPart

PartNext ==
  /\ UNCHANGED part
  /\ \/ /\ part = "queue" /\ Next
        /\ UNCHANGED <<registryVars, schedVars, mcpVars, factVars>>
     \/ /\ part = "tracking" /\ RegistryNext
        /\ UNCHANGED <<vars, schedVars, mcpVars, factVars>>
     \/ /\ part \in {"feed", "registry"} /\ SchedNext
        /\ UNCHANGED <<vars, registryVars, mcpVars, factVars>>
     \/ /\ part = "mcp" /\ McpNext
        /\ UNCHANGED <<vars, registryVars, schedVars, factVars>>
     \/ /\ part \in {"slot", "contended"} /\ FactNext
        /\ UNCHANGED <<vars, registryVars, schedVars, mcpVars>>
  /\ InPart'

PartSpec == PartInit /\ [][PartNext]_partVars

\* The variables of every component keep their types.
PartTypeOK == TypeOK /\ RegistryTypeOK /\ SchedTypeOK /\ McpTypeOK /\ FactTypeOK
=============================================================================
