------------------------------- MODULE MCDesktop -------------------------------
(***************************************************************************)
(* The parts of the desktop that share nothing: its settings files, the    *)
(* start, the search, what it reports of itself, what its pages are told,  *)
(* its caches, and what it computes from data alone.  A behaviour is one   *)
(* of them; the others rest in one of their initial states.                *)
(***************************************************************************)
EXTENDS ConfigStores, Startup, KnowledgeSearch, Telemetry, Supervisor, Caches,
        Decisions

CONSTANTS u1, u2, u3, i1, i2, k1, k2, c1, c2, c3, d1, d2, e1, e2, e3, h1, h2,
          a1, a2, m1, m2, r1, r2

VARIABLE part

Parts == {"config", "keys", "repair", "search", "telemetry", "supervisor", "updates",
          "summaries", "figures", "decide"}
allVars == <<part, configVars, keyVars, repairVars, searchVars, telemetryVars, supervisorVars,
             updateVars, summaryVars, metaVars, decideVars>>

Init ==
  /\ part \in Parts
  /\ (part # "config" => kind = "settings") /\ ConfigInit
  /\ KeysInit /\ (part # "keys" => kept = {} /\ files.db = None_)
  /\ RepairInit /\ (part # "repair" => print = NoHost /\ host = [platform |-> "macos-arm", ram |-> 8])
  /\ SearchInit
  /\ TelemetryInit /\ (part # "telemetry" => dsn = "none" /\ ~enabled)
  /\ SupervisorInit /\ UpdateInit
  /\ SummariesInit /\ (part # "summaries" => rows[<<"some", "ollama">>] = NoRow)
  /\ MetaInit /\ (part # "figures" => catalog = [m \in Entries |-> "direct"])
  /\ (part # "decide" => topic = "eval" /\ given = [cases |-> <<>>, ends |-> "all"]) /\ DecideInit

Next ==
  \/ /\ part = "config" /\ ConfigNext
     /\ UNCHANGED <<part, keyVars, repairVars, searchVars, telemetryVars, supervisorVars, updateVars,
                    summaryVars, metaVars, decideVars>>
  \/ /\ part = "keys" /\ KeysNext
     /\ UNCHANGED <<part, configVars, repairVars, searchVars, telemetryVars, supervisorVars, updateVars,
                    summaryVars, metaVars, decideVars>>
  \/ /\ part = "repair" /\ RepairNext
     /\ UNCHANGED <<part, configVars, keyVars, searchVars, telemetryVars, supervisorVars, updateVars,
                    summaryVars, metaVars, decideVars>>
  \/ /\ part = "search" /\ SearchNext
     /\ UNCHANGED <<part, configVars, keyVars, repairVars, telemetryVars, supervisorVars, updateVars,
                    summaryVars, metaVars, decideVars>>
  \/ /\ part = "telemetry" /\ TelemetryNext
     /\ UNCHANGED <<part, configVars, keyVars, repairVars, searchVars, supervisorVars, updateVars,
                    summaryVars, metaVars, decideVars>>
  \/ /\ part = "supervisor" /\ SupervisorNext
     /\ UNCHANGED <<part, configVars, keyVars, repairVars, searchVars, telemetryVars, updateVars,
                    summaryVars, metaVars, decideVars>>
  \/ /\ part = "updates" /\ UpdateNext
     /\ UNCHANGED <<part, configVars, keyVars, repairVars, searchVars, telemetryVars, supervisorVars,
                    summaryVars, metaVars, decideVars>>
  \/ /\ part = "summaries" /\ SummariesNext
     /\ UNCHANGED <<part, configVars, keyVars, repairVars, searchVars, telemetryVars, supervisorVars,
                    updateVars, metaVars, decideVars>>
  \/ /\ part = "figures" /\ MetaNext
     /\ UNCHANGED <<part, configVars, keyVars, repairVars, searchVars, telemetryVars, supervisorVars,
                    updateVars, summaryVars, decideVars>>
  \/ /\ part = "decide" /\ Decide
     /\ UNCHANGED <<part, configVars, keyVars, repairVars, searchVars, telemetryVars, supervisorVars,
                    updateVars, summaryVars, metaVars>>

Spec == Init /\ [][Next]_allVars
=============================================================================
