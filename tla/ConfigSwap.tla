----------------------------- MODULE ConfigSwap -----------------------------
(***************************************************************************)
(* The configuration of the API server: create_app and its lifespan, the   *)
(* settings page's PUT /api/config and restarts (api/server.py).  A PUT    *)
(* writes the file through a temporary one and then replaces the config,   *)
(* the InfluxDB clients and the network cache of the application, one      *)
(* assignment after another.  The dashboard keeps the config and the cache *)
(* it was created with, and the PM ingest the store it was started with.   *)
(*                                                                         *)
(* One PUT is served at a time: two that overlap share config.tmp.yaml and *)
(* the assignments, and nothing is promised of them.                       *)
(***************************************************************************)
CONSTANTS
    Cfgs,    \* configurations that pass validation, secrets apart
    Kafka,   \* those that read PM files from Kafka
    Bad      \* a file that cannot be loaded; no configuration

ConfigAssumption == Kafka \subseteq Cfgs /\ Bad \notin Cfgs

VARIABLES
    disk,    \* what config.yaml says
    tmp,     \* config.tmp.yaml: "none", "part" or "whole"
    up,      \* the process runs
    booted,  \* the configuration the application was created with
    config,  \* app.state.config
    secrets, \* where the passwords and tokens in use are from
    writer,  \* app.state.influx_writer: its configuration, and if it is open
    cache,   \* app.state.network_cache: its configuration, if it has the
             \* store of the ingest and if its writer is the application's
    arrived, \* a PM file is in the store of the ingest
    put,     \* where a PUT is
    new      \* the configuration it brings

vars == <<disk, tmp, up, booted, config, secrets, writer, cache, arrived, put, new>>

live == <<booted, config, secrets, writer, cache, arrived>>

WriterOf(c)   == [cfg |-> c, open |-> c # Bad]
CacheOf(c, s) == [cfg |-> c, store |-> s, own |-> c # Bad]

------------------------------------------------------------------------------
Init ==
    /\ disk \in Cfgs \cup {Bad}
    /\ tmp = "none"
    /\ up = FALSE
    /\ booted = Bad
    /\ config = Bad
    /\ secrets = "env"
    /\ writer = WriterOf(Bad)
    /\ cache = CacheOf(Bad, FALSE)
    /\ arrived = FALSE
    /\ put = "idle"
    /\ new = Bad

\* create_app and the start of the lifespan: without a configuration there is
\* no cache, and without Kafka or a cache no store and no ingest.
Boot ==
    /\ ~up
    /\ up' = TRUE
    /\ booted' = disk
    /\ config' = disk
    /\ secrets' = "env"
    /\ writer' = WriterOf(disk)
    /\ cache' = CacheOf(disk, disk \in Kafka)
    /\ arrived' = FALSE
    /\ UNCHANGED <<disk, tmp, put, new>>

\* The drain task adds a PM file to the store it was started with.
Arrive ==
    /\ up
    /\ booted \in Kafka
    /\ arrived' = TRUE
    /\ UNCHANGED <<disk, tmp, up, booted, config, secrets, writer, cache, put, new>>

\* Faulty variant: the old clients are closed before the file is written.
PutOpenClosing(c) ==
    /\ up
    /\ put = "idle"
    /\ put' = "dump"
    /\ new' = c
    /\ tmp' = "part"
    /\ writer' = [writer EXCEPT !.open = FALSE]
    /\ UNCHANGED <<disk, up, booted, config, secrets, cache, arrived>>

\* The payload is valid; the temporary file is opened and so emptied.
PutOpen(c) ==
    /\ up
    /\ put = "idle"
    /\ put' = "dump"
    /\ new' = c
    /\ tmp' = "part"
    /\ UNCHANGED <<disk, up, live>>

PutDump ==
    /\ put = "dump"
    /\ put' = "replace"
    /\ tmp' = "whole"
    /\ UNCHANGED <<disk, up, live, new>>

PutReplace ==
    /\ put = "replace"
    /\ put' = "close"
    /\ disk' = new
    /\ tmp' = "none"
    /\ UNCHANGED <<up, live, new>>

\* An OSError of either: the temporary file is removed, the answer is a 500.
PutFails ==
    /\ put \in {"dump", "replace"}
    /\ put' = "idle"
    /\ tmp' = "none"
    /\ UNCHANGED <<disk, up, live, new>>

\* _carry_secrets: without a configuration those of the payload are used.
Carried == IF config = Bad THEN "payload" ELSE secrets

PutConfig ==
    /\ put = "close"
    /\ put' = "writer"
    /\ writer' = [writer EXCEPT !.open = FALSE]
    /\ config' = new
    /\ secrets' = Carried
    /\ UNCHANGED <<disk, tmp, up, booted, cache, arrived, new>>

PutWriter ==
    /\ put = "writer"
    /\ put' = "cache"
    /\ writer' = WriterOf(new)
    /\ cache' = [cache EXCEPT !.own = FALSE]
    /\ UNCHANGED <<disk, tmp, up, booted, config, secrets, arrived, new>>

\* The new cache has no store: only the lifespan gives it one.
PutCache ==
    /\ put = "cache"
    /\ put' = "idle"
    /\ cache' = CacheOf(new, FALSE)
    /\ UNCHANGED <<disk, tmp, up, booted, config, secrets, writer, arrived, new>>

\* A crash, or the end of the lifespan: what is in memory is gone.
Down ==
    /\ up
    /\ up' = FALSE
    /\ put' = "idle"
    /\ UNCHANGED <<disk, tmp, live, new>>

Next ==
    \/ Boot
    \/ Arrive
    \/ \E c \in Cfgs : PutOpen(c)
    \/ PutDump
    \/ PutReplace
    \/ PutFails
    \/ PutConfig
    \/ PutWriter
    \/ PutCache
    \/ Down

Spec == Init /\ [][Next]_vars

------------------------------------------------------------------------------
TypeOK ==
    /\ disk \in Cfgs \cup {Bad}
    /\ tmp \in {"none", "part", "whole"}
    /\ up \in BOOLEAN
    /\ booted \in Cfgs \cup {Bad}
    /\ config \in Cfgs \cup {Bad}
    /\ secrets \in {"env", "payload"}
    /\ writer \in [cfg : Cfgs \cup {Bad}, open : BOOLEAN]
    /\ cache \in [cfg : Cfgs \cup {Bad}, store : BOOLEAN, own : BOOLEAN]
    /\ arrived \in BOOLEAN
    /\ put \in {"idle", "dump", "replace", "close", "writer", "cache"}
    /\ new \in Cfgs \cup {Bad}

\* Between two PUTs, and whatever a failed write, a crash or a restart left
\* behind, the running application is of one piece: its configuration is the
\* one of the file, its cache and its InfluxDB writer are made for it, the
\* writer is open and is the one its cache uses, and the secrets of the
\* environment stay in use unless the application came up without a config.
ConfigCoherent ==
    up /\ put = "idle" =>
        /\ config = disk
        /\ writer = WriterOf(config)
        /\ cache.cfg = config
        /\ cache.own <=> config # Bad
        /\ secrets = "payload" => booted = Bad /\ config # Bad

\* "No PM data yet: waiting for VES notifyFileReady events": the API says so
\* for a Kafka configuration whose cache has no store, or an empty one.  It is
\* true: no event has brought a file since the process was started.
SaysWaiting ==
    /\ up
    /\ put = "idle"
    /\ config \in Kafka
    /\ ~cache.store \/ ~arrived

WaitingIsTrue == SaysWaiting => ~arrived
=============================================================================
