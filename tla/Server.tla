------------------------------- MODULE Server -------------------------------
(***************************************************************************)
(* The parts of the API server that stand beside the commit path, the      *)
(* optimizer and the feed.  They share no state, so a behaviour takes one  *)
(* of them (the variable part) and leaves the others idle.                 *)
(*                                                                         *)
(* The parts "views", "plan" and "pm" are functions of an input that Init  *)
(* chooses; their properties are about initial states.                     *)
(***************************************************************************)
EXTENDS ReplanGate

CONSTANTS
    None, Text,
    Assignments,               \* of "views"
    Types, NaN, Plans, PmFeeds, \* of "plan" and "pm"
    Cfgs, Kafka, Bad,          \* of "config"
    Runs, MaxChanges,          \* of "runs"
    SiteCells, Fields, Required, Vals, Reports, Ids, Sheets,
    Threads, Asked, SnapSlots, Out,   \* of "site"
    Burst, MaxFails, Window, Session, SignInTime,  \* of "sign-in"
    Step, MaxAge, Spans, Target, ClockTime, MaxMoves,        \* of "history"
    Comps, Cleanups, Ttl, Limit, Grace, ProcessTime          \* of "process"

VARIABLES
    part,
    pci,   \* of "views"
    input, \* of "plan" and "pm"
    disk, tmp, up, booted, config, secrets, writer, cache, arrived, put, new,
    stage, run, made, done, temps, files, broken,
    feed, snaps, current, over, wanted, uploads, at, slot, job,
    now, bucket, fails, session, granted, wrong,
    clock, moves, running, mem, file,
    time, phase, ready, shutdown, hooks, drained, server, deadline,
    well, seen, kept, checked, lock, since, found, answer

------------------------------------------------------------------------------
I == INSTANCE NetworkInput WITH NotANumber <- NaN

C == INSTANCE ConfigSwap

R == INSTANCE RunFiles

S == INSTANCE SiteBook WITH Cells <- SiteCells, Slots <- SnapSlots, Gone <- Bad

T == INSTANCE Throttle WITH MaxTime <- SignInTime

H == INSTANCE Series WITH MaxTime <- ClockTime, up <- running

P == INSTANCE Probes WITH MaxTime <- ProcessTime, now <- time, cache <- kept

CVars == <<disk, tmp, up, booted, config, secrets, writer, cache, arrived, put, new>>
RVars == <<stage, run, made, done, temps, files, broken>>
SVars == <<feed, snaps, current, over, wanted, uploads, at, slot, job>>
TVars == <<now, bucket, fails, session, granted, wrong>>
HVars == <<clock, moves, running, mem, file>>
PVars == <<time, phase, ready, shutdown, hooks, drained, server, deadline,
           well, seen, kept, checked, lock, since, found, answer>>

ASSUME ServerAssumption ==
    /\ Assignments \subseteq [Cells -> Pcis]
    /\ I!InputAssumption
    /\ \A sheet \in Plans : I!IsSequence(sheet)
    /\ \A pms \in PmFeeds : I!FilesRead(pms)
    /\ C!ConfigAssumption
    /\ R!RunsAssumption
    /\ T!ThrottleAssumption
    /\ H!SeriesAssumption
    /\ P!ProbesAssumption

vars == <<part, pci, input, CVars, RVars, SVars, TVars, HVars, PVars>>

Fixed == UNCHANGED <<part, pci, input>>

IdleC == /\ disk = None /\ tmp = None /\ up = None /\ booted = None
         /\ config = None /\ secrets = None /\ writer = None /\ cache = None
         /\ arrived = None /\ put = None /\ new = None
IdleR == /\ stage = None /\ run = None /\ made = None /\ done = None
         /\ temps = None /\ files = None /\ broken = None
IdleS == /\ feed = None /\ snaps = None /\ current = None /\ over = None
         /\ wanted = None /\ uploads = None /\ at = None /\ slot = None /\ job = None
IdleT == /\ now = None /\ bucket = None /\ fails = None /\ session = None
         /\ granted = None /\ wrong = None
IdleH == clock = None /\ moves = None /\ running = None /\ mem = None /\ file = None
IdleP == /\ time = None /\ phase = None /\ ready = None /\ shutdown = None
         /\ hooks = None /\ drained = None /\ server = None /\ deadline = None
         /\ well = None /\ seen = None /\ kept = None /\ checked = None
         /\ lock = None /\ since = None /\ found = None /\ answer = None

Init ==
    /\ part \in {"views", "plan", "pm", "config", "runs", "site", "sign-in",
                 "history", "process"}
    /\ IF part = "views" THEN pci \in Assignments ELSE pci = None
    /\ IF part = "plan" THEN input \in Plans
       ELSE IF part = "pm" THEN input \in PmFeeds
       ELSE input = None
    /\ IF part = "config" THEN C!Init ELSE IdleC
    /\ IF part = "runs" THEN R!Init ELSE IdleR
    /\ IF part = "site" THEN S!Init ELSE IdleS
    /\ IF part = "sign-in" THEN T!Init ELSE IdleT
    /\ IF part = "history" THEN H!Init ELSE IdleH
    /\ IF part = "process" THEN P!Init ELSE IdleP

\* A step of one part, the others idle.
InC(A) == part = "config" /\ A /\ Fixed /\ UNCHANGED <<RVars, SVars, TVars, HVars, PVars>>
InR(A) == part = "runs" /\ A /\ Fixed /\ UNCHANGED <<CVars, SVars, TVars, HVars, PVars>>
InS(A) == part = "site" /\ A /\ Fixed /\ UNCHANGED <<CVars, RVars, TVars, HVars, PVars>>
InT(A) == part = "sign-in" /\ A /\ Fixed /\ UNCHANGED <<CVars, RVars, SVars, HVars, PVars>>
InH(A) == part = "history" /\ A /\ Fixed /\ UNCHANGED <<CVars, RVars, SVars, TVars, PVars>>
InP(A) == part = "process" /\ A /\ Fixed /\ UNCHANGED <<CVars, RVars, SVars, TVars, HVars>>

Next ==
    \/ InC(C!Next)
    \/ InR(R!Next)
    \/ InS(S!Next)
    \/ InT(T!Next)
    \/ InH(H!Next)
    \/ InP(P!Next)

\* Threads of the server go on.  No fetch is obliged to succeed.
Fairness == \A t \in Threads : WF_vars(InS(S!GoOn(t)))

Spec == Init /\ [][Next]_vars /\ Fairness

------------------------------------------------------------------------------
\* The five views of the conflicts of one assignment agree, see ReplanGate.
ViewsAgree == part = "views" => ViewsAgreeOn(pci)

\* A PCI that the dashboard proposes for a cell is clear of its neighbours'.
ProposalIsClear == part = "views" => ProposalIsClearOn(pci)

\* The correlation gate's pairs and verdict go by the listed conflicts.
GateReadsConflicts == part = "views" => GateReadsConflictsOn(pci)

\* A plan that is read, exported and read again stays the same; PM files give
\* a sound network, in whatever order, that survives the way through a plan.
ImportsAgree ==
    /\ part = "plan" => I!PlanAgrees(input)
    /\ part = "pm" => I!PmAgrees(input)

\* The application is of one piece between two changes of its configuration.
ConfigCoherent == part = "config" => C!ConfigCoherent

\* What the run files tell of the snapshot is true, whatever was cut short.
RunsTell == part = "runs" => R!RunsTell

\* Grants, failures and lockouts keep to their bounds over any stretch of time.
Throttled == part = "sign-in" => T!Throttled

\* The throughput history stays in order and spaced under clock changes,
\* crashes and failed writes.
SeriesSpaced == part = "history" => H!SeriesSpaced

\* Answers about health are of the last Ttl and Limit, and a stop begins with the
\* probes and ends with no cleanup left, whenever the server goes.
ProbesTrue == part = "process" => P!ProbesTrue

Quiet == part = "site" => S!Quiet
Shown == part = "site" => S!Shown

\* Fetches succeed again and again.
Renewed == []<><<InS(S!Refresh)>>_vars

\* While the cache is renewed, site data that was uploaded stays shown.
SitesSettle == Renewed /\ <>[]Quiet => <>[]Shown
=============================================================================
