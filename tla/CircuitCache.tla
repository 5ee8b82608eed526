---------------------------- MODULE CircuitCache ----------------------------
(***************************************************************************)
(* The prover state of workers that share one circuit cache directory.     *)
(* A worker loads its preprocessed circuits from disk or, when that fails, *)
(* generates them and writes every resource in turn: the base circuits,    *)
(* the monolithic bundle, one file per table size and the verifier data.   *)
(* With the on-demand strategy only the base circuits are kept in memory   *)
(* and a segment proof reads the table files it needs.                     *)
(***************************************************************************)
EXTENDS Naturals, Sequences

CONSTANTS
    Workers,         \* prover processes
    Tables,          \* table circuits at a given size: what a table file is named by
    CircuitConfigs,  \* circuit configurations: the tables each one pre-generates,
                     \* in the order they are persisted in
    MaxCrashes       \* crashes or failed writes of a prover process

ASSUME CacheAssumption ==
    /\ "nobody" \notin Workers
    /\ CircuitConfigs \subseteq Seq(Tables)
    /\ MaxCrashes \in Nat

VARIABLES
    files,     \* contents of each file of the cache directory
    owner,     \* the worker that truncated the file last
    strategy,  \* what each worker loads
    circuits,  \* CircuitConfig of each worker
    wpc,       \* how far a worker's `initialize` has come
    toWrite,   \* resources that persist_all_to_disk has still to put
    missing,   \* tables that a segment proof of the worker could not load
    crashes,   \* crashes or failed writes so far
    oneByOne   \* no worker is started while another one is starting

cacheVars == <<files, owner, strategy, circuits, wpc, toWrite, missing, crashes, oneByOne>>

Nobody == "nobody"

\* The path of a resource: the configuration's digest is part of it, except
\* for the table circuits, which are named by circuit and size only.
Base(c) == <<"base", c>>
Monolithic(c) == <<"monolithic", c>>
Table(t) == <<"table", t>>
Verifier(c) == <<"verifier", c>>

Files == {Base(c) : c \in CircuitConfigs} \cup {Monolithic(c) : c \in CircuitConfigs}
         \cup {Table(t) : t \in Tables} \cup {Verifier(c) : c \in CircuitConfigs}

\* CircuitPersistence of a prover; the fourth is the verifier binary, which only
\* needs the verifier data.
Strategies == {"none", "on-demand", "monolithic", "verifier"}

Starting == {"load", "put", "write"}

CacheTypeOK ==
    /\ files \in [Files -> {"none", "partial", "full"}]
    /\ owner \in [Files -> Workers \cup {Nobody}]
    /\ strategy \in [Workers -> Strategies]
    /\ circuits \in [Workers -> CircuitConfigs]
    /\ wpc \in [Workers -> Starting \cup {"off", "ready"}]
    /\ toWrite \in [Workers -> Seq(Files)]
    /\ missing \in [Workers -> SUBSET Tables]
    /\ crashes \in 0 .. MaxCrashes
    /\ oneByOne \in BOOLEAN

CacheInit ==
    /\ files = [f \in Files |-> "none"]
    /\ owner = [f \in Files |-> Nobody]
    /\ strategy \in [Workers -> Strategies]
    /\ circuits \in [Workers -> CircuitConfigs]
    /\ wpc = [w \in Workers |-> "off"]
    /\ toWrite = [w \in Workers |-> <<>>]
    /\ missing = [w \in Workers |-> {}]
    /\ crashes = 0
    /\ oneByOne \in BOOLEAN

-----------------------------------------------------------------------------
(* DiskResource. *)

\* get: a file that is missing or incomplete does not deserialize.
Readable(f) == files[f] = "full"

\* Mutant: the last table size of the range is not persisted.
ProverFiles_short(c) == <<Base(c), Monolithic(c)>> \o [i \in 1 .. Len(c) - 1 |-> Table(c[i])]

\* prover_to_disk: the order in which the resources are put.
ProverFiles(c) == <<Base(c), Monolithic(c)>> \o [i \in 1 .. Len(c) |-> Table(c[i])]

TablesOf(c) == {c[i] : i \in 1 .. Len(c)}

Resources(w) ==
    (IF strategy[w] = "verifier" THEN <<>> ELSE ProverFiles(circuits[w]))
        \o <<Verifier(circuits[w])>>

\* The resource that is looked for first.
Wanted(w) ==
    CASE strategy[w] = "verifier" -> Verifier(circuits[w])
      [] strategy[w] = "on-demand" -> Base(circuits[w])
      [] OTHER -> Monolithic(circuits[w])

\* put, first half: the file is opened and truncated.
Open(w) ==
    /\ wpc[w] = "put"
    /\ toWrite[w] # <<>>
    /\ files' = [files EXCEPT ![Head(toWrite[w])] = "partial"]
    /\ owner' = [owner EXCEPT ![Head(toWrite[w])] = w]
    /\ wpc' = [wpc EXCEPT ![w] = "write"]
    /\ UNCHANGED <<strategy, circuits, toWrite, missing, crashes, oneByOne>>

\* put, second half: the bytes are written.  When another worker has truncated
\* the file in between and has not written it yet, there may be a hole.
WriteAll(w) ==
    LET f == Head(toWrite[w])
    IN  /\ wpc[w] = "write"
        /\ \E d \in IF owner[f] = w \/ files[f] = "full" THEN {"full"} ELSE {"partial", "full"} :
              files' = [files EXCEPT ![f] = d]
        /\ toWrite' = [toWrite EXCEPT ![w] = Tail(@)]
        /\ wpc' = [wpc EXCEPT ![w] = "put"]
        /\ UNCHANGED <<owner, strategy, circuits, missing, crashes, oneByOne>>

-----------------------------------------------------------------------------
(* ProverStateManager. *)

Start(w) ==
    /\ wpc[w] = "off"
    /\ oneByOne => \A v \in Workers : wpc[v] \notin Starting
    /\ wpc' = [wpc EXCEPT ![w] = "load"]
    /\ UNCHANGED <<files, owner, strategy, circuits, toWrite, missing, crashes, oneByOne>>

\* initialize: load the circuits, or generate them and persist everything.
Load(w) ==
    /\ wpc[w] = "load"
    /\ IF strategy[w] = "none" \/ Readable(Wanted(w))
       THEN wpc' = [wpc EXCEPT ![w] = "ready"] /\ UNCHANGED toWrite
       ELSE /\ wpc' = [wpc EXCEPT ![w] = "put"]
            /\ toWrite' = [toWrite EXCEPT ![w] = Resources(w)]
    /\ UNCHANGED <<files, owner, strategy, circuits, missing, crashes, oneByOne>>

\* P_STATE.set and MANAGER.set, once everything is on disk.
Initialized(w) ==
    /\ wpc[w] = "put"
    /\ toWrite[w] = <<>>
    /\ wpc' = [wpc EXCEPT ![w] = "ready"]
    /\ UNCHANGED <<files, owner, strategy, circuits, toWrite, missing, crashes, oneByOne>>

\* generate_segment_proof of a proof that needs table t: segment_proof_on_demand
\* loads its circuit from disk, the other strategies have it in memory.
SegmentProof(w, t) ==
    /\ wpc[w] = "ready" /\ strategy[w] # "verifier"
    /\ t \in TablesOf(circuits[w])
    /\ missing' = [missing EXCEPT ![w] =
                    IF strategy[w] = "on-demand" /\ ~Readable(Table(t)) THEN @ \cup {t} ELSE @]
    /\ UNCHANGED <<files, owner, strategy, circuits, wpc, toWrite, crashes, oneByOne>>

\* The process is killed, or a write fails and `initialize` returns the error;
\* it may be started again.
Crash(w) ==
    /\ crashes < MaxCrashes
    /\ wpc[w] # "off"
    /\ wpc' = [wpc EXCEPT ![w] = "off"]
    /\ toWrite' = [toWrite EXCEPT ![w] = <<>>]
    /\ crashes' = crashes + 1
    /\ UNCHANGED <<files, owner, strategy, circuits, missing, oneByOne>>

Initialize(w) == Start(w) \/ Load(w) \/ Open(w) \/ WriteAll(w) \/ Initialized(w)

AllReady == (\A w \in Workers : wpc[w] = "ready") /\ UNCHANGED cacheVars

CacheNext ==
    \/ \E w \in Workers :
          \/ Initialize(w) \/ Crash(w)
          \/ \E t \in Tables : SegmentProof(w, t)
    \/ AllReady

\* A prover process that was started goes on with `initialize`.
CacheFairness == \A w \in Workers : WF_cacheVars(Initialize(w))

CacheSpec == CacheInit /\ [][CacheNext]_cacheVars /\ CacheFairness

-----------------------------------------------------------------------------
(* Properties. *)

\* Without crashes and with workers started one after the other, a worker that
\* is ready finds every table of its configuration on disk, or in the middle
\* of being written again by a worker with another configuration: the table
\* files are shared between configurations.
TablesComplete ==
    oneByOne /\ crashes = 0 =>
        \A w \in Workers : wpc[w] = "ready" /\ strategy[w] = "on-demand" =>
            \A t \in TablesOf(circuits[w]) :
                \/ Readable(Table(t))
                \/ \E v \in Workers : wpc[v] = "write" /\ Head(toWrite[v]) = Table(t)

\* What prover_to_disk's comment says of the table files: they "allow us to load
\* only the necessary tables when needed", so no proof of a worker that is ready
\* fails for want of one.
TablesLoadable == \A w \in Workers : missing[w] = {}

\* A file is only ever cut short by a worker that is writing it or has crashed
\* while it was: no complete file is damaged by a worker that only reads.
CutByWriter ==
    \A f \in Files : files[f] = "full" /\ files'[f] # "full" =>
        \E w \in Workers : wpc'[w] = "write" /\ owner'[f] = w

\* Both, of every step: what it leaves behind (no worker is ready at the start) and
\* what it does.
CacheRight == [][TablesComplete' /\ CutByWriter]_cacheVars
=============================================================================
