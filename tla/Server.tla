------------------------------- MODULE Server -------------------------------
(***************************************************************************)
(* The server process (src/apps/server.cpp): signals, startup, the thread  *)
(* that watches for reload and shutdown, and the shutdown order, with the  *)
(* accounting of calls in the service (vector_search_service.cpp).         *)
(*                                                                         *)
(* The gRPC server is external: it takes calls while it is up, Shutdown()  *)
(* without a deadline refuses new ones and returns when the handlers have  *)
(* returned, and Wait() returns after that.  The search executor appears   *)
(* by what SearchExecutor shows of it: once stopped it refuses searches    *)
(* and settles the admitted ones, and the publication manager by the       *)
(* actions of ReleaseRegister, which SnapshotPublication implements.  A    *)
(* snapshot file, here or at a publisher, is known by its version; version *)
(* 0 is the empty index of a server without --load-index.  Of the options, *)
(* only those that constrain each other are kept.                          *)
(***************************************************************************)
EXTENDS Naturals, FiniteSets

CONSTANTS
    Calls,          \* every RPC the clients will make
    Kind,           \* "unary", "search" or "stream" for each call
    Configs,        \* the command lines the operator may give
    MaxFiles,       \* bound on the versions of the snapshot file
    MaxGenerations  \* bound on the generations that publishers announce

ASSUME CallsAssumption == IsFiniteSet(Calls) /\ Kind \in [Calls -> {"unary", "search", "stream"}]
ASSUME FilesAssumption == MaxFiles \in Nat \ {0} /\ MaxGenerations \in Nat \ {0}

\* ServerConfig: --load-index and --snapshot-manifest are given or not, and
\* the manifest describes one version of the file (0: no manifest).
Options ==
    [load : BOOLEAN, readOnly : BOOLEAN, reloadOnSighup : BOOLEAN,
     manifest : 0..MaxFiles, generation : 0..MaxGenerations, publication : BOOLEAN]

ASSUME ConfigsAssumption == Configs \subseteq Options

VARIABLES
    stop,       \* stop_requested
    reload,     \* reload_requested
    token,      \* the stop token of the monitor's jthread
    main,       \* where main() is
    monitor,    \* where the monitor thread is
    server,     \* the gRPC server
    stopped,    \* the executor no longer admits searches
    call,       \* where each call is
    code,       \* the status each call returns with
    counts,     \* status_counts_
    summary,    \* the counts that log_rpc_summary() wrote, or {}
    config,     \* the ServerConfig
    file,       \* the version of the snapshot file
    loaded,     \* the version the monitor has loaded, 0 for none
    served,     \* the version in the store, 0 before there is one
    generation, \* the generation of what is served, 0 if unmanaged
    highest,    \* the highest generation accepted so far
    accepted,   \* history: the version each generation was accepted with, or 0
    ready,      \* the candidate of the highest generation is READY_TO_ACTIVATE
    tried,      \* the newest version that a load has read
    announced   \* the newest version that a SIGHUP followed

process == <<token, main, monitor, server>>
rpcs == <<call, code, counts>>
snapshots == <<file, loaded, tried, announced>>
store == <<served, generation, highest, accepted, ready>>
files == <<config, snapshots, store>>
vars == <<stop, reload, process, stopped, rpcs, summary, files>>

Codes == {"OK", "CANCELLED", "UNAVAILABLE", "INVALID_ARGUMENT"}

\* Type invariant.
TypeOK ==
    /\ stop \in BOOLEAN /\ reload \in BOOLEAN /\ token \in BOOLEAN /\ stopped \in BOOLEAN
    /\ config \in Configs
    /\ main \in {"parsing", "loading", "loaded", "listening", "hooked", "serving", "waiting",
                 "joining", "unwinding", "dropping", "leaving", "exited", "killed"}
    /\ monitor \in {"unborn", "loop", "reading", "replacing", "stopping", "closing", "draining", "joining", "finished"}
    /\ server \in {"down", "up", "closing", "closed"}
    /\ call \in [Calls -> {"none", "running", "preparing", "queued", "finishing", "done"}]
    /\ code \in [Calls -> Codes]
    /\ counts \in [Codes -> 0..Cardinality(Calls)]
    /\ summary \in {{}} \union {{c} : c \in [Codes -> 0..Cardinality(Calls)]}
    /\ file \in 1..MaxFiles
    /\ loaded \in 0..file /\ tried \in 0..file /\ announced \in 0..file
    /\ served \in 0..MaxFiles /\ ready \in BOOLEAN
    /\ generation \in 0..MaxGenerations /\ highest \in 0..MaxGenerations
    /\ accepted \in [0..MaxGenerations -> 0..MaxFiles]

Init ==
    /\ stop = FALSE /\ reload = FALSE /\ token = FALSE /\ stopped = FALSE
    /\ config \in Configs
    /\ main = "parsing" /\ monitor = "unborn" /\ server = "down"
    /\ call = [c \in Calls |-> "none"] /\ code = [c \in Calls |-> "OK"]
    /\ counts = [k \in Codes |-> 0] /\ summary = {}
    /\ file = 1 /\ loaded = 0 /\ tried = 0 /\ announced = 0
    /\ served = 0 /\ generation = 0 /\ highest = 0 /\ ready = FALSE
    /\ accepted = [g \in 0..MaxGenerations |-> 0]

\* The manager and the read-only store, as the register of releases.
Publication == INSTANCE ReleaseRegister WITH
    Generations <- 0..MaxGenerations, Descriptions <- 1..MaxFiles,
    Contents <- 0..MaxFiles, None <- 0,
    fence <- highest, proposed <- accepted, released <- generation, content <- served

\* The handler of SIGHUP is installed, and only with --reload-on-sighup.
Hooked == config.reloadOnSighup /\ main \notin {"parsing", "loading", "loaded", "listening"}

-----------------------------------------------------------------------------
(* Signals and the operator *)

SigTerm ==
    /\ ~stop
    /\ stop' = TRUE
    /\ UNCHANGED <<reload, process, stopped, rpcs, summary, files>>

\* A new file is published under the path of --load-index, to be announced.
Publish ==
    /\ config.load
    /\ file < MaxFiles
    /\ file' = file + 1
    /\ UNCHANGED <<stop, reload, process, stopped, rpcs, summary, config, loaded, store, tried, announced>>

\* SIGHUP before its handler is installed ends the process.
SigHup ==
    /\ announced < file
    /\ IF Hooked THEN /\ reload' = TRUE
                      /\ announced' = file
                      /\ UNCHANGED main
                 ELSE /\ main' = "killed"
                      /\ UNCHANGED <<reload, announced>>
    /\ UNCHANGED <<stop, token, monitor, server, stopped, rpcs, summary, config, file, loaded, store, tried>>

-----------------------------------------------------------------------------
(* main() *)

Goto(place) == main' = place

\* A managed replica: any of its three options asks for it.
Managed(c) == c.manifest # 0 \/ c.generation # 0 \/ c.publication

\* What the options require of each other.
Valid(c) ==
    /\ Managed(c) => /\ c.manifest # 0 /\ c.generation # 0
                     /\ c.readOnly /\ c.load /\ ~c.reloadOnSighup
    /\ c.reloadOnSighup => c.load /\ c.readOnly

\* parse_arguments; the manifest may be unreadable.
Parse ==
    /\ main = "parsing"
    /\ \/ Valid(config) /\ Goto("loading")
       \/ (~Valid(config) \/ config.manifest # 0) /\ Goto("exited")
    /\ UNCHANGED <<stop, reload, token, monitor, server, stopped, rpcs, summary, files>>

\* load_snapshot can succeed: with a manifest, load_verified_snapshot takes
\* only the file that the manifest describes, from a copy of its own.
Loadable == config.manifest \in {0, file}

\* make_index, the store and the service; a bad snapshot ends the process.
\* The file is served under the generation of the options, 0 if unmanaged.
Load ==
    /\ main = "loading"
    /\ tried' = IF config.load THEN file ELSE tried
    /\ \/ /\ config.load /\ Loadable
          /\ served' = file
          /\ generation' = config.generation /\ highest' = config.generation
          /\ accepted' = [accepted EXCEPT ![config.generation] = file]
          /\ Goto("loaded")
          /\ UNCHANGED ready
       \/ ~config.load /\ Goto("loaded") /\ UNCHANGED store
       \/ Goto("exited") /\ UNCHANGED store
    /\ UNCHANGED <<stop, reload, token, monitor, server, stopped, rpcs, summary, config, file, loaded, announced>>

\* A stop that came during startup, or BuildAndStart.
Listen ==
    /\ main = "loaded"
    /\ \/ stop /\ Goto("leaving") /\ UNCHANGED server
       \/ ~stop /\ Goto("leaving") /\ UNCHANGED server
       \/ ~stop /\ Goto("listening") /\ server' = "up"
    /\ UNCHANGED <<stop, reload, token, monitor, stopped, rpcs, summary, files>>

Hook ==
    /\ main = "listening"
    /\ Goto("hooked")
    /\ UNCHANGED <<stop, reload, token, monitor, server, stopped, rpcs, summary, files>>

\* The monitor starts; if its thread cannot, the server is destroyed.
StartMonitor ==
    /\ main = "hooked"
    /\ \/ Goto("serving") /\ monitor' = "loop" /\ UNCHANGED server
       \/ Goto("dropping") /\ server' = "closing" /\ UNCHANGED monitor
    /\ UNCHANGED <<stop, reload, token, stopped, rpcs, summary, files>>

\* The startup record, then Wait(); an exception destroys the monitor first,
\* which asks it to stop.
Serve ==
    /\ main = "serving"
    /\ \/ Goto("waiting") /\ UNCHANGED token
       \/ Goto("unwinding") /\ token' = TRUE
    /\ UNCHANGED <<stop, reload, monitor, server, stopped, rpcs, summary, files>>

Running == {c \in Calls : call[c] \in {"running", "preparing", "queued", "finishing"}}

\* server->Wait() returns.
Wait ==
    /\ main = "waiting"
    /\ server = "closed"
    /\ Goto("joining")
    /\ UNCHANGED <<stop, reload, token, monitor, server, stopped, rpcs, summary, files>>

\* Mutation: the record is written while the monitor still drains the calls.
JoinedNobody == main \in {"joining", "unwinding"}

Joined == main \in {"joining", "unwinding"} /\ monitor = "finished"

Join ==
    /\ Joined
    /\ Goto("leaving")
    /\ UNCHANGED <<stop, reload, token, monitor, server, stopped, rpcs, summary, files>>

\* ~Server when the monitor could not start.
Drop ==
    /\ main = "dropping"
    /\ Running = {}
    /\ server' = "closed"
    /\ Goto("leaving")
    /\ UNCHANGED <<stop, reload, token, monitor, stopped, rpcs, summary, files>>

\* log_rpc_summary, from main() or from the destructor of the service, which
\* shuts the executor down first.
Leave ==
    /\ main = "leaving"
    /\ summary' = {counts}
    /\ stopped' = TRUE
    /\ Goto("exited")
    /\ UNCHANGED <<stop, reload, token, monitor, server, rpcs, files>>

-----------------------------------------------------------------------------
(* The monitor thread *)

\* exchange(0) takes the request before the file is read.
Exchange ==
    /\ monitor = "loop" /\ ~stop /\ ~token
    /\ reload
    /\ reload' = FALSE
    /\ monitor' = "reading"
    /\ UNCHANGED <<stop, token, main, server, stopped, rpcs, summary, files>>

\* load_snapshot reads the file; a failure keeps the index.
Read ==
    /\ monitor = "reading"
    /\ tried' = file
    /\ \/ Loadable /\ loaded' = file /\ monitor' = "replacing"
       \/ UNCHANGED loaded /\ monitor' = "loop"
    /\ UNCHANGED <<stop, reload, token, main, server, stopped, rpcs, summary, config, file, store, announced>>

\* replace_index publishes what was loaded, unless the store takes writes or
\* serves a generation, or keeps the previous index.
ReplaceIndex ==
    \/ config.readOnly /\ Publication!Reload(loaded) /\ UNCHANGED ready
    \/ UNCHANGED store

\* Mutation: requests that came during the reload are taken for done.
ReplaceAndClear ==
    /\ monitor = "replacing"
    /\ ReplaceIndex
    /\ reload' = FALSE
    /\ monitor' = "loop"
    /\ UNCHANGED <<stop, token, main, server, stopped, rpcs, summary, config, file, loaded, tried, announced>>

Replace ==
    /\ monitor = "replacing"
    /\ ReplaceIndex
    /\ monitor' = "loop"
    /\ UNCHANGED <<stop, reload, token, main, server, stopped, rpcs, summary, config, file, loaded, tried, announced>>

LeaveLoop ==
    /\ monitor = "loop"
    /\ stop \/ token
    /\ monitor' = "stopping"
    /\ UNCHANGED <<stop, reload, token, main, server, stopped, rpcs, summary, files>>

\* Mutation: the searches are left to finish by themselves.
LeaveSearches ==
    /\ monitor = "stopping"
    /\ monitor' = "closing"
    /\ UNCHANGED <<stop, reload, token, main, server, stopped, rpcs, summary, files>>

\* stop_searches() comes before server->Shutdown().
StopSearches ==
    /\ monitor = "stopping"
    /\ stopped' = TRUE
    /\ monitor' = "closing"
    /\ UNCHANGED <<stop, reload, token, main, server, rpcs, summary, files>>

\* server->Shutdown() refuses new calls and waits.
Shutdown ==
    /\ monitor = "closing"
    /\ server' = "closing"
    /\ monitor' = "draining"
    /\ UNCHANGED <<stop, reload, token, main, stopped, rpcs, summary, files>>

\* It returns, and with it Wait() in main().
Drained ==
    /\ monitor = "draining"
    /\ Running = {}
    /\ server' = "closed"
    /\ monitor' = "joining"
    /\ UNCHANGED <<stop, reload, token, main, stopped, rpcs, summary, files>>

\* shutdown_searches() joins the workers, and the thread ends.
JoinWorkers ==
    /\ monitor = "joining"
    /\ stopped' = TRUE
    /\ monitor' = "finished"
    /\ UNCHANGED <<stop, reload, token, main, server, rpcs, summary, files>>

-----------------------------------------------------------------------------
(* Calls *)

\* begin_rpc; a search goes on to the executor.
Begin(c) ==
    /\ call[c] = "none"
    /\ server = "up"
    /\ call' = [call EXCEPT ![c] = "running"]
    /\ UNCHANGED <<stop, reload, process, stopped, code, counts, summary, files>>

\* A handler returns with status k; INVALID_ARGUMENT stands for every error
\* of a request.
Returns(c, k) ==
    /\ call' = [call EXCEPT ![c] = "finishing"]
    /\ code' = [code EXCEPT ![c] = k]
    /\ UNCHANGED <<stop, reload, process, stopped, counts, summary, config, snapshots>>

Ends(c, k) == Returns(c, k) /\ UNCHANGED store

\* A unary handler ends, a search is refused before it is queued, by a stopped
\* executor at the latest, and a stream by a server without publication.
Handle(c) ==
    /\ call[c] = "running"
    /\ \/ Kind[c] = "unary" /\ \E k \in {"OK", "CANCELLED", "INVALID_ARGUMENT"} : Ends(c, k)
       \/ Kind[c] = "search" /\ \E k \in {"CANCELLED", "INVALID_ARGUMENT"} : Ends(c, k)
       \/ Kind[c] = "search" /\ stopped /\ Ends(c, "UNAVAILABLE")
       \/ Kind[c] = "stream" /\ ~config.publication /\ Ends(c, "INVALID_ARGUMENT")

\* ActivateSnapshot puts the candidate in the place of what is served; to copy
\* the status into the answer may still fail.
Activate(c) ==
    /\ call[c] = "running" /\ Kind[c] = "unary"
    /\ config.publication /\ ready
    /\ Publication!Release(highest)
    /\ ready' = FALSE
    /\ \E k \in {"OK", "INVALID_ARGUMENT"} : Returns(c, k)

\* PrepareSnapshot: begin() gives the free slot to a newer generation, or
\* again to the highest one, and drops an older candidate.
Accept(c) ==
    /\ call[c] = "running" /\ Kind[c] = "stream"
    /\ config.publication
    /\ \A d \in Calls : call[d] # "preparing"
    /\ \E g \in 1..MaxGenerations, v \in 1..MaxFiles : Publication!Propose(g, v)
    /\ ready' = FALSE
    /\ call' = [call EXCEPT ![c] = "preparing"]
    /\ UNCHANGED <<stop, reload, process, stopped, code, counts, summary, config, snapshots>>

\* The client has sent the file and complete() leaves a candidate; the call
\* may report an error all the same.
Prepared(c) ==
    /\ call[c] = "preparing"
    /\ ready' = TRUE
    /\ \E k \in {"OK", "INVALID_ARGUMENT"} : Returns(c, k)
    /\ UNCHANGED <<served, generation, highest, accepted>>

Submit(c) ==
    /\ call[c] = "running"
    /\ Kind[c] = "search" /\ ~stopped
    /\ call' = [call EXCEPT ![c] = "queued"]
    /\ UNCHANGED <<stop, reload, process, stopped, code, counts, summary, files>>

\* The executor answers, or the client gives up.
Answered(c) ==
    /\ call[c] = "queued"
    /\ \E k \in {"OK", "CANCELLED"} : Ends(c, k)

\* A stopped executor settles its tickets.
Interrupted(c) ==
    /\ call[c] = "queued"
    /\ stopped
    /\ Ends(c, "UNAVAILABLE")

\* The client of a stream closes it, aborts it or disconnects, or what it sent
\* is refused; there is no candidate.
StreamEnds(c) ==
    /\ Kind[c] = "stream" /\ config.publication
    /\ call[c] \in {"running", "preparing"}
    /\ \E k \in {"CANCELLED", "INVALID_ARGUMENT"} : Ends(c, k)

\* finish_rpc
Finish(c) ==
    /\ call[c] = "finishing"
    /\ counts' = [counts EXCEPT ![code[c]] = @ + 1]
    /\ call' = [call EXCEPT ![c] = "done"]
    /\ UNCHANGED <<stop, reload, process, stopped, code, summary, files>>

-----------------------------------------------------------------------------

Main == Parse \/ Load \/ Listen \/ Hook \/ StartMonitor \/ Serve \/ Wait \/ Join \/ Drop \/ Leave
Monitor == Exchange \/ Read \/ Replace \/ LeaveLoop \/ StopSearches \/ Shutdown \/ Drained \/ JoinWorkers
Handler(c) == Handle(c) \/ Activate(c) \/ Submit(c) \/ Interrupted(c) \/ Finish(c)

Alive == main \notin {"exited", "killed"}

Next ==
    /\ Alive
    /\ \/ SigTerm \/ Publish \/ SigHup
       \/ Main \/ Monitor
       \/ \E c \in Calls : Begin(c) \/ Handler(c) \/ Answered(c) \/ Accept(c) \/ Prepared(c) \/ StreamEnds(c)

Spec == Init /\ [][Next]_vars

\* The threads of the process run.  Nothing is assumed of signals, of clients
\* (a stream may stall for ever) or of the time a search takes on its own.
FairSpec ==
    /\ Spec
    /\ WF_vars(Alive /\ Main)
    /\ WF_vars(Alive /\ Monitor)
    /\ \A c \in Calls : WF_vars(Alive /\ Handler(c))

-----------------------------------------------------------------------------

\* The summary is written when no call is left and has every call that began,
\* under the status it returned.
SummaryCountsAll ==
    \A s \in summary :
        /\ Running = {}
        /\ \A k \in Codes : s[k] = Cardinality({c \in Calls : call[c] = "done" /\ code[c] = k})

\* A replica that was given a manifest serves what it describes until a newer
\* generation is activated, and then what that one was accepted with, however
\* the file is replaced.  No reload takes the place of an index that clients
\* may have written to, or of one that a generation was announced for.
ServedIsConfigured ==
    /\ config.manifest # 0 /\ served # 0 =>
          \/ generation = config.generation /\ served = config.manifest
          \/ generation > config.generation /\ config.publication /\ served = accepted[generation]
    /\ monitor = "replacing" => config.readOnly /\ generation = 0
    /\ served # 0 => config.load

\* Nobody uses the service any more when main() leaves the block that owns it:
\* neither a handler nor the monitor, which is still in shutdown_searches()
\* when Wait() returns.
ServiceIsUnused ==
    main \in {"leaving", "exited"} => Running = {} /\ monitor \in {"unborn", "finished"}

\* The state is well typed, the index is one that the options and the releases
\* allow, the service outlives its users, and the summary at exit counts every
\* call.
ServerIsConsistent == TypeOK /\ ServedIsConfigured /\ ServiceIsUnused /\ SummaryCountsAll

\* An index that was announced with SIGHUP is read, unless the server stops: no
\* request is lost to a reload that runs when it arrives and has read an older
\* file.
NoReloadLost ==
    \A v \in 1..MaxFiles :
        announced = v ~> tried >= v \/ stop \/ token \/ ~Alive \/ main \in {"dropping", "leaving"}

\* A stop signal ends the process, however long the running searches would
\* take, provided that no client holds a stream open for ever and that the
\* monitor could be started.
StopIsObeyed ==
    (<>[](\A c \in Calls : Kind[c] = "stream" => call[c] \notin {"running", "preparing"})) => (stop ~> ~Alive \/ main = "dropping")
=============================================================================
