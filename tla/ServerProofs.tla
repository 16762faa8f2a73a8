---------------------------- MODULE ServerProofs ----------------------------
(***************************************************************************)
(* Proofs about the server process, for any set of calls and command lines *)
(* and any number of versions of the snapshot file.                        *)
(***************************************************************************)
EXTENDS Server, FiniteSetTheorems, TLAPS

Starting == {"parsing", "loading", "loaded"}
Unwatched == {"listening", "hooked"}
Watched == {"serving", "waiting", "joining", "unwinding"}

\* main(), the monitor and the gRPC server agree on how far the process is,
\* and a server that is not there has no call in a handler.
PlacesAgree ==
    /\ main \in Starting => server = "down" /\ monitor = "unborn"
    /\ main \in Unwatched => server = "up" /\ monitor = "unborn"
    /\ main \in Watched => monitor # "unborn"
    /\ main = "dropping" => server = "closing" /\ monitor = "unborn"
    /\ main \in {"leaving", "exited"} => server \in {"down", "closed"} /\ monitor \in {"unborn", "finished"}
    /\ monitor \in {"loop", "reading", "replacing", "stopping", "closing"} => server = "up"
    /\ monitor = "draining" => server = "closing"
    /\ monitor \in {"joining", "finished"} => server = "closed"
    /\ server \in {"down", "closed"} => Running = {}

\* The options of a process that got past the command line fit together, and
\* only the handler of SIGHUP and the monitor it serves ask for a reload.
OptionsHold ==
    /\ main \notin {"parsing", "exited", "killed"} => Valid(config)
    /\ monitor # "unborn" => Valid(config)
    /\ reload \/ monitor \in {"reading", "replacing"} => config.reloadOnSighup

\* What is served came from the file that the options name or, above its
\* generation, from an accepted release, and only with a manifest does it have
\* a generation.
StoreHolds ==
    /\ served # 0 => config.load
    /\ generation # 0 => config.manifest # 0
    /\ config.load /\ main \notin {"parsing", "loading", "exited", "killed"} => generation >= config.generation
    /\ config.manifest # 0 /\ served # 0 =>
          \/ generation = config.generation /\ served = config.manifest
          \/ generation > config.generation /\ config.publication /\ served = accepted[generation]

\* The calls that ended with a status.
Ended(k) == {c \in Calls : call[c] = "done" /\ code[c] = k}

\* finish_rpc() counts every call once, and the summary is the last thing that
\* the process does.
CountsAgree ==
    /\ \A k \in Codes : counts[k] = Cardinality(Ended(k))
    /\ summary # {} => main = "exited" /\ summary = {counts} /\ Running = {}

IInv == TypeOK /\ PlacesAgree /\ OptionsHold /\ StoreHolds /\ CountsAgree

-----------------------------------------------------------------------------

\* What an option record has.
LEMMA OptionTypes ==
  ASSUME NEW c \in Configs
  PROVE  /\ c.load \in BOOLEAN /\ c.readOnly \in BOOLEAN /\ c.reloadOnSighup \in BOOLEAN
         /\ c.manifest \in 0..MaxFiles /\ c.generation \in 0..MaxGenerations /\ c.publication \in BOOLEAN
BY ConfigsAssumption DEF Options

\* A server that reloads on SIGHUP loads a file, takes no writes, and has
\* neither a manifest nor a generation.
LEMMA ReloadersAreUnmanaged ==
  ASSUME NEW c \in Configs, Valid(c), c.reloadOnSighup
  PROVE  c.load /\ c.readOnly /\ c.manifest = 0 /\ c.generation = 0
BY OptionTypes DEF Valid, Managed

LEMMA InitIInv == Init => IInv
<1> SUFFICES ASSUME Init PROVE IInv
  OBVIOUS
<1>1. Cardinality(Calls) \in Nat /\ Cardinality({}) = 0
  BY CallsAssumption, FS_CardinalityType, FS_EmptySet
<1>2. TypeOK
  <2>1. file \in 1..MaxFiles /\ \A v \in {loaded, served, tried, announced} : v \in 0..file
    BY FilesAssumption DEF Init
  <2>2. call \in [Calls -> {"none", "running", "preparing", "queued", "finishing", "done"}] /\ code \in [Calls -> Codes]
    BY DEF Init, Codes
  <2>3. counts \in [Codes -> 0..Cardinality(Calls)]
    BY <1>1 DEF Init
  <2>4. /\ served \in 0..MaxFiles /\ generation \in 0..MaxGenerations /\ highest \in 0..MaxGenerations
        /\ accepted \in [0..MaxGenerations -> 0..MaxFiles]
    BY FilesAssumption DEF Init
  <2> QED BY <2>1, <2>2, <2>3, <2>4 DEF Init, TypeOK
<1>3. \A k \in Codes : Ended(k) = {}
  BY DEF Init, Ended
<1>4. CountsAgree
  BY <1>1, <1>3 DEF Init, CountsAgree
<1>5. PlacesAgree /\ OptionsHold /\ StoreHolds
  BY DEF Init, PlacesAgree, OptionsHold, StoreHolds, Running, Starting, Unwatched, Watched
<1> QED BY <1>2, <1>4, <1>5 DEF IInv

-----------------------------------------------------------------------------
(* One step *)

\* The threads of the process and the signals leave the calls alone.
Process == SigTerm \/ Publish \/ SigHup \/ Main \/ Monitor
Rpc(c) == Begin(c) \/ Handler(c) \/ Answered(c) \/ Accept(c) \/ Prepared(c) \/ StreamEnds(c)

LEMMA NextCases == Next => Alive /\ (Process \/ \E c \in Calls : Rpc(c))
BY DEF Next, Process, Rpc

LEMMA ProcessLeavesCalls ==
  ASSUME Process
  PROVE  UNCHANGED rpcs /\ Running' = Running /\ \A k \in Codes : Ended(k)' = Ended(k)
<1>1. UNCHANGED rpcs
  BY DEF Process, SigTerm, Publish, SigHup, Main, Parse, Load, Listen, Hook, StartMonitor, Serve, Wait, Join,
         Drop, Leave, Monitor, Exchange, Read, Replace, LeaveLoop, StopSearches, Shutdown, Drained, JoinWorkers
<1> QED BY <1>1 DEF rpcs, Running, Ended

\* A call touches nothing but itself, the counters and what is served.
LEMMA CallsLeaveProcess ==
  ASSUME NEW c \in Calls, Rpc(c)
  PROVE  /\ UNCHANGED <<stop, reload, process, stopped, summary, config, snapshots>>
         /\ call[c] # "done"
         /\ \A d \in Calls \ {c} : TypeOK => call'[d] = call[d] /\ code'[d] = code[d]
<1>1. UNCHANGED <<stop, reload, process, stopped, summary, config, snapshots>> /\ call[c] # "done"
  BY DEF Rpc, Begin, Handler, Handle, Activate, Submit, Interrupted, Finish, Answered, Accept, Prepared, StreamEnds,
         Ends, Returns, files
<1>2. /\ \E p \in {"running", "preparing", "queued", "finishing", "done"} : call' = [call EXCEPT ![c] = p]
      /\ code' = code \/ \E k \in Codes : code' = [code EXCEPT ![c] = k]
  BY DEF Rpc, Begin, Handler, Handle, Activate, Submit, Interrupted, Finish, Answered, Accept, Prepared, StreamEnds,
         Ends, Returns, Codes
<1> QED BY <1>1, <1>2 DEF TypeOK

\* The parts of the type invariant: what the process has, and the calls.
ProcessTyped ==
    /\ stop \in BOOLEAN /\ reload \in BOOLEAN /\ token \in BOOLEAN /\ stopped \in BOOLEAN
    /\ main \in {"parsing", "loading", "loaded", "listening", "hooked", "serving", "waiting",
                 "joining", "unwinding", "dropping", "leaving", "exited", "killed"}
    /\ monitor \in {"unborn", "loop", "reading", "replacing", "stopping", "closing", "draining", "joining", "finished"}
    /\ server \in {"down", "up", "closing", "closed"}
VersionsTyped ==
    /\ config \in Configs
    /\ file \in 1..MaxFiles
    /\ loaded \in 0..file /\ tried \in 0..file /\ announced \in 0..file
StoreTyped ==
    /\ served \in 0..MaxFiles /\ ready \in BOOLEAN
    /\ generation \in 0..MaxGenerations /\ highest \in 0..MaxGenerations
    /\ accepted \in [0..MaxGenerations -> 0..MaxFiles]
CallsTyped ==
    /\ call \in [Calls -> {"none", "running", "preparing", "queued", "finishing", "done"}]
    /\ code \in [Calls -> Codes]
    /\ counts \in [Codes -> 0..Cardinality(Calls)]
    /\ summary \in {{}} \union {{c} : c \in [Codes -> 0..Cardinality(Calls)]}

LEMMA TypeParts == TypeOK <=> ProcessTyped /\ VersionsTyped /\ StoreTyped /\ CallsTyped
BY DEF TypeOK, ProcessTyped, VersionsTyped, StoreTyped, CallsTyped

\* main() and the monitor change the store where they load and replace.
LEMMA ProcessStoreCases ==
  ASSUME Process, ~Load, ~Replace
  PROVE  UNCHANGED store
BY DEF Process, SigTerm, Publish, SigHup, Main, Parse, Listen, Hook, StartMonitor, Serve, Wait, Join,
       Drop, Leave, Monitor, Exchange, Read, LeaveLoop, StopSearches, Shutdown, Drained, JoinWorkers, files

\* A store that is replaced takes what was loaded; one with a generation stays.
LEMMA ReplaceCases ==
  ASSUME Replace
  PROVE  /\ UNCHANGED <<generation, highest, accepted, ready>>
         /\ served' = served \/ (served' = loaded /\ generation = 0)
BY DEF Replace, ReplaceIndex, Publication!Reload, store

\* Load serves the file under the generation of the options, or nothing.
LEMMA LoadCases ==
  ASSUME Load
  PROVE  /\ ready' = ready
         /\ \/ UNCHANGED store /\ (~config.load \/ main' = "exited")
            \/ /\ config.load /\ Loadable
               /\ served' = file /\ generation' = config.generation /\ highest' = config.generation
               /\ accepted' = [accepted EXCEPT ![config.generation] = file]
BY DEF Load, Goto, store

LEMMA ProcessType ==
  ASSUME TypeOK, Process
  PROVE  TypeOK'
<1>1. ProcessTyped /\ VersionsTyped /\ StoreTyped /\ CallsTyped
  BY TypeParts
<1>2. VersionsTyped'
  <2> USE <1>1, FilesAssumption DEF VersionsTyped
  <2>1. CASE Publish
    BY <2>1 DEF Publish
  <2>2. CASE SigHup
    BY <2>2 DEF SigHup
  <2>3. CASE Load
    BY <2>3 DEF Load
  <2>4. CASE Read
    BY <2>4 DEF Read
  <2>5. CASE Replace
    BY <2>5 DEF Replace
  <2>6. CASE ~Publish /\ ~SigHup /\ ~Load /\ ~Read /\ ~Replace
    <3>1. UNCHANGED files
      BY <2>6 DEF Process, SigTerm, Main, Parse, Listen, Hook, StartMonitor, Serve, Wait, Join,
           Drop, Leave, Monitor, Exchange, LeaveLoop, StopSearches, Shutdown, Drained, JoinWorkers
    <3> QED BY <3>1 DEF files, snapshots
  <2> QED BY <2>1, <2>2, <2>3, <2>4, <2>5, <2>6
<1>3. CallsTyped'
  <2>1. UNCHANGED <<call, code, counts>>
    BY ProcessLeavesCalls DEF rpcs
  <2>2. summary' \in {summary, {counts}}
    BY DEF Process, SigTerm, Publish, SigHup, Main, Parse, Load, Listen, Hook, StartMonitor, Serve, Wait, Join,
         Drop, Leave, Monitor, Exchange, Read, Replace, LeaveLoop, StopSearches, Shutdown, Drained, JoinWorkers
  <2> QED BY <1>1, <2>1, <2>2 DEF CallsTyped
<1>4. ProcessTyped'
  <2> USE <1>1 DEF ProcessTyped
  <2>1. CASE SigTerm \/ Publish
    BY <2>1 DEF SigTerm, Publish, process
  <2>2. CASE SigHup
    <3>1. \/ reload' = TRUE /\ main' = main
          \/ reload' = reload /\ main' = "killed"
      BY <2>2, Zenon DEF SigHup
    <3> QED BY <2>2, <3>1 DEF SigHup
  <2>3. CASE Parse \/ Load \/ Listen \/ Hook
    BY <2>3 DEF Parse, Load, Listen, Hook, Goto
  <2>4. CASE StartMonitor \/ Serve
    BY <2>4 DEF StartMonitor, Serve, Goto
  <2>5. CASE Wait \/ Join \/ Drop \/ Leave
    BY <2>5 DEF Wait, Join, Drop, Leave, Goto
  <2>6. CASE Exchange \/ Read \/ Replace
    BY <2>6 DEF Exchange, Read, Replace
  <2>7. CASE LeaveLoop \/ StopSearches
    BY <2>7 DEF LeaveLoop, StopSearches
  <2>8. CASE Shutdown \/ Drained \/ JoinWorkers
    BY <2>8 DEF Shutdown, Drained, JoinWorkers
  <2> QED BY <2>1, <2>2, <2>3, <2>4, <2>5, <2>6, <2>7, <2>8 DEF Process, Main, Monitor
<1>5. StoreTyped'
  <2> USE <1>1, FilesAssumption DEF StoreTyped, VersionsTyped
  <2>1. CASE Load
    <3>1. config.generation \in 0..MaxGenerations /\ file \in 0..MaxFiles
      BY OptionTypes
    <3> QED BY <2>1, <3>1, LoadCases DEF store
  <2>2. CASE Replace
    BY <2>2, ReplaceCases
  <2>3. CASE ~Load /\ ~Replace
    BY <2>3, ProcessStoreCases DEF store
  <2> QED BY <2>1, <2>2, <2>3
<1>6. (ProcessTyped /\ VersionsTyped /\ StoreTyped /\ CallsTyped)' => TypeOK'
  BY DEF TypeOK, ProcessTyped, VersionsTyped, StoreTyped, CallsTyped
<1> QED BY <1>2, <1>3, <1>4, <1>5, <1>6

LEMMA ProcessPlaces ==
  ASSUME TypeOK, PlacesAgree, Alive, Process
  PROVE  PlacesAgree'
<1> USE DEF TypeOK, PlacesAgree, Starting, Unwatched, Watched, Alive
<1>1. Running' = Running
  BY ProcessLeavesCalls
<1>2. CASE SigTerm \/ Publish \/ SigHup
  BY <1>1, <1>2 DEF SigTerm, Publish, SigHup, process
<1>3. CASE Parse \/ Load \/ Listen \/ Hook
  BY <1>1, <1>3 DEF Parse, Load, Listen, Hook, Goto
<1>4. CASE StartMonitor \/ Serve \/ Wait
  BY <1>1, <1>4 DEF StartMonitor, Serve, Wait, Goto
<1>5. CASE Join \/ Drop \/ Leave
  BY <1>1, <1>5 DEF Join, Joined, Drop, Leave, Goto
<1>6. CASE Exchange \/ Read \/ Replace \/ LeaveLoop \/ StopSearches
  BY <1>1, <1>6 DEF Exchange, Read, Replace, LeaveLoop, StopSearches
<1>7. CASE Shutdown \/ Drained \/ JoinWorkers
  BY <1>1, <1>7 DEF Shutdown, Drained, JoinWorkers
<1> QED BY <1>2, <1>3, <1>4, <1>5, <1>6, <1>7 DEF Process, Main, Monitor

LEMMA ProcessOptions ==
  ASSUME TypeOK, PlacesAgree, OptionsHold, Alive, Process
  PROVE  OptionsHold'
<1> USE DEF OptionsHold
<1>1. config' = config /\ config \in Configs
  BY DEF TypeOK, Process, SigTerm, Publish, SigHup, Main, Parse, Load, Listen, Hook, StartMonitor, Serve, Wait, Join,
         Drop, Leave, Monitor, Exchange, Read, Replace, LeaveLoop, StopSearches, Shutdown, Drained, JoinWorkers, files
<1>2. CASE SigTerm \/ Publish
  BY <1>1, <1>2 DEF SigTerm, Publish, process
<1>3. CASE SigHup
  BY <1>1, <1>3 DEF SigHup, Hooked
<1>4. CASE Parse
  BY <1>1, <1>4 DEF Parse, Goto
<1>5. CASE Load
  BY <1>1, <1>5 DEF Load, Goto
<1>6. CASE Listen \/ Hook \/ StartMonitor \/ Serve \/ Wait \/ Join \/ Drop \/ Leave
  BY <1>1, <1>6 DEF Listen, Hook, StartMonitor, Serve, Wait, Join, Drop, Leave, Joined, Goto, PlacesAgree
<1>7. CASE Exchange \/ Read \/ Replace \/ LeaveLoop \/ StopSearches \/ Shutdown \/ Drained \/ JoinWorkers
  BY <1>1, <1>7 DEF Exchange, Read, Replace, LeaveLoop, StopSearches, Shutdown, Drained, JoinWorkers, PlacesAgree, Starting
<1> QED BY <1>2, <1>3, <1>4, <1>5, <1>6, <1>7 DEF Process, Main, Monitor

LEMMA ProcessStore ==
  ASSUME TypeOK, OptionsHold, StoreHolds, Alive, Process
  PROVE  StoreHolds'
<1>1. config' = config /\ config \in Configs
  BY DEF TypeOK, Process, SigTerm, Publish, SigHup, Main, Parse, Load, Listen, Hook, StartMonitor, Serve, Wait, Join,
         Drop, Leave, Monitor, Exchange, Read, Replace, LeaveLoop, StopSearches, Shutdown, Drained, JoinWorkers, files
<1>2. generation \in Nat /\ config.generation \in Nat
  BY <1>1, OptionTypes, FilesAssumption DEF TypeOK
<1>3. CASE Load
  <2>1. main = "loading" /\ Valid(config)
    BY <1>3 DEF Load, OptionsHold
  <2>2. config.generation # 0 => config.manifest # 0
    BY <2>1 DEF Valid, Managed
  <2> QED BY <1>1, <1>2, <1>3, <2>1, <2>2, LoadCases DEF StoreHolds, Loadable, Goto, store
<1>4. CASE Replace
  <2>1. config.load /\ config.manifest = 0 /\ main' = main
    BY <1>1, <1>4, ReloadersAreUnmanaged DEF Replace, OptionsHold
  <2> QED BY <1>1, <1>4, <2>1, ReplaceCases DEF StoreHolds
<1>5. CASE ~Load /\ ~Replace
  <2>1. main \in {"parsing", "loading"} => main' \in {"parsing", "loading", "exited", "killed"}
    BY <1>5 DEF Process, SigTerm, Publish, SigHup, Main, Parse, Listen, Hook, StartMonitor, Serve, Wait, Join, Joined,
         Drop, Leave, Monitor, Exchange, Read, LeaveLoop, StopSearches, Shutdown, Drained, JoinWorkers, Goto, process
  <2> QED BY <1>1, <1>5, <2>1, ProcessStoreCases DEF StoreHolds, Alive, store
<1> QED BY <1>3, <1>4, <1>5

LEMMA ProcessCounts ==
  ASSUME TypeOK, PlacesAgree, CountsAgree, Alive, Process
  PROVE  CountsAgree'
<1>1. counts' = counts /\ Running' = Running /\ \A k \in Codes : Ended(k)' = Ended(k)
  BY ProcessLeavesCalls DEF rpcs
<1>2. summary = {}
  BY DEF CountsAgree, Alive
<1>3. CASE Leave
  BY <1>1, <1>3 DEF Leave, Goto, CountsAgree, PlacesAgree
<1>4. CASE ~Leave
  <2>1. summary' = summary
    BY <1>4 DEF Process, SigTerm, Publish, SigHup, Main, Parse, Load, Listen, Hook, StartMonitor, Serve, Wait, Join,
         Drop, Monitor, Exchange, Read, Replace, LeaveLoop, StopSearches, Shutdown, Drained, JoinWorkers
  <2> QED BY <1>1, <1>2, <2>1 DEF CountsAgree
<1> QED BY <1>3, <1>4

\* The store changes under a call where a release is accepted above what is
\* served, becomes ready, or is activated.
LEMMA CallStoreCases ==
  ASSUME TypeOK, NEW c \in Calls, Rpc(c), ~UNCHANGED store
  PROVE  /\ config.publication \/ UNCHANGED <<served, generation, accepted>>
         /\ c \in Running
         /\ ready' \in BOOLEAN
         /\ generation' \in 0..MaxGenerations /\ highest' \in 0..MaxGenerations
         /\ accepted' \in [0..MaxGenerations -> 0..MaxFiles] /\ served' \in 0..MaxFiles
         /\ \/ UNCHANGED <<served, generation>> /\ \A h \in 0..generation : accepted'[h] = accepted[h]
            \/ generation' > generation /\ accepted' = accepted /\ served' = accepted[generation']
<1> USE FilesAssumption DEF TypeOK
<1>1. c \in Running
  BY DEF Rpc, Begin, Handler, Handle, Activate, Submit, Interrupted, Finish, Answered, Accept, Prepared, StreamEnds,
         Running, files, store
<1>2. Activate(c) \/ Accept(c) \/ Prepared(c)
  BY DEF Rpc, Begin, Handler, Handle, Submit, Interrupted, Finish, Answered, StreamEnds, Ends, files, store
<1>3. CASE Activate(c)
  BY <1>1, <1>3 DEF Activate, Publication!Release
<1>4. CASE Accept(c)
  <2>1. PICK g \in 1..MaxGenerations, v \in 1..MaxFiles : Publication!Propose(g, v)
    BY <1>4 DEF Accept
  <2>2. g > generation /\ highest' = g /\ accepted' = [accepted EXCEPT ![g] = v]
        /\ UNCHANGED <<generation, served>>
    BY <2>1 DEF Publication!Propose
  <2>3. /\ accepted' \in [0..MaxGenerations -> 0..MaxFiles] /\ highest' \in 0..MaxGenerations
        /\ \A h \in 0..generation : accepted'[h] = accepted[h]
    BY <2>2
  <2> QED BY <1>1, <1>4, <2>2, <2>3 DEF Accept
<1>5. CASE Prepared(c)
  BY <1>1, <1>5 DEF Prepared
<1> QED BY <1>2, <1>3, <1>4, <1>5

\* A call that goes on was in a handler, or begins while the server is up.
LEMMA CallPlaces ==
  ASSUME TypeOK, PlacesAgree, NEW c \in Calls, Rpc(c)
  PROVE  PlacesAgree'
<1>1. UNCHANGED <<main, monitor, server>>
  BY CallsLeaveProcess DEF process
<1>2. server \notin {"down", "closed"}
  <2>1. CASE Begin(c)
    BY <2>1 DEF Begin
  <2>2. CASE ~Begin(c)
    <3>1. c \in Running
      BY <2>2 DEF Rpc, Handler, Handle, Activate, Submit, Interrupted, Finish, Answered, Accept, Prepared, StreamEnds, Running
    <3> QED BY <3>1 DEF PlacesAgree
  <2> QED BY <2>1, <2>2
<1> QED BY <1>1, <1>2 DEF PlacesAgree

\* A call that has ended is counted under its status.
LEMMA CallCounts ==
  ASSUME TypeOK, CountsAgree, Alive, NEW c \in Calls, Rpc(c)
  PROVE  CountsAgree' /\ counts' \in [Codes -> 0..Cardinality(Calls)]
<1>1. summary' = summary /\ summary = {}
  BY CallsLeaveProcess DEF CountsAgree, Alive
<1>2. \A k \in Codes : IsFiniteSet(Ended(k)) /\ Ended(k) \subseteq Calls /\ Cardinality(Ended(k)) \in Nat
  BY CallsAssumption, FS_Subset, FS_CardinalityType DEF Ended
<1>3. CASE ~Finish(c)
  <2>1. counts' = counts /\ call'[c] # "done"
    BY <1>3 DEF Rpc, Begin, Handler, Handle, Activate, Submit, Interrupted, Answered, Accept, Prepared, StreamEnds, Ends, Returns, TypeOK
  <2>2. \A k \in Codes : Ended(k)' = Ended(k)
    BY <2>1, CallsLeaveProcess DEF Ended
  <2> QED BY <1>1, <2>1, <2>2 DEF CountsAgree, TypeOK
<1>4. CASE Finish(c)
  <2> DEFINE own == code[c]
  <2>1. own \in Codes /\ call'[c] = "done" /\ code' = code /\ call[c] = "finishing"
        /\ counts' = [counts EXCEPT ![own] = @ + 1]
    BY <1>4 DEF Finish, TypeOK
  <2>2. \A k \in Codes \ {own} : Ended(k)' = Ended(k)
    BY <2>1, CallsLeaveProcess DEF Ended
  <2>3. Ended(own)' = Ended(own) \union {c} /\ c \notin Ended(own)
    BY <2>1, CallsLeaveProcess DEF Ended
  <2>4. Cardinality(Ended(own) \union {c}) = Cardinality(Ended(own)) + 1
    BY <1>2, <2>1, <2>3, FS_AddElement
  <2>5. Ended(own) \union {c} \subseteq Calls
    BY DEF Ended
  <2>6. Cardinality(Ended(own) \union {c}) <= Cardinality(Calls)
    BY <2>5, CallsAssumption, FS_Subset
  <2>7. \A k \in Codes : counts[k] = Cardinality(Ended(k)) /\ counts[k] \in 0..Cardinality(Calls)
    BY DEF CountsAgree, TypeOK
  <2>8. \A k \in Codes : counts'[k] = Cardinality(Ended(k)')
    BY <2>1, <2>2, <2>3, <2>4, <2>7 DEF TypeOK
  <2>9. Cardinality(Calls) \in Nat
    BY CallsAssumption, FS_CardinalityType
  <2>10. counts' \in [Codes -> 0..Cardinality(Calls)]
    BY <1>2, <2>1, <2>4, <2>6, <2>7, <2>9 DEF TypeOK
  <2> QED BY <1>1, <2>8, <2>10 DEF CountsAgree
<1> QED BY <1>3, <1>4

LEMMA CallType ==
  ASSUME TypeOK, CountsAgree, Alive, NEW c \in Calls, Rpc(c)
  PROVE  TypeOK'
<1>1. UNCHANGED <<stop, reload, token, main, monitor, server, stopped, summary,
                  config, file, loaded, tried, announced>>
  BY CallsLeaveProcess DEF process, snapshots
<1>2. /\ call' \in [Calls -> {"none", "running", "preparing", "queued", "finishing", "done"}]
      /\ code' \in [Calls -> Codes]
  BY DEF TypeOK, Codes, Rpc, Begin, Handler, Handle, Activate, Submit, Interrupted, Finish, Answered, Accept, Prepared,
         StreamEnds, Ends, Returns
<1>3. counts' \in [Codes -> 0..Cardinality(Calls)]
  BY CallCounts
<1>4. StoreTyped'
  <2> USE FilesAssumption DEF StoreTyped, TypeOK
  <2>1. CASE UNCHANGED store
    BY <2>1 DEF store
  <2>2. CASE ~UNCHANGED store
    BY <2>2, CallStoreCases
  <2> QED BY <2>1, <2>2
<1>5. TypeOK' <=> (ProcessTyped /\ VersionsTyped /\ StoreTyped /\ CallsTyped)'
  BY DEF TypeOK, ProcessTyped, VersionsTyped, StoreTyped, CallsTyped
<1>6. ProcessTyped'
  BY <1>1 DEF TypeOK, ProcessTyped
<1>7. VersionsTyped'
  BY <1>1 DEF TypeOK, VersionsTyped
<1>8. CallsTyped'
  BY <1>1, <1>2, <1>3 DEF TypeOK, CallsTyped
<1> QED BY <1>4, <1>5, <1>6, <1>7, <1>8

\* A release that is accepted is above what is served, and one that is
\* activated takes its place.
LEMMA CallStore ==
  ASSUME TypeOK, PlacesAgree, OptionsHold, StoreHolds, Alive, NEW c \in Calls, Rpc(c)
  PROVE  StoreHolds'
<1>1. config' = config /\ config \in Configs /\ main' = main
  BY CallsLeaveProcess DEF process, TypeOK
<1>2. generation \in Nat /\ config.generation \in Nat /\ highest \in Nat
      /\ accepted \in [0..MaxGenerations -> 0..MaxFiles] /\ generation \in 0..MaxGenerations
  BY <1>1, OptionTypes, FilesAssumption DEF TypeOK
<1>3. CASE UNCHANGED <<served, generation, accepted>>
  BY <1>1, <1>3 DEF StoreHolds
<1>4. CASE ~UNCHANGED <<served, generation, accepted>>
  <2>0. ~UNCHANGED store
    BY <1>4 DEF store
  <2>1. config.publication /\ c \in Running
    BY <1>4, <2>0, CallStoreCases
  <2>2. main \notin {"parsing", "loading", "exited", "killed"}
    BY <2>1 DEF PlacesAgree, Starting, Alive
  <2>3. config.load /\ config.manifest # 0
    BY <2>1, <2>2 DEF OptionsHold, Valid, Managed
  <2>4. CASE UNCHANGED <<served, generation>> /\ \A h \in 0..generation : accepted'[h] = accepted[h]
    BY <1>1, <1>2, <2>3, <2>4 DEF StoreHolds
  <2>5. CASE generation' > generation /\ accepted' = accepted /\ served' = accepted[generation']
    <3>1. generation' \in Nat
      BY <2>0, CallStoreCases, FilesAssumption
    <3>2. generation >= config.generation
      BY <2>2, <2>3 DEF StoreHolds
    <3> QED BY <1>1, <1>2, <2>1, <2>3, <2>5, <3>1, <3>2 DEF StoreHolds
  <2> QED BY <2>0, <2>4, <2>5, CallStoreCases
<1> QED BY <1>3, <1>4

LEMMA StepIInv == IInv /\ [Next]_vars => IInv'
<1> SUFFICES ASSUME IInv, [Next]_vars PROVE IInv'
  OBVIOUS
<1> USE DEF IInv
<1>1. CASE Alive /\ Process
  BY <1>1, ProcessType, ProcessPlaces, ProcessOptions, ProcessStore, ProcessCounts
<1>2. ASSUME Alive, NEW c \in Calls, Rpc(c) PROVE IInv'
  <2>1. OptionsHold'
    BY <1>2, CallsLeaveProcess DEF OptionsHold, process
  <2> QED BY <1>2, <2>1, CallType, CallPlaces, CallStore, CallCounts
<1>3. CASE UNCHANGED vars
  <2>1. UNCHANGED <<stop, reload, token, main, monitor, server, stopped, summary, call, code, counts,
                    config, file, loaded, tried, announced, served, generation, highest, accepted, ready>>
    BY <1>3 DEF vars, process, rpcs, files, snapshots, store
  <2>2. Running' = Running /\ \A k \in Codes : Ended(k)' = Ended(k)
    BY <2>1 DEF Running, Ended
  <2>3. TypeOK'
    BY <2>1 DEF TypeOK
  <2>4. PlacesAgree' /\ OptionsHold'
    BY <2>1, <2>2 DEF PlacesAgree, OptionsHold
  <2>5. StoreHolds'
    BY <2>1 DEF StoreHolds
  <2>6. CountsAgree'
    BY <2>1, <2>2 DEF CountsAgree
  <2> QED BY <2>3, <2>4, <2>5, <2>6
<1> QED BY <1>1, <1>2, <1>3, NextCases

-----------------------------------------------------------------------------

\* The inductive invariant holds in every state of the process.
THEOREM Invariance == Spec => []IInv
BY InitIInv, StepIInv, PTL DEF Spec

\* For any calls, command lines, files and releases: the state is well typed; a
\* server with a manifest serves what the manifest describes until a newer
\* generation is activated, and then what that one was accepted with; reloads
\* happen only where no write and no announced generation can be lost; main()
\* leaves its block when neither a handler nor the monitor uses the service; and
\* the summary of log_rpc_summary() counts every call that began, under its
\* status.
THEOREM ServerStaysConsistent == Spec => []ServerIsConsistent
<1>1. IInv => ServerIsConsistent
  <2> SUFFICES ASSUME IInv PROVE ServedIsConfigured /\ ServiceIsUnused /\ SummaryCountsAll
    BY DEF ServerIsConsistent, IInv
  <2>1. ServedIsConfigured
    <3>1. config \in Configs
      BY DEF IInv, TypeOK
    <3>2. monitor = "replacing" => config.readOnly /\ generation = 0
      BY <3>1, ReloadersAreUnmanaged DEF IInv, OptionsHold, StoreHolds
    <3> QED BY <3>2 DEF IInv, StoreHolds, ServedIsConfigured
  <2>2. ServiceIsUnused
    BY DEF IInv, PlacesAgree, ServiceIsUnused
  <2>3. SummaryCountsAll
    BY DEF IInv, CountsAgree, Ended, SummaryCountsAll
  <2> QED BY <2>1, <2>2, <2>3
<1> QED BY <1>1, Invariance, PTL
=============================================================================
