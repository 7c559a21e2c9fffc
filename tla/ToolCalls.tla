------------------------------ MODULE ToolCalls ------------------------------
(***************************************************************************)
(* Tool calls that run code or install a package: the MCP server with its  *)
(* response deadline, the confirmation gate, the execution service, the    *)
(* capability broker, dependency installation and the audit log            *)
(* (codecalc/server.py, mcp_middleware.py, confirmation.py,                *)
(* execution_service.py, capabilities.py, providers.py, dependencies.py,   *)
(* packages.py, audit.py and the native dispatch of executor.py).          *)
(*                                                                         *)
(* execute_code runs in a worker thread, which the deadline abandons but   *)
(* does not stop.  execute_code_stream and install_package run on the      *)
(* event loop: `loop` is the call that holds it between two awaits, and a  *)
(* deadline passes only while nobody does.  The native executor's binary   *)
(* may be replaced on disk at any time.                                    *)
(*                                                                         *)
(* Left out: what a program computes, the wording of errors, the process   *)
(* tree of a run (RunStep, NativeExecutor), the supervisor of managed runs *)
(* (RunSupervisor) and sessions (SessionLifecycle, SessionDisk).           *)
(***************************************************************************)
EXTENDS Naturals, Sequences, SequencesExt, FiniteSets

CONSTANTS
    Calls,        \* tool calls
    Requests,     \* the requests each call may be, see RequestType
    Policies,     \* the operator's capability policies, see PolicyType
    Hosts,        \* hosts: is there a native executor, what does it enforce, can the log be written
    Nobody,       \* nobody holds the event loop
    FileMax,      \* events at which the audit file is rotated
    KeepN,        \* _AUDIT_KEEP_N
    Builds,       \* what may be put in place of the executor: an identity and what it enforces
    MaxReplaced   \* bound: times the executor's binary is replaced

Network == "network"  \* the one brokered capability
Providers == {"local", "piston", "strict", "native-strict"}

\* A session with a live worker is told from one that is only a workspace.
RequestType ==
    [tool : {"execute", "session", "worker", "stream", "install"},
     provider : Providers \cup {"unknown"},
     noNet : BOOLEAN,
     compact : BOOLEAN,
     deps : {"none", "listed", "block", "malformed"},
     client : {"mrtr", "answered", "form", "plain"},
     allowed : BOOLEAN]

\* `deny`: network is in default_deny; `grant`: it is granted; `off`: no policy.
PolicyType == [off : BOOLEAN, deny : BOOLEAN, grant : BOOLEAN, strict : BOOLEAN]

ASSUME ToolCallsAssumption ==
    /\ Requests \in [Calls -> SUBSET RequestType] /\ Policies \subseteq PolicyType
    /\ Hosts \subseteq [native : BOOLEAN, kernel : BOOLEAN, writable : BOOLEAN]
    /\ Nobody \notin Calls /\ Builds \subseteq [id : Nat, kernel : BOOLEAN]
    /\ FileMax \in Nat \ {0} /\ KeepN \in Nat \ {0} /\ MaxReplaced \in Nat

VARIABLES
    policy,   \* the policy in the server's environment
    native,   \* whether a native executor was found at import
    binary,   \* the native executor on disk: its identity, what it enforces, and its history
    cache,    \* the probed answer, the identity it was published under, the steps of the import
    loop,     \* the call that holds the event loop
    files,    \* the audit file and its older generations, newest first
    writable, \* whether the audit file can be written
    call      \* each call

vars == <<policy, native, binary, cache, loop, files, writable, call>>

NoDecision == [brokered |-> FALSE, rejected |-> FALSE, denied |-> {}, supported |-> {}, effective |-> {}]
Idle == [pc |-> "idle", req |-> [tool |-> "none"], answer |-> "none", seen |-> 0,
         decision |-> NoDecision, noNet |-> FALSE, granted |-> "no", workdir |-> "none",
         running |-> FALSE, orphans |-> FALSE, enforced |-> FALSE, unenforced |-> FALSE,
         outcome |-> "none"]

Places == {"idle", "gate", "elicit", "select", "stat", "decide", "depgate", "deps", "run", "await",
           "cancelled", "killed", "close", "install", "installing", "notify", "answer", "done"}

\* No directory, the dependency directory, the stream's own; one that stays
\* because its removal failed, an installation raised, or the removal was skipped.
Workdirs == {"none", "made", "owned", "kept", "raised", "skipped"}

BinaryType == [id : Nat, kernel : BOOLEAN, past : SUBSET Nat, builds : 0 .. MaxReplaced, lapsed : BOOLEAN]
CacheType == [id : Nat, kernel : BOOLEAN, step : {"probe", "identify", "ready"}]

TypeOK ==
    /\ policy \in Policies /\ native \in BOOLEAN
    /\ binary \in BinaryType /\ cache \in CacheType
    /\ loop \in Calls \cup {Nobody} /\ writable \in BOOLEAN
    /\ Len(files) = KeepN + 1 /\ \A i \in DOMAIN files : Len(files[i]) <= FileMax
    /\ \A c \in Calls : call[c].pc \in Places /\ call[c].workdir \in Workdirs

Init ==
    /\ policy \in Policies
    /\ \E host \in Hosts : /\ native = host.native /\ writable = host.writable
                           /\ binary = [id |-> 0, kernel |-> host.kernel, past |-> {0}, builds |-> 0,
                                         lapsed |-> FALSE]
    /\ cache = [id |-> 0, kernel |-> FALSE, step |-> IF native THEN "probe" ELSE "ready"]
    /\ loop = Nobody
    /\ files = [i \in 1 .. KeepN + 1 |-> <<>>]
    /\ call = [c \in Calls |-> Idle]

-----------------------------------------------------------------------------
(* The audit log: one event is appended under the lock of the process, to  *)
(* a new file when the old one is full.  A write that fails is swallowed.  *)

RotateMutant(fs) == <<<<>>>> \o [i \in 1 .. KeepN |-> IF i = 1 THEN fs[1] ELSE <<>>]
Rotate(fs) == <<<<>>>> \o SubSeq(fs, 1, KeepN)
Written(fs, event) ==
    LET room == IF Len(fs[1]) >= FileMax THEN Rotate(fs) ELSE fs
    IN [room EXCEPT ![1] = Append(@, event)]
Emit(event) == files' = IF writable THEN Written(files, event) ELSE files
Silent == UNCHANGED files
Recorded(event) == \E i \in DOMAIN files : event \in Range(files[i])

-----------------------------------------------------------------------------
(* The capability broker (capabilities.py).                                *)

RequestedOf(noNet) == IF noNet THEN {} ELSE {Network}

Broker(requested, supported) ==
    LET grant == IF policy.grant THEN {Network} ELSE {}
        defaultDeny == IF policy.deny THEN {Network} ELSE {}
        approved == {cap \in requested : cap \notin defaultDeny \/ cap \in grant}
        denied == requested \ approved
        reject == [brokered |-> TRUE, rejected |-> TRUE, denied |-> requested,
                   supported |-> supported, effective |-> {}]
    IN IF grant \ requested # {} THEN reject
       ELSE IF policy.strict /\ denied \ supported # {} THEN reject
       ELSE [brokered |-> TRUE, rejected |-> FALSE, denied |-> denied, supported |-> supported,
             effective |-> approved \cup (denied \ supported)]

Passthrough(requested, supported) ==
    [brokered |-> FALSE, rejected |-> FALSE, denied |-> {}, supported |-> supported,
     effective |-> requested]

Decided(noNet, supported) ==
    IF policy.off THEN Passthrough(RequestedOf(noNet), supported)
                  ELSE Broker(RequestedOf(noNet), supported)

\* no_net is forced only where the provider can enforce the denial.
EnforcedSpec(noNet, d) == noNet \/ (Network \in d.denied /\ Network \in d.supported)

\* dependencies.network_refused, on the request as written.
NetworkRefused(noNet) == noNet \/ (~policy.off /\ (policy.deny \/ policy.strict))

-----------------------------------------------------------------------------
(* Control of a call.                                                      *)

InSession(req) == req.tool \in {"session", "worker"}
OnLoop(c) == call[c].req.tool \in {"stream", "install"}
Turn(c) == OnLoop(c) => loop = c
With(old, new) == [f \in DOMAIN old |-> IF f \in DOMAIN new THEN new[f] ELSE old[f]]
Update(c, new) == call' = [call EXCEPT ![c] = With(@, new)]
Finish(c, outcome) == Update(c, [pc |-> "close", outcome |-> outcome])

Registered(provider) == provider \in Providers

Arrive(c) ==
    /\ call[c].pc = "idle" /\ cache.step = "ready"
    /\ \E req \in Requests[c] :
        /\ req.tool \in {"stream", "install"} => loop = Nobody
        /\ loop' = IF req.tool \in {"stream", "install"} THEN c ELSE loop
        /\ Update(c, [pc |-> IF req.tool = "install" THEN "gate" ELSE "select", req |-> req])
    /\ Silent /\ UNCHANGED <<policy, native, writable, binary, cache>>

\* The provider is chosen and the dependencies are resolved.
Select(c) ==
    LET req == call[c].req
    IN /\ call[c].pc = "select" /\ Turn(c)
       /\ \/ /\ \/ ~Registered(req.provider)
                \/ InSession(req) /\ req.provider # "local"
                \/ req.deps = "malformed"
             /\ Finish(c, "validation") /\ Silent
          \/ /\ Registered(req.provider) /\ req.deps # "malformed"
             /\ InSession(req) => req.provider = "local"
             /\ IF req.deps = "block" THEN Emit(<<c, "implicit">>) ELSE Silent
             /\ Update(c, [pc |-> IF req.provider = "local" /\ native THEN "stat" ELSE "decide"])
       /\ UNCHANGED <<policy, native, writable, binary, cache, loop>>

\* Running the binary with --capabilities: an answer that does not come, or
\* cannot be read, counts as no enforcement.
ProbeAnswers == {binary.kernel, FALSE}

\* The import of executor.py probes first and reads the identity after it.
ImportProbe ==
    /\ cache.step = "probe"
    /\ \E answer \in ProbeAnswers : cache' = [cache EXCEPT !.kernel = answer, !.step = "identify"]
    /\ Silent /\ UNCHANGED <<policy, native, writable, binary, loop, call>>
ImportIdentity ==
    /\ cache.step = "identify"
    /\ cache' = [cache EXCEPT !.id = binary.id, !.step = "ready"]
    /\ Silent /\ UNCHANGED <<policy, native, writable, binary, loop, call>>

\* no_net_kernel_enforcement_available: the identity of the binary is read
\* before the lock is taken.
ReadIdentity(c) ==
    /\ call[c].pc = "stat" /\ Turn(c)
    /\ Update(c, [pc |-> "decide", seen |-> binary.id])
    /\ Silent /\ UNCHANGED <<policy, native, writable, binary, cache, loop>>

\* Under the lock: probe the binary when the identity is not the cached one.
ProbedMutant(c) == {[cache EXCEPT !.id = call[c].seen]}
Probed(c) ==
    IF call[c].seen = cache.id THEN {cache}
    ELSE {[cache EXCEPT !.id = call[c].seen, !.kernel = answer] : answer \in ProbeAnswers}

\* What each provider's descriptor declares as "network_control".
LocalControls(kernel) == native /\ kernel
PistonControls == FALSE
NativeStrictControls == TRUE
RemoteStrictControls == TRUE
Supports(provider, kernel) ==
    LET networkControl == CASE provider = "local" -> LocalControls(kernel)
                            [] provider = "piston" -> PistonControls
                            [] provider = "native-strict" -> NativeStrictControls
                            [] OTHER -> RemoteStrictControls
    IN IF networkControl THEN {Network} ELSE {}

\* broker_run: decide, audit, and keep the request that is run.
BrokerRun(c) ==
    LET req == call[c].req
        d == Decided(req.noNet, Supports(req.provider, cache'.kernel))
    IN /\ call[c].pc = "decide" /\ Turn(c)
       /\ cache' \in IF req.provider = "local" /\ native THEN Probed(c) ELSE {cache}
       /\ IF d.rejected THEN Emit(<<c, "rejected">>)
          ELSE IF d.brokered THEN Emit(<<c, IF d.denied # {} THEN "denied" ELSE "approved">>)
          ELSE Silent
       /\ IF d.rejected THEN Update(c, [pc |-> "close", outcome |-> "permission", decision |-> d, seen |-> 0])
          ELSE Update(c, [pc |-> "depgate", decision |-> d, noNet |-> EnforcedSpec(req.noNet, d),
                          seen |-> 0])
       /\ UNCHANGED <<policy, native, writable, binary, loop>>

\* Dependencies: only locally and only with network, into a directory of the
\* call's own unless it runs in a session.
DependencyGate(c) ==
    LET req == call[c].req
        wanted == req.deps \in {"listed", "block"}
    IN /\ call[c].pc = "depgate" /\ Turn(c)
       /\ \/ ~wanted /\ Update(c, [pc |-> "run"])
          \/ wanted /\ req.provider # "local" /\ Finish(c, "unsupported")
          \/ wanted /\ req.provider = "local" /\ NetworkRefused(req.noNet) /\ Finish(c, "permission")
          \/ /\ wanted /\ req.provider = "local" /\ ~NetworkRefused(req.noNet)
             /\ Update(c, [pc |-> "deps",
                           workdir |-> IF InSession(req) THEN "none" ELSE "made"])
       /\ Silent /\ UNCHANGED <<policy, native, writable, binary, cache, loop>>

\* A package that is not on the operator's allowlist is refused on record.
InstallDenied(c) == Emit(<<c, "install_denied">>)

\* install_dependencies succeeds, reports a failure (the package manager, the
\* budget or the quota), or raises, which nothing between the creation of the
\* directory and the run handles.
InstallDependencies(c) ==
    /\ call[c].pc = "deps" /\ Turn(c)
    /\ \/ call[c].req.allowed /\ Update(c, [pc |-> "run"]) /\ Silent
       \/ call[c].req.allowed /\ Finish(c, "not_installed") /\ Silent
       \/ ~call[c].req.allowed /\ Finish(c, "permission") /\ InstallDenied(c)
       \/ /\ Update(c, [pc |-> "answer", outcome |-> "raised",
                        workdir |-> IF call[c].workdir = "made" THEN "raised" ELSE "none"])
          /\ Silent
    /\ UNCHANGED <<policy, native, writable, binary, cache, loop>>

\* The provider runs the request, in the thread of the call.  The native
\* executor is the binary that is on disk now; a session's worker was started
\* without it and reaches the network.
LocallyEnforced(noNet) == noNet /\ native /\ binary.kernel
Running(enforced) == [pc |-> "await", running |-> TRUE, enforced |-> enforced]

LocalRun(c) ==
    /\ call[c].req.tool \in {"execute", "session", "worker"} /\ call[c].req.provider = "local"
    /\ Update(c, Running(call[c].req.tool # "worker" /\ LocallyEnforced(call[c].noNet)))
    /\ UNCHANGED loop

PistonRun(c) ==
    /\ call[c].req.tool = "execute" /\ call[c].req.provider = "piston"
    /\ IF call[c].noNet THEN Finish(c, "unsupported") ELSE Update(c, Running(FALSE))
    /\ UNCHANGED loop

NativeStrictRun(c) ==
    /\ call[c].req.tool = "execute" /\ call[c].req.provider = "native-strict"
    /\ Finish(c, "unavailable") /\ UNCHANGED loop

\* The managed run asks the strict service for its attestation before it sends
\* the request; what the service then enforces is its own affair.
RemoteStrictRun(c) ==
    /\ call[c].req.tool = "execute" /\ call[c].req.provider = "strict"
    /\ \E attested, enforced \in BOOLEAN :
        /\ enforced => attested
        /\ Update(c, [pc |-> "await", running |-> attested, enforced |-> enforced])
    /\ UNCHANGED loop

\* A stream gives up the loop while the native executor runs, in a directory of
\* its own unless it was given one; without an executor the program runs on the
\* loop.
StreamRun(c) ==
    /\ call[c].req.tool = "stream"
    /\ IF call[c].req.provider # "local" THEN Finish(c, "unsupported") /\ UNCHANGED loop
       ELSE /\ Update(c, [pc |-> "await", running |-> TRUE, enforced |-> LocallyEnforced(call[c].noNet),
                          workdir |-> IF native /\ call[c].workdir = "none" THEN "owned"
                                      ELSE call[c].workdir])
            /\ loop' = IF native THEN Nobody ELSE loop

StartRun(c) ==
    /\ call[c].pc = "run" /\ Turn(c)
    /\ LocalRun(c) \/ PistonRun(c) \/ NativeStrictRun(c) \/ RemoteStrictRun(c) \/ StreamRun(c)
    /\ Silent /\ UNCHANGED <<policy, native, writable, binary, cache>>

\* The run ends, whatever its verdict ("ended"), at its own time limit at the
\* latest.  "broken" is the report of a native executor that failed, was killed or
\* ran out of time.  A result of the strict service whose receipt omits a control
\* is not passed on.
OutcomesMutant(c) == {"ended"}
Outcomes(c) ==
    CASE call[c].req.provider = "local" /\ native /\ call[c].req.tool # "worker" -> {"ended", "broken"}
      [] call[c].req.provider # "strict" -> {"ended"}
      [] call[c].enforced -> {"ended", "unattested"}
      [] OTHER -> {"unattested"}

\* What a result lists as not enforced: a worker always lists the network, the
\* native executor what it could not enforce, its broken reports nothing.
Reported(c, outcome) ==
    /\ call[c].req.provider = "local"
    /\ \/ call[c].req.tool = "worker"
       \/ call[c].noNet /\ ~call[c].enforced /\ outcome # "broken"

\* _rmtree_checked may fail, and refuses what is no longer the directory it knew.
LeftOf(workdir, whose) == IF workdir = whose THEN {"none", "kept"} ELSE {workdir}

\* A managed run is cleaned up whatever its outcome, and that is audited.
CleanupAudited(c) == Emit(<<c, "cleanup">>)

EndRun(c) ==
    /\ call[c].pc = "await"
    /\ OnLoop(c) => loop \in {Nobody, c}
    /\ loop' = IF OnLoop(c) THEN c ELSE loop
    /\ \E outcome \in Outcomes(c), left \in LeftOf(call[c].workdir, "owned") :
        Update(c, [pc |-> "close", running |-> FALSE, outcome |-> outcome, workdir |-> left,
                   unenforced |-> Reported(c, outcome)])
    /\ IF call[c].req.provider = "strict" THEN CleanupAudited(c) ELSE Silent
    /\ UNCHANGED <<policy, native, writable, binary, cache>>

\* A cancelled stream kills its executor, and with it the program, but not what
\* the program has started; then it waits for the executor's end and removes its
\* own directory.  A second cancellation at that wait skips the removal.
KillStreamMutant(c) ==
    /\ call[c].pc = "cancelled" /\ Turn(c)
    /\ Update(c, [pc |-> "done", workdir |-> "none"])
    /\ loop' = Nobody
    /\ Silent /\ UNCHANGED <<policy, native, writable, binary, cache>>
KillStream(c) ==
    /\ call[c].pc = "cancelled" /\ Turn(c)
    /\ \E orphans \in BOOLEAN :
        Update(c, [pc |-> "killed", running |-> FALSE, orphans |-> orphans, outcome |-> "cancelled"])
    /\ loop' = Nobody
    /\ Silent /\ UNCHANGED <<policy, native, writable, binary, cache>>
ReapStream(c) ==
    /\ call[c].pc = "killed" /\ loop = Nobody
    /\ loop' = c
    /\ \E left \in LeftOf(call[c].workdir, "owned") : Update(c, [pc |-> "close", workdir |-> left])
    /\ Silent /\ UNCHANGED <<policy, native, writable, binary, cache>>
CancelAgain(c) ==
    /\ call[c].pc = "killed" /\ loop = Nobody
    /\ loop' = c
    /\ Update(c, [pc |-> "close",
                  workdir |-> IF call[c].workdir = "owned" THEN "skipped" ELSE call[c].workdir])
    /\ Silent /\ UNCHANGED <<policy, native, writable, binary, cache>>

\* The dependency directory is removed and the receipt attached.
Close(c) ==
    /\ call[c].pc = "close" /\ Turn(c)
    /\ \E left \in LeftOf(call[c].workdir, "made") : Update(c, [pc |-> "answer", workdir |-> left])
    /\ Silent /\ UNCHANGED <<policy, native, writable, binary, cache, loop>>

-----------------------------------------------------------------------------
(* install_package and its confirmation gate.                              *)

\* A client of the newer protocol is asked by the answer to its first call
\* and answers in its second one; an older one is asked while the call waits,
\* if it can be asked at all.
Responses == {"confirmed", "declined", "cancelled", "malformed"}
GateDecision(c, response) ==
    IF response = "confirmed"
    THEN Emit(<<c, "granted">>) /\ Update(c, [pc |-> "install", granted |-> "confirmed"])
    ELSE Emit(<<c, "refused">>) /\ Finish(c, "refused")

RequireConfirmation(c) ==
    /\ call[c].pc = "gate" /\ Turn(c)
    /\ \/ call[c].req.client = "mrtr" /\ Finish(c, "ask") /\ Silent /\ UNCHANGED loop
       \/ /\ call[c].req.client = "answered"
          /\ \E r \in Responses : GateDecision(c, r)
          /\ UNCHANGED loop
       \/ /\ call[c].req.client = "plain"
          /\ Emit(<<c, "skipped">>) /\ Update(c, [pc |-> "install", granted |-> "skipped"])
          /\ UNCHANGED loop
       \/ /\ call[c].req.client = "form"
          /\ Update(c, [pc |-> "elicit"]) /\ loop' = Nobody /\ Silent
    /\ UNCHANGED <<policy, native, writable, binary, cache>>

ElicitReturns(c) ==
    /\ call[c].pc = "elicit" /\ loop = Nobody
    /\ loop' = c
    /\ \E r \in Responses : GateDecision(c, r)
    /\ UNCHANGED <<policy, native, writable, binary, cache>>

\* packages.install, which does not give up the loop while it runs.  It
\* refuses a language without a package manager, a name that is none, an
\* unknown session and a session over its quota.
StartInstallMutant(c) ==
    /\ call[c].pc = "install" /\ Turn(c)
    /\ \/ /\ ~call[c].req.allowed
          /\ InstallDenied(c) /\ Finish(c, "permission") /\ UNCHANGED loop
       \/ /\ call[c].req.allowed
          /\ Update(c, [pc |-> "installing", running |-> TRUE]) /\ loop' = Nobody /\ Silent
    /\ UNCHANGED <<policy, native, writable, binary, cache>>
Invalid(c) == call[c].req.deps = "malformed"
StartInstall(c) ==
    /\ call[c].pc = "install" /\ Turn(c)
    /\ \/ Invalid(c) /\ Finish(c, "validation") /\ Silent
       \/ ~call[c].req.allowed /\ InstallDenied(c) /\ Finish(c, "permission")
       \/ /\ call[c].req.allowed /\ ~Invalid(c)
          /\ Update(c, [pc |-> "installing", running |-> TRUE]) /\ Silent
    /\ UNCHANGED <<policy, native, writable, binary, cache, loop>>

\* A success is announced to the client, which waits for the loop again.
EndInstall(c) ==
    /\ call[c].pc = "installing" /\ Turn(c)
    /\ \/ /\ Update(c, [pc |-> "close", outcome |-> "not_installed", running |-> FALSE])
          /\ UNCHANGED loop
       \/ /\ Update(c, [pc |-> "notify", outcome |-> "installed", running |-> FALSE])
          /\ loop' = Nobody
    /\ Silent /\ UNCHANGED <<policy, native, writable, binary, cache>>

Notify(c) ==
    /\ call[c].pc = "notify" /\ loop = Nobody
    /\ loop' = c
    /\ Update(c, [pc |-> "close"])
    /\ Silent /\ UNCHANGED <<policy, native, writable, binary, cache>>

-----------------------------------------------------------------------------
(* Answers and deadlines.                                                  *)

\* The loop delivers the result, unless the caller was told of a time-out.
Answer(c) ==
    /\ call[c].pc = "answer"
    /\ IF OnLoop(c) THEN loop = c ELSE loop = Nobody
    /\ Update(c, [pc |-> "done", answer |-> IF call[c].answer = "none" THEN call[c].outcome
                                                                      ELSE call[c].answer])
    /\ loop' = Nobody
    /\ Silent /\ UNCHANGED <<policy, native, writable, binary, cache>>

\* wait_for: a coroutine is cancelled at its await, a thread goes on.
DeadlineMutant(c) ==
    /\ loop = Nobody
    /\ call[c].pc \in {"await", "notify"} /\ call[c].answer = "none"
    /\ IF call[c].pc = "await" /\ OnLoop(c)
       THEN Update(c, [pc |-> "cancelled", answer |-> "timeout"]) /\ loop' = c
       ELSE Update(c, [answer |-> "timeout"]) /\ UNCHANGED loop
    /\ Silent /\ UNCHANGED <<policy, native, writable, binary, cache>>
Deadline(c) ==
    /\ loop = Nobody
    /\ call[c].pc \notin {"idle", "done"} /\ call[c].answer = "none"
    /\ CASE call[c].pc = "await" /\ OnLoop(c) ->
              Update(c, [pc |-> "cancelled", answer |-> "timeout"]) /\ loop' = c
         [] call[c].pc \in {"elicit", "notify"} ->
              Update(c, [pc |-> "done", answer |-> "timeout"]) /\ UNCHANGED loop
         [] OTHER -> Update(c, [answer |-> "timeout"]) /\ UNCHANGED loop
    /\ Silent /\ UNCHANGED <<policy, native, writable, binary, cache>>

\* Another build of the executor is put in place.  Its identity (device, inode,
\* size and time) may be one that was there before.  `lapsed`: it was, or the
\* import was between its probe and its reading of the identity.
Replace ==
    /\ native /\ binary.builds < MaxReplaced
    /\ \E build \in Builds :
        binary' = [id |-> build.id, kernel |-> build.kernel, past |-> binary.past \cup {build.id},
                   builds |-> binary.builds + 1,
                   lapsed |-> binary.lapsed \/ build.id \in binary.past \/ cache.step = "identify"]
    /\ UNCHANGED <<policy, native, cache, loop, files, writable, call>>

Step(c) ==
    \/ Select(c) \/ ReadIdentity(c) \/ BrokerRun(c) \/ DependencyGate(c) \/ InstallDependencies(c)
    \/ StartRun(c) \/ EndRun(c) \/ KillStream(c) \/ ReapStream(c) \/ Close(c)
    \/ RequireConfirmation(c) \/ StartInstall(c) \/ EndInstall(c) \/ Notify(c) \/ Answer(c)

Finished == /\ \A c \in Calls : call[c].pc = "done"
            /\ native => binary.builds = MaxReplaced
            /\ UNCHANGED vars

Next ==
    \/ \E c \in Calls : Arrive(c) \/ Step(c) \/ ElicitReturns(c) \/ Deadline(c) \/ CancelAgain(c)
    \/ ImportProbe \/ ImportIdentity \/ Replace
    \/ Finished

\* The threads and the loop run, every run ends, a timer that is due fires
\* when the loop is free; a person need not answer.
Fairness == \A c \in Calls : WF_vars(Step(c)) /\ WF_vars(Deadline(c))
Spec == Init /\ [][Next]_vars /\ Fairness

-----------------------------------------------------------------------------
(* Properties.                                                             *)

Ran(c) == call[c].req.tool # "install" /\ (call[c].running \/ call[c].outcome \in {"ended", "broken"})

\* An answer about a run that was not held to a denial says so: the receipt lists
\* the network as still effective or the result names it as not enforced, also when
\* the executor was replaced after the decision, when a session's worker ran the
\* program, and when the strict service did not do what it attested.  Two answers
\* do not: a compact one has no room for the receipt, and hides a denial that the
\* provider could not enforce at all; and the report of a native executor that
\* broke or ran out of time has no list, and hides that it could not do what its
\* predecessor could.
DenialDisclosed ==
    \A c \in Calls :
        LET d == call[c].decision
        IN  call[c].outcome \in {"ended", "broken"} /\ Network \in d.denied /\ ~call[c].enforced
            => \/ call[c].unenforced
               \/ Network \in d.effective /\ ~call[c].req.compact
               \/ call[c].req.compact /\ Network \notin d.supported
               \/ call[c].outcome = "broken" /\ Network \in d.supported

\* The executor on disk is never believed to enforce what it does not, although
\* its identity is read outside the lock and it may be replaced between that and
\* the probe.  Two replacements do deceive the server (`lapsed`): one between the
\* probe at import and the reading of the identity, and one by a file with an
\* identity that was there before.
CacheHonest ==
    cache.step = "ready" /\ cache.id = binary.id /\ cache.kernel /\ ~binary.lapsed => binary.kernel

\* An installer that a person is asked about runs only with their consent, or
\* for a client that cannot ask, and never after the caller was told that the
\* call timed out.
NoInstallBehindTheCaller ==
    \A c \in Calls : call[c].req.tool = "install" /\ call[c].running
        => call[c].granted # "no" /\ call[c].answer = "none"

\* What ran under a policy, or was installed, has its decision on record
\* when it starts and after, unless the log cannot be written.
DecisionsOnRecord ==
    \A c \in Calls :
        /\ Ran(c) /\ call[c].decision.brokered
            => ~writable \/ Recorded(<<c, "approved">>) \/ Recorded(<<c, "denied">>)
        /\ call[c].req.tool = "install" /\ (call[c].running \/ call[c].outcome = "installed")
            => ~writable \/ Recorded(<<c, "granted">>) \/ Recorded(<<c, "skipped">>)

\* A call that is over, cancelled or not, has no executor left and has not
\* forgotten its directory: it was removed, or the removal failed, an installation
\* raised, or a second cancellation skipped it.  Only the program of a cancelled
\* stream may leave processes.  And a stream never loses its directory before its
\* executor.
NothingLeftBehind ==
    \A c \in Calls :
        /\ call[c].pc = "done" => ~call[c].running /\ call[c].workdir \notin {"made", "owned"}
        /\ call[c].orphans => call[c].outcome = "cancelled"
        /\ native /\ call[c].req.tool = "stream" /\ call[c].running
            => call[c].workdir \in {"made", "owned"}

\* Every call is answered, whether or not a person ever responds.
Answered == \A c \in Calls : (call[c].pc # "idle") ~> (call[c].answer # "none")
=============================================================================
