------------------------------- MODULE Harness -------------------------------
(***************************************************************************)
(* The scripts that start servers, measure or compare them and stop them   *)
(* again: "stress" is benchmarks/http-stress.mjs, "parity" is              *)
(* scripts/http-parity.mjs, "battery" is apps/http-parity/driver.mjs.  A   *)
(* server may come up, fail, die by a signal (then its exitCode stays      *)
(* null) or ignore SIGTERM at any time.                                    *)
(***************************************************************************)
EXTENDS Integers, Sequences, FiniteSets, SequencesExt

CONSTANTS
    Scripts,       \* the scripts run: a subset of {"stress", "parity", "battery"}
    Rounds,        \* http-stress --rounds
    Profiles,      \* number of wrk profiles
    Cases,         \* number of cases of the battery
    MaxDeaths      \* bound: servers that die or wrk runs that fail on their own

VARIABLES
    script,    \* [kind, pc, n: the current server, cell, registered, outcome, failed: the startup that failed]
    server,    \* the children: [state, exit, term, kill]
    samples,   \* what was measured: [round, profile, runtime, sound]
    report,    \* [written, checked: the servers that passed the checker]
    deaths
harnessVars == <<script, server, samples, report, deaths>>

Runtimes == 2
Fresh == [state |-> "starting", exit |-> "null", term |-> FALSE, kill |-> FALSE, stubborn |-> FALSE]
HarnessInit ==
    /\ \E k \in Scripts : script = [kind |-> k, pc |-> "spawn", n |-> 1, cell |-> 0, warm |-> 0, registered |-> {}, outcome |-> "running", failed |-> 0]
    /\ server = <<>> /\ samples = <<>> /\ deaths = 0
    /\ report = [written |-> FALSE, checked |-> {}]

Up(i) == server[i].state = "listening"
Alive(i) == server[i].state \in {"starting", "listening"}
Killed(s) == [s EXCEPT !.state = "dead", !.kill = TRUE, !.exit = IF s.state = "dead" THEN s.exit ELSE "null"]     \* SIGKILL
Goto(pc) == script' = [script EXCEPT !.pc = pc]
\* an exception: the finally block, or the end where there is none
Throw(s) == [s EXCEPT !.outcome = "failed", !.pc = IF s.kind = "battery" THEN "ended" ELSE "stop",
                      !.n = IF s.kind = "stress" THEN 1 ELSE s.n]

----------------
(* The servers.                                                            *)

Listens(i) == server[i].state = "starting" /\ server' = [server EXCEPT ![i].state = "listening"] /\ UNCHANGED <<script, samples, report, deaths>>
\* process.exit, an uncaught exception, or a signal of its own
Dies(i) ==
    /\ Alive(i) /\ deaths < MaxDeaths
    /\ \E e \in {"code", "null"} : server' = [server EXCEPT ![i].state = "dead", ![i].exit = e]
    /\ deaths' = deaths + 1
    /\ UNCHANGED <<script, samples, report>>
HeedsTerm(i) ==
    /\ Alive(i) /\ server[i].term /\ ~server[i].stubborn
    /\ server' = [server EXCEPT ![i].state = "dead"]
    /\ UNCHANGED <<script, samples, report, deaths>>

----------------
(* startServer() and waitForServer(): every poll looks at exitCode first   *)
(* (not in the battery) and then tries to connect.                         *)

Spawn ==
    /\ script.pc = "spawn" /\ script.outcome = "running"
    /\ \E b \in BOOLEAN : server' = Append(server, [Fresh EXCEPT !.stubborn = b])
    /\ script' = [script EXCEPT !.pc = "wait", !.n = Len(server) + 1]
    /\ UNCHANGED <<samples, report, deaths>>
ServerReady(s) ==
    CASE s.kind = "stress" -> [s EXCEPT !.registered = @ \cup {s.n}, !.pc = IF s.n < Runtimes THEN "spawn" ELSE "warm"]
      [] OTHER -> [s EXCEPT !.pc = "use"]
StartupFailed(s) == [Throw(s) EXCEPT !.failed = s.n, !.pc = IF s.kind = "stress" THEN @ ELSE "ended"]
StartupExited ==
    /\ script.pc = "wait" /\ script.kind # "battery" /\ server[script.n].exit # "null"
    /\ script' = StartupFailed(script)
    /\ UNCHANGED <<server, samples, report, deaths>>
StartupAnswers ==
    /\ script.pc = "wait" /\ Up(script.n)
    /\ script' = ServerReady(script)
    /\ UNCHANGED <<server, samples, report, deaths>>
\* the deadline or the last attempt
GaveUp(s) == IF script.kind = "stress" THEN s ELSE Killed(s)
StartupTimesOut ==
    /\ script.pc = "wait" /\ ~Up(script.n)
    /\ script' = StartupFailed(script)
    /\ server' = [server EXCEPT ![script.n] = GaveUp(@)]
    /\ UNCHANGED <<samples, report, deaths>>

----------------
(* http-stress: warm-up, the measured cells, heap and correctness checks.   *)

\* runWrk() returns a sample, or throws: wrk failed, or counted an error
RunWrk(i, sampled, failed) ==
    \/ Up(i) /\ sampled /\ UNCHANGED deaths
    \/ ~Up(i) /\ failed /\ UNCHANGED deaths
    \/ Up(i) /\ deaths < MaxDeaths /\ failed /\ deaths' = deaths + 1
WarmUp ==
    /\ script.pc = "warm"
    /\ LET next == IF script.warm + 1 = 2 * Runtimes THEN [script EXCEPT !.pc = "measure"] ELSE [script EXCEPT !.warm = @ + 1] IN
       RunWrk((script.warm \div 2) + 1, script' = next, script' = Throw(script))
    /\ UNCHANGED <<server, samples, report>>
\* the runtimes rotated by round + profile
ordered(round, profile) == LET offset == (round + profile) % Runtimes IN [k \in 1..Runtimes |-> ((k - 1 + offset) % Runtimes) + 1]
Cell(c) ==
    LET round == c \div (Profiles * Runtimes)
        profile == (c \div Runtimes) % Profiles IN
    [round |-> round, profile |-> profile, runtime |-> ordered(round, profile)[(c % Runtimes) + 1]]
CellCount == Rounds * Profiles * Runtimes
Measure ==
    LET cell == Cell(script.cell) IN
    /\ script.pc = "measure" /\ script.cell < CellCount
    /\ RunWrk(cell.runtime,
              samples' = Append(samples, cell) /\ script' = [script EXCEPT !.cell = @ + 1],
              script' = Throw(script) /\ UNCHANGED samples)
    /\ UNCHANGED <<server, report>>
Measured == script.pc = "measure" /\ script.cell = CellCount /\ script' = [script EXCEPT !.pc = "heap", !.n = 1] /\ UNCHANGED <<server, samples, report, deaths>>
\* exitCode, then leaks(1), which fails for a process that is gone
HeapSnapshot ==
    /\ script.pc = "heap"
    /\ script' = IF ~Alive(script.n) THEN Throw(script)
                 ELSE IF script.n < Runtimes THEN [script EXCEPT !.n = @ + 1] ELSE [script EXCEPT !.pc = "check", !.n = 1]
    /\ UNCHANGED <<server, samples, report, deaths>>
\* check.error or a status other than 0
Accepts(ok) == ok
PostCheck ==
    /\ script.pc = "check"
    /\ \E ok \in BOOLEAN :
          /\ ok => Up(script.n)
          /\ IF Accepts(ok) THEN
                /\ report' = [report EXCEPT !.checked = IF ok THEN @ \cup {script.n} ELSE @]
                /\ script' = IF script.n < Runtimes THEN [script EXCEPT !.n = @ + 1] ELSE [script EXCEPT !.pc = "report"]
             ELSE script' = Throw(script) /\ UNCHANGED report
    /\ UNCHANGED <<server, samples, deaths>>
\* a latency of wrk, the version commands or the file system may fail it
WriteReport ==
    /\ script.pc = "report"
    /\ \/ report' = [report EXCEPT !.written = TRUE] /\ script' = [script EXCEPT !.pc = "stop", !.n = 1, !.outcome = "ok"]
       \/ script' = Throw(script) /\ UNCHANGED report
    /\ UNCHANGED <<server, samples, deaths>>

----------------
(* http-parity: the conversation; the battery: one case per server.         *)

\* an exchange fails when the server is down or takes more than 15 seconds
Converse ==
    /\ script.pc = "use" /\ script.kind = "parity"
    /\ (Up(script.n) /\ Goto("stop")) \/ script' = Throw(script)
    /\ UNCHANGED <<server, samples, report, deaths>>
\* fire() always resolves; the server is killed
FireCase ==
    /\ script.pc = "use" /\ script.kind = "battery"
    /\ server' = [server EXCEPT ![script.n] = Killed(@)]
    /\ script' = IF script.n < Cases * Runtimes THEN [script EXCEPT !.pc = "spawn"] ELSE [script EXCEPT !.pc = "ended", !.outcome = "ok"]
    /\ UNCHANGED <<samples, report, deaths>>

----------------
(* stopServer() and the finally of runOne(): SIGTERM, a wait, SIGKILL.      *)

\* SIGKILL after the wait, unless there is an exit code
AfterWaitFault(s) == s
AfterWait(s) == IF s.exit = "null" THEN Killed(s) ELSE s
NextStop(s) ==
    IF s.kind = "stress" THEN (IF s.n < Runtimes THEN [s EXCEPT !.n = @ + 1, !.pc = "stop"] ELSE [s EXCEPT !.pc = "ended"])
    ELSE IF s.outcome = "failed" \/ s.n = Runtimes THEN [s EXCEPT !.pc = "ended", !.outcome = IF @ = "running" THEN "ok" ELSE @]
    ELSE [s EXCEPT !.pc = "spawn"]
MustStop(i) == IF script.kind = "stress" THEN i \in script.registered /\ server[i].exit = "null" ELSE TRUE
Stop ==
    /\ script.pc = "stop"
    /\ \/ /\ ~MustStop(script.n)
          /\ script' = NextStop(script) /\ UNCHANGED server
       \/ /\ MustStop(script.n)
          /\ server' = [server EXCEPT ![script.n].term = TRUE]
          /\ Goto("grace")
    /\ UNCHANGED <<samples, report, deaths>>
Grace ==
    /\ script.pc = "grace"
    /\ server' = [server EXCEPT ![script.n] = AfterWait(@)]
    /\ script' = NextStop(script)
    /\ UNCHANGED <<samples, report, deaths>>

HarnessNext ==
    \/ \E i \in DOMAIN server : Listens(i) \/ Dies(i) \/ HeedsTerm(i)
    \/ Spawn \/ StartupExited \/ StartupAnswers \/ StartupTimesOut \/ WarmUp \/ Measure \/ Measured \/ HeapSnapshot \/ PostCheck \/ WriteReport
    \/ Converse \/ FireCase \/ Stop \/ Grace

----------------
(* When a script has ended no server of it still runs, whatever failed and *)
(* whichever servers ignored SIGTERM; the one exception is the server      *)
(* whose startup http-stress gave up on, which is not in its map yet.      *)
ServersStopped ==
    script.pc = "ended" => \A i \in DOMAIN server : Alive(i) => script.kind = "stress" /\ i = script.failed

(* http-stress reports only complete measurements: every round, profile    *)
(* and runtime once, and both servers passed the checker after them.       *)
ReportComplete ==
    report.written =>
        /\ report.checked = 1..Runtimes
        /\ Len(samples) = CellCount
        /\ {samples[i] : i \in DOMAIN samples} = [round : 0..(Rounds - 1), profile : 0..(Profiles - 1), runtime : 1..Runtimes]

(* Neither runtime is favoured: of the cells of one profile, and of those   *)
(* of one round, each runtime goes first as often as the other, give or    *)
(* take one.                                                               *)
First(r, sel(_)) == Cardinality({i \in DOMAIN samples : i % Runtimes = 1 /\ samples[i].runtime = r /\ sel(samples[i])})
RotationFair ==
    report.written =>
        \A r, q \in 1..Runtimes :
            /\ \A p \in 0..(Profiles - 1) : First(r, LAMBDA s: s.profile = p) - First(q, LAMBDA s: s.profile = p) \in -1..1
            /\ \A n \in 0..(Rounds - 1) : First(r, LAMBDA s: s.round = n) - First(q, LAMBDA s: s.round = n) \in -1..1

\* The harnesses stop what they started, report what they measured, and give every server each turn.
HarnessExact == ServersStopped /\ ReportComplete /\ RotationFair
=============================================================================
