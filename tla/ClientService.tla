--------------------------- MODULE ClientService ---------------------------
(***************************************************************************)
(* The processes that back a machine up: the scheduled loop, in the        *)
(* foreground ("run", crates/busyncr-client/src/run.rs and main.rs) or     *)
(* under the Windows Service Control Manager ("service", service.rs), and  *)
(* the one-shot command ("backup"), with the last-backup record they share *)
(* (status.rs).  A backup itself is one step here; Backup has its inside.  *)
(*                                                                         *)
(* A connection that is "dropped" fails the attempt.  One that is "silent" *)
(* (the peer lost power, the route vanished) delivers nothing and reports  *)
(* nothing: no timeout and no keep-alive is configured on the channel.     *)
(***************************************************************************)
EXTENDS ClientConfig

CONSTANTS
    Hosts,          \* which of the processes a machine may run
    LaunchArgs,     \* [interval, jitter, default_chunking, utf8]
    Configs,        \* contents of the config file
    RESTART_POLL_ATTEMPTS

VARIABLES
    proc,           \* the processes
    line,           \* the arguments of the commands "run" and "backup"
    last,           \* last-backup.toml: "none", "torn", or whose backup it names
    scm,            \* the service as the SCM has it: [state, marked, args]
    stop_tx,        \* a Stop is in the control handler's channel
    ctl,            \* `service restart`: -1, or the polls it has left
    conf,           \* the config file
    up,             \* the daemon answers
    calm            \* no fault happens any more

vars == <<proc, line, last, scm, stop_tx, ctl, conf, up, calm>>

Procs == DOMAIN proc
Args(p) == IF p = "service" THEN scm.args ELSE line
NoProc == [pc |-> "none", left |-> 0, wire |-> "open",
           newest |-> FALSE, stop |-> FALSE, heard |-> FALSE]

Init ==
    /\ \E host \in Hosts : proc = [p \in host |-> NoProc]
    /\ line \in LaunchArgs
    /\ last = "none"
    /\ scm = [state |-> "absent", marked |-> FALSE, args |-> line]
    /\ stop_tx = FALSE /\ ctl = -1
    /\ conf \in Configs
    /\ up \in BOOLEAN /\ calm = FALSE

Becomes(p, q) == proc' = [proc EXCEPT ![p] = q]

\* Whatever ends the service's process, the SCM then has it as stopped, and
\* forgets it if it was deleted in the meantime.
Stopped == [scm EXCEPT !.state = IF scm.marked THEN "absent" ELSE "Stopped", !.marked = FALSE]
Ends(p) ==
    /\ Becomes(p, NoProc)
    /\ IF p = "service" THEN scm' = Stopped /\ stop_tx' = FALSE ELSE UNCHANGED <<scm, stop_tx>>

-----------------------------------------------------------------------------
\* The scheduler (run.rs run_scheduler) and the commands that enter it.

launch(p) ==
    /\ p # "service" /\ proc[p].pc = "none"
    /\ Becomes(p, [NoProc EXCEPT !.pc = "load"])
    /\ UNCHANGED <<line, last, scm, stop_tx, ctl, conf, up, calm>>

\* The service is launched with the arguments `install` wrote down, where a
\* path that is not UTF-8 has lost its bytes and names no file.
Resolves(p) ==
    /\ p = "service" => Args(p).utf8
    /\ load_config(conf)
    /\ chunker(conf, Args(p).default_chunking)
    /\ p # "backup" => SchedulePolicy(Args(p).interval, Args(p).jitter)

Attempt(q) == [q EXCEPT !.pc = "backup", !.wire = IF up THEN "open" ELSE "dropped"]

\* A service that cannot resolve its arguments returns without another report
\* to the SCM, which goes on showing StartPending.
load(p) ==
    /\ proc[p].pc = "load"
    /\ IF Resolves(p)
       THEN /\ Becomes(p, Attempt(proc[p]))
            /\ scm' = IF p = "service" THEN [scm EXCEPT !.state = "Running"] ELSE scm
            /\ UNCHANGED stop_tx
       ELSE IF p = "service"
       THEN Becomes(p, [proc[p] EXCEPT !.pc = "returned"]) /\ UNCHANGED <<scm, stop_tx>>
       ELSE Ends(p)
    /\ UNCHANGED <<line, last, ctl, conf, up, calm>>

\* The snapshot is acknowledged; a record of an earlier one is out of date.
run_backup(p) ==
    /\ proc[p].pc = "backup" /\ proc[p].wire = "open"
    /\ proc' = [r \in Procs |-> IF r = p THEN [proc[r] EXCEPT !.pc = "save", !.newest = TRUE]
                                ELSE [proc[r] EXCEPT !.newest = FALSE]]
    /\ last' = IF last = "current" THEN "old" ELSE last
    /\ UNCHANGED <<line, scm, stop_tx, ctl, conf, up, calm>>

\* on_tick is over: the loop goes on to its delay, the command exits.
Goes_on(p) ==
    IF p = "backup" THEN Ends(p)
    ELSE Becomes(p, [proc[p] EXCEPT !.pc = "draw", !.newest = FALSE]) /\ UNCHANGED <<scm, stop_tx>>

\* As with `?` on the attempt: an unreachable daemon ends the loop.
backup_fails_Propagates(p) ==
    /\ proc[p].pc = "backup"
    /\ proc[p].wire = "dropped" \/ (proc[p].wire = "open" /\ ~calm)
    /\ Ends(p)
    /\ UNCHANGED <<line, last, ctl, conf, up, calm>>

\* A failed attempt is reported and the schedule goes on.
backup_fails(p) ==
    /\ proc[p].pc = "backup"
    /\ proc[p].wire = "dropped" \/ (proc[p].wire = "open" /\ ~calm)
    /\ Goes_on(p)
    /\ UNCHANGED <<line, last, ctl, conf, up, calm>>

\* As if a record that does not parse were left for the operator to look at.
save_opens_Careful(p) ==
    /\ proc[p].pc = "save"
    /\ IF last = "torn" THEN Goes_on(p) /\ UNCHANGED last
       ELSE Becomes(p, [proc[p] EXCEPT !.pc = "write"]) /\ last' = "torn" /\ UNCHANGED <<scm, stop_tx>>
    /\ UNCHANGED <<line, ctl, conf, up, calm>>

\* LastBackupRecord::save opens the file, which empties it, and then writes.
\* What another process wrote in between may reach past the end of this write.
save_opens(p) ==
    /\ proc[p].pc = "save"
    /\ Becomes(p, [proc[p] EXCEPT !.pc = "write"])
    /\ last' = "torn"
    /\ UNCHANGED <<line, scm, stop_tx, ctl, conf, up, calm>>

save_writes(p) ==
    /\ proc[p].pc = "write"
    /\ \/ last' = IF proc[p].newest THEN "current" ELSE "old"
       \/ last # "torn" /\ last' = "torn"
    /\ Goes_on(p)
    /\ UNCHANGED <<line, ctl, conf, up, calm>>

save_fails(p) ==
    /\ ~calm /\ proc[p].pc \in {"save", "write"}
    /\ Goes_on(p)
    /\ UNCHANGED <<line, last, ctl, conf, up, calm>>

\* A delay that no Duration can hold is a panic (scheduler.rs next_delay).
\* The shutdown future is polled from here on, for the first time included.
wait(p) ==
    /\ proc[p].pc = "draw"
    /\ \E d \in next_delay(Args(p).interval, Args(p).jitter) :
         IF d > U64_MAX THEN Ends(p)
         ELSE /\ Becomes(p, [proc[p] EXCEPT !.pc = "sleep", !.left = d, !.heard = (p = "run")])
              /\ UNCHANGED <<scm, stop_tx>>
    /\ UNCHANGED <<line, last, ctl, conf, up, calm>>

sleep(p) ==
    /\ proc[p].pc = "sleep" /\ proc[p].left > 0 /\ ~proc[p].stop
    /\ Becomes(p, [proc[p] EXCEPT !.left = @ - 1])
    /\ UNCHANGED <<line, last, scm, stop_tx, ctl, conf, up, calm>>

\* With the delay over and the stop there, select! takes either branch.
wake(p) ==
    /\ proc[p].pc = "sleep" /\ proc[p].left = 0
    /\ Becomes(p, Attempt(proc[p]))
    /\ UNCHANGED <<line, last, scm, stop_tx, ctl, conf, up, calm>>

leave(p) ==
    /\ proc[p].pc = "sleep" /\ proc[p].stop
    /\ Ends(p)
    /\ UNCHANGED <<line, last, ctl, conf, up, calm>>

\* Ctrl-C or SIGTERM: nobody listens until the shutdown future is first polled.
shutdown_signal(p) ==
    /\ p # "service" /\ proc[p].pc # "none"
    /\ IF p = "run" /\ proc[p].heard
       THEN Becomes(p, [proc[p] EXCEPT !.stop = TRUE])
       ELSE Becomes(p, [NoProc EXCEPT !.stop = TRUE])
    /\ UNCHANGED <<line, last, scm, stop_tx, ctl, conf, up, calm>>

Work(p) ==
    \/ load(p) \/ run_backup(p) \/ backup_fails(p)
    \/ save_opens(p) \/ save_writes(p) \/ save_fails(p)
    \/ wait(p) \/ sleep(p) \/ wake(p)

-----------------------------------------------------------------------------
\* The service commands (service.rs).

install ==
    /\ scm.state = "absent"
    /\ \E args \in LaunchArgs : scm' = [state |-> "Stopped", marked |-> FALSE, args |-> args]
    /\ UNCHANGED <<proc, line, last, stop_tx, ctl, conf, up, calm>>

\* The SCM refuses to start what is running or deleted, and hands a Stop only
\* to a service that reported it accepts one.
StartService ==
    /\ scm.state = "Stopped"
    /\ scm' = [scm EXCEPT !.state = "StartPending"]
    /\ Becomes("service", [proc["service"] EXCEPT !.pc = "load"])
    /\ UNCHANGED stop_tx
StopService ==
    /\ scm.state = "Running"
    /\ stop_tx' = ~proc["service"].stop
    /\ UNCHANGED proc

start ==
    /\ StartService
    /\ UNCHANGED <<line, last, ctl, conf, up, calm>>

stop ==
    /\ StopService
    /\ UNCHANGED <<line, last, scm, ctl, conf, up, calm>>

uninstall ==
    /\ \/ scm.state = "Stopped" /\ scm' = [Stopped EXCEPT !.state = "absent"] /\ UNCHANGED <<proc, stop_tx>>
       \/ StopService /\ scm' = [scm EXCEPT !.marked = TRUE]
    /\ UNCHANGED <<line, last, ctl, conf, up, calm>>

restart ==
    /\ ctl = -1
    /\ \/ StartService /\ UNCHANGED ctl
       \/ StopService /\ ctl' = RESTART_POLL_ATTEMPTS /\ UNCHANGED scm
    /\ UNCHANGED <<line, last, conf, up, calm>>

restart_polls ==
    /\ ctl > 0
    /\ ctl' = IF scm.state = "Stopped" THEN 0 ELSE ctl - 1
    /\ UNCHANGED <<proc, line, last, scm, stop_tx, conf, up, calm>>

\* After the last poll it starts the service, stopped or not.
restart_starts ==
    /\ ctl = 0
    /\ \/ StartService
       \/ scm.state # "Stopped" /\ UNCHANGED <<proc, scm, stop_tx>>
    /\ ctl' = -1
    /\ UNCHANGED <<line, last, conf, up, calm>>

\* As with a notification only a loop that is waiting receives.
bridge_Missed ==
    /\ stop_tx
    /\ stop_tx' = FALSE
    /\ Becomes("service", [proc["service"] EXCEPT !.stop = (proc["service"].pc = "sleep")])
    /\ UNCHANGED <<line, last, scm, ctl, conf, up, calm>>

\* The thread between the control handler and the scheduler's shutdown future.
bridge ==
    /\ stop_tx
    /\ stop_tx' = FALSE
    /\ Becomes("service", [proc["service"] EXCEPT !.stop = TRUE])
    /\ UNCHANGED <<line, last, scm, ctl, conf, up, calm>>

Commands ==
    \/ \E p \in Procs : launch(p) \/ shutdown_signal(p)
    \/ "service" \in Procs /\ (install \/ start \/ stop \/ uninstall \/ restart)

-----------------------------------------------------------------------------
\* Faults, until the environment calms down.

Cut(how) == [p \in Procs |-> IF proc[p].pc = "backup" /\ proc[p].wire = "open"
                             THEN [proc[p] EXCEPT !.wire = how] ELSE proc[p]]

outage ==
    /\ ~calm /\ up
    /\ up' = FALSE
    /\ \E how \in {"dropped", "silent"} : proc' = Cut(how)
    /\ UNCHANGED <<line, last, scm, stop_tx, ctl, conf, calm>>

recovery ==
    /\ ~up
    /\ up' = TRUE
    /\ UNCHANGED <<proc, line, last, scm, stop_tx, ctl, conf, calm>>

\* A client that happens to send on a silent connection has it refused.
reset(p) ==
    /\ up /\ proc[p].wire = "silent"
    /\ Becomes(p, [proc[p] EXCEPT !.wire = "dropped"])
    /\ UNCHANGED <<line, last, scm, stop_tx, ctl, conf, up, calm>>

kill(p) ==
    /\ ~calm /\ proc[p].pc # "none"
    /\ Ends(p)
    /\ UNCHANGED <<line, last, ctl, conf, up, calm>>

edit ==
    /\ ~calm
    /\ conf' \in Configs \ {conf}
    /\ UNCHANGED <<proc, line, last, scm, stop_tx, ctl, up, calm>>

calms ==
    /\ ~calm /\ up /\ calm' = TRUE
    /\ UNCHANGED <<proc, line, last, scm, stop_tx, ctl, conf, up>>

Faults ==
    \/ outage \/ recovery \/ edit \/ calms
    \/ \E p \in Procs : reset(p) \/ kill(p)

Next ==
    \/ \E p \in Procs : Work(p) \/ leave(p)
    \/ Commands \/ restart_polls \/ restart_starts \/ bridge
    \/ Faults

\* A process that can run does, an attempt that is not silent ends, and
\* select!, which picks at random, does not pass the stop over for ever.
Spec ==
    /\ Init /\ [][Next]_vars
    /\ WF_vars(bridge)
    /\ \A p \in {"service", "run", "backup"} :
         WF_vars(p \in Procs /\ Work(p)) /\ SF_vars(p \in Procs /\ leave(p))

-----------------------------------------------------------------------------
Looping(p) == p \in Procs /\ proc[p].pc \in {"backup", "save", "write", "draw", "sleep"}
Asked(p) == p \in Procs /\ proc[p].stop
Silent(p) == p \in Procs /\ proc[p].wire = "silent"
Alone(p) == {r \in Procs : proc[r].pc \notin {"none", "returned"}} \subseteq {p}
Fits(p) == \E a \in LaunchArgs : a = Args(p) /\ next_delay(a.interval, a.jitter) \subseteq 0 .. U64_MAX
Acknowledged(p) == p \in Procs /\ proc[p].pc = "save"

(* After any number of outages, failed attempts, crashes and restarts, once   *)
(* faults are over a scheduler gets backup after backup acknowledged until    *)
(* somebody stops it, unless its connection has gone silent (run.rs           *)
(* run_scheduler: a failed attempt never ends the loop).                      *)
BackupsResume ==
    \A p \in {"service", "run"} :
        (calm /\ Looping(p) /\ Fits(p)) ~> (Acknowledged(p) \/ Asked(p) \/ Silent(p))

(* A last-backup record torn by a crash, or left behind the newest backup by  *)
(* a failed write or by another process, is repaired: a scheduler that is     *)
(* alone comes to a whole record of the newest backup, again and again        *)
(* (status.rs save, main.rs report_tick).                                     *)
RecordHeals ==
    \A p \in {"service", "run"} :
        (calm /\ Looping(p) /\ Fits(p) /\ Alone(p))
            ~> (last = "current" \/ ~Alone(p) \/ Asked(p) \/ Silent(p))

(* A Stop the SCM delivered stops the service, at whatever point of a backup, *)
(* a save or a delay it arrives, unless the connection has gone silent        *)
(* (service.rs event_handler, the bridging thread, run_scheduler's select!).  *)
StopEnds ==
    stop_tx ~> (scm.state \in {"Stopped", "absent"} \/ Silent("service"))
=============================================================================
