------------------------------ MODULE Process -------------------------------
(***************************************************************************)
(* The life of the process: src/main.c builds the components in order,     *)
(* runs the datapath in its own thread or in the main one, waits for it to *)
(* stop, and takes everything down.  SIGINT and SIGTERM are blocked in     *)
(* every thread and consumed by the datapath's signalfd alone; with the    *)
(* terminal interface a joiner thread reports the end of the datapath.     *)
(*                                                                         *)
(* misuse and killed record, for the properties, what C leaves undefined:  *)
(* a component touched after it was destroyed, a signal sent to a thread   *)
(* that has been joined.                                                   *)
(***************************************************************************)
EXTENDS Config, Prime, Sequences, Functions

VARIABLES
  main,         \* where the main thread is
  step,         \* the next entry of the list it works through
  late,         \* arp_resolve's deadline has passed
  built,        \* components that exist
  fds,          \* file descriptors they hold open
  thread,       \* state of each other thread
  is_running,   \* dp->is_running
  sigs,         \* pending SIGTERM, for the process or for the datapath thread
  quit,         \* q was pressed
  stop_fd,      \* the joiner has reported the end of the datapath
  wake,         \* threads whose wake_fd was written
  tuiFailed,    \* history: there was no terminal interface to wait in
  misuse, killed

at == <<main, step>>
start == <<cfgvars, late>>
held == <<built, fds>>
threads == <<thread, is_running>>
told == <<quit, stop_fd, wake>>
history == <<tuiFailed, misuse, killed>>
vars == <<at, start, held, threads, sigs, told, history>>

Thread == {"dp", "joiner", "mh", "hc"}

(* What main builds, in order. *)
Components == <<"bm", "tg", "ct", "stats", "hc", "mh", "dp">>

(* Mutant: the exporter is stopped after the health checker. *)
CleanupExporterLate == <<"dp", "stats", "ct", "hc_wake", "hc_join", "hc", "mh_wake",
                         "mh_join", "mh", "tg", "bm">>

(* What the cleanup label does, in order. *)
Cleanup == <<"dp", "mh_wake", "mh_join", "mh", "stats", "ct", "hc_wake", "hc_join",
             "hc", "tg", "bm">>

Optional == {"hc", "mh"}

(* The descriptors datapath_run opens, in order. *)
DpFds == <<"raw_fd", "timerfd", "signalfd_fd", "epfd">>

(* Mutant: datapath_destroy leaves the last one open. *)
ClosesLess(c) ==
  CASE c = "dp" -> {"raw_fd", "timerfd", "signalfd_fd"}
    [] c = "hc" -> {"hc_wake", "admin_fifo_fd"}
    [] c = "mh" -> {"mh_wake", "listen_fd"}
    [] OTHER    -> {}

(* What destroying a component closes. *)
Closes(c) ==
  CASE c = "dp" -> Range(DpFds)
    [] c = "hc" -> {"hc_wake", "admin_fifo_fd"}
    [] c = "mh" -> {"mh_wake", "listen_fd"}
    [] OTHER    -> {}

Init ==
  /\ cpInit
  /\ main = "parse" /\ step = 1 /\ late = FALSE
  /\ built = {} /\ fds = {}
  /\ thread = [t \in Thread |-> "none"]
  /\ is_running = FALSE
  /\ sigs = {} /\ quit = FALSE /\ stop_fd = FALSE /\ wake = {}
  /\ tuiFailed = FALSE
  /\ misuse = {} /\ killed = FALSE

Go(t, state) == thread' = [thread EXCEPT ![t] = state]

Goto(place) ==
  /\ main' = place
  /\ step' = 1

-----------------------------------------------------------------------------
(* Before anything is built a failure just returns. *)
ParseOption ==
  /\ main = "parse"
  /\ config_parse_args
  /\ UNCHANGED <<at, late, held, threads, sigs, told, history>>

Parsed ==
  /\ main = "parse" /\ rc # "parsing"
  /\ Goto(IF rc = "ready" THEN "preflight" ELSE "done")
  /\ UNCHANGED <<start, held, threads, sigs, told, history>>

(* What main itself still reads of the options. *)
StillRead ==
  [cfg EXCEPT !.num = [Defaults EXCEPT !.metrics_port = IF cfg.num.metrics_port = 0 THEN 0 ELSE @]]

(* The size must be prime. *)
CheckSize ==
  /\ main = "preflight" /\ step = 1
  /\ IF maglev_is_prime(cfg.num.table_size) THEN main' = main /\ step' = 2 ELSE Goto("done")
  /\ UNCHANGED <<start, held, threads, sigs, told, history>>

(* The signals are blocked, then the interface's address is read. *)
Preflight ==
  /\ main = "preflight"
  /\ \/ step = 2 /\ main' = main /\ step' = 3
     \/ step = 3 /\ Goto("build")
  /\ cfg' = IF step = 3 THEN StillRead ELSE cfg
  /\ numbers' = 0
  /\ UNCHANGED <<rc, late, held, threads, sigs, told, history>>

PreflightFails ==
  /\ main = "preflight" /\ step > 1
  /\ Goto("done")
  /\ UNCHANGED <<start, held, threads, sigs, told, history>>

-----------------------------------------------------------------------------
(* Building.  A component that cannot be built ends the start, except for  *)
(* the health checker and the exporter, which are done without.            *)
AfterBuild(i) ==
  IF Components[i] = "bm" THEN Goto("arp")
  ELSE IF i < Len(Components) THEN main' = main /\ step' = i + 1
  ELSE Goto(IF cfg.tui_enabled THEN "spawn" ELSE "inline")

(* The descriptors a new component may hold, and the state its thread may  *)
(* be found in: a health checker that could not start its thread is kept,  *)
(* its thread returns at once when it gets no epoll descriptor.            *)
Opens(c) ==
  CASE c = "hc" -> {{"hc_wake"}} \cup IF cfg.admin_fifo THEN {{"hc_wake", "admin_fifo_fd"}} ELSE {}
    [] c = "mh" -> {{"mh_wake", "listen_fd"}}
    [] OTHER    -> {{}}

StartsAs(c) ==
  CASE c = "hc" -> {"running", "ended", "none"}
    [] c = "mh" -> {"running"}

Wanted(c) == c = "mh" => cfg.num.metrics_port # 0

Build ==
  /\ main = "build"
  /\ LET c == Components[step]
     IN /\ Wanted(c)
        /\ built' = built \cup {c}
        /\ \E new \in Opens(c) : fds' = fds \cup new
        /\ IF c \in Optional THEN \E state \in StartsAs(c) : Go(c, state)
                             ELSE UNCHANGED thread
  /\ AfterBuild(step)
  /\ UNCHANGED <<start, is_running, sigs, told, history>>

BuildFails ==
  /\ main = "build"
  /\ IF Components[step] \in Optional THEN AfterBuild(step) ELSE Goto("cleanup")
  /\ UNCHANGED <<start, held, threads, sigs, told, history>>

(* arp_resolve, for each backend in turn.  Its socket is closed on every   *)
(* way out.  A reply of the backend ends the call, anything else does not. *)
ArpReply ==
  /\ main = "arp"
  /\ IF step < cfg.n_backends THEN main' = main /\ step' = step + 1
                              ELSE main' = "build" /\ step' = 2
  /\ late' = FALSE
  /\ UNCHANGED <<cfgvars, held, threads, sigs, told, history>>

(* Mutant: every frame starts the wait afresh. *)
ArpOtherRearms ==
  /\ main = "arp"
  /\ late' = FALSE
  /\ UNCHANGED <<at, cfgvars, held, threads, sigs, told, history>>

ArpOther ==
  /\ main = "arp"
  /\ UNCHANGED vars

ArpDeadline ==
  /\ main = "arp" /\ ~late
  /\ late' = TRUE
  /\ UNCHANGED <<at, cfgvars, held, threads, sigs, told, history>>

ArpTimesOut ==
  /\ main = "arp" /\ late
  /\ Goto("cleanup")
  /\ UNCHANGED <<start, held, threads, sigs, told, history>>

(* No socket, no such interface, or the request cannot be sent. *)
ArpFails ==
  /\ main = "arp" /\ ~late
  /\ Goto("cleanup")
  /\ UNCHANGED <<start, held, threads, sigs, told, history>>

-----------------------------------------------------------------------------
(* run_with_tui, or datapath_run in the main thread. *)
Spawn ==
  /\ main = "spawn"
  /\ \/ Go("dp", "starting") /\ Goto("spawn_joiner")
     \/ UNCHANGED thread /\ Goto("cleanup")      \* pthread_create fails
  /\ UNCHANGED <<start, held, is_running, sigs, told, history>>

SpawnJoiner ==
  /\ main = "spawn_joiner"
  /\ \/ fds' = fds /\ UNCHANGED thread                          \* no eventfd
     \/ fds' = fds \cup {"stop_fd"} /\ UNCHANGED thread         \* no thread
     \/ fds' = fds \cup {"stop_fd"} /\ Go("joiner", "running")
  /\ \/ Goto("tui") /\ UNCHANGED tuiFailed
     \/ Goto("check") /\ tuiFailed' = TRUE        \* tui_create fails
  /\ UNCHANGED <<start, built, is_running, sigs, told, misuse, killed>>

(* tui_run returns on q, on stop_fd, or when it sees the datapath stopped. *)
TuiReturns ==
  /\ main = "tui"
  /\ quit \/ stop_fd \/ ~is_running
  /\ Goto("check")
  /\ UNCHANGED <<start, held, threads, sigs, told, history>>

Check ==
  /\ main = "check"
  /\ Goto(IF is_running THEN "kill" ELSE "join")
  /\ UNCHANGED <<start, held, threads, sigs, told, history>>

(* Mutant: the datapath is joined without having been told. *)
KillForgets ==
  /\ main = "kill"
  /\ Goto("join")
  /\ UNCHANGED <<start, held, threads, sigs, told, history>>

(* pthread_kill(dp_thread, SIGTERM) *)
Kill ==
  /\ main = "kill"
  /\ Goto("join")
  /\ sigs' = IF thread["dp"] \in {"ended", "joined"} THEN sigs ELSE sigs \cup {"dp"}
  /\ killed' = (killed \/ thread["dp"] = "joined")
  /\ UNCHANGED <<start, held, threads, told, tuiFailed, misuse>>

(* The joiner if there is one, else the datapath itself. *)
Join ==
  /\ main = "join"
  /\ LET t == IF thread["joiner"] = "none" THEN "dp" ELSE "joiner"
     IN thread[t] = "ended" /\ Go(t, "joined")
  /\ fds' = fds \ {"stop_fd"}
  /\ Goto("cleanup")
  /\ UNCHANGED <<start, built, is_running, sigs, told, history>>

RunInline ==
  /\ main = "inline"
  /\ \/ thread["dp"] = "none" /\ Go("dp", "starting") /\ UNCHANGED at
     \/ thread["dp"] = "ended" /\ Go("dp", "joined") /\ Goto("cleanup")
  /\ UNCHANGED <<start, held, is_running, sigs, told, history>>

-----------------------------------------------------------------------------
(* Whether an entry of Cleanup can be done now: a join waits. *)
Proceeds(entry) ==
  /\ entry = "mh_join" => thread["mh"] \in {"none", "ended"}
  /\ entry = "hc_join" => thread["hc"] \in {"none", "ended"}

CleanUp ==
  /\ main = "cleanup"
  /\ LET entry == Cleanup[step]
     IN /\ Proceeds(entry)
        /\ built' = built \ {entry}
        /\ fds' = fds \ Closes(entry)
        /\ wake' = wake \cup (CASE entry = "mh_wake" -> {"mh"} [] entry = "hc_wake" -> {"hc"}
                                [] OTHER -> {})
        /\ thread' = [t \in Thread |->
                        IF thread[t] = "ended" /\ <<entry, t>> \in {<<"mh_join", "mh">>,
                                                                  <<"hc_join", "hc">>}
                        THEN "joined" ELSE thread[t]]
  /\ IF step < Len(Cleanup) THEN main' = main /\ step' = step + 1 ELSE Goto("done")
  /\ UNCHANGED <<start, is_running, sigs, quit, stop_fd, history>>

Main ==
  \/ ParseOption \/ Parsed \/ CheckSize \/ Preflight \/ PreflightFails
  \/ Build \/ BuildFails \/ ArpTimesOut
  \/ Spawn \/ SpawnJoiner \/ TuiReturns \/ Check \/ Kill \/ Join \/ RunInline \/ CleanUp

-----------------------------------------------------------------------------
(* Thread t uses these components. *)
Touch(t, used) == misuse' = misuse \cup ({t} \X (used \ built))

(* datapath_run up to the loop; any of its calls can fail, and what was    *)
(* opened before stays open until datapath_destroy.                        *)
DpStarts ==
  /\ thread["dp"] = "starting"
  /\ \E n \in 0 .. Len(DpFds) :
       /\ fds' = fds \cup Range(SubSeq(DpFds, 1, n))
       /\ \/ n = Len(DpFds) /\ Go("dp", "running") /\ is_running' = TRUE
          \/ Go("dp", "ended") /\ UNCHANGED is_running
  /\ UNCHANGED <<at, start, built, sigs, told, history>>

DpWorks ==
  /\ thread["dp"] = "running"
  /\ Touch("dp", {"dp", "tg", "ct", "stats"})
  /\ UNCHANGED <<at, start, held, threads, sigs, told, tuiFailed, killed>>

(* The signalfd takes one signal of the process or of this thread. *)
DpStops ==
  /\ thread["dp"] = "running"
  /\ \E s \in sigs : sigs' = sigs \ {s}
  /\ is_running' = FALSE
  /\ Go("dp", "returning")
  /\ UNCHANGED <<at, start, held, told, history>>

(* epoll_wait fails. *)
DpFails ==
  /\ thread["dp"] = "running"
  /\ is_running' = FALSE
  /\ Go("dp", "returning")
  /\ UNCHANGED <<at, start, held, sigs, told, history>>

DpReturns ==
  /\ thread["dp"] = "returning"
  /\ Go("dp", "ended")
  /\ sigs' = sigs \ {"dp"}
  /\ UNCHANGED <<at, start, held, is_running, told, history>>

(* joiner_thread_main: join, then report. *)
JoinerJoins ==
  /\ thread["joiner"] = "running" /\ thread["dp"] = "ended"
  /\ thread' = [thread EXCEPT !["dp"] = "joined", !["joiner"] = "writing"]
  /\ UNCHANGED <<at, start, held, is_running, sigs, told, history>>

JoinerReports ==
  /\ thread["joiner"] = "writing"
  /\ stop_fd' = TRUE
  /\ Go("joiner", "ended")
  /\ UNCHANGED <<at, start, held, is_running, sigs, quit, wake, history>>

(* What a probe's result, a failed probe, and a change of health or admin  *)
(* state use.                                                              *)
HcWorks ==
  /\ thread["hc"] = "running"
  /\ \E used \in {{"bm"}, {"bm", "stats"}, {"bm", "tg"}} : Touch("hc", used \cup {"hc"})
  /\ UNCHANGED <<at, start, held, threads, sigs, told, tuiFailed, killed>>

(* handle_client: one request reads everything there is. *)
MhWorks ==
  /\ thread["mh"] = "running"
  /\ Touch("mh", {"bm", "tg", "ct", "stats", "mh"})
  /\ UNCHANGED <<at, start, held, threads, sigs, told, tuiFailed, killed>>

(* Both threads end when they find their wake_fd readable. *)
Woken(t) ==
  /\ t \in wake /\ thread[t] = "running"
  /\ Go(t, "ended")
  /\ UNCHANGED <<at, start, held, is_running, sigs, told, history>>

-----------------------------------------------------------------------------
PressQ ==
  /\ main = "tui" /\ ~quit
  /\ quit' = TRUE
  /\ UNCHANGED <<at, start, held, threads, sigs, stop_fd, wake, history>>

(* Until main has blocked it the signal ends the process on the spot. *)
Blocked == main # "parse" /\ (main = "preflight" => step > 2)

Sigterm ==
  /\ main # "done"
  /\ IF Blocked THEN sigs' = sigs \cup {"process"} /\ UNCHANGED at
                ELSE Goto("done") /\ UNCHANGED sigs
  /\ UNCHANGED <<start, held, threads, told, history>>

Exited == main = "done" /\ UNCHANGED vars

Dp == DpStarts \/ DpStops \/ DpReturns

Joiner == JoinerJoins \/ JoinerReports

Next ==
  \/ Main \/ ArpReply \/ ArpOther \/ ArpFails \/ ArpDeadline \/ Dp \/ DpWorks \/ DpFails \/ Joiner \/ HcWorks \/ MhWorks
  \/ \E t \in Optional : Woken(t)
  \/ PressQ \/ Sigterm \/ Exited

Spec == Init /\ [][Next]_vars

(* Threads that can run do, and time passes; nothing is assumed of         *)
(* signals, keys, traffic, replies or failures.                            *)
FairSpec ==
  Spec /\ WF_vars(Main) /\ WF_vars(ArpDeadline) /\ WF_vars(Dp) /\ WF_vars(Joiner) /\ \A t \in Optional : WF_vars(Woken(t))

-----------------------------------------------------------------------------
(* Every variable has its type. *)
TypeOK ==
  /\ main \in {"parse", "preflight", "build", "arp", "spawn", "spawn_joiner", "tui", "check", "kill", "join", "inline",
               "cleanup", "done"}
  /\ step \in Nat \ {0}
  /\ built \subseteq Range(Components)
  /\ thread \in [Thread -> {"none", "starting", "running", "returning", "writing", "ended",
                            "joined"}]
  /\ sigs \subseteq {"process", "dp"}

(* Neither the datapath nor the exporter ever uses a destroyed component,  *)
(* nor does the health checker use a destroyed backend table or table      *)
(* generator, wherever in its work main begins to clean up                 *)
(* (main.c:316-331).                                                       *)
LateUseIsOfStatsOnly == misuse \subseteq {<<"hc", "stats">>}

(* When main returns, from wherever it or a thread of its had to give up,  *)
(* all threads it started have been joined, all it built has been          *)
(* destroyed and no descriptor is left open.                               *)
ExitIsClean ==
  main = "done" => built = {} /\ fds = {} /\ \A t \in Thread : thread[t] \in {"none", "joined"}

(* A SIGTERM ends the process, at whatever moment of its life it comes,    *)
(* be it while main waits for an ARP reply among other frames.             *)
SigtermExits == ("process" \in sigs) ~> (main = "done")

(* Once the datapath works, q ends the process, whatever the datapath, its *)
(* joiner and signals from outside do between tui_run's return, the look   *)
(* at is_running, the signal and the join (main.c:112-129).                *)
QuitEndsRunning == (main = "tui" /\ quit /\ is_running) ~> (main = "done")

-----------------------------------------------------------------------------
(* What the comments and the docs say and the code does not do: TLC        *)
(* refutes each of these (README.md, "What the code does not do").         *)

(* q, whenever it is pressed, ends the process (README.md:67,              *)
(* main.c:112-114).                                                        *)
QuitExits == quit ~> (main = "done")

(* The health checker never uses a component that has been destroyed: a    *)
(* thread is stopped before what it may be reading is touched              *)
(* (main.c:318-321).                                                       *)
HealthCheckerUsesLive == \A u \in misuse : u[1] # "hc"

(* The signal that stops the datapath goes to a thread that has not been   *)
(* joined yet (main.c:112-117).                                            *)
KillsUnjoined == ~killed

(* Without a terminal interface main leaves the datapath alone until it    *)
(* stops on its own (main.c:108-109).                                      *)
WaitsWithoutTui == tuiFailed => main # "kill"
=============================================================================
